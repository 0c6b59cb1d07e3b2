----------------------------- MODULE SensorHub -----------------------------
(***************************************************************************)
(* The sensors of the daemon: the hub that polls the providers in the      *)
(* order of their precedence (src/sensor/mod.rs), the providers (the       *)
(* other files of src/sensor), and the keys the displays need, which       *)
(* the mode listener sends to the tick loop on a watch channel whenever a  *)
(* layout or a stream is shown (src/main.rs, src/service/tick.rs,          *)
(* src/sensor/needed_keys.rs).                                             *)
(*                                                                         *)
(* A provider is only asked if it can read a needed key that is missing.   *)
(* Power and throughput are differences of counters between two polls, so  *)
(* the providers that report them forget their baseline when their keys    *)
(* come to be needed again.                                                *)
(***************************************************************************)
EXTENDS Integers, FiniteSets, Sequences, NvidiaProvider

CONSTANTS
  Displays,    \* number of [[displays]]; 1 is the primary, or the only one
  Layouts,     \* layouts
  Stream,      \* the primary shows a stream and not a layout
  Fixed,       \* Fixed[l]: keys of l's history graphs, sensor variables and
               \* bindings, found without knowing the sensors of the machine
  Tokens,      \* Tokens[l]: keys that occur in the template of l
  Chips,       \* hwmon chips
  CpuChips,    \* those that measure a CPU
  ChipKey,     \* ChipKey[c]: the key of chip c's own reading
  None,        \* every key is needed; no baseline, no reading
  Range,       \* max_energy_range_uj, in units of energy
  Machines,    \* machines to start on
  Uses,        \* bound: units of energy used between two polls
  MaxChanges   \* bound: changes of the machine

ASSUME SomeDisplay == Displays \in Nat \ {0}

ASSUME CpuChipsAreChips == CpuChips \subseteq Chips

\* A counter is read before it has gone round once.
ASSUME RangeAssumption ==
  /\ Range \in Nat
  /\ Uses \subseteq Nat \ {0}
  /\ \A u, v \in Uses: u + v < Range

ASSUME MachinesAssumption ==
  Machines \subseteq [driver: Drivers, smi: Smis, amd: BOOLEAN, game: BOOLEAN,
                      range: BOOLEAN, chips: SUBSET Chips,
                      blocked: SUBSET Chips]

ASSUME ChangesAssumption == MaxChanges \in Nat

VARIABLES
  shown,    \* what each display shows
  mail,     \* the watch channel needed_tx: <<keys>> not received yet, or <<>>
  recipe,   \* the watch channel recipe_tx
  needed,   \* needed_keys of the hub and of its providers
  catalog,  \* last_catalog, as published to the mode listener
  hwmon,    \* HwmonProvider
  nvidia,   \* NvidiaProvider
  meters,   \* the counters of RaplProvider and SysinfoProvider
  energy,   \* energy_uj
  data,     \* the readings of the last poll: the provider of each key
  world,    \* the machine
  changes   \* bounded events so far

wanted == <<shown, mail, recipe, needed>>
read   == <<catalog, hwmon, nvidia, meters, energy, data>>
vars   == <<shown, mail, recipe, needed, catalog, hwmon, nvidia,
            meters, energy, data, world, changes>>

NetKeys == {"net_rx", "net_tx"}
SysinfoKeys == {"ram_used", "cpu_util"} \cup NetKeys
MangoKeys == {"fps", "frametime"}
Meters == {"power", "net"}
MeterKeys(m) == IF m = "power" THEN {"cpu_power"} ELSE NetKeys

Keys == {"cpu_temp", "cpu_power"} \cup {ChipKey[c]: c \in Chips}
          \cup SysinfoKeys \cup GpuKeys \cup MangoKeys

\* declared_keys: what the providers can read, readable now or not
Declared == {"cpu_temp", "cpu_power"} \cup SysinfoKeys \cup GpuKeys
              \cup MangoKeys

Bootstrap == {"cpu_temp", "gpu_temp", "ram_used"}

\* with_default_providers: earlier providers win.
Order == <<"hwmon", "sysinfo", "nvidia", "amdgpu", "mangohud", "rapl">>

\* Some(keys) or None contains a key.
Wants(n, k) == n = None \/ k \in n
WantsAny(n, ks) == \E k \in ks: Wants(n, k)

-----------------------------------------------------------------------------
(* The keys a layout needs. *)

\* The token scan of layout_needed_keys
Scan(l) == Tokens[l] \cap (catalog \cup Declared)

\* layout_needed_keys
NeededKeys(l) ==
  LET used == Fixed[l] \cup Scan(l)
  IN  IF used = {} THEN catalog \cap Bootstrap ELSE used

\* send_layout_needed_keys: an unknown machine, or nothing to need, is None.
LayoutMail(l) ==
  IF catalog = {} \/ NeededKeys(l) = {} THEN None ELSE NeededKeys(l)

\* needed_tx.send: a value that was not received yet is replaced.
Send(keys) == mail' = <<keys>>

\* ModeChange::SetLayout committed.  The recipe goes out just before the keys;
\* it is not used while keys are needed.
SetLayout ==
  \E l \in Layouts:
    /\ shown' = [shown EXCEPT ![1] = l]
    /\ recipe' = l
    /\ Send(LayoutMail(l))
    /\ UNCHANGED <<needed, world, changes, read>>

\* ModeChange::Xvfb and XvfbArgv committed
StartStream ==
  /\ shown' = [shown EXCEPT ![1] = Stream]
  /\ Send({})
  /\ UNCHANGED <<recipe, needed, world, changes, read>>

-----------------------------------------------------------------------------
(* Counters. *)

NoBase == [base |-> None, used |-> 0, gap |-> FALSE, rate |-> None]

\* Faulty variant: the baseline is kept while nobody asks.
Rebased_Kept(ms, before, after) == ms

\* set_needed_keys of RaplProvider and SysinfoProvider
Rebased(ms, before, after) ==
  [m \in Meters |->
     IF ~WantsAny(before, MeterKeys(m)) /\ WantsAny(after, MeterKeys(m))
     THEN NoBase ELSE ms[m]]

\* What a counter says was used since its baseline, None if it cannot tell:
\* energy_uj wraps, and its range may be unreadable; traffic does not.
Amount(m, meter, now) ==
  IF meter.base = None THEN None
  ELSE IF m = "net" THEN meter.used
  ELSE IF now >= meter.base THEN now - meter.base
  ELSE IF world.range THEN (Range - meter.base) + now
  ELSE None

AddUse(meter, use) ==
  IF meter.base = None THEN NoBase
  ELSE [meter EXCEPT !.used = IF @ + use > Range THEN Range ELSE @ + use,
                     !.rate = None]

\* A counter is read: RaplProvider::poll, the throughput in
\* SysinfoProvider::poll.  used and gap are history: what really was used
\* since the baseline, and whether a poll went by without asking.
Measure(m, meter, long, now) ==
  [base |-> IF m = "net" THEN 0 ELSE now, used |-> 0, gap |-> FALSE,
   rate |-> IF ~long \/ Amount(m, meter, now) = None THEN None
            ELSE [amount |-> Amount(m, meter, now),
                  used |-> meter.used, gap |-> meter.gap]]

\* The counters at a poll, so much later than the last one and after so much
\* use.
Metered(n, ms, readable, long, use, now) ==
  [m \in Meters |->
     LET meter == AddUse(ms[m], use)
     IN  IF ~WantsAny(n, MeterKeys(m))
         THEN [meter EXCEPT !.gap = meter.base # None]
         ELSE IF m = "power" /\ ~readable THEN meter
         ELSE Measure(m, meter, long, now)]

-----------------------------------------------------------------------------
(* hwmon. *)

DiscoveryPolls == 2

\* chip_serves_needed
Serves(n, c) ==
  \/ n = None
  \/ ChipKey[c] \in n
  \/ c \in CpuChips /\ "cpu_temp" \in n

\* should_poll_chip.  What a chip costs does not matter here: cheap chips
\* nobody needs are skipped as well.
ShouldPoll(n, c) ==
  /\ c \notin hwmon.slow
  /\ \/ hwmon.polls < DiscoveryPolls
     \/ Serves(n, c)
     \/ c \notin hwmon.known

PolledChips(n) == {c \in world.chips: ShouldPoll(n, c)}

\* A chip that blocks is quarantined, and what it read is dropped.
ChipKeys(cs) ==
  {ChipKey[c]: c \in cs \ world.blocked}
    \cup (IF (cs \ world.blocked) \cap CpuChips # {} THEN {"cpu_temp"} ELSE {})

HwmonAfter(n) ==
  [polls |-> IF hwmon.polls < DiscoveryPolls THEN hwmon.polls + 1
             ELSE hwmon.polls,
   known |-> hwmon.known \cup PolledChips(n),
   slow  |-> hwmon.slow \cup (PolledChips(n) \cap world.blocked)]

-----------------------------------------------------------------------------
(* The hub. *)

\* What wants_any of a provider compares with the missing keys
CanRead(p, k) ==
  CASE p = "hwmon"    -> TRUE
    [] p = "sysinfo"  -> k \in SysinfoKeys
    [] p = "nvidia"   -> k \in GpuKeys
    [] p = "amdgpu"   -> k \in GpuKeys
    [] p = "mangohud" -> k \in MangoKeys
    [] p = "rapl"     -> k = "cpu_power"

\* SysinfoProvider::poll: what is needed is refreshed and reported.
SysinfoReads(n, ms) ==
  {k \in SysinfoKeys: Wants(n, k) /\ (k \in NetKeys => ms["net"].rate # None)}

\* AmdGpuProvider::poll: the first card of AMD that tells anything
AmdReads == IF world.amd THEN GpuKeys ELSE {}

\* The newest log has a last line that is complete.
Logged == world.game

MangoReads == IF Logged THEN MangoKeys ELSE {}

RaplReads(ms) == IF ms["power"].rate # None THEN {"cpu_power"} ELSE {}

\* The readings of a provider that is asked, n being needed
Readings(p, n, ms, gpu) ==
  CASE p = "hwmon"    -> ChipKeys(PolledChips(n))
    [] p = "sysinfo"  -> SysinfoReads(n, ms)
    [] p = "nvidia"   -> gpu.keys
    [] p = "amdgpu"   -> AmdReads
    [] p = "mangohud" -> MangoReads
    [] p = "rapl"     -> RaplReads(ms)

\* Faulty variant: a provider is asked only if none of the needed keys it can
\* read is there yet.
Asks_Once(n, p, got) ==
  \/ n = None
  \/ /\ \E k \in n \ got: CanRead(p, k)
     /\ p # "hwmon" => ~\E k \in n \cap got: CanRead(p, k)

\* A provider is skipped if it can read no missing key, and so is the rest
\* once no key is missing.
Asks(n, p, got) == n = None \/ \E k \in n \ got: CanRead(p, k)

Join(got, p, keys) ==
  [k \in DOMAIN got \cup keys |-> IF k \in DOMAIN got THEN got[k] ELSE p]

\* The readings and the providers asked, after one more provider.  What comes
\* out is given as the set of its one value.
Ask(p, n, ms, gpu, before) ==
  {IF Asks(n, p, DOMAIN r.got)
   THEN [got |-> Join(r.got, p, Readings(p, n, ms, gpu)),
         asked |-> r.asked \cup {p}]
   ELSE r: r \in before}

Collected(n, ms, gpu) ==
  LET after[i \in 0 .. Len(Order)] ==
        IF i = 0 THEN {[got |-> <<>>, asked |-> {}]}
        ELSE Ask(Order[i], n, ms, gpu, after[i - 1])
  IN  after[Len(Order)]

\* available_sensors of the providers
Discovered(readable) ==
  ChipKeys(world.chips \ hwmon.slow) \cup SysinfoKeys \cup GpuKeys
    \cup MangoKeys \cup (IF readable THEN {"cpu_power"} ELSE {})

\* SensorHub::poll, n being needed.  The first poll of the tick loop follows
\* the one at the start of the daemon at once: too soon to tell a rate.
HubPoll(n, before) ==
  \E readable \in BOOLEAN, use \in Uses:
    LET long == data # <<>>
        now  == (energy + use) % Range
    IN  /\ readable \/ \A u \in Uses: before["power"].used + use + u < Range
        /\ \E ms  \in {Metered(n, before, readable, long, use, now)},
              gpu \in {PollNvidia(nvidia, world.driver, world.smi)}:
             \E all \in Collected(n, ms, gpu):
               /\ data' = all.got
               /\ hwmon' = IF "hwmon" \in all.asked THEN HwmonAfter(n)
                           ELSE hwmon
               /\ nvidia' = IF "nvidia" \in all.asked THEN gpu.provider
                            ELSE nvidia
               /\ meters' = ms
               /\ energy' = now
               /\ catalog' = catalog \cup DOMAIN all.got

-----------------------------------------------------------------------------
(* The tick loop. *)

\* The keys the next poll goes by: what came in, or, as long as every key is
\* needed, what the recipe needs.
Received == IF mail = <<>> THEN needed ELSE Head(mail)

FromRecipe(n) ==
  IF n = None /\ recipe # None THEN LayoutMail(recipe) ELSE n

Tick(n) ==
  /\ n = FromRecipe(Received)
  /\ needed' = n
  /\ mail' = <<>>
  /\ UNCHANGED <<shown, recipe, world, changes>>

NewBaselines(n) == Rebased(Rebased(meters, needed, Received), Received, n)

\* An iteration of the tick loop before the poll interval is over
TickEarly ==
  LET n == FromRecipe(Received)
  IN  /\ mail # <<>>
      /\ Tick(n)
      /\ meters' = NewBaselines(n)
      /\ UNCHANGED <<catalog, hwmon, nvidia, energy, data>>

\* An iteration that polls
Poll ==
  LET n == FromRecipe(Received)
  IN  /\ Tick(n)
      /\ HubPoll(n, NewBaselines(n))

-----------------------------------------------------------------------------
(* The machine. *)

Blocking == {"stalls", "hangs"}

Becomes(w) ==
  /\ changes < MaxChanges
  /\ w # world
  /\ changes' = changes + 1
  /\ world' = w
  /\ nvidia' = IF w.driver \in Blocking THEN nvidia ELSE Released(nvidia)
  /\ UNCHANGED <<wanted, catalog, hwmon, meters, energy, data>>

DriverChanges == \E d \in Drivers: Becomes([world EXCEPT !.driver = d])

SmiChanges == \E s \in Smis: Becomes([world EXCEPT !.smi = s])

ChipAppears == \E c \in Chips: Becomes([world EXCEPT !.chips = @ \cup {c}])

ChipBlocks == \E c \in Chips: Becomes([world EXCEPT !.blocked = {c}])

MinutePasses ==
  /\ nvidia' = Elapsed(nvidia)
  /\ UNCHANGED <<wanted, catalog, hwmon, meters, energy, data, world,
                 changes>>

-----------------------------------------------------------------------------

\* What main sends first: the keys of the layouts of all displays, if any.
FirstMail ==
  LET union == UNION {NeededKeys(shown[d]): d \in 1 .. Displays}
  IN  IF union = {} THEN <<>> ELSE <<union>>

\* The daemon polls once before it knows what is needed, lists the sensors of
\* the providers, and sends the keys of all displays.
Init ==
  /\ world \in Machines
  /\ shown \in [1 .. Displays -> Layouts]
  /\ hwmon = [polls |-> 1, known |-> world.chips, slow |-> {}]
  /\ nvidia = PollNvidia(Created(world.driver, world.smi), world.driver,
                         world.smi).provider
  /\ \E readable \in BOOLEAN:
       /\ catalog = Discovered(readable)
       /\ meters = [m \in Meters |->
                      IF m = "power" /\ ~readable THEN NoBase
                      ELSE [NoBase EXCEPT !.base = 0]]
  /\ energy = 0
  /\ data = <<>>
  /\ needed = None
  /\ recipe = IF Displays = 1 THEN shown[1] ELSE None
  /\ mail = FirstMail
  /\ changes = 0

Next ==
  \/ SetLayout
  \/ StartStream
  \/ TickEarly
  \/ Poll
  \/ DriverChanges
  \/ SmiChanges
  \/ ChipAppears
  \/ ChipBlocks
  \/ MinutePasses

\* The tick loop polls again and again, and time passes.  A poll is always
\* possible, and changes energy as nothing else does.
Fairness ==
  /\ []<><<energy' # energy>>_energy
  /\ WF_nvidia(MinutePasses)

Spec == Init /\ [][Next]_vars /\ Fairness

-----------------------------------------------------------------------------
(* Properties. *)

\* The shape of the state.
TypeOK ==
  /\ shown \in [1 .. Displays -> Layouts \cup {Stream}]
  /\ recipe \in Layouts \cup {None}
  /\ catalog \subseteq Keys
  /\ nvidia \in Providers
  /\ hwmon \in [polls: 0 .. DiscoveryPolls, known: SUBSET Chips,
                slow: SUBSET Chips]
  /\ energy \in 0 .. Range - 1
  /\ DOMAIN data \subseteq Keys

\* However often the driver hangs and recovers, the provider never has more
\* than one NVML thread: it does not pile up threads blocked in the driver.
OneNvmlThread == Threads(nvidia) <= 1

\* A reported power or throughput is what was used since the last poll that
\* asked for it, wrapped counter or not, and never an average over a time in
\* which no display needed it.
RatesTruthful ==
  \A m \in Meters:
    LET rate == meters[m].rate
    IN  rate # None => rate.amount = rate.used /\ ~rate.gap

\* Skipping providers, chips and the rest of the list loses nothing: a needed
\* key that polling everything would read is among the readings.
EverythingRead ==
  \A k \in Keys:
    /\ Wants(needed', k)
    /\ \/ k \in ChipKeys(world.chips \ hwmon.slow)
       \/ k \in SysinfoKeys \ NetKeys
       \/ k \in PollNvidia(nvidia, world.driver, world.smi).keys
       \/ k \in AmdReads \cup MangoReads
       \/ \E m \in Meters: k \in MeterKeys(m) /\ meters'[m].rate # None
    => k \in DOMAIN data'

NeededRead == [][Poll => EverythingRead]_vars

\* The GPU answers: NVML was not given up on, or nvidia-smi does.
GpuAnswers ==
  \/ world.driver \in {"full", "some"} /\ ~nvidia.wedged
  \/ world.smi = "full"

\* A GPU that answers again is read again, whatever it did before, unless
\* NVML was given up on and nvidia-smi does not answer.
GpuReturns ==
  <>[](GpuAnswers /\ Wants(needed, "gpu_temp")) => []<>("gpu_temp" \in DOMAIN data)
=============================================================================
