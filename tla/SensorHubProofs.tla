-------------------------- MODULE SensorHubProofs --------------------------
(***************************************************************************)
(* The sensors, for every machine and every history of the driver, of      *)
(* nvidia-smi and of the counters: at most one tw-nvml thread exists, the  *)
(* power readings are rates of what was used, and a poll leaves out no     *)
(* reading that a display needs and a provider could give.                 *)
(*                                                                         *)
(* What makes the first inductive is the flag `wedged': a thread was left  *)
(* behind only if it is set, and as long as it is set no worker is         *)
(* started.  `wedged' outlives the thread, so the converse does not hold.  *)
(* The rates need the relation of the baseline, the use since it was taken *)
(* and the counter, which goes round once at most between two polls.       *)
(***************************************************************************)
EXTENDS SensorHub, TLAPS

\* The provider's state has its shape; a worker is asked only if no thread was
\* left behind; at most one is, and then NVML is known to hang.
Sound(p) ==
  /\ p \in Providers
  /\ p.backend = "Nvml" => ~p.wedged
  /\ p.stuck <= 1
  /\ p.stuck # 0 => p.wedged

-----------------------------------------------------------------------------
(* Each operation of the provider preserves it. *)

\* Nothing is left behind by going over to another source than NVML.
LEMMA SmiSound ==
  ASSUME NEW p, Sound(p)
  PROVE  Sound(EnterSmi(p)) /\ Sound(EnterUnavailable(p))
<1> DEFINE smi == EnterSmi(p)
           none == EnterUnavailable(p)
<1>1. 0 \in 0 .. EmptyLimit
  BY EmptyLimitAssumption
<1>2. smi \in Providers
  BY <1>1 DEF Sound, EnterSmi, Providers, Backends, Deadlines
<1>3. none \in Providers
  BY <1>1 DEF Sound, EnterUnavailable, Providers, Backends, Deadlines
<1>4. /\ smi.backend = "Smi"
      /\ smi.stuck = p.stuck
      /\ smi.wedged = p.wedged
  BY DEF Sound, EnterSmi, Providers
<1>5. /\ none.backend = "Unavailable"
      /\ none.stuck = p.stuck
      /\ none.wedged = p.wedged
  BY DEF Sound, EnterUnavailable, Providers
<1> HIDE DEF smi, none
<1>6. Sound(smi)
  BY <1>2, <1>4, Zenon DEF Sound
<1>7. Sound(none)
  BY <1>3, <1>5, Zenon DEF Sound
<1> QED
  BY <1>6, <1>7 DEF smi, none

LEMMA FallBackSound ==
  ASSUME NEW p, NEW smi, Sound(p)
  PROVE  Sound(FallBack(p, smi)) /\ FallBack(p, smi).backend # "Nvml"
<1>1. Sound(FallBack(p, smi))
  BY SmiSound DEF FallBack
<1>2. FallBack(p, smi).backend # "Nvml"
  BY DEF FallBack, EnterSmi, EnterUnavailable, Sound, Providers
<1> QED
  BY <1>1, <1>2

\* The state of a provider that gave up on a thread.
LEMMA LeftBehind ==
  ASSUME NEW p, p \in Providers, p.stuck = 0
  PROVE  LET left == [p EXCEPT !.wedged = TRUE, !.stuck = @ + 1]
         IN  /\ left \in Providers
             /\ left.backend = p.backend
             /\ left.wedged
             /\ left.stuck = 1
<1> DEFINE left == [p EXCEPT !.wedged = TRUE, !.stuck = @ + 1]
<1>1. left = [p EXCEPT !.wedged = TRUE, !.stuck = 1]
  BY DEF Providers
<1>2. left \in Providers
  <2> DEFINE given == [p EXCEPT !.wedged = TRUE]
  <2>1. given \in Providers
    BY DEF Providers
  <2>2. left = [given EXCEPT !.stuck = 1]
    BY <1>1 DEF Providers
  <2> HIDE DEF given
  <2> QED
    BY <2>1, <2>2 DEF Providers
<1>3. left.wedged
  BY DEF Providers
<1>4. left.backend = p.backend /\ left.stuck = 1
  BY <1>1 DEF Providers
<1> QED
  BY <1>2, <1>3, <1>4

\* NVML is given up on only while its worker is asked, and so for the first
\* time.
LEMMA DemoteWedgedSound ==
  ASSUME NEW p, NEW smi, Sound(p), p.backend = "Nvml"
  PROVE  /\ Sound(DemoteWedged(p, smi))
         /\ DemoteWedged(p, smi).backend # "Nvml"
<1> DEFINE left == [p EXCEPT !.wedged = TRUE, !.stuck = @ + 1]
           q == DemoteWedged(p, smi)
<1>1. p.stuck = 0 /\ 0 \in 0 .. EmptyLimit
  BY EmptyLimitAssumption DEF Sound, Providers
<1>2. left \in Providers /\ left.wedged /\ left.stuck = 1
  BY <1>1, LeftBehind DEF Sound
<1>3. q = EnterSmi(left) \/ q = EnterUnavailable(left)
  BY DEF DemoteWedged, FallBack
<1> HIDE DEF left
<1>4. q \in Providers
  BY <1>1, <1>2, <1>3
     DEF EnterSmi, EnterUnavailable, Providers, Backends, Deadlines
<1>5. q.backend # "Nvml"
  <2>1. EnterSmi(left).backend # "Nvml"
    BY <1>2 DEF EnterSmi, Providers
  <2>2. EnterUnavailable(left).backend # "Nvml"
    BY <1>2 DEF EnterUnavailable, Providers
  <2> QED
    BY <1>3, <2>1, <2>2
<1>6. q.wedged = left.wedged
  <2>1. EnterSmi(left).wedged = left.wedged
    BY <1>2 DEF EnterSmi, Providers
  <2>2. EnterUnavailable(left).wedged = left.wedged
    BY <1>2 DEF EnterUnavailable, Providers
  <2> QED
    BY <1>3, <2>1, <2>2
<1>7. q.stuck = 1
  BY <1>2, <1>3 DEF EnterSmi, EnterUnavailable, Providers
<1> HIDE DEF q
<1>8. Sound(q)
  <2>1. q.stuck <= 1
    BY <1>7
  <2> QED
    BY <1>2, <1>4, <1>5, <1>6, <2>1, Zenon DEF Sound
<1> QED
  BY <1>5, <1>8 DEF q

\* A start that is given up on is the first: it is not tried on a wedged NVML.
LEMMA TrySpawnSound ==
  ASSUME NEW p, NEW driver, Sound(p), p.backend # "Nvml"
  PROVE  LET t == TrySpawn(p, driver)
         IN  /\ Sound(t.provider)
             /\ t.provider.backend = p.backend
             /\ t.ready => ~t.provider.wedged
<1>1. CASE p.wedged
  BY <1>1 DEF TrySpawn
<1>2. CASE ~p.wedged
  <2>1. CASE Start(driver) = "timed out"
    <3> DEFINE q == Tried(p, driver)
    <3>0. q = [p EXCEPT !.wedged = TRUE, !.stuck = @ + 1]
      BY <2>1 DEF Tried
    <3>1. p \in Providers /\ p.stuck = 0
      BY <1>2 DEF Sound, Providers
    <3>2. q \in Providers /\ q.backend = p.backend /\ q.wedged /\ q.stuck = 1
      BY <3>0, <3>1, LeftBehind
    <3>3. TrySpawn(p, driver) = [ready |-> FALSE, provider |-> q]
      BY <1>2, <2>1 DEF TrySpawn
    <3> HIDE DEF q
    <3>4. Sound(q)
      <4>1. q.stuck <= 1
        BY <3>2
      <4> QED
        BY <3>2, <4>1, Zenon DEF Sound
    <3> QED
      BY <3>2, <3>3, <3>4
  <2>2. CASE Start(driver) # "timed out"
    BY <1>2, <2>2 DEF TrySpawn, Tried
  <2> QED
    BY <2>1, <2>2
<1> QED
  BY <1>1, <1>2

LEMMA EnterNvmlSound ==
  ASSUME NEW p, Sound(p), ~p.wedged
  PROVE  Sound(EnterNvml(p))
<1> DEFINE q == EnterNvml(p)
<1>1. 0 \in 0 .. EmptyLimit
  BY EmptyLimitAssumption
<1>2. q \in Providers
  BY <1>1 DEF Sound, EnterNvml, Providers, Backends, Deadlines
<1>3. q.wedged = p.wedged /\ q.stuck = p.stuck
  BY DEF EnterNvml, Sound, Providers
<1> HIDE DEF q
<1>4. Sound(q)
  BY <1>2, <1>3, Zenon DEF Sound
<1> QED
  BY <1>4 DEF q

LEMMA ProbeSound ==
  ASSUME NEW p, NEW driver, NEW smi, Sound(p), p.backend # "Nvml"
  PROVE  Sound(Probe(p, driver, smi))
BY TrySpawnSound, EnterNvmlSound, FallBackSound DEF Probe

LEMMA UpgradeSound ==
  ASSUME NEW p, NEW driver, Sound(p), p.backend = "Smi"
  PROVE  Sound(Upgrade(p, driver))
<1> DEFINE t == TrySpawn(p, driver)
<1>1. /\ Sound(t.provider)
      /\ t.ready => ~t.provider.wedged
  BY TrySpawnSound
<1> HIDE DEF t
<1>2. CASE t.ready
  <2>1. Upgrade(p, driver) = EnterNvml(t.provider)
    BY <1>2 DEF Upgrade, t
  <2> QED
    BY <1>1, <1>2, <2>1, EnterNvmlSound
<1>3. CASE ~t.ready
  <2>1. Upgrade(p, driver) =
          [t.provider EXCEPT !.deadline =
             IF t.provider.wedged THEN "year" ELSE "ahead"]
    BY <1>3 DEF Upgrade, t
  <2> QED
    BY <1>1, <2>1 DEF Sound, Providers, Deadlines
<1> QED
  BY <1>2, <1>3

LEMMA MaybeReprobeSound ==
  ASSUME NEW p, NEW driver, NEW smi, Sound(p)
  PROVE  Sound(MaybeReprobe(p, driver, smi))
<1>1. CASE p.deadline = "passed" /\ p.backend = "Unavailable"
  BY <1>1, ProbeSound DEF MaybeReprobe
<1>2. CASE p.deadline = "passed" /\ p.backend = "Smi" /\ ~p.wedged
  BY <1>2, UpgradeSound DEF MaybeReprobe
<1>3. CASE /\ ~(p.deadline = "passed" /\ p.backend = "Unavailable")
           /\ ~(p.deadline = "passed" /\ p.backend = "Smi" /\ ~p.wedged)
  BY <1>3 DEF MaybeReprobe
<1> QED
  BY <1>1, <1>2, <1>3

LEMMA PollSmiSound ==
  ASSUME NEW p, NEW smi, Sound(p)
  PROVE  /\ Sound(PollSmi(p, smi).provider)
         /\ Sound(PollFallback(p, smi).provider)
<1>1. Sound([p EXCEPT !.streak = 0])
  BY EmptyLimitAssumption DEF Sound, Providers
<1>2. Sound(CountEmpty(p, smi))
  <2>1. CASE ~Present(smi) \/ p.streak + 1 >= EmptyLimit
    BY <2>1, SmiSound DEF CountEmpty
  <2>2. CASE ~(~Present(smi) \/ p.streak + 1 >= EmptyLimit)
    <3>1. p.streak + 1 \in 0 .. EmptyLimit
      BY <2>2, EmptyLimitAssumption DEF Sound, Providers
    <3>2. CountEmpty(p, smi) = [p EXCEPT !.streak = p.streak + 1]
      BY <2>2 DEF CountEmpty
    <3> QED
      BY <3>1, <3>2 DEF Sound, Providers
  <2> QED
    BY <2>1, <2>2
<1>3. Sound(PollSmi(p, smi).provider)
  BY <1>1, <1>2 DEF PollSmi
<1> QED
  BY <1>3, SmiSound DEF PollFallback

LEMMA PollNvidiaSound ==
  ASSUME NEW p, NEW driver, NEW smi, Sound(p)
  PROVE  Sound(PollNvidia(p, driver, smi).provider)
<1> DEFINE q == MaybeReprobe(p, driver, smi)
<1>1. Sound(q)
  BY MaybeReprobeSound
<1>2. CASE q.backend = "Nvml" /\ driver \in {"lost", "absent"}
  <2>1. Sound(DemoteClean(q, smi))
    BY <1>1, FallBackSound DEF DemoteClean
  <2>2. PollNvidia(p, driver, smi) = PollFallback(DemoteClean(q, smi), smi)
    BY <1>2 DEF PollNvidia
  <2> QED
    BY <2>1, <2>2, PollSmiSound
<1>3. CASE q.backend = "Nvml" /\ driver \in {"stalls", "hangs"}
  <2>1. Sound(DemoteWedged(q, smi))
    BY <1>1, <1>3, DemoteWedgedSound
  <2>2. driver \notin {"lost", "absent"}
    BY <1>3
  <2>3. PollNvidia(p, driver, smi) = PollFallback(DemoteWedged(q, smi), smi)
    BY <1>3, <2>2 DEF PollNvidia
  <2> QED
    BY <2>1, <2>3, PollSmiSound
<1>4. CASE /\ q.backend = "Nvml"
           /\ driver \in {"full", "some"}
  BY <1>1, <1>4 DEF PollNvidia
<1>5. CASE q.backend = "Smi"
  BY <1>1, <1>5, PollSmiSound DEF PollNvidia
<1>6. CASE /\ q.backend # "Smi"
           /\ q.backend = "Nvml" =>
                driver \notin {"lost", "absent", "stalls", "hangs", "full", "some"}
  BY <1>1, <1>6 DEF PollNvidia
<1> QED
  BY <1>2, <1>3, <1>4, <1>5, <1>6

LEMMA EnvironmentSound ==
  ASSUME NEW p, Sound(p)
  PROVE  Sound(Released(p)) /\ Sound(Elapsed(p))
BY DEF Sound, Released, Elapsed, Providers, Deadlines

LEMMA CreatedSound ==
  ASSUME NEW driver, NEW smi
  PROVE  Sound(Created(driver, smi))
<1> DEFINE new == [backend |-> "Unavailable", deadline |-> "passed",
                   streak |-> 0, wedged |-> FALSE, stuck |-> 0]
<1>1. Sound(new) /\ new.backend # "Nvml"
  BY EmptyLimitAssumption DEF Sound, Providers, Backends, Deadlines
<1> HIDE DEF new
<1>2. Created(driver, smi) = Probe(new, driver, smi)
  BY DEF Created, new
<1> QED
  BY <1>1, <1>2, ProbeSound

-----------------------------------------------------------------------------
(* The hub. *)

\* The provider is sound in every state: the hub asks it or leaves it alone,
\* and the machine changes under it.
THEOREM ProviderSound == Spec => []Sound(nvidia)
<1>1. Init => Sound(nvidia)
  BY CreatedSound, PollNvidiaSound DEF Init
<1>2. Sound(nvidia) /\ [Next]_vars => Sound(nvidia)'
  <2> SUFFICES ASSUME Sound(nvidia), [Next]_vars
               PROVE  Sound(nvidia')
    BY DEF Sound
  <2>1. CASE SetLayout
    BY <2>1 DEF SetLayout, read
  <2>2. CASE StartStream
    BY <2>2 DEF StartStream, read
  <2>3. CASE TickEarly
    BY <2>3 DEF TickEarly
  <2>4. CASE Poll
    <3>1. \/ nvidia' = nvidia
          \/ nvidia' = PollNvidia(nvidia, world.driver, world.smi).provider
      BY <2>4 DEF Poll, HubPoll
    <3> QED
      BY <3>1, PollNvidiaSound
  <2>5. ASSUME NEW w, Becomes(w)
        PROVE  Sound(nvidia')
    BY <2>5, EnvironmentSound DEF Becomes
  <2>6. CASE MinutePasses
    BY <2>6, EnvironmentSound DEF MinutePasses
  <2>7. CASE UNCHANGED vars
    BY <2>7 DEF vars, read
  <2> QED
    BY <2>1, <2>2, <2>3, <2>4, <2>5, <2>6, <2>7
       DEF Next, DriverChanges, SmiChanges, ChipAppears, ChipBlocks
<1> QED
  BY <1>1, <1>2, PTL DEF Spec

\* The daemon never has more than one NVML thread, asked or left behind, on
\* any machine and however often the driver hangs and recovers.
THEOREM NeverTwoNvmlThreads == Spec => []OneNvmlThread
<1>1. Sound(nvidia) => OneNvmlThread
  BY DEF Sound, OneNvmlThread, Threads, Providers
<1> QED
  BY <1>1, ProviderSound, PTL

-----------------------------------------------------------------------------
(* The counters.  A rate is the difference of two readings, taken around   *)
(* the wrap where there was one, and the model keeps beside each baseline  *)
(* what was really used since.  Baseline, use and counter are related as   *)
(* long as no poll went by without asking; when one did, the baseline is   *)
(* forgotten before it is asked again.                                     *)

MeterStates == [base : Nat \cup {None}, used : Nat, gap : BOOLEAN,
                rate : [amount : Nat, used : Nat, gap : BOOLEAN] \cup {None}]

\* The use since the baseline is less than a round, with room for one more
\* poll, and it leads from the baseline to the counter.
Covers(meter, now) ==
  /\ Uses # {} => meter.base < Range
  /\ \A u \in Uses : meter.used + u < Range
  /\ meter.base + meter.used \in {now, now + Range}

Truthful(meter) ==
  meter.rate # None => meter.rate.amount = meter.rate.used /\ ~meter.rate.gap

SoundMeter(m, meter, now) ==
  /\ meter \in MeterStates
  /\ Truthful(meter)
  /\ m = "power" /\ meter.base # None /\ ~meter.gap => Covers(meter, now)

SoundMeters(ms, now) ==
  /\ DOMAIN ms = Meters
  /\ \A m \in Meters : SoundMeter(m, ms[m], now)

\* No poll went by without asking for what is needed.
Attended(ms, n) == \A m \in Meters : WantsAny(n, MeterKeys(m)) => ~ms[m].gap

Counted == /\ energy \in Nat /\ (Uses # {} => energy < Range)
           /\ SoundMeters(meters, energy)
           /\ Attended(meters, needed)

\* A counter goes round at most once between two values that are less than a
\* round apart.
LEMMA Around ==
  ASSUME NEW R \in Nat \ {0}, NEW x \in Nat, x < R + R
  PROVE  x % R = IF x < R THEN x ELSE x - R
<1>1. CASE x < R
  BY <1>1, SMT
<1>2. CASE x >= R
  <2>1. /\ x = R * (x \div R) + (x % R)
        /\ x % R \in 0 .. (R - 1) /\ x \div R \in Int
    BY SMT
  <2>2. x \div R = 1
    BY <1>2, <2>1, SMTT(30)
  <2> QED
    BY <1>2, <2>1, <2>2
<1> QED
  BY <1>1, <1>2

LEMMA NoBaseSound ==
  ASSUME NEW m, NEW now
  PROVE  SoundMeter(m, NoBase, now) /\ ~NoBase.gap
<1>1. NoBase \in MeterStates
  BY DEF NoBase, MeterStates
<1>2. NoBase.base = None /\ NoBase.rate = None /\ NoBase.gap = FALSE
  BY DEF NoBase
<1> QED
  BY <1>1, <1>2 DEF SoundMeter, Truthful

\* A baseline is forgotten when its keys come to be needed.
LEMMA RebasedSound ==
  ASSUME NEW ms, NEW now, NEW before, NEW after,
         SoundMeters(ms, now), Attended(ms, before)
  PROVE  /\ SoundMeters(Rebased(ms, before, after), now)
         /\ Attended(Rebased(ms, before, after), after)
<1> DEFINE rs == Rebased(ms, before, after)
<1>1. DOMAIN rs = Meters
  BY DEF Rebased
<1>2. ASSUME NEW m \in Meters
      PROVE  /\ SoundMeter(m, rs[m], now)
             /\ WantsAny(after, MeterKeys(m)) => ~rs[m].gap
  <2>1. CASE rs[m] = NoBase
    BY <2>1, NoBaseSound
  <2>2. CASE rs[m] # NoBase
    <3>1. /\ rs[m] = ms[m]
          /\ WantsAny(before, MeterKeys(m)) \/ ~WantsAny(after, MeterKeys(m))
      BY <2>2 DEF Rebased
    <3> QED
      BY <3>1 DEF SoundMeters, Attended
  <2> QED
    BY <2>1, <2>2
<1> QED
  BY <1>1, <1>2 DEF SoundMeters, Attended

\* What a meter knows after some more use.
LEMMA UsedSound ==
  ASSUME NEW meter \in MeterStates, NEW use \in Uses
  PROVE  LET more == AddUse(meter, use)
         IN  /\ more \in MeterStates /\ more.rate = None
             /\ meter.base = None => more = NoBase
             /\ meter.base # None =>
                  /\ more.base = meter.base /\ more.gap = meter.gap
                  /\ meter.used + use < Range
                       => more.used = meter.used + use
<1>1. Range \in Nat /\ use \in Nat
  BY RangeAssumption
<1>2. CASE meter.base = None
  BY <1>2, NoBaseSound DEF AddUse, NoBase, SoundMeter
<1>3. CASE meter.base # None
  <2> DEFINE total == IF meter.used + use > Range THEN Range
                      ELSE meter.used + use
             more == [meter EXCEPT !.used = total, !.rate = None]
  <2>1. AddUse(meter, use) = more
    BY <1>3 DEF AddUse, MeterStates
  <2>2. meter.used \in Nat
    BY DEF MeterStates
  <2>3. total \in Nat /\ (meter.used + use < Range => total = meter.used + use)
    BY <1>1, <2>2
  <2> HIDE DEF total
  <2>4. /\ more \in MeterStates /\ more.base = meter.base
        /\ more.gap = meter.gap /\ more.rate = None /\ more.used = total
    BY <2>3 DEF MeterStates
  <2> HIDE DEF more
  <2> QED
    BY <1>3, <2>1, <2>3, <2>4
<1> QED
  BY <1>2, <1>3

\* What a counter tells of the time since its baseline is what was used: the
\* counter went round at most once.
LEMMA AmountExact ==
  ASSUME NEW meter \in MeterStates, meter.base # None, NEW now \in Nat,
         now < Range, meter.base < Range, meter.used < Range, Range \in Nat,
         meter.base + meter.used \in {now, now + Range}
  PROVE  Amount("power", meter, now) \in {None, meter.used}
<1>1. meter.base \in Nat /\ meter.used \in Nat
  BY DEF MeterStates
<1>2. CASE now >= meter.base
  <2>1. now - meter.base = meter.used
    BY <1>1, <1>2
  <2> QED
    BY <1>2, <2>1 DEF Amount
<1>3. CASE ~(now >= meter.base)
  <2>1. (Range - meter.base) + now = meter.used
    BY <1>1, <1>3
  <2> QED
    BY <1>3, <2>1 DEF Amount
<1> QED
  BY <1>2, <1>3

\* A counter that is read tells the truth and starts a new baseline.
LEMMA MeasureSound ==
  ASSUME NEW m \in Meters, NEW meter \in MeterStates, NEW long,
         NEW now \in Nat, Uses # {}, now < Range, meter.gap = FALSE,
         Amount(m, meter, now) \in {None, meter.used}
  PROVE  /\ SoundMeter(m, Measure(m, meter, long, now), now)
         /\ ~Measure(m, meter, long, now).gap
<1> DEFINE rate == IF ~long \/ Amount(m, meter, now) = None THEN None
                   ELSE [amount |-> meter.used, used |-> meter.used,
                         gap |-> FALSE]
           base == IF m = "net" THEN 0 ELSE now
           q == [base |-> base, used |-> 0, gap |-> FALSE, rate |-> rate]
<1>1. meter.used \in Nat
  BY DEF MeterStates
<1>2. Measure(m, meter, long, now) = q
  BY DEF Measure
<1>3. /\ rate \in [amount : Nat, used : Nat, gap : BOOLEAN] \cup {None}
      /\ rate # None => rate.amount = rate.used /\ ~rate.gap
  BY <1>1
<1>4. base \in Nat /\ (m = "power" => base = now)
  OBVIOUS
<1> HIDE DEF rate, base
<1>5. q \in MeterStates
  BY <1>3, <1>4 DEF MeterStates
<1>6. q.base = base /\ q.used = 0 /\ q.gap = FALSE /\ q.rate = rate
  OBVIOUS
<1> HIDE DEF q
<1>7. Truthful(q)
  BY <1>3, <1>6 DEF Truthful
<1>8. m = "power" => Covers(q, now)
  BY <1>4, <1>6, RangeAssumption DEF Covers
<1> QED
  BY <1>2, <1>5, <1>6, <1>7, <1>8 DEF SoundMeter

\* The counters after a poll.  A counter that could not be read keeps its
\* baseline, and the poll came before it could go round.
LEMMA MeteredSound ==
  ASSUME NEW n, NEW ms, NEW readable \in BOOLEAN, NEW long, NEW use \in Uses,
         NEW e \in Nat, e < Range, SoundMeters(ms, e), Attended(ms, n),
         readable \/ \A u \in Uses : ms["power"].used + use + u < Range
  PROVE  LET now == (e + use) % Range
             after == Metered(n, ms, readable, long, use, now)
         IN  /\ now \in Nat /\ now < Range
             /\ SoundMeters(after, now) /\ Attended(after, n)
<1> DEFINE now == (e + use) % Range
           after == Metered(n, ms, readable, long, use, now)
<1>1. /\ Range \in Nat \ {0} /\ use \in Nat /\ use < Range
      /\ \A u \in Uses : u \in Nat
  BY RangeAssumption
<1>2. now \in Nat /\ now < Range /\ e + use \in {now, now + Range}
  <2>1. e + use \in Nat /\ e + use < Range + Range
    BY <1>1
  <2>2. \A x \in Nat : x < Range + Range
                         => x % Range = IF x < Range THEN x ELSE x - Range
    BY <1>1, Around, Zenon
  <2>3. PICK x \in Nat : x = e + use
    BY <2>1
  <2>4. now = IF x < Range THEN x ELSE x - Range
    BY <2>1, <2>2, <2>3, Zenon
  <2> HIDE DEF now
  <2> QED
    BY <1>1, <2>1, <2>3, <2>4
<1> HIDE DEF now
<1>3. ASSUME NEW m \in Meters
      PROVE  /\ SoundMeter(m, after[m], now)
             /\ WantsAny(n, MeterKeys(m)) => ~after[m].gap
  <2> DEFINE meter == ms[m]
             more == AddUse(meter, use)
  <2>1. meter \in MeterStates /\ SoundMeter(m, meter, e)
    BY DEF SoundMeters, SoundMeter
  <2>2. WantsAny(n, MeterKeys(m)) => ~meter.gap
    BY DEF Attended
  <2>3. /\ more \in MeterStates /\ more.rate = None
        /\ meter.base = None => more = NoBase
        /\ meter.base # None => /\ more.base = meter.base
                                /\ more.gap = meter.gap
                                /\ meter.used + use < Range
                                     => more.used = meter.used + use
    BY <2>1, UsedSound
  <2>4. after[m] = IF ~WantsAny(n, MeterKeys(m))
                   THEN [more EXCEPT !.gap = more.base # None]
                   ELSE IF m = "power" /\ ~readable THEN more
                   ELSE Measure(m, more, long, now)
    BY DEF Metered
  <2>5. m = "power" => m # "net" /\ ms["power"] = meter
    OBVIOUS
  <2> HIDE DEF more, meter, after
  <2>6. CASE ~WantsAny(n, MeterKeys(m))
    <3> DEFINE gap == more.base # None
               q == [more EXCEPT !.gap = gap]
    <3>1. after[m] = q
      BY <2>4, <2>6
    <3>2. gap \in BOOLEAN /\ (more.base # None => gap)
      OBVIOUS
    <3> HIDE DEF gap
    <3>3. /\ q \in MeterStates /\ q.rate = None /\ q.base = more.base
          /\ q.gap = gap
      BY <2>3, <3>2 DEF MeterStates
    <3> HIDE DEF q
    <3> QED
      BY <2>6, <3>1, <3>2, <3>3 DEF SoundMeter, Truthful
  <2>7. CASE WantsAny(n, MeterKeys(m)) /\ meter.base = None
    <3>1. more = NoBase /\ more.gap = FALSE /\ more.base = None
      BY <2>3, <2>7 DEF NoBase
    <3>2. Amount(m, more, now) = None
      BY <3>1 DEF Amount
    <3>3. Uses # {}
      OBVIOUS
    <3>4. /\ SoundMeter(m, Measure(m, more, long, now), now)
          /\ ~Measure(m, more, long, now).gap
      BY <1>2, <2>3, <3>1, <3>2, <3>3, MeasureSound
    <3> QED
      BY <2>4, <2>7, <3>1, <3>4, NoBaseSound
  <2>8. CASE WantsAny(n, MeterKeys(m)) /\ meter.base # None
    <3>1. more.gap = FALSE /\ ~meter.gap
      BY <2>2, <2>3, <2>8 DEF MeterStates
    <3>2. meter.base = more.base /\ meter.used \in Nat
      BY <2>1, <2>3, <2>8 DEF MeterStates
    <3>3. ASSUME m = "power"
          PROVE  /\ more.used = meter.used + use /\ more.used < Range
                 /\ more.base \in Nat /\ more.base < Range
                 /\ more.base + more.used \in {now, now + Range}
      <4>1. Covers(meter, e)
        BY <2>1, <2>8, <3>1, <3>3 DEF SoundMeter
      <4>2. meter.used + use < Range /\ meter.base < Range
        BY <4>1 DEF Covers
      <4>3. more.base \in Nat
        BY <2>1, <2>8, <3>2 DEF MeterStates
      <4>4. more.used = meter.used + use
        BY <2>3, <2>8, <4>2
      <4>5. meter.base + meter.used \in {e, e + Range}
        BY <4>1 DEF Covers
      <4> QED
        BY <1>1, <1>2, <3>2, <4>2, <4>3, <4>4, <4>5
    <3>4. CASE m = "power" /\ ~readable
      <4>1. \A u \in Uses : more.used + u < Range
        BY <2>5, <3>3, <3>4
      <4>2. Covers(more, now)
        BY <3>3, <3>4, <4>1 DEF Covers
      <4>3. after[m] = more
        BY <2>4, <2>8, <3>4
      <4> QED
        BY <2>3, <3>1, <4>2, <4>3 DEF SoundMeter, Truthful
    <3>5. CASE ~(m = "power" /\ ~readable)
      <4>1. Amount(m, more, now) \in {None, more.used}
        <5>1. CASE m = "net"
          BY <5>1 DEF Amount
        <5>2. CASE m = "power"
          BY <1>1, <1>2, <2>3, <2>8, <3>2, <3>3, <5>2, AmountExact
        <5> QED
          BY <5>1, <5>2 DEF Meters
      <4>2. Uses # {}
        OBVIOUS
      <4>3. /\ SoundMeter(m, Measure(m, more, long, now), now)
            /\ ~Measure(m, more, long, now).gap
        BY <1>2, <2>3, <3>1, <4>1, <4>2, MeasureSound
      <4> QED
        BY <2>4, <2>8, <3>5, <4>3
    <3> QED
      BY <3>4, <3>5
  <2> QED
    BY <2>6, <2>7, <2>8
<1>4. DOMAIN after = Meters
  BY DEF Metered
<1> QED
  BY <1>2, <1>3, <1>4 DEF SoundMeters, Attended, now

-----------------------------------------------------------------------------
\* What the tick loop does to the counters before it polls.
LEMMA NewBaselinesSound ==
  ASSUME Counted, NEW n
  PROVE  /\ SoundMeters(NewBaselines(n), energy)
         /\ Attended(NewBaselines(n), n)
<1> DEFINE ms == Rebased(meters, needed, Received)
<1>1. SoundMeters(ms, energy) /\ Attended(ms, Received)
  BY RebasedSound DEF Counted
<1> HIDE DEF ms
<1> QED
  BY <1>1, RebasedSound DEF NewBaselines, ms

LEMMA InitCounted == Init => Counted
<1> SUFFICES ASSUME Init
             PROVE  Counted
  OBVIOUS
<1>1. /\ energy = 0 /\ energy \in Nat
      /\ Uses # {} => energy < Range
  BY RangeAssumption DEF Init
<1> DEFINE zero == [NoBase EXCEPT !.base = 0]
<1>2. /\ DOMAIN meters = Meters
      /\ \A m \in Meters : meters[m] \in {NoBase, zero}
  BY DEF Init
<1>3. /\ NoBase \in MeterStates
      /\ NoBase.used = 0 /\ NoBase.rate = None /\ NoBase.gap = FALSE
  BY NoBaseSound DEF SoundMeter, NoBase
<1>4. /\ zero \in MeterStates /\ zero.rate = None /\ zero.gap = FALSE
      /\ zero.base = 0 /\ zero.used = 0
  BY <1>3 DEF MeterStates
<1>5. Covers(zero, energy)
  BY <1>1, <1>4, RangeAssumption DEF Covers
<1> HIDE DEF zero
<1>6. \A m \in Meters : SoundMeter(m, zero, energy)
  BY <1>4, <1>5 DEF SoundMeter, Truthful
<1>7. \A m \in Meters : SoundMeter(m, meters[m], energy) /\ ~meters[m].gap
  BY <1>2, <1>3, <1>4, <1>6, NoBaseSound
<1> QED
  BY <1>1, <1>2, <1>7 DEF Counted, SoundMeters, Attended

LEMMA PollCounted ==
  ASSUME Counted, Poll
  PROVE  Counted'
<1> DEFINE n == FromRecipe(Received)
           before == NewBaselines(n)
<1>1. SoundMeters(before, energy) /\ Attended(before, n)
  BY NewBaselinesSound
<1>2. HubPoll(n, before) /\ needed' = n
  BY DEF Poll, Tick
<1> HIDE DEF n, before
<1>3. PICK readable \in BOOLEAN, use \in Uses :
        /\ readable \/ \A u \in Uses : before["power"].used + use + u < Range
        /\ energy' = (energy + use) % Range
        /\ meters' = Metered(n, before, readable, data # <<>>, use,
                             (energy + use) % Range)
  BY <1>2 DEF HubPoll
<1>4. energy \in Nat /\ energy < Range
  BY DEF Counted
<1>5. /\ energy' \in Nat /\ energy' < Range
      /\ SoundMeters(meters', energy') /\ Attended(meters', n)
  BY <1>1, <1>3, <1>4, MeteredSound
<1> QED
  BY <1>2, <1>5 DEF Counted

\* Baseline, use and counter stay related, and a counter that is needed was
\* asked at every poll.
THEOREM CountersSound == Spec => []Counted
<1>1. Counted /\ [Next]_vars => Counted'
  <2> SUFFICES ASSUME Counted, [Next]_vars
               PROVE  Counted'
    OBVIOUS
  <2>1. CASE UNCHANGED <<meters, energy, needed>>
    BY <2>1 DEF Counted
  <2>2. CASE TickEarly
    <3> DEFINE n == FromRecipe(Received)
    <3>1. meters' = NewBaselines(n) /\ needed' = n /\ energy' = energy
      BY <2>2 DEF TickEarly, Tick
    <3> HIDE DEF n
    <3> QED
      BY <3>1, NewBaselinesSound DEF Counted
  <2>3. CASE Poll
    BY <2>3, PollCounted
  <2> QED
    BY <2>1, <2>2, <2>3
       DEF Next, SetLayout, StartStream, DriverChanges, SmiChanges,
           ChipAppears, ChipBlocks, Becomes, MinutePasses, vars, wanted, read
<1> QED
  BY <1>1, InitCounted, PTL DEF Spec

\* A reported power or throughput is what was used since the last poll that
\* asked for it, around the wrap or not, on any machine and whatever layouts
\* and streams are shown in between.  (RaplProvider::poll, set_needed_keys)
THEOREM RatesAreTruthful == Spec => []RatesTruthful
<1>1. Counted => RatesTruthful
  BY DEF Counted, SoundMeters, SoundMeter, Truthful, RatesTruthful
<1> QED
  BY <1>1, CountersSound, PTL

-----------------------------------------------------------------------------
(* The poll of the hub.  Each provider is asked or skipped on what the     *)
(* ones before it read; what was read is never lost again.                 *)

Nothing == [got |-> <<>>, asked |-> {}]

\* The readings after one more provider
Asked(p, n, ms, gpu, r) ==
  IF Asks(n, p, DOMAIN r.got)
  THEN [got |-> Join(r.got, p, Readings(p, n, ms, gpu)),
        asked |-> r.asked \cup {p}]
  ELSE r

LEMMA AskSingle ==
  ASSUME NEW p, NEW n, NEW ms, NEW gpu, NEW r
  PROVE  Ask(p, n, ms, gpu, {r}) = {Asked(p, n, ms, gpu, r)}
BY DEF Ask, Asked

\* A provider adds to the readings, and all it reads when it is asked.
LEMMA AskedReads ==
  ASSUME NEW p, NEW n, NEW ms, NEW gpu, NEW r
  PROVE  LET q == Asked(p, n, ms, gpu, r)
         IN  /\ DOMAIN r.got \subseteq DOMAIN q.got
             /\ \A k \in Readings(p, n, ms, gpu) :
                   Wants(n, k) /\ CanRead(p, k) => k \in DOMAIN q.got
<1> DEFINE keys == Readings(p, n, ms, gpu)
           more == Join(r.got, p, keys)
<1>1. DOMAIN more = DOMAIN r.got \cup keys
  BY DEF Join
<1>2. CASE Asks(n, p, DOMAIN r.got)
  <2>1. Asked(p, n, ms, gpu, r).got = more
    BY <1>2 DEF Asked
  <2> QED
    BY <1>1, <2>1
<1>3. CASE ~Asks(n, p, DOMAIN r.got)
  <2>1. Asked(p, n, ms, gpu, r) = r
    BY <1>3 DEF Asked
  <2>2. \A k : Wants(n, k) /\ CanRead(p, k) => k \in DOMAIN r.got
    BY <1>3 DEF Asks, Wants
  <2> QED
    BY <2>1, <2>2
<1> QED
  BY <1>2, <1>3

\* The hub asks the six providers one after the other.
LEMMA CollectedChain ==
  ASSUME NEW n, NEW ms, NEW gpu
  PROVE  LET r1 == Asked("hwmon", n, ms, gpu, Nothing)
             r2 == Asked("sysinfo", n, ms, gpu, r1)
             r3 == Asked("nvidia", n, ms, gpu, r2)
             r4 == Asked("amdgpu", n, ms, gpu, r3)
             r5 == Asked("mangohud", n, ms, gpu, r4)
             r6 == Asked("rapl", n, ms, gpu, r5)
         IN  Collected(n, ms, gpu) = {r6}
<1> DEFINE r1 == Asked("hwmon", n, ms, gpu, Nothing)
           r2 == Asked("sysinfo", n, ms, gpu, r1)
           r3 == Asked("nvidia", n, ms, gpu, r2)
           r4 == Asked("amdgpu", n, ms, gpu, r3)
           r5 == Asked("mangohud", n, ms, gpu, r4)
           r6 == Asked("rapl", n, ms, gpu, r5)
           Chain(after) ==
             [i \in 0 .. Len(Order) |->
                IF i = 0 THEN {Nothing}
                ELSE Ask(Order[i], n, ms, gpu, after[i - 1])]
           f == [i \in 0 .. 6 |->
                   CASE i = 0 -> {Nothing} [] i = 1 -> {r1} [] i = 2 -> {r2}
                     [] i = 3 -> {r3} [] i = 4 -> {r4} [] i = 5 -> {r5}
                     [] OTHER -> {r6}]
           after == CHOOSE g : g = Chain(g)
<1>1. /\ Len(Order) = 6
      /\ Order[1] = "hwmon" /\ Order[2] = "sysinfo" /\ Order[3] = "nvidia"
      /\ Order[4] = "amdgpu" /\ Order[5] = "mangohud" /\ Order[6] = "rapl"
  BY DEF Order
<1>2. /\ Ask("hwmon", n, ms, gpu, {Nothing}) = {r1}
      /\ Ask("sysinfo", n, ms, gpu, {r1}) = {r2}
      /\ Ask("nvidia", n, ms, gpu, {r2}) = {r3}
      /\ Ask("amdgpu", n, ms, gpu, {r3}) = {r4}
      /\ Ask("mangohud", n, ms, gpu, {r4}) = {r5}
      /\ Ask("rapl", n, ms, gpu, {r5}) = {r6}
  BY AskSingle
<1>3. Collected(n, ms, gpu) = after[Len(Order)]
  BY DEF Collected, Nothing
<1> HIDE DEF r1, r2, r3, r4, r5, r6
<1>4. /\ f[0] = {Nothing} /\ f[1] = {r1} /\ f[2] = {r2} /\ f[3] = {r3}
      /\ f[4] = {r4} /\ f[5] = {r5} /\ f[6] = {r6}
  OBVIOUS
<1>5. f = Chain(f)
  <2>1. \A i \in 0 .. 6 : f[i] = Chain(f)[i]
    <3> SUFFICES ASSUME NEW i \in 0 .. 6
                 PROVE  f[i] = IF i = 0 THEN {Nothing}
                               ELSE Ask(Order[i], n, ms, gpu, f[i - 1])
      BY <1>1
    <3> HIDE DEF f
    <3>1. CASE i = 0
      BY <1>4, <3>1
    <3>2. CASE i = 1
      BY <1>1, <1>2, <1>4, <3>2
    <3>3. CASE i = 2
      <4>1. f[i] = {r2} /\ f[i - 1] = {r1} /\ i # 0 /\ Order[i] = "sysinfo"
        BY <1>1, <1>4, <3>3
      <4> QED
        BY <1>2, <4>1
    <3>4. CASE i = 3
      <4>1. f[i] = {r3} /\ f[i - 1] = {r2} /\ i # 0 /\ Order[i] = "nvidia"
        BY <1>1, <1>4, <3>4
      <4> QED
        BY <1>2, <4>1
    <3>5. CASE i = 4
      <4>1. f[i] = {r4} /\ f[i - 1] = {r3} /\ i # 0 /\ Order[i] = "amdgpu"
        BY <1>1, <1>4, <3>5
      <4> QED
        BY <1>2, <4>1
    <3>6. CASE i = 5
      <4>1. f[i] = {r5} /\ f[i - 1] = {r4} /\ i # 0 /\ Order[i] = "mangohud"
        BY <1>1, <1>4, <3>6
      <4> QED
        BY <1>2, <4>1
    <3>7. CASE i = 6
      <4>1. f[i] = {r6} /\ f[i - 1] = {r5} /\ i # 0 /\ Order[i] = "rapl"
        BY <1>1, <1>4, <3>7
      <4> QED
        BY <1>2, <4>1
    <3> QED
      BY <3>1, <3>2, <3>3, <3>4, <3>5, <3>6, <3>7
  <2>2. f = [i \in 0 .. 6 |-> f[i]]
    OBVIOUS
  <2> HIDE DEF f
  <2> QED
    BY <1>1, <2>1, <2>2
<1>6. after = Chain(after)
  BY <1>5
<1> HIDE DEF f, after
<1>7. /\ after[0] = {Nothing}
      /\ after[1] = Ask(Order[1], n, ms, gpu, after[0])
      /\ after[2] = Ask(Order[2], n, ms, gpu, after[1])
      /\ after[3] = Ask(Order[3], n, ms, gpu, after[2])
      /\ after[4] = Ask(Order[4], n, ms, gpu, after[3])
      /\ after[5] = Ask(Order[5], n, ms, gpu, after[4])
      /\ after[6] = Ask(Order[6], n, ms, gpu, after[5])
  BY <1>1, <1>6
<1>8. after[6] = {r6}
  BY <1>1, <1>2, <1>7, Zenon
<1> QED
  BY <1>1, <1>3, <1>8 DEF r1, r2, r3, r4, r5, r6

\* NVML and nvidia-smi read keys of the GPU.
LEMMA NvidiaKeys ==
  ASSUME NEW p, NEW driver, NEW smi
  PROVE  PollNvidia(p, driver, smi).keys \subseteq GpuKeys
BY DEF PollNvidia, PollFallback, PollSmi, SmiKeys, NvmlKeys, GpuKeys,
       SomeGpuKeys

Providing == {"hwmon", "sysinfo", "nvidia", "amdgpu", "mangohud", "rapl"}

\* A needed key that some provider reads is among the readings.
LEMMA CollectedReads ==
  ASSUME NEW n, NEW ms, NEW gpu, NEW all \in Collected(n, ms, gpu),
         NEW p \in Providing, NEW k \in Readings(p, n, ms, gpu),
         Wants(n, k), CanRead(p, k)
  PROVE  k \in DOMAIN all.got
<1> DEFINE r1 == Asked("hwmon", n, ms, gpu, Nothing)
           r2 == Asked("sysinfo", n, ms, gpu, r1)
           r3 == Asked("nvidia", n, ms, gpu, r2)
           r4 == Asked("amdgpu", n, ms, gpu, r3)
           r5 == Asked("mangohud", n, ms, gpu, r4)
           r6 == Asked("rapl", n, ms, gpu, r5)
<1>1. all = r6
  BY CollectedChain
<1>2. /\ DOMAIN r1.got \subseteq DOMAIN r2.got
      /\ DOMAIN r2.got \subseteq DOMAIN r3.got
      /\ DOMAIN r3.got \subseteq DOMAIN r4.got
      /\ DOMAIN r4.got \subseteq DOMAIN r5.got
      /\ DOMAIN r5.got \subseteq DOMAIN r6.got
  BY AskedReads
<1>3. p = "hwmon" => k \in DOMAIN r1.got
  BY AskedReads
<1>4. p = "sysinfo" => k \in DOMAIN r2.got
  BY AskedReads
<1>5. p = "nvidia" => k \in DOMAIN r3.got
  BY AskedReads
<1>6. p = "amdgpu" => k \in DOMAIN r4.got
  BY AskedReads
<1>7. p = "mangohud" => k \in DOMAIN r5.got
  BY AskedReads
<1>8. p = "rapl" => k \in DOMAIN r6.got
  BY AskedReads
<1> HIDE DEF r1, r2, r3, r4, r5, r6
<1> QED
  BY <1>1, <1>2, <1>3, <1>4, <1>5, <1>6, <1>7, <1>8 DEF Providing

\* The chips that are asked read whatever key of theirs is needed.
LEMMA ChipsServe ==
  ASSUME NEW n, NEW k \in ChipKeys(world.chips \ hwmon.slow), Wants(n, k)
  PROVE  k \in ChipKeys(PolledChips(n))
<1> DEFINE well == (world.chips \ hwmon.slow) \ world.blocked
<1>1. \A c \in well : Serves(n, c) => c \in PolledChips(n) \ world.blocked
  BY DEF PolledChips, ShouldPoll
<1>2. CASE \E c \in well : k = ChipKey[c]
  BY <1>1, <1>2 DEF Serves, Wants, ChipKeys
<1>3. CASE k = "cpu_temp" /\ well \cap CpuChips # {}
  BY <1>1, <1>3 DEF Serves, Wants, ChipKeys
<1> QED
  BY <1>2, <1>3 DEF ChipKeys

\* Skipping providers and chips, and stopping once nothing is missing, loses no
\* reading of a needed key: whatever asking everything would read is read, on
\* every machine and whatever the layouts need.  (SensorHub::poll,
\* should_poll_chip, wants_any)
THEOREM NeededIsRead == Spec => NeededRead
<1>1. ASSUME Poll
      PROVE  EverythingRead
  <2> DEFINE n == FromRecipe(Received)
             gpu == PollNvidia(nvidia, world.driver, world.smi)
             before == NewBaselines(n)
  <2>1. HubPoll(n, before) /\ needed' = n
    BY <1>1 DEF Poll, Tick
  <2> HIDE DEF n, before
  <2>2. PICK all \in Collected(n, meters', gpu) : data' = all.got
    BY <2>1 DEF HubPoll
  <2> SUFFICES ASSUME NEW k \in Keys, Wants(n, k),
                      \/ k \in ChipKeys(world.chips \ hwmon.slow)
                      \/ k \in SysinfoKeys \ NetKeys
                      \/ k \in gpu.keys
                      \/ k \in AmdReads \cup MangoReads
                      \/ \E m \in Meters : /\ k \in MeterKeys(m)
                                           /\ meters'[m].rate # None
               PROVE  k \in DOMAIN all.got
    BY <2>1, <2>2 DEF EverythingRead
  <2> HIDE DEF gpu
  <2>3. CASE k \in ChipKeys(world.chips \ hwmon.slow)
    <3>1. k \in Readings("hwmon", n, meters', gpu) /\ CanRead("hwmon", k)
      BY <2>3, ChipsServe DEF Readings, CanRead
    <3> QED
      BY <3>1, CollectedReads DEF Providing
  <2>4. CASE k \in SysinfoKeys \ NetKeys
    <3>1. k \in Readings("sysinfo", n, meters', gpu) /\ CanRead("sysinfo", k)
      BY <2>4 DEF Readings, CanRead, SysinfoReads
    <3> QED
      BY <3>1, CollectedReads DEF Providing
  <2>5. CASE k \in gpu.keys
    <3>1. k \in Readings("nvidia", n, meters', gpu)
      BY <2>5 DEF Readings
    <3>2. CanRead("nvidia", k)
      BY <2>5, NvidiaKeys DEF CanRead, gpu
    <3> QED
      BY <3>1, <3>2, CollectedReads DEF Providing
  <2>6. CASE k \in AmdReads
    <3>1. k \in Readings("amdgpu", n, meters', gpu) /\ CanRead("amdgpu", k)
      BY <2>6 DEF Readings, CanRead, AmdReads
    <3> QED
      BY <3>1, CollectedReads DEF Providing
  <2>7. CASE k \in MangoReads
    <3>1. k \in Readings("mangohud", n, meters', gpu) /\ CanRead("mangohud", k)
      BY <2>7 DEF Readings, CanRead, MangoReads
    <3> QED
      BY <3>1, CollectedReads DEF Providing
  <2>8. CASE k \in MeterKeys("power") /\ meters'["power"].rate # None
    <3>1. k \in Readings("rapl", n, meters', gpu) /\ CanRead("rapl", k)
      BY <2>8 DEF Readings, CanRead, RaplReads, MeterKeys
    <3> QED
      BY <3>1, CollectedReads DEF Providing
  <2>9. CASE k \in MeterKeys("net") /\ meters'["net"].rate # None
    <3>1. k \in Readings("sysinfo", n, meters', gpu) /\ CanRead("sysinfo", k)
      BY <2>9 DEF Readings, CanRead, SysinfoReads, SysinfoKeys, MeterKeys
    <3> QED
      BY <3>1, CollectedReads DEF Providing
  <2> QED
    BY <2>3, <2>4, <2>5, <2>6, <2>7, <2>8, <2>9 DEF Meters
<1> QED
  BY <1>1, PTL DEF NeededRead
=============================================================================
