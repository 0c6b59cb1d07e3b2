--------------------------- MODULE NvidiaProvider ---------------------------
(***************************************************************************)
(* The NVIDIA sensor provider (src/sensor/nvidia.rs) as functions of       *)
(* its state: which of its two sources it asks, when it tries another one, *)
(* and what a poll costs.                                                  *)
(*                                                                         *)
(* NVML calls cannot be cancelled.  A worker thread makes them, and the    *)
(* provider waits at most one budget (500 ms) for the start of the worker  *)
(* and for each answer; a worker it gave up on stays behind, blocked in    *)
(* the driver.  nvidia-smi is a child process, killed after one budget.    *)
(*                                                                         *)
(* The driver and nvidia-smi are the environment: what they do during a    *)
(* poll is given.                                                          *)
(***************************************************************************)
EXTENDS Naturals

CONSTANT EmptyLimit  \* SMI_EMPTY_FAIL_LIMIT: empty answers of nvidia-smi in a
                     \* row after which it is left alone

ASSUME EmptyLimitAssumption == EmptyLimit \in Nat \ {0}

GpuKeys == {"gpu_temp", "gpu_util", "gpu_power", "vram_used", "vram_total"}

\* Hybrid and mobile GPUs do not support every query.
SomeGpuKeys == {"gpu_temp", "gpu_util"}

Drivers == {
  "absent",    \* no library, no driver or no device: the start fails at once
  "full",      \* every query is answered
  "some",      \* some queries are answered
  "lost",      \* the start succeeds, the device is not found
  "stalls",    \* the start succeeds, a query never returns
  "hangs"}     \* the start never returns

\* nvidia-smi is not installed, answers, fails or prints nothing, never ends.
Smis == {"missing", "full", "silent", "hangs"}

Backends == {"Nvml", "Smi", "Unavailable"}

\* reprobe_at and retry_at: a deadline REPROBE_BACKOFF away that has passed or
\* not, or the year for which a wedged NVML is left alone.
Deadlines == {"ahead", "passed", "year"}

Providers == [backend: Backends, deadline: Deadlines, streak: 0 .. EmptyLimit,
              wedged: BOOLEAN, stuck: Nat]

\* The tw-nvml threads that exist: the worker asked, and those left behind.
Threads(p) == p.stuck + (IF p.backend = "Nvml" THEN 1 ELSE 0)

-----------------------------------------------------------------------------
(* Changing the source. *)

Present(smi) == smi # "missing"

\* enter_smi
EnterSmi(p) ==
  [p EXCEPT !.backend = "Smi", !.streak = 0,
            !.deadline = IF p.wedged THEN "year" ELSE "ahead"]

\* enter_unavailable
EnterUnavailable(p) ==
  [p EXCEPT !.backend = "Unavailable", !.streak = 0, !.deadline = "ahead"]

FallBack(p, smi) == IF Present(smi) THEN EnterSmi(p) ELSE EnterUnavailable(p)

\* demote_nvml_clean: the worker is dropped, and its thread ends.
DemoteClean(p, smi) == FallBack(p, smi)

\* Faulty variant: a worker that does not answer is taken for one that failed.
DemoteWedged_Clean(p, smi) == FallBack([p EXCEPT !.stuck = @ + 1], smi)

\* demote_nvml_wedged: the thread stays blocked in the driver.
DemoteWedged(p, smi) ==
  FallBack([p EXCEPT !.wedged = TRUE, !.stuck = @ + 1], smi)

\* NvmlWorker::spawn: the start is ready, fails, or is given up on.
Start(driver) ==
  CASE driver = "absent" -> "failed"
    [] driver = "hangs"  -> "timed out"
    [] OTHER             -> "ready"

\* try_spawn_nvml, on a provider that is not wedged
Tried(p, driver) ==
  IF Start(driver) = "timed out"
  THEN [p EXCEPT !.wedged = TRUE, !.stuck = @ + 1]
  ELSE p

TrySpawn(p, driver) ==
  IF p.wedged
  THEN [ready |-> FALSE, provider |-> p]
  ELSE [ready |-> Start(driver) = "ready", provider |-> Tried(p, driver)]

EnterNvml(p) == [p EXCEPT !.backend = "Nvml", !.streak = 0, !.deadline = "ahead"]

\* probe_backend
Probe(p, driver, smi) ==
  LET t == TrySpawn(p, driver)
  IN  IF t.ready THEN EnterNvml(t.provider) ELSE FallBack(t.provider, smi)

\* The other half of maybe_reprobe: nvidia-smi is kept unless NVML starts.
Upgrade(p, driver) ==
  LET t == TrySpawn(p, driver)
  IN  IF t.ready THEN EnterNvml(t.provider)
      ELSE [t.provider EXCEPT !.deadline =
              IF t.provider.wedged THEN "year" ELSE "ahead"]

\* Faulty variant: an unavailable source is not tried again once NVML wedged.
MaybeReprobe_UnlessWedged(p, driver, smi) ==
  CASE p.deadline = "passed" /\ p.backend = "Unavailable" /\ ~p.wedged
         -> Probe(p, driver, smi)
    [] p.deadline = "passed" /\ p.backend = "Smi" /\ ~p.wedged
         -> Upgrade(p, driver)
    [] OTHER -> p

\* maybe_reprobe
MaybeReprobe(p, driver, smi) ==
  CASE p.deadline = "passed" /\ p.backend = "Unavailable"
         -> Probe(p, driver, smi)
    [] p.deadline = "passed" /\ p.backend = "Smi" /\ ~p.wedged
         -> Upgrade(p, driver)
    [] OTHER -> p

-----------------------------------------------------------------------------
(* A poll. *)

\* collect_nvml_readings
NvmlKeys(driver) ==
  CASE driver = "full" -> GpuKeys
    [] driver = "some" -> SomeGpuKeys
    [] OTHER           -> {}

\* poll_smi and parse_csv_line
SmiKeys(smi) == IF smi = "full" THEN GpuKeys ELSE {}

\* poll_via_smi_backend, on a provider that asks nvidia-smi
CountEmpty(p, smi) ==
  LET streak == p.streak + 1
  IN  IF ~Present(smi) \/ streak >= EmptyLimit
      THEN EnterUnavailable(p)
      ELSE [p EXCEPT !.streak = streak]

PollSmi(p, smi) ==
  [provider |-> IF SmiKeys(smi) = {} THEN CountEmpty(p, smi)
                ELSE [p EXCEPT !.streak = 0],
   keys     |-> SmiKeys(smi)]

\* poll_via_smi_backend, after a demotion
PollFallback(p, smi) ==
  IF p.backend = "Smi" THEN PollSmi(p, smi)
  ELSE [provider |-> EnterUnavailable(p), keys |-> {}]

\* NvidiaProvider::poll, when one of its keys is needed
PollNvidia(p, driver, smi) ==
  LET q == MaybeReprobe(p, driver, smi)
  IN  CASE q.backend = "Nvml" /\ driver \in {"lost", "absent"}
             -> PollFallback(DemoteClean(q, smi), smi)
        [] q.backend = "Nvml" /\ driver \in {"stalls", "hangs"}
             -> PollFallback(DemoteWedged(q, smi), smi)
        [] q.backend = "Nvml" /\ driver \in {"full", "some"}
             -> [provider |-> q, keys |-> NvmlKeys(driver)]
        [] q.backend = "Smi"  -> PollSmi(q, smi)
        [] OTHER              -> [provider |-> q, keys |-> {}]

\* The calls a driver was blocked in return; the threads find nobody waiting.
Released(p) == [p EXCEPT !.stuck = 0]

\* A minute goes by.
Elapsed(p) ==
  IF p.backend # "Nvml" /\ p.deadline = "ahead"
  THEN [p EXCEPT !.deadline = "passed"] ELSE p

\* NvidiaProvider::with_smi_path: the first probe
Created(driver, smi) ==
  Probe([backend |-> "Unavailable", deadline |-> "passed", streak |-> 0,
         wedged |-> FALSE, stuck |-> 0], driver, smi)
=============================================================================
