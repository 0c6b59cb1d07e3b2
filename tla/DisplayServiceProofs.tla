------------------------ MODULE DisplayServiceProofs ------------------------
(***************************************************************************)
(* The D-Bus service, for any number of clients, calls, edits, crashes and *)
(* any layouts, variables, images and rates: what the daemon says of its   *)
(* mode, its rate, its variables and its background agrees with what the   *)
(* listener installed and with config.toml whenever no call is halfway,    *)
(* and a save keeps what others wrote.                                     *)
(*                                                                         *)
(* Each of these facts relates two pieces of state that a call changes in  *)
(* different steps, with other calls in between.  The invariant says, for  *)
(* every step of every call, how far the two may be apart; the locks say   *)
(* that at most one call is at such a step.                                *)
(***************************************************************************)
EXTENDS DisplayService, SequenceTheorems, TLAPS

\* The calls that take mode_change_lock, and those that may have the listener
\* build a layout again.
ModeOps == {"set_layout", "stream", "set_layout_vars", "reload"}
Rebuilds == {"set_layout_vars", "reload"}

Asking == {"send", "wait"}
Answered == {"done", "refused"}

-----------------------------------------------------------------------------
(* The inductive invariant *)

\* Where a call can be, and what it has copied by then.
Placed(k) ==
  /\ k.op = "none" => k = NoCall
  /\ k.op = "set_layout" =>
       /\ k.arg \in Layouts
       /\ k.at \in {"mode"} \union Asking \union Answered
       /\ k.at \in Asking \union Answered => k.kept \in Vars
  /\ k.op = "stream" => k.at \in {"mode"} \union Asking \union Answered
  /\ k.op = "set_layout_vars" =>
       /\ k.arg \in Layouts \X Vars
       /\ k.at \in {"mode", "write", "saved", "commit"} \union Asking
                     \union Answered
       /\ k.at \in Asking => k.kept = k.arg[2]
  /\ k.op = "set_default_layout" =>
       /\ k.arg \in Layouts
       /\ k.at \in {"write", "saved", "commit"}
  /\ k.op = "set_background" =>
       /\ k.arg \in Images \union {None}
       /\ k.at \in {"background", "write", "saved", "undo", "undone"}
                     \union Asking \union Answered
       /\ k.at # "background" => k.kept \in Images \union {None}
  /\ k.op = "reload" =>
       /\ k.at \in {"mode", "write", "commit"} \union Asking \union Answered
       /\ k.at = "commit" => k.kept \in Config
       /\ k.at \in Asking => k.kept \in Vars
  /\ k.op # "set_tick_rate"

CallsPlaced == \A c \in Clients: Placed(call[c])

\* A lock is held by exactly the call that is between taking and dropping it.
HoldsMode(k) == k.op \in ModeOps /\ k.at # "mode"
HoldsBackground(k) == k.op = "set_background" /\ k.at # "background"
HoldsWrite(k) == k.at \in {"saved", "undone"}

LocksHeld ==
  \A c \in Clients:
    /\ locks.mode = c <=> HoldsMode(call[c])
    /\ locks.background = c <=> HoldsBackground(call[c])
    /\ locks.write = c <=> HoldsWrite(call[c])

\* What the call that holds the write lock is saving.
SavedBy(k) ==
  IF k.at = "undone" THEN Save("image", k.kept)
  ELSE CASE k.op = "set_layout_vars" -> Save("vars", k.arg)
         [] k.op = "set_default_layout" -> Save("layout", k.arg)
         [] OTHER -> Save("image", k.arg)

\* The daemon's edit is that of the holder of the write lock.  An edit whose
\* file was replaced since it was read is marked, and the histories know.
EditsTracked ==
  /\ edit["daemon"] = None <=> locks.write = None
  /\ \A c \in Clients:
       locks.write = c => edit["daemon"].save = SavedBy(call[c])
  /\ \A p \in Processes:
       edit[p] # None /\ ~edit[p].raced => edit[p].file = disk
  /\ edit["daemon"] # None /\ edit["daemon"].raced => outside /\ adrift

\* A request in the channel is that of a call that waits for it.
QueueTracked ==
  /\ \A i \in DOMAIN queue: /\ call[queue[i].from].at = "wait"
                            /\ queue[i] = Request(queue[i].from)
  /\ \A i, j \in DOMAIN queue: queue[i].from = queue[j].from => i = j

\* Nothing is in progress in a daemon that does not run.
DownIsEmpty ==
  ~up => /\ \A c \in Clients: call[c] = NoCall
         /\ queue = <<>>

\* The program and the mode agree but for a call that was acknowledged and
\* has not committed yet, and a first [[displays]] entry with its own mode.
ProgramIsMode == misnamed \/ (shown.program = Capture <=> state.mode = Stream)

ModeAt(k) ==
  CASE k.op = "set_layout" /\ k.at = "done" -> shown.program # Capture
    [] k.op = "stream" /\ k.at = "done" -> shown.program = Capture
    [] OTHER -> /\ ProgramIsMode
                /\ k.op \in Rebuilds /\ k.at \in Asking => state.mode # Stream

ModeTracked ==
  up => /\ locks.mode = None => ProgramIsMode
        /\ \A c \in Clients: locks.mode = c => ModeAt(call[c])

\* The rate to return to is the one last chosen: kept while a stream runs
\* that the daemon was asked for, in use otherwise.
RateTracked ==
  /\ shown.rate = state.rate
  /\ state.pre # None => state.pre = chosen /\ state.mode = Stream
  /\ state.pre = None => state.rate = chosen
  /\ \A c \in Clients:
       locks.mode = c /\ call[c].op = "stream" => call[c].kept = state.rate

\* The variables of the file and the mirror differ by what the call between
\* its save, or its load, and its commit is about to commit.
Stored(k) ==
  IF k.at # "commit" THEN mirror.vars = disk.vars
  ELSE disk.vars = IF k.op = "reload" THEN k.kept.vars
                   ELSE [mirror.vars EXCEPT ![k.arg[1]] = k.arg[2]]

VarsStored ==
  up /\ ~outside =>
    /\ locks.mode = None => mirror.vars = disk.vars
    /\ \A c \in Clients: locks.mode = c => Stored(call[c])

\* A layout on the display shows the variables of the mirror, or a rebuild is
\* asked for or was refused; what is asked for would show them.
LayoutCurrent ==
  \/ untold
  \/ shown.program = Capture
  \/ shown.program.vars = mirror.vars[shown.program.layout]

Asked(k) ==
  CASE k.op = "set_layout" -> Layout(k.arg, k.kept)
    [] k.op = "set_layout_vars" -> Layout(k.arg[1], k.kept)
    [] k.op = "reload" -> Layout(state.layout, k.kept)
    [] OTHER -> Capture

VarsAt(k) ==
  /\ (k.op \in Rebuilds /\ k.at \in Asking) \/ LayoutCurrent
  /\ k.at \in Asking /\ k.op # "stream"
       => k.kept = mirror.vars[Asked(k).layout]

VarsShown ==
  up => /\ locks.mode = None => LayoutCurrent
        /\ \A c \in Clients: locks.mode = c => VarsAt(call[c])

\* The image of the file at each step of a background call, and the one on
\* the display.
ImageAt(k) ==
  /\ k.kept = mirror.image
  /\ disk.image = IF k.at \in {"write", "saved"} THEN k.kept ELSE k.arg

Remembered ==
  \/ dropped
  \/ /\ shown.background = state.background
     /\ adrift \/ mirror.image = state.background

BackgroundAt(k) ==
  /\ IF k.at = "done" THEN ~dropped /\ shown.background = k.arg
     ELSE Remembered
  /\ adrift \/ ImageAt(k)

BackgroundTracked ==
  up => /\ dropped => shown.background = None
        /\ locks.background = None =>
             Remembered /\ (adrift \/ disk.image = mirror.image)
        /\ \A c \in Clients: locks.background = c => BackgroundAt(call[c])

IInv == /\ TypeOK /\ CallsPlaced /\ LocksHeld /\ EditsTracked /\ QueueTracked
        /\ DownIsEmpty /\ ModeTracked /\ RateTracked
        /\ VarsStored /\ VarsShown /\ BackgroundTracked

-----------------------------------------------------------------------------
(* Lemmas about the operators *)

LEMMA LockNames == DOMAIN Unlocked = {"mode", "write", "background"}
  BY DEF Unlocked

LEMMA CallShape ==
    ASSUME TypeOK, NEW c \in Clients
    PROVE  /\ call[c] \in Calls
           /\ call[c].op \in Ops \union {"none"}
           /\ call[c].arg \in {None} \union Layouts \union (Layouts \X Vars)
                                \union Images
           /\ call[c].at \in Steps
           /\ call[c].kept \in {None, StreamRate} \union Vars \union Rates
                                 \union Images \union Config
  BY DEF TypeOK, Calls

\* Which call it is decides where it can be.
LEMMA CallKinds ==
    ASSUME TypeOK, CallsPlaced, NEW c \in Clients
    PROVE  /\ Placed(call[c])
           /\ call[c].op \in {"none", "set_layout", "stream",
                             "set_layout_vars", "set_default_layout",
                             "set_background", "reload"}
           /\ call[c].op = "none" => call[c] = NoCall /\ call[c].at = "idle"
<1>1. Placed(call[c])
  BY DEF CallsPlaced
<1>2. call[c].op \in Ops \union {"none"} /\ call[c].op # "set_tick_rate"
  BY <1>1, CallShape DEF Placed
<1>3. call[c].op = "none" => call[c] = NoCall
  BY <1>1 DEF Placed
<1>4. NoCall.at = "idle"
  BY DEF NoCall
<1>5. call[c].op \in {"none", "set_layout", "stream", "set_layout_vars",
                     "set_default_layout", "set_background", "reload"}
  BY <1>2, OpsKnown
<1> QED
  BY <1>1, <1>3, <1>4, <1>5

LEMMA NoCallTyped == NoCall \in Calls
  BY DEF NoCall, Calls, Steps

\* A step that moves one call on.
LEMMA GotoMoves ==
    ASSUME TypeOK, NEW c \in Clients, NEW at \in Steps, Goto(c, at)
    PROVE  /\ call' \in [Clients -> Calls]
           /\ \A d \in Clients \ {c}: call'[d] = call[d]
           /\ call'[c].op = call[c].op
           /\ call'[c].arg = call[c].arg
           /\ call'[c].at = at
           /\ call'[c].kept = call[c].kept
<1>1. call \in [Clients -> Calls] /\ call[c] \in Calls
  BY DEF TypeOK
<1>2. [call[c] EXCEPT !.at = at] \in Calls
  BY <1>1 DEF Calls
<1>3. call' = [call EXCEPT ![c] = [call[c] EXCEPT !.at = at]]
  BY DEF Goto
<1> QED
  BY <1>1, <1>2, <1>3 DEF Calls

\* One that also copies what the call needs.
LEMMA KeepMoves ==
    ASSUME TypeOK, NEW c \in Clients, NEW at \in Steps,
           NEW kept \in {None, StreamRate} \union Vars \union Rates
                          \union Images \union Config,
           call' = [call EXCEPT ![c].at = at, ![c].kept = kept]
    PROVE  /\ call' \in [Clients -> Calls]
           /\ \A d \in Clients \ {c}: call'[d] = call[d]
           /\ call'[c].op = call[c].op
           /\ call'[c].arg = call[c].arg
           /\ call'[c].at = at
           /\ call'[c].kept = kept
<1>1. call \in [Clients -> Calls] /\ call[c] \in Calls
  BY DEF TypeOK
<1>2. [[call[c] EXCEPT !.at = at] EXCEPT !.kept = kept] \in Calls
  BY <1>1 DEF Calls
<1>3. call' = [call EXCEPT ![c] =
                 [[call[c] EXCEPT !.at = at] EXCEPT !.kept = kept]]
  BY <1>1
<1> QED
  BY <1>1, <1>2, <1>3 DEF Calls

\* One that ends a call: its locks are free, the others are held as before.
LEMMA ReturnMoves ==
    ASSUME TypeOK, NEW c \in Clients, Return(c)
    PROVE  /\ call' \in [Clients -> Calls]
           /\ call'[c] = NoCall
           /\ \A d \in Clients \ {c}: call'[d] = call[d]
           /\ locks' \in [DOMAIN Unlocked -> Clients \union {None}]
           /\ locks'.mode = IF locks.mode = c THEN None ELSE locks.mode
           /\ locks'.write = IF locks.write = c THEN None ELSE locks.write
           /\ locks'.background = IF locks.background = c THEN None
                                  ELSE locks.background
  BY LockNames, NoCallTyped DEF TypeOK, Return

LEMMA LockTaken ==
    ASSUME TypeOK, NEW c \in Clients
    PROVE  /\ locks' = [locks EXCEPT !.mode = c] =>
                /\ locks' \in [DOMAIN Unlocked -> Clients \union {None}]
                /\ locks'.mode = c
                /\ locks'.write = locks.write
                /\ locks'.background = locks.background
           /\ locks' = [locks EXCEPT !.write = c] =>
                /\ locks' \in [DOMAIN Unlocked -> Clients \union {None}]
                /\ locks'.mode = locks.mode
                /\ locks'.write = c
                /\ locks'.background = locks.background
           /\ locks' = [locks EXCEPT !.background = c] =>
                /\ locks' \in [DOMAIN Unlocked -> Clients \union {None}]
                /\ locks'.mode = locks.mode
                /\ locks'.write = locks.write
                /\ locks'.background = c
           /\ locks' = [locks EXCEPT !.write = None] =>
                /\ locks' \in [DOMAIN Unlocked -> Clients \union {None}]
                /\ locks'.mode = locks.mode
                /\ locks'.write = None
                /\ locks'.background = locks.background
  BY LockNames DEF TypeOK

\* A save changes its own section.
LEMMA SavedSections ==
    ASSUME NEW file \in Config, NEW s \in Saves
    PROVE  /\ Saved(file, s) \in Config
           /\ Saved(file, s).rate = file.rate
           /\ Saved(file, s).first = file.first
           /\ Saved(file, s).valid = file.valid
           /\ s.what # "vars" => Saved(file, s).vars = file.vars
           /\ s.what = "vars" =>
                /\ s.value[1] \in Layouts
                /\ Saved(file, s).vars =
                     [file.vars EXCEPT ![s.value[1]] = s.value[2]]
           /\ s.what # "layout" => /\ Saved(file, s).layout = file.layout
                                   /\ Saved(file, s).mode = file.mode
           /\ s.what # "image" => Saved(file, s).image = file.image
           /\ s.what = "image" => Saved(file, s).image = s.value
<1>1. CASE \E l \in Layouts, v \in Vars: s = Save("vars", <<l, v>>)
  <2> PICK l \in Layouts, v \in Vars: s = Save("vars", <<l, v>>)
    BY <1>1
  <2>1. s.what = "vars" /\ s.value[1] = l /\ s.value[2] = v
    BY DEF Save
  <2>2. Saved(file, s) = [file EXCEPT !.vars = [file.vars EXCEPT ![l] = v]]
    BY <2>1 DEF Saved, Config
  <2>3. [file.vars EXCEPT ![l] = v] \in [Layouts -> Vars]
    BY DEF Config
  <2> QED
    BY <2>1, <2>2, <2>3 DEF Config
<1>2. CASE \E l \in Layouts: s = Save("layout", l)
  <2> PICK l \in Layouts: s = Save("layout", l)
    BY <1>2
  <2>1. s.what = "layout" /\ s.value = l
    BY DEF Save
  <2>2. Saved(file, s) = [file EXCEPT !.layout = l, !.mode = "layout"]
    BY <2>1 DEF Saved
  <2> QED
    BY <2>1, <2>2 DEF Config
<1>3. CASE \E i \in Images \union {None}: s = Save("image", i)
  <2> PICK i \in Images \union {None}: s = Save("image", i)
    BY <1>3
  <2>1. s.what = "image" /\ s.value = i
    BY DEF Save
  <2>2. Saved(file, s) = [file EXCEPT !.image = i]
    BY <2>1 DEF Saved
  <2> QED
    BY <2>1, <2>2 DEF Config
<1> QED
  BY <1>1, <1>2, <1>3 DEF Saves

LEMMA SavedByCall ==
    ASSUME TypeOK, CallsPlaced, NEW c \in Clients,
           call[c].at \in {"write", "undo"}, call[c].op # "reload"
    PROVE  /\ SaveOf(call[c]) \in Saves
           /\ \A k \in Calls: k.op = call[c].op /\ k.arg = call[c].arg
                /\ k.kept = call[c].kept
                /\ k.at = (IF call[c].at = "undo" THEN "undone" ELSE "saved")
                => SavedBy(k) = SaveOf(call[c])
<1>1. /\ Placed(call[c])
      /\ call[c].op \in {"set_layout", "stream", "set_layout_vars",
                        "set_default_layout", "set_background"}
  BY CallKinds
<1>2. CASE call[c].at = "undo"
  <2>1. call[c].op = "set_background" /\ call[c].kept \in Images \union {None}
    BY <1>1, <1>2, SMT DEF Placed, Asking, Answered
  <2>2. SaveOf(call[c]) = Save("image", call[c].kept)
    BY <1>2 DEF SaveOf
  <2>3. SaveOf(call[c]) \in Saves
    BY <2>1, <2>2 DEF Saves
  <2> QED
    BY <1>2, <2>2, <2>3 DEF SavedBy
<1>3. CASE call[c].at = "write"
  <2>1. call[c].op \in {"set_layout_vars", "set_default_layout",
                        "set_background"}
    BY <1>1, <1>3, SMT DEF Placed, Asking, Answered
  <2>2. SaveOf(call[c]) \in Saves
    BY <1>1, <1>3, <2>1 DEF Placed, SaveOf, Saves
  <2> QED
    BY <1>3, <2>1, <2>2 DEF SavedBy, SaveOf
<1> QED
  BY <1>1, <1>2, <1>3

LEMMA CaptureIsNoLayout ==
    ASSUME NEW l \in Layouts, NEW v
    PROVE  Layout(l, v) # Capture
<1>1. Layout(l, v).layout = l /\ Capture.layout = None
  BY DEF Layout, Capture
<1> QED
  BY <1>1, ConstantsDiffer
-----------------------------------------------------------------------------
(* What a step that leaves a part of the state alone does not disturb *)

LEMMA HoldersTyped ==
    ASSUME TypeOK
    PROVE  /\ locks.mode \in Clients \union {None}
           /\ locks.write \in Clients \union {None}
           /\ locks.background \in Clients \union {None}
           /\ None \notin Clients
  BY LockNames, ConstantsDiffer DEF TypeOK

LEMMA Running ==
    ASSUME TypeOK, DownIsEmpty, NEW c \in Clients, call[c].at # "idle"
    PROVE  up
  BY DEF DownIsEmpty, NoCall, TypeOK

\* The calls of other clients, when the call of c moves on.
Moves(c) == /\ call' \in [Clients -> Calls]
            /\ \A d \in Clients \ {c}: call'[d] = call[d]

LEMMA PlacedAfter ==
    ASSUME CallsPlaced, NEW c \in Clients, Moves(c), Placed(call'[c])
    PROVE  CallsPlaced'
  BY DEF CallsPlaced, Moves, Placed

LEMMA LocksAfter ==
    ASSUME LocksHeld, NEW c \in Clients, Moves(c),
           locks'.mode = locks.mode
             \/ (locks.mode = c /\ locks'.mode = None)
             \/ (locks.mode = None /\ locks'.mode = c),
           locks'.write = locks.write
             \/ (locks.write = c /\ locks'.write = None)
             \/ (locks.write = None /\ locks'.write = c),
           locks'.background = locks.background
             \/ (locks.background = c /\ locks'.background = None)
             \/ (locks.background = None /\ locks'.background = c),
           locks'.mode = c <=> HoldsMode(call'[c]),
           locks'.write = c <=> HoldsWrite(call'[c]),
           locks'.background = c <=> HoldsBackground(call'[c])
    PROVE  LocksHeld'
<1> SUFFICES ASSUME NEW d \in Clients
             PROVE  /\ locks'.mode = d <=> HoldsMode(call'[d])
                    /\ locks'.background = d <=> HoldsBackground(call'[d])
                    /\ locks'.write = d <=> HoldsWrite(call'[d])
  BY DEF LocksHeld, HoldsMode, HoldsWrite, HoldsBackground
<1>1. CASE d = c
  BY <1>1
<1>2. CASE d # c
  <2>1. /\ call'[d] = call[d]
        /\ locks.mode = d <=> HoldsMode(call[d])
        /\ locks.background = d <=> HoldsBackground(call[d])
        /\ locks.write = d <=> HoldsWrite(call[d])
    BY <1>2 DEF Moves, LocksHeld
  <2> QED
    BY <1>2, <2>1, ConstantsDiffer
<1> QED
  BY <1>1, <1>2

LEMMA EditsKept ==
    ASSUME EditsTracked, UNCHANGED <<edit, disk>>,
           locks'.write = locks.write,
           \A d \in Clients: locks.write = d => call'[d] = call[d],
           outside => outside', adrift => adrift'
    PROVE  EditsTracked'
<1>1. \A d \in Clients: locks.write = d => SavedBy(call[d])' = SavedBy(call[d])
  BY DEF SavedBy, Save
<1>2. /\ edit["daemon"] = None <=> locks.write = None
      /\ \A c \in Clients:
           locks.write = c => edit["daemon"].save = SavedBy(call[c])
      /\ edit["daemon"] # None /\ edit["daemon"].raced => outside /\ adrift
      /\ \A p \in Processes:
           edit[p] # None /\ ~edit[p].raced => edit[p].file = disk
  BY DEF EditsTracked
<1>3. \A c \in Clients:
        locks'.write = c => edit'["daemon"].save = SavedBy(call[c])'
  BY <1>1, <1>2
<1> QED
  BY <1>2, <1>3, Zenon DEF EditsTracked

LEMMA QueueTyped ==
    ASSUME TypeOK, NEW i \in DOMAIN queue
    PROVE  queue[i] \in Requests /\ queue[i].from \in Clients
<1>1. queue[i] \in Requests
  BY DEF TypeOK
<1> QED
  BY <1>1 DEF Requests

LEMMA RequestKept ==
    ASSUME TypeOK, CallsPlaced, NEW d \in Clients, call[d].at = "wait",
           call'[d] = call[d],
           call[d].op = "reload" => state'.layout = state.layout
    PROVE  Request(d)' = Request(d)
<1>1. call[d].op \in {"set_layout", "stream", "set_layout_vars",
                      "set_background", "reload"}
  BY CallKinds, SMT DEF Placed
<1>2. CASE call[d].op = "reload"
  BY <1>2 DEF Request
<1>3. CASE call[d].op \in {"set_layout", "stream", "set_layout_vars",
                           "set_background"}
  BY <1>3 DEF Request
<1> QED
  BY <1>1, <1>2, <1>3

LEMMA QueueKept ==
    ASSUME TypeOK, CallsPlaced, QueueTracked, queue' = queue,
           \A d \in Clients: call[d].at = "wait" =>
              /\ call'[d] = call[d]
              /\ call[d].op = "reload" => state'.layout = state.layout
    PROVE  QueueTracked'
<1>1. ASSUME NEW i \in DOMAIN queue
      PROVE  /\ call'[queue[i].from].at = "wait"
             /\ queue[i] = Request(queue[i].from)'
  <2>1. queue[i].from \in Clients
    BY QueueTyped DEF TypeOK
  <2>2. call[queue[i].from].at = "wait" /\ queue[i] = Request(queue[i].from)
    BY DEF QueueTracked
  <2> QED
    BY <2>1, <2>2, RequestKept
<1> QED
  BY <1>1 DEF QueueTracked

LEMMA ModeKept ==
    ASSUME ModeTracked, up' = up, locks'.mode = locks.mode,
           \A d \in Clients: locks.mode = d => call'[d] = call[d],
           shown'.program = shown.program, state'.mode = state.mode,
           misnamed' = misnamed
    PROVE  ModeTracked'
<1>1. ProgramIsMode' <=> ProgramIsMode
  BY DEF ProgramIsMode, Capture, Layout
<1>2. ASSUME NEW d \in Clients, locks.mode = d
      PROVE  ModeAt(call[d])' <=> ModeAt(call[d])
  BY <1>1, <1>2 DEF ModeAt, Capture, Layout
<1> QED
  BY <1>1, <1>2 DEF ModeTracked

LEMMA RateKept ==
    ASSUME RateTracked, locks'.mode = locks.mode,
           \A d \in Clients: locks.mode = d => call'[d] = call[d],
           shown'.rate = shown.rate, state'.rate = state.rate,
           state'.pre = state.pre, state'.mode = state.mode,
           chosen' = chosen
    PROVE  RateTracked'
  BY DEF RateTracked

LEMMA StoredKept ==
    ASSUME VarsStored, up' = up, locks'.mode = locks.mode,
           \A d \in Clients: locks.mode = d => call'[d] = call[d],
           mirror'.vars = mirror.vars, disk'.vars = disk.vars \/ outside',
           outside => outside'
    PROVE  VarsStored'
<1>1. ASSUME NEW d \in Clients, locks.mode = d, ~outside'
      PROVE  Stored(call[d])' <=> Stored(call[d])
  BY <1>1 DEF Stored
<1> QED
  BY <1>1 DEF VarsStored

LEMMA ShownKept ==
    ASSUME VarsShown, up' = up, locks'.mode = locks.mode,
           \A d \in Clients: locks.mode = d => call'[d] = call[d],
           shown'.program = shown.program, mirror'.vars = mirror.vars,
           state'.layout = state.layout, untold => untold'
    PROVE  VarsShown'
<1>1. LayoutCurrent => LayoutCurrent'
  BY DEF LayoutCurrent, Capture, Layout
<1>2. ASSUME NEW d \in Clients, locks.mode = d, VarsAt(call[d])
      PROVE  VarsAt(call[d])'
  <2>1. Asked(call[d])' = Asked(call[d])
    BY <1>2 DEF Asked, Capture, Layout
  <2> QED
    BY <1>1, <1>2, <2>1 DEF VarsAt
<1> QED
  BY <1>1, <1>2 DEF VarsShown

LEMMA BackgroundKept ==
    ASSUME BackgroundTracked, up' = up, locks'.background = locks.background,
           \A d \in Clients: locks.background = d => call'[d] = call[d],
           shown'.background = shown.background,
           state'.background = state.background,
           dropped' = dropped, adrift => adrift',
           mirror'.image = mirror.image \/ adrift',
           disk'.image = disk.image \/ adrift'
    PROVE  BackgroundTracked'
<1>1. Remembered => Remembered'
  BY DEF Remembered
<1>2. ASSUME NEW d \in Clients, locks.background = d, BackgroundAt(call[d])
      PROVE  BackgroundAt(call[d])'
  BY <1>1, <1>2 DEF BackgroundAt, ImageAt
<1> QED
  BY <1>1, <1>2 DEF BackgroundTracked
-----------------------------------------------------------------------------
(* Start, stop, and what other processes and clients begin *)

LEMMA FreshStart ==
    ASSUME NEW file \in Config,
           NEW decoded \in {file.image, None}, NEW drawn \in {decoded, None}
    PROVE  /\ Booted(file, decoded)
                \in [layout: Layouts, mode: {"layout", Stream},
                     rate: Rates \union {StreamRate},
                     pre: Rates \union {None},
                     background: Images \union {None}]
           /\ FirstShown(file, drawn)
                \in [program: Programs, background: Images \union {None},
                     rate: Rates \union {StreamRate}]
           /\ Booted(file, decoded).rate = file.rate
           /\ FirstShown(file, drawn).rate = file.rate
           /\ Booted(file, decoded).pre = None
           /\ Booted(file, decoded).background = decoded
           /\ FirstShown(file, drawn).background = drawn
           /\ \/ FirstMode(file) # file.mode
              \/ FirstShown(file, drawn).program = Capture
                   <=> Booted(file, decoded).mode = Stream
           /\ \/ FirstShown(file, drawn).program = Capture
              \/ FirstShown(file, drawn).program.vars
                   = file.vars[FirstShown(file, drawn).program.layout]
<1> DEFINE l == FirstLayout(file)
<1>1. /\ file.layout \in Layouts /\ file.mode \in {"layout", Stream}
      /\ file.rate \in Rates /\ file.image \in Images \union {None}
      /\ file.vars \in [Layouts -> Vars] /\ file.first \in Entries
  BY DEF Config
<1>2. l \in Layouts
  BY <1>1 DEF FirstLayout, Entries
<1> HIDE DEF l
<1>3. /\ file.vars[l] \in Vars
      /\ Layout(l, file.vars[l]) \in [layout: Layouts, vars: Vars]
      /\ Layout(l, file.vars[l]).layout = l
      /\ Layout(l, file.vars[l]).vars = file.vars[l]
  BY <1>1, <1>2 DEF Layout
<1>4. Layout(l, file.vars[l]) # Capture
  BY <1>2, <1>3, CaptureIsNoLayout
<1>5. FirstShown(file, drawn).program
        = IF FirstMode(file) = Stream THEN Capture
          ELSE Layout(l, file.vars[l])
  BY DEF FirstShown, l
<1>6. FirstShown(file, drawn).program \in Programs
  BY <1>3, <1>5 DEF Programs
<1>7. /\ FirstShown(file, drawn).rate = file.rate
      /\ FirstShown(file, drawn).background = drawn
      /\ FirstShown(file, drawn)
           \in [program: Programs, background: Images \union {None},
                rate: Rates \union {StreamRate}]
  BY <1>1, <1>6 DEF FirstShown
<1>8. /\ Booted(file, decoded).rate = file.rate
      /\ Booted(file, decoded).pre = None
      /\ Booted(file, decoded).background = decoded
      /\ Booted(file, decoded).mode = file.mode
      /\ Booted(file, decoded)
           \in [layout: Layouts, mode: {"layout", Stream},
                rate: Rates \union {StreamRate}, pre: Rates \union {None},
                background: Images \union {None}]
  BY <1>1, <1>2 DEF Booted, l
<1> QED
  BY <1>3, <1>4, <1>5, <1>7, <1>8

LEMMA InitInv == Init => IInv
<1> SUFFICES ASSUME Init
             PROVE  IInv
  OBVIOUS
<1>1. disk \in Config
  BY FirstsLoad DEF Init
<1>2. /\ \A c \in Clients: call[c] = NoCall
      /\ locks.mode = None /\ locks.write = None /\ locks.background = None
      /\ locks \in [DOMAIN Unlocked -> Clients \union {None}]
      /\ queue = <<>> /\ edit = [p \in Processes |-> None] /\ up
      /\ mirror = disk /\ chosen = disk.rate
      /\ outside = FALSE /\ untold = FALSE /\ adrift = FALSE
      /\ misnamed = (FirstMode(disk) # disk.mode)
      /\ dropped = (shown.background # disk.image)
  BY LockNames DEF Init, Unlocked
<1> PICK decoded \in {disk.image, None}: \E drawn \in {decoded, None}:
      state = Booted(disk, decoded) /\ shown = FirstShown(disk, drawn)
  BY DEF Init
<1> PICK drawn \in {decoded, None}:
      state = Booted(disk, decoded) /\ shown = FirstShown(disk, drawn)
  OBVIOUS
<1> misnamed \in BOOLEAN /\ dropped \in BOOLEAN
  BY <1>2
<1>3. disk.rate \in Rates
  BY <1>1 DEF Config
<1>4. TypeOK
  <2>1. queue \in Seq(Requests)
    BY <1>2
  <2>2. call \in [Clients -> Calls]
    BY NoCallTyped DEF Init
  <2>3. used \in [calls: Nat, edits: Nat, downs: Nat]
    BY DEF Init
  <2>4. edit \in [Processes -> Edits \union {None}]
    BY <1>2
  <2> QED
    BY <1>1, <1>2, <1>3, <2>1, <2>2, <2>3, <2>4, FreshStart DEF TypeOK
<1>5. NoCall.op = "none" /\ NoCall.at = "idle"
  BY DEF NoCall
<1>6. CallsPlaced
  BY <1>2, <1>5 DEF CallsPlaced, Placed
<1>7. LocksHeld
  BY <1>2, <1>5, ConstantsDiffer
     DEF LocksHeld, HoldsMode, HoldsWrite, HoldsBackground, ModeOps
<1>8. EditsTracked
  BY <1>2, ConstantsDiffer DEF EditsTracked, Processes
<1>9. QueueTracked /\ DownIsEmpty
  BY <1>2 DEF QueueTracked, DownIsEmpty
<1>10. ModeTracked /\ RateTracked
  <2>1. FirstMode(disk) # disk.mode => misnamed
    BY <1>2
  <2>2. ProgramIsMode
    BY <1>1, <2>1, FreshStart DEF ProgramIsMode
  <2> QED
    BY <1>1, <1>2, <2>2, FreshStart, ConstantsDiffer
       DEF ModeTracked, RateTracked
<1>11. VarsStored /\ VarsShown
  BY <1>1, <1>2, FreshStart, ConstantsDiffer
     DEF VarsStored, VarsShown, LayoutCurrent
<1>12. BackgroundTracked
  <2>1. shown.background # disk.image => dropped
    BY <1>2
  <2>2. dropped => shown.background # disk.image
    BY <1>2
  <2>3. shown.background = drawn /\ state.background = decoded
    BY <1>1, FreshStart
  <2> QED
    BY <1>2, <2>1, <2>2, <2>3, ConstantsDiffer
       DEF BackgroundTracked, Remembered
<1> QED
  BY <1>4, <1>6, <1>7, <1>8, <1>9, <1>10, <1>11, <1>12 DEF IInv

LEMMA DownInv ==
    ASSUME IInv, Down
    PROVE  IInv'
<1>1. /\ locks'.mode = None /\ locks'.write = None
      /\ locks'.background = None
      /\ locks' \in [DOMAIN Unlocked -> Clients \union {None}]
  BY LockNames DEF Down, Unlocked
<1>2. up' = FALSE /\ \A c \in Clients: call'[c] = NoCall
  BY DEF Down
<1>3. /\ queue' = <<>> /\ ~up' /\ up' \in BOOLEAN
      /\ edit' = [edit EXCEPT !["daemon"] = None]
      /\ UNCHANGED <<disk, mirror, state, shown, chosen, outside, untold,
                     adrift, misnamed, dropped>>
  BY <1>2 DEF Down, known, ghost
<1>4. TypeOK /\ EditsTracked /\ RateTracked
  BY DEF IInv
<1>5. edit' \in [Processes -> Edits \union {None}] /\ edit'["daemon"] = None
      /\ edit'["gui"] = edit["gui"]
  BY <1>3, <1>4 DEF TypeOK, Processes
<1>6. used' \in [calls: Nat, edits: Nat, downs: Nat]
  BY <1>4 DEF TypeOK, Down, Count
<1>7. TypeOK'
  <2>1. queue' \in Seq(Requests)
    BY <1>3
  <2>2. call' \in [Clients -> Calls]
    BY NoCallTyped DEF Down
  <2> QED
    BY <1>3, <1>4, <1>5, <1>6, <1>1, <2>1, <2>2 DEF TypeOK
<1>8. NoCall.op = "none" /\ NoCall.at = "idle"
  BY DEF NoCall
<1>9. CallsPlaced'
  BY <1>2, <1>8 DEF CallsPlaced, Placed
<1>10. LocksHeld'
  BY <1>1, <1>2, <1>8, ConstantsDiffer
     DEF LocksHeld, HoldsMode, HoldsWrite, HoldsBackground, ModeOps
<1>11. EditsTracked'
  BY <1>3, <1>4, <1>5, <1>1, ConstantsDiffer DEF EditsTracked, Processes
<1>12. QueueTracked' /\ DownIsEmpty'
  BY <1>3, <1>2 DEF QueueTracked, DownIsEmpty
<1>13. RateTracked'
  BY <1>3, <1>4, <1>1, ConstantsDiffer DEF RateTracked
<1>14. ModeTracked' /\ VarsStored' /\ VarsShown' /\ BackgroundTracked'
  BY <1>3 DEF ModeTracked, VarsStored, VarsShown, BackgroundTracked
<1> QED
  BY <1>7, <1>9, <1>10, <1>11, <1>12, <1>13, <1>14 DEF IInv

\* No lock is held and nothing is saved while the daemon does not run.
LEMMA NothingHeld ==
    ASSUME TypeOK, LocksHeld, EditsTracked,
           \A c \in Clients: call[c] = NoCall
    PROVE  /\ locks.mode = None /\ locks.write = None
           /\ locks.background = None /\ edit["daemon"] = None
<1>1. NoCall.op = "none" /\ NoCall.at = "idle"
  BY DEF NoCall
<1>2. \A c \in Clients: /\ locks.mode # c /\ locks.write # c
                        /\ locks.background # c
  BY <1>1 DEF LocksHeld, HoldsMode, HoldsWrite, HoldsBackground, ModeOps
<1> QED
  BY <1>2, HoldersTyped DEF EditsTracked

LEMMA BootInv ==
    ASSUME IInv, Boot
    PROVE  IInv'
<1>1. /\ up' = TRUE /\ ~up /\ mirror' = disk /\ chosen' = disk.rate
      /\ outside' = FALSE /\ untold' = FALSE /\ adrift' = FALSE
      /\ misnamed' = (FirstMode(disk) # disk.mode)
      /\ dropped' = (shown'.background # disk.image)
      /\ UNCHANGED <<disk, edit, locks, queue, call, used>>
  BY DEF Boot, conf
<1> PICK decoded \in {disk.image, None}: \E drawn \in {decoded, None}:
      state' = Booted(disk, decoded) /\ shown' = FirstShown(disk, drawn)
  BY DEF Boot
<1> PICK drawn \in {decoded, None}:
      state' = Booted(disk, decoded) /\ shown' = FirstShown(disk, drawn)
  OBVIOUS
<1> misnamed' \in BOOLEAN /\ dropped' \in BOOLEAN
  BY <1>1
<1>2. /\ TypeOK /\ CallsPlaced /\ LocksHeld /\ EditsTracked /\ QueueTracked
      /\ DownIsEmpty
  BY DEF IInv
<1>3. (\A c \in Clients: call[c] = NoCall) /\ queue = <<>>
  BY <1>1, <1>2 DEF DownIsEmpty
<1>4. /\ locks.mode = None /\ locks.write = None
      /\ locks.background = None /\ edit["daemon"] = None
  BY <1>2, <1>3, NothingHeld
<1>5. disk \in Config /\ disk.rate \in Rates
  BY <1>2 DEF TypeOK, Config
<1>6. TypeOK'
  BY <1>1, <1>2, <1>5, FreshStart DEF TypeOK
<1>7. CallsPlaced' /\ LocksHeld'
  BY <1>1, <1>2 DEF CallsPlaced, LocksHeld
<1>8. EditsTracked'
  BY <1>1, <1>2, <1>4, ConstantsDiffer DEF EditsTracked
<1>9. QueueTracked' /\ DownIsEmpty'
  BY <1>1, <1>3 DEF QueueTracked, DownIsEmpty
<1>10. ModeTracked' /\ RateTracked'
  <2>1. FirstMode(disk) # disk.mode => misnamed'
    BY <1>1
  <2>2. ProgramIsMode'
    BY <1>1, <1>5, <2>1, FreshStart DEF ProgramIsMode, Capture, Layout
  <2> QED
    BY <1>1, <1>4, <1>5, <2>2, FreshStart, ConstantsDiffer
       DEF ModeTracked, RateTracked
<1>11. VarsStored' /\ VarsShown'
  BY <1>1, <1>4, <1>5, FreshStart, ConstantsDiffer
     DEF VarsStored, VarsShown, LayoutCurrent
<1>12. BackgroundTracked'
  <2>1. shown'.background # disk.image => dropped'
    BY <1>1
  <2>2. dropped' => shown'.background # disk.image
    BY <1>1
  <2>3. shown'.background = drawn /\ state'.background = decoded
    BY <1>5, FreshStart
  <2> QED
    BY <1>1, <1>4, <2>1, <2>2, <2>3, ConstantsDiffer
       DEF BackgroundTracked, Remembered
<1> QED
  BY <1>6, <1>7, <1>8, <1>9, <1>10, <1>11, <1>12 DEF IInv
LEMMA RacedEdit ==
    ASSUME NEW e \in Edits
    PROVE  /\ [e EXCEPT !.raced = TRUE] \in Edits
           /\ [e EXCEPT !.raced = TRUE] # None
           /\ [e EXCEPT !.raced = TRUE].raced
           /\ [e EXCEPT !.raced = TRUE].save = e.save
           /\ [e EXCEPT !.raced = TRUE].file = e.file
<1>1. [e EXCEPT !.raced = TRUE] \in Edits
  BY DEF Edits
<1>2. [e EXCEPT !.raced = TRUE].raced
  BY DEF Edits
<1>3. /\ [e EXCEPT !.raced = TRUE].save = e.save
      /\ [e EXCEPT !.raced = TRUE].file = e.file
  BY DEF Edits
<1> QED
  BY <1>1, <1>2, <1>3, NoneIsNoEdit

LEMMA BegunEdit ==
    ASSUME TypeOK, NEW p \in Processes, NEW s \in Saves, Begin(p, s)
    PROVE  /\ edit' \in [Processes -> Edits \union {None}]
           /\ edit'[p] # None /\ edit'[p].file = disk /\ edit'[p].save = s
           /\ ~edit'[p].raced
           /\ \A q \in Processes \ {p}: edit'[q] = edit[q]
<1> DEFINE e == [file |-> disk, save |-> s, raced |-> FALSE]
<1>1. e \in Edits
  BY DEF TypeOK, Edits
<1>2. e.file = disk /\ e.save = s
  OBVIOUS
<1>3. ~e.raced
  OBVIOUS
<1>4. edit' = [edit EXCEPT ![p] = e]
  BY DEF Begin
<1> HIDE DEF e
<1>5. /\ edit' \in [Processes -> Edits \union {None}]
      /\ edit'[p] = e
      /\ \A q \in Processes \ {p}: edit'[q] = edit[q]
  BY <1>1, <1>4 DEF TypeOK
<1>6. e # None
  BY <1>1, NoneIsNoEdit
<1> QED
  BY <1>2, <1>3, <1>5, <1>6

LEMMA RenamedEdit ==
    ASSUME TypeOK, NEW p \in Processes, Rename(p), edit[p] # None
    PROVE  /\ edit' \in [Processes -> Edits \union {None}]
           /\ edit'[p] = None
           /\ \A q \in Processes \ {p}:
                /\ edit'[q] = None <=> edit[q] = None
                /\ edit'[q] # None => /\ edit'[q].raced
                                      /\ edit'[q].save = edit[q].save
           /\ edit[p].file \in Config /\ edit[p].save \in Saves
           /\ disk' = Saved(edit[p].file, edit[p].save) /\ disk' \in Config
<1>1. \A q \in Processes: edit[q] \in Edits \union {None}
  BY DEF TypeOK
<1>2. edit' = [q \in Processes |-> IF q = p \/ edit[q] = None THEN None
                                   ELSE [edit[q] EXCEPT !.raced = TRUE]]
  BY DEF Rename
<1>3. edit[p].file \in Config /\ edit[p].save \in Saves
  BY <1>1 DEF Edits
<1>4. disk' = Saved(edit[p].file, edit[p].save) /\ disk' \in Config
  BY <1>3, SavedSections DEF Rename
<1>5. ASSUME NEW q \in Processes
      PROVE  /\ edit'[q] \in Edits \union {None}
             /\ q = p => edit'[q] = None
             /\ q # p => /\ edit'[q] = None <=> edit[q] = None
                         /\ edit'[q] # None => /\ edit'[q].raced
                                               /\ edit'[q].save = edit[q].save
  <2>1. CASE q = p \/ edit[q] = None
    BY <1>2, <2>1
  <2>2. CASE q # p /\ edit[q] # None
    <3>1. edit'[q] = [edit[q] EXCEPT !.raced = TRUE] /\ edit[q] \in Edits
      BY <1>1, <1>2, <2>2
    <3> QED
      BY <2>2, <3>1, RacedEdit
  <2> QED
    BY <2>1, <2>2
<1>6. edit' \in [Processes -> Edits \union {None}]
  BY <1>2, <1>5
<1> QED
  BY <1>3, <1>4, <1>5, <1>6

LEMMA GuiBeginInv ==
    ASSUME IInv, GuiBegin
    PROVE  IInv'
<1>1. /\ UNCHANGED <<disk, up, mirror, state, shown, locks, queue, call,
                     chosen, outside, untold, adrift, misnamed, dropped>>
      /\ Count("edits", MaxEdits)
      /\ \E s \in Saves: Begin("gui", s)
  BY DEF GuiBegin, known, ghost
<1>2. PICK s \in Saves: Begin("gui", s)
  BY <1>1
<1>3. /\ TypeOK /\ CallsPlaced /\ LocksHeld /\ EditsTracked /\ QueueTracked
      /\ DownIsEmpty
  BY DEF IInv
<1>4. /\ edit' \in [Processes -> Edits \union {None}]
      /\ edit'["gui"] # None /\ edit'["gui"].file = disk
      /\ edit'["daemon"] = edit["daemon"]
  BY <1>2, <1>3, BegunEdit DEF Processes
<1>5. used' \in [calls: Nat, edits: Nat, downs: Nat]
  BY <1>1, <1>3 DEF TypeOK, Count
<1>6. TypeOK'
  BY <1>1, <1>3, <1>4, <1>5 DEF TypeOK
<1>7. CallsPlaced' /\ LocksHeld' /\ DownIsEmpty'
  BY <1>1, <1>3 DEF CallsPlaced, LocksHeld, DownIsEmpty
<1>8. EditsTracked'
  <2>1. \A c \in Clients: SavedBy(call[c])' = SavedBy(call[c])
    BY <1>1 DEF SavedBy, Save
  <2> QED
    BY <1>1, <1>3, <1>4, <2>1 DEF EditsTracked, Processes
<1>9. QueueTracked'
  BY <1>1, <1>3, QueueKept
<1>10. ModeTracked' /\ RateTracked'
  BY <1>1, ModeKept, RateKept DEF IInv
<1>11. VarsStored' /\ VarsShown'
  BY <1>1, StoredKept, ShownKept DEF IInv
<1>12. BackgroundTracked'
  BY <1>1, BackgroundKept DEF IInv
<1> QED
  BY <1>6, <1>7, <1>8, <1>9, <1>10, <1>11, <1>12 DEF IInv

\* Another process puts a file in place.
LEMMA OutsideInv ==
    ASSUME IInv, disk' \in Config,
           edit' \in [Processes -> Edits \union {None}],
           edit'["daemon"] = None <=> edit["daemon"] = None,
           edit'["daemon"] # None
             => edit'["daemon"].save = edit["daemon"].save,
           \A p \in Processes: edit'[p] # None => edit'[p].raced,
           outside' = TRUE, adrift' = TRUE,
           used' \in [calls: Nat, edits: Nat, downs: Nat],
           UNCHANGED <<up, mirror, state, shown, locks, queue, call, chosen,
                       untold, misnamed, dropped>>
    PROVE  IInv'
<1>1. /\ TypeOK /\ CallsPlaced /\ LocksHeld /\ EditsTracked /\ QueueTracked
      /\ DownIsEmpty /\ VarsStored
  BY DEF IInv
<1>2. TypeOK'
  BY <1>1 DEF TypeOK
<1>3. CallsPlaced' /\ LocksHeld' /\ DownIsEmpty'
  BY <1>1 DEF CallsPlaced, LocksHeld, DownIsEmpty
<1>4. EditsTracked'
  <2>1. \A c \in Clients: SavedBy(call[c])' = SavedBy(call[c])
    BY DEF SavedBy, Save
  <2>2. edit'["daemon"] = None <=> locks'.write = None
    BY <1>1 DEF EditsTracked
  <2>3. \A c \in Clients:
          locks'.write = c => edit'["daemon"].save = SavedBy(call[c])'
    BY <1>1, <2>1, <2>2, ConstantsDiffer DEF EditsTracked
  <2> QED
    BY <2>2, <2>3 DEF EditsTracked
<1>5. QueueTracked'
  BY <1>1, QueueKept
<1>6. ModeTracked' /\ RateTracked'
  BY ModeKept, RateKept DEF IInv
<1>7. VarsStored' /\ VarsShown'
  BY ShownKept DEF IInv, VarsStored
<1>8. BackgroundTracked'
  BY BackgroundKept DEF IInv
<1> QED
  BY <1>2, <1>3, <1>4, <1>5, <1>6, <1>7, <1>8 DEF IInv

LEMMA GuiRenameInv ==
    ASSUME IInv, GuiRename
    PROVE  IInv'
<1>1. /\ edit["gui"] # None /\ Rename("gui")
      /\ outside' = TRUE /\ adrift' = TRUE
      /\ UNCHANGED <<up, mirror, state, shown, locks, queue, call, used,
                     chosen, untold, misnamed, dropped>>
  BY DEF GuiRename, known
<1>2. TypeOK
  BY DEF IInv
<1>3. /\ disk' \in Config
      /\ edit' \in [Processes -> Edits \union {None}]
      /\ edit'["daemon"] = None <=> edit["daemon"] = None
      /\ edit'["daemon"] # None =>
           edit'["daemon"].save = edit["daemon"].save
      /\ \A p \in Processes: edit'[p] # None => edit'[p].raced
  BY <1>1, <1>2, RenamedEdit DEF Processes
<1>4. used' \in [calls: Nat, edits: Nat, downs: Nat]
  BY <1>1, <1>2 DEF TypeOK
<1> QED
  BY <1>1, <1>3, <1>4, OutsideInv

LEMMA HandEditInv ==
    ASSUME IInv, HandEdit
    PROVE  IInv'
<1>1. /\ Count("edits", MaxEdits)
      /\ edit' = [p \in Processes |->
                    IF edit[p] = None THEN None
                    ELSE [edit[p] EXCEPT !.raced = TRUE]]
      /\ outside' = TRUE /\ adrift' = TRUE
      /\ UNCHANGED <<up, mirror, state, shown, locks, queue, call, chosen,
                     untold, misnamed, dropped>>
  BY DEF HandEdit, known
<1>2. TypeOK
  BY DEF IInv
<1>3. disk' \in Config
  <2>1. disk \in Config
    BY <1>2 DEF TypeOK
  <2>2. ASSUME NEW s \in Saves,
               disk' = [Saved(disk, s) EXCEPT !.valid = TRUE]
        PROVE  disk' \in Config
    <3>1. Saved(disk, s) \in Config
      BY <2>1, SavedSections
    <3> QED
      BY <2>2, <3>1 DEF Config
  <2>3. ASSUME NEW r \in Rates,
               disk' = [disk EXCEPT !.rate = r, !.valid = TRUE]
        PROVE  disk' \in Config
    BY <2>1, <2>3 DEF Config
  <2>4. CASE disk' = [disk EXCEPT !.mode = Stream, !.valid = TRUE]
    BY <2>1, <2>4 DEF Config
  <2>5. CASE disk' = [disk EXCEPT !.first.mode = Stream, !.valid = TRUE]
    <3>1. disk.first \in Entries
      BY <2>1 DEF Config
    <3>2. [disk.first EXCEPT !.mode = Stream] \in Entries
      BY <3>1 DEF Entries
    <3>3. disk' = [disk EXCEPT !.first = [disk.first EXCEPT !.mode = Stream],
                               !.valid = TRUE]
      BY <2>1, <2>5 DEF Config
    <3> QED
      BY <2>1, <3>2, <3>3 DEF Config
  <2>6. CASE disk' = [disk EXCEPT !.valid = FALSE]
    BY <2>1, <2>6 DEF Config
  <2> QED
    BY <2>2, <2>3, <2>4, <2>5, <2>6 DEF HandEdit
<1>4. ASSUME NEW p \in Processes
      PROVE  /\ edit'[p] \in Edits \union {None}
             /\ edit'[p] = None <=> edit[p] = None
             /\ edit'[p] # None => /\ edit'[p].raced
                                   /\ edit'[p].save = edit[p].save
  <2>1. edit[p] \in Edits \union {None}
    BY <1>2 DEF TypeOK
  <2>2. CASE edit[p] = None
    BY <1>1, <2>2
  <2>3. CASE edit[p] # None
    <3>1. edit'[p] = [edit[p] EXCEPT !.raced = TRUE] /\ edit[p] \in Edits
      BY <1>1, <2>1, <2>3
    <3> QED
      BY <2>3, <3>1, RacedEdit
  <2> QED
    BY <2>2, <2>3
<1>5. edit' \in [Processes -> Edits \union {None}]
  BY <1>1, <1>4
<1>6. used' \in [calls: Nat, edits: Nat, downs: Nat]
  BY <1>1, <1>2 DEF TypeOK, Count
<1> QED
  BY <1>1, <1>3, <1>4, <1>5, <1>6, OutsideInv DEF Processes

LEMMA SetTickRateInv ==
    ASSUME IInv, SetTickRate
    PROVE  IInv'
<1>1. /\ \A c \in Clients: call[c] = NoCall
      /\ up
      /\ Count("calls", MaxCalls)
      /\ UNCHANGED <<disk, edit, up, mirror, locks, queue, call, outside,
                     untold, adrift, misnamed, dropped>>
  BY DEF SetTickRate, conf
<1>2. PICK r \in Rates:
        /\ state' = [state EXCEPT !.rate = r]
        /\ shown' = [shown EXCEPT !.rate = r]
        /\ chosen' = IF state.pre # None THEN chosen ELSE r
  BY DEF SetTickRate, Args
<1>3. /\ TypeOK /\ CallsPlaced /\ LocksHeld /\ EditsTracked /\ QueueTracked
      /\ DownIsEmpty /\ RateTracked
  BY DEF IInv
<1>4. /\ state'.rate = r /\ shown'.rate = r
      /\ shown'.program = shown.program
      /\ shown'.background = shown.background
      /\ state'.mode = state.mode /\ state'.layout = state.layout
      /\ state'.pre = state.pre /\ state'.background = state.background
  BY <1>2, <1>3 DEF TypeOK
<1>5. used' \in [calls: Nat, edits: Nat, downs: Nat]
  BY <1>1, <1>3 DEF TypeOK, Count
<1>6. TypeOK'
  BY <1>1, <1>2, <1>3, <1>5 DEF TypeOK
<1>7. CallsPlaced' /\ LocksHeld' /\ DownIsEmpty'
  BY <1>1, <1>3 DEF CallsPlaced, LocksHeld, DownIsEmpty
<1>8. EditsTracked'
  BY <1>1, <1>3, EditsKept
<1>9. QueueTracked'
  BY <1>1, <1>3, <1>4, QueueKept
<1>10. ModeTracked'
  BY <1>1, <1>4, ModeKept DEF IInv
<1>11. RateTracked'
  <2>1. locks.mode = None
    BY <1>1, <1>3, NothingHeld
  <2> QED
    BY <1>1, <1>2, <1>3, <1>4, <2>1, ConstantsDiffer DEF RateTracked
<1>12. VarsStored' /\ VarsShown'
  BY <1>1, <1>4, StoredKept, ShownKept DEF IInv
<1>13. BackgroundTracked'
  BY <1>1, <1>4, BackgroundKept DEF IInv
<1> QED
  BY <1>6, <1>7, <1>8, <1>9, <1>10, <1>11, <1>12, <1>13 DEF IInv
-----------------------------------------------------------------------------
(* The steps of a call before the listener answers *)

\* The call moves on, and nothing that it changes or has changed moves with it.
LEMMA MovedOn ==
    ASSUME IInv, NEW c \in Clients, Moves(c),
           call'[c].op = call[c].op, call'[c].arg = call[c].arg,
           call'[c].kept = call[c].kept,
           call[c].at \in Asking <=> call'[c].at \in Asking,
           call[c].at \in {"write", "saved"}
             <=> call'[c].at \in {"write", "saved"},
           call[c].at \notin {"done", "commit"},
           call'[c].at \notin {"done", "commit"},
           locks'.mode = locks.mode, locks'.background = locks.background,
           UNCHANGED <<disk, up, mirror, state, shown, chosen, outside,
                       untold, adrift, misnamed, dropped>>
    PROVE  /\ ModeTracked' /\ RateTracked' /\ VarsStored' /\ VarsShown'
           /\ BackgroundTracked'
<1>1. /\ ModeTracked /\ RateTracked /\ VarsStored /\ VarsShown
      /\ BackgroundTracked
  BY DEF IInv
<1>2. ASSUME NEW d \in Clients
      PROVE  /\ ModeAt(call[d]) => ModeAt(call[d])'
             /\ Stored(call[d]) => Stored(call[d])'
             /\ VarsAt(call[d]) => VarsAt(call[d])'
             /\ BackgroundAt(call[d]) => BackgroundAt(call[d])'
  <2>1. /\ call'[d].op = call[d].op /\ call'[d].arg = call[d].arg
        /\ call'[d].kept = call[d].kept
        /\ call[d].at \in Asking <=> call'[d].at \in Asking
        /\ call[d].at \in {"write", "saved"}
             <=> call'[d].at \in {"write", "saved"}
        /\ call[d].at = "done" <=> call'[d].at = "done"
        /\ call[d].at = "commit" <=> call'[d].at = "commit"
    BY DEF Moves
  <2>2. ModeAt(call[d]) => ModeAt(call[d])'
    BY <2>1 DEF ModeAt, ProgramIsMode, Capture, Layout
  <2>3. Stored(call[d]) => Stored(call[d])'
    BY <2>1 DEF Stored
  <2>4. VarsAt(call[d]) => VarsAt(call[d])'
    <3>1. Asked(call[d])' = Asked(call[d])
      BY <2>1 DEF Asked, Capture, Layout
    <3>2. LayoutCurrent' <=> LayoutCurrent
      BY DEF LayoutCurrent, Capture, Layout
    <3> QED
      BY <2>1, <3>1, <3>2 DEF VarsAt
  <2>5. BackgroundAt(call[d]) => BackgroundAt(call[d])'
    BY <2>1 DEF BackgroundAt, ImageAt, Remembered
  <2> QED
    BY <2>2, <2>3, <2>4, <2>5
<1>3. ModeTracked'
  <2>1. ProgramIsMode' <=> ProgramIsMode
    BY DEF ProgramIsMode, Capture, Layout
  <2> QED
    BY <1>1, <1>2, <2>1 DEF ModeTracked
<1>4. RateTracked'
  <2>1. \A d \in Clients: /\ call'[d].op = call[d].op
                          /\ call'[d].kept = call[d].kept
    BY DEF Moves
  <2> QED
    BY <1>1, <2>1 DEF RateTracked
<1>5. VarsStored'
  BY <1>1, <1>2 DEF VarsStored
<1>6. VarsShown'
  <2>1. LayoutCurrent' <=> LayoutCurrent
    BY DEF LayoutCurrent, Capture, Layout
  <2> QED
    BY <1>1, <1>2, <2>1 DEF VarsShown
<1>7. BackgroundTracked'
  BY <1>1, <1>2 DEF BackgroundTracked, Remembered
<1> QED
  BY <1>3, <1>4, <1>5, <1>6, <1>7

LEMMA CallInv ==
    ASSUME IInv, NEW c \in Clients, Call(c)
    PROVE  IInv'
<1>1. /\ up /\ call[c] = NoCall
      /\ Count("calls", MaxCalls)
      /\ UNCHANGED <<disk, edit, up, mirror, state, shown, locks, queue,
                     chosen, outside, untold, adrift, misnamed, dropped>>
  BY DEF Call, conf, known, ghost
<1>2. PICK op \in Ops \ {"set_tick_rate"}:
        \E arg \in Args(op):
          call' = [call EXCEPT ![c] = [op |-> op, arg |-> arg,
                                       at |-> FirstLock(op), kept |-> None]]
  BY DEF Call
<1>3. PICK arg \in Args(op):
        call' = [call EXCEPT ![c] = [op |-> op, arg |-> arg,
                                     at |-> FirstLock(op), kept |-> None]]
  BY <1>2
<1>4. /\ TypeOK /\ CallsPlaced /\ LocksHeld /\ EditsTracked /\ QueueTracked
      /\ DownIsEmpty
  BY DEF IInv
<1> DEFINE k == [op |-> op, arg |-> arg, at |-> FirstLock(op), kept |-> None]
<1>5. k.op = op /\ k.arg = arg /\ k.at = FirstLock(op) /\ k.kept = None
  OBVIOUS
<1>6. op \in {"set_layout", "stream", "set_layout_vars", "set_default_layout",
              "set_background", "reload"}
  BY OpsKnown
<1>7. /\ FirstLock(op) \in {"mode", "write", "background"}
      /\ op \in ModeOps => FirstLock(op) = "mode"
      /\ op = "set_default_layout" => FirstLock(op) = "write"
      /\ op = "set_background" => FirstLock(op) = "background"
  BY <1>6 DEF FirstLock, ModeOps
<1>8. /\ arg \in {None} \union Layouts \union (Layouts \X Vars) \union Images
      /\ op \in {"set_layout", "set_default_layout"} => arg \in Layouts
      /\ op = "set_layout_vars" => arg \in Layouts \X Vars
      /\ op = "set_background" => arg \in Images \union {None}
  BY <1>6 DEF Args
<1>9. k \in Calls
  BY <1>7, <1>8 DEF Calls, Steps
<1>10. Placed(k)
  BY <1>5, <1>6, <1>7, <1>8 DEF Placed, Asking, Answered, ModeOps
<1>11. ~HoldsMode(k) /\ ~HoldsWrite(k) /\ ~HoldsBackground(k)
  BY <1>5, <1>6, <1>7 DEF HoldsMode, HoldsWrite, HoldsBackground
<1> HIDE DEF k
<1>12. Moves(c) /\ call'[c] = k
  BY <1>3, <1>4, <1>9 DEF Moves, TypeOK, k
<1>13. locks.mode # c /\ locks.write # c /\ locks.background # c
  BY <1>1, <1>4
     DEF LocksHeld, HoldsMode, HoldsWrite, HoldsBackground, NoCall, ModeOps
<1>14. call[c].at = "idle"
  BY <1>1 DEF NoCall
<1>15. \A d \in Clients:
         \/ call[d].at = "wait" \/ locks.mode = d \/ locks.write = d
         \/ locks.background = d
         => call'[d] = call[d]
  BY <1>12, <1>13, <1>14 DEF Moves
<1>16. used' \in [calls: Nat, edits: Nat, downs: Nat]
  BY <1>1, <1>4 DEF TypeOK, Count
<1>17. TypeOK'
  BY <1>1, <1>4, <1>12, <1>16 DEF TypeOK, Moves
<1>18. CallsPlaced'
  BY <1>4, <1>10, <1>12, PlacedAfter
<1>19. LocksHeld'
  BY <1>1, <1>4, <1>11, <1>12, <1>13, LocksAfter
<1>20. EditsTracked' /\ QueueTracked' /\ DownIsEmpty'
  BY <1>1, <1>4, <1>15, EditsKept, QueueKept DEF DownIsEmpty
<1>21. ModeTracked' /\ RateTracked'
  BY <1>1, <1>15, ModeKept, RateKept DEF IInv
<1>22. VarsStored' /\ VarsShown'
  BY <1>1, <1>15, StoredKept, ShownKept DEF IInv
<1>23. BackgroundTracked'
  BY <1>1, <1>15, BackgroundKept DEF IInv
<1> QED
  BY <1>17, <1>18, <1>19, <1>20, <1>21, <1>22, <1>23 DEF IInv

LEMMA TakeModeInv ==
    ASSUME IInv, NEW c \in Clients, TakeMode(c)
    PROVE  IInv'
<1> DEFINE k == call[c]
           n == CASE k.op = "set_layout" ->
                       [k EXCEPT !.at = "send", !.kept = mirror.vars[k.arg]]
                  [] k.op = "stream" ->
                       [k EXCEPT !.at = "send", !.kept = state.rate]
                  [] OTHER -> [k EXCEPT !.at = "write"]
<1>1. /\ k.at = "mode" /\ locks.mode = None
      /\ locks' = [locks EXCEPT !.mode = c]
      /\ call' = [call EXCEPT ![c] = n]
      /\ UNCHANGED <<disk, edit, up, mirror, state, shown, queue, used,
                     chosen, outside, untold, adrift, misnamed, dropped>>
  BY DEF TakeMode, conf, known, ghost
<1>2. /\ TypeOK /\ CallsPlaced /\ LocksHeld /\ EditsTracked /\ QueueTracked
      /\ DownIsEmpty
  BY DEF IInv
<1>3. k \in Calls /\ Placed(k) /\ k.op \in ModeOps
  <2>1. k \in Calls /\ Placed(k)
    BY <1>2, CallShape, CallKinds
  <2>2. k.op \in {"none", "set_layout", "stream", "set_layout_vars",
                  "set_default_layout", "set_background", "reload"}
        /\ (k.op = "none" => k.at = "idle")
    BY <1>2, CallKinds
  <2> QED
    BY <1>1, <2>1, <2>2 DEF Placed, Asking, Answered, ModeOps
<1>4. mirror.vars \in [Layouts -> Vars]
      /\ state.rate \in Rates \union {StreamRate}
  BY <1>2 DEF TypeOK, Config
<1>5. ASSUME k.op = "set_layout"
      PROVE  /\ n \in Calls /\ n.op = k.op /\ n.arg = k.arg
             /\ n.at = "send" /\ n.kept = mirror.vars[k.arg]
             /\ n.arg \in Layouts /\ n.kept \in Vars
  <2>1. k.arg \in Layouts /\ mirror.vars[k.arg] \in Vars
    BY <1>3, <1>4, <1>5 DEF Placed
  <2>2. n = [k EXCEPT !.at = "send", !.kept = mirror.vars[k.arg]]
    BY <1>5
  <2> HIDE DEF n
  <2> QED
    BY <1>3, <2>1, <2>2 DEF Calls, Steps
<1>6. ASSUME k.op = "stream"
      PROVE  /\ n \in Calls /\ n.op = k.op /\ n.arg = k.arg
             /\ n.at = "send" /\ n.kept = state.rate
  <2>1. n = [k EXCEPT !.at = "send", !.kept = state.rate]
    BY <1>6
  <2> HIDE DEF n
  <2> QED
    BY <1>3, <1>4, <2>1 DEF Calls, Steps
<1>7. ASSUME k.op \in Rebuilds
      PROVE  /\ n \in Calls /\ n.op = k.op /\ n.arg = k.arg
             /\ n.at = "write" /\ n.kept = k.kept
  <2>1. n = [k EXCEPT !.at = "write"]
    BY <1>7 DEF Rebuilds
  <2> HIDE DEF n
  <2> QED
    BY <1>3, <2>1 DEF Calls, Steps
<1>8. k.op \in {"set_layout", "stream"} \union Rebuilds
  BY <1>3 DEF ModeOps, Rebuilds
<1>9. /\ n \in Calls /\ n.op = k.op /\ n.arg = k.arg
      /\ n.at \in {"send", "write"}
  BY <1>5, <1>6, <1>7, <1>8
<1>10. Placed(n)
  BY <1>3, <1>5, <1>6, <1>7, <1>8 DEF Placed, Asking, Answered, Rebuilds
<1>11. HoldsMode(n) /\ ~HoldsWrite(n) /\ ~HoldsBackground(n)
  BY <1>3, <1>9 DEF HoldsMode, HoldsWrite, HoldsBackground, ModeOps
<1> HIDE DEF n
<1>12. Moves(c) /\ call'[c] = n
  BY <1>1, <1>2, <1>9 DEF Moves, TypeOK
<1>13. /\ locks' \in [DOMAIN Unlocked -> Clients \union {None}]
       /\ locks'.mode = c /\ locks'.write = locks.write
       /\ locks'.background = locks.background
  BY <1>1, <1>2, LockTaken
<1>14. locks.mode # c /\ locks.write # c /\ locks.background # c
  BY <1>1, <1>2, <1>3
     DEF LocksHeld, HoldsMode, HoldsWrite, HoldsBackground, ModeOps
<1>15. \A d \in Clients:
         call[d].at = "wait" \/ locks.write = d \/ locks.background = d
         => call'[d] = call[d]
  BY <1>1, <1>12, <1>14 DEF Moves
<1>16. TypeOK'
  BY <1>1, <1>2, <1>12, <1>13 DEF TypeOK, Moves
<1>17. CallsPlaced'
  BY <1>2, <1>10, <1>12, PlacedAfter
<1>18. LocksHeld'
  BY <1>1, <1>2, <1>11, <1>12, <1>13, <1>14, LocksAfter
<1>19. EditsTracked' /\ QueueTracked'
  BY <1>1, <1>2, <1>13, <1>15, EditsKept, QueueKept
<1>20. up /\ DownIsEmpty'
  BY <1>1, <1>2, Running DEF DownIsEmpty
<1>21. ModeTracked'
  <2>1. ProgramIsMode /\ (ProgramIsMode' <=> ProgramIsMode)
    BY <1>1, <1>20 DEF IInv, ModeTracked, ProgramIsMode, Capture, Layout
  <2>2. n.at # "done" /\ ~(n.op \in Rebuilds /\ n.at \in Asking)
    BY <1>5, <1>6, <1>7, <1>8, <1>9 DEF Rebuilds, Asking
  <2>3. ModeAt(call[c])'
    BY <1>12, <2>1, <2>2 DEF ModeAt
  <2> QED
    BY <1>13, <2>3, ConstantsDiffer DEF ModeTracked
<1>22. RateTracked'
  BY <1>1, <1>6, <1>9, <1>12, <1>13 DEF IInv, RateTracked
<1>23. VarsStored'
  <2>1. n.at # "commit"
    BY <1>9
  <2> QED
    BY <1>1, <1>12, <1>13, <1>20, <2>1, ConstantsDiffer
       DEF IInv, VarsStored, Stored
<1>24. VarsShown'
  <2>1. LayoutCurrent /\ (LayoutCurrent' <=> LayoutCurrent)
    BY <1>1, <1>20 DEF IInv, VarsShown, LayoutCurrent, Capture, Layout
  <2>2. n.at \in Asking /\ n.op # "stream"
          => n.op = "set_layout" /\ n.kept = mirror.vars[n.arg]
    BY <1>5, <1>7, <1>8, <1>9 DEF Asking
  <2>3. call'[c].op = "set_layout"
          => Asked(call[c])'.layout = call'[c].arg
    BY DEF Asked, Layout
  <2>4. VarsAt(call[c])'
    BY <1>1, <1>12, <2>1, <2>2, <2>3 DEF VarsAt
  <2> QED
    BY <1>13, <2>4, ConstantsDiffer DEF VarsShown
<1>25. BackgroundTracked'
  BY <1>1, <1>13, <1>15, BackgroundKept DEF IInv
<1> QED
  BY <1>16, <1>17, <1>18, <1>19, <1>20, <1>21, <1>22, <1>23, <1>24, <1>25
     DEF IInv
LEMMA TakeBackgroundInv ==
    ASSUME IInv, NEW c \in Clients, TakeBackground(c)
    PROVE  IInv'
<1>1. /\ call[c].at = "background" /\ locks.background = None
      /\ locks' = [locks EXCEPT !.background = c]
      /\ call' = [call EXCEPT ![c].at = "write", ![c].kept = mirror.image]
      /\ UNCHANGED <<disk, edit, up, mirror, state, shown, queue, used,
                     chosen, outside, untold, adrift, misnamed, dropped>>
  BY DEF TakeBackground, conf, known, ghost
<1>2. /\ TypeOK /\ CallsPlaced /\ LocksHeld /\ EditsTracked /\ QueueTracked
      /\ DownIsEmpty
  BY DEF IInv
<1>3. call[c].op = "set_background" /\ call[c].arg \in Images \union {None}
  BY <1>1, <1>2, CallKinds DEF Placed, Asking, Answered
<1>4. mirror.image \in Images \union {None}
  BY <1>2 DEF TypeOK, Config
<1>5. /\ Moves(c)
      /\ call'[c].op = "set_background" /\ call'[c].arg = call[c].arg
      /\ call'[c].at = "write" /\ call'[c].kept = mirror.image
  <2>1. /\ "write" \in Steps
        /\ mirror.image \in {None, StreamRate} \union Vars \union Rates
                              \union Images \union Config
    BY <1>4 DEF Steps
  <2> QED
    BY <1>1, <1>2, <1>3, <2>1, KeepMoves DEF Moves
<1>6. /\ locks' \in [DOMAIN Unlocked -> Clients \union {None}]
      /\ locks'.mode = locks.mode /\ locks'.write = locks.write
      /\ locks'.background = c
  BY <1>1, <1>2, LockTaken
<1>7. locks.mode # c /\ locks.write # c /\ locks.background # c
  BY <1>1, <1>2, <1>3
     DEF LocksHeld, HoldsMode, HoldsWrite, HoldsBackground, ModeOps
<1>8. \A d \in Clients:
        call[d].at = "wait" \/ locks.write = d \/ locks.mode = d
        => call'[d] = call[d]
  BY <1>1, <1>5, <1>7 DEF Moves
<1>9. TypeOK'
  BY <1>1, <1>2, <1>5, <1>6 DEF TypeOK, Moves
<1>10. CallsPlaced'
  <2>1. Placed(call'[c])
    BY <1>3, <1>4, <1>5 DEF Placed
  <2> QED
    BY <1>2, <1>5, <2>1, PlacedAfter
<1>11. LocksHeld'
  <2>1. /\ HoldsBackground(call'[c]) /\ ~HoldsMode(call'[c])
        /\ ~HoldsWrite(call'[c])
    BY <1>5 DEF HoldsMode, HoldsWrite, HoldsBackground, ModeOps
  <2> QED
    BY <1>1, <1>2, <1>5, <1>6, <1>7, <2>1, LocksAfter
<1>12. EditsTracked' /\ QueueTracked'
  BY <1>1, <1>2, <1>6, <1>8, EditsKept, QueueKept
<1>13. up /\ DownIsEmpty'
  BY <1>1, <1>2, Running DEF DownIsEmpty
<1>14. ModeTracked' /\ RateTracked'
  BY <1>1, <1>6, <1>8, ModeKept, RateKept DEF IInv
<1>15. VarsStored' /\ VarsShown'
  BY <1>1, <1>6, <1>8, StoredKept, ShownKept DEF IInv
<1>16. BackgroundTracked'
  <2>1. /\ dropped => shown.background = None
        /\ Remembered /\ (adrift \/ disk.image = mirror.image)
    BY <1>1, <1>13 DEF IInv, BackgroundTracked
  <2>2. BackgroundAt(call[c])'
    BY <1>1, <1>5, <2>1 DEF BackgroundAt, ImageAt, Remembered
  <2> QED
    BY <1>1, <1>6, <2>1, <2>2, ConstantsDiffer DEF BackgroundTracked
<1> QED
  BY <1>9, <1>10, <1>11, <1>12, <1>13, <1>14, <1>15, <1>16 DEF IInv

LEMMA TakeWriteInv ==
    ASSUME IInv, NEW c \in Clients, TakeWrite(c)
    PROVE  IInv'
<1>1. /\ call[c].at \in {"write", "undo"} /\ call[c].op # "reload"
      /\ locks.write = None /\ locks' = [locks EXCEPT !.write = c]
      /\ Begin("daemon", SaveOf(call[c]))
      /\ Goto(c, IF call[c].at = "undo" THEN "undone" ELSE "saved")
      /\ UNCHANGED <<disk, up, mirror, state, shown, queue, used, chosen,
                     outside, untold, adrift, misnamed, dropped>>
  BY DEF TakeWrite, known, ghost
<1>2. /\ TypeOK /\ CallsPlaced /\ LocksHeld /\ EditsTracked /\ QueueTracked
      /\ DownIsEmpty
  BY DEF IInv
<1>3. /\ Placed(call[c])
      /\ call[c].op \in {"set_layout_vars", "set_default_layout",
                         "set_background"}
      /\ call[c].at = "undo" => call[c].op = "set_background"
  <2>1. /\ Placed(call[c])
        /\ call[c].op \in {"none", "set_layout", "stream", "set_layout_vars",
                           "set_default_layout", "set_background", "reload"}
        /\ call[c].op = "none" => call[c].at = "idle"
    BY <1>2, CallKinds
  <2> QED
    BY <1>1, <2>1 DEF Placed, Asking, Answered
<1>4. /\ Moves(c)
      /\ call'[c].op = call[c].op /\ call'[c].arg = call[c].arg
      /\ call'[c].at = IF call[c].at = "undo" THEN "undone" ELSE "saved"
      /\ call'[c].kept = call[c].kept
  BY <1>1, <1>2, GotoMoves DEF Moves, Steps
<1>5. /\ locks' \in [DOMAIN Unlocked -> Clients \union {None}]
      /\ locks'.mode = locks.mode /\ locks'.write = c
      /\ locks'.background = locks.background
  BY <1>1, <1>2, LockTaken
<1>6. SaveOf(call[c]) \in Saves /\ SavedBy(call'[c]) = SaveOf(call[c])
  <2>1. call'[c] \in Calls
    BY <1>4 DEF Moves
  <2> QED
    BY <1>1, <1>2, <1>4, <2>1, SavedByCall
<1>7. /\ edit' \in [Processes -> Edits \union {None}]
      /\ edit'["daemon"] # None /\ edit'["daemon"].file = disk
      /\ edit'["daemon"].save = SavedBy(call'[c])
      /\ ~edit'["daemon"].raced
      /\ edit'["gui"] = edit["gui"]
  BY <1>1, <1>2, <1>6, BegunEdit DEF Processes
<1>8. TypeOK'
  BY <1>1, <1>2, <1>4, <1>5, <1>7 DEF TypeOK, Moves
<1>9. CallsPlaced'
  <2>1. Placed(call'[c])
    BY <1>1, <1>3, <1>4 DEF Placed, Asking, Answered
  <2> QED
    BY <1>2, <1>4, <2>1, PlacedAfter
<1>10. LocksHeld'
  <2>1. HoldsWrite(call'[c])
    BY <1>4 DEF HoldsWrite
  <2>2. HoldsMode(call'[c]) <=> locks.mode = c
    BY <1>1, <1>2, <1>3, <1>4 DEF LocksHeld, HoldsMode
  <2>3. HoldsBackground(call'[c]) <=> locks.background = c
    BY <1>1, <1>2, <1>3, <1>4 DEF LocksHeld, HoldsBackground
  <2> QED
    BY <1>1, <1>2, <1>4, <1>5, <2>1, <2>2, <2>3, LocksAfter
<1>11. EditsTracked'
  <2>1. \A d \in Clients: locks'.write = d =>
          edit'["daemon"].save = SavedBy(call'[d])
    BY <1>5, <1>7
  <2>2. SavedBy(call[c])' = SavedBy(call'[c])
    BY DEF SavedBy, Save
  <2>3. \A p \in Processes:
          edit'[p] # None /\ ~edit'[p].raced => edit'[p].file = disk'
    BY <1>1, <1>2, <1>7 DEF EditsTracked, Processes
  <2>4. edit'["daemon"] = None <=> locks'.write = None
    BY <1>5, <1>7, ConstantsDiffer
  <2>5. \A d \in Clients: locks'.write = d =>
          edit'["daemon"].save = SavedBy(call[d])'
    BY <1>5, <1>7, <2>2
  <2> QED
    BY <1>7, <2>3, <2>4, <2>5 DEF EditsTracked
<1>12. QueueTracked'
  <2>1. \A d \in Clients: call[d].at = "wait" => call'[d] = call[d]
    BY <1>1, <1>4 DEF Moves
  <2> QED
    BY <1>1, <1>2, <2>1, QueueKept
<1>13. up /\ DownIsEmpty'
  BY <1>1, <1>2, Running DEF DownIsEmpty
<1>14. /\ ModeTracked' /\ RateTracked' /\ VarsStored' /\ VarsShown'
       /\ BackgroundTracked'
  <2>1. /\ call[c].at \in {"write", "saved"}
             <=> call'[c].at \in {"write", "saved"}
        /\ call[c].at \in Asking <=> call'[c].at \in Asking
        /\ call[c].at \notin {"done", "commit"}
        /\ call'[c].at \notin {"done", "commit"}
    BY <1>1, <1>4 DEF Asking
  <2> QED
    BY <1>1, <1>4, <1>5, <2>1, MovedOn
<1> QED
  BY <1>8, <1>9, <1>10, <1>11, <1>12, <1>13, <1>14 DEF IInv

LEMMA LoadInv ==
    ASSUME IInv, NEW c \in Clients, Load(c)
    PROVE  IInv'
<1>1. /\ call[c].at = "write" /\ call[c].op = "reload" /\ locks.write = None
      /\ outside' = FALSE
      /\ call' = [call EXCEPT ![c].at = "commit", ![c].kept = disk]
      /\ UNCHANGED <<disk, edit, up, mirror, state, shown, locks, queue,
                     used, chosen, untold, adrift, misnamed, dropped>>
  BY DEF Load, conf, known
<1>2. /\ TypeOK /\ CallsPlaced /\ LocksHeld /\ EditsTracked /\ QueueTracked
      /\ DownIsEmpty
  BY DEF IInv
<1>3. disk \in Config
  BY <1>2 DEF TypeOK
<1>4. /\ Moves(c)
      /\ call'[c].op = "reload" /\ call'[c].arg = call[c].arg
      /\ call'[c].at = "commit" /\ call'[c].kept = disk
  BY <1>1, <1>2, <1>3, KeepMoves DEF Moves, Steps
<1>5. locks.mode = c /\ locks.write # c /\ locks.background # c
  BY <1>1, <1>2
     DEF LocksHeld, HoldsMode, HoldsWrite, HoldsBackground, ModeOps
<1>6. edit["daemon"] = None
  BY <1>1, <1>2 DEF EditsTracked
<1>7. TypeOK'
  BY <1>1, <1>2, <1>4 DEF TypeOK, Moves
<1>8. CallsPlaced'
  <2>1. Placed(call'[c])
    BY <1>3, <1>4 DEF Placed, Asking
  <2> QED
    BY <1>2, <1>4, <2>1, PlacedAfter
<1>9. LocksHeld'
  <2>1. /\ ~HoldsBackground(call'[c]) /\ HoldsMode(call'[c])
        /\ ~HoldsWrite(call'[c])
    BY <1>4 DEF HoldsMode, HoldsWrite, HoldsBackground, ModeOps
  <2> QED
    BY <1>1, <1>2, <1>4, <1>5, <2>1, LocksAfter
<1>10. EditsTracked'
  BY <1>1, <1>2, <1>6, ConstantsDiffer DEF EditsTracked
<1>11. QueueTracked'
  <2>1. \A d \in Clients: call[d].at = "wait" => call'[d] = call[d]
    BY <1>1, <1>4 DEF Moves
  <2> QED
    BY <1>1, <1>2, <2>1, QueueKept
<1>12. up /\ DownIsEmpty'
  BY <1>1, <1>2, Running DEF DownIsEmpty
<1>13. ModeTracked'
  <2>1. ProgramIsMode /\ (ProgramIsMode' <=> ProgramIsMode)
    BY <1>1, <1>5, <1>12
       DEF IInv, ModeTracked, ModeAt, ProgramIsMode, Capture, Layout
  <2>2. ModeAt(call[c])'
    BY <1>4, <2>1 DEF ModeAt, Asking
  <2> QED
    BY <1>1, <1>5, <2>2, ConstantsDiffer DEF ModeTracked
<1>14. RateTracked'
  BY <1>1, <1>4, <1>5 DEF IInv, RateTracked
<1>15. VarsStored'
  BY <1>1, <1>4, <1>5, ConstantsDiffer DEF VarsStored, Stored
<1>16. VarsShown'
  <2>1. LayoutCurrent /\ (LayoutCurrent' <=> LayoutCurrent)
    BY <1>1, <1>5, <1>12
       DEF IInv, VarsShown, VarsAt, Asking, LayoutCurrent, Capture, Layout
  <2>2. VarsAt(call[c])'
    BY <1>4, <2>1 DEF VarsAt, Asking
  <2> QED
    BY <1>1, <1>5, <2>2, ConstantsDiffer DEF VarsShown
<1>17. BackgroundTracked'
  <2>1. \A d \in Clients: locks.background = d => call'[d] = call[d]
    BY <1>4, <1>5 DEF Moves
  <2> QED
    BY <1>1, <2>1, BackgroundKept DEF IInv
<1> QED
  BY <1>7, <1>8, <1>9, <1>10, <1>11, <1>12, <1>13, <1>14, <1>15, <1>16, <1>17
     DEF IInv

LEMMA SendInv ==
    ASSUME IInv, NEW c \in Clients, Send(c)
    PROVE  IInv'
<1>1. /\ call[c].at = "send"
      /\ queue' = Append(queue, Request(c))
      /\ Goto(c, "wait")
      /\ UNCHANGED <<disk, edit, up, mirror, state, shown, locks, used,
                     chosen, outside, untold, adrift, misnamed, dropped>>
  BY DEF Send, conf, known, ghost
<1>2. /\ TypeOK /\ CallsPlaced /\ LocksHeld /\ EditsTracked /\ QueueTracked
      /\ DownIsEmpty
  BY DEF IInv
<1>3. /\ Moves(c)
      /\ call'[c].op = call[c].op /\ call'[c].arg = call[c].arg
      /\ call'[c].at = "wait" /\ call'[c].kept = call[c].kept
  BY <1>1, <1>2, GotoMoves DEF Moves, Steps
<1>4. /\ Placed(call[c])
      /\ call[c].op \in {"set_layout", "stream", "set_layout_vars",
                         "set_background", "reload"}
  <2>1. /\ Placed(call[c])
        /\ call[c].op \in {"none", "set_layout", "stream", "set_layout_vars",
                           "set_default_layout", "set_background", "reload"}
        /\ call[c].op = "none" => call[c].at = "idle"
    BY <1>2, CallKinds
  <2> QED
    BY <1>1, <2>1 DEF Placed
<1>5. Request(c) \in Requests /\ Request(c).from = c
  <2>1. ASSUME NEW l \in Layouts, NEW v \in Vars
        PROVE  Layout(l, v) \in Programs
    BY DEF Layout, Programs
  <2>2. state.layout \in Layouts
    BY <1>2 DEF TypeOK
  <2>3. CASE call[c].op = "set_layout"
    <3>1. Request(c) = [from |-> c, what |-> "program",
                        value |-> Layout(call[c].arg, call[c].kept)]
      BY <2>3 DEF Request
    <3>2. Layout(call[c].arg, call[c].kept) \in Programs
      BY <1>1, <1>4, <2>1, <2>3 DEF Placed, Asking
    <3> QED
      BY <3>1, <3>2 DEF Requests
  <2>4. CASE call[c].op = "set_layout_vars"
    <3>1. Request(c) = [from |-> c, what |-> "program",
                        value |-> Layout(call[c].arg[1], call[c].kept)]
      BY <2>4 DEF Request
    <3>2. call[c].arg \in Layouts \X Vars /\ call[c].kept = call[c].arg[2]
      BY <1>1, <1>4, <2>4 DEF Placed, Asking
    <3>3. Layout(call[c].arg[1], call[c].kept) \in Programs
      BY <2>1, <3>2
    <3> QED
      BY <3>1, <3>3 DEF Requests
  <2>5. CASE call[c].op = "reload"
    <3>1. Request(c) = [from |-> c, what |-> "program",
                        value |-> Layout(state.layout, call[c].kept)]
      BY <2>5 DEF Request
    <3>2. Layout(state.layout, call[c].kept) \in Programs
      BY <1>1, <1>4, <2>1, <2>2, <2>5 DEF Placed, Asking
    <3> QED
      BY <3>1, <3>2 DEF Requests
  <2>6. CASE call[c].op = "stream"
    <3>1. Request(c) = [from |-> c, what |-> "program", value |-> Capture]
      BY <2>6 DEF Request
    <3> QED
      BY <3>1 DEF Requests, Programs
  <2>7. CASE call[c].op = "set_background"
    <3>1. Request(c) = [from |-> c, what |-> "background",
                        value |-> call[c].arg]
      BY <2>7 DEF Request
    <3>2. call[c].arg \in Images \union {None}
      BY <1>4, <2>7 DEF Placed
    <3> QED
      BY <3>1, <3>2 DEF Requests
  <2> QED
    BY <1>4, <2>3, <2>4, <2>5, <2>6, <2>7
<1>6. /\ queue \in Seq(Requests) /\ queue' \in Seq(Requests)
      /\ Len(queue') = Len(queue) + 1
      /\ \A i \in 1 .. Len(queue): queue'[i] = queue[i]
      /\ queue'[Len(queue) + 1] = Request(c)
      /\ DOMAIN queue' = 1 .. Len(queue) + 1 /\ DOMAIN queue = 1 .. Len(queue)
      /\ Len(queue) \in Nat
  BY <1>1, <1>2, <1>5 DEF TypeOK
<1>7. TypeOK'
  BY <1>1, <1>2, <1>3, <1>6 DEF TypeOK, Moves
<1>8. CallsPlaced'
  <2>1. Placed(call'[c])
    BY <1>1, <1>3, <1>4 DEF Placed, Asking
  <2> QED
    BY <1>2, <1>3, <2>1, PlacedAfter
<1>9. LocksHeld'
  <2>1. /\ HoldsMode(call'[c]) <=> HoldsMode(call[c])
        /\ HoldsWrite(call'[c]) <=> HoldsWrite(call[c])
        /\ HoldsBackground(call'[c]) <=> HoldsBackground(call[c])
    BY <1>1, <1>3 DEF HoldsMode, HoldsWrite, HoldsBackground
  <2> QED
    BY <1>1, <1>2, <1>3, <2>1, LocksAfter DEF LocksHeld
<1>10. EditsTracked'
  <2>1. \A d \in Clients: locks.write = d => call'[d] = call[d]
    BY <1>1, <1>2, <1>3 DEF Moves, LocksHeld, HoldsWrite
  <2> QED
    BY <1>1, <1>2, <2>1, EditsKept
<1>11. QueueTracked'
  <2>1. Request(c)' = Request(c)
    BY <1>1, <1>3, <1>4 DEF Request, Capture, Layout
  <2>2. ASSUME NEW i \in 1 .. Len(queue)
        PROVE  /\ queue'[i] = queue[i] /\ queue[i].from \in Clients
               /\ queue[i].from # c
               /\ call'[queue[i].from].at = "wait"
               /\ queue[i] = Request(queue[i].from)'
    <3>1. /\ queue'[i] = queue[i] /\ queue[i].from \in Clients
          /\ call[queue[i].from].at = "wait"
          /\ queue[i] = Request(queue[i].from)
      BY <1>2, <1>6, QueueTyped DEF QueueTracked
    <3>2. queue[i].from # c
      BY <1>1, <3>1
    <3>3. call'[queue[i].from] = call[queue[i].from]
      BY <1>3, <3>1, <3>2 DEF Moves
    <3>4. Request(queue[i].from)' = Request(queue[i].from)
      BY <1>1, <1>2, <3>1, <3>3, RequestKept
    <3> QED
      BY <3>1, <3>2, <3>3, <3>4
  <2>3. ASSUME NEW i \in DOMAIN queue'
        PROVE  \E d \in Clients: /\ queue'[i].from = d
                                 /\ call'[d].at = "wait"
                                 /\ queue'[i] = Request(d)'
    <3>1. CASE i \in 1 .. Len(queue)
      BY <2>2, <3>1
    <3>2. CASE i = Len(queue) + 1
      BY <1>3, <1>5, <1>6, <2>1, <3>2
    <3> QED
      BY <1>6, <3>1, <3>2
  <2>4. ASSUME NEW i \in DOMAIN queue', NEW j \in DOMAIN queue',
               queue'[i].from = queue'[j].from
        PROVE  i = j
    <3>1. CASE i \in 1 .. Len(queue) /\ j \in 1 .. Len(queue)
      BY <1>2, <1>6, <2>2, <2>4, <3>1 DEF QueueTracked
    <3>2. CASE i = Len(queue) + 1 \/ j = Len(queue) + 1
      BY <1>5, <1>6, <2>2, <2>4, <3>2
    <3> QED
      BY <1>6, <3>1, <3>2
  <2> QED
    BY <2>3, <2>4 DEF QueueTracked
<1>12. up /\ DownIsEmpty'
  BY <1>1, <1>2, Running DEF DownIsEmpty
<1>13. /\ ModeTracked' /\ RateTracked' /\ VarsStored' /\ VarsShown'
       /\ BackgroundTracked'
  <2>1. /\ call[c].at \in {"write", "saved"}
             <=> call'[c].at \in {"write", "saved"}
        /\ call[c].at \in Asking <=> call'[c].at \in Asking
        /\ call[c].at \notin {"done", "commit"}
        /\ call'[c].at \notin {"done", "commit"}
    BY <1>1, <1>3 DEF Asking
  <2> QED
    BY <1>1, <1>3, <2>1, MovedOn
<1> QED
  BY <1>7, <1>8, <1>9, <1>10, <1>11, <1>12, <1>13 DEF IInv
\* A call that returns, whatever else the step does.
LEMMA Returned ==
    ASSUME TypeOK, CallsPlaced, LocksHeld, NEW c \in Clients, Return(c)
    PROVE  /\ Moves(c) /\ call'[c] = NoCall
           /\ locks' \in [DOMAIN Unlocked -> Clients \union {None}]
           /\ locks'.mode = IF locks.mode = c THEN None ELSE locks.mode
           /\ locks'.write = IF locks.write = c THEN None ELSE locks.write
           /\ locks'.background = IF locks.background = c THEN None
                                  ELSE locks.background
           /\ CallsPlaced' /\ LocksHeld'
<1>1. /\ Moves(c) /\ call'[c] = NoCall
      /\ locks' \in [DOMAIN Unlocked -> Clients \union {None}]
      /\ locks'.mode = IF locks.mode = c THEN None ELSE locks.mode
      /\ locks'.write = IF locks.write = c THEN None ELSE locks.write
      /\ locks'.background = IF locks.background = c THEN None
                             ELSE locks.background
  BY ReturnMoves DEF Moves
<1>2. NoCall.op = "none" /\ NoCall.at = "idle"
  BY DEF NoCall
<1>3. CallsPlaced'
  <2>1. Placed(call'[c])
    BY <1>1, <1>2 DEF Placed
  <2> QED
    BY <1>1, <2>1, PlacedAfter
<1>4. LocksHeld'
  <2>1. /\ ~HoldsMode(call'[c]) /\ ~HoldsWrite(call'[c])
        /\ ~HoldsBackground(call'[c])
    BY <1>1, <1>2 DEF HoldsMode, HoldsWrite, HoldsBackground, ModeOps
  <2>2. locks'.mode # c /\ locks'.write # c /\ locks'.background # c
    BY <1>1, ConstantsDiffer
  <2> QED
    BY <1>1, <2>1, <2>2, LocksAfter
<1> QED
  BY <1>1, <1>3, <1>4

\* What a rename of the daemon does to the file and to the edits.
LEMMA DaemonRenamed ==
    ASSUME IInv, NEW c \in Clients, locks.write = c, Rename("daemon")
    PROVE  /\ edit' \in [Processes -> Edits \union {None}]
           /\ edit'["daemon"] = None
           /\ edit'["gui"] # None => edit'["gui"].raced
           /\ disk' \in Config
           /\ SavedBy(call[c]) \in Saves
           /\ SavedBy(call[c]).what # "vars" => disk'.vars = disk.vars \/ outside
           /\ SavedBy(call[c]).what = "vars" =>
                \/ outside
                \/ disk'.vars = [disk.vars EXCEPT ![SavedBy(call[c]).value[1]] =
                                                    SavedBy(call[c]).value[2]]
           /\ SavedBy(call[c]).what # "image" =>
                disk'.image = disk.image \/ adrift
           /\ SavedBy(call[c]).what = "image" =>
                disk'.image = SavedBy(call[c]).value
<1>1. /\ TypeOK /\ EditsTracked
  BY DEF IInv
<1>2. /\ edit["daemon"] # None
      /\ edit["daemon"].save = SavedBy(call[c])
      /\ edit["daemon"].file = disk \/ (outside /\ adrift)
  BY <1>1, ConstantsDiffer DEF EditsTracked, Processes
<1>3. /\ edit' \in [Processes -> Edits \union {None}]
      /\ edit'["daemon"] = None
      /\ edit'["gui"] # None => edit'["gui"].raced
      /\ edit["daemon"].file \in Config /\ edit["daemon"].save \in Saves
      /\ disk' = Saved(edit["daemon"].file, edit["daemon"].save)
      /\ disk' \in Config
  BY <1>1, <1>2, RenamedEdit DEF Processes
<1>4. /\ edit["daemon"].save.what # "vars" => disk'.vars = disk.vars \/ outside
      /\ edit["daemon"].save.what # "image" =>
           disk'.image = disk.image \/ adrift
      /\ edit["daemon"].save.what = "image" =>
           disk'.image = edit["daemon"].save.value
  <2>1. /\ edit["daemon"].save.what # "vars" =>
             disk'.vars = edit["daemon"].file.vars
        /\ edit["daemon"].save.what # "image" =>
             disk'.image = edit["daemon"].file.image
        /\ edit["daemon"].save.what = "image" =>
             disk'.image = edit["daemon"].save.value
    BY <1>3, SavedSections
  <2> QED
    BY <1>2, <2>1
<1>5. ASSUME edit["daemon"].save.what = "vars", ~outside
      PROVE  disk'.vars = [disk.vars EXCEPT ![edit["daemon"].save.value[1]] =
                                              edit["daemon"].save.value[2]]
  <2>1. edit["daemon"].file = disk
    BY <1>2, <1>5
  <2> QED
    BY <1>3, <1>5, <2>1, SavedSections
<1> QED
  BY <1>2, <1>3, <1>4, <1>5

LEMMA FinishSaveInv ==
    ASSUME IInv, NEW c \in Clients, FinishSave(c)
    PROVE  IInv'
<1>1. /\ call[c].at \in {"saved", "undone"} /\ locks.write = c
      /\ Rename("daemon")
      /\ UNCHANGED <<up, mirror, state, shown, queue, used, chosen, outside,
                     untold, adrift, misnamed, dropped>>
  BY DEF FinishSave, known, ghost
<1>2. /\ TypeOK /\ CallsPlaced /\ LocksHeld /\ EditsTracked /\ QueueTracked
      /\ DownIsEmpty
  BY DEF IInv
<1>3. /\ Placed(call[c])
      /\ call[c].op \in {"set_layout_vars", "set_default_layout",
                         "set_background"}
      /\ call[c].at = "undone" => call[c].op = "set_background"
  <2>1. /\ Placed(call[c])
        /\ call[c].op \in {"none", "set_layout", "stream", "set_layout_vars",
                           "set_default_layout", "set_background", "reload"}
        /\ call[c].op = "none" => call[c].at = "idle"
    BY <1>2, CallKinds
  <2> QED
    BY <1>1, <2>1 DEF Placed, Asking, Answered
<1>4. /\ edit' \in [Processes -> Edits \union {None}]
      /\ edit'["daemon"] = None
      /\ edit'["gui"] # None => edit'["gui"].raced
      /\ disk' \in Config
  BY <1>1, DaemonRenamed
<1>5. up
  BY <1>1, <1>2, Running
<1>6. CASE call[c].at = "undone"
  <2>1. Return(c)
    BY <1>1, <1>6 DEF FinishSave
  <2>2. /\ Moves(c) /\ call'[c] = NoCall
        /\ locks' \in [DOMAIN Unlocked -> Clients \union {None}]
        /\ locks'.mode = IF locks.mode = c THEN None ELSE locks.mode
        /\ locks'.write = None
        /\ locks'.background = IF locks.background = c THEN None
                               ELSE locks.background
        /\ CallsPlaced' /\ LocksHeld'
    BY <1>1, <1>2, <2>1, Returned
  <2>3. locks.mode # c /\ locks.background = c
    BY <1>2, <1>3, <1>6
       DEF LocksHeld, HoldsMode, HoldsBackground, ModeOps
  <2>4. disk'.vars = disk.vars \/ outside
    <3>1. SavedBy(call[c]).what # "vars"
      BY <1>6 DEF SavedBy, Save
    <3> QED
      BY <1>1, <3>1, DaemonRenamed
  <2>5. disk'.image = call[c].kept
    <3>1. /\ SavedBy(call[c]).what = "image"
          /\ SavedBy(call[c]).value = call[c].kept
      BY <1>6 DEF SavedBy, Save
    <3> QED
      BY <1>1, <3>1, DaemonRenamed
  <2>6. \A d \in Clients:
          call[d].at = "wait" \/ locks.mode = d => call'[d] = call[d]
    BY <1>6, <2>2, <2>3 DEF Moves
  <2>7. TypeOK'
    BY <1>1, <1>2, <1>4, <2>2 DEF TypeOK, Moves
  <2>8. EditsTracked'
    BY <1>4, <2>2, ConstantsDiffer DEF EditsTracked, Processes
  <2>9. QueueTracked' /\ DownIsEmpty'
    BY <1>1, <1>2, <1>5, <2>6, QueueKept DEF DownIsEmpty
  <2>10. ModeTracked' /\ RateTracked'
    BY <1>1, <2>2, <2>3, <2>6, ModeKept, RateKept DEF IInv
  <2>11. VarsStored' /\ VarsShown'
    BY <1>1, <2>2, <2>3, <2>4, <2>6, StoredKept, ShownKept DEF IInv
  <2>12. BackgroundTracked'
    <3>1. /\ dropped => shown.background = None
          /\ Remembered /\ (adrift \/ call[c].kept = mirror.image)
      BY <1>5, <1>6, <2>3 DEF IInv, BackgroundTracked, BackgroundAt, ImageAt
    <3> QED
      BY <1>1, <2>2, <2>3, <2>5, <3>1, ConstantsDiffer
         DEF BackgroundTracked, Remembered
  <2> QED
    BY <2>2, <2>7, <2>8, <2>9, <2>10, <2>11, <2>12 DEF IInv
<1>7. CASE call[c].at = "saved"
  <2>1. /\ locks' = [locks EXCEPT !.write = None]
        /\ Goto(c, IF call[c].op = "set_background" THEN "send" ELSE "commit")
    BY <1>1, <1>7 DEF FinishSave
  <2>2. /\ Moves(c)
        /\ call'[c].op = call[c].op /\ call'[c].arg = call[c].arg
        /\ call'[c].at = IF call[c].op = "set_background" THEN "send"
                         ELSE "commit"
        /\ call'[c].kept = call[c].kept
    BY <1>2, <2>1, GotoMoves DEF Moves, Steps
  <2>3. /\ locks' \in [DOMAIN Unlocked -> Clients \union {None}]
        /\ locks'.mode = locks.mode /\ locks'.write = None
        /\ locks'.background = locks.background
    BY <1>2, <2>1, LockTaken
  <2>4. TypeOK'
    BY <1>1, <1>2, <1>4, <2>2, <2>3 DEF TypeOK, Moves
  <2>5. CallsPlaced'
    <3>1. Placed(call'[c])
      BY <1>3, <1>7, <2>2 DEF Placed, Asking
    <3> QED
      BY <1>2, <2>2, <3>1, PlacedAfter
  <2>6. LocksHeld'
    <3>1. /\ HoldsMode(call'[c]) <=> HoldsMode(call[c])
          /\ ~HoldsWrite(call'[c])
          /\ HoldsBackground(call'[c]) <=> HoldsBackground(call[c])
      BY <1>7, <2>2 DEF HoldsMode, HoldsWrite, HoldsBackground
    <3>2. /\ locks.mode = c <=> HoldsMode(call[c])
          /\ locks.background = c <=> HoldsBackground(call[c])
      BY <1>2 DEF LocksHeld
    <3> QED
      BY <1>1, <1>2, <2>2, <2>3, <3>1, <3>2, ConstantsDiffer, LocksAfter
  <2>7. EditsTracked'
    BY <1>4, <2>3, ConstantsDiffer DEF EditsTracked, Processes
  <2>8. QueueTracked' /\ DownIsEmpty'
    <3>1. \A d \in Clients: call[d].at = "wait" => call'[d] = call[d]
      BY <1>7, <2>2 DEF Moves
    <3> QED
      BY <1>1, <1>2, <1>5, <3>1, QueueKept DEF DownIsEmpty
  <2>9. CASE call[c].op = "set_layout_vars"
    <3>1. locks.mode = c /\ locks.background # c
      BY <1>2, <1>7, <2>9
         DEF LocksHeld, HoldsMode, HoldsBackground, ModeOps
    <3>2. /\ SavedBy(call[c]).what = "vars"
          /\ SavedBy(call[c]).value = call[c].arg
      BY <1>7, <2>9 DEF SavedBy, Save
    <3>3. /\ disk'.image = disk.image \/ adrift
          /\ \/ outside
             \/ disk'.vars = [disk.vars EXCEPT ![call[c].arg[1]] =
                                                 call[c].arg[2]]
      BY <1>1, <3>2, DaemonRenamed
    <3>4. ModeTracked'
      <4>1. ProgramIsMode /\ (ProgramIsMode' <=> ProgramIsMode)
        BY <1>1, <1>5, <1>7, <3>1
           DEF IInv, ModeTracked, ModeAt, ProgramIsMode, Capture, Layout
      <4>2. ModeAt(call[c])'
        BY <2>2, <2>9, <4>1 DEF ModeAt, Asking
      <4> QED
        BY <1>1, <2>3, <3>1, <4>2, ConstantsDiffer DEF ModeTracked
    <3>5. RateTracked'
      BY <1>1, <2>2, <2>3, <2>9, <3>1 DEF IInv, RateTracked
    <3>6. VarsStored'
      <4>1. outside \/ mirror.vars = disk.vars
        BY <1>5, <1>7, <3>1 DEF IInv, VarsStored, Stored
      <4>2. outside \/ Stored(call[c])'
        BY <1>1, <2>2, <2>9, <3>3, <4>1 DEF Stored
      <4> QED
        BY <1>1, <2>3, <3>1, <4>2, ConstantsDiffer DEF VarsStored
    <3>7. VarsShown'
      <4>1. LayoutCurrent /\ (LayoutCurrent' <=> LayoutCurrent)
        BY <1>1, <1>5, <1>7, <3>1
           DEF IInv, VarsShown, VarsAt, Asking, LayoutCurrent, Capture, Layout
      <4>2. VarsAt(call[c])'
        BY <2>2, <2>9, <4>1 DEF VarsAt, Asking
      <4> QED
        BY <1>1, <2>3, <3>1, <4>2, ConstantsDiffer DEF VarsShown
    <3>8. BackgroundTracked'
      <4>1. \A d \in Clients: locks.background = d => call'[d] = call[d]
        BY <2>2, <3>1 DEF Moves
      <4> QED
        BY <1>1, <2>3, <3>3, <4>1, BackgroundKept DEF IInv
    <3> QED
      BY <2>4, <2>5, <2>6, <2>7, <2>8, <3>4, <3>5, <3>6, <3>7, <3>8 DEF IInv
  <2>10. CASE call[c].op \in {"set_default_layout", "set_background"}
    <3>1. locks.mode # c
      BY <1>2, <2>10 DEF LocksHeld, HoldsMode, ModeOps
    <3>2. \A d \in Clients: locks.mode = d => call'[d] = call[d]
      BY <2>2, <3>1 DEF Moves
    <3>3. disk'.vars = disk.vars \/ outside
      <4>1. SavedBy(call[c]).what # "vars"
        BY <2>10 DEF SavedBy, Save
      <4> QED
        BY <1>1, <4>1, DaemonRenamed
    <3>4. ModeTracked' /\ RateTracked'
      BY <1>1, <2>3, <3>2, ModeKept, RateKept DEF IInv
    <3>5. VarsStored' /\ VarsShown'
      BY <1>1, <2>3, <3>2, <3>3, StoredKept, ShownKept DEF IInv
    <3>6. BackgroundTracked'
      <4>1. CASE call[c].op = "set_default_layout"
        <5>1. locks.background # c
          BY <1>2, <4>1 DEF LocksHeld, HoldsBackground
        <5>2. SavedBy(call[c]).what = "layout"
          BY <1>7, <4>1 DEF SavedBy, Save
        <5>3. disk'.image = disk.image \/ adrift
          BY <1>1, <5>2, DaemonRenamed
        <5>4. \A d \in Clients: locks.background = d => call'[d] = call[d]
          BY <2>2, <5>1 DEF Moves
        <5> QED
          BY <1>1, <2>3, <5>3, <5>4, BackgroundKept DEF IInv
      <4>2. CASE call[c].op = "set_background"
        <5>1. locks.background = c
          BY <1>2, <1>7, <4>2 DEF LocksHeld, HoldsBackground
        <5>2. /\ SavedBy(call[c]).what = "image"
              /\ SavedBy(call[c]).value = call[c].arg
          BY <1>7, <4>2 DEF SavedBy, Save
        <5>3. disk'.image = call[c].arg
          BY <1>1, <5>2, DaemonRenamed
        <5>4. /\ dropped => shown.background = None
              /\ Remembered /\ (adrift \/ call[c].kept = mirror.image)
          BY <1>5, <1>7, <5>1
             DEF IInv, BackgroundTracked, BackgroundAt, ImageAt
        <5>5. BackgroundAt(call[c])'
          BY <1>1, <2>2, <4>2, <5>3, <5>4
             DEF BackgroundAt, ImageAt, Remembered
        <5> QED
          BY <1>1, <2>3, <5>1, <5>4, <5>5, ConstantsDiffer
             DEF BackgroundTracked
      <4> QED
        BY <2>10, <4>1, <4>2
    <3> QED
      BY <2>4, <2>5, <2>6, <2>7, <2>8, <3>4, <3>5, <3>6 DEF IInv
  <2> QED
    BY <1>3, <2>9, <2>10
<1> QED
  BY <1>1, <1>6, <1>7
\* A call that returns with nothing halfway.
LEMMA ReturnedQuietly ==
    ASSUME IInv, NEW c \in Clients, Return(c), call[c].at # "wait",
           UNCHANGED <<disk, up, mirror, state, shown, queue, chosen,
                       outside, untold, misnamed, dropped>>,
           adrift => adrift',
           locks.mode = c => /\ ProgramIsMode /\ LayoutCurrent
                             /\ outside \/ mirror.vars = disk.vars,
           locks.background = c => /\ Remembered
                                   /\ adrift' \/ disk.image = mirror.image,
           up
    PROVE  /\ QueueTracked' /\ DownIsEmpty' /\ ModeTracked' /\ RateTracked'
           /\ VarsStored' /\ VarsShown' /\ BackgroundTracked'
<1>1. /\ TypeOK /\ CallsPlaced /\ LocksHeld /\ QueueTracked /\ ModeTracked
      /\ RateTracked /\ VarsStored /\ VarsShown /\ BackgroundTracked
  BY DEF IInv
<1>2. /\ Moves(c) /\ call'[c] = NoCall
      /\ locks'.mode = IF locks.mode = c THEN None ELSE locks.mode
      /\ locks'.background = IF locks.background = c THEN None
                             ELSE locks.background
  BY <1>1, Returned
<1>3. QueueTracked' /\ DownIsEmpty'
  <2>1. \A d \in Clients: call[d].at = "wait" => call'[d] = call[d]
    BY <1>2 DEF Moves
  <2> QED
    BY <1>1, <2>1, QueueKept DEF DownIsEmpty
<1>4. /\ ProgramIsMode' <=> ProgramIsMode
      /\ LayoutCurrent' <=> LayoutCurrent
  BY DEF ProgramIsMode, LayoutCurrent, Capture, Layout
<1>5. CASE locks.mode = c
  <2>1. ModeTracked'
    BY <1>2, <1>4, <1>5, ConstantsDiffer DEF ModeTracked
  <2>2. RateTracked'
    BY <1>1, <1>2, <1>5, ConstantsDiffer DEF RateTracked
  <2>3. VarsStored' /\ VarsShown'
    BY <1>2, <1>4, <1>5, ConstantsDiffer DEF VarsStored, VarsShown
  <2>4. BackgroundTracked'
    <3>1. CASE locks.background = c
      BY <1>1, <1>2, <3>1, ConstantsDiffer DEF BackgroundTracked, Remembered
    <3>2. CASE locks.background # c
      <4>1. \A d \in Clients: locks.background = d => call'[d] = call[d]
        BY <1>2, <3>2 DEF Moves
      <4> QED
        BY <1>1, <1>2, <3>2, <4>1, BackgroundKept
    <3> QED
      BY <3>1, <3>2
  <2> QED
    BY <1>3, <2>1, <2>2, <2>3, <2>4
<1>6. CASE locks.mode # c
  <2>1. \A d \in Clients: locks.mode = d => call'[d] = call[d]
    BY <1>2, <1>6 DEF Moves
  <2>2. ModeTracked' /\ RateTracked'
    BY <1>1, <1>2, <1>6, <2>1, ModeKept, RateKept
  <2>3. VarsStored' /\ VarsShown'
    BY <1>1, <1>2, <1>6, <2>1, StoredKept, ShownKept
  <2>4. BackgroundTracked'
    <3>1. CASE locks.background = c
      BY <1>1, <1>2, <3>1, ConstantsDiffer DEF BackgroundTracked, Remembered
    <3>2. CASE locks.background # c
      <4>1. \A d \in Clients: locks.background = d => call'[d] = call[d]
        BY <1>2, <3>2 DEF Moves
      <4> QED
        BY <1>1, <1>2, <3>2, <4>1, BackgroundKept
    <3> QED
      BY <3>1, <3>2
  <2> QED
    BY <1>3, <2>2, <2>3, <2>4
<1> QED
  BY <1>5, <1>6

\* The holder of mode_change_lock, at a step where nothing is halfway.
LEMMA ModeSettled ==
    ASSUME IInv, NEW c \in Clients, locks.mode = c, up,
           call[c].at # "commit",
           call[c].op \in Rebuilds => call[c].at \notin Asking,
           call[c].op \in {"set_layout", "stream"} => call[c].at # "done"
    PROVE  /\ ProgramIsMode /\ LayoutCurrent
           /\ outside \/ mirror.vars = disk.vars
<1>1. ModeAt(call[c]) /\ VarsAt(call[c]) /\ (outside \/ Stored(call[c]))
  BY DEF IInv, ModeTracked, VarsShown, VarsStored
<1> QED
  BY <1>1 DEF ModeAt, VarsAt, Stored

LEMMA FailInv ==
    ASSUME IInv, NEW c \in Clients, Fail(c)
    PROVE  IInv'
<1>1. /\ \/ call[c].at = "send" /\ call[c].op = "set_layout"
         \/ call[c].at \in {"write", "undo"} /\ locks.write = None
         \/ call[c].at \in {"saved", "undone"}
      /\ edit' = IF locks.write = c THEN [edit EXCEPT !["daemon"] = None]
                 ELSE edit
      /\ adrift' = (adrift \/ call[c].at \in {"undo", "undone"})
      /\ Return(c)
      /\ UNCHANGED <<disk, up, mirror, state, shown, queue, used, chosen,
                     outside, untold, misnamed, dropped>>
  BY DEF Fail, known
<1>2. /\ TypeOK /\ CallsPlaced /\ LocksHeld /\ EditsTracked /\ QueueTracked
      /\ DownIsEmpty
  BY DEF IInv
<1>3. /\ Moves(c) /\ call'[c] = NoCall
      /\ locks' \in [DOMAIN Unlocked -> Clients \union {None}]
      /\ locks'.mode = IF locks.mode = c THEN None ELSE locks.mode
      /\ locks'.write = IF locks.write = c THEN None ELSE locks.write
      /\ locks'.background = IF locks.background = c THEN None
                             ELSE locks.background
      /\ CallsPlaced' /\ LocksHeld'
  BY <1>1, <1>2, Returned
<1>4. up
  BY <1>1, <1>2, Running
<1>5. /\ edit' \in [Processes -> Edits \union {None}]
      /\ edit'["daemon"] = IF locks.write = c THEN None ELSE edit["daemon"]
      /\ edit'["gui"] = edit["gui"]
  BY <1>1, <1>2 DEF TypeOK, Processes
<1>6. TypeOK'
  <2>1. adrift' \in BOOLEAN
    BY <1>1
  <2> QED
    BY <1>1, <1>2, <1>3, <1>5, <2>1 DEF TypeOK, Moves
<1>7. EditsTracked'
  <2>1. CASE locks.write = c
    BY <1>1, <1>2, <1>3, <1>5, <2>1, ConstantsDiffer
       DEF EditsTracked, Processes
  <2>2. CASE locks.write # c
    <3>1. \A d \in Clients: locks.write = d => call'[d] = call[d]
      BY <1>3, <2>2 DEF Moves
    <3> QED
      BY <1>1, <1>2, <1>3, <2>2, <3>1, EditsKept
  <2> QED
    BY <2>1, <2>2
<1>8. locks.mode = c => /\ ProgramIsMode /\ LayoutCurrent
                        /\ outside \/ mirror.vars = disk.vars
  <2>1. /\ call[c].at \notin {"commit", "done"}
        /\ call[c].op \in Rebuilds => call[c].at \notin Asking
    BY <1>1 DEF Asking, Rebuilds
  <2> QED
    BY <1>4, <2>1, ModeSettled
<1>9. locks.background = c => /\ Remembered
                              /\ adrift' \/ disk.image = mirror.image
  <2>1. ASSUME locks.background = c
        PROVE  /\ Remembered
               /\ adrift' \/ disk.image = mirror.image
    <3>1. BackgroundAt(call[c]) /\ call[c].at # "done"
          /\ call[c].op = "set_background"
      BY <1>1, <1>2, <1>4, <2>1
         DEF IInv, BackgroundTracked, LocksHeld, HoldsBackground
    <3>2. adrift' \/ call[c].at \in {"write", "saved"}
      BY <1>1, <3>1
    <3> QED
      BY <1>1, <3>1, <3>2 DEF BackgroundAt, ImageAt
  <2> QED
    BY <2>1
<1>10. /\ QueueTracked' /\ DownIsEmpty' /\ ModeTracked' /\ RateTracked'
       /\ VarsStored' /\ VarsShown' /\ BackgroundTracked'
  <2>1. call[c].at # "wait" /\ (adrift => adrift')
    BY <1>1
  <2> QED
    BY <1>1, <1>4, <1>8, <1>9, <2>1, ReturnedQuietly
<1> QED
  BY <1>3, <1>6, <1>7, <1>10 DEF IInv

LEMMA RefusedInv ==
    ASSUME IInv, NEW c \in Clients, Refused(c)
    PROVE  IInv'
<1>1. /\ call[c].at = "refused"
      /\ UNCHANGED <<disk, edit, up, mirror, state, shown, queue, used,
                     chosen, outside, untold, adrift, misnamed, dropped>>
  BY DEF Refused, conf, known, ghost
<1>2. /\ TypeOK /\ CallsPlaced /\ LocksHeld /\ EditsTracked /\ QueueTracked
      /\ DownIsEmpty
  BY DEF IInv
<1>3. up /\ locks.write # c
  BY <1>1, <1>2, Running DEF LocksHeld, HoldsWrite
<1>4. CASE call[c].op = "set_background"
  <2>1. Goto(c, "undo") /\ UNCHANGED locks
    BY <1>4 DEF Refused
  <2>2. /\ Moves(c)
        /\ call'[c].op = call[c].op /\ call'[c].arg = call[c].arg
        /\ call'[c].at = "undo" /\ call'[c].kept = call[c].kept
    BY <1>2, <2>1, GotoMoves DEF Moves, Steps
  <2>3. TypeOK'
    BY <1>1, <1>2, <2>1, <2>2 DEF TypeOK, Moves
  <2>4. CallsPlaced'
    <3>1. Placed(call'[c])
      BY <1>1, <1>2, <1>4, <2>2, CallKinds DEF Placed
    <3> QED
      BY <1>2, <2>2, <3>1, PlacedAfter
  <2>5. LocksHeld'
    <3>1. /\ HoldsMode(call'[c]) <=> HoldsMode(call[c])
          /\ HoldsWrite(call'[c]) <=> HoldsWrite(call[c])
          /\ HoldsBackground(call'[c]) <=> HoldsBackground(call[c])
      BY <1>1, <2>2 DEF HoldsMode, HoldsWrite, HoldsBackground
    <3> QED
      BY <1>2, <2>1, <2>2, <3>1, LocksAfter DEF LocksHeld
  <2>6. EditsTracked' /\ QueueTracked' /\ DownIsEmpty'
    <3>1. \A d \in Clients: locks.write = d \/ call[d].at = "wait"
                              => call'[d] = call[d]
      BY <1>1, <1>3, <2>2 DEF Moves
    <3> QED
      BY <1>1, <1>2, <1>3, <2>1, <3>1, EditsKept, QueueKept DEF DownIsEmpty
  <2>7. /\ ModeTracked' /\ RateTracked' /\ VarsStored' /\ VarsShown'
        /\ BackgroundTracked'
    <3>1. /\ call[c].at \in {"write", "saved"}
               <=> call'[c].at \in {"write", "saved"}
          /\ call[c].at \in Asking <=> call'[c].at \in Asking
          /\ call[c].at \notin {"done", "commit"}
          /\ call'[c].at \notin {"done", "commit"}
      BY <1>1, <2>2 DEF Asking
    <3> QED
      BY <1>1, <2>1, <2>2, <3>1, MovedOn
  <2> QED
    BY <2>3, <2>4, <2>5, <2>6, <2>7 DEF IInv
<1>5. CASE call[c].op # "set_background"
  <2>1. Return(c)
    BY <1>5 DEF Refused
  <2>2. /\ Moves(c) /\ call'[c] = NoCall
        /\ locks' \in [DOMAIN Unlocked -> Clients \union {None}]
        /\ locks'.write = locks.write
        /\ CallsPlaced' /\ LocksHeld'
    BY <1>2, <1>3, <2>1, Returned
  <2>3. TypeOK'
    BY <1>1, <1>2, <2>2 DEF TypeOK, Moves
  <2>4. EditsTracked'
    <3>1. \A d \in Clients: locks.write = d => call'[d] = call[d]
      BY <1>3, <2>2 DEF Moves
    <3> QED
      BY <1>1, <1>2, <2>2, <3>1, EditsKept
  <2>5. locks.background # c
    BY <1>2, <1>5 DEF LocksHeld, HoldsBackground
  <2>6. locks.mode = c => /\ ProgramIsMode /\ LayoutCurrent
                          /\ outside \/ mirror.vars = disk.vars
    BY <1>1, <1>3, ModeSettled DEF Asking
  <2>7. /\ QueueTracked' /\ DownIsEmpty' /\ ModeTracked' /\ RateTracked'
        /\ VarsStored' /\ VarsShown' /\ BackgroundTracked'
    BY <1>1, <1>3, <2>1, <2>5, <2>6, ReturnedQuietly
  <2> QED
    BY <2>2, <2>3, <2>4, <2>7 DEF IInv
<1> QED
  BY <1>4, <1>5
-----------------------------------------------------------------------------
(* Commits *)

LEMMA CommitVarsInv ==
    ASSUME IInv, NEW c \in Clients, Commit(c), CommitVars(c)
    PROVE  IInv'
<1> DEFINE l == call[c].arg[1]
           v == call[c].arg[2]
<1>1. /\ call[c].at = "commit" /\ call[c].op = "set_layout_vars"
      /\ mirror' = [mirror EXCEPT !.vars[l] = v]
      /\ UNCHANGED <<disk, edit, up, state, shown, queue, used, chosen,
                     outside, misnamed, dropped>>
      /\ adrift' = adrift
      /\ untold' \in BOOLEAN /\ (untold => untold')
      /\ state.mode = Stream => untold' \/ shown.program = Capture
  <2>1. /\ call[c].at = "commit" /\ call[c].op = "set_layout_vars"
        /\ mirror' = [mirror EXCEPT !.vars[l] = v]
        /\ UNCHANGED <<disk, edit, up, state, shown, queue, used, chosen,
                       outside, misnamed, dropped>>
    BY DEF Commit, CommitVars, conf
  <2>2. /\ adrift' = \/ adrift
                     \/ /\ call[c].op = "reload"
                        /\ locks.background # None \/ mirror'.image # disk.image
        /\ adrift \in BOOLEAN /\ untold \in BOOLEAN
    BY DEF Commit, IInv, TypeOK
  <2>3. untold' = \/ untold
                  \/ /\ call[c].op # "set_default_layout"
                     /\ state.mode = Stream /\ shown.program # Capture
    BY DEF Commit
  <2>4. /\ untold' \in BOOLEAN /\ (untold => untold')
        /\ state.mode = Stream => untold' \/ shown.program = Capture
    BY <2>1, <2>3
  <2> QED
    BY <2>1, <2>2, <2>4
<1>2. /\ TypeOK /\ CallsPlaced /\ LocksHeld /\ EditsTracked /\ QueueTracked
      /\ DownIsEmpty
  BY DEF IInv
<1>3. l \in Layouts /\ v \in Vars /\ call[c].arg \in Layouts \X Vars
  BY <1>1, <1>2, CallKinds DEF Placed
<1> HIDE DEF l, v
<1>4. /\ mirror' \in Config
      /\ mirror'.vars = [mirror.vars EXCEPT ![l] = v]
      /\ mirror'.vars[l] = v
      /\ mirror'.image = mirror.image
  <2>1. mirror \in Config /\ mirror.vars \in [Layouts -> Vars]
    BY <1>2 DEF TypeOK, Config
  <2>2. [mirror.vars EXCEPT ![l] = v] \in [Layouts -> Vars]
    BY <1>3, <2>1
  <2>3. mirror' = [mirror EXCEPT !.vars = [mirror.vars EXCEPT ![l] = v]]
    BY <1>1, <2>1 DEF Config
  <2>4. [mirror.vars EXCEPT ![l] = v][l] = v
    BY <1>3, <2>1
  <2> QED
    BY <2>1, <2>2, <2>3, <2>4 DEF Config
<1>5. up /\ locks.mode = c /\ locks.write # c /\ locks.background # c
  BY <1>1, <1>2, Running
     DEF LocksHeld, HoldsMode, HoldsWrite, HoldsBackground, ModeOps
<1>6. /\ outside \/ disk.vars = mirror'.vars
      /\ ProgramIsMode /\ (ProgramIsMode' <=> ProgramIsMode)
  <2>1. ModeAt(call[c]) /\ (outside \/ Stored(call[c]))
    BY <1>5 DEF IInv, ModeTracked, VarsStored
  <2>2. ProgramIsMode
    BY <1>1, <2>1 DEF ModeAt
  <2>3. outside \/ disk.vars = [mirror.vars EXCEPT ![l] = v]
    BY <1>1, <2>1 DEF Stored, l, v
  <2> QED
    BY <1>1, <1>4, <2>2, <2>3 DEF ProgramIsMode, Capture, Layout
<1>7. \A d \in Clients:
        call[d].at = "wait" \/ locks.write = d \/ locks.background = d
        => d # c
  BY <1>1, <1>5
<1>8. CASE state.mode = Stream
  <2>1. Return(c)
    BY <1>8 DEF CommitVars
  <2>2. /\ Moves(c) /\ call'[c] = NoCall
        /\ locks' \in [DOMAIN Unlocked -> Clients \union {None}]
        /\ locks'.mode = None /\ locks'.write = locks.write
        /\ locks'.background = locks.background
        /\ CallsPlaced' /\ LocksHeld'
    BY <1>2, <1>5, <2>1, Returned
  <2>3. \A d \in Clients:
          call[d].at = "wait" \/ locks.write = d \/ locks.background = d
          => call'[d] = call[d]
    BY <1>7, <2>2 DEF Moves
  <2>4. TypeOK'
    BY <1>1, <1>2, <1>4, <2>2 DEF TypeOK, Moves
  <2>5. EditsTracked' /\ QueueTracked' /\ DownIsEmpty'
    BY <1>1, <1>2, <1>5, <2>2, <2>3, EditsKept, QueueKept DEF DownIsEmpty
  <2>6. ModeTracked'
    BY <1>6, <2>2, ConstantsDiffer DEF ModeTracked
  <2>7. RateTracked'
    BY <1>1, <2>2, ConstantsDiffer DEF IInv, RateTracked
  <2>8. VarsStored'
    BY <1>1, <1>6, <2>2, ConstantsDiffer DEF VarsStored
  <2>9. VarsShown'
    <3>1. LayoutCurrent'
      BY <1>1, <1>8 DEF LayoutCurrent, Capture, Layout
    <3> QED
      BY <2>2, <3>1, ConstantsDiffer DEF VarsShown
  <2>10. BackgroundTracked'
    BY <1>1, <1>4, <2>2, <2>3, BackgroundKept DEF IInv
  <2> QED
    BY <2>2, <2>4, <2>5, <2>6, <2>7, <2>8, <2>9, <2>10 DEF IInv
<1>9. CASE state.mode # Stream
  <2>1. /\ call' = [call EXCEPT ![c].at = "send", ![c].kept = v]
        /\ locks' = locks
    BY <1>9 DEF CommitVars, v
  <2>2. /\ Moves(c)
        /\ call'[c].op = "set_layout_vars" /\ call'[c].arg = call[c].arg
        /\ call'[c].at = "send" /\ call'[c].kept = v
    <3>1. /\ "send" \in Steps
          /\ v \in {None, StreamRate} \union Vars \union Rates \union Images
                    \union Config
      BY <1>3 DEF Steps
    <3> QED
      BY <1>1, <1>2, <2>1, <3>1, KeepMoves DEF Moves
  <2>3. \A d \in Clients:
          call[d].at = "wait" \/ locks.write = d \/ locks.background = d
          => call'[d] = call[d]
    BY <1>7, <2>2 DEF Moves
  <2>4. TypeOK'
    BY <1>1, <1>2, <1>4, <2>1, <2>2 DEF TypeOK, Moves
  <2>5. CallsPlaced'
    <3>1. Placed(call'[c])
      BY <1>3, <2>2 DEF Placed, Asking, v
    <3> QED
      BY <1>2, <2>2, <3>1, PlacedAfter
  <2>6. LocksHeld'
    <3>1. /\ HoldsMode(call'[c]) /\ ~HoldsWrite(call'[c])
          /\ ~HoldsBackground(call'[c])
      BY <2>2 DEF HoldsMode, HoldsWrite, HoldsBackground, ModeOps
    <3> QED
      BY <1>2, <1>5, <2>1, <2>2, <3>1, LocksAfter
  <2>7. EditsTracked' /\ QueueTracked' /\ DownIsEmpty'
    BY <1>1, <1>2, <1>5, <2>1, <2>3, EditsKept, QueueKept DEF DownIsEmpty
  <2>8. ModeTracked'
    <3>1. ModeAt(call[c])'
      BY <1>1, <1>6, <1>9, <2>2 DEF ModeAt
    <3> QED
      BY <1>5, <2>1, <3>1, ConstantsDiffer DEF ModeTracked
  <2>9. RateTracked'
    BY <1>1, <1>5, <2>1, <2>2 DEF IInv, RateTracked
  <2>10. VarsStored'
    <3>1. outside' \/ Stored(call[c])'
      BY <1>1, <1>6, <2>2 DEF Stored
    <3> QED
      BY <1>5, <2>1, <3>1, ConstantsDiffer DEF VarsStored
  <2>11. VarsShown'
    <3>1. Asked(call[c])'.layout = l
      BY <2>2 DEF Asked, Layout, l
    <3>2. VarsAt(call[c])'
      BY <1>4, <2>2, <3>1 DEF VarsAt, Rebuilds, Asking
    <3> QED
      BY <1>5, <2>1, <3>2, ConstantsDiffer DEF VarsShown
  <2>12. BackgroundTracked'
    BY <1>1, <1>4, <2>1, <2>3, BackgroundKept DEF IInv
  <2> QED
    BY <2>4, <2>5, <2>6, <2>7, <2>8, <2>9, <2>10, <2>11, <2>12 DEF IInv
<1> QED
  BY <1>8, <1>9

LEMMA CommitDefaultInv ==
    ASSUME IInv, NEW c \in Clients, Commit(c), CommitDefault(c)
    PROVE  IInv'
<1>1. /\ call[c].at = "commit" /\ call[c].op = "set_default_layout"
      /\ mirror' = [mirror EXCEPT !.layout = call[c].arg, !.mode = "layout"]
      /\ Return(c)
      /\ UNCHANGED <<disk, edit, up, state, shown, queue, used, chosen,
                     outside, untold, misnamed, dropped>>
      /\ adrift' = adrift
  <2>1. /\ call[c].at = "commit" /\ call[c].op = "set_default_layout"
        /\ mirror' = [mirror EXCEPT !.layout = call[c].arg, !.mode = "layout"]
        /\ Return(c)
        /\ UNCHANGED <<disk, edit, up, state, shown, queue, used, chosen,
                       outside, misnamed, dropped>>
    BY DEF Commit, CommitDefault, conf
  <2>2. /\ adrift' = \/ adrift
                     \/ /\ call[c].op = "reload"
                        /\ locks.background # None \/ mirror'.image # disk.image
        /\ adrift \in BOOLEAN /\ untold \in BOOLEAN
    BY DEF Commit, IInv, TypeOK
  <2>3. untold' = \/ untold
                  \/ /\ call[c].op # "set_default_layout"
                     /\ state.mode = Stream /\ shown.program # Capture
    BY DEF Commit
  <2>4. untold' = untold
    BY <2>1, <2>3, <2>2
  <2> QED
    BY <2>1, <2>2, <2>4
<1>2. /\ TypeOK /\ CallsPlaced /\ LocksHeld /\ EditsTracked /\ QueueTracked
      /\ DownIsEmpty
  BY DEF IInv
<1>3. /\ mirror' \in Config /\ mirror'.vars = mirror.vars
      /\ mirror'.image = mirror.image
  <2>1. mirror \in Config /\ call[c].arg \in Layouts
    BY <1>1, <1>2, CallKinds DEF TypeOK, Placed
  <2> QED
    BY <1>1, <2>1 DEF Config
<1>4. up /\ locks.mode # c /\ locks.write # c /\ locks.background # c
  BY <1>1, <1>2, Running
     DEF LocksHeld, HoldsMode, HoldsWrite, HoldsBackground, ModeOps
<1>5. /\ Moves(c)
      /\ locks' \in [DOMAIN Unlocked -> Clients \union {None}]
      /\ locks'.mode = locks.mode /\ locks'.write = locks.write
      /\ locks'.background = locks.background
      /\ CallsPlaced' /\ LocksHeld'
  BY <1>1, <1>2, <1>4, Returned
<1>6. \A d \in Clients:
        \/ call[d].at = "wait" \/ locks.mode = d \/ locks.write = d
        \/ locks.background = d
        => call'[d] = call[d]
  BY <1>1, <1>4, <1>5 DEF Moves
<1>7. TypeOK'
  BY <1>1, <1>2, <1>3, <1>5 DEF TypeOK, Moves
<1>8. EditsTracked' /\ QueueTracked' /\ DownIsEmpty'
  BY <1>1, <1>2, <1>4, <1>5, <1>6, EditsKept, QueueKept DEF DownIsEmpty
<1>9. ModeTracked' /\ RateTracked'
  BY <1>1, <1>5, <1>6, ModeKept, RateKept DEF IInv
<1>10. VarsStored' /\ VarsShown'
  BY <1>1, <1>3, <1>5, <1>6, StoredKept, ShownKept DEF IInv
<1>11. BackgroundTracked'
  BY <1>1, <1>3, <1>5, <1>6, BackgroundKept DEF IInv
<1> QED
  BY <1>5, <1>7, <1>8, <1>9, <1>10, <1>11 DEF IInv

LEMMA CommitReloadInv ==
    ASSUME IInv, NEW c \in Clients, Commit(c), CommitReload(c)
    PROVE  IInv'
<1>1. /\ call[c].at = "commit" /\ call[c].op = "reload"
      /\ mirror' = call[c].kept
      /\ UNCHANGED <<disk, edit, up, queue, used, outside, misnamed, dropped>>
      /\ untold' \in BOOLEAN /\ (untold => untold')
      /\ state.mode = Stream => untold' \/ shown.program = Capture
  <2>1. /\ call[c].at = "commit" /\ call[c].op = "reload"
        /\ mirror' = call[c].kept
        /\ UNCHANGED <<disk, edit, up, queue, used, outside, misnamed,
                       dropped>>
    BY DEF Commit, CommitReload, conf
  <2>2. untold' = \/ untold
                  \/ /\ call[c].op # "set_default_layout"
                     /\ state.mode = Stream /\ shown.program # Capture
    BY DEF Commit
  <2>3. /\ untold' \in BOOLEAN /\ (untold => untold')
        /\ state.mode = Stream => untold' \/ shown.program = Capture
    BY <2>1, <2>2
  <2> QED
    BY <2>1, <2>3
<1>2. /\ TypeOK /\ CallsPlaced /\ LocksHeld /\ EditsTracked /\ QueueTracked
      /\ DownIsEmpty
  BY DEF IInv
<1>3. /\ adrift' \in BOOLEAN
      /\ adrift => adrift'
      /\ mirror'.image = mirror.image \/ adrift'
  <2>1. up
    BY <1>1, <1>2, Running
  <2>2. adrift' = \/ adrift
                  \/ /\ call[c].op = "reload"
                     /\ locks.background # None \/ mirror'.image # disk.image
    BY DEF Commit
  <2>3. adrift \/ locks.background # None \/ disk.image = mirror.image
    BY <2>1 DEF IInv, BackgroundTracked
  <2> QED
    BY <1>1, <2>2, <2>3
<1>4. /\ mirror' \in Config /\ mirror'.vars \in [Layouts -> Vars]
      /\ mirror'.rate \in Rates
  <2>1. mirror' \in Config
    BY <1>1, <1>2, CallKinds DEF Placed
  <2> QED
    BY <2>1 DEF Config
<1>5. up /\ locks.mode = c /\ locks.write # c /\ locks.background # c
  BY <1>1, <1>2, Running
     DEF LocksHeld, HoldsMode, HoldsWrite, HoldsBackground, ModeOps
<1>6. /\ outside \/ disk.vars = mirror'.vars
      /\ ProgramIsMode
  <2>1. ModeAt(call[c]) /\ (outside \/ Stored(call[c]))
    BY <1>5 DEF IInv, ModeTracked, VarsStored
  <2> QED
    BY <1>1, <2>1 DEF ModeAt, Stored
<1>7. \A d \in Clients:
        call[d].at = "wait" \/ locks.write = d \/ locks.background = d
        => d # c
  BY <1>1, <1>5
<1>8. CASE state.mode = Stream
  <2>1. Return(c) /\ UNCHANGED <<state, shown, chosen>>
    BY <1>8 DEF CommitReload
  <2>2. /\ Moves(c) /\ call'[c] = NoCall
        /\ locks' \in [DOMAIN Unlocked -> Clients \union {None}]
        /\ locks'.mode = None /\ locks'.write = locks.write
        /\ locks'.background = locks.background
        /\ CallsPlaced' /\ LocksHeld'
    BY <1>2, <1>5, <2>1, Returned
  <2>3. \A d \in Clients:
          call[d].at = "wait" \/ locks.write = d \/ locks.background = d
          => call'[d] = call[d]
    BY <1>7, <2>2 DEF Moves
  <2>4. TypeOK'
    BY <1>1, <1>2, <1>3, <1>4, <2>1, <2>2 DEF TypeOK, Moves
  <2>5. EditsTracked' /\ QueueTracked' /\ DownIsEmpty'
    BY <1>1, <1>2, <1>3, <1>5, <2>1, <2>2, <2>3, EditsKept, QueueKept
       DEF DownIsEmpty
  <2>6. ProgramIsMode' /\ LayoutCurrent'
    <3>1. ProgramIsMode'
      BY <1>1, <1>6, <2>1 DEF ProgramIsMode, Capture, Layout
    <3>2. LayoutCurrent'
      BY <1>1, <1>8, <2>1 DEF LayoutCurrent, Capture, Layout
    <3> QED
      BY <3>1, <3>2
  <2>7. ModeTracked'
    BY <2>2, <2>6, ConstantsDiffer DEF ModeTracked
  <2>8. RateTracked'
    BY <2>1, <2>2, ConstantsDiffer DEF IInv, RateTracked
  <2>9. VarsStored'
    BY <1>1, <1>6, <2>2, ConstantsDiffer DEF VarsStored
  <2>10. VarsShown'
    BY <2>2, <2>6, ConstantsDiffer DEF VarsShown
  <2>11. BackgroundTracked'
    BY <1>1, <1>3, <2>1, <2>2, <2>3, BackgroundKept DEF IInv
  <2> QED
    BY <2>2, <2>4, <2>5, <2>7, <2>8, <2>9, <2>10, <2>11 DEF IInv
<1>9. CASE state.mode # Stream
  <2>1. /\ state' = [state EXCEPT !.rate = mirror'.rate]
        /\ shown' = [shown EXCEPT !.rate = mirror'.rate]
        /\ chosen' = mirror'.rate
        /\ call' = [call EXCEPT ![c].at = "send",
                                ![c].kept = mirror'.vars[state.layout]]
        /\ locks' = locks
    BY <1>9 DEF CommitReload
  <2>2. mirror'.vars[state.layout] \in Vars /\ state.layout \in Layouts
    BY <1>2, <1>4 DEF TypeOK
  <2>3. /\ Moves(c)
        /\ call'[c].op = "reload" /\ call'[c].arg = call[c].arg
        /\ call'[c].at = "send" /\ call'[c].kept = mirror'.vars[state.layout]
    <3>1. PICK v \in Vars: v = mirror'.vars[state.layout]
      BY <2>2
    <3>2. call' = [call EXCEPT ![c].at = "send", ![c].kept = v]
      BY <2>1, <3>1
    <3>3. call \in [Clients -> Calls] /\ call[c] \in Calls
      BY <1>2 DEF TypeOK
    <3>4. [[call[c] EXCEPT !.at = "send"] EXCEPT !.kept = v] \in Calls
      BY <3>3 DEF Calls, Steps
    <3>5. call' = [call EXCEPT ![c] =
                     [[call[c] EXCEPT !.at = "send"] EXCEPT !.kept = v]]
      BY <3>2, <3>3
    <3> QED
      BY <1>1, <3>1, <3>3, <3>4, <3>5 DEF Moves, Calls
  <2>4. \A d \in Clients:
          call[d].at = "wait" \/ locks.write = d \/ locks.background = d
          => call'[d] = call[d]
    BY <1>7, <2>3 DEF Moves
  <2>5. /\ state'.rate = mirror'.rate /\ shown'.rate = mirror'.rate
        /\ shown'.program = shown.program
        /\ shown'.background = shown.background
        /\ state'.mode = state.mode /\ state'.layout = state.layout
        /\ state'.pre = state.pre /\ state'.background = state.background
    BY <1>2, <2>1 DEF TypeOK
  <2>6. TypeOK'
    BY <1>1, <1>2, <1>3, <1>4, <2>1, <2>3 DEF TypeOK, Moves
  <2>7. CallsPlaced'
    <3>1. Placed(call'[c])
      BY <2>2, <2>3 DEF Placed, Asking
    <3> QED
      BY <1>2, <2>3, <3>1, PlacedAfter
  <2>8. LocksHeld'
    <3>1. /\ HoldsMode(call'[c]) /\ ~HoldsWrite(call'[c])
          /\ ~HoldsBackground(call'[c])
      BY <2>3 DEF HoldsMode, HoldsWrite, HoldsBackground, ModeOps
    <3> QED
      BY <1>2, <1>5, <2>1, <2>3, <3>1, LocksAfter
  <2>9. EditsTracked' /\ QueueTracked' /\ DownIsEmpty'
    BY <1>1, <1>2, <1>3, <1>5, <2>1, <2>4, <2>5, EditsKept, QueueKept
       DEF DownIsEmpty
  <2>10. ModeTracked'
    <3>1. ProgramIsMode'
      BY <1>1, <1>6, <2>5 DEF ProgramIsMode, Capture, Layout
    <3>2. ModeAt(call[c])'
      BY <1>9, <2>3, <2>5, <3>1 DEF ModeAt
    <3> QED
      BY <1>5, <2>1, <3>2, ConstantsDiffer DEF ModeTracked
  <2>11. RateTracked'
    BY <1>5, <1>9, <2>1, <2>3, <2>5 DEF IInv, RateTracked
  <2>12. VarsStored'
    <3>1. outside' \/ Stored(call[c])'
      BY <1>1, <1>6, <2>3 DEF Stored
    <3> QED
      BY <1>5, <2>1, <3>1, ConstantsDiffer DEF VarsStored
  <2>13. VarsShown'
    <3>1. Asked(call[c])'.layout = state.layout
      BY <2>3, <2>5 DEF Asked, Layout
    <3>2. VarsAt(call[c])'
      BY <2>3, <3>1 DEF VarsAt, Rebuilds, Asking
    <3> QED
      BY <1>5, <2>1, <3>2, ConstantsDiffer DEF VarsShown
  <2>14. BackgroundTracked'
    BY <1>1, <1>3, <2>1, <2>4, <2>5, BackgroundKept DEF IInv
  <2> QED
    BY <2>6, <2>7, <2>8, <2>9, <2>10, <2>11, <2>12, <2>13, <2>14 DEF IInv
<1> QED
  BY <1>8, <1>9
\* What every call that finishes leaves behind, whatever it commits.
LEMMA Finished ==
    ASSUME IInv, NEW c \in Clients, call[c].at = "done", Return(c),
           UNCHANGED <<disk, edit, up, queue, used, chosen, outside, untold,
                       adrift, misnamed, dropped>>,
           mirror' \in Config,
           state' \in [layout: Layouts, mode: {"layout", Stream},
                       rate: Rates \union {StreamRate},
                       pre: Rates \union {None},
                       background: Images \union {None}],
           shown' \in [program: Programs, background: Images \union {None},
                       rate: Rates \union {StreamRate}],
           locks.mode # c => state'.layout = state.layout
    PROVE  /\ TypeOK' /\ CallsPlaced' /\ LocksHeld' /\ EditsTracked'
           /\ QueueTracked' /\ DownIsEmpty' /\ up /\ Moves(c)
           /\ locks'.mode = IF locks.mode = c THEN None ELSE locks.mode
           /\ locks'.background = IF locks.background = c THEN None
                                  ELSE locks.background
<1>1. /\ TypeOK /\ CallsPlaced /\ LocksHeld /\ EditsTracked /\ QueueTracked
      /\ DownIsEmpty
  BY DEF IInv
<1>2. up /\ locks.write # c
  BY <1>1, Running DEF LocksHeld, HoldsWrite
<1>3. /\ Moves(c) /\ call'[c] = NoCall
      /\ locks' \in [DOMAIN Unlocked -> Clients \union {None}]
      /\ locks'.mode = IF locks.mode = c THEN None ELSE locks.mode
      /\ locks'.write = locks.write
      /\ locks'.background = IF locks.background = c THEN None
                             ELSE locks.background
      /\ CallsPlaced' /\ LocksHeld'
  BY <1>1, <1>2, Returned
<1>4. TypeOK'
  BY <1>1, <1>3 DEF TypeOK, Moves
<1>5. EditsTracked'
  <2>1. \A d \in Clients: locks.write = d => call'[d] = call[d]
    BY <1>2, <1>3 DEF Moves
  <2> QED
    BY <1>1, <1>3, <2>1, EditsKept
<1>6. QueueTracked'
  <2>1. ASSUME NEW d \in Clients, call[d].at = "wait"
        PROVE  /\ call'[d] = call[d]
               /\ call[d].op = "reload" => state'.layout = state.layout
    <3>1. d # c
      BY <2>1
    <3>2. call[d].op = "reload" => locks.mode = d
      BY <1>1, <2>1 DEF LocksHeld, HoldsMode, ModeOps
    <3> QED
      BY <1>3, <3>1, <3>2 DEF Moves
  <2> QED
    BY <1>1, <2>1, QueueKept
<1>7. DownIsEmpty'
  BY <1>2 DEF DownIsEmpty
<1> QED
  BY <1>2, <1>3, <1>4, <1>5, <1>6, <1>7

LEMMA FinishLayoutInv ==
    ASSUME IInv, NEW c \in Clients, call[c].at = "done", Return(c),
           call[c].op = "set_layout",
           state' = Restored([state EXCEPT !.layout = call[c].arg,
                                           !.mode = "layout"]),
           shown' = [shown EXCEPT !.rate = IF state.pre = None THEN @
                                           ELSE state'.rate],
           UNCHANGED <<disk, edit, up, mirror, queue, used, chosen, outside,
                       untold, adrift, misnamed, dropped>>
    PROVE  IInv'
<1>1. /\ TypeOK /\ CallsPlaced /\ LocksHeld /\ RateTracked
  BY DEF IInv
<1>2. call[c].arg \in Layouts
  BY <1>1, CallKinds DEF Placed
<1> DEFINE s == [state EXCEPT !.layout = call[c].arg, !.mode = "layout"]
<1>3. /\ s \in [layout: Layouts, mode: {"layout", Stream},
                rate: Rates \union {StreamRate}, pre: Rates \union {None},
                background: Images \union {None}]
      /\ s.mode = "layout" /\ s.rate = state.rate /\ s.pre = state.pre
      /\ s.background = state.background
  BY <1>1, <1>2 DEF TypeOK
<1>4. state' = IF s.pre = None THEN s
               ELSE [s EXCEPT !.rate = s.pre, !.pre = None]
  BY DEF Restored
<1> HIDE DEF s
<1>5. /\ state' \in [layout: Layouts, mode: {"layout", Stream},
                     rate: Rates \union {StreamRate},
                     pre: Rates \union {None},
                     background: Images \union {None}]
      /\ state'.mode = "layout" /\ state'.pre = None
      /\ state'.rate = (IF state.pre = None THEN state.rate ELSE state.pre)
      /\ state'.background = state.background
  BY <1>3, <1>4
<1>6. /\ shown' \in [program: Programs, background: Images \union {None},
                     rate: Rates \union {StreamRate}]
      /\ shown'.program = shown.program
      /\ shown'.background = shown.background
      /\ shown'.rate = (IF state.pre = None THEN shown.rate ELSE state'.rate)
  BY <1>1, <1>5 DEF TypeOK
<1>7. mirror' \in Config
  BY <1>1 DEF TypeOK
<1>8. locks.mode = c /\ locks.background # c
  BY <1>1 DEF LocksHeld, HoldsMode, HoldsBackground, ModeOps
<1>9. /\ TypeOK' /\ CallsPlaced' /\ LocksHeld' /\ EditsTracked'
      /\ QueueTracked' /\ DownIsEmpty' /\ up /\ Moves(c)
      /\ locks'.mode = None /\ locks'.background = locks.background
  BY <1>5, <1>6, <1>7, <1>8, Finished
<1>10. /\ shown.program # Capture
       /\ LayoutCurrent /\ (outside \/ mirror.vars = disk.vars)
  <2>1. ModeAt(call[c]) /\ VarsAt(call[c]) /\ (outside \/ Stored(call[c]))
    BY <1>8, <1>9 DEF IInv, ModeTracked, VarsShown, VarsStored
  <2> QED
    BY <2>1 DEF ModeAt, VarsAt, Stored, Rebuilds
<1>11. ModeTracked'
  <2>1. ProgramIsMode'
    BY <1>5, <1>6, <1>10 DEF ProgramIsMode, Capture, Layout, Stream
  <2> QED
    BY <1>9, <2>1, ConstantsDiffer DEF ModeTracked
<1>12. RateTracked'
  BY <1>1, <1>5, <1>6, <1>9, ConstantsDiffer DEF RateTracked
<1>13. VarsStored' /\ VarsShown'
  <2>1. LayoutCurrent'
    BY <1>6, <1>10 DEF LayoutCurrent, Capture, Layout
  <2> QED
    BY <1>9, <1>10, <2>1, ConstantsDiffer DEF VarsStored, VarsShown
<1>14. BackgroundTracked'
  <2>1. \A d \in Clients: locks.background = d => call'[d] = call[d]
    BY <1>8, <1>9 DEF Moves
  <2> QED
    BY <1>5, <1>6, <1>9, <2>1, BackgroundKept DEF IInv
<1> QED
  BY <1>9, <1>11, <1>12, <1>13, <1>14 DEF IInv

LEMMA FinishStreamInv ==
    ASSUME IInv, NEW c \in Clients, call[c].at = "done", Return(c),
           call[c].op = "stream",
           state' = Streaming(state, call[c].kept),
           shown' = [shown EXCEPT !.rate = StreamRate],
           UNCHANGED <<disk, edit, up, mirror, queue, used, chosen, outside,
                       untold, adrift, misnamed, dropped>>
    PROVE  IInv'
<1>1. /\ TypeOK /\ CallsPlaced /\ LocksHeld /\ RateTracked
  BY DEF IInv
<1>2. locks.mode = c /\ locks.background # c
  BY <1>1 DEF LocksHeld, HoldsMode, HoldsBackground, ModeOps
<1>3. call[c].kept = state.rate /\ chosen \in Rates
  BY <1>1, <1>2 DEF RateTracked, TypeOK
<1>4. state.pre = None => call[c].kept = chosen
  BY <1>1, <1>3 DEF RateTracked
<1>5. /\ state' \in [layout: Layouts, mode: {"layout", Stream},
                     rate: Rates \union {StreamRate},
                     pre: Rates \union {None},
                     background: Images \union {None}]
      /\ state'.mode = Stream /\ state'.rate = StreamRate
      /\ state'.pre = chosen /\ state'.layout = state.layout
      /\ state'.background = state.background
  <2>1. /\ state \in [layout: Layouts, mode: {"layout", Stream},
                      rate: Rates \union {StreamRate},
                      pre: Rates \union {None},
                      background: Images \union {None}]
        /\ state.pre # None => state.pre = chosen
    BY <1>1 DEF TypeOK, RateTracked
  <2> DEFINE p == IF state.pre = None THEN call[c].kept ELSE state.pre
  <2>2. p = chosen
    BY <1>4, <2>1
  <2>3. state' = [state EXCEPT !.mode = Stream, !.pre = p, !.rate = StreamRate]
    BY <2>1 DEF Streaming
  <2> HIDE DEF p
  <2> QED
    BY <1>3, <2>1, <2>2, <2>3
<1>6. /\ shown' \in [program: Programs, background: Images \union {None},
                     rate: Rates \union {StreamRate}]
      /\ shown'.program = shown.program
      /\ shown'.background = shown.background
      /\ shown'.rate = StreamRate
  BY <1>1 DEF TypeOK
<1>7. mirror' \in Config
  BY <1>1 DEF TypeOK
<1>8. /\ TypeOK' /\ CallsPlaced' /\ LocksHeld' /\ EditsTracked'
      /\ QueueTracked' /\ DownIsEmpty' /\ up /\ Moves(c)
      /\ locks'.mode = None /\ locks'.background = locks.background
  BY <1>2, <1>5, <1>6, <1>7, Finished
<1>9. shown.program = Capture /\ (outside \/ mirror.vars = disk.vars)
  <2>1. ModeAt(call[c]) /\ (outside \/ Stored(call[c]))
    BY <1>2, <1>8 DEF IInv, ModeTracked, VarsStored
  <2> QED
    BY <2>1 DEF ModeAt, Stored
<1>10. ModeTracked'
  BY <1>5, <1>6, <1>8, <1>9, ConstantsDiffer
     DEF ModeTracked, ProgramIsMode, Capture, Layout
<1>11. RateTracked'
  BY <1>3, <1>5, <1>6, <1>8, ConstantsDiffer DEF RateTracked
<1>12. VarsStored' /\ VarsShown'
  BY <1>6, <1>8, <1>9, ConstantsDiffer
     DEF VarsStored, VarsShown, LayoutCurrent, Capture, Layout
<1>13. BackgroundTracked'
  <2>1. \A d \in Clients: locks.background = d => call'[d] = call[d]
    BY <1>2, <1>8 DEF Moves
  <2> QED
    BY <1>5, <1>6, <1>8, <2>1, BackgroundKept DEF IInv
<1> QED
  BY <1>8, <1>10, <1>11, <1>12, <1>13 DEF IInv

LEMMA FinishBackgroundInv ==
    ASSUME IInv, NEW c \in Clients, call[c].at = "done", Return(c),
           call[c].op = "set_background",
           state' = [state EXCEPT !.background = call[c].arg],
           mirror' = [mirror EXCEPT !.image = call[c].arg],
           UNCHANGED <<disk, edit, up, shown, queue, used, chosen, outside,
                       untold, adrift, misnamed, dropped>>
    PROVE  IInv'
<1>1. /\ TypeOK /\ CallsPlaced /\ LocksHeld /\ RateTracked
  BY DEF IInv
<1>2. call[c].arg \in Images \union {None}
  BY <1>1, CallKinds DEF Placed
<1>3. /\ state' \in [layout: Layouts, mode: {"layout", Stream},
                     rate: Rates \union {StreamRate},
                     pre: Rates \union {None},
                     background: Images \union {None}]
      /\ state'.mode = state.mode /\ state'.rate = state.rate
      /\ state'.pre = state.pre /\ state'.layout = state.layout
      /\ state'.background = call[c].arg
  BY <1>1, <1>2 DEF TypeOK
<1>4. /\ mirror' \in Config /\ mirror'.image = call[c].arg
      /\ mirror'.vars = mirror.vars
  BY <1>1, <1>2 DEF TypeOK, Config
<1>5. shown' \in [program: Programs, background: Images \union {None},
                  rate: Rates \union {StreamRate}]
  BY <1>1 DEF TypeOK
<1>6. locks.mode # c /\ locks.background = c
  BY <1>1 DEF LocksHeld, HoldsMode, HoldsBackground, ModeOps
<1>7. /\ TypeOK' /\ CallsPlaced' /\ LocksHeld' /\ EditsTracked'
      /\ QueueTracked' /\ DownIsEmpty' /\ up /\ Moves(c)
      /\ locks'.mode = locks.mode /\ locks'.background = None
  BY <1>3, <1>4, <1>5, <1>6, Finished
<1>8. \A d \in Clients: locks.mode = d => call'[d] = call[d]
  BY <1>6, <1>7 DEF Moves
<1>9. ModeTracked' /\ RateTracked'
  BY <1>3, <1>7, <1>8, ModeKept, RateKept DEF IInv
<1>10. VarsStored' /\ VarsShown'
  BY <1>3, <1>4, <1>7, <1>8, StoredKept, ShownKept DEF IInv
<1>11. BackgroundTracked'
  <2>1. BackgroundAt(call[c])
    BY <1>6, <1>7 DEF IInv, BackgroundTracked
  <2>2. /\ ~dropped /\ shown.background = call[c].arg
        /\ adrift \/ disk.image = call[c].arg
    BY <1>1, <2>1 DEF BackgroundAt, ImageAt
  <2> QED
    BY <1>3, <1>4, <1>7, <2>2, ConstantsDiffer
       DEF BackgroundTracked, Remembered
<1> QED
  BY <1>7, <1>9, <1>10, <1>11 DEF IInv

LEMMA FinishInv ==
    ASSUME IInv, NEW c \in Clients, Finish(c)
    PROVE  IInv'
<1>1. /\ call[c].at = "done" /\ Return(c)
      /\ UNCHANGED <<disk, edit, up, queue, used, chosen, outside, untold,
                     adrift, misnamed, dropped>>
  BY DEF Finish, conf, ghost
<1>2. \/ /\ call[c].op = "set_layout"
         /\ state' = Restored([state EXCEPT !.layout = call[c].arg,
                                            !.mode = "layout"])
         /\ shown' = [shown EXCEPT !.rate = IF state.pre = None THEN @
                                            ELSE state'.rate]
         /\ UNCHANGED mirror
      \/ /\ call[c].op = "stream"
         /\ state' = Streaming(state, call[c].kept)
         /\ shown' = [shown EXCEPT !.rate = StreamRate]
         /\ UNCHANGED mirror
      \/ /\ call[c].op = "set_background"
         /\ state' = [state EXCEPT !.background = call[c].arg]
         /\ mirror' = [mirror EXCEPT !.image = call[c].arg]
         /\ UNCHANGED shown
      \/ /\ call[c].op \in {"set_layout_vars", "reload"}
         /\ UNCHANGED <<mirror, state, shown>>
  BY DEF Finish, known
<1>3. CASE /\ call[c].op \in {"set_layout_vars", "reload"}
           /\ UNCHANGED <<mirror, state, shown>>
  <2>1. TypeOK /\ LocksHeld
    BY DEF IInv
  <2>2. /\ mirror' \in Config
        /\ state' \in [layout: Layouts, mode: {"layout", Stream},
                       rate: Rates \union {StreamRate},
                       pre: Rates \union {None},
                       background: Images \union {None}]
        /\ shown' \in [program: Programs, background: Images \union {None},
                       rate: Rates \union {StreamRate}]
    BY <1>3, <2>1 DEF TypeOK
  <2>3. /\ TypeOK' /\ CallsPlaced' /\ LocksHeld' /\ EditsTracked' /\ up
    BY <1>1, <1>3, <2>2, Finished
  <2>4. locks.mode = c /\ locks.background # c
    BY <1>1, <1>3, <2>1
       DEF LocksHeld, HoldsMode, HoldsBackground, ModeOps
  <2>5. /\ ProgramIsMode /\ LayoutCurrent
        /\ outside \/ mirror.vars = disk.vars
    BY <1>1, <1>3, <2>3, <2>4, ModeSettled DEF Asking
  <2>6. /\ QueueTracked' /\ DownIsEmpty' /\ ModeTracked' /\ RateTracked'
        /\ VarsStored' /\ VarsShown' /\ BackgroundTracked'
    BY <1>1, <1>3, <2>3, <2>4, <2>5, ReturnedQuietly
  <2> QED
    BY <2>3, <2>6 DEF IInv
<1> QED
  BY <1>1, <1>2, <1>3, FinishLayoutInv, FinishStreamInv, FinishBackgroundInv
-----------------------------------------------------------------------------
(* The listener *)

\* The oldest request is that of a call that waits.
LEMMA HeadIsWaiting ==
    ASSUME IInv, queue # <<>>
    PROVE  /\ Head(queue).from \in Clients
           /\ call[Head(queue).from].at = "wait"
           /\ Head(queue) = Request(Head(queue).from)
           /\ call[Head(queue).from].op
                \in {"set_layout", "stream", "set_layout_vars",
                     "set_background", "reload"}
           /\ up
<1>1. TypeOK /\ CallsPlaced /\ QueueTracked /\ DownIsEmpty
  BY DEF IInv
<1>2. queue \in Seq(Requests) /\ 1 \in DOMAIN queue /\ Head(queue) = queue[1]
  BY <1>1 DEF TypeOK
<1>3. /\ queue[1].from \in Clients
      /\ call[queue[1].from].at = "wait" /\ queue[1] = Request(queue[1].from)
  BY <1>1, <1>2, QueueTyped DEF QueueTracked
<1>4. call[queue[1].from].op \in {"set_layout", "stream", "set_layout_vars",
                                  "set_background", "reload"}
  <2> DEFINE k == call[queue[1].from]
  <2>1. /\ Placed(k)
        /\ k.op \in {"none", "set_layout", "stream", "set_layout_vars",
                     "set_default_layout", "set_background", "reload"}
        /\ k.op = "none" => k.at = "idle"
    BY <1>1, <1>3, CallKinds
  <2>2. k.at = "wait"
    BY <1>3
  <2> HIDE DEF k
  <2>3. k.op \in {"set_layout", "stream", "set_layout_vars",
                  "set_background", "reload"}
    BY <2>1, <2>2 DEF Placed
  <2> QED
    BY <2>3 DEF k
<1> QED
  BY <1>1, <1>2, <1>3, <1>4, Running

\* What an answer leaves behind, whichever it is.
LEMMA AnsweredInv ==
    ASSUME IInv, queue # <<>>, NEW c \in Clients, c = Head(queue).from,
           NEW at \in Answered, Goto(c, at), queue' = Tail(queue),
           UNCHANGED <<disk, edit, up, mirror, state, locks, used, chosen,
                       outside, adrift>>,
           shown' \in [program: Programs, background: Images \union {None},
                       rate: Rates \union {StreamRate}],
           untold' \in BOOLEAN, misnamed' \in BOOLEAN, dropped' \in BOOLEAN,
           shown'.rate = shown.rate
    PROVE  /\ TypeOK' /\ CallsPlaced' /\ LocksHeld' /\ EditsTracked'
           /\ QueueTracked' /\ DownIsEmpty' /\ RateTracked' /\ VarsStored'
           /\ Moves(c) /\ call'[c].op = call[c].op
           /\ call'[c].arg = call[c].arg /\ call'[c].at = at
           /\ call'[c].kept = call[c].kept
<1>1. /\ TypeOK /\ CallsPlaced /\ LocksHeld /\ EditsTracked /\ QueueTracked
      /\ DownIsEmpty /\ RateTracked /\ VarsStored
  BY DEF IInv
<1>2. /\ call[c].at = "wait" /\ up
      /\ call[c].op \in {"set_layout", "stream", "set_layout_vars",
                         "set_background", "reload"}
  BY HeadIsWaiting
<1>3. at \in {"done", "refused"} /\ at \in Steps
  BY DEF Answered, Steps
<1>4. /\ Moves(c)
      /\ call'[c].op = call[c].op /\ call'[c].arg = call[c].arg
      /\ call'[c].at = at /\ call'[c].kept = call[c].kept
  BY <1>1, <1>3, GotoMoves DEF Moves
<1>5. /\ queue \in Seq(Requests) /\ queue' \in Seq(Requests)
      /\ Len(queue) \in Nat \ {0}
      /\ DOMAIN queue = 1 .. Len(queue)
      /\ DOMAIN queue' = 1 .. Len(queue) - 1
      /\ \A i \in 1 .. Len(queue) - 1: queue'[i] = queue[i + 1]
      /\ Head(queue) = queue[1]
  BY <1>1 DEF TypeOK
<1>6. TypeOK'
  BY <1>1, <1>4, <1>5 DEF TypeOK, Moves
<1>7. CallsPlaced'
  <2>1. Placed(call[c])
    BY <1>1 DEF CallsPlaced
  <2>2. Placed(call'[c])
    BY <1>2, <1>3, <1>4, <2>1 DEF Placed, Asking, Answered
  <2> QED
    BY <1>1, <1>4, <2>2, PlacedAfter
<1>8. LocksHeld'
  <2>1. /\ HoldsMode(call'[c]) <=> HoldsMode(call[c])
        /\ HoldsWrite(call'[c]) <=> HoldsWrite(call[c])
        /\ HoldsBackground(call'[c]) <=> HoldsBackground(call[c])
    BY <1>2, <1>3, <1>4 DEF HoldsMode, HoldsWrite, HoldsBackground
  <2> QED
    BY <1>1, <1>4, <2>1, LocksAfter DEF LocksHeld
<1>9. EditsTracked'
  <2>1. \A d \in Clients: locks.write = d => call'[d] = call[d]
    BY <1>1, <1>2, <1>4 DEF Moves, LocksHeld, HoldsWrite
  <2> QED
    BY <1>1, <2>1, EditsKept
<1>10. QueueTracked'
  <2>1. ASSUME NEW i \in 1 .. Len(queue), i # 1
        PROVE  \E d \in Clients: /\ queue[i].from = d
                                 /\ call'[d].at = "wait"
                                 /\ queue[i] = Request(d)'
    <3>1. queue[i].from \in Clients
      BY <1>1, <1>5, QueueTyped
    <3> PICK d \in Clients: d = queue[i].from
      BY <3>1
    <3>2. call[d].at = "wait" /\ queue[i] = Request(d)
      BY <1>1, <1>5 DEF QueueTracked
    <3>3. d # c
      BY <1>1, <1>5, <2>1 DEF QueueTracked
    <3>4. call'[d] = call[d]
      BY <1>4, <3>3 DEF Moves
    <3>5. Request(d)' = Request(d)
      BY <1>1, <3>2, <3>4, RequestKept
    <3> QED
      BY <3>2, <3>4, <3>5
  <2>2. ASSUME NEW i \in DOMAIN queue'
        PROVE  \E d \in Clients: /\ queue'[i].from = d
                                 /\ call'[d].at = "wait"
                                 /\ queue'[i] = Request(d)'
    <3>1. i + 1 \in 1 .. Len(queue) /\ i + 1 # 1 /\ queue'[i] = queue[i + 1]
      BY <1>5
    <3> QED
      BY <2>1, <3>1
  <2>3. ASSUME NEW i \in DOMAIN queue', NEW j \in DOMAIN queue',
               queue'[i].from = queue'[j].from
        PROVE  i = j
    <3>1. /\ i + 1 \in DOMAIN queue /\ j + 1 \in DOMAIN queue
          /\ queue'[i] = queue[i + 1] /\ queue'[j] = queue[j + 1]
          /\ i \in Int /\ j \in Int
      BY <1>5
    <3>2. i + 1 = j + 1
      BY <1>1, <2>3, <3>1 DEF QueueTracked
    <3> QED
      BY <3>1, <3>2
  <2> QED
    BY <2>2, <2>3 DEF QueueTracked
<1>11. DownIsEmpty'
  BY <1>2 DEF DownIsEmpty
<1>12. RateTracked'
  <2>1. \A d \in Clients:
          call'[d].op = call[d].op /\ call'[d].kept = call[d].kept
    BY <1>4 DEF Moves
  <2> QED
    BY <1>1, <2>1 DEF RateTracked
<1>13. VarsStored'
  <2>1. ASSUME NEW d \in Clients, Stored(call[d])
        PROVE  Stored(call[d])'
    <3>1. CASE d = c
      BY <1>2, <1>3, <1>4, <2>1, <3>1 DEF Stored
    <3>2. CASE d # c
      <4>1. call'[d] = call[d]
        BY <1>4, <3>2 DEF Moves
      <4> QED
        BY <2>1, <4>1 DEF Stored
    <3> QED
      BY <3>1, <3>2
  <2> QED
    BY <1>1, <2>1 DEF VarsStored
<1> QED
  BY <1>4, <1>6, <1>7, <1>8, <1>9, <1>10, <1>11, <1>12, <1>13

LEMMA InstallInv ==
    ASSUME IInv, Install
    PROVE  IInv'
<1> DEFINE c == Head(queue).from
<1>1. /\ queue # <<>> /\ queue' = Tail(queue) /\ Goto(c, "done")
      /\ UNCHANGED <<disk, edit, up, mirror, state, locks, used, chosen,
                     outside, adrift>>
      /\ IF Head(queue).what = "program"
         THEN /\ shown' = [shown EXCEPT !.program = Head(queue).value]
              /\ untold' = FALSE /\ misnamed' = FALSE /\ UNCHANGED dropped
         ELSE /\ shown' = [shown EXCEPT !.background = Head(queue).value]
              /\ dropped' = FALSE /\ UNCHANGED <<untold, misnamed>>
  BY DEF Install, conf, known
<1>2. /\ c \in Clients /\ call[c].at = "wait" /\ up
      /\ Head(queue) = Request(c)
      /\ call[c].op \in {"set_layout", "stream", "set_layout_vars",
                         "set_background", "reload"}
  BY <1>1, HeadIsWaiting
<1>3. /\ TypeOK /\ CallsPlaced /\ LocksHeld
      /\ Placed(call[c]) /\ state.layout \in Layouts
  BY <1>2 DEF IInv, TypeOK, CallsPlaced
<1>4. PICK d \in Clients: d = c
  BY <1>2
<1>5. CASE call[c].op # "set_background"
  <2>1. Head(queue).what = "program" /\ Head(queue).value = Asked(call[c])
    BY <1>2, <1>5 DEF Request, Asked
  <2>2. /\ call[c].op = "set_layout" =>
             /\ Asked(call[c]) = Layout(call[c].arg, call[c].kept)
             /\ call[c].arg \in Layouts /\ call[c].kept \in Vars
        /\ call[c].op = "set_layout_vars" =>
             /\ Asked(call[c]) = Layout(call[c].arg[1], call[c].kept)
             /\ call[c].arg[1] \in Layouts /\ call[c].kept \in Vars
        /\ call[c].op = "reload" =>
             /\ Asked(call[c]) = Layout(state.layout, call[c].kept)
             /\ state.layout \in Layouts /\ call[c].kept \in Vars
        /\ call[c].op = "stream" => Asked(call[c]) = Capture
    <3>1. /\ call[c].op = "set_layout"
               => call[c].arg \in Layouts /\ call[c].kept \in Vars
          /\ call[c].op = "reload" => call[c].kept \in Vars
      BY <1>2, <1>3 DEF Placed, Asking
    <3>2. call[c].op = "set_layout_vars" =>
            call[c].arg[1] \in Layouts /\ call[c].kept \in Vars
      BY <1>2, <1>3 DEF Placed, Asking
    <3> QED
      BY <1>3, <3>1, <3>2 DEF Asked
  <2>3. /\ Asked(call[c]) \in Programs
        /\ Asked(call[c]) = Capture <=> call[c].op = "stream"
        /\ call[c].op # "stream" => Asked(call[c]).vars = call[c].kept
    <3>1. ASSUME NEW l \in Layouts, NEW v \in Vars
          PROVE  /\ Layout(l, v) \in Programs /\ Layout(l, v) # Capture
                 /\ Layout(l, v).vars = v
      BY CaptureIsNoLayout DEF Layout, Programs
    <3>2. Capture \in Programs
      BY DEF Programs
    <3> QED
      BY <1>2, <1>5, <2>2, <3>1, <3>2
  <2>4. /\ shown' = [shown EXCEPT !.program = Asked(call[c])]
        /\ untold' = FALSE /\ misnamed' = FALSE /\ dropped' = dropped
    BY <1>1, <2>1
  <2>5. /\ shown'.program = Asked(call[c])
        /\ shown'.background = shown.background
        /\ shown'.rate = shown.rate
        /\ shown' \in [program: Programs, background: Images \union {None},
                       rate: Rates \union {StreamRate}]
        /\ untold' \in BOOLEAN /\ misnamed' \in BOOLEAN /\ dropped' \in BOOLEAN
    BY <1>3, <2>3, <2>4 DEF TypeOK
  <2>6. /\ TypeOK' /\ CallsPlaced' /\ LocksHeld' /\ EditsTracked'
        /\ QueueTracked' /\ DownIsEmpty' /\ RateTracked' /\ VarsStored'
        /\ Moves(d) /\ call'[d].op = call[d].op
        /\ call'[d].arg = call[d].arg /\ call'[d].at = "done"
        /\ call'[d].kept = call[d].kept
    BY <1>1, <1>4, <2>5, AnsweredInv DEF Answered
  <2>7. locks.mode = c /\ locks.background # c
    BY <1>2, <1>3, <1>5 DEF LocksHeld, HoldsMode, HoldsBackground, ModeOps
  <2>8. ModeAt(call[c]) /\ VarsAt(call[c])
    BY <1>2, <2>7 DEF IInv, ModeTracked, VarsShown
  <2>9. ModeTracked'
    <3>1. call[c].op \in Rebuilds => state.mode # Stream
      BY <1>2, <2>8 DEF ModeAt, Rebuilds, Asking
    <3>2. ModeAt(call[d])'
      BY <1>1, <1>2, <1>4, <1>5, <2>3, <2>5, <2>6, <3>1
         DEF ModeAt, ProgramIsMode, Rebuilds, Asking, Capture, Layout
    <3> QED
      BY <1>1, <1>4, <2>7, <3>2, ConstantsDiffer DEF ModeTracked
  <2>10. VarsShown'
    <3>1. call[c].op # "stream" =>
            Asked(call[c]).vars = mirror.vars[Asked(call[c]).layout]
      BY <1>2, <2>3, <2>8 DEF VarsAt, Asking
    <3>2. LayoutCurrent'
      BY <1>1, <2>3, <2>5, <3>1 DEF LayoutCurrent, Capture, Layout
    <3>3. VarsAt(call[d])'
      BY <2>6, <3>2 DEF VarsAt, Asking
    <3> QED
      BY <1>1, <1>4, <2>7, <3>3, ConstantsDiffer DEF VarsShown
  <2>11. BackgroundTracked'
    <3>1. \A e \in Clients: locks.background = e => call'[e] = call[e]
      BY <1>4, <2>6, <2>7 DEF Moves
    <3> QED
      BY <1>1, <2>4, <2>5, <3>1, BackgroundKept DEF IInv
  <2> QED
    BY <2>6, <2>9, <2>10, <2>11 DEF IInv
<1>6. CASE call[c].op = "set_background"
  <2>1. Head(queue).what = "background" /\ Head(queue).value = call[c].arg
    BY <1>2, <1>6 DEF Request
  <2>2. call[c].arg \in Images \union {None}
    BY <1>3, <1>6 DEF Placed
  <2>3. /\ shown' = [shown EXCEPT !.background = call[c].arg]
        /\ dropped' = FALSE /\ untold' = untold /\ misnamed' = misnamed
    BY <1>1, <2>1
  <2>4. /\ shown'.program = shown.program
        /\ shown'.background = call[c].arg
        /\ shown'.rate = shown.rate
        /\ shown' \in [program: Programs, background: Images \union {None},
                       rate: Rates \union {StreamRate}]
        /\ untold' \in BOOLEAN /\ misnamed' \in BOOLEAN /\ dropped' \in BOOLEAN
    BY <1>3, <2>2, <2>3 DEF TypeOK
  <2>5. /\ TypeOK' /\ CallsPlaced' /\ LocksHeld' /\ EditsTracked'
        /\ QueueTracked' /\ DownIsEmpty' /\ RateTracked' /\ VarsStored'
        /\ Moves(d) /\ call'[d].op = call[d].op
        /\ call'[d].arg = call[d].arg /\ call'[d].at = "done"
        /\ call'[d].kept = call[d].kept
    BY <1>1, <1>4, <2>4, AnsweredInv DEF Answered
  <2>6. locks.mode # c /\ locks.background = c
    BY <1>2, <1>3, <1>6 DEF LocksHeld, HoldsMode, HoldsBackground, ModeOps
  <2>7. \A e \in Clients: locks.mode = e => call'[e] = call[e]
    BY <1>4, <2>5, <2>6 DEF Moves
  <2>8. ModeTracked' /\ VarsShown'
    BY <1>1, <2>3, <2>4, <2>7, ModeKept, ShownKept DEF IInv
  <2>9. BackgroundTracked'
    <3>1. BackgroundAt(call[c])
      BY <1>2, <2>6 DEF IInv, BackgroundTracked
    <3>2. BackgroundAt(call[d])'
      BY <1>1, <1>2, <1>4, <2>3, <2>4, <2>5, <3>1 DEF BackgroundAt, ImageAt
    <3> QED
      BY <1>1, <1>4, <2>3, <2>6, <3>2, ConstantsDiffer DEF BackgroundTracked
  <2> QED
    BY <2>5, <2>8, <2>9 DEF IInv
<1> QED
  BY <1>5, <1>6

LEMMA RefuseInv ==
    ASSUME IInv, Refuse
    PROVE  IInv'
<1> DEFINE c == Head(queue).from
<1>1. /\ queue # <<>> /\ queue' = Tail(queue) /\ Goto(c, "refused")
      /\ untold' = (untold \/ call[c].op \in {"set_layout_vars", "reload"})
      /\ UNCHANGED <<disk, edit, up, mirror, state, shown, locks, used,
                     chosen, outside, adrift, misnamed, dropped>>
  BY DEF Refuse, conf, known
<1>2. /\ c \in Clients /\ call[c].at = "wait" /\ up
      /\ call[c].op \in {"set_layout", "stream", "set_layout_vars",
                         "set_background", "reload"}
  BY <1>1, HeadIsWaiting
<1>3. /\ TypeOK /\ CallsPlaced /\ LocksHeld
  BY DEF IInv
<1>4. PICK d \in Clients: d = c
  BY <1>2
<1>5. /\ TypeOK' /\ CallsPlaced' /\ LocksHeld' /\ EditsTracked'
      /\ QueueTracked' /\ DownIsEmpty' /\ RateTracked' /\ VarsStored'
      /\ Moves(d) /\ call'[d].op = call[d].op
      /\ call'[d].arg = call[d].arg /\ call'[d].at = "refused"
      /\ call'[d].kept = call[d].kept
  <2>1. untold' \in BOOLEAN /\ misnamed' \in BOOLEAN /\ dropped' \in BOOLEAN
    BY <1>1, <1>3 DEF TypeOK
  <2>2. /\ shown' \in [program: Programs, background: Images \union {None},
                       rate: Rates \union {StreamRate}]
        /\ shown'.rate = shown.rate
    BY <1>1, <1>3 DEF TypeOK
  <2> QED
    BY <1>1, <1>4, <2>1, <2>2, AnsweredInv DEF Answered
<1>6. (ProgramIsMode' <=> ProgramIsMode) /\ (LayoutCurrent => LayoutCurrent')
  BY <1>1 DEF ProgramIsMode, LayoutCurrent, Capture, Layout
<1>7. CASE call[c].op # "set_background"
  <2>1. locks.mode = c /\ locks.background # c
    BY <1>2, <1>3, <1>7 DEF LocksHeld, HoldsMode, HoldsBackground, ModeOps
  <2>2. ModeAt(call[c]) /\ VarsAt(call[c])
    BY <1>2, <2>1 DEF IInv, ModeTracked, VarsShown
  <2>3. ModeTracked'
    <3>1. ProgramIsMode'
      BY <1>2, <1>6, <2>2 DEF ModeAt
    <3>2. ModeAt(call[d])'
      BY <1>5, <3>1 DEF ModeAt, Asking
    <3> QED
      BY <1>1, <1>4, <2>1, <3>2, ConstantsDiffer DEF ModeTracked
  <2>4. VarsShown'
    <3>1. LayoutCurrent'
      <4>1. CASE call[c].op \in Rebuilds
        BY <1>1, <4>1 DEF LayoutCurrent, Rebuilds
      <4>2. CASE call[c].op \notin Rebuilds
        BY <1>6, <2>2, <4>2 DEF VarsAt
      <4> QED
        BY <4>1, <4>2
    <3>2. VarsAt(call[d])'
      BY <1>5, <3>1 DEF VarsAt, Asking
    <3> QED
      BY <1>1, <1>4, <2>1, <3>2, ConstantsDiffer DEF VarsShown
  <2>5. BackgroundTracked'
    <3>1. \A e \in Clients: locks.background = e => call'[e] = call[e]
      BY <1>4, <1>5, <2>1 DEF Moves
    <3> QED
      BY <1>1, <3>1, BackgroundKept DEF IInv
  <2> QED
    BY <1>5, <2>3, <2>4, <2>5 DEF IInv
<1>8. CASE call[c].op = "set_background"
  <2>1. locks.mode # c /\ locks.background = c
    BY <1>2, <1>3, <1>8 DEF LocksHeld, HoldsMode, HoldsBackground, ModeOps
  <2>2. \A e \in Clients: locks.mode = e => call'[e] = call[e]
    BY <1>4, <1>5, <2>1 DEF Moves
  <2>3. ModeTracked' /\ VarsShown'
    BY <1>1, <2>2, ModeKept, ShownKept DEF IInv
  <2>4. BackgroundTracked'
    <3>1. /\ BackgroundAt(call[c])
          /\ dropped => shown.background = None
      BY <1>2, <2>1 DEF IInv, BackgroundTracked
    <3>2. BackgroundAt(call[d])'
      BY <1>1, <1>2, <1>4, <1>5, <3>1 DEF BackgroundAt, ImageAt, Remembered
    <3> QED
      BY <1>1, <1>4, <2>1, <3>1, <3>2, ConstantsDiffer DEF BackgroundTracked
  <2> QED
    BY <1>5, <2>3, <2>4 DEF IInv
<1> QED
  BY <1>7, <1>8
-----------------------------------------------------------------------------
(* Every step *)

LEMMA CommitInv ==
    ASSUME IInv, NEW c \in Clients, Commit(c)
    PROVE  IInv'
<1>1. CommitVars(c) \/ CommitDefault(c) \/ CommitReload(c)
  BY DEF Commit
<1> QED
  BY <1>1, CommitVarsInv, CommitDefaultInv, CommitReloadInv

LEMMA StepInv ==
    ASSUME IInv, NEW c \in Clients, Step(c)
    PROVE  IInv'
<1>1. CASE TakeMode(c)
  BY <1>1, TakeModeInv
<1>2. CASE TakeBackground(c)
  BY <1>2, TakeBackgroundInv
<1>3. CASE TakeWrite(c)
  BY <1>3, TakeWriteInv
<1>4. CASE FinishSave(c)
  BY <1>4, FinishSaveInv
<1>5. CASE Load(c)
  BY <1>5, LoadInv
<1>6. CASE Commit(c)
  BY <1>6, CommitInv
<1>7. CASE Send(c)
  BY <1>7, SendInv
<1>8. CASE Finish(c)
  BY <1>8, FinishInv
<1>9. CASE Refused(c)
  BY <1>9, RefusedInv
<1>10. CASE Fail(c)
  BY <1>10, FailInv
<1> QED
  BY <1>1, <1>2, <1>3, <1>4, <1>5, <1>6, <1>7, <1>8, <1>9, <1>10 DEF Step

LEMMA StutterInv ==
    ASSUME IInv, UNCHANGED vars
    PROVE  IInv'
<1>1. UNCHANGED <<disk, edit, up, mirror, state, shown, locks, queue, call,
                  used, chosen, outside, untold, adrift, misnamed, dropped>>
  BY DEF vars
<1>2. TypeOK'
  BY <1>1 DEF IInv, TypeOK
<1>3. CallsPlaced' /\ LocksHeld'
  BY <1>1 DEF IInv, CallsPlaced, Placed, LocksHeld, HoldsMode,
              HoldsBackground, HoldsWrite
<1>4. EditsTracked' /\ DownIsEmpty'
  BY <1>1 DEF IInv, EditsTracked, SavedBy, DownIsEmpty
<1>5. QueueTracked'
  BY <1>1 DEF IInv, QueueTracked, Request
<1>6. ModeTracked' /\ RateTracked'
  BY <1>1 DEF IInv, ModeTracked, ModeAt, ProgramIsMode, RateTracked
<1>7. VarsStored'
  BY <1>1 DEF IInv, VarsStored, Stored
<1>8. VarsShown'
  BY <1>1 DEF IInv, VarsShown, VarsAt, Asked, LayoutCurrent
<1>9. BackgroundTracked'
  BY <1>1 DEF IInv, BackgroundTracked, BackgroundAt, ImageAt, Remembered
<1> QED
  BY <1>2, <1>3, <1>4, <1>5, <1>6, <1>7, <1>8, <1>9 DEF IInv

LEMMA NextInv == IInv /\ [Next]_vars => IInv'
<1> SUFFICES ASSUME IInv, [Next]_vars
             PROVE  IInv'
  OBVIOUS
<1>1. CASE \E c \in Clients: Call(c) \/ Step(c)
  BY <1>1, CallInv, StepInv
<1>2. CASE SetTickRate
  BY <1>2, SetTickRateInv
<1>3. CASE Listener
  BY <1>3, InstallInv, RefuseInv DEF Listener
<1>4. CASE GuiBegin
  BY <1>4, GuiBeginInv
<1>5. CASE GuiRename
  BY <1>5, GuiRenameInv
<1>6. CASE HandEdit
  BY <1>6, HandEditInv
<1>7. CASE Down
  BY <1>7, DownInv
<1>8. CASE Boot
  BY <1>8, BootInv
<1>9. CASE UNCHANGED vars
  BY <1>9, StutterInv
<1> QED
  BY <1>1, <1>2, <1>3, <1>4, <1>5, <1>6, <1>7, <1>8, <1>9 DEF Next

\* How far each call may be between two of its steps, in every reachable
\* state of the service: the locks name the calls that are halfway, and the
\* file, the mirror, the state and the display agree but for what those calls
\* are about to write (the async functions of src/service/dbus.rs).
THEOREM ServiceInvariant == Spec => []IInv
<1> QED
  BY InitInv, NextInv, PTL DEF Spec

\* The variables have their types in every reachable state.
THEOREM TypeCorrect == Spec => []TypeOK
<1>1. IInv => TypeOK
  BY DEF IInv
<1> QED
  BY <1>1, ServiceInvariant, PTL

-----------------------------------------------------------------------------
(* What follows from the invariant *)

LEMMA ModeSound ==
    ASSUME IInv
    PROVE  ModeAgrees
<1>1. ModeTracked /\ RateTracked
  BY DEF IInv
<1>2. ProgramReported
  BY <1>1 DEF ModeTracked, ProgramIsMode, ProgramReported
<1>3. RateRestored
  BY <1>1 DEF RateTracked, RateRestored
<1> QED
  BY <1>2, <1>3 DEF ModeAgrees

\* Between transitions the mode the daemon reports is the one the display is
\* in, and layouts run at the rate last chosen for them, whatever streams
\* were started, replaced, refused and stopped, and however often the daemon
\* was restarted in either mode (pre_stream_tick_rate and the mode of
\* ServiceState, src/service/dbus.rs); but for a daemon whose first
\* [[displays]] entry has another mode than [display] (src/main.rs:617), which
\* reports the wrong one until a change is acknowledged.
THEOREM ModeIsReported == Spec => []ModeAgrees
<1> QED
  BY ModeSound, ServiceInvariant, PTL

LEMMA SettingsSound ==
    ASSUME IInv
    PROVE  SettingsAgree
<1>1. VarsStored /\ VarsShown /\ BackgroundTracked
  BY DEF IInv
<1>2. VarsAgree
  BY <1>1 DEF VarsStored, VarsShown, LayoutCurrent, VarsAgree
<1>3. BackgroundAgrees
  BY <1>1 DEF BackgroundTracked, Remembered, BackgroundAgrees
<1> QED
  BY <1>2, <1>3 DEF SettingsAgree

\* Between transitions the variables and the background in the mirror, those
\* of config.toml and those on the display are the same, whichever calls ran
\* at once and whichever of them failed or were refused halfway, but for the
\* cases the histories name: another process wrote, a layout was not rebuilt
\* with its variables, a reload came in the middle of a background change, the
\* save that undoes a background failed, and the daemon started without the
\* background of the file, which it then shows as none.
THEOREM SettingsAlwaysAgree == Spec => []SettingsAgree
<1> QED
  BY SettingsSound, ServiceInvariant, PTL

\* The rename of a save that read the file as it still is keeps the sections
\* of the others.
LEMMA RenameKeeps ==
    ASSUME TypeOK, EditsTracked, NEW p \in Processes, Rename(p),
           edit[p] # None, ~edit[p].raced
    PROVE  Unchanged(disk, edit[p].save)
<1>1. edit[p].file = disk
  BY DEF EditsTracked
<1>2. disk \in Config /\ edit[p].save \in Saves
      /\ disk' = Saved(disk, edit[p].save)
  BY <1>1, RenamedEdit DEF TypeOK
<1> PICK s \in Saves: s = edit[p].save
  BY <1>2
<1> PICK file \in Config: file = disk
  BY <1>2
<1>3. disk' = Saved(file, s)
  BY <1>2
<1>4. file.vars \in [Layouts -> Vars]
  BY DEF Config
<1>5. ASSUME s.what = "vars", NEW l \in Layouts, l # s.value[1]
      PROVE  disk'.vars[l] = file.vars[l]
  <2>1. Saved(file, s).vars = [file.vars EXCEPT ![s.value[1]] = s.value[2]]
    BY <1>5, SavedSections
  <2> QED
    BY <1>3, <1>4, <1>5, <2>1
<1>6. Unchanged(file, s)
  BY <1>3, <1>5, SavedSections DEF Unchanged
<1> QED
  BY <1>6 DEF Unchanged

\* No other step ends an edit and changes the file.
LEMMA OnlyRenames ==
    ASSUME IInv, [Next]_vars, NEW p \in Processes,
           edit[p] # None, edit'[p] = None, disk' # disk
    PROVE  Rename(p)
<1>1. TypeOK /\ EditsTracked
  BY DEF IInv
<1>2. ASSUME NEW q \in Processes, Rename(q), edit[q] # None
      PROVE  Rename(p)
  BY <1>1, <1>2, RenamedEdit
<1>3. CASE \E c \in Clients: Call(c) \/ Step(c)
  <2> PICK c \in Clients: Call(c) \/ Step(c)
    BY <1>3
  <2>1. CASE FinishSave(c)
    <3>1. Rename("daemon") /\ locks.write = c /\ "daemon" \in Processes
      BY <2>1 DEF FinishSave, Processes
    <3>2. edit["daemon"] # None
      BY <1>1, <3>1, HoldersTyped DEF EditsTracked
    <3> QED
      BY <1>2, <3>1, <3>2
  <2>2. CASE ~FinishSave(c)
    BY <2>2 DEF Call, Step, TakeMode, TakeBackground, TakeWrite, Load, Commit,
                Send, Finish, Refused, Fail, conf
  <2> QED
    BY <2>1, <2>2
<1>4. CASE GuiRename
  BY <1>2, <1>4 DEF GuiRename, Processes
<1>5. CASE HandEdit
  <2>1. edit[p] \in Edits
    BY <1>1 DEF TypeOK
  <2>2. edit'[p] = [edit[p] EXCEPT !.raced = TRUE]
    BY <1>5 DEF HandEdit
  <2> QED
    BY <2>1, <2>2, RacedEdit
<1>6. CASE SetTickRate \/ Listener \/ GuiBegin \/ Down \/ Boot
           \/ UNCHANGED vars
  BY <1>6 DEF SetTickRate, Listener, Install, Refuse, GuiBegin, Down, Boot,
              conf, vars
<1> QED
  BY <1>3, <1>4, <1>5, <1>6 DEF Next

\* A save keeps the sections it does not write, whoever wrote them and
\* whichever calls, edits and crashes came before, unless another process
\* replaced the file between its read and its rename (config_write_lock of
\* src/service/dbus.rs and the save_* functions of src/config.rs).
THEOREM OthersAreKept == Spec => OthersEditsKept
<1> DEFINE A == \A p \in Processes:
                  (edit[p] # None /\ ~edit[p].raced /\ edit'[p] = None
                     /\ disk' # disk)
                    => Unchanged(disk, edit[p].save)
<1>1. IInv /\ [Next]_vars => [A]_vars
  <2> SUFFICES ASSUME IInv, [Next]_vars, NEW p \in Processes,
                      edit[p] # None, ~edit[p].raced, edit'[p] = None,
                      disk' # disk
               PROVE  Unchanged(disk, edit[p].save)
    OBVIOUS
  <2>1. TypeOK /\ EditsTracked
    BY DEF IInv
  <2> QED
    BY <2>1, OnlyRenames, RenameKeeps
<1>2. Spec => [][A]_vars
  BY <1>1, ServiceInvariant, PTL DEF Spec
<1> QED
  BY <1>2 DEF OthersEditsKept
=============================================================================
