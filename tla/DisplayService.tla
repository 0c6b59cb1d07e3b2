--------------------------- MODULE DisplayService ---------------------------
(***************************************************************************)
(* The D-Bus service of the daemon (src/service/dbus.rs) and the          *)
(* configuration file it shares with the GUI and with text editors        *)
(* (src/config.rs).                                                        *)
(*                                                                         *)
(* Clients call the interface concurrently.  A call is an async function:  *)
(* it takes some of the three locks of ServiceState, copies what it needs, *)
(* edits config.toml, sends a ModeChange to the listener task, waits for   *)
(* the acknowledgement and only then commits its result to the shared      *)
(* state, the mirror that get_status and the next calls read.  Other calls *)
(* run between any two of these steps.                                     *)
(*                                                                         *)
(* The listener and the tick loop are one action here: they answer the     *)
(* oldest request, and the request has taken effect exactly if the answer  *)
(* is Ok.  DisplayPipeline is the detailed model of that part.  With       *)
(* several displays this is the first one, which all requests address.     *)
(*                                                                         *)
(* config.toml is changed by read, edit, write aside and rename.  The      *)
(* daemon's writers are serialised by config_write_lock, the writers of    *)
(* one process by CONFIG_WRITE_LOCK; nothing serialises two processes.     *)
(***************************************************************************)
EXTENDS Naturals, Sequences, FiniteSets

CONSTANTS
  Clients,      \* connections with at most one call in progress each
  Layouts,      \* layout files
  Vars,         \* values of a layout's variables
  Images,       \* background images
  Rates,        \* tick rates of layouts
  StreamRate,   \* xvfb.tick_rate
  Firsts,       \* what config.toml may be at the start
  Ops,          \* the calls clients make
  MaxCalls,     \* bound: calls made
  MaxEdits,     \* bound: edits of config.toml by other processes
  MaxDowns,     \* bound: stops and crashes of the daemon
  MaxEvents,    \* bound: all of these together
  None          \* no image, no rate, no client, no edit

ASSUME ConstantsDiffer ==
  /\ StreamRate \notin Rates
  /\ None \notin Clients \union Layouts \union Vars \union Images
                   \union Rates \union {StreamRate}
  /\ Layouts # {} /\ Vars # {} /\ Rates # {}

ASSUME Bounds == {MaxCalls, MaxEdits, MaxDowns, MaxEvents} \subseteq Nat

ASSUME OpsKnown ==
  Ops \subseteq {"set_layout", "stream", "set_layout_vars",
                 "set_default_layout", "set_background", "reload",
                 "set_tick_rate"}

VARIABLES
  disk,     \* config.toml
  edit,     \* per process: the edit of config.toml in progress
  up,       \* the daemon runs
  mirror,   \* ServiceState.config
  state,    \* ServiceState: active_layout, mode, tick_rate,
            \* pre_stream_tick_rate, current_background
  shown,    \* what was last installed on the (first) display: program,
            \* background, and the rate of the tick loop
  locks,    \* holder of mode_change_lock, config_write_lock, bg_change_lock
  queue,    \* the ModeChange channel
  call,     \* per client: the call in progress
  used,     \* calls, edits and stops so far
  chosen,   \* history: the last rate chosen for layouts
  outside,  \* history: another process wrote since the daemon last loaded
  untold,   \* history: a layout was not rebuilt with variables already stored
  adrift,   \* history: something the locks do not order came between the
            \* background of the file and the one on the display
  misnamed, \* history: the daemon reports another mode than it started the
            \* first display in, and no program was installed since
  dropped   \* history: the daemon started without the background of the
            \* file, and none was installed since

conf  == <<disk, edit>>
known == <<mirror, state>>
ghost == <<chosen, outside, untold, adrift, misnamed, dropped>>
vars  == <<disk, edit, up, mirror, state, shown, locks, queue, call, used,
           chosen, outside, untold, adrift, misnamed, dropped>>

Stream == "stream"

\* What the first [[displays]] entry says instead of [display]: a mode and a
\* layout, or to follow it, as it does when there is no such entry.
Entries == [mode: {"layout", Stream, "display"},
            layout: Layouts \union {None}]

\* The parts of config.toml that running code writes or reads.
Config == [mode: {"layout", Stream}, layout: Layouts, first: Entries,
           vars: [Layouts -> Vars], image: Images \union {None},
           rate: Rates, valid: BOOLEAN]

\* resolved_display_outputs: the mode and layout of the first display.
FirstMode(file) ==
  IF file.first.mode = "display" THEN file.mode ELSE file.first.mode
FirstLayout(file) ==
  IF file.first.layout = None THEN file.layout ELSE file.first.layout

ASSUME FirstsLoad ==
  Firsts \subseteq Config /\ \A file \in Firsts: file.valid

\* What a save_* function replaces.
Save(what, value) == [what |-> what, value |-> value]
Saves == {Save("vars", <<l, v>>): l \in Layouts, v \in Vars}
           \union {Save("layout", l): l \in Layouts}
           \union {Save("image", i): i \in Images \union {None}}

\* save_layout_vars, save_display_layout and save_background_image replace
\* their section and keep the others.
Saved(file, s) ==
  CASE s.what = "vars" ->
         [file EXCEPT !.vars = [@ EXCEPT ![s.value[1]] = s.value[2]]]
    [] s.what = "layout" ->
         [file EXCEPT !.layout = s.value, !.mode = "layout"]
    [] s.what = "image" -> [file EXCEPT !.image = s.value]

Processes == {"daemon", "gui"}

\* A save in progress: the file as it was read and what will be replaced.
Edits == [file: Config, save: Saves, raced: BOOLEAN]

ASSUME NoneIsNoEdit == None \notin Edits

\* What the listener can install: a layout with its variables, or a stream.
Layout(l, v) == [layout |-> l, vars |-> v]
Capture == Layout(None, None)
Programs == {Capture} \union [layout: Layouts, vars: Vars]

NoCall == [op |-> "none", arg |-> None, at |-> "idle", kept |-> None]

Args(op) ==
  CASE op \in {"set_layout", "set_default_layout"} -> Layouts
    [] op = "set_layout_vars" -> Layouts \X Vars
    [] op = "set_background" -> Images \union {None}
    [] op = "set_tick_rate" -> Rates
    [] OTHER -> {None}

-----------------------------------------------------------------------------
(* Start and stop of the daemon. *)

\* ServiceState as main builds it: the layout of the first display, but the
\* mode of the display section, whatever the first entry says; the rate of
\* that section, no rate to return to, and the image that was decoded.
Booted(file, image) ==
  [layout |-> FirstLayout(file), mode |-> file.mode, rate |-> file.rate,
   pre |-> None, background |-> image]

\* The source main starts for the first display.  The tick loop reads its
\* rate from the watch channel, which main fills with display.tick_rate
\* whatever the mode is.
\*
\* The image is the decoded one or None: main warns of a file that is missing
\* or does not decode and goes on without, and drops the error of a source
\* that refuses the image because its canvas makes it too large.
FirstShown(file, image) ==
  [program |-> IF FirstMode(file) = Stream THEN Capture
               ELSE Layout(FirstLayout(file), file.vars[FirstLayout(file)]),
   background |-> image,
   rate |-> file.rate]

Unlocked == [mode |-> None, write |-> None, background |-> None]

Init ==
  /\ disk \in Firsts
  /\ edit = [p \in Processes |-> None]
  /\ up = TRUE
  /\ mirror = disk
  /\ \E decoded \in {disk.image, None}: \E drawn \in {decoded, None}:
       /\ state = Booted(disk, decoded)
       /\ shown = FirstShown(disk, drawn)
  /\ locks = Unlocked
  /\ queue = <<>>
  /\ call = [c \in Clients |-> NoCall]
  /\ used = [calls |-> 0, edits |-> 0, downs |-> 0]
  /\ chosen = disk.rate
  /\ outside = FALSE
  /\ untold = FALSE
  /\ adrift = FALSE
  /\ misnamed = (FirstMode(disk) # disk.mode)
  /\ dropped = (shown.background # disk.image)

\* One more call, edit or stop.
Count(what, bound) ==
  /\ used[what] < bound
  /\ used.calls + used.edits + used.downs < MaxEvents
  /\ used' = [used EXCEPT ![what] = @ + 1]

\* stop() over D-Bus, a signal or a crash: every call in progress ends and
\* an edit that was not renamed into place is lost.
Down ==
  /\ up
  /\ Count("downs", MaxDowns)
  /\ up' = FALSE
  /\ edit' = [edit EXCEPT !["daemon"] = None]
  /\ locks' = Unlocked
  /\ queue' = <<>>
  /\ call' = [c \in Clients |-> NoCall]
  /\ UNCHANGED <<disk, known, shown, ghost>>

\* main does not start with a file that Config::load refuses.
Boot ==
  /\ ~up
  /\ disk.valid
  /\ up' = TRUE
  /\ mirror' = disk
  /\ \E decoded \in {disk.image, None}: \E drawn \in {decoded, None}:
       /\ state' = Booted(disk, decoded)
       /\ shown' = FirstShown(disk, drawn)
  /\ chosen' = disk.rate
  /\ outside' = FALSE
  /\ untold' = FALSE
  /\ adrift' = FALSE
  /\ misnamed' = (FirstMode(disk) # disk.mode)
  /\ dropped' = (shown'.background # disk.image)
  /\ UNCHANGED <<conf, locks, queue, call, used>>

-----------------------------------------------------------------------------
(* Reading and writing config.toml. *)

\* A process starts to save: it has read the file.
Begin(p, s) ==
  /\ edit[p] = None
  /\ edit' = [edit EXCEPT ![p] = [file |-> disk, save |-> s, raced |-> FALSE]]

\* Faulty variant: the whole mirror is written, not the edited copy.
Rename_Mirror(p) ==
  /\ disk' = Saved([mirror EXCEPT !.valid = TRUE], edit[p].save)
  /\ edit' = [q \in Processes |->
                IF q = p \/ edit[q] = None THEN None
                ELSE [edit[q] EXCEPT !.raced = TRUE]]

\* The rename puts the edited copy in place, whatever the file is by now.
\* (raced, the history of the other process's edit, is no part of the code.)
Rename(p) ==
  /\ disk' = Saved(edit[p].file, edit[p].save)
  /\ edit' = [q \in Processes |->
                IF q = p \/ edit[q] = None THEN None
                ELSE [edit[q] EXCEPT !.raced = TRUE]]

\* save_config and save_background of the GUI, taken when the daemon could
\* not be reached; the daemon may come up before they finish.
GuiBegin ==
  /\ ~up
  /\ Count("edits", MaxEdits)
  /\ disk.valid
  /\ \E s \in Saves: Begin("gui", s)
  /\ UNCHANGED <<disk, up, known, shown, locks, queue, call, ghost>>

GuiRename ==
  /\ edit["gui"] # None
  /\ Rename("gui")
  /\ outside' = TRUE
  /\ adrift' = TRUE
  /\ UNCHANGED <<up, known, shown, locks, queue, call, used, chosen, untold,
                 misnamed, dropped>>

\* An editor writes the file: any section, and possibly a file that
\* Config::load refuses.
HandEdit ==
  /\ Count("edits", MaxEdits)
  /\ \/ \E s \in Saves: disk' = [Saved(disk, s) EXCEPT !.valid = TRUE]
     \/ \E r \in Rates: disk' = [disk EXCEPT !.rate = r, !.valid = TRUE]
     \/ disk' = [disk EXCEPT !.mode = Stream, !.valid = TRUE]
     \/ disk' = [disk EXCEPT !.first.mode = Stream, !.valid = TRUE]
     \/ disk' = [disk EXCEPT !.valid = FALSE]
  /\ disk' # disk
  /\ edit' = [p \in Processes |->
                IF edit[p] = None THEN None
                ELSE [edit[p] EXCEPT !.raced = TRUE]]
  /\ outside' = TRUE
  /\ adrift' = TRUE
  /\ UNCHANGED <<up, known, shown, locks, queue, call, chosen, untold,
                 misnamed, dropped>>

-----------------------------------------------------------------------------
(* The steps of a call. *)

Goto(c, at) == call' = [call EXCEPT ![c].at = at]

\* A call returns and drops the guards it holds.
Return(c) ==
  /\ call' = [call EXCEPT ![c] = NoCall]
  /\ locks' = [l \in DOMAIN locks |->
                 IF locks[l] = c THEN None ELSE locks[l]]

\* Faulty variant: set_layout_vars starts without mode_change_lock.
FirstLock_VarsUnlocked(op) ==
  CASE op \in {"set_layout", "stream", "reload"} -> "mode"
    [] op \in {"set_default_layout", "set_layout_vars"} -> "write"
    [] op = "set_background" -> "background"

\* The first lock each call waits for.
FirstLock(op) ==
  CASE op \in {"set_layout", "stream", "set_layout_vars", "reload"} -> "mode"
    [] op = "set_default_layout" -> "write"
    [] op = "set_background" -> "background"

Call(c) ==
  /\ up
  /\ call[c] = NoCall
  /\ Count("calls", MaxCalls)
  /\ \E op \in Ops \ {"set_tick_rate"}: \E arg \in Args(op):
       call' = [call EXCEPT ![c] = [op |-> op, arg |-> arg,
                                    at |-> FirstLock(op), kept |-> None]]
  /\ UNCHANGED <<conf, up, known, shown, locks, queue, ghost>>

\* mode_change_lock.lock().await, and what the call copies under it.
TakeMode(c) ==
  /\ call[c].at = "mode"
  /\ locks.mode = None
  /\ locks' = [locks EXCEPT !.mode = c]
  /\ LET k == call[c]
     IN call' = [call EXCEPT ![c] =
          CASE k.op = "set_layout" ->
                 [k EXCEPT !.at = "send", !.kept = mirror.vars[k.arg]]
            [] k.op = "stream" -> [k EXCEPT !.at = "send", !.kept = state.rate]
            [] OTHER -> [k EXCEPT !.at = "write"]]
  /\ UNCHANGED <<conf, up, known, shown, queue, used, ghost>>

\* Faulty variant: callers do not wait for each other.
TakeBackground_Unlocked(c) ==
  /\ call[c].at = "background"
  /\ locks' = [locks EXCEPT !.background = c]
  /\ call' = [call EXCEPT ![c].at = "write", ![c].kept = mirror.image]
  /\ UNCHANGED <<conf, up, known, shown, queue, used, ghost>>

\* bg_change_lock, the decoded image, and the image to return to.
TakeBackground(c) ==
  /\ call[c].at = "background"
  /\ locks.background = None
  /\ locks' = [locks EXCEPT !.background = c]
  /\ call' = [call EXCEPT ![c].at = "write", ![c].kept = mirror.image]
  /\ UNCHANGED <<conf, up, known, shown, queue, used, ghost>>

\* What a call writes into the file; at "undo", a background call puts the
\* prior image back.
SaveOf(k) ==
  IF k.at = "undo" THEN Save("image", k.kept)
  ELSE CASE k.op = "set_layout_vars" -> Save("vars", k.arg)
         [] k.op = "set_default_layout" -> Save("layout", k.arg)
         [] k.op = "set_background" -> Save("image", k.arg)

\* config_write_lock, and the first half of the save.
TakeWrite(c) ==
  /\ call[c].at \in {"write", "undo"}
  /\ call[c].op # "reload"
  /\ locks.write = None
  /\ disk.valid
  /\ locks' = [locks EXCEPT !.write = c]
  /\ Begin("daemon", SaveOf(call[c]))
  /\ Goto(c, IF call[c].at = "undo" THEN "undone" ELSE "saved")
  /\ UNCHANGED <<disk, up, known, shown, queue, used, ghost>>

\* The second half: the rename, and the guard is dropped.
FinishSave(c) ==
  /\ call[c].at \in {"saved", "undone"}
  /\ locks.write = c
  /\ Rename("daemon")
  /\ IF call[c].at = "undone" THEN Return(c)
     ELSE /\ locks' = [locks EXCEPT !.write = None]
          /\ Goto(c, IF call[c].op = "set_background" THEN "send"
                     ELSE "commit")
  /\ UNCHANGED <<up, known, shown, queue, used, ghost>>

\* A call that fails before it changed anything: a file that is missing or
\* does not decode, variables that do not validate, a full disk.  The
\* compensating save of a background call may fail as well; its error is
\* dropped.
Fail(c) ==
  /\ \/ call[c].at = "send" /\ call[c].op = "set_layout"
     \/ call[c].at \in {"write", "undo"} /\ locks.write = None
     \/ call[c].at \in {"saved", "undone"}
  /\ edit' = IF locks.write = c THEN [edit EXCEPT !["daemon"] = None]
             ELSE edit
  /\ adrift' = (adrift \/ call[c].at \in {"undo", "undone"})
  /\ Return(c)
  /\ UNCHANGED <<disk, up, known, shown, queue, used, chosen, outside, untold,
                 misnamed, dropped>>

\* reload: Config::load under config_write_lock, in one step because the
\* file is replaced as a whole.
Load(c) ==
  /\ call[c].at = "write"
  /\ call[c].op = "reload"
  /\ locks.write = None
  /\ disk.valid
  /\ outside' = FALSE
  /\ call' = [call EXCEPT ![c].at = "commit", ![c].kept = disk]
  /\ UNCHANGED <<conf, up, known, shown, locks, queue, used, chosen, untold,
                 adrift, misnamed, dropped>>

\* set_layout_vars commits the stored variables; while a stream runs it does
\* not ask for a rebuild.
\* Faulty variant: it always asks.
CommitVars_Reloads(c) ==
  /\ call[c].op = "set_layout_vars"
  /\ mirror' = [mirror EXCEPT !.vars[call[c].arg[1]] = call[c].arg[2]]
  /\ call' = [call EXCEPT ![c].at = "send", ![c].kept = call[c].arg[2]]
  /\ UNCHANGED <<state, shown, locks, chosen>>

CommitVars(c) ==
  /\ call[c].op = "set_layout_vars"
  /\ mirror' = [mirror EXCEPT !.vars[call[c].arg[1]] = call[c].arg[2]]
  /\ IF state.mode = Stream THEN Return(c)
     ELSE /\ call' = [call EXCEPT ![c].at = "send",
                                  ![c].kept = call[c].arg[2]]
          /\ UNCHANGED locks
  /\ UNCHANGED <<state, shown, chosen>>

\* set_default_layout commits without mode_change_lock and without a rebuild.
CommitDefault(c) ==
  /\ call[c].op = "set_default_layout"
  /\ mirror' = [mirror EXCEPT !.layout = call[c].arg, !.mode = "layout"]
  /\ Return(c)
  /\ UNCHANGED <<state, shown, chosen>>

\* reload installs what it loaded; the rate only if no stream is running.
CommitReload(c) ==
  /\ call[c].op = "reload"
  /\ mirror' = call[c].kept
  /\ IF state.mode = Stream
     THEN /\ Return(c)
          /\ UNCHANGED <<state, shown, chosen>>
     ELSE /\ state' = [state EXCEPT !.rate = mirror'.rate]
          /\ shown' = [shown EXCEPT !.rate = mirror'.rate]
          /\ chosen' = mirror'.rate
          /\ call' = [call EXCEPT ![c].at = "send",
                                  ![c].kept = mirror'.vars[state.layout]]
          /\ UNCHANGED locks

Commit(c) ==
  /\ call[c].at = "commit"
  /\ CommitVars(c) \/ CommitDefault(c) \/ CommitReload(c)
  /\ adrift' = \/ adrift
               \/ /\ call[c].op = "reload"
                  /\ locks.background # None \/ mirror'.image # disk.image
  /\ untold' = \/ untold
               \/ /\ call[c].op # "set_default_layout"
                  /\ state.mode = Stream /\ shown.program # Capture
  /\ UNCHANGED <<conf, up, queue, used, outside, misnamed, dropped>>

\* The ModeChange a call sends.
Request(c) ==
  LET k == call[c]
  IN CASE k.op = "set_layout" ->
            [from |-> c, what |-> "program", value |-> Layout(k.arg, k.kept)]
       [] k.op = "set_layout_vars" ->
            [from |-> c, what |-> "program",
             value |-> Layout(k.arg[1], k.kept)]
       [] k.op = "reload" ->
            [from |-> c, what |-> "program",
             value |-> Layout(state.layout, k.kept)]
       [] k.op = "stream" ->
            [from |-> c, what |-> "program", value |-> Capture]
       [] k.op = "set_background" ->
            [from |-> c, what |-> "background", value |-> k.arg]

Send(c) ==
  /\ call[c].at = "send"
  /\ queue' = Append(queue, Request(c))
  /\ Goto(c, "wait")
  /\ UNCHANGED <<conf, up, known, shown, locks, used, ghost>>

\* The listener answers Ok: the new sources or the background are in place.
Install ==
  /\ queue # <<>>
  /\ queue' = Tail(queue)
  /\ LET r == Head(queue)
     IN /\ Goto(r.from, "done")
        /\ IF r.what = "program"
           THEN /\ shown' = [shown EXCEPT !.program = r.value]
                /\ untold' = FALSE /\ misnamed' = FALSE
                /\ UNCHANGED dropped
           ELSE /\ shown' = [shown EXCEPT !.background = r.value]
                /\ dropped' = FALSE
                /\ UNCHANGED <<untold, misnamed>>
  /\ UNCHANGED <<conf, up, known, locks, used, chosen, outside, adrift>>

\* It answers with an error, or drops the request: nothing has changed.
Refuse ==
  /\ queue # <<>>
  /\ queue' = Tail(queue)
  /\ LET c == Head(queue).from
     IN /\ Goto(c, "refused")
        /\ untold' = (untold \/ call[c].op \in {"set_layout_vars", "reload"})
  /\ UNCHANGED <<conf, up, known, shown, locks, used, chosen, outside, adrift,
                 misnamed, dropped>>

\* restore_from_streaming: back to the rate saved at the start of the
\* stream, if there is one.
Restored(s) ==
  IF s.pre = None THEN s ELSE [s EXCEPT !.rate = s.pre, !.pre = None]

\* launch_xvfb_argv_inner: keep the rate to return to, once.
\* Faulty variant: a second stream overwrites it.
Streaming_Overwrites(s, rate) ==
  [s EXCEPT !.mode = Stream, !.pre = rate, !.rate = StreamRate]

Streaming(s, rate) ==
  [s EXCEPT !.mode = Stream, !.pre = IF @ = None THEN rate ELSE @,
            !.rate = StreamRate]

\* The acknowledged change is committed to the mirror.
Finish(c) ==
  /\ call[c].at = "done"
  /\ LET k == call[c]
         back == Restored([state EXCEPT !.layout = k.arg, !.mode = "layout"])
     IN \/ /\ k.op = "set_layout"
           /\ state' = back
           /\ shown' = [shown EXCEPT !.rate = IF state.pre = None THEN @
                                              ELSE back.rate]
           /\ UNCHANGED mirror
        \/ /\ k.op = "stream"
           /\ state' = Streaming(state, k.kept)
           /\ shown' = [shown EXCEPT !.rate = StreamRate]
           /\ UNCHANGED mirror
        \/ /\ k.op = "set_background"
           /\ state' = [state EXCEPT !.background = k.arg]
           /\ mirror' = [mirror EXCEPT !.image = k.arg]
           /\ UNCHANGED shown
        \/ /\ k.op \in {"set_layout_vars", "reload"}
           /\ UNCHANGED <<known, shown>>
  /\ Return(c)
  /\ UNCHANGED <<conf, up, queue, used, ghost>>

\* The caller gets the error; a background call first puts the file back.
\* Faulty variant: the error path keeps the guard.
Refused_KeepsGuard(c) ==
  /\ call[c].at = "refused"
  /\ IF call[c].op = "set_background" THEN Goto(c, "undo") /\ UNCHANGED locks
     ELSE call' = [call EXCEPT ![c] = NoCall] /\ UNCHANGED locks
  /\ UNCHANGED <<conf, up, known, shown, queue, used, ghost>>

Refused(c) ==
  /\ call[c].at = "refused"
  /\ IF call[c].op = "set_background" THEN Goto(c, "undo") /\ UNCHANGED locks
     ELSE Return(c)
  /\ UNCHANGED <<conf, up, known, shown, queue, used, ghost>>

\* set_tick_rate takes the interface exclusively: it runs when no other call
\* is in progress.  While a stream runs, the rate set is the stream's, and
\* layouts return to the one kept; only a daemon that started in xvfb mode
\* has kept none, and layouts go on at the rate set.
SetTickRate ==
  /\ up
  /\ "set_tick_rate" \in Ops
  /\ \A c \in Clients: call[c] = NoCall
  /\ Count("calls", MaxCalls)
  /\ \E r \in Args("set_tick_rate"):
       /\ state' = [state EXCEPT !.rate = r]
       /\ shown' = [shown EXCEPT !.rate = r]
       /\ chosen' = IF state.pre # None THEN chosen ELSE r
  /\ UNCHANGED <<conf, up, mirror, locks, queue, call, outside, untold,
                 adrift, misnamed, dropped>>

-----------------------------------------------------------------------------

Step(c) ==
  \/ TakeMode(c) \/ TakeBackground(c) \/ TakeWrite(c) \/ FinishSave(c)
  \/ Load(c) \/ Commit(c) \/ Send(c) \/ Finish(c) \/ Refused(c) \/ Fail(c)

Listener == Install \/ Refuse

Next ==
  \/ \E c \in Clients: Call(c) \/ Step(c)
  \/ SetTickRate
  \/ Listener
  \/ GuiBegin \/ GuiRename \/ HandEdit
  \/ Down \/ Boot

\* The runtime polls every task that can go on, tokio's mutexes are fair, and
\* the listener serves its channel.
Fairness == WF_vars(Listener) /\ \A c \in Clients: WF_vars(Step(c))

Spec == Init /\ [][Next]_vars /\ Fairness

-----------------------------------------------------------------------------
(* Properties. *)

\* What calls pass on, and the requests they send.
Steps == {"idle", "mode", "write", "background", "saved", "commit", "send",
          "wait", "done", "refused", "undo", "undone"}
Calls == [op: Ops \union {"none"},
          arg: {None} \union Layouts \union (Layouts \X Vars) \union Images,
          at: Steps,
          kept: {None, StreamRate} \union Vars \union Rates \union Images
                  \union Config]
Requests == [from: Clients, what: {"program", "background"},
             value: Programs \union Images \union {None}]

\* The variables have their types.
TypeOK ==
  /\ disk \in Config /\ mirror \in Config
  /\ edit \in [Processes -> Edits \union {None}]
  /\ up \in BOOLEAN
  /\ state \in [layout: Layouts, mode: {"layout", Stream},
                rate: Rates \union {StreamRate},
                pre: Rates \union {None},
                background: Images \union {None}]
  /\ shown \in [program: Programs, background: Images \union {None},
                rate: Rates \union {StreamRate}]
  /\ locks \in [DOMAIN Unlocked -> Clients \union {None}]
  /\ queue \in Seq(Requests)
  /\ call \in [Clients -> Calls]
  /\ used \in [calls: Nat, edits: Nat, downs: Nat]
  /\ chosen \in Rates /\ outside \in BOOLEAN /\ untold \in BOOLEAN
  /\ adrift \in BOOLEAN /\ misnamed \in BOOLEAN /\ dropped \in BOOLEAN

\* A save changes its own section only: what other calls, the GUI or an
\* editor wrote before stays, unless another process replaced the file
\* between the read and the rename of this save (config.rs, CONFIG_WRITE_LOCK
\* and the toml_edit documents of the save_* functions).
Unchanged(file, s) ==
  /\ s.what # "vars" => disk'.vars = file.vars
  /\ s.what = "vars" =>
       \A l \in Layouts: l # s.value[1] => disk'.vars[l] = file.vars[l]
  /\ s.what # "layout" =>
       disk'.layout = file.layout /\ disk'.mode = file.mode
  /\ s.what # "image" => disk'.image = file.image
  /\ disk'.rate = file.rate /\ disk'.first = file.first

OthersEditsKept ==
  [][\A p \in Processes:
       (edit[p] # None /\ ~edit[p].raced /\ edit'[p] = None /\ disk' # disk)
         => Unchanged(disk, edit[p].save)]_vars

\* When no stream runs and no transition is in progress, the tick loop runs
\* at the rate last chosen for layouts, whatever streams were started and
\* stopped, at whatever rate, in between (pre_stream_tick_rate).
RateRestored ==
  (up /\ locks.mode = None /\ state.mode # Stream)
    => shown.rate = chosen /\ state.rate = chosen

\* Between transitions the reported mode is the one the display is in: no
\* call kills a stream that is still reported, and none leaves a stream
\* running behind a layout (set_layout_vars' check of the live mode).  A
\* daemon whose first [[displays]] entry has a mode of its own reports the
\* one of [display] instead, until the first change that is acknowledged.
ProgramReported ==
  (up /\ locks.mode = None /\ ~misnamed)
    => (shown.program = Capture <=> state.mode = Stream)

\* Between transitions, and unless another process wrote to the file since it
\* was loaded, the variables in the mirror are those of the file; and a
\* layout on the display shows them, unless the rebuild that would have shown
\* them was refused, or not asked for because the daemon takes the layout for
\* a stream.
VarsAgree ==
  (up /\ locks.mode = None) =>
    /\ outside \/ mirror.vars = disk.vars
    /\ untold \/ shown.program = Capture
       \/ shown.program.vars = mirror.vars[shown.program.layout]

\* Between background calls, the recorded background is the one the listener
\* installed last, in whatever order concurrent calls were acknowledged; and
\* config.toml names it, whether the change was accepted or refused, unless
\* another process wrote the file, the save that puts the prior image back
\* failed, or a reload in the middle of a change made the mirror, and with it
\* the prior image of the next change, differ from the file (bg_change_lock
\* keeps "their disk writes and channel sends" together, but reload does not
\* take it).  A daemon that could not use the image of the file when it
\* started shows none until the first change that is acknowledged.
BackgroundAgrees ==
  (up /\ locks.background = None) =>
    IF dropped THEN shown.background = None
    ELSE /\ shown.background = state.background
         /\ adrift \/ disk.image = shown.background

\* What the daemon says of its mode is so: what runs and how fast, whatever
\* streams were started, stopped, refused or replaced before.
ModeAgrees == ProgramReported /\ RateRestored

\* What the daemon remembers, what config.toml says and what the display shows
\* are the same settings, whatever was refused or failed halfway.
SettingsAgree == VarsAgree /\ BackgroundAgrees

\* Every call returns: no combination of calls waits for each other's locks
\* or acknowledgements for ever.
EveryCallReturns ==
  \A c \in Clients: call[c] # NoCall ~> call[c] = NoCall
=============================================================================
