--------------------------- MODULE DisplayPipeline ---------------------------
(***************************************************************************)
(* The daemon's display pipeline: the tick loop (src/service/tick.rs) that *)
(* owns the displays and the frame sources, and the mode listener          *)
(* (src/main.rs) that builds frame sources, owns the Xvfb process and      *)
(* serves the D-Bus mode changes.  The two run on different threads and    *)
(* share nothing but channels:                                             *)
(*                                                                         *)
(*   tick     -> listener  build requests (bounded mpsc), generation       *)
(*                         (watch, here `published')                       *)
(*   listener -> tick      build results and commits (bounded mpsc),       *)
(*                         source revisions, background applies (each with *)
(*                         an acknowledgement the listener waits for),     *)
(*                         template and background (watch)                 *)
(*   D-Bus    -> listener  mode changes (mpsc), one at a time under        *)
(*                         mode_change_lock and one under bg_change_lock   *)
(*                                                                         *)
(* One iteration of the tick loop is a walk through the phases of `tpc';   *)
(* the listener may run between any two of them.                           *)
(***************************************************************************)
EXTENDS Integers, Sequences, FiniteSets

CONSTANTS
    Layouts,          \* layout files, each with its variables
    Commands,         \* commands a stream can run (shell line or argv)
    Backgrounds,      \* decoded background images
    Dims,             \* oriented canvas sizes
    None,             \* no background, no stream command, no operation
    Seen,             \* a watch channel whose last value was read
    Internal,         \* the 480x480 canvas used while disconnected
    Kind,             \* renderer of a layout: "svg", "html" or "typed"
    Misfits,          \* image and canvas over the rasterisation budget
    SourceCount,      \* 1: single or mirror mode, > 1: [[displays]]
    SecondaryLayout,  \* layout of the outputs after the first
    InitialPrograms,  \* what the first source may run when the daemon starts
    CommandTracked,   \* is [display].mode "xvfb" (initial_xvfb_command)
    ChannelCap,       \* capacity of the mpsc channels
    MaxRequests,      \* bound: mode changes in a behaviour
    MaxFaults,        \* bound: failures and timeouts in a behaviour
    MaxGenerations    \* bound: connections negotiated in a behaviour

Programs == Layouts \cup Commands
Images   == Backgrounds \cup {None}

ASSUME ProgramAssumption ==
    /\ Layouts \cap Commands = {}
    /\ Kind \in [Layouts -> {"svg", "html", "typed"}]
    /\ SecondaryLayout \in Layouts
    /\ InitialPrograms \subseteq Programs
    /\ CommandTracked \in BOOLEAN
ASSUME MarkerAssumption ==
    /\ None \notin Programs \cup Backgrounds
    /\ Seen \notin Layouts \cup Images
    /\ Misfits \subseteq Backgrounds \X Dims
ASSUME CanvasAssumption ==
    /\ Internal \in Dims
    /\ SourceCount \in Nat \ {0}
ASSUME BoundAssumption ==
    /\ ChannelCap \in Nat \ {0}
    /\ MaxRequests \in Nat
    /\ MaxFaults \in Nat
    /\ MaxGenerations \in Nat

VARIABLES
    \* ---- tick loop
    tpc,         \* phase of the iteration
    generation,  \* number of the last negotiated connection
    tickRev,     \* source_revision of the tick loop
    pending,     \* connection whose sources are being rebuilt
    active,      \* connection that frames are sent to
    sources,     \* frame_sources
    cachedBg,    \* cached_background
    retry,       \* next_reconnect_at: "due" now or still "waiting"
    published,   \* generation watch, 0 while disconnected
    \* ---- mode listener
    lpc,         \* where the listener is
    lRev,        \* source_revision of the listener
    lProg,       \* active_mode with active_layout or the stream command
    lTracked,    \* active_xvfb_shell or active_xvfb_argv
    lDim,        \* current_display
    lBg,         \* current_background
    handle,      \* xvfb_handle: number of the Xvfb process, 0 when none
    nextProc,    \* number of the next Xvfb process
    op,          \* the mode change being applied
    ack,         \* last acknowledgement from the tick loop
    \* ---- channels
    buildQ,      \* source_build channel
    resultQ,     \* source_result channel
    modeQ,       \* mode change channel
    template,    \* template watch
    bgWatch,     \* background watch
    \* ---- environment
    waiting,     \* D-Bus calls waiting for an answer, by lock
    requests,    \* mode changes asked so far
    faults       \* failures so far

connVars     == <<generation, pending, active, retry, published>>
sourceVars   == <<tickRev, sources, cachedBg>>
tickVars     == <<tpc, connVars, sourceVars>>
syncVars     == <<lpc, op, ack>>
viewVars     == <<lRev, lProg, lTracked, lDim, lBg>>
procVars     == <<handle, nextProc>>
listenerVars == <<syncVars, viewVars, procVars>>
watches      == <<template, bgWatch>>
channelVars  == <<buildQ, resultQ, modeQ, watches>>
clientVars   == <<waiting, requests>>
vars == <<tickVars, listenerVars, channelVars, clientVars, faults>>

------------------------------------------------------------------------------
(* Data *)

Outputs  == 1..SourceCount
Canvases == [Outputs -> Dims]
Source   == [prog : Programs, text : Programs, dim : Dims, bg : Images,
             proc : Nat]
Conn     == [gen : Nat, dims : Canvases]
NoConn   == [gen |-> 0, dims |-> [i \in Outputs |-> Internal]]
Request  == [gen : Nat, dims : Canvases]
\* What the listener sends back: built sources, a failure, or the one source
\* of a mode change, which waits for its acknowledgement.
Result   == [gen : Nat, rev : Nat, ok : {TRUE}, commit : {FALSE},
             sources : [Outputs -> Source]]
              \cup [gen : Nat, rev : Nat, ok : {FALSE}, commit : {FALSE},
                    sources : {<<>>}]
              \cup [gen : Nat, rev : Nat, ok : {TRUE}, commit : {TRUE},
                    sources : [1..1 -> Source]]
ModeChange == [class : {"layout"}, prog : Layouts, image : {None}]
                \cup [class : {"stream"}, prog : Commands, image : {None}]
BackgroundChange == [class : {"background"}, prog : {None}, image : Images]
Change == ModeChange \cup BackgroundChange
ModeOp == [change : ModeChange, gen : Nat, src : Source]
BackgroundOp == [change : BackgroundChange, gen : {0}, src : {None}]
Locks    == {"mode", "background"}
LockOf(change) == IF change.class = "background" THEN "background" ELSE "mode"

TickPhases == {"startConnected", "startDisconnected", "revision", "result",
               "template", "bgApply", "bgWatch", "connect", "send", "stopped"}
ModePhases       == {"revision", "revisionDone", "commit", "commitDone"}
BackgroundPhases == {"background", "backgroundDone"}
ListenerPhases   == {"select"} \cup ModePhases \cup BackgroundPhases

\* Only the SVG renderer implements set_background, and only the text
\* renderers implement set_template: elsewhere both are no-ops.
TakesBackground(prog) == prog \in Layouts /\ Kind[prog] = "svg"
TakesTemplate(prog)   == prog \in Layouts /\ Kind[prog] # "typed"

\* Rasterising an image for a canvas may exceed the memory budget.
Fits(prog, dim, image) ==
    TakesBackground(prog) => <<image, dim>> \notin Misfits
Accepts(s, image) == Fits(s.prog, s.dim, image)
AllAccept(ss, image) == \A i \in DOMAIN ss : Accepts(ss[i], image)

SetBackground(s, image) ==
    IF TakesBackground(s.prog) THEN [s EXCEPT !.bg = image] ELSE s

\* Faulty variant: only the first source is told.
SetFirstBackground(ss, image) ==
    [i \in DOMAIN ss |-> IF i = 1 /\ Accepts(ss[1], image)
                         THEN SetBackground(ss[1], image) ELSE ss[i]]

\* set_background on every source, giving up at the first that refuses ...
SetBackgrounds(ss, image) ==
    [i \in DOMAIN ss |-> IF \A j \in 1..i : Accepts(ss[j], image)
                         THEN SetBackground(ss[i], image) ELSE ss[i]]

\* ... and with refusals ignored.
TrySetBackgrounds(ss, image) ==
    [i \in DOMAIN ss |-> IF Accepts(ss[i], image)
                         THEN SetBackground(ss[i], image) ELSE ss[i]]

\* A source as the mode handler builds it.
MakeSource(prog, dim, image, proc) ==
    SetBackground([prog |-> prog, text |-> prog, dim |-> dim, bg |-> None,
                   proc |-> IF prog \in Commands THEN proc ELSE 0], image)

ProgramOf(i, first) == IF i = 1 THEN first ELSE SecondaryLayout
MakeSources(first, dims, image, proc) ==
    [i \in Outputs |-> MakeSource(ProgramOf(i, first), dims[i], image, proc)]

Connected == active # NoConn

------------------------------------------------------------------------------
(* Initial states: main has built the first sources, for the displays it   *)
(* found or for the internal canvas when it found none.                    *)

\* A source per display, the first one for the configured mode; an image the
\* canvas refuses is left out without a word.
InitialSources(first, dims, image) ==
    TrySetBackgrounds(MakeSources(first, dims, None, 1), image)

\* The command of a stream is only known if [display] configures it.
InitiallyTracked(first) ==
    IF first \in Commands /\ CommandTracked THEN first ELSE None

Init ==
    /\ tpc \in {"startConnected", "startDisconnected"}
    /\ generation = 0 /\ tickRev = 0
    /\ pending = NoConn /\ active = NoConn
    /\ cachedBg \in Images
    /\ lProg \in InitialPrograms
    /\ \E dims \in Canvases :
         /\ tpc = "startDisconnected" => dims = NoConn.dims
         /\ sources = InitialSources(lProg, dims, cachedBg)
         /\ lDim = dims[1]
    /\ retry = "due"
    /\ published = 0
    /\ lpc = "select"
    /\ lRev = 0
    /\ lTracked = InitiallyTracked(lProg)
    /\ lBg = cachedBg
    /\ handle = IF lProg \in Commands THEN 1 ELSE 0
    /\ nextProc = 2
    /\ op = None
    /\ ack = FALSE
    /\ buildQ = <<>> /\ resultQ = <<>> /\ modeQ = <<>>
    /\ template = Seen /\ bgWatch = Seen
    /\ waiting = [l \in Locks |-> FALSE]
    /\ requests = 0 /\ faults = 0

------------------------------------------------------------------------------
(* Tick loop: startup *)

\* The daemon starts with its displays open: connection 1 is active at once.
StartConnected ==
    /\ tpc = "startConnected"
    /\ tpc' = "revision"
    /\ generation' = 1
    /\ active' = [gen |-> 1, dims |-> [i \in Outputs |-> sources[i].dim]]
    /\ published' = 1
    /\ sources' = IF cachedBg = None THEN sources
                  ELSE TrySetBackgrounds(sources, cachedBg)
    /\ UNCHANGED <<pending, retry, tickRev, cachedBg, listenerVars,
                   channelVars, clientVars, faults>>

StartDisconnected ==
    /\ tpc = "startDisconnected"
    /\ tpc' = "revision"
    /\ UNCHANGED <<connVars, sourceVars, listenerVars, channelVars,
                   clientVars, faults>>

(* Tick loop: one iteration, phase by phase *)

\* Faulty variant: a layout changed offline resets nothing.
ApplyRevisionNoReset ==
    /\ tpc = "revision" /\ lpc = "revision"
    /\ tickRev' = lRev + 1
    /\ pending' = NoConn
    /\ retry' = IF pending # NoConn THEN "due" ELSE retry
    /\ lpc' = "revisionDone" /\ ack' = TRUE
    /\ UNCHANGED <<tpc, generation, active, published, sources, cachedBg, op,
                   viewVars, procVars, channelVars, clientVars, faults>>

\* The listener's revision request: it closes a connection that waits for an
\* older build, and the active one too when the layout changed offline.  The
\* branch that refuses an older revision is left out: the listener is the only
\* sender and waits for each answer (RevisionsAgree).
ApplyRevision ==
    /\ tpc = "revision" /\ lpc = "revision" /\ lRev + 1 >= tickRev
    /\ tickRev' = lRev + 1
    /\ IF op.gen = 0
       THEN /\ pending' = NoConn /\ active' = NoConn
            /\ published' = 0 /\ retry' = "due"
       ELSE /\ pending' = NoConn
            /\ retry' = IF pending # NoConn THEN "due" ELSE retry
            /\ UNCHANGED <<active, published>>
    /\ lpc' = "revisionDone" /\ ack' = TRUE
    /\ UNCHANGED <<tpc, generation, sources, cachedBg, op, viewVars, procVars,
                   channelVars, clientVars, faults>>

RevisionsDrained ==
    /\ tpc = "revision" /\ lpc # "revision"
    /\ tpc' = "result"
    /\ UNCHANGED <<connVars, sourceVars, listenerVars, channelVars,
                   clientVars, faults>>

\* Faulty variant: a result is taken for whatever connection there is.
MatchesAnyGeneration(m, conn) == conn # NoConn

\* A build result carries the generation and the source revision it was
\* built for.  handle_source_result, by its early returns.
Matches(m, conn) == conn # NoConn /\ conn.gen = m.gen

\* Faulty variant: a result of the current revision is taken for an old one.
IsStaleOffByOne(m) == \/ m.rev <= tickRev
                      \/ ~Matches(m, pending) /\ ~Matches(m, active)

IsStale(m) == \/ m.rev < tickRev
              \/ ~Matches(m, pending) /\ ~Matches(m, active)

Answer(m, accepted) ==
    IF m.commit THEN lpc' = "commitDone" /\ ack' = accepted
                ELSE UNCHANGED <<lpc, ack>>

DropPending ==
    /\ pending' = NoConn /\ published' = 0 /\ retry' = "waiting"
KeepPending == UNCHANGED <<pending, published, retry>>

IgnoreStaleResult ==
    /\ tpc = "result" /\ resultQ # <<>>
    /\ LET m == Head(resultQ) IN IsStale(m) /\ Answer(m, FALSE)
    /\ resultQ' = Tail(resultQ)
    /\ UNCHANGED <<tickVars, op, viewVars, procVars, buildQ, modeQ, watches,
                   clientVars, faults>>

RejectFailedBuild ==
    /\ tpc = "result" /\ resultQ # <<>>
    /\ LET m == Head(resultQ) IN
         /\ ~IsStale(m) /\ ~m.ok
         /\ IF Matches(m, pending) THEN DropPending ELSE KeepPending
         /\ Answer(m, FALSE)
    /\ resultQ' = Tail(resultQ)
    /\ UNCHANGED <<tpc, generation, active, sourceVars, op, viewVars,
                   procVars, buildQ, modeQ, watches, clientVars, faults>>

\* The cached background does not fit a rebuilt source.
RejectBackgroundMisfit ==
    /\ tpc = "result" /\ resultQ # <<>>
    /\ LET m == Head(resultQ) IN
         /\ ~IsStale(m) /\ m.ok /\ ~AllAccept(m.sources, cachedBg)
         /\ IF Matches(m, pending) THEN DropPending ELSE KeepPending
         /\ Answer(m, FALSE)
    /\ resultQ' = Tail(resultQ)
    /\ UNCHANGED <<tpc, generation, active, sourceVars, op, viewVars,
                   procVars, buildQ, modeQ, watches, clientVars, faults>>

\* Faulty variant: a mode change reaches every output.
InstalledEverywhere(m) ==
    LET built == IF cachedBg = None THEN m.sources
                                    ELSE SetBackgrounds(m.sources, cachedBg)
    IN [i \in Outputs |-> IF i \in DOMAIN built THEN built[i] ELSE built[1]]

\* A mode change rebuilds only the first source of several.
Installed(m) ==
    LET built == IF cachedBg = None THEN m.sources
                                    ELSE SetBackgrounds(m.sources, cachedBg)
    IN IF ~Matches(m, pending) /\ Len(built) = 1 /\ Len(sources) > 1
       THEN [sources EXCEPT ![1] = built[1]]
       ELSE built

InstallResult ==
    /\ tpc = "result" /\ resultQ # <<>>
    /\ LET m == Head(resultQ) IN
         /\ ~IsStale(m) /\ m.ok /\ AllAccept(m.sources, cachedBg)
         /\ tickRev' = IF m.rev > tickRev THEN m.rev ELSE tickRev
         /\ sources' = Installed(m)
         /\ IF Matches(m, pending)
            THEN /\ active' = pending /\ pending' = NoConn
                 /\ published' = m.gen /\ retry' = "due"
            ELSE UNCHANGED <<active, pending, published, retry>>
         /\ Answer(m, TRUE)
    /\ resultQ' = Tail(resultQ)
    /\ UNCHANGED <<tpc, generation, cachedBg, op, viewVars, procVars, buildQ,
                   modeQ, watches, clientVars, faults>>

ResultsDrained ==
    /\ tpc = "result" /\ resultQ = <<>>
    /\ tpc' = "template"
    /\ UNCHANGED <<connVars, sourceVars, listenerVars, channelVars,
                   clientVars, faults>>

\* Template text goes to the first source, whatever layout built it.
ApplyTemplate ==
    /\ tpc = "template"
    /\ tpc' = "bgApply"
    /\ template' = Seen
    /\ sources' = IF template # Seen /\ TakesTemplate(sources[1].prog)
                  THEN [sources EXCEPT ![1].text = template]
                  ELSE sources
    /\ UNCHANGED <<connVars, tickRev, cachedBg, listenerVars, buildQ, resultQ,
                   modeQ, bgWatch, clientVars, faults>>

ApplyBackground ==
    /\ tpc = "bgApply" /\ lpc = "background"
    /\ AllAccept(sources, op.change.image)
    /\ sources' = SetBackgrounds(sources, op.change.image)
    /\ cachedBg' = op.change.image
    /\ lpc' = "backgroundDone" /\ ack' = TRUE
    /\ UNCHANGED <<tpc, connVars, tickRev, op, viewVars, procVars,
                   channelVars, clientVars, faults>>

\* A source refuses the image: the prior one goes back on every source.
RollBackBackground ==
    /\ tpc = "bgApply" /\ lpc = "background"
    /\ ~AllAccept(sources, op.change.image)
    /\ sources' = TrySetBackgrounds(SetBackgrounds(sources, op.change.image),
                                    cachedBg)
    /\ pending' = NoConn
    /\ retry' = IF pending # NoConn THEN "waiting" ELSE retry
    /\ lpc' = "backgroundDone" /\ ack' = FALSE
    /\ UNCHANGED <<tpc, generation, active, published, tickRev, cachedBg, op,
                   viewVars, procVars, channelVars, clientVars, faults>>

BackgroundsDrained ==
    /\ tpc = "bgApply" /\ lpc # "background"
    /\ tpc' = "bgWatch"
    /\ UNCHANGED <<connVars, sourceVars, listenerVars, channelVars,
                   clientVars, faults>>

WatchBackground ==
    /\ tpc = "bgWatch"
    /\ tpc' = "connect"
    /\ bgWatch' = Seen
    /\ IF bgWatch = Seen
       THEN UNCHANGED <<sources, cachedBg>>
       ELSE /\ sources' = SetBackgrounds(sources, bgWatch)
            /\ cachedBg' = IF AllAccept(sources, bgWatch) THEN bgWatch
                                                          ELSE cachedBg
    /\ UNCHANGED <<connVars, tickRev, listenerVars, buildQ, resultQ, modeQ,
                   template, clientVars, faults>>

(* Tick loop: pending timeout, discovery, send *)

\* More than five seconds without a build result.  The iteration goes on to
\* discovery, which is not due yet.
PendingTimesOut ==
    /\ tpc = "connect" /\ pending # NoConn /\ faults < MaxFaults
    /\ tpc' = "send"
    /\ pending' = NoConn /\ retry' = "waiting"
    /\ faults' = faults + 1
    /\ UNCHANGED <<generation, active, published, sourceVars, listenerVars,
                   channelVars, clientVars>>

Idle == active = NoConn /\ pending = NoConn

\* Bounds: no attempt is made past the last generation, and none against a
\* full request channel past the last fault.
AttemptsExhausted == \/ generation >= MaxGenerations
                     \/ faults >= MaxFaults /\ Len(buildQ) >= ChannelCap

SkipDiscovery ==
    /\ tpc = "connect"
    /\ Idle => retry = "waiting" \/ AttemptsExhausted
    /\ tpc' = "send"
    /\ UNCHANGED <<connVars, sourceVars, listenerVars, channelVars,
                   clientVars, faults>>

\* The displays are open and their canvases known: ask for their sources.
Negotiate(dims) ==
    /\ tpc = "connect" /\ Idle /\ retry = "due"
    /\ generation < MaxGenerations /\ Len(buildQ) < ChannelCap
    /\ generation' = generation + 1
    /\ buildQ' = Append(buildQ, [gen |-> generation', dims |-> dims])
    /\ pending' = [gen |-> generation', dims |-> dims]
    /\ tpc' = "send"
    /\ UNCHANGED <<active, retry, published, sourceVars, listenerVars,
                   resultQ, modeQ, watches, clientVars, faults>>

\* try_send finds the request channel full: the number is spent, the
\* displays are closed again.
RequestQueueFull ==
    /\ tpc = "connect" /\ Idle /\ retry = "due"
    /\ generation < MaxGenerations /\ Len(buildQ) >= ChannelCap
    /\ faults < MaxFaults /\ faults' = faults + 1
    /\ generation' = generation + 1
    /\ retry' = "waiting"
    /\ tpc' = "send"
    /\ UNCHANGED <<pending, active, published, sourceVars, listenerVars,
                   channelVars, clientVars>>

NoDisplayFound ==
    /\ tpc = "connect" /\ Idle /\ retry = "due" /\ faults < MaxFaults
    /\ retry' = "waiting"
    /\ faults' = faults + 1
    /\ tpc' = "send"
    /\ UNCHANGED <<generation, pending, active, published, sourceVars,
                   listenerVars, channelVars, clientVars>>

\* The frames themselves are the subject of FrameDelivery.
SendFrames ==
    /\ tpc = "send"
    /\ tpc' = "revision"
    /\ UNCHANGED <<connVars, sourceVars, listenerVars, channelVars,
                   clientVars, faults>>

SendIsFatal ==
    /\ tpc = "send" /\ Connected /\ faults < MaxFaults
    /\ tpc' = "revision"
    /\ active' = NoConn /\ pending' = NoConn
    /\ published' = 0 /\ retry' = "waiting"
    /\ faults' = faults + 1
    /\ UNCHANGED <<generation, sourceVars, listenerVars, channelVars,
                   clientVars>>

\* Shutdown is seen at the end of an iteration, and ends the process.
Stop ==
    /\ tpc = "send"
    /\ tpc' = "stopped"
    /\ active' = NoConn /\ pending' = NoConn
    /\ UNCHANGED <<generation, retry, published, sourceVars, listenerVars,
                   channelVars, clientVars, faults>>

\* The retry delay is over.
RetryFallsDue ==
    /\ tpc # "stopped" /\ retry = "waiting"
    /\ retry' = "due"
    /\ UNCHANGED <<tpc, generation, pending, active, published, sourceVars,
                   listenerVars, channelVars, clientVars, faults>>

------------------------------------------------------------------------------
(* Mode listener: rebuilds for a new connection *)

SendResult(m) == Len(resultQ) < ChannelCap /\ resultQ' = Append(resultQ, m)

\* Side effects of a successful build of the first source: the old stream is
\* killed as soon as its successor exists, the canvas becomes the current one.
FirstSourceBuilt(dims) ==
    /\ lDim' = dims[1]
    /\ IF lProg \in Commands
       THEN handle' = nextProc /\ nextProc' = nextProc + 1
       ELSE handle' = 0 /\ UNCHANGED nextProc

\* A stream whose command main never recorded cannot be started again, and a
\* layout is not built when the current background does not fit it.
CanBuildFirst(r) == /\ lProg \in Commands => lTracked # None
                    /\ Fits(lProg, r.dims[1], lBg)
CanBuildOthers(r) ==
    \A i \in Outputs \ {1} : Fits(SecondaryLayout, r.dims[i], lBg)

BuildSources ==
    /\ lpc = "select" /\ buildQ # <<>>
    /\ LET r == Head(buildQ) IN
         /\ CanBuildFirst(r) /\ CanBuildOthers(r)
         /\ SendResult([gen |-> r.gen, rev |-> lRev, ok |-> TRUE,
                        commit |-> FALSE,
                        sources |-> MakeSources(lProg, r.dims, lBg, nextProc)])
         /\ FirstSourceBuilt(r.dims)
    /\ buildQ' = Tail(buildQ)
    /\ UNCHANGED <<tickVars, syncVars, lRev, lProg, lTracked, lBg, modeQ,
                   watches, clientVars, faults>>

FailedBuild(r) == [gen |-> r.gen, rev |-> lRev, ok |-> FALSE,
                   commit |-> FALSE, sources |-> <<>>]

\* Any other build failure (a layout file gone bad, Xvfb) is a fault.
FailureOf(possible) ==
    IF possible THEN faults < MaxFaults /\ faults' = faults + 1
                ELSE UNCHANGED faults

FirstBuildFails ==
    /\ lpc = "select" /\ buildQ # <<>>
    /\ FailureOf(CanBuildFirst(Head(buildQ)))
    /\ SendResult(FailedBuild(Head(buildQ)))
    /\ buildQ' = Tail(buildQ)
    /\ UNCHANGED <<tickVars, listenerVars, modeQ, watches, clientVars>>

\* The first source was built, a later one was not: the side effects stay.
LaterBuildFails ==
    /\ lpc = "select" /\ buildQ # <<>>
    /\ SourceCount > 1 /\ CanBuildFirst(Head(buildQ))
    /\ FailureOf(CanBuildOthers(Head(buildQ)))
    /\ SendResult(FailedBuild(Head(buildQ)))
    /\ FirstSourceBuilt(Head(buildQ).dims)
    /\ buildQ' = Tail(buildQ)
    /\ UNCHANGED <<tickVars, syncVars, lRev, lProg, lTracked, lBg, modeQ,
                   watches, clientVars>>

(* Mode listener: mode changes.  `op' holds what the handler keeps across    *)
(* its awaits: the change, the generation it read and the source it built.   *)

Reply(lock) == waiting' = [waiting EXCEPT ![lock] = FALSE]

\* Faulty variant: the caller of a refused change hears nothing.
RefuseChangeSilently(change) ==
    /\ lpc' = "select" /\ op' = None
    /\ UNCHANGED waiting

\* Err before anything was done, or no ack from the tick loop: the source
\* and, for a stream, its new Xvfb process are dropped.
RefuseChange(change) ==
    /\ lpc' = "select" /\ op' = None
    /\ Reply(LockOf(change))

TakeLayout ==
    /\ lpc = "select" /\ modeQ # <<>>
    /\ LET change == Head(modeQ) IN
         /\ change.class = "layout" /\ Fits(change.prog, lDim, lBg)
         /\ op' = [change |-> change, gen |-> published,
                   src |-> MakeSource(change.prog, lDim, lBg, 0)]
    /\ lpc' = "revision"
    /\ modeQ' = Tail(modeQ)
    /\ UNCHANGED <<tickVars, ack, viewVars, procVars, buildQ, resultQ,
                   watches, clientVars, faults>>

TakeStream ==
    /\ lpc = "select" /\ modeQ # <<>> /\ published # 0
    /\ LET change == Head(modeQ) IN
         /\ change.class = "stream"
         /\ op' = [change |-> change, gen |-> published,
                   src |-> MakeSource(change.prog, lDim, lBg, nextProc)]
    /\ nextProc' = nextProc + 1
    /\ lpc' = "revision"
    /\ modeQ' = Tail(modeQ)
    /\ UNCHANGED <<tickVars, ack, viewVars, handle, buildQ, resultQ, watches,
                   clientVars, faults>>

\* The new source cannot be built, or a stream is asked for while
\* disconnected: nothing else changes.
RefuseModeChange ==
    /\ lpc = "select" /\ modeQ # <<>>
    /\ LET change == Head(modeQ) IN
         /\ change.class # "background"
         /\ FailureOf(IF change.class = "stream" THEN published # 0
                      ELSE Fits(change.prog, lDim, lBg))
         /\ RefuseChange(change)
    /\ modeQ' = Tail(modeQ)
    /\ UNCHANGED <<tickVars, ack, viewVars, procVars, buildQ, resultQ,
                   watches, requests>>

TakeBackground ==
    /\ lpc = "select" /\ modeQ # <<>>
    /\ Head(modeQ).class = "background"
    /\ op' = [change |-> Head(modeQ), gen |-> 0, src |-> None]
    /\ lpc' = "background"
    /\ modeQ' = Tail(modeQ)
    /\ UNCHANGED <<tickVars, ack, viewVars, procVars, buildQ, resultQ,
                   watches, clientVars, faults>>

\* Faulty variant: a stream is not recorded as the program.
AdoptLayoutOnly(change) ==
    /\ lProg' = IF change.class = "layout" THEN change.prog ELSE lProg
    /\ lTracked' = IF change.class = "stream" THEN change.prog ELSE None
    /\ template' = IF change.class = "layout" THEN change.prog ELSE template

\* The listener's view of the program after a mode change.
Adopt(change) ==
    /\ lProg' = change.prog
    /\ lTracked' = IF change.class = "stream" THEN change.prog ELSE None
    /\ template' = IF change.class = "layout" THEN change.prog ELSE template

\* While disconnected a layout is recorded for the next rebuild.
RecordOffline ==
    /\ lpc = "revisionDone" /\ ack /\ op.gen = 0
    /\ lRev' = lRev + 1
    /\ handle' = 0
    /\ Adopt(op.change)
    /\ lpc' = "select" /\ op' = None
    /\ Reply("mode")
    /\ UNCHANGED <<tickVars, ack, lDim, lBg, nextProc, buildQ, resultQ, modeQ,
                   bgWatch, requests, faults>>

SendCommit ==
    /\ lpc = "revisionDone" /\ ack /\ op.gen # 0
    /\ lRev' = lRev + 1
    /\ SendResult([gen |-> op.gen, rev |-> lRev', ok |-> TRUE, commit |-> TRUE,
                   sources |-> <<op.src>>])
    /\ lpc' = "commit"
    /\ UNCHANGED <<tickVars, op, ack, lProg, lTracked, lDim, lBg, procVars,
                   buildQ, modeQ, watches, clientVars, faults>>

CommitAccepted ==
    /\ lpc = "commitDone" /\ ack
    /\ handle' = op.src.proc
    /\ lDim' = op.src.dim
    /\ Adopt(op.change)
    /\ lpc' = "select" /\ op' = None
    /\ Reply("mode")
    /\ UNCHANGED <<tickVars, ack, lRev, lBg, nextProc, buildQ, resultQ, modeQ,
                   bgWatch, requests, faults>>

CommitRefused ==
    /\ lpc = "commitDone" /\ ~ack
    /\ RefuseChange(op.change)
    /\ UNCHANGED <<tickVars, ack, viewVars, procVars, channelVars, requests,
                   faults>>

BackgroundAccepted ==
    /\ lpc = "backgroundDone" /\ ack
    /\ lBg' = op.change.image
    /\ bgWatch' = op.change.image
    /\ lpc' = "select" /\ op' = None
    /\ Reply("background")
    /\ UNCHANGED <<tickVars, ack, lRev, lProg, lTracked, lDim, procVars,
                   buildQ, resultQ, modeQ, template, requests, faults>>

BackgroundRefused ==
    /\ lpc = "backgroundDone" /\ ~ack
    /\ RefuseChange(op.change)
    /\ UNCHANGED <<tickVars, ack, viewVars, procVars, channelVars, requests,
                   faults>>

------------------------------------------------------------------------------
(* D-Bus calls, one at a time under each lock *)

Ask(change) ==
    /\ requests < MaxRequests /\ ~waiting[LockOf(change)] /\ tpc # "stopped"
    /\ requests' = requests + 1
    /\ waiting' = [waiting EXCEPT ![LockOf(change)] = TRUE]
    /\ modeQ' = Append(modeQ, change)
    /\ UNCHANGED <<tickVars, listenerVars, buildQ, resultQ, watches, faults>>

TickStep ==
    \/ StartConnected \/ StartDisconnected
    \/ ApplyRevision \/ RevisionsDrained
    \/ IgnoreStaleResult \/ RejectFailedBuild \/ RejectBackgroundMisfit
    \/ InstallResult \/ ResultsDrained
    \/ ApplyTemplate
    \/ ApplyBackground \/ RollBackBackground \/ BackgroundsDrained
    \/ WatchBackground
    \/ PendingTimesOut \/ SkipDiscovery \/ (\E dims \in Canvases : Negotiate(dims))
    \/ RequestQueueFull \/ NoDisplayFound
    \/ SendFrames \/ SendIsFatal

ListenerStep ==
    /\ tpc # "stopped"
    /\ \/ BuildSources \/ FirstBuildFails \/ LaterBuildFails
       \/ TakeLayout \/ TakeStream \/ TakeBackground \/ RefuseModeChange
       \/ RecordOffline \/ SendCommit
       \/ CommitAccepted \/ CommitRefused
       \/ BackgroundAccepted \/ BackgroundRefused

\* After Stop the process is gone; the disjunct keeps TLC's deadlock check
\* meaningful everywhere else.
Gone == tpc = "stopped" /\ UNCHANGED vars

Next == \/ TickStep \/ RetryFallsDue \/ ListenerStep \/ Stop \/ Gone
        \/ \E change \in Change : Ask(change)

Spec == Init /\ [][Next]_vars

\* The tick loop sleeps between iterations and the listener awaits its
\* channels: both run again.  Time passes.
Fairness == WF_vars(TickStep) /\ WF_vars(ListenerStep) /\ WF_vars(RetryFallsDue)

FairSpec == Spec /\ Fairness

------------------------------------------------------------------------------
(* Properties *)

TickTypeOK ==
    /\ tpc \in TickPhases
    /\ generation \in Nat /\ tickRev \in Nat
    /\ pending \in Conn /\ active \in Conn
    /\ sources \in Seq(Source)
    /\ cachedBg \in Images
    /\ retry \in {"due", "waiting"}
    /\ published \in Nat

ListenerTypeOK ==
    /\ lpc \in ListenerPhases
    /\ lRev \in Nat
    /\ lProg \in Programs
    /\ lTracked \in Commands \cup {None}
    /\ lDim \in Dims
    /\ lBg \in Images
    /\ handle \in Nat /\ nextProc \in Nat
    /\ lpc = "select" => op = None
    /\ lpc \in BackgroundPhases => op \in BackgroundOp
    /\ lpc \in ModePhases => op \in ModeOp
    /\ ack \in BOOLEAN

ChannelTypeOK ==
    /\ buildQ \in Seq(Request) /\ resultQ \in Seq(Result)
    /\ modeQ \in Seq(Change)
    /\ template \in Layouts \cup {Seen}
    /\ bgWatch \in Images \cup {Seen}
    /\ waiting \in [Locks -> BOOLEAN]
    /\ requests \in Nat /\ faults \in Nat

\* Every variable has its type, and the operation in flight is of the kind that
\* the phase of the listener works on.
TypeOK == TickTypeOK /\ ListenerTypeOK /\ ChannelTypeOK

\* A connection is negotiated, then active: never two at once, and the
\* listener is told of exactly the active one (0 while disconnected).
ConnectionCoherent ==
    /\ ~(pending # NoConn /\ active # NoConn)
    /\ tpc # "stopped" => published = active.gen
    /\ pending # NoConn => pending.gen = generation
    /\ active # NoConn => active.gen = generation

\* There is one source per output: the tick loop indexes the sources by output,
\* and in independent mode stops sending when the counts differ.
SourcePerOutput == DOMAIN sources = Outputs

\* Frames go out only from sources built for the canvases of the connection
\* they go to: a build for an earlier connection never survives into a later
\* one.
DimensionCorrect ==
    Connected => \A i \in Outputs : sources[i].dim = active.dims[i]

\* While frames are sent from a stream, its Xvfb process is alive: the
\* listener holds its handle, or holds it as the commit in flight.
LiveStream ==
    Connected /\ sources[1].prog \in Commands =>
        sources[1].proc \in {handle} \cup
            (IF lpc \in {"commit", "commitDone"} THEN {op.src.proc} ELSE {})

\* Whatever order builds, commits, disconnects and reconnects come in, a display
\* is fed from sources that were built for it and still run.
SourcesServe == DimensionCorrect /\ LiveStream

\* Between mode changes the display shows the program the listener last
\* acknowledged, in the text it was built from.
AckedProgramShown ==
    Connected /\ lpc = "select" /\ template = Seen =>
        sources[1].prog = lProg /\ sources[1].text = lProg

\* Between mode changes every layout that can show a background shows the one
\* last acknowledged, whichever of the rebuild and the background came first.
\* An image over the budget of some canvas is accepted on others, and on
\* sources that show none: of those nothing is said.
BackgroundShown ==
    /\ Connected /\ lpc = "select" /\ bgWatch = Seen
    /\ lBg # None /\ (\A d \in Dims : <<lBg, d>> \notin Misfits)
    => \A i \in Outputs : TakesBackground(sources[i].prog) => sources[i].bg = lBg

\* A background that was cleared, and acknowledged as cleared, is not shown.
ClearedBackgroundGone ==
    Connected /\ lpc = "select" /\ bgWatch = Seen /\ lBg = None =>
        \A i \in Outputs : sources[i].bg = None

\* The listener counts a source revision once the tick loop has taken it, so
\* the tick loop never sees an older one.
RevisionsAgree ==
    tickRev = lRev + (IF lpc = "revisionDone" THEN 1 ELSE 0)

\* D-Bus layout and mode controls target the first output only: while a
\* connection is up, the others keep their program, canvas and text.
OtherOutputsUntouched ==
    [][active = active' /\ Connected =>
        \A i \in Outputs \ {1} :
            [sources'[i] EXCEPT !.bg = None] = [sources[i] EXCEPT !.bg = None]]_vars

\* The changes that wait for an answer under a lock: in the channel, or taken by
\* the listener.
Waiting(l) ==
    LET queued == {modeQ[i] : i \in DOMAIN modeQ}
        taken  == IF lpc = "select" THEN {} ELSE {op.change}
    IN {change \in queued \cup taken : LockOf(change) = l}

\* What they ask for, and what the first display shows.
ValueOf(change) == IF LockOf(change) = "mode" THEN change.prog ELSE change.image
Asked == [l \in Locks |-> {ValueOf(change) : change \in Waiting(l)}]

OnDisplay == IF Connected THEN sources[1].prog ELSE None

Control == INSTANCE ModeControl WITH
    program <- lProg, image <- lBg, calls <- Asked, display <- OnDisplay

\* Tick loop and listener together keep what the D-Bus calls rely on: one answer
\* to each, true of what the first display shows when it is given.
ImplementsControl == Control!Spec

\* Every D-Bus mode or background change is answered.
EveryCallAnswered ==
    \A l \in Locks : waiting[l] ~> (~waiting[l] \/ tpc = "stopped")

\* Once failures cease the display group comes back and stays.
Reconnects == <>[](Connected \/ tpc = "stopped")

==============================================================================
