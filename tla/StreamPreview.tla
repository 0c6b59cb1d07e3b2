--------------------------- MODULE StreamPreview ---------------------------
(***************************************************************************)
(* A stream as its users see it: the daemon that launches programs and     *)
(* publishes the frames it sent as a file (src/main.rs,                    *)
(* src/service/tick.rs, frame_dump.rs and dbus.rs), the stream tab of      *)
(* the GUI that starts and stops streams and polls the file                *)
(* (gui/src/lib/StreamTab.svelte, gui/src-tauri/src/commands.rs),          *)
(* and the tray menu, which does so without the tab knowing                *)
(* (tray/src/main.rs).                                                     *)
(*                                                                         *)
(* The daemon's listener serves one request at a time; DisplayPipeline has *)
(* how it works with the tick loop on a reconnect, which is one step here. *)
(* A call and its answer are one step at the caller, and only the tab's    *)
(* reads of the file are answered late: a start takes longer than any      *)
(* answer, and a stop is answered before a later start is taken.           *)
(***************************************************************************)
EXTENDS XvfbLaunch

CONSTANTS
  MaxCalls,   \* bound: streams started and stopped by the tab and the tray
  MaxEnds     \* bound: disconnects, ends of the daemon and of the GUI

ASSUME StreamBounds == {MaxCalls, MaxEnds} \subseteq Nat

VARIABLES
  up,       \* the daemon runs
  link,     \* the connection to the displays: "down", "pending" or "up"
  request,  \* what the listener works on, for whom, and whether the
            \* connection it began with is still the current one
  handle,   \* xvfb_handle: the display, or 0
  source,   \* the tick loop's frame source: a display, or 0 for a layout
  mode,     \* active_mode, as also mirrored for get_status
  last,     \* last.jpg: "none", or written by "this" or an "earlier" daemon
  waiting,  \* calls not served yet: by whom, and what
  tab,      \* the stream tab
  reads,    \* its calls of read_frame: "none", "asked", "frame" or "gone"
  tray,     \* the tray: the next action, what it waits for, and what its menu
            \* shows of the daemon
  calls, events

daemonVars == <<up, link, request, handle, source, mode, last>>
guiVars    == <<tab, reads, tray>>
streamVars == <<launchVars, daemonVars, waiting, guiVars, calls, events>>

Users == {"tab", "tray"}
NoRequest == [op |-> "none", by |-> "none", same |-> TRUE]
Slots == 1 .. 2

Actions == {"open", "start", "layout", "return", "stop", "refresh"}
NoTray == [next |-> "none", at |-> "none", menu |-> "layout"]

NoTab ==
  [open |-> FALSE, streaming |-> FALSE, starting |-> FALSE, stopping |-> FALSE,
   attach |-> "none", polling |-> FALSE, inFlight |-> FALSE, visible |-> FALSE]

\* The GUI opens: the tab asks for the mode, to attach to a stream.
TabOpened ==
  [NoTab EXCEPT !.open = TRUE, !.visible = TRUE,
                !.attach = IF up /\ mode = "xvfb" THEN "xvfb" ELSE "none"]

-----------------------------------------------------------------------------
(***************************************************************************)
(* The daemon                                                              *)
(***************************************************************************)

\* Faulty variant: a layout shown in place of a stream leaves the frame.
Install_Kept(s) == source' = s /\ UNCHANGED last

\* A call of set_mode_argv or set_layout: it waits for mode_change_lock.
Ask(by, op) == waiting' = waiting \cup {[by |-> by, op |-> op]}

\* A new frame source; the published frame is removed if streaming ends.
Install(s) ==
  /\ source' = s
  /\ last' = IF source # 0 /\ s = 0 THEN "none" ELSE last

\* The answer reaches the caller.  In the tab, startStream goes on to set the
\* rate and starts to poll, whether or not the rate could be set; stopStream
\* ends polling.  The tray asks for the status.
Answered(by, op, ok) ==
  /\ tab' = IF by # "tab" THEN tab
            ELSE IF op = "start" THEN [tab EXCEPT !.starting = FALSE,
                                                  !.streaming = @ \/ ok,
                                                  !.polling = @ \/ ok]
            ELSE [tab EXCEPT !.stopping = FALSE,
                             !.streaming = @ /\ ~ok,
                             !.polling = @ /\ ~ok,
                             !.inFlight = @ /\ ~ok]
  /\ tray' = IF by = "tray" THEN [tray EXCEPT !.at = "status"] ELSE tray

\* The listener takes a call.  A stream is refused while disconnected.
TakeStart ==
  \E c \in waiting:
    /\ up /\ request.op = "none" /\ c.op = "start"
    /\ waiting' = waiting \ {c}
    /\ IF link = "up"
         THEN /\ request' = [op |-> "start", by |-> c.by, same |-> TRUE]
              /\ launch' = Begun
              /\ UNCHANGED <<tab, tray>>
         ELSE /\ Answered(c.by, "start", FALSE)
              /\ UNCHANGED <<request, launch>>
    /\ UNCHANGED <<servers, orphans, running, up, link, handle, source, mode,
                   last, reads, calls, events>>

\* The stream ends with the layout installed, or, while disconnected, with a
\* note of the layout for the next connection: the frame is then removed when
\* that connection is made.  It goes on if the layout cannot be built, or the
\* tick loop refuses it.
DropHandle ==
  /\ handle' = 0
  /\ servers' = IF handle = 0 THEN servers ELSE Ended(servers, handle)
  /\ running' = IF handle = 0 THEN running ELSE Ended(running, handle)

TakeLayout ==
  \E c \in waiting:
    /\ up /\ request.op = "none" /\ c.op = "stop"
    /\ waiting' = waiting \ {c}
    /\ \/ /\ link = "up" /\ Install(0)
          /\ DropHandle /\ mode' = "layout" /\ Answered(c.by, "stop", TRUE)
       \/ /\ link # "up" /\ UNCHANGED <<source, last>>
          /\ DropHandle /\ mode' = "layout" /\ Answered(c.by, "stop", TRUE)
       \/ /\ UNCHANGED <<source, last, handle, servers, running, mode>>
          /\ Answered(c.by, "stop", FALSE)
    /\ UNCHANGED <<launch, orphans, up, link, request, reads, calls, events>>

\* The launch succeeded: its source is installed unless the connection went
\* away meanwhile, and only then is the old program ended.
Replace(n) ==
  /\ handle' = n
  /\ servers' = IF handle = 0 THEN servers ELSE Ended(servers, handle)
  /\ running' = IF handle = 0 THEN running ELSE Ended(running, handle)

StartDone ==
  /\ request.op = "start" /\ launch.at = "ready"
  /\ IF request.same
       THEN /\ Install(launch.n) /\ Replace(launch.n) /\ mode' = "xvfb"
       ELSE /\ servers' = Ended(servers, launch.n)
            /\ running' = Ended(running, launch.n)
            /\ UNCHANGED <<source, last, handle, mode>>
  /\ Answered(request.by, "start", request.same)
  /\ request' = NoRequest /\ launch' = NoLaunch
  /\ UNCHANGED <<orphans, up, link, waiting, reads, calls, events>>

StartFailed ==
  /\ request.op = "start" /\ launch.at = "failed"
  /\ Answered(request.by, "start", FALSE)
  /\ request' = NoRequest /\ launch' = NoLaunch
  /\ UNCHANGED <<servers, orphans, running, up, link, handle, source, mode,
                 last, waiting, reads, calls, events>>

\* A display answers again: the listener is asked to build the sources anew,
\* which for a stream means to launch its program again.
Reconnect ==
  /\ up /\ link = "down"
  /\ link' = "pending"
  /\ UNCHANGED <<launchVars, up, request, handle, source, mode, last, waiting,
                 guiVars, calls, events>>

Rebuild ==
  /\ up /\ link = "pending" /\ request.op = "none"
  /\ IF mode = "xvfb"
       THEN /\ request' = [op |-> "rebuild", by |-> "none", same |-> TRUE]
            /\ launch' = Begun
            /\ UNCHANGED <<handle, servers, running, source, last, link>>
       ELSE /\ DropHandle /\ Install(0) /\ link' = "up"
            /\ UNCHANGED <<request, launch>>
  /\ UNCHANGED <<orphans, up, mode, waiting, guiVars, calls, events>>

\* The old program is ended as soon as the new one runs, even if its source
\* comes too late for the connection it was built for.
RebuildDone ==
  /\ request.op = "rebuild" /\ launch.at = "ready"
  /\ Replace(launch.n)
  /\ IF request.same THEN Install(launch.n) /\ link' = "up"
                     ELSE UNCHANGED <<source, last, link>>
  /\ request' = NoRequest /\ launch' = NoLaunch
  /\ UNCHANGED <<orphans, up, mode, waiting, guiVars, calls, events>>

RebuildFailed ==
  /\ request.op = "rebuild" /\ launch.at = "failed"
  /\ link' = IF request.same THEN "down" ELSE link
  /\ request' = NoRequest /\ launch' = NoLaunch
  /\ UNCHANGED <<servers, orphans, running, up, handle, source, mode, last,
                 waiting, guiVars, calls, events>>

\* The connection is lost: a source built for it comes too late.
Disconnect ==
  /\ up /\ link # "down" /\ events < MaxEnds
  /\ link' = "down" /\ events' = events + 1
  /\ request' = IF request.op = "none" THEN request
                                       ELSE [request EXCEPT !.same = FALSE]
  /\ UNCHANGED <<launchVars, up, handle, source, mode, last, waiting, guiVars,
                 calls>>

\* The tick loop renders the stream, sends it to every display and publishes
\* what it sent.  A tick whose send fails publishes nothing.
DumpFrame ==
  /\ up /\ link = "up" /\ source # 0
  /\ last' = "this"
  /\ UNCHANGED <<launchVars, up, link, request, handle, source, mode, waiting,
                 guiVars, calls, events>>

\* The daemon ends: the tick loop closes the displays, the handle is dropped
\* with the listener.  Callers get an error.  The frame is left behind, and so
\* is a server without a handle.
End ==
  /\ up /\ up' = FALSE /\ link' = "down"
  /\ launch' = NoLaunch /\ servers' = orphans /\ running' = {}
  /\ UNCHANGED orphans
  /\ handle' = 0 /\ source' = 0 /\ mode' = "layout"
  /\ last' = IF last = "none" THEN "none" ELSE "earlier"
  /\ request' = NoRequest /\ waiting' = {}
  /\ tab' = [tab EXCEPT !.starting = FALSE, !.stopping = FALSE]

Stop ==
  /\ events < MaxEnds /\ events' = events + 1
  /\ End
  /\ tray' = IF tray.at = "call" THEN [tray EXCEPT !.at = "status"] ELSE tray
  /\ UNCHANGED <<reads, calls>>

Start ==
  /\ ~up /\ up' = TRUE
  /\ link' \in {"up", "down"}
  /\ UNCHANGED <<launchVars, request, handle, source, mode, last, waiting,
                 guiVars, calls, events>>

-----------------------------------------------------------------------------
(***************************************************************************)
(* The tray: one process at a time, which handles one action after the     *)
(* other.  Its menu is as old as the last status it fetched.               *)
(***************************************************************************)

\* An entry that the menu has and that is not greyed out
Offered(a) ==
  CASE a \in {"open", "refresh"} -> TRUE
    [] a = "return" -> tray.menu = "xvfb"
    [] OTHER -> tray.menu # "offline"

\* ThermalTray::request; bound: one action waits in the channel.
Click(a) ==
  /\ calls < MaxCalls /\ Offered(a)
  /\ tray.next = "none" /\ tray' = [tray EXCEPT !.next = a]
  /\ calls' = calls + 1
  /\ UNCHANGED <<launchVars, daemonVars, waiting, tab, reads, events>>

Handles(a, at) ==
  /\ tray.next = a /\ tray.at = "none"
  /\ tray' = [tray EXCEPT !.next = "none", !.at = at]

\* open_gui: a GUI that runs gets the focus, otherwise one is launched.
TrayOpens ==
  /\ Handles("open", "none")
  /\ tab' = IF tab.open THEN tab ELSE TabOpened
  /\ UNCHANGED <<launchVars, daemonVars, waiting, reads, calls, events>>

TrayRefreshes ==
  /\ Handles("refresh", "status")
  /\ UNCHANGED <<launchVars, daemonVars, waiting, tab, reads, calls, events>>

\* StreamPreset and SetLayout; the menu may be of a daemon that has ended.
TrayCalls ==
  /\ \E a \in {"start", "layout"}:
       /\ Handles(a, IF up THEN "call" ELSE "status")
       /\ IF up THEN Ask("tray", IF a = "start" THEN "start" ELSE "stop")
                ELSE UNCHANGED waiting
  /\ UNCHANGED <<launchVars, daemonVars, tab, reads, calls, events>>

\* ReturnToLayout asks for the active layout, and only then for its display.
TrayAsks ==
  /\ Handles("return", IF up THEN "return" ELSE "status")
  /\ UNCHANGED <<launchVars, daemonVars, waiting, tab, reads, calls, events>>

TrayReturns ==
  /\ tray.at = "return"
  /\ tray' = [tray EXCEPT !.at = IF up THEN "call" ELSE "status"]
  /\ IF up THEN Ask("tray", "stop") ELSE UNCHANGED waiting
  /\ UNCHANGED <<launchVars, daemonVars, tab, reads, calls, events>>

TrayStops ==
  /\ Handles("stop", "status")
  /\ IF up THEN End
           ELSE UNCHANGED <<launchVars, daemonVars, waiting, tab>>
  /\ UNCHANGED <<reads, calls, events>>

\* fetch_status, at the end of every action
TrayStatus ==
  /\ tray.at = "status"
  /\ tray' = [tray EXCEPT !.at = "none",
                          !.menu = IF up THEN mode ELSE "offline"]
  /\ UNCHANGED <<launchVars, daemonVars, waiting, tab, reads, calls, events>>

-----------------------------------------------------------------------------
(***************************************************************************)
(* The stream tab                                                          *)
(***************************************************************************)

Open ==
  /\ ~tab.open /\ tab' = TabOpened
  /\ UNCHANGED <<launchVars, daemonVars, waiting, reads, tray, calls, events>>

Attach ==
  /\ tab.attach = "xvfb"
  /\ tab' = [tab EXCEPT !.attach = "none", !.streaming = TRUE,
                        !.polling = TRUE]
  /\ UNCHANGED <<launchVars, daemonVars, waiting, reads, tray, calls, events>>

\* The GUI is closed: what it asked for goes on in the daemon.
Close ==
  /\ tab.open /\ events < MaxEnds
  /\ events' = events + 1
  /\ tab' = NoTab
  /\ reads' = [s \in Slots |-> "none"]
  /\ waiting' = {IF c.by = "tab" THEN [c EXCEPT !.by = "none"] ELSE c:
                   c \in waiting}
  /\ request' = IF request.by = "tab" THEN [request EXCEPT !.by = "none"]
                                      ELSE request
  /\ UNCHANGED <<launchVars, up, link, handle, source, mode, last, tray,
                 calls>>

\* Another tab is selected, or this one again.
Select ==
  /\ tab.open
  /\ tab' = [tab EXCEPT !.visible = ~@]
  /\ UNCHANGED <<launchVars, daemonVars, waiting, reads, tray, calls, events>>

\* The commands apply_stream and stop_stream
Invoke(op) ==
  /\ up /\ calls < MaxCalls
  /\ Ask("tab", op)
  /\ calls' = calls + 1

\* The tools were found, and no start is on its way.
CanStart == tab.open /\ tab.attach = "none" /\ ~tab.streaming /\ ~tab.starting

StartStream ==
  /\ CanStart
  /\ Invoke("start")
  /\ tab' = [tab EXCEPT !.starting = TRUE]
  /\ UNCHANGED <<launchVars, daemonVars, reads, tray, events>>

\* The stop button is there while the tab shows a stream.
StopStream ==
  /\ tab.streaming /\ ~tab.stopping
  /\ Invoke("stop")
  /\ tab' = [tab EXCEPT !.stopping = TRUE]
  /\ UNCHANGED <<launchVars, daemonVars, reads, tray, events>>

\* pollFrame, three times a second
PollFrame ==
  /\ tab.polling /\ ~tab.inFlight /\ tab.visible
  /\ \E s \in Slots:
       /\ reads[s] = "none"
       /\ reads' = [reads EXCEPT ![s] = "asked"]
  /\ tab' = [tab EXCEPT !.inFlight = TRUE]
  /\ UNCHANGED <<launchVars, daemonVars, waiting, tray, calls, events>>

\* read_frame
ReadFrame(s) ==
  /\ reads[s] = "asked"
  /\ reads' = [reads EXCEPT ![s] = IF last = "none" THEN "gone" ELSE "frame"]
  /\ UNCHANGED <<launchVars, daemonVars, waiting, tab, tray, calls, events>>

\* Faulty variant: a read without an answer to paint leaves pollInFlight set.
FrameAnswered_Skipped(s) ==
  /\ reads[s] \in {"frame", "gone"}
  /\ tab' = [tab EXCEPT !.streaming = @ /\ reads[s] # "gone",
                        !.polling = @ /\ reads[s] # "gone"]
  /\ reads' = [reads EXCEPT ![s] = "none"]
  /\ UNCHANGED <<launchVars, daemonVars, waiting, tray, calls, events>>

\* The answer: a frame is painted, no frame ends the stream for the tab.
FrameAnswered(s) ==
  /\ reads[s] \in {"frame", "gone"}
  /\ tab' = [tab EXCEPT !.inFlight = FALSE,
                        !.streaming = @ /\ reads[s] # "gone",
                        !.polling = @ /\ reads[s] # "gone"]
  /\ reads' = [reads EXCEPT ![s] = "none"]
  /\ UNCHANGED <<launchVars, daemonVars, waiting, tray, calls, events>>

-----------------------------------------------------------------------------
StreamInit ==
  /\ LaunchInit
  /\ up = TRUE /\ link \in {"up", "down"}
  /\ request = NoRequest
  /\ handle = 0 /\ source = 0 /\ mode = "layout"
  /\ last \in {"none", "earlier"}
  /\ waiting = {}
  /\ tab = NoTab /\ tray = NoTray /\ reads = [s \in Slots |-> "none"]
  /\ calls = 0 /\ events = 0

\* Launching is the listener's, blocked until the launch has ended.
LaunchStep ==
  /\ up /\ Launching
  /\ UNCHANGED <<daemonVars, waiting, guiVars, calls, events>>

Exit ==
  /\ ProgramEnds
  /\ UNCHANGED <<daemonVars, waiting, guiVars, calls, events>>

StreamNext ==
  \/ LaunchStep \/ Exit
  \/ TakeStart \/ TakeLayout \/ StartDone \/ StartFailed
  \/ Reconnect \/ Rebuild \/ RebuildDone \/ RebuildFailed \/ Disconnect
  \/ DumpFrame \/ Stop \/ Start
  \/ \E a \in Actions: Click(a)
  \/ TrayOpens \/ TrayRefreshes \/ TrayCalls \/ TrayAsks \/ TrayReturns
  \/ TrayStops \/ TrayStatus
  \/ Open \/ Attach \/ Close \/ Select \/ StartStream \/ StopStream
  \/ PollFrame
  \/ \E s \in Slots: ReadFrame(s) \/ FrameAnswered(s)

\* The timer of the tab fires again and again, and its reads are answered.
Fairness ==
  /\ WF_streamVars(Attach) /\ WF_streamVars(PollFrame)
  /\ \A s \in Slots: /\ WF_streamVars(ReadFrame(s))
                     /\ WF_streamVars(FrameAnswered(s))

StreamSpec == StreamInit /\ [][StreamNext]_streamVars /\ Fairness

-----------------------------------------------------------------------------
StreamTypeOK ==
  /\ LaunchTypeOK
  /\ up \in BOOLEAN
  /\ link \in {"down", "pending", "up"}
  /\ request \in [op: {"none", "start", "rebuild"}, by: Users \cup {"none"},
                  same: BOOLEAN]
  /\ handle \in 0 .. MaxTries /\ source \in 0 .. MaxTries
  /\ mode \in {"layout", "xvfb"}
  /\ last \in {"none", "this", "earlier"}
  /\ waiting \subseteq [by: Users \cup {"none"}, op: {"start", "stop"}]
  /\ tab \in [open: BOOLEAN, streaming: BOOLEAN, starting: BOOLEAN,
              stopping: BOOLEAN, attach: {"none", "xvfb"}, polling: BOOLEAN,
              inFlight: BOOLEAN, visible: BOOLEAN]
  /\ tray \in [next: Actions \cup {"none"},
               at: {"none", "return", "call", "status"},
               menu: {"offline", "layout", "xvfb"}]
  /\ reads \in [Slots -> {"none", "asked", "frame", "gone"}]
  /\ calls \in 0 .. MaxCalls /\ events \in 0 .. MaxEnds

\* Displays whose processes somebody holds; a candidate has none yet.
Held == {handle, IF launch.at = "bind" THEN 0 ELSE launch.n} \ {0}

\* Every X server and every program the daemon has started and not ended is
\* held by its handle or by the launch in progress (XvfbHandle::drop and the
\* early returns of start_argv, xvfb.rs:160-178, 335-422), and the program the
\* displays are fed from is one of them: a stream that is replaced, refused or
\* stopped leaves no process behind.  The one exception are the servers whose
\* report could not be read (xvfb.rs:265-282): they have no program, feed no
\* display, and stay.
ProcessesOwned ==
  /\ Held \cap orphans = {}
  /\ servers = Held \cup orphans
  /\ running \subseteq Held
  /\ link = "up" /\ source # 0 => source \in Held

\* While the displays are connected and show a layout, there is no frame of a
\* stream of this daemon for others to read: frames may show what is private
\* (frame_dump.rs:66-72, tick.rs:713-731).  A stream that is stopped while no
\* display is connected leaves its frame until one is (main.rs:891-919): the
\* tick loop removes it when it installs the layout.
NoStaleFrame == link = "up" /\ source = 0 => last # "this"

\* A tab that shows LIVE after the frame is gone finds out as long as it is
\* visible, whatever polls and answers were on the way when its own or another
\* program's call ended the stream (StreamTab.svelte:173-209).
EndNoticed ==
  (tab.streaming /\ tab.attach = "none" /\ last = "none")
    ~> (~tab.streaming \/ last # "none" \/ ~tab.visible)
=============================================================================
