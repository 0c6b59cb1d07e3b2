----------------------------- MODULE XvfbLaunch -----------------------------
(***************************************************************************)
(* Starting a program inside a virtual X server and ending both: start,    *)
(* start_argv and XvfbHandle of src/service/xvfb.rs, and the frame         *)
(* source mapped onto the server's screen file (src/render/xvfb.rs).       *)
(*                                                                         *)
(* The caller is blocked from Begin to the last step, so there is one      *)
(* launch at a time; the processes live on beside it.  The two functions   *)
(* differ only in how the program is named (a shell command or an argv).   *)
(***************************************************************************)
EXTENDS Naturals

CONSTANTS
  MaxTries,  \* DISPLAY_MAX_TRIES; candidate n stands for DISPLAY_BASE + n - 1
  Taken      \* candidates served by X servers of other programs

ASSUME TriesAssumption == MaxTries \in Nat \ {0}

ASSUME TakenAssumption == Taken \subseteq 1 .. MaxTries

VARIABLES
  launch,   \* the launch in progress: its step, and its display
  servers,  \* displays served by an Xvfb of the daemon
  orphans,  \* those of them whose Xvfb nobody can end any more
  running   \* displays whose program, started by the daemon, is alive

launchVars == <<launch, servers, orphans, running>>

NoLaunch == [at |-> "none", n |-> 0]

LaunchSteps ==
  {"bind", "screen", "program", "grace", "source", "ready", "failed"}

\* What the servers and programs become when the handle of display n is
\* dropped: both process groups get SIGTERM, then SIGKILL, and are reaped.
Ended(set, n) == set \ {n}

-----------------------------------------------------------------------------
(***************************************************************************)
(* Choosing a display                                                      *)
(***************************************************************************)

\* A launch begins with the first candidate and a new private directory.
Begun == [at |-> "bind", n |-> 1]

\* Xvfb exits at once and writes nothing: the directory is removed, and the
\* next candidate is tried.
BindTaken ==
  /\ launch.at = "bind"
  /\ launch.n \in Taken \cup servers
  /\ launch' = IF launch.n < MaxTries THEN [launch EXCEPT !.n = @ + 1]
                                      ELSE [at |-> "failed", n |-> 0]
  /\ UNCHANGED <<servers, orphans, running>>

\* The directory or the authority file cannot be written, there is no program
\* Xvfb, or it ends after writing what is no number.
BindFails ==
  /\ launch.at = "bind"
  /\ launch' = [at |-> "failed", n |-> 0]
  /\ UNCHANGED <<servers, orphans, running>>

\* Xvfb has the display, but what it reports cannot be read or is no number.
\* The error returns before there is a handle, and dropping a Child does not
\* kill it: the server keeps its display, in a process group of its own.
BindLost ==
  /\ launch.at = "bind"
  /\ launch.n \notin Taken \cup servers
  /\ launch' = [at |-> "failed", n |-> 0]
  /\ servers' = servers \cup {launch.n}
  /\ orphans' = orphans \cup {launch.n}
  /\ UNCHANGED running

\* Xvfb reports on -displayfd that it has the display.
Bind ==
  /\ launch.at = "bind"
  /\ launch.n \notin Taken \cup servers
  /\ launch' = [launch EXCEPT !.at = "screen"]
  /\ servers' = servers \cup {launch.n}
  /\ UNCHANGED <<orphans, running>>

-----------------------------------------------------------------------------
(***************************************************************************)
(* From the server to the program's first pictures.  From here on a        *)
(* failure drops the handle.                                               *)
(***************************************************************************)

Fail ==
  /\ launch' = [at |-> "failed", n |-> 0]
  /\ servers' = Ended(servers, launch.n)
  /\ running' = Ended(running, launch.n)
  /\ UNCHANGED orphans

\* The screen file is there within five seconds.
ScreenReady ==
  /\ launch.at = "screen"
  /\ launch' = [launch EXCEPT !.at = "program"]
  /\ UNCHANGED <<servers, orphans, running>>

\* Faulty variant: the handle is only built once the program has started.
ScreenTimesOut_NoHandle ==
  /\ launch.at = "screen"
  /\ launch' = [at |-> "failed", n |-> 0]
  /\ UNCHANGED <<servers, orphans, running>>

ScreenTimesOut == launch.at = "screen" /\ Fail

StartProgram ==
  /\ launch.at = "program"
  /\ launch' = [launch EXCEPT !.at = "grace"]
  /\ running' = running \cup {launch.n}
  /\ UNCHANGED <<servers, orphans>>

ProgramMissing == launch.at = "program" /\ Fail

\* After 150 ms the program is asked whether it is still alive.
ProgramAlive ==
  /\ launch.at = "grace" /\ launch.n \in running
  /\ launch' = [launch EXCEPT !.at = "source"]
  /\ UNCHANGED <<servers, orphans, running>>

ProgramDied == launch.at = "grace" /\ launch.n \notin running /\ Fail

\* The screen file is mapped and its header read: 32 bits per pixel, and the
\* size that was asked for.
SourceOpened ==
  /\ launch.at = "source"
  /\ launch' = [launch EXCEPT !.at = "ready"]
  /\ UNCHANGED <<servers, orphans, running>>

SourceRefused == launch.at = "source" /\ Fail

Launching ==
  \/ BindTaken \/ BindFails \/ BindLost \/ Bind
  \/ ScreenReady \/ ScreenTimesOut
  \/ StartProgram \/ ProgramMissing
  \/ ProgramAlive \/ ProgramDied
  \/ SourceOpened \/ SourceRefused

\* A program may end at any time.  Nothing looks at it after the grace period.
ProgramEnds ==
  /\ \E n \in running: running' = running \ {n}
  /\ UNCHANGED <<launch, servers, orphans>>

-----------------------------------------------------------------------------
LaunchInit ==
  /\ launch = NoLaunch
  /\ servers = {} /\ orphans = {} /\ running = {}

LaunchTypeOK ==
  /\ launch \in [at: LaunchSteps \cup {"none"}, n: 0 .. MaxTries]
  /\ servers \subseteq (1 .. MaxTries) \ Taken
  /\ orphans \subseteq servers
  /\ running \subseteq servers \ orphans
=============================================================================
