----------------------------- MODULE ModeControl -----------------------------
(***************************************************************************)
(* What the mode listener (src/main.rs) promises to the D-Bus calls that   *)
(* send it a ModeChange and wait for the answer.  Each lock has one call   *)
(* at a time, and each call one answer.  A program that was accepted is    *)
(* the program from then on, and the one on the first display unless there *)
(* is no display; a refused one leaves the display as it was.  The display *)
(* goes over to a program that was asked for before the caller hears of    *)
(* it, never back, and to no other.                                        *)
(***************************************************************************)

CONSTANTS
    Programs,  \* layouts, and the commands of streams
    Images,    \* background images, or none
    None       \* no display

VARIABLES
    program,   \* what was accepted last
    image,
    calls,     \* what the caller under each lock waits for, if there is one
    display    \* the program on the first display

vars == <<program, image, calls, display>>

Locks == {"mode", "background"}
Values(l) == IF l = "mode" THEN Programs ELSE Images

Answered(l) == calls' = [calls EXCEPT ![l] = {}]

------------------------------------------------------------------------------
Init ==
    /\ program \in Programs /\ image \in Images
    /\ calls = [l \in Locks |-> {}]
    /\ display = None

Ask(l, value) ==
    /\ calls[l] = {}
    /\ calls' = [calls EXCEPT ![l] = {value}]
    /\ UNCHANGED <<program, image, display>>

\* The display shows the new program already.
AcceptProgram ==
    /\ program' \in calls["mode"] /\ Answered("mode")
    /\ display \in {None, program'}
    /\ UNCHANGED <<image, display>>

AcceptImage ==
    /\ image' \in calls["background"] /\ Answered("background")
    /\ UNCHANGED <<program, display>>

\* The display still shows the old program.
Refuse(l) ==
    /\ calls[l] # {} /\ Answered(l)
    /\ l = "mode" => display \in {None, program}
    /\ UNCHANGED <<program, image, display>>

\* Frames are taken from the first source of a new connection, from the source
\* of the call in progress, or from none any more.
Present ==
    /\ \/ display = None /\ display' = program
       \/ display = program /\ display' \in calls["mode"]
       \/ display # None /\ display' = None
    /\ UNCHANGED <<program, image, calls>>

Next ==
    \/ \E l \in Locks : Refuse(l) \/ \E value \in Values(l) : Ask(l, value)
    \/ AcceptProgram \/ AcceptImage \/ Present

Spec == Init /\ [][Next]_vars
==============================================================================
