---------------------------- MODULE FrameDelivery ----------------------------
(***************************************************************************)
(* What the displays show: the dirty-frame skip of the tick loop           *)
(* (src/service/tick.rs).  A display keeps its last frame by itself, so    *)
(* the loop remembers the fingerprint of what it sent and sends nothing    *)
(* while the fingerprint stays the same.  The model follows the            *)
(* fingerprints through changes of text, background and readings, failed   *)
(* frames, and connections lost halfway down the list of displays.         *)
(*                                                                         *)
(* A fingerprint is the content it stands for: layout text, background and *)
(* sensor readings.  Hash collisions are left out.  A background that is   *)
(* refused is rolled back before the frames of the iteration go out, so    *)
(* only accepted ones appear here.  DisplayPipeline says which sources are *)
(* installed when; here a change of source is a new text.                  *)
(***************************************************************************)
EXTENDS Integers

CONSTANTS
    DisplayCount, \* displays of the group
    Setups,       \* configurations: does one source serve every display
                  \* (mirror) or one each, and which displays a timeout leaves
                  \* connected (bulk)
    Texts,        \* layout texts
    Animated,     \* texts of animated layouts, and streams
    Images,       \* backgrounds, no background among them
    Readings,     \* sensor readings
    None,         \* no fingerprint
    Blank,        \* a display nothing was sent to
    MaxChanges,   \* bound: changes of content in a behaviour
    MaxFaults     \* bound: failures in a behaviour

Outputs == 1..DisplayCount   \* in the order they are sent to
Content == [text : Texts, bg : Images, readings : Readings]

ASSUME OutputAssumption ==
    /\ DisplayCount \in Nat \ {0}
    /\ Setups \subseteq [mirror : BOOLEAN, bulk : SUBSET Outputs]
ASSUME ContentAssumption ==
    /\ Animated \subseteq Texts
    /\ None \notin Content /\ Blank \notin Content
ASSUME BoundAssumption == MaxChanges \in Nat /\ MaxFaults \in Nat

VARIABLES
    setup,      \* the configuration, the same throughout
    phase,      \* of the iteration: "drain" the channels, then "send"
    connected,  \* is there an active connection
    text,       \* what each source renders
    bg,         \* cached_background
    readings,   \* cached_sensors
    refreshed,  \* sensors_refreshed, in this iteration
    pollDue,    \* sensor_poll_interval is over
    fp,         \* last_frame_fingerprints
    shown,      \* content on each display
    changes,    \* changes of content so far
    faults      \* failures so far

vars == <<setup, phase, connected, text, bg, readings, refreshed, pollDue, fp,
          shown, changes, faults>>

Mirror == setup.mirror
BulkOutputs == setup.bulk
Sources == IF Mirror THEN {1} ELSE Outputs

SourceOf(d) == IF Mirror THEN 1 ELSE d
Current(i) == [text |-> text[i], bg |-> bg, readings |-> readings]

NoFingerprints == [i \in Sources |-> None]

Init ==
    /\ setup \in Setups
    /\ phase = "drain"
    /\ connected \in BOOLEAN
    /\ text \in [Sources -> Texts]
    /\ bg \in Images /\ readings \in Readings
    /\ refreshed = FALSE /\ pollDue = TRUE
    /\ fp = NoFingerprints
    /\ shown = [d \in Outputs |-> Blank]
    /\ changes = 0 /\ faults = 0

------------------------------------------------------------------------------
(* Changes of content, while the channels are drained *)

Changes == changes < MaxChanges /\ changes' = changes + 1

\* A mode change replaces the first source; every fingerprint is forgotten.
ChangeMode(t) ==
    /\ phase = "drain" /\ connected /\ Changes
    /\ text' = [text EXCEPT ![1] = t]
    /\ fp' = NoFingerprints
    /\ UNCHANGED <<setup, phase, connected, bg, readings, refreshed, pollDue,
                   shown, faults>>

SetTemplate(t) ==
    /\ phase = "drain" /\ Changes
    /\ text' = [text EXCEPT ![1] = t]
    /\ fp' = [fp EXCEPT ![1] = None]
    /\ UNCHANGED <<setup, phase, connected, bg, readings, refreshed, pollDue,
                   shown, faults>>

SetBackground(image) ==
    /\ phase = "drain" /\ Changes
    /\ bg' = image
    /\ fp' = NoFingerprints
    /\ UNCHANGED <<setup, phase, connected, text, readings, refreshed,
                   pollDue, shown, faults>>

\* A new connection is committed with rebuilt sources.  Each display kept its
\* frame or lost it.
Reconnect ==
    /\ phase = "drain" /\ ~connected
    /\ connected' = TRUE
    /\ \E lost \in SUBSET Outputs :
         shown' = [d \in Outputs |-> IF d \in lost THEN Blank ELSE shown[d]]
    /\ fp' = NoFingerprints
    /\ UNCHANGED <<setup, phase, text, bg, readings, refreshed, pollDue,
                   changes, faults>>

------------------------------------------------------------------------------
(* Sensors *)

\* Faulty variant: the iteration does not know that it polled.
PollUnnoticed(values) ==
    /\ phase = "drain" /\ pollDue
    /\ phase' = "send"
    /\ IF values = readings THEN UNCHANGED changes ELSE Changes
    /\ readings' = values
    /\ pollDue' = FALSE
    /\ UNCHANGED <<setup, connected, text, bg, refreshed, fp, shown, faults>>

Poll(values) ==
    /\ phase = "drain" /\ pollDue
    /\ phase' = "send"
    /\ IF values = readings THEN UNCHANGED changes ELSE Changes
    /\ readings' = values
    /\ refreshed' = TRUE /\ pollDue' = FALSE
    /\ UNCHANGED <<setup, connected, text, bg, fp, shown, faults>>

KeepReadings ==
    /\ phase = "drain" /\ ~pollDue
    /\ phase' = "send"
    /\ refreshed' = FALSE
    /\ UNCHANGED <<setup, connected, text, bg, readings, pollDue, fp, shown,
                   changes, faults>>

PollFallsDue ==
    /\ ~pollDue
    /\ pollDue' = TRUE
    /\ UNCHANGED <<setup, phase, connected, text, bg, readings, refreshed,
                   fp, shown, changes, faults>>

------------------------------------------------------------------------------
(* Frames *)

LooksAgain(i) == refreshed \/ text[i] \in Animated \/ fp[i] = None

\* An animated source never has a fingerprint.
Fingerprint(i) ==
    IF LooksAgain(i) THEN IF text[i] \in Animated THEN None ELSE Current(i)
                     ELSE fp[i]

Skipped(i) == Fingerprint(i) # None /\ Fingerprint(i) = fp[i]

\* The displays before k got their frames, k and those after it did not.
ShownBefore(k) ==
    [d \in Outputs |-> IF d < k /\ ~Skipped(SourceOf(d)) THEN Current(SourceOf(d))
                                                         ELSE shown[d]]

RecordedBefore(k) == [i \in Sources |-> IF i < k THEN Fingerprint(i) ELSE fp[i]]
RecordedAll == [i \in Sources |-> Fingerprint(i)]

EndPass == phase = "send" /\ phase' = "drain"
Fault   == faults < MaxFaults /\ faults' = faults + 1

NothingToSend ==
    /\ EndPass /\ ~connected
    /\ UNCHANGED <<setup, connected, text, bg, readings, refreshed, pollDue,
                   fp, shown, changes, faults>>

SendAll ==
    /\ EndPass /\ connected
    /\ shown' = [d \in Outputs |-> IF Skipped(SourceOf(d)) THEN shown[d]
                                   ELSE Current(SourceOf(d))]
    /\ fp' = RecordedAll
    /\ UNCHANGED <<setup, connected, text, bg, readings, refreshed, pollDue,
                   changes, faults>>

\* Rendering source i fails: the pass is abandoned and nothing is recorded for
\* it.  Adapting and encoding cannot fail for one frame and not the next, they
\* depend on the canvas alone, and have no action.
RenderFails(i) ==
    /\ EndPass /\ connected /\ ~Skipped(i) /\ Fault
    /\ shown' = ShownBefore(i)
    /\ fp' = RecordedBefore(i)
    /\ UNCHANGED <<setup, connected, text, bg, readings, refreshed, pollDue,
                   changes>>

\* Faulty variant: every fingerprint is recorded after a timeout.
SendTimesOutRecorded(k) ==
    /\ EndPass /\ connected /\ ~Skipped(SourceOf(k)) /\ Fault
    /\ k \in BulkOutputs
    /\ shown' = ShownBefore(k)
    /\ fp' = RecordedAll
    /\ UNCHANGED <<setup, connected, text, bg, readings, refreshed, pollDue,
                   changes>>

\* A bulk display times out and stays connected; it keeps its last frame.  The
\* displays after it are not sent to.  In mirror mode the fingerprint is
\* recorded all the same.
SendTimesOut(k) ==
    /\ EndPass /\ connected /\ ~Skipped(SourceOf(k)) /\ Fault
    /\ k \in BulkOutputs
    /\ shown' = ShownBefore(k)
    /\ fp' = IF Mirror THEN RecordedAll ELSE RecordedBefore(k)
    /\ UNCHANGED <<setup, connected, text, bg, readings, refreshed, pollDue,
                   changes>>

\* The send closes the display: the whole group is dropped.
SendIsFatal(k) ==
    /\ EndPass /\ connected /\ ~Skipped(SourceOf(k)) /\ Fault
    /\ shown' = ShownBefore(k)
    /\ connected' = FALSE
    /\ fp' = NoFingerprints
    /\ UNCHANGED <<setup, text, bg, readings, refreshed, pollDue, changes>>

------------------------------------------------------------------------------

Change == \/ \E t \in Texts : ChangeMode(t) \/ SetTemplate(t)
          \/ \E image \in Images : SetBackground(image)

Iterate == \/ \E values \in Readings : Poll(values)
           \/ KeepReadings
           \/ NothingToSend \/ SendAll
           \/ \E i \in Sources : RenderFails(i)
           \/ \E k \in Outputs : SendTimesOut(k) \/ SendIsFatal(k)

Next == Change \/ Reconnect \/ Iterate \/ PollFallsDue

Spec == Init /\ [][Next]_vars

\* The loop keeps iterating, and time passes.  That a lost connection comes
\* back is not needed.
Fairness == WF_vars(Iterate) /\ WF_vars(PollFallsDue)
FairSpec == Spec /\ Fairness

------------------------------------------------------------------------------
(* Properties *)

TypeOK ==
    /\ setup \in Setups
    /\ phase \in {"drain", "send"}
    /\ connected \in BOOLEAN /\ refreshed \in BOOLEAN /\ pollDue \in BOOLEAN
    /\ text \in [Sources -> Texts]
    /\ bg \in Images /\ readings \in Readings
    /\ fp \in [Sources -> Content \cup {None}]
    /\ shown \in [Outputs -> Content \cup {Blank}]
    /\ changes \in Nat /\ faults \in Nat

\* A recorded fingerprint is what the display really shows: were it not, the
\* loop would skip the frame that display needs.
Truthful ==
    connected => \A d \in Outputs :
        fp[SourceOf(d)] # None => shown[d] = fp[SourceOf(d)]

\* No change of text or background leaves a fingerprint behind: it is drawn by
\* the next pass, without waiting for the sensors.
ChangesForgetFingerprints ==
    \A i \in Sources : fp[i] # None => fp[i].text = text[i] /\ fp[i].bg = bg

\* Once the content stops changing and failures cease, every connected display
\* shows its source.
DisplaysCatchUp ==
    <>[](connected => \A d \in Outputs : shown[d] = Current(SourceOf(d)))

==============================================================================
