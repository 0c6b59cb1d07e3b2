----------------------- MODULE DeviceValidationProofs -----------------------
(***************************************************************************)
(* A run of validate-device, for all displays, buses and firmwares, every  *)
(* hint, every order of plugging and typing, and any length of the soak:   *)
(* no frame goes to a display that was not authorised, the daemon is given *)
(* back as it was found, and a full pass was earned.                       *)
(*                                                                         *)
(* The verdict is taken from the report alone, at the end, when the        *)
(* session is closed and the daemon is back.  So the invariant ties every  *)
(* check of the report that counts for the verdict to what happened when   *)
(* it was recorded, and carries that to the end: a card that passed was on *)
(* the one display the session was opened to, a soak that passed sent all  *)
(* its frames, a second display that was confirmed was there to look at, a *)
(* daemon that was restored is as the guard found it.                      *)
(***************************************************************************)
EXTENDS DeviceValidation, SequenceTheorems, TLAPS

\* Phases before the display was taken from the daemon, while it is held, and
\* while a session is open.
Before == {"preflight", "snapshot", "ownership", "acquire"}
Negotiating == {"select", "probe", "handshake"}
Streaming == {"cards", "soak", "replug", "rescan", "compare", "close"}
                \cup Prompts
Holding == Negotiating \cup Streaming \cup {"restore"}
Closing == {"restore", "finalize", "write", "done"}

Confirmable == Prompts \cup {"Soak"}

PassedCheck(f) == report.checks[f] = "Pass"

-----------------------------------------------------------------------------
(* The inductive invariant *)

\* Once a display was selected there is an address to look at.
Located == phase \in Phases \ {"preflight", "write", "done"}
             => selected \in Addresses

\* The unit and the guard: was_active is what the run found.
UnitTracked ==
    /\ phase \in Before => guard = "none" /\ unit = unitBefore
    /\ phase \in Holding <=> guard = "held"
    /\ guard = "held" => /\ unit = "inactive"
                         /\ wasActive <=> unitBefore = "active"
    /\ guard = "restored" => unit = unitBefore
    /\ PassedCheck("DaemonRestored") => guard = "restored"
    /\ Ended => phase = "done"

\* The display a session is open to gave the answer that authorises its route.
SessionAuthorized ==
    /\ session # NoSession => phase \in Streaming
    /\ phase \in Streaming =>
          /\ session.display \in Displays
          /\ firmware[session.display] = IF session.route = "HidReport"
                                         THEN "pm58" ELSE "pm128"
          /\ ShapeOf[session.display] # "bulk"

NothingShown ==
    /\ \A d \in Displays : shown[d] = {}
    /\ \A f \in Confirmable : ~PassedCheck(f)

\* Only this display was shown anything, and whatever card passed.
ShownTo(d) ==
    /\ firmware[d] \in {"pm58", "pm128"} /\ ShapeOf[d] # "bulk"
    /\ \A e \in Displays \ {d} : shown[e] = {}
    /\ \A c \in Cards : PassedCheck(c) => c \in shown[d]

CardsTracked ==
    /\ phase \in Before \cup Negotiating => NothingShown
    /\ phase \in Streaming => ShownTo(session.display)
    /\ phase \in Prompts /\ held => CardOf(phase) \in shown[session.display]
    /\ phase \in Closing => \/ NothingShown
                            \/ \E d \in Displays : ShownTo(d)

\* What was counted and who was there, when a check passed.
ChecksEarned ==
    /\ PassedCheck("Soak") => soaked = SoakFrames
    /\ PassedCheck("SecondDisplayUnchanged") => peers # {}
    /\ phase = "SecondDisplayUnchanged" => peers # {}

\* The result is set at the very end.
PassLast == Passing => phase \in {"write", "done"} /\ PassIsEarned

Inv == /\ TypeOK /\ Located /\ UnitTracked /\ SessionAuthorized
       /\ CardsTracked /\ ChecksEarned /\ PassLast
-----------------------------------------------------------------------------
(* What a setter does to a report: of the checks it changes none but those *)
(* given, and it does not make the run pass.                               *)

Updates(r, q, fields) ==
    /\ q \in Report
    /\ q.scope = r.scope
    /\ q.result = "Pass" => r.result = "Pass"
    /\ \A f \in CheckFields \ fields : q.checks[f] = r.checks[f]

LEMMA UpdatesTwice ==
  ASSUME NEW r, NEW q, NEW s, NEW F, NEW G,
         Updates(r, q, F), Updates(q, s, G)
  PROVE  Updates(r, s, F \cup G)
BY DEF Updates

\* A check is recorded, unless the report has its result.
LEMMA CheckUpdates ==
  ASSUME NEW r \in Report, NEW f \in CheckFields, NEW status \in Statuses
  PROVE  /\ Updates(r, RecordCheck(r, f, status), {f})
         /\ RecordCheck(r, f, status).checks[f] \in {status, r.checks[f]}
<1> DEFINE checks == [r.checks EXCEPT ![f] = status]
           q == [r EXCEPT !.checks = checks]
<1>1. checks \in [CheckFields -> Statuses]
  BY DEF Report
<1>2. [r EXCEPT !.checks[f] = status] = q
  BY DEF Report
<1>3. \A g \in CheckFields \ {f} : checks[g] = r.checks[g]
  BY DEF Report
<1>4. checks[f] = status
  BY DEF Report
<1> HIDE DEF checks
<1>5. q \in Report
  BY <1>1 DEF Report
<1>6. q.scope = r.scope /\ q.result = r.result /\ q.checks = checks
  BY DEF Report
<1> HIDE DEF q
<1>7. Updates(r, q, {f})
  BY <1>3, <1>5, <1>6 DEF Updates
<1>8. Updates(r, r, {f})
  BY DEF Updates
<1> QED
  BY <1>2, <1>4, <1>6, <1>7, <1>8 DEF RecordCheck

LEMMA ChecksUpdate ==
  ASSUME NEW r \in Report, NEW F, NEW status \in Statuses
  PROVE  /\ Updates(r, RecordChecks(r, F, status), F)
         /\ \A f \in F \cap CheckFields :
               RecordChecks(r, F, status).checks[f] \in {status, r.checks[f]}
<1> DEFINE checks == [f \in CheckFields |-> IF f \in F THEN status
                                            ELSE r.checks[f]]
           q == [r EXCEPT !.checks = checks]
<1>1. checks \in [CheckFields -> Statuses]
  BY DEF Report
<1>2. RecordChecks(r, F, status) = IF Final(r) THEN r ELSE q
  BY DEF Report, RecordChecks
<1>3. \A g \in CheckFields \ F : checks[g] = r.checks[g]
  OBVIOUS
<1>4. \A f \in F \cap CheckFields : checks[f] = status
  OBVIOUS
<1> HIDE DEF checks
<1>5. q \in Report
  BY <1>1 DEF Report
<1>6. q.scope = r.scope /\ q.result = r.result /\ q.checks = checks
  BY DEF Report
<1> HIDE DEF q
<1>7. Updates(r, q, F)
  BY <1>3, <1>5, <1>6 DEF Updates
<1>8. Updates(r, r, F)
  BY DEF Updates
<1> QED
  BY <1>2, <1>4, <1>6, <1>7, <1>8

\* The setters of what was read and negotiated touch no check.
LEMMA FingerprintUpdates ==
  ASSUME NEW r \in Report, NEW shape \in Shapes, NEW seen \in BOOLEAN
  PROVE  Updates(r, SetFingerprint(r, shape, seen), {})
<1> DEFINE q == [r EXCEPT !.shape = shape, !.correlated = seen]
<1>1. q \in Report
  BY DEF Report
<1>2. q.scope = r.scope /\ q.result = r.result /\ q.checks = r.checks
  BY DEF Report
<1> HIDE DEF q
<1> QED
  BY <1>1, <1>2 DEF SetFingerprint, q, Updates

LEMMA PolicyUpdates ==
  ASSUME NEW r \in Report, NEW policy \in Policies
  PROVE  Updates(r, SetPolicy(r, policy), {})
BY DEF Updates, SetPolicy, Report

\* What is known of the hidraw session is a part of the report.
Evidence == [backend : BOOLEAN, read : {0, 4, 8, 36, 64}, failed : BOOLEAN,
             authorized : BOOLEAN, wrote : BOOLEAN]

LEMMA HidUpdates ==
  ASSUME NEW r \in Report, NEW hid \in Evidence
  PROVE  Updates(r, [r EXCEPT !.hid = hid], {})
<1> DEFINE q == [r EXCEPT !.hid = hid]
<1>1. q \in Report
  BY DEF Report, Evidence
<1>2. q.scope = r.scope /\ q.result = r.result /\ q.checks = r.checks
  BY DEF Report
<1> HIDE DEF q
<1> QED
  BY <1>1, <1>2 DEF q, Updates

LEMMA BackendUpdates ==
  ASSUME NEW r \in Report
  PROVE  Updates(r, SetBackend(r), {})
<1> DEFINE hid == [r.hid EXCEPT !.backend = TRUE]
<1>1. hid \in Evidence
  BY DEF Report, Evidence
<1>2. [r EXCEPT !.hid.backend = TRUE] = [r EXCEPT !.hid = hid]
  BY DEF Report
<1> HIDE DEF hid
<1>3. Updates(r, r, {})
  BY DEF Updates
<1> QED
  BY <1>1, <1>2, <1>3, HidUpdates DEF SetBackend

LEMMA ReadUpdates ==
  ASSUME NEW r \in Report, NEW kind \in ReadKinds
  PROVE  Updates(r, RecordRead(r, kind), {})
BY DEF Updates, RecordRead, Report, ReadKinds, Lengths

LEMMA ReadFailureUpdates ==
  ASSUME NEW r \in Report, NEW safe \in BOOLEAN
  PROVE  Updates(r, RecordReadFailure(r, safe), {})
<1> DEFINE hid == [r.hid EXCEPT !.failed = TRUE]
           p == [r EXCEPT !.hid = hid]
           redacted == r.redacted \/ ~safe
           q == [p EXCEPT !.redacted = redacted]
<1>1. hid \in Evidence
  BY DEF Report, Evidence
<1>2. [r EXCEPT !.hid.failed = TRUE, !.redacted = @ \/ ~safe] = q
  BY DEF Report
<1>3. redacted \in BOOLEAN
  OBVIOUS
<1> HIDE DEF hid, redacted
<1>4. Updates(r, p, {})
  BY <1>1, HidUpdates
<1>5. p \in Report
  BY <1>4 DEF Updates
<1> HIDE DEF p
<1>6. q \in Report
  BY <1>3, <1>5 DEF Report
<1>7. q.scope = p.scope /\ q.result = p.result /\ q.checks = p.checks
  BY <1>5 DEF Report
<1> HIDE DEF q
<1>8. Updates(r, q, {}) /\ Updates(r, r, {})
  BY <1>4, <1>6, <1>7 DEF Updates
<1> QED
  BY <1>2, <1>8 DEF RecordReadFailure

LEMMA EvidenceUpdates ==
  ASSUME NEW r \in Report
  PROVE  Updates(r, RecordWriteEvidence(r), {})
<1> DEFINE hid == [r.hid EXCEPT !.authorized = TRUE, !.wrote = TRUE]
<1>1. hid \in Evidence
  BY DEF Report, Evidence
<1>2. [r EXCEPT !.hid.authorized = TRUE, !.hid.wrote = TRUE]
        = [r EXCEPT !.hid = hid]
  BY DEF Report
<1> HIDE DEF hid
<1>3. Updates(r, r, {})
  BY DEF Updates
<1> QED
  BY <1>1, <1>2, <1>3, HidUpdates DEF RecordWriteEvidence

LEMMA ProfileUpdates ==
  ASSUME NEW r \in Report, NEW kind \in {"pm58", "pm128", "pm68", "known"}
  PROVE  Updates(r, RecordProfile(r, kind), {})
BY DEF Updates, RecordProfile, Report, Observation, Labels, Routes, Lengths,
       ReadKinds

LEMMA TerminalUpdates ==
  ASSUME NEW r \in Report, NEW stage \in Stages
  PROVE  /\ Updates(r, FailAt(r, stage), {})
         /\ Updates(r, AbortAt(r, stage), {})
<1>1. ASSUME NEW result \in {"Fail", "Aborted"}
      PROVE  Updates(r, RecordTerminal(r, result, stage), {})
  <2> DEFINE q == [r EXCEPT !.result = result, !.failedStep = stage]
  <2>1. q \in Report
    BY DEF Report, Results
  <2>2. q.scope = r.scope /\ q.result = result /\ q.checks = r.checks
    BY DEF Report
  <2> HIDE DEF q
  <2>3. Updates(r, q, {}) /\ Updates(r, r, {})
    BY <2>1, <2>2 DEF Updates
  <2> QED
    BY <2>3 DEF RecordTerminal, q
<1> QED
  BY <1>1 DEF FailAt, AbortAt

-----------------------------------------------------------------------------
(* Steps that fail, and steps that leave the tracked checks alone *)

\* The checks the verdict rests on beyond what the report holds itself.
Counted == Confirmable \cup {"DaemonRestored"}

LEMMA CountedFields ==
    Counted \subseteq CheckFields /\ Prompts \subseteq Stages
BY DEF Counted, Confirmable, Prompts, Cards, CheckFields, Stages

LEMMA Uncounted ==
  ASSUME NEW F, TypeOK, Updates(report, report', F), F \cap Counted = {}
  PROVE  /\ report' \in Report
         /\ \A f \in Counted : PassedCheck(f)' <=> PassedCheck(f)
         /\ Passing' => Passing
BY CountedFields DEF Updates, PassedCheck, Passing

\* While the run goes on nothing has passed.
LEMMA NotPassedYet ==
  ASSUME Inv, phase \notin {"write", "done"}, Passing' => Passing
  PROVE  PassLast'
BY DEF Inv, PassLast

-----------------------------------------------------------------------------
(* The world around the tool *)

LEMMA UnplugStep ==
  ASSUME Inv, NEW a \in Addresses, Unplug(a)
  PROVE  Inv'
<1> DEFINE off == [session EXCEPT !.attached = FALSE]
<1>1. /\ off \in Sessions
      /\ off.display = session.display /\ off.route = session.route
  BY DEF Inv, TypeOK, Sessions
<1>2. session = NoSession => session.display # bus[a]
  BY DEF Unplug, NoSession
<1>3. session' = off \/ session' = session
  BY DEF Unplug
<1>4. session = NoSession => session' = NoSession
  BY <1>2 DEF Unplug
<1> HIDE DEF off
<1>5. /\ session'.display = session.display
      /\ session'.route = session.route
      /\ session' \in Sessions
  BY <1>1, <1>3 DEF Inv, TypeOK
<1>6. TypeOK'
  BY <1>5, ValidationBounds DEF Inv, TypeOK, Unplug
<1>7. phase \notin {"write", "done"} /\ (Passing' => Passing)
  BY DEF Unplug, PlugPhases, Passing
<1>8. PassLast'
  BY <1>7, NotPassedYet
<1>9. Located' /\ UnitTracked' /\ ChecksEarned'
  BY DEF Inv, Unplug, Located, UnitTracked, ChecksEarned, Ended, PassedCheck
<1>10. SessionAuthorized'
  BY <1>4, <1>5 DEF Inv, Unplug, SessionAuthorized
<1>11. CardsTracked'
  BY <1>5 DEF Inv, Unplug, CardsTracked, NothingShown, ShownTo, PassedCheck,
              CardOf
<1> QED
  BY <1>6, <1>8, <1>9, <1>10, <1>11 DEF Inv

\* What else may happen out there does not reach the tool's own state.
LEMMA ElsewhereStep ==
  ASSUME Inv, UNCHANGED <<tool, firmware, unit, unitBefore>>, TypeOK'
  PROVE  Inv'
<1>1. Located' /\ UnitTracked' /\ ChecksEarned' /\ SessionAuthorized'
  BY DEF Inv, tool, Located, UnitTracked, ChecksEarned, Ended, PassedCheck,
         SessionAuthorized
<1>2. CardsTracked'
  BY DEF Inv, tool, CardsTracked, NothingShown, ShownTo, PassedCheck, CardOf
<1>3. PassLast'
  BY DEF Inv, tool, PassLast, Passing, PassIsEarned
<1> QED
  BY <1>1, <1>2, <1>3 DEF Inv

LEMMA PlugStep ==
  ASSUME Inv, NEW d \in Displays, NEW a \in Addresses, Plug(d, a)
  PROVE  Inv'
<1>1. TypeOK'
  BY ValidationBounds DEF Inv, TypeOK, Plug, tool
<1> QED
  BY <1>1, ElsewhereStep DEF Plug

LEMMA TypeStep ==
  ASSUME Inv, NEW answer \in BOOLEAN, Type(answer)
  PROVE  Inv'
<1>1. lines' \in Seq(BOOLEAN) /\ Len(lines') <= MaxAhead
  BY ValidationBounds DEF Inv, TypeOK, Type
<1>2. TypeOK'
  BY <1>1 DEF Inv, TypeOK, Type, tool
<1> QED
  BY <1>2, ElsewhereStep DEF Type

LEMMA CloseStdinStep ==
  ASSUME Inv, CloseStdin
  PROVE  Inv'
<1>1. stdinOpen' \in BOOLEAN
  BY DEF CloseStdin
<1>2. TypeOK'
  BY <1>1 DEF Inv, TypeOK, CloseStdin, tool
<1> QED
  BY <1>2, ElsewhereStep DEF CloseStdin

LEMMA StutterStep ==
  ASSUME Inv, UNCHANGED vars
  PROVE  Inv'
<1>1. TypeOK'
  BY DEF Inv, TypeOK, vars, tool, world
<1> QED
  BY <1>1, ElsewhereStep DEF vars, world

-----------------------------------------------------------------------------
(* Before the display is taken *)

LEMMA PassedReport ==
  ASSUME NEW r \in Report
  PROVE  /\ Passed(r) \in Report
         /\ Passed(r).scope = r.scope
         /\ Passed(r).result = "Pass"
         /\ Passed(r).checks = r.checks
BY DEF Passed, Report, Results

\* A passive run notes the checks it does not make as not applicable.
LEMMA IdentifiedUpdates ==
  ASSUME report \in Report, NEW shape \in Shapes, NEW policy \in Policies
  PROVE  /\ Updates(report, Identified(shape, policy), CheckFields)
         /\ \A f \in Counted : Identified(shape, policy).checks[f]
                                 \in {report.checks[f], "NotApplicable"}
<1> DEFINE printed == SetFingerprint(report, shape, shape # "bulk")
           bound == SetPolicy(printed, policy)
           listed == RecordCheck(bound, "Enumerated", "Pass")
           seen == RecordChecks(listed, {"PassiveAllowlist"},
                     IF policy # "StopUnsupportedShape" THEN "Pass"
                                                        ELSE "Fail")
           rest == CheckFields \ MandatoryPassive
           alone == RecordChecks(seen, rest, "NotApplicable")
<1>1. Updates(report, printed, {})
  BY FingerprintUpdates
<1>2. Updates(printed, bound, {})
  BY <1>1, PolicyUpdates DEF Updates
<1>3. Updates(bound, listed, {"Enumerated"})
  <2>1. "Enumerated" \in CheckFields /\ "Pass" \in Statuses
    BY DEF CheckFields, Statuses
  <2> QED
    BY <1>2, <2>1, CheckUpdates DEF Updates
<1>4. Updates(listed, seen, {"PassiveAllowlist"})
  <2>1. {"Pass", "Fail"} \subseteq Statuses
    BY DEF Statuses
  <2> QED
    BY <1>3, <2>1, ChecksUpdate DEF Updates
<1>5. /\ Updates(seen, alone, rest)
      /\ \A f \in rest : alone.checks[f] \in {"NotApplicable", seen.checks[f]}
  <2>1. "NotApplicable" \in Statuses
    BY DEF Statuses
  <2> QED
    BY <1>4, <2>1, ChecksUpdate DEF Updates
<1>6. Counted \subseteq rest
  BY DEF Counted, Confirmable, Prompts, Cards, CheckFields, MandatoryPassive
<1>7. /\ Identified(shape, policy) \in {seen, alone}
      /\ MandatoryPassive = {"Enumerated", "PassiveAllowlist"}
  BY DEF Identified, MandatoryPassive
<1> HIDE DEF printed, bound, listed, seen, alone
<1>8. /\ Updates(report, seen, CheckFields)
      /\ \A f \in Counted : seen.checks[f] = report.checks[f]
  BY <1>1, <1>2, <1>3, <1>4, <1>6, <1>7 DEF Updates
<1>9. /\ Updates(report, alone, CheckFields)
      /\ \A f \in Counted : alone.checks[f]
                              \in {"NotApplicable", report.checks[f]}
  BY <1>5, <1>6, <1>8 DEF Updates
<1> QED
  BY <1>7, <1>8, <1>9

\* What a preflight may make of the report: it passes no full run.
Preflighted ==
    /\ report' \in Report
    /\ Passing' => Passing
    /\ \A f \in Counted : PassedCheck(f)' => PassedCheck(f)

LEMMA PreflightFailure ==
  ASSUME Inv, NEW stage \in Stages, NEW a, PreflightFails(stage, a)
  PROVE  Preflighted
<1>1. Updates(report, report', {})
  BY TerminalUpdates DEF Inv, TypeOK, PreflightFails
<1> QED
  BY <1>1, Uncounted DEF Inv, Preflighted

LEMMA PreflightConclusion ==
  ASSUME Inv, NEW shape \in Shapes, NEW policy \in Policies, NEW allowed,
         Concluded(Identified(shape, policy), allowed)
  PROVE  Preflighted
<1> DEFINE noted == Identified(shape, policy)
<1>1. /\ Updates(report, noted, CheckFields)
      /\ \A f \in Counted : noted.checks[f]
                              \in {report.checks[f], "NotApplicable"}
  BY IdentifiedUpdates DEF Inv, TypeOK
<1> HIDE DEF noted
<1>2. noted \in Report /\ noted.scope = report.scope
  BY <1>1 DEF Updates
<1>3. \/ report' = FailAt(noted, "PassiveAllowlist")
      \/ report' = Passed(noted) /\ report.scope = "Passive"
      \/ report' = noted
  BY DEF Concluded, noted
<1>4. CASE report' = FailAt(noted, "PassiveAllowlist")
  <2>1. Updates(noted, report', {})
    BY <1>2, <1>4, TerminalUpdates DEF Stages, CheckFields
  <2> QED
    BY <1>1, <2>1, CountedFields DEF Updates, Preflighted, Passing,
                                     PassedCheck
<1>5. CASE report' = Passed(noted) /\ report.scope = "Passive"
  BY <1>1, <1>2, <1>5, PassedReport DEF Preflighted, Passing, PassedCheck
<1>6. CASE report' = noted
  BY <1>1, <1>2, <1>6 DEF Updates, Preflighted, Passing, PassedCheck
<1> QED
  BY <1>3, <1>4, <1>5, <1>6

LEMMA PreflightStep ==
  ASSUME Inv, Preflight
  PROVE  Inv'
<1>1. Selection(Entries, hint) \subseteq {a \in Addresses : bus[a] # Nobody}
  BY DEF Selection, Entries
<1> DEFINE Outcome == /\ Preflighted
                      /\ failing' \in BOOLEAN
                      /\ selected' \in Addresses \cup {Nowhere}
                      /\ target' \in Displays \cup {Nobody}
                      /\ phase' \in {"write", "snapshot"}
                      /\ phase' = "snapshot" => selected' \in Addresses
<1>2. Outcome
  <2>1. ASSUME NEW stage \in Stages,
               NEW a \in {b \in Addresses : bus[b] # Nobody} \cup {Nowhere},
               PreflightFails(stage, a)
        PROVE  Outcome
    BY <2>1, PreflightFailure DEF PreflightFails, Inv, TypeOK
  <2>2. ASSUME NEW a \in Selection(Entries, hint), CorrelationFails(a)
        PROVE  Outcome
    BY <1>1, <2>1, <2>2 DEF CorrelationFails, Stages
  <2>3. ASSUME NEW a \in Selection(Entries, hint),
               LET shape == ShapeOf[bus[a]]
                   policy == SelectPolicy(shape, shape # "bulk")
               IN  /\ selected' = a /\ target' = bus[a]
                   /\ Concluded(Identified(shape, policy),
                                policy # "StopUnsupportedShape")
        PROVE  Outcome
    <3> DEFINE shape == ShapeOf[bus[a]]
               policy == SelectPolicy(shape, shape # "bulk")
               noted == Identified(shape, policy)
               allowed == policy # "StopUnsupportedShape"
    <3>1. bus[a] \in Displays /\ a \in Addresses
      BY <1>1 DEF Inv, TypeOK
    <3>2. shape \in Shapes /\ policy \in Policies
      BY <3>1, DisplayAssumption DEF SelectPolicy, Policies
    <3>3. Concluded(noted, allowed) /\ selected' = a /\ target' = bus[a]
      BY <2>3
    <3> HIDE DEF shape, policy, allowed
    <3>4. Preflighted
      BY <3>2, <3>3, PreflightConclusion
    <3>5. failing' \in BOOLEAN /\ phase' \in {"write", "snapshot"}
      BY <3>3 DEF Concluded
    <3> QED
      BY <3>1, <3>3, <3>4, <3>5
  <2> QED
    BY <2>1, <2>2, <2>3 DEF Preflight, Stages, CheckFields
<1>3. TypeOK'
  BY <1>2 DEF Inv, TypeOK, Preflight, Preflighted, Phases, world
<1>4. Located'
  BY <1>2 DEF Located
<1>5. NothingShown'
  BY <1>2 DEF Inv, CardsTracked, NothingShown, Before, Preflight, Preflighted,
              Counted
<1>6. CardsTracked'
  BY <1>2, <1>5 DEF CardsTracked, Before, Negotiating, Streaming, Prompts,
                    Cards, Closing
<1>7. UnitTracked'
  BY <1>2 DEF Inv, UnitTracked, Preflight, Preflighted, Counted, Before,
              Holding, Negotiating, Streaming, Prompts, Cards, Ended, world
<1>8. SessionAuthorized'
  BY <1>2 DEF Inv, SessionAuthorized, Preflight, Streaming, Prompts, Cards
<1>9. ChecksEarned'
  BY <1>2, <1>5 DEF ChecksEarned, NothingShown, Confirmable, Prompts
<1>10. PassLast'
  BY <1>2, NotPassedYet DEF Preflight, Preflighted
<1> QED
  BY <1>3, <1>4, <1>6, <1>7, <1>8, <1>9, <1>10 DEF Inv

LEMMA SnapshotStep ==
  ASSUME Inv, SnapshotPeers
  PROVE  Inv'
<1>1. peers' \subseteq {IdOf[d] : d \in Displays} \X Addresses
  BY DEF Inv, TypeOK, SnapshotPeers, Peers
<1>2. TypeOK'
  BY <1>1 DEF Inv, TypeOK, SnapshotPeers, Phases, world
<1>3. Located' /\ UnitTracked' /\ SessionAuthorized'
  BY DEF Inv, SnapshotPeers, Located, UnitTracked, SessionAuthorized, Phases,
         Before, Holding, Negotiating, Streaming, Prompts, Cards, Ended,
         PassedCheck, world
<1>4. NothingShown'
  BY DEF Inv, SnapshotPeers, CardsTracked, Before, NothingShown, PassedCheck
<1>5. CardsTracked'
  BY <1>4 DEF SnapshotPeers, CardsTracked, Streaming, Prompts, Cards, Closing
<1>6. ChecksEarned'
  BY <1>4 DEF SnapshotPeers, ChecksEarned, NothingShown, Confirmable, Prompts
<1>7. PassLast'
  BY NotPassedYet DEF SnapshotPeers, Passing
<1> QED
  BY <1>2, <1>3, <1>5, <1>6, <1>7 DEF Inv

LEMMA OwnershipStep ==
  ASSUME Inv, BuildOwnershipTarget
  PROVE  Inv'
<1>1. phase' \in {"acquire", "done"} /\ exit' \in {exit, "error"}
  BY DEF BuildOwnershipTarget
<1>2. TypeOK'
  BY <1>1 DEF Inv, TypeOK, BuildOwnershipTarget, Phases, world
<1>3. Located' /\ UnitTracked' /\ SessionAuthorized'
  BY <1>1 DEF Inv, BuildOwnershipTarget, Located, UnitTracked,
              SessionAuthorized, Phases, Before, Holding, Negotiating,
              Streaming, Prompts, Cards, Ended, PassedCheck, world
<1>4. NothingShown'
  BY DEF Inv, BuildOwnershipTarget, CardsTracked, Before, NothingShown,
         PassedCheck
<1>5. CardsTracked'
  BY <1>1, <1>4 DEF CardsTracked, Streaming, Prompts, Cards, Closing
<1>6. ChecksEarned'
  BY <1>1, <1>4 DEF ChecksEarned, NothingShown, Confirmable, Prompts
<1>7. PassLast'
  BY NotPassedYet DEF BuildOwnershipTarget, Passing
<1> QED
  BY <1>2, <1>3, <1>5, <1>6, <1>7 DEF Inv

\* Whatever systemctl did, the guard is held only with the unit stopped, and
\* then was_active is what the run found.
LEMMA AcquireStep ==
  ASSUME Inv, Acquire
  PROVE  Inv'
<1>1. /\ Updates(report, report', {"ExclusiveOwner"})
      /\ failing' \in BOOLEAN /\ wasActive' \in BOOLEAN
      /\ unit' \in {"active", "inactive"}
      /\ \/ phase' = "write" /\ guard' = "none"
         \/ /\ phase' = "select" /\ guard' = "held" /\ unit' = "inactive"
            /\ wasActive' <=> unit = "active"
  <2>1. ASSUME NotAcquired
        PROVE  /\ Updates(report, report', {"ExclusiveOwner"})
               /\ failing' \in BOOLEAN /\ wasActive' \in BOOLEAN
               /\ phase' = "write" /\ guard' = "none"
    <3> DEFINE checked == RecordCheck(report, "ExclusiveOwner", "Fail")
    <3>1. Updates(report, checked, {"ExclusiveOwner"})
      BY CheckUpdates DEF Inv, TypeOK, CheckFields, Statuses
    <3>2. Updates(checked, FailAt(checked, "ExclusiveOwner"), {})
      BY <3>1, TerminalUpdates DEF Updates, Stages, CheckFields
    <3>3. Updates(report, report', {"ExclusiveOwner"})
      BY <2>1, <3>1, <3>2, UpdatesTwice DEF NotAcquired
    <3> QED
      BY <2>1, <3>3 DEF NotAcquired, Acquire, Inv, TypeOK, UnitTracked, Before
  <2>2. ASSUME Acquired(unit = "active")
        PROVE  /\ Updates(report, report', {"ExclusiveOwner"})
               /\ failing' \in BOOLEAN /\ wasActive' \in BOOLEAN
               /\ phase' = "select" /\ guard' = "held"
               /\ wasActive' <=> unit = "active"
    <3>1. Updates(report, report', {"ExclusiveOwner"})
      BY <2>2, CheckUpdates DEF Acquired, Inv, TypeOK, CheckFields, Statuses
    <3>2. wasActive' \in BOOLEAN /\ (wasActive' <=> unit = "active")
      BY <2>2, Zenon DEF Acquired
    <3> QED
      BY <2>2, <3>1, <3>2 DEF Acquired, Inv, TypeOK
  <2>3. CASE SystemdUserControl(FALSE) /\ NotAcquired
    BY <2>1, <2>3 DEF SystemdUserControl, Inv, TypeOK
  <2>4. ASSUME NEW owner \in Ownership, SystemdUserControl(TRUE),
               IF owner = "free" THEN Acquired(unit = "active")
                                 ELSE NotAcquired
        PROVE  <1>1
    BY <2>1, <2>2, <2>4 DEF SystemdUserControl
  <2> QED
    BY <2>3, <2>4 DEF Acquire
<1>2. /\ report' \in Report
      /\ \A f \in Counted : PassedCheck(f)' <=> PassedCheck(f)
      /\ Passing' => Passing
  BY <1>1, Uncounted DEF Inv, Counted, Confirmable, Prompts, Cards
<1>3. TypeOK'
  BY <1>1, <1>2 DEF Inv, TypeOK, Acquire, Phases
<1>4. Located'
  BY <1>1 DEF Inv, Located, Acquire, Phases
<1>5. UnitTracked'
  BY <1>1, <1>2 DEF Inv, UnitTracked, Acquire, Before, Counted, Holding,
                    Negotiating, Streaming, Prompts, Cards, Ended
<1>6. SessionAuthorized'
  BY <1>1 DEF Inv, SessionAuthorized, Acquire, Streaming, Prompts, Cards
<1>7. NothingShown'
  BY <1>2 DEF Inv, CardsTracked, NothingShown, Before, Acquire, Counted
<1>8. CardsTracked'
  BY <1>1, <1>7 DEF CardsTracked, Streaming, Prompts, Cards, Closing
<1>9. ChecksEarned'
  BY <1>1, <1>7 DEF ChecksEarned, NothingShown, Confirmable, Prompts
<1>10. PassLast'
  BY <1>2, NotPassedYet DEF Acquire
<1> QED
  BY <1>3, <1>4, <1>5, <1>6, <1>8, <1>9, <1>10 DEF Inv

-----------------------------------------------------------------------------
(* Negotiation *)

\* The display a session is opened to authorised its route by what it is.
Authorized(s) ==
    /\ s \in Sessions /\ s.display \in Displays
    /\ firmware[s.display] = IF s.route = "HidReport" THEN "pm58" ELSE "pm128"
    /\ ShapeOf[s.display] # "bulk"

\* A step of the negotiation goes on without a session, or ends with one that
\* is authorised.
Negotiates ==
    /\ \E F \in SUBSET (CheckFields \ Counted) : Updates(report, report', F)
    /\ failing' \in BOOLEAN /\ passive' \in ReadKinds
    /\ \/ session' = NoSession /\ phase' \in Negotiating \cup {"restore"}
       \/ Authorized(session') /\ phase' = "cards"

LEMMA NegotiationStep ==
  ASSUME Inv, phase \in Negotiating, Negotiates,
         UNCHANGED <<hint, selected, target, peers, guard, wasActive, held,
                     shown, soaked, reconnected, exit, written, world>>
  PROVE  Inv'
<1>1. /\ report' \in Report
      /\ \A f \in Counted : PassedCheck(f)' <=> PassedCheck(f)
      /\ Passing' => Passing
  <2>1. PICK F \in SUBSET (CheckFields \ Counted) : Updates(report, report', F)
    BY DEF Negotiates
  <2> QED
    BY <2>1, Uncounted DEF Inv
<1>2. NoSession \in Sessions
  BY DEF NoSession, Sessions, Routes
<1>3. /\ session' \in Sessions
      /\ phase' \in Negotiating \cup {"restore", "cards"}
      /\ session' # NoSession => phase' = "cards"
  BY <1>2 DEF Negotiates, Authorized
<1>4. TypeOK'
  BY <1>1, <1>3 DEF Inv, TypeOK, Negotiates, Negotiating, Phases, world
<1>5. Located'
  BY <1>3 DEF Inv, Located, Negotiating, Phases
<1>6. UnitTracked'
  BY <1>1, <1>3 DEF Inv, UnitTracked, Negotiating, Before, Holding, Streaming,
                    Counted, Ended, world
<1>7. SessionAuthorized'
  BY <1>3, Zenon DEF SessionAuthorized, Negotiates, Authorized, Negotiating,
                     Streaming, Prompts, Cards, world
<1>8. NothingShown /\ NothingShown'
  BY <1>1 DEF Inv, CardsTracked, NothingShown, Counted
<1>9. phase' = "cards" => ShownTo(session.display)'
  BY <1>8 DEF Negotiates, Negotiating, Authorized, ShownTo, NothingShown,
              Confirmable, Prompts, world
<1>10. CardsTracked'
  BY <1>3, <1>8, <1>9 DEF CardsTracked, Streaming, Negotiating, Prompts,
                          Cards, Closing
<1>11. ChecksEarned'
  BY <1>3, <1>8 DEF ChecksEarned, NothingShown, Confirmable, Prompts,
                    Negotiating
<1>12. PassLast'
  BY <1>1, NotPassedYet DEF Negotiating
<1> QED
  BY <1>4, <1>5, <1>6, <1>7, <1>10, <1>11, <1>12 DEF Inv

LEMMA NegotiationFailure ==
  ASSUME Inv, NEW F \in SUBSET (CheckFields \ Counted), NEW r,
         Updates(report, r, F), NegotiationFails(r), passive' \in ReadKinds
  PROVE  Negotiates
BY DEF NegotiationFails, Negotiates

LEMMA SelectStep ==
  ASSUME Inv, SelectPreHandshakePolicy
  PROVE  Inv'
<1>1. session = NoSession
  BY DEF Inv, SessionAuthorized, SelectPreHandshakePolicy, Streaming, Prompts,
         Cards
<1>2. Negotiates
  <2>1. PICK correlated \in BOOLEAN :
               LET policy == SelectPolicy(report.shape, correlated)
                   r == SetPolicy(report, policy)
               IN  IF policy = "Hid407ReadOnlyProbe"
                   THEN /\ report' = r /\ phase' = "probe"
                        /\ UNCHANGED <<failing, session>>
                   ELSE NegotiationFails(FailAt(r, "PassiveAllowlist"))
    BY DEF SelectPreHandshakePolicy
  <2> DEFINE policy == SelectPolicy(report.shape, correlated)
             r == SetPolicy(report, policy)
             failed == FailAt(r, "PassiveAllowlist")
  <2>2. policy \in Policies
    BY DEF SelectPolicy, Policies
  <2>3. Updates(report, r, {}) /\ r \in Report
    BY <2>2, PolicyUpdates DEF Inv, TypeOK, Updates
  <2>4. Updates(r, failed, {})
    BY <2>3, TerminalUpdates DEF Stages, CheckFields
  <2>5. Updates(report, failed, {})
    BY <2>3, <2>4 DEF Updates
  <2>6. passive' \in ReadKinds
    BY DEF SelectPreHandshakePolicy, Inv, TypeOK
  <2>7. \/ report' = r /\ phase' = "probe" /\ UNCHANGED <<failing, session>>
        \/ NegotiationFails(failed)
    BY <2>1
  <2> HIDE DEF policy, r, failed
  <2>8. CASE report' = r /\ phase' = "probe" /\ UNCHANGED <<failing, session>>
    BY <1>1, <2>3, <2>6, <2>8 DEF Inv, TypeOK, Negotiates, Negotiating
  <2>9. CASE NegotiationFails(failed)
    BY <2>5, <2>6, <2>9, NegotiationFailure
  <2> QED
    BY <2>7, <2>8, <2>9
<1> QED
  BY <1>2, NegotiationStep DEF SelectPreHandshakePolicy, Negotiating

LEMMA HandshakeStep ==
  ASSUME Inv, HandshakePm128
  PROVE  Inv'
<1>1. passive' \in ReadKinds /\ Updates(report, report, {})
  BY DEF HandshakePm128, Inv, TypeOK, Updates
<1>2. CASE NegotiationFails(report)
  <2>1. Negotiates
    BY <1>1, <1>2, NegotiationFailure
  <2> QED
    BY <2>1, NegotiationStep DEF HandshakePm128, Negotiating
<1>3. CASE /\ bus[selected] # Nobody /\ ShapeOf[bus[selected]] = "type2exact"
           /\ firmware[bus[selected]] = "pm128"
           /\ report' = RecordCheck(report, "ActiveWrite", "Pass")
           /\ session' = Open(bus[selected], "HidInterrupt")
           /\ phase' = "cards" /\ UNCHANGED failing
  <2>1. bus[selected] \in Displays
    BY <1>3 DEF Inv, TypeOK, Located, HandshakePm128, Phases
  <2>2. Authorized(session')
    BY <1>3, <2>1 DEF Authorized, Open, Sessions, Routes
  <2>3. Updates(report, report', {"ActiveWrite"})
    BY <1>3, CheckUpdates DEF Inv, TypeOK, CheckFields, Statuses
  <2>4. {"ActiveWrite"} \in SUBSET (CheckFields \ Counted)
    BY DEF CheckFields, Counted, Confirmable, Prompts, Cards
  <2>5. Negotiates
    BY <1>1, <1>3, <2>2, <2>3, <2>4 DEF Negotiates, Inv, TypeOK
  <2> QED
    BY <2>5, NegotiationStep DEF HandshakePm128, Negotiating
<1> QED
  BY <1>2, <1>3 DEF HandshakePm128

\* The answer that authorises the writes of this route comes from a display
\* that speaks its protocol.
LEMMA AnsweredNegotiates ==
  ASSUME Inv, phase = "probe", NEW r, Updates(report, r, {}),
         NEW d \in Displays, ShapeOf[d] # "bulk",
         NEW kind \in read_bounded(d) \ {"failed"}, Answered(r, d, kind)
  PROVE  Negotiates
<1> DEFINE observed == kind \notin {"empty", "unknown"}
           recorded == IF observed THEN RecordProfile(r, kind) ELSE r
           shook == RecordCheck(recorded, "Handshake", "Pass")
           wrote == RecordWriteEvidence(shook)
           checked == RecordCheck(wrote, "ActiveWrite", "Pass")
           refused == FailAt(r, "Negotiation")
<1>1. /\ kind \in {"malformed", "empty"} \cup Protocols
      /\ kind = "pm58" => firmware[d] = "pm58"
  BY DEF read_bounded, poll_hidraw_for_read_deadline, Responses, Inv, TypeOK,
         Protocols
<1>2. kind \in ReadKinds /\ r \in Report
  BY <1>1 DEF ReadKinds, Protocols, Updates
<1>3. Updates(r, refused, {})
  BY <1>2, TerminalUpdates DEF Stages
<1>4. Updates(report, refused, {})
  BY <1>3 DEF Updates
<1>5. ASSUME kind # "malformed"
      PROVE  Updates(report, shook, {"Handshake"})
  <2>1. Updates(r, recorded, {})
    BY <1>1, <1>2, <1>5, ProfileUpdates DEF Protocols, Updates
  <2> HIDE DEF recorded
  <2>2. Updates(recorded, shook, {"Handshake"})
    BY <2>1, CheckUpdates DEF Updates, CheckFields, Statuses
  <2> QED
    BY <2>1, <2>2 DEF Updates
<1>6. ASSUME kind # "malformed"
      PROVE  Updates(report, checked, {"Handshake", "ActiveWrite"})
  <2> HIDE DEF shook
  <2>1. Updates(shook, wrote, {})
    BY <1>5, <1>6, EvidenceUpdates DEF Updates
  <2> HIDE DEF wrote
  <2>2. Updates(wrote, checked, {"ActiveWrite"})
    BY <2>1, CheckUpdates DEF Updates, CheckFields, Statuses
  <2> QED
    BY <1>5, <1>6, <2>1, <2>2 DEF Updates
<1>7. /\ passive' = kind
      /\ \/ NegotiationFails(refused)
         \/ /\ kind = "pm58" /\ report' = checked
            /\ session' = Open(d, "HidReport")
            /\ phase' = "cards" /\ UNCHANGED failing
         \/ /\ kind # "malformed" /\ report' = shook
            /\ session' = NoSession
            /\ phase' = "handshake" /\ UNCHANGED failing
  BY DEF Answered, authorize_writes
<1> HIDE DEF refused, checked, shook
<1>8. {"Handshake", "ActiveWrite"} \in SUBSET (CheckFields \ Counted)
  BY DEF CheckFields, Counted, Confirmable, Prompts, Cards
<1>9. failing \in BOOLEAN
  BY DEF Inv, TypeOK
<1>10. CASE NegotiationFails(refused)
  BY <1>2, <1>4, <1>7, <1>10, NegotiationFailure
<1>11. CASE /\ kind = "pm58" /\ report' = checked
            /\ session' = Open(d, "HidReport")
            /\ phase' = "cards" /\ UNCHANGED failing
  <2>1. Authorized(session')
    BY <1>1, <1>11 DEF Authorized, Open, Sessions, Routes
  <2> QED
    BY <1>2, <1>6, <1>7, <1>8, <1>9, <1>11, <2>1 DEF Negotiates
<1>12. CASE /\ kind # "malformed" /\ report' = shook
            /\ session' = NoSession
            /\ phase' = "handshake" /\ UNCHANGED failing
  <2>1. {"Handshake"} \in SUBSET (CheckFields \ Counted)
    BY <1>8
  <2> QED
    BY <1>2, <1>5, <1>7, <1>9, <1>12, <2>1 DEF Negotiates, Negotiating
<1> QED
  BY <1>7, <1>10, <1>11, <1>12

LEMMA ProbeStep ==
  ASSUME Inv, Probe
  PROVE  Inv'
<1>1. report \in Report /\ passive \in ReadKinds
  BY DEF Inv, TypeOK
<1>2. Negotiates
  <2>1. CASE NegotiationFails(FailAt(report, "Handshake")) /\ UNCHANGED passive
    <3>1. Updates(report, FailAt(report, "Handshake"), {})
      BY <1>1, TerminalUpdates DEF Stages, CheckFields
    <3> QED
      BY <1>1, <2>1, <3>1, NegotiationFailure
  <2>2. ASSUME bus[selected] # Nobody, ShapeOf[bus[selected]] # "bulk",
               NEW kind \in read_bounded(bus[selected]),
               \/ kind = "failed" /\ ReadFails(SetBackend(report))
               \/ /\ kind # "failed"
                  /\ Answered(RecordRead(SetBackend(report), kind),
                              bus[selected], kind)
        PROVE  Negotiates
    <3> DEFINE d == bus[selected]
               opened == SetBackend(report)
    <3>1. d \in Displays
      BY <2>2 DEF Inv, TypeOK, Located, Probe, Phases
    <3>2. Updates(report, opened, {}) /\ opened \in Report
      BY <1>1, BackendUpdates DEF Updates
    <3> HIDE DEF opened
    <3>3. CASE kind = "failed" /\ ReadFails(opened)
      <4>1. PICK safe \in BOOLEAN : NegotiationFails(
                   FailAt(RecordReadFailure(opened, safe), "Handshake"))
        BY <3>3 DEF ReadFails
      <4> DEFINE noted == RecordReadFailure(opened, safe)
      <4>2. Updates(opened, noted, {})
        BY <3>2, ReadFailureUpdates
      <4> HIDE DEF noted
      <4>3. Updates(noted, FailAt(noted, "Handshake"), {})
        BY <4>2, TerminalUpdates DEF Updates, Stages, CheckFields
      <4>4. Updates(report, FailAt(noted, "Handshake"), {})
        BY <3>2, <4>2, <4>3 DEF Updates
      <4>5. passive' \in ReadKinds
        BY <1>1, <3>3 DEF ReadFails
      <4> QED
        BY <4>1, <4>4, <4>5, NegotiationFailure DEF noted
    <3>4. CASE kind # "failed" /\ Answered(RecordRead(opened, kind), d, kind)
      <4>1. kind \in ReadKinds
        BY <2>2, <3>1, <3>4 DEF read_bounded, poll_hidraw_for_read_deadline,
             Responses, Inv, TypeOK, Protocols, ReadKinds
      <4>2. Updates(opened, RecordRead(opened, kind), {})
        BY <3>2, <4>1, ReadUpdates
      <4>3. Updates(report, RecordRead(opened, kind), {})
        BY <3>2, <4>2 DEF Updates
      <4> QED
        BY <2>2, <3>1, <3>4, <4>3, AnsweredNegotiates DEF Probe
    <3> QED
      BY <2>2, <3>3, <3>4 DEF opened
  <2> QED
    BY <2>1, <2>2 DEF Probe
<1> QED
  BY <1>2, NegotiationStep DEF Probe, Negotiating

-----------------------------------------------------------------------------
(* Cards, soak, reconnect: a session is open *)

LEMMA StreamingStep ==
  ASSUME Inv, phase \in Streaming, phase' \in Streaming, TypeOK',
         NEW F \in SUBSET (CheckFields \ {"DaemonRestored"}),
         Updates(report, report', F),
         UNCHANGED <<guard, wasActive, session, exit, firmware, unit,
                     unitBefore>>,
         selected' \in Addresses, ShownTo(session.display)', ChecksEarned',
         (phase \in Prompts /\ held => CardOf(phase) \in shown[session.display])'
  PROVE  Inv'
<1>1. Passing' => Passing
  BY DEF Updates, Passing
<1>2. PassedCheck("DaemonRestored")' => PassedCheck("DaemonRestored")
  BY DEF Updates, PassedCheck, CheckFields
<1>3. phase' \in Holding /\ phase \in Holding
  BY DEF Holding
<1>4. phase' \notin Before \cup Negotiating \cup Closing \cup {"done"}
  BY DEF Streaming, Before, Negotiating, Closing, Prompts, Cards
<1>5. phase # "done" /\ phase \notin {"write", "done"}
  BY DEF Streaming, Prompts, Cards
<1>6. Located'
  BY DEF Located
<1>7. UnitTracked'
  BY <1>2, <1>3, <1>4, <1>5 DEF Inv, UnitTracked, Ended
<1>8. SessionAuthorized'
  BY DEF Inv, SessionAuthorized
<1>9. CardsTracked'
  BY <1>4 DEF CardsTracked
<1>10. PassLast'
  BY <1>1, <1>5, NotPassedYet
<1> QED
  BY <1>6, <1>7, <1>8, <1>9, <1>10 DEF Inv

\* A step that counts nothing and shows nothing.
LEMMA QuietStep ==
  ASSUME Inv, phase \in Streaming, TypeOK',
         phase' \in Streaming \ {"SecondDisplayUnchanged"},
         phase' \in Prompts => ~held',
         NEW F \in SUBSET (CheckFields \ Counted), Updates(report, report', F),
         selected' \in Addresses,
         UNCHANGED <<peers, guard, wasActive, session, shown, soaked, exit,
                     firmware, unit, unitBefore>>
  PROVE  Inv'
<1>1. \A f \in Counted : PassedCheck(f)' <=> PassedCheck(f)
  BY Uncounted DEF Inv
<1>2. ShownTo(session.display)'
  BY <1>1 DEF Inv, CardsTracked, ShownTo, Counted, Confirmable, Prompts
<1>3. ChecksEarned'
  BY <1>1 DEF Inv, ChecksEarned, Counted, Confirmable, Prompts
<1>4. F \in SUBSET (CheckFields \ {"DaemonRestored"})
  BY DEF Counted
<1> QED
  BY <1>2, <1>3, <1>4, StreamingStep

LEMMA StreamingPhases ==
  ASSUME Inv, phase \in Streaming
  PROVE  /\ report \in Report /\ failing \in BOOLEAN
         /\ selected \in Addresses
         /\ Streaming \subseteq Phases
         /\ {} \in SUBSET (CheckFields \ Counted)
         /\ Updates(report, report, {})
BY DEF Inv, TypeOK, Located, Streaming, Phases, Prompts, Cards, Updates

\* A failure leaves everything to the close.
LEMMA FailureStep ==
  ASSUME Inv, phase \in Streaming, NEW F \in SUBSET (CheckFields \ Counted),
         NEW r, Updates(report, r, F), Fails(r), lines' \in Seq(BOOLEAN),
         Len(lines') <= MaxAhead, held' \in BOOLEAN,
         UNCHANGED <<hint, selected, target, peers, guard, wasActive, session,
                     passive, shown, soaked, reconnected, exit, written, bus,
                     firmware, unit, unitBefore, stdinOpen, moves>>
  PROVE  Inv'
<1>1. report' = r /\ failing' = TRUE /\ phase' = "close"
  BY DEF Fails
<1>2. phase' \in Streaming \ Prompts
  BY <1>1 DEF Streaming, Prompts, Cards
<1>3. TypeOK'
  BY <1>1 DEF Inv, TypeOK, Phases, Updates
<1> QED
  BY <1>1, <1>2, <1>3, StreamingPhases, QuietStep DEF Prompts

LEMMA PrepareCardsStep ==
  ASSUME Inv, PrepareCards
  PROVE  Inv'
<1>1. phase \in Streaming /\ held' = FALSE /\ held' \in BOOLEAN
  BY DEF PrepareCards, Streaming
<1>2. lines' \in Seq(BOOLEAN) /\ Len(lines') <= MaxAhead
  BY DEF PrepareCards, Inv, TypeOK, world
<1>3. CASE Fails(report)
  BY <1>1, <1>2, <1>3, StreamingPhases, FailureStep DEF PrepareCards, world
<1>4. CASE Goes(RecordCheck(report, "ActiveWrite", "Pass"), "TargetMarker")
  <2>1. Updates(report, report', {"ActiveWrite"})
    BY <1>4, CheckUpdates DEF Inv, TypeOK, CheckFields, Statuses, Goes
  <2>2. {"ActiveWrite"} \in SUBSET (CheckFields \ Counted)
    BY DEF CheckFields, Counted, Confirmable, Prompts, Cards
  <2>3. report' \in Report /\ phase' \in Phases /\ failing' = failing
    BY <1>4, <2>1 DEF Goes, Updates, Phases, Cards
  <2>4. TypeOK'
    BY <1>1, <2>3 DEF Inv, TypeOK, PrepareCards, world
  <2>5. phase' \in Streaming \ {"SecondDisplayUnchanged"}
    BY <1>4 DEF Goes, Streaming, Prompts, Cards
  <2> QED
    BY <1>1, <1>4, <2>1, <2>2, <2>4, <2>5, StreamingPhases, QuietStep
       DEF PrepareCards, world
<1> QED
  BY <1>3, <1>4 DEF PrepareCards

\* What is sent goes to the display of the session.
LEMMA HoldCardStep ==
  ASSUME Inv, HoldCard
  PROVE  Inv'
<1>1. phase \in Streaming /\ phase \in Prompts
  BY DEF HoldCard, Streaming
<1>2. CASE Fails(FailAt(report, "ActiveWrite")) /\ UNCHANGED <<held, shown>>
  <2>1. Updates(report, FailAt(report, "ActiveWrite"), {})
    BY TerminalUpdates DEF Inv, TypeOK, Stages, CheckFields
  <2>2. lines' \in Seq(BOOLEAN) /\ Len(lines') <= MaxAhead /\ held' \in BOOLEAN
    BY <1>2 DEF HoldCard, Inv, TypeOK, world
  <2> QED
    BY <1>1, <1>2, <2>1, <2>2, StreamingPhases, FailureStep
       DEF HoldCard, world
<1>3. CASE /\ held' = TRUE
           /\ shown' = [shown EXCEPT ![session.display] =
                          @ \cup {CardOf(phase)}]
           /\ UNCHANGED <<report, failing, phase>>
  <2> DEFINE d == session.display
  <2>1. d \in Displays /\ CardOf(phase) \in Cards
    BY <1>1 DEF Inv, SessionAuthorized, CardOf, Prompts, Cards
  <2>2. /\ shown' \in [Displays -> SUBSET Cards]
        /\ shown'[d] = shown[d] \cup {CardOf(phase)}
        /\ \A e \in Displays \ {d} : shown'[e] = shown[e]
    BY <1>3, <2>1 DEF Inv, TypeOK
  <2>3. session' = session
    BY DEF HoldCard
  <2>4. TypeOK'
    BY <1>3, <2>2 DEF Inv, TypeOK, HoldCard, world
  <2>5. ShownTo(session.display)'
    BY <1>1, <1>3, <2>2, <2>3 DEF Inv, CardsTracked, ShownTo, PassedCheck,
                                  HoldCard, world
  <2>6. CardOf(phase)' \in shown'[session'.display]
    BY <1>3, <2>2, <2>3 DEF CardOf
  <2>7. ChecksEarned'
    BY <1>3 DEF Inv, ChecksEarned, PassedCheck, HoldCard
  <2>8. {} \in SUBSET (CheckFields \ {"DaemonRestored"})
    OBVIOUS
  <2> QED
    BY <1>1, <1>3, <2>4, <2>5, <2>6, <2>7, <2>8, StreamingPhases,
       StreamingStep DEF HoldCard, world
<1> QED
  BY <1>2, <1>3 DEF HoldCard

\* A confirmed card is one that was sent.
LEMMA ConfirmedUpdates ==
  ASSUME report \in Report, NEW p \in Prompts
  PROVE  /\ Updates(report, Confirmed(p), {p, "SecondDisplayUnchanged"})
         /\ p # "SecondDisplayUnchanged" =>
              Confirmed(p).checks["SecondDisplayUnchanged"]
                \in {"NotApplicable", report.checks["SecondDisplayUnchanged"]}
<1> DEFINE r == RecordCheck(report, p, "Pass")
           q == RecordCheck(r, "SecondDisplayUnchanged", "NotApplicable")
<1>1. /\ Prompts \subseteq CheckFields
      /\ "SecondDisplayUnchanged" \in CheckFields
      /\ {"Pass", "NotApplicable"} \subseteq Statuses
  BY DEF Prompts, Cards, CheckFields, Statuses
<1>2. Updates(report, r, {p})
  BY <1>1, CheckUpdates
<1>3. r \in Report
  BY <1>2 DEF Updates
<1>4. /\ Updates(r, q, {"SecondDisplayUnchanged"})
      /\ q.checks["SecondDisplayUnchanged"]
           \in {"NotApplicable", r.checks["SecondDisplayUnchanged"]}
  BY <1>1, <1>3, CheckUpdates
<1>5. Confirmed(p) \in {r, q}
  BY DEF Confirmed
<1> HIDE DEF r, q
<1> QED
  BY <1>1, <1>2, <1>4, <1>5 DEF Updates

\* A line is taken off stdin.
LEMMA LineTaken ==
  ASSUME Inv, lines # <<>>
  PROVE  Tail(lines) \in Seq(BOOLEAN) /\ Len(Tail(lines)) <= MaxAhead
<1>1. lines \in Seq(BOOLEAN) /\ Len(lines) <= MaxAhead
  BY DEF Inv, TypeOK
<1>2. Tail(lines) \in Seq(BOOLEAN) /\ Len(Tail(lines)) = Len(lines) - 1
  BY <1>1, HeadTailProperties
<1>3. Len(lines) \in Nat
  BY <1>1
<1> QED
  BY <1>1, <1>2, <1>3, ValidationBounds

LEMMA AnswerCardStep ==
  ASSUME Inv, AnswerCard
  PROVE  Inv'
<1>1. phase \in Streaming /\ phase \in Prompts /\ ~held'
  BY DEF AnswerCard, Streaming
<1>2. lines' \in Seq(BOOLEAN) /\ Len(lines') <= MaxAhead /\ held' \in BOOLEAN
  BY LineTaken DEF AnswerCard
<1>3. CASE Fails(FailAt(report, phase))
  <2>1. Updates(report, FailAt(report, phase), {})
    BY <1>1, CountedFields, TerminalUpdates DEF Inv, TypeOK
  <2> QED
    BY <1>1, <1>2, <1>3, <2>1, StreamingPhases, FailureStep DEF AnswerCard
<1>4. CASE Goes(Confirmed(phase), NextPrompt(phase))
  <2>1. /\ Updates(report, report', {phase, "SecondDisplayUnchanged"})
        /\ PassedCheck("SecondDisplayUnchanged")' =>
             \/ PassedCheck("SecondDisplayUnchanged")
             \/ phase = "SecondDisplayUnchanged"
    BY <1>1, <1>4, ConfirmedUpdates DEF Inv, TypeOK, Goes, PassedCheck
  <2>2. /\ phase' \in Prompts \cup {"soak"}
        /\ phase' = "SecondDisplayUnchanged" => peers # {}
    BY <1>1, <1>4 DEF Goes, NextPrompt, Prompts, Cards
  <2>3. /\ report' \in Report /\ phase' \in Phases /\ failing' = failing
        /\ UNCHANGED <<hint, selected, target, peers, guard, wasActive,
                       session, passive, shown, soaked, reconnected, exit,
                       written, bus, firmware, unit, unitBefore, stdinOpen,
                       moves>>
    BY <1>4, <2>1, <2>2 DEF AnswerCard, Goes, Updates, Phases, Prompts
  <2>4. TypeOK'
    BY <1>2, <2>3 DEF Inv, TypeOK
  <2>5. \A f \in CheckFields \ {phase, "SecondDisplayUnchanged"} :
           PassedCheck(f)' <=> PassedCheck(f)
    BY <2>1 DEF Updates, PassedCheck
  <2>6. phase \in Cards => phase \in shown[session.display]
    BY <1>1 DEF Inv, CardsTracked, AnswerCard, CardOf, Cards
  <2>7. Cards \subseteq CheckFields \ {"SecondDisplayUnchanged"}
    BY DEF Cards, CheckFields
  <2>8. ShownTo(session.display)'
    BY <1>1, <2>5, <2>6, <2>7 DEF Inv, CardsTracked, ShownTo, AnswerCard
  <2>9. ChecksEarned'
    <3>1. "Soak" \in CheckFields \ {phase, "SecondDisplayUnchanged"}
      BY <1>1 DEF Prompts, Cards, CheckFields
    <3> QED
      BY <2>1, <2>2, <2>5, <3>1 DEF Inv, ChecksEarned, AnswerCard
  <2>10. {phase, "SecondDisplayUnchanged"}
          \in SUBSET (CheckFields \ {"DaemonRestored"})
    BY <1>1 DEF Prompts, Cards, CheckFields
  <2>11. phase' \in Streaming
    BY <2>2 DEF Streaming
  <2> QED
    BY <1>1, <2>1, <2>4, <2>8, <2>9, <2>10, <2>11, StreamingPhases,
       StreamingStep DEF AnswerCard
<1> QED
  BY <1>3, <1>4 DEF AnswerCard

\* The soak passes when its last frame was sent.
LEMMA SoakStep ==
  ASSUME Inv, Soak
  PROVE  Inv'
<1>1. phase \in Streaming /\ phase = "soak"
  BY DEF Soak, Streaming
<1>2. /\ lines' \in Seq(BOOLEAN) /\ Len(lines') <= MaxAhead
      /\ held' \in BOOLEAN /\ ShownTo(session.display)
  BY <1>1 DEF Soak, Inv, TypeOK, CardsTracked, world
<1>3. CASE Fails(FailAt(report, "Soak")) /\ UNCHANGED soaked
  <2>1. Updates(report, FailAt(report, "Soak"), {})
    BY TerminalUpdates DEF Inv, TypeOK, Stages, CheckFields
  <2> QED
    BY <1>1, <1>2, <1>3, <2>1, StreamingPhases, FailureStep DEF Soak, world
<1>4. CASE /\ soaked < SoakFrames
           /\ soaked' = soaked + 1 /\ UNCHANGED <<report, failing, phase>>
  <2>1. soaked' \in 0..SoakFrames /\ ~PassedCheck("Soak")
    BY <1>4, ValidationBounds DEF Inv, TypeOK, ChecksEarned
  <2>2. TypeOK'
    BY <1>4, <2>1 DEF Inv, TypeOK, Soak, world
  <2>3. ChecksEarned'
    BY <1>4, <2>1 DEF Inv, ChecksEarned, PassedCheck, Soak
  <2>4. ShownTo(session.display)'
    BY <1>2, <1>4 DEF ShownTo, PassedCheck, Soak, world
  <2>5. phase' \notin Prompts
    BY <1>1, <1>4 DEF Prompts, Cards
  <2>6. {} \in SUBSET (CheckFields \ {"DaemonRestored"})
    OBVIOUS
  <2> QED
    BY <1>1, <1>4, <2>2, <2>3, <2>4, <2>5, <2>6, StreamingPhases,
       StreamingStep DEF Soak, world
<1>5. CASE /\ soaked = SoakFrames
           /\ Goes(RecordCheck(report, "Soak", "Pass"), "replug")
           /\ UNCHANGED soaked
  <2>1. Updates(report, report', {"Soak"})
    BY <1>5, CheckUpdates DEF Inv, TypeOK, CheckFields, Statuses, Goes
  <2>2. \A f \in CheckFields \ {"Soak"} : PassedCheck(f)' <=> PassedCheck(f)
    BY <2>1 DEF Updates, PassedCheck
  <2>3. TypeOK'
    BY <1>5, <2>1 DEF Inv, TypeOK, Soak, Goes, Phases, Updates, world
  <2>4. ShownTo(session.display)'
    BY <1>2, <2>2 DEF ShownTo, Soak, world, Cards, CheckFields
  <2>5. phase' = "replug"
    BY <1>5 DEF Goes
  <2>6. "SecondDisplayUnchanged" \in CheckFields \ {"Soak"}
    BY DEF CheckFields
  <2>7. ChecksEarned'
    BY <1>5, <2>2, <2>5, <2>6 DEF Inv, ChecksEarned, Soak
  <2>8. {"Soak"} \in SUBSET (CheckFields \ {"DaemonRestored"})
    BY DEF CheckFields
  <2>9. phase' \in Streaming \ Prompts
    BY <2>5 DEF Streaming, Prompts, Cards
  <2> QED
    BY <1>1, <2>1, <2>3, <2>4, <2>7, <2>8, <2>9, StreamingPhases,
       StreamingStep DEF Soak, world
<1> QED
  BY <1>3, <1>4, <1>5 DEF Soak

LEMMA ReplugStep ==
  ASSUME Inv, AnswerReplug
  PROVE  Inv'
<1>1. phase \in Streaming
  BY DEF AnswerReplug, Streaming
<1>2. lines' \in Seq(BOOLEAN) /\ Len(lines') <= MaxAhead /\ held' \in BOOLEAN
  BY LineTaken DEF AnswerReplug, Inv, TypeOK
<1>3. CASE Fails(FailAt(report, "Reconnect"))
  <2>1. Updates(report, FailAt(report, "Reconnect"), {})
    BY TerminalUpdates DEF Inv, TypeOK, Stages, CheckFields
  <2> QED
    BY <1>1, <1>2, <1>3, <2>1, StreamingPhases, FailureStep DEF AnswerReplug
<1>4. CASE Goes(report, "rescan")
  <2>1. phase' \in Streaming \ Prompts
    BY <1>4 DEF Goes, Streaming, Prompts, Cards
  <2>2. /\ report' = report /\ failing' = failing /\ phase' = "rescan"
        /\ UNCHANGED <<hint, selected, target, peers, guard, wasActive,
                       session, passive, held, shown, soaked, reconnected,
                       exit, written, bus, firmware, unit, unitBefore,
                       stdinOpen, moves>>
    BY <1>4 DEF AnswerReplug, Goes
  <2>3. TypeOK'
    BY <1>2, <2>2 DEF Inv, TypeOK, Phases
  <2>4. Updates(report, report', {})
    BY <1>4 DEF Updates, Goes, Inv, TypeOK
  <2> QED
    BY <1>1, <2>1, <2>2, <2>4, <2>3, StreamingPhases, QuietStep
       DEF Prompts
<1> QED
  BY <1>3, <1>4 DEF AnswerReplug

LEMMA RescanStep ==
  ASSUME Inv, Rescan
  PROVE  Inv'
<1>1. phase \in Streaming
  BY DEF Rescan, Streaming
<1>2. lines' \in Seq(BOOLEAN) /\ Len(lines') <= MaxAhead /\ held' \in BOOLEAN
  BY DEF Rescan, Inv, TypeOK, world
<1>3. ASSUME NEW r \in {FailAt(report, "Reconnect"),
                        AbortAt(report, "Reconnect")},
             Fails(r), UNCHANGED <<selected, reconnected>>
      PROVE  Inv'
  <2>1. Updates(report, r, {})
    BY <1>3, TerminalUpdates DEF Inv, TypeOK, Stages, CheckFields
  <2> QED
    BY <1>1, <1>2, <1>3, <2>1, StreamingPhases, FailureStep DEF Rescan, world
<1>4. ASSUME NEW a \in Reconnected(Entries), selected' = a,
             reconnected' = bus[a], Goes(report, "compare")
      PROVE  Inv'
  <2>1. a \in Addresses /\ bus[a] \in Displays
    BY <1>4 DEF Reconnected, Entries, Inv, TypeOK
  <2>2. phase' \in Streaming \ Prompts
    BY <1>4 DEF Goes, Streaming, Prompts, Cards
  <2>3. TypeOK'
    BY <1>4, <2>1 DEF Inv, TypeOK, Rescan, Goes, Phases, world
  <2>4. Updates(report, report', {})
    BY <1>4 DEF Updates, Goes, Inv, TypeOK
  <2> QED
    BY <1>1, <1>4, <2>1, <2>2, <2>3, <2>4, StreamingPhases, QuietStep
       DEF Rescan, Prompts, world
<1> QED
  BY <1>3, <1>4 DEF Rescan

LEMMA CompareStep ==
  ASSUME Inv, ComparePeers
  PROVE  Inv'
<1>1. phase \in Streaming
  BY DEF ComparePeers, Streaming
<1>2. lines' \in Seq(BOOLEAN) /\ Len(lines') <= MaxAhead /\ held' \in BOOLEAN
  BY DEF ComparePeers, Inv, TypeOK, world
<1>3. CASE Fails(AbortAt(report, "Reconnect"))
  <2>1. Updates(report, AbortAt(report, "Reconnect"), {})
    BY TerminalUpdates DEF Inv, TypeOK, Stages, CheckFields
  <2> QED
    BY <1>1, <1>2, <1>3, <2>1, StreamingPhases, FailureStep
       DEF ComparePeers, world
<1>4. CASE Goes(RecordCheck(report, "Reconnect", "Pass"), "close")
  <2>1. phase' \in Streaming \ Prompts
    BY <1>4 DEF Goes, Streaming, Prompts, Cards
  <2>2. Updates(report, report', {"Reconnect"})
    BY <1>4, CheckUpdates DEF Inv, TypeOK, CheckFields, Statuses, Goes
  <2>3. TypeOK'
    BY <1>4, <2>2 DEF Inv, TypeOK, ComparePeers, Goes, Phases, Updates, world
  <2>4. {"Reconnect"} \in SUBSET (CheckFields \ Counted)
    BY DEF CheckFields, Counted, Confirmable, Prompts, Cards
  <2> QED
    BY <1>1, <2>1, <2>2, <2>3, <2>4, StreamingPhases, QuietStep
       DEF ComparePeers, Prompts, world
<1> QED
  BY <1>3, <1>4 DEF ComparePeers

-----------------------------------------------------------------------------
(* Giving back *)

LEMMA CloseStep ==
  ASSUME Inv, CloseOutput
  PROVE  Inv'
<1>1. session' = NoSession /\ session' \in Sessions /\ phase' = "restore"
  BY DEF CloseOutput, NoSession, Sessions, Routes
<1>2. TypeOK'
  BY <1>1 DEF Inv, TypeOK, CloseOutput, Phases, world
<1>3. Located' /\ UnitTracked' /\ SessionAuthorized' /\ ChecksEarned'
  BY <1>1 DEF Inv, CloseOutput, Located, UnitTracked, SessionAuthorized,
              ChecksEarned, Phases, Before, Holding, Negotiating, Streaming,
              Prompts, Cards, Ended, PassedCheck, world
<1>4. \E d \in Displays : ShownTo(d)'
  BY DEF Inv, CardsTracked, SessionAuthorized, CloseOutput, Streaming, ShownTo,
         PassedCheck, world
<1>5. CardsTracked'
  BY <1>1, <1>4 DEF CardsTracked, Before, Negotiating, Streaming, Prompts,
                    Cards
<1>6. PassLast'
  BY NotPassedYet DEF CloseOutput, Passing
<1> QED
  BY <1>2, <1>3, <1>5, <1>6 DEF Inv

\* The guard restores what it found, or says that it failed.
LEMMA RestoreStep ==
  ASSUME Inv, RestoreDaemon
  PROVE  Inv'
<1>1. PICK started \in BOOLEAN :
        /\ wasActive \/ started
        /\ restore(started)
        /\ report' = RecordCheck(report, "DaemonRestored",
                                 IF started THEN "Pass" ELSE "Fail")
  BY DEF RestoreDaemon
<1>2. /\ Updates(report, report', {"DaemonRestored"})
      /\ PassedCheck("DaemonRestored")' =>
           started \/ PassedCheck("DaemonRestored")
  <2>1. "DaemonRestored" \in CheckFields /\ {"Pass", "Fail"} \subseteq Statuses
    BY DEF CheckFields, Statuses
  <2>2. CASE started
    BY <1>1, <2>1, <2>2, CheckUpdates DEF Inv, TypeOK
  <2>3. CASE ~started
    <3>1. report' = RecordCheck(report, "DaemonRestored", "Fail")
      BY <1>1, <2>3
    <3>2. report'.checks["DaemonRestored"]
             \in {"Fail", report.checks["DaemonRestored"]}
      BY <2>1, <3>1, CheckUpdates DEF Inv, TypeOK
    <3> QED
      BY <2>1, <3>1, <3>2, CheckUpdates DEF Inv, TypeOK, PassedCheck
  <2> QED
    BY <2>2, <2>3
<1>3. /\ phase = "restore" /\ phase' \in {"write", "finalize"}
      /\ guard = "held" /\ guard' = (IF started THEN "restored" ELSE "failed")
      /\ unit = "inactive" /\ (wasActive <=> unitBefore = "active")
      /\ unit' = IF wasActive /\ started THEN "active" ELSE unit
  BY <1>1 DEF Inv, UnitTracked, RestoreDaemon, restore
<1>4. TypeOK'
  BY <1>2, <1>3 DEF Inv, TypeOK, RestoreDaemon, Phases, Updates
<1>5. started => unit' = unitBefore
  BY <1>3 DEF Inv, TypeOK
<1>6. UnitTracked'
  BY <1>2, <1>3, <1>5 DEF Inv, UnitTracked, RestoreDaemon, Before, Holding,
                          Negotiating, Streaming, Prompts, Cards, Ended
<1>7. Located'
  BY <1>3 DEF Inv, Located, RestoreDaemon, Phases
<1>8. SessionAuthorized'
  BY <1>3 DEF Inv, SessionAuthorized, RestoreDaemon, Streaming, Prompts, Cards
<1>9. \A f \in Confirmable : PassedCheck(f)' <=> PassedCheck(f)
  BY <1>2 DEF Updates, PassedCheck, Confirmable, Prompts, Cards, CheckFields
<1>10. CardsTracked'
  BY <1>3, <1>9 DEF Inv, CardsTracked, NothingShown, ShownTo, RestoreDaemon,
                    Before, Negotiating, Streaming, Prompts, Cards, Closing,
                    Confirmable
<1>11. ChecksEarned'
  BY <1>3, <1>9 DEF Inv, ChecksEarned, RestoreDaemon, Confirmable, Prompts
<1>12. PassLast'
  BY <1>2, <1>3, NotPassedYet DEF Updates, Passing
<1> QED
  BY <1>4, <1>6, <1>7, <1>8, <1>10, <1>11, <1>12 DEF Inv

\* Every check that is required stands for what happened.
LEMMA VerdictEarned ==
  ASSUME Inv, phase = "finalize", CanFinalizeFull(report)
  PROVE  /\ EligibleForTested(Passed(report))
         /\ \E d \in Displays :
               /\ shown[d] = Cards /\ firmware[d] \in {"pm58", "pm128"}
               /\ ShapeOf[d] # "bulk"
               /\ \A e \in Displays \ {d} : shown[e] = {}
         /\ soaked = SoakFrames
         /\ peers # {}
         /\ unit = unitBefore /\ session = NoSession
         /\ exit = "running"
<1>1. \A f \in CheckFields : PassedCheck(f)
  BY DEF CanFinalizeFull, AllPass, MandatoryFull, PassedCheck
<1>2. EligibleForTested(Passed(report))
  <2>1. Semantics(Passed(report)) /\ report.scope = "Full"
    BY DEF CanFinalizeFull
  <2> QED
    BY <2>1, PassedReport DEF Inv, TypeOK, EligibleForTested
<1>3. PICK d \in Displays : ShownTo(d)
  <2>1. "Soak" \in Confirmable \cap CheckFields
    BY DEF Confirmable, CheckFields
  <2>2. ~NothingShown
    BY <1>1, <2>1 DEF NothingShown
  <2> QED
    BY <2>2 DEF Inv, CardsTracked, Closing
<1>4. shown[d] = Cards
  BY <1>1, <1>3 DEF ShownTo, Inv, TypeOK, Cards, CheckFields
<1>5. soaked = SoakFrames /\ peers # {}
  BY <1>1 DEF Inv, ChecksEarned, CheckFields
<1>6. unit = unitBefore /\ session = NoSession
  BY <1>1 DEF Inv, UnitTracked, SessionAuthorized, Streaming, Prompts, Cards,
              CheckFields
<1>7. exit = "running"
  BY DEF Inv, TypeOK, UnitTracked, Ended
<1> QED
  BY <1>2, <1>3, <1>4, <1>5, <1>6, <1>7 DEF ShownTo

LEMMA FinalizeStep ==
  ASSUME Inv, Finalize
  PROVE  Inv'
<1>1. phase = "finalize" /\ phase' = "write" /\ report \in Report
  BY DEF Finalize, Inv, TypeOK
<1>2. \/ report' = Passed(report) /\ CanFinalizeFull(report)
      \/ report' = FailAt(report, "Reconnect")
  BY DEF Finalize
<1>3. failing' \in BOOLEAN
  BY DEF Finalize, Inv, TypeOK
<1>4. Updates(report, FailAt(report, "Reconnect"), {})
  BY <1>1, TerminalUpdates DEF Stages, CheckFields
<1>5. report' \in Report /\ report'.checks = report.checks
  <2>1. CASE report' = Passed(report)
    BY <1>1, <2>1, PassedReport
  <2>2. CASE report' = FailAt(report, "Reconnect")
    BY <2>2, <1>1, <1>4 DEF Updates, FailAt, RecordTerminal, Report
  <2> QED
    BY <1>2, <2>1, <2>2
<1>6. TypeOK'
  BY <1>1, <1>3, <1>5 DEF Inv, TypeOK, Finalize, Phases, world
<1>7. Located' /\ UnitTracked' /\ SessionAuthorized' /\ ChecksEarned'
  BY <1>1, <1>5 DEF Inv, Finalize, Located, UnitTracked, SessionAuthorized,
                    ChecksEarned, Before, Holding, Negotiating, Streaming,
                    Prompts, Cards, Ended, PassedCheck, world
<1>8. CardsTracked'
  BY <1>1, <1>5 DEF Inv, CardsTracked, NothingShown, ShownTo, Finalize, Before,
                    Negotiating, Streaming, Prompts, Cards, Closing,
                    PassedCheck, world
<1>9. PassLast'
  <2>1. CASE report' = Passed(report) /\ CanFinalizeFull(report)
    <3>1. PassIsEarned'
      BY <1>1, <2>1, VerdictEarned DEF PassIsEarned, Finalize, world
    <3> QED
      BY <1>1, <3>1 DEF PassLast
  <2>2. CASE report' = FailAt(report, "Reconnect")
    BY <1>1, <1>4, <2>2, NotPassedYet DEF Updates, Passing
  <2> QED
    BY <1>2, <2>1, <2>2
<1> QED
  BY <1>6, <1>7, <1>8, <1>9 DEF Inv

LEMMA WriteStep ==
  ASSUME Inv, WriteOutput
  PROVE  Inv'
<1>1. /\ phase = "write" /\ phase' = "done"
      /\ exit' \in {"ok", "error"}
      /\ written' \in {"none", "shareable", "private"}
  BY DEF WriteOutput, Ending
<1>2. TypeOK'
  BY <1>1 DEF Inv, TypeOK, WriteOutput, Phases, world
<1>3. Located' /\ UnitTracked' /\ SessionAuthorized' /\ ChecksEarned'
  BY <1>1 DEF Inv, WriteOutput, Located, UnitTracked, SessionAuthorized,
              ChecksEarned, Before, Holding, Negotiating, Streaming, Prompts,
              Cards, Ended, PassedCheck, world
<1>4. CardsTracked'
  BY <1>1 DEF Inv, CardsTracked, NothingShown, ShownTo, WriteOutput, Before,
              Negotiating, Streaming, Prompts, Cards, Closing, PassedCheck,
              world
<1>5. ASSUME Passing
      PROVE  exit' = "ok" => written' = "shareable"
  <2>1. Shareable(report)
    BY <1>5 DEF Inv, PassLast, PassIsEarned, EligibleForTested, Semantics,
                Shareable
  <2> QED
    BY <2>1 DEF WriteOutput, Ending
<1>6. PassLast'
  BY <1>1, <1>5 DEF Inv, PassLast, PassIsEarned, Passing, WriteOutput, world
<1> QED
  BY <1>2, <1>3, <1>4, <1>6 DEF Inv

-----------------------------------------------------------------------------
LEMMA InitInv == Init => Inv
<1> SUFFICES ASSUME Init
             PROVE  Inv
  OBVIOUS
<1>1. PICK scope \in Scopes, build \in BuildKinds :
             report = NewInProgress(scope, build)
  BY DEF Init
<1>2. /\ report \in Report
      /\ report.result = "none"
      /\ \A f \in CheckFields : report.checks[f] = "Unset"
  <2>1. /\ build \in Builds
        /\ [f \in CheckFields |-> "Unset"] \in [CheckFields -> Statuses]
        /\ NoProfile \in [label : Labels, route : Routes,
                          bytes : {0, 8, 36, 64}]
        /\ NoEvidence \in Evidence
    BY KindAssumption DEF Statuses, NoProfile, NoEvidence, Labels, Routes,
                          Evidence
  <2> QED
    BY <1>1, <2>1 DEF NewInProgress, Report, Results, Shapes, Policies,
                      Evidence
<1>3. bus \in [Addresses -> Displays \cup {Nobody}]
  BY DEF Init, Place
<1>4. /\ held \in BOOLEAN /\ wasActive \in BOOLEAN /\ failing \in BOOLEAN
      /\ stdinOpen \in BOOLEAN
  BY DEF Init
<1>5. session \in Sessions /\ lines \in Seq(BOOLEAN) /\ Len(lines) <= MaxAhead
  BY ValidationBounds DEF Init, NoSession, Sessions, Routes
<1>6. TypeOK
  BY <1>2, <1>3, <1>4, <1>5, ValidationBounds
     DEF Init, TypeOK, Phases, ReadKinds
<1>7. NothingShown
  BY <1>2, CountedFields DEF Init, NothingShown, PassedCheck, Counted
<1>8. Located /\ SessionAuthorized /\ CardsTracked
  BY <1>7 DEF Init, Located, SessionAuthorized, CardsTracked, Streaming,
              Prompts, Cards, Closing
<1>9. UnitTracked /\ ChecksEarned
  BY <1>2 DEF Init, UnitTracked, ChecksEarned, PassedCheck, CheckFields,
              Before, Holding, Negotiating, Streaming, Prompts, Cards, Ended
<1>10. PassLast
  BY <1>2 DEF PassLast, Passing
<1> QED
  BY <1>6, <1>8, <1>9, <1>10 DEF Inv

LEMMA NextInv == Inv /\ [Next]_vars => Inv'
<1> SUFFICES ASSUME Inv, [Next]_vars
             PROVE  Inv'
  OBVIOUS
<1>1. CASE Tool
  BY <1>1, PreflightStep, SnapshotStep, OwnershipStep, AcquireStep, SelectStep,
     ProbeStep, HandshakeStep, PrepareCardsStep, HoldCardStep, AnswerCardStep,
     SoakStep, ReplugStep, RescanStep, CompareStep, CloseStep, RestoreStep,
     FinalizeStep, WriteStep DEF Tool
<1>2. CASE Environment
  BY <1>2, UnplugStep, PlugStep, TypeStep, CloseStdinStep DEF Environment
<1>3. CASE UNCHANGED vars
  BY <1>3, StutterStep
<1> QED
  BY <1>1, <1>2, <1>3 DEF Next

LEMMA Invariant == Spec => []Inv
BY InitInv, NextInv, PTL DEF Spec

\* Every variable keeps the type its module gives it.
THEOREM TypeCorrect == Spec => []TypeOK
<1>1. Inv => TypeOK
  BY DEF Inv
<1> QED
  BY <1>1, Invariant, PTL

\* No frame is sent but with the guard held, the unit stopped, and to a display
\* that gave the answer which authorises its route.  (negotiate_hid407)
THEOREM FramesAuthorized == Spec => []OutputAuthorized
<1>1. Inv => OutputAuthorized
  BY DEF Inv, OutputAuthorized, SessionAuthorized, UnitTracked, Holding
<1> QED
  BY <1>1, Invariant, PTL

\* A run that took the daemon leaves the unit as it found it when it returns,
\* unless systemd refused to start it.  (ServiceGuard::restore)
THEOREM DaemonGivenBack == Spec => []DaemonAsFound
<1>1. Inv => DaemonAsFound
  BY DEF Inv, TypeOK, DaemonAsFound, UnitTracked, Holding, Negotiating,
         Streaming, Prompts, Cards
<1> QED
  BY <1>1, Invariant, PTL

\* A full pass was earned: one authorised display was shown every card and no
\* other was shown any, the whole soak was sent, a second display was there, the
\* daemon is back, and what is written may be shared.  (finalize_full_pass)
THEOREM PassEarned == Spec => []PassIsEarned
<1>1. Inv => PassIsEarned
  BY DEF Inv, PassLast, PassIsEarned
<1> QED
  BY <1>1, Invariant, PTL
=============================================================================
