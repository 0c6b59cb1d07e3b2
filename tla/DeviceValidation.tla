-------------------------- MODULE DeviceValidation ---------------------------
(***************************************************************************)
(* A run of `thermalwriter validate-device` (src/transport/validate_device *)
(* and src/service/guard.rs): find the display, take it from the daemon,   *)
(* negotiate, show three cards, stream, have the operator replug it, give  *)
(* the daemon back and write the report.                                   *)
(*                                                                         *)
(* Around the tool: the USB bus, where displays come and go between any    *)
(* two steps; the systemd unit; the operator, who may type ahead of the    *)
(* prompts; and calls that fail at any time.  Nothing but the tool starts   *)
(* or stops the unit here, and the tool is not killed: a run that is, by   *)
(* Ctrl-C for one, runs no destructor and leaves the unit stopped.         *)
(***************************************************************************)
EXTENDS Integers, Sequences, FiniteSets, ValidationReport

CONSTANTS
    Displays,   \* displays that exist
    IdOf,       \* VID:PID of each display
    ShapeOf,    \* descriptor shape of each display
    Attached,   \* addresses a display may have when the run starts
    Addresses,  \* bus addresses
    Device,     \* VID:PID given to --device
    Firmwares,  \* what each display may turn out to speak
    BuildKinds, \* builds of the validator
    Nobody,     \* no display
    Nowhere,    \* no address
    SoakFrames, \* frames of the soak
    MaxMoves,   \* bound: displays plugged and unplugged in a behaviour
    MaxAhead    \* bound: lines the operator types ahead

ASSUME DisplayAssumption ==
    /\ ShapeOf \in [Displays -> Shapes \ {"none"}]
    /\ Attached \in [Displays -> SUBSET (Addresses \cup {Nowhere})]
    /\ Nobody \notin Displays /\ Nowhere \notin Addresses
Protocols == {"pm58", "pm128", "pm68", "known", "unknown"}

ASSUME KindAssumption ==
    /\ Firmwares \in [Displays -> SUBSET Protocols]
    /\ BuildKinds \subseteq Builds
ASSUME ValidationBounds ==
    SoakFrames \in Nat /\ MaxMoves \in Nat /\ MaxAhead \in Nat

Cards == {"TargetMarker", "Orientation", "Colors"}
Phases == {"preflight", "snapshot", "ownership", "acquire", "select", "probe",
           "handshake", "cards", "soak", "replug", "rescan", "compare",
           "close", "restore", "finalize", "write", "done"}
           \cup Cards \cup {"SecondDisplayUnchanged"}

VARIABLES
    phase,      \* of the run
    report,     \* HardwareValidationReport
    hint,       \* --bus-address, or Nowhere
    selected,   \* address of the target
    target,     \* the display that was selected
    peers,      \* peers_before
    guard,      \* ServiceGuard: "none", "held", "restored", "failed"
    wasActive,  \* was_active of the guard
    session,    \* the open session: its display, route, is it attached
    passive,    \* passive Type2 response
    held,       \* a frame of the card in question was sent
    shown,      \* cards each display was shown
    soaked,     \* frames of the soak sent
    reconnected,\* the display taken for the target after the replug
    failing,    \* an error is on its way out
    exit,       \* "running", "ok", "error"
    written,    \* report.toml: "none", "shareable", "private"
    bus,        \* the display at each address
    firmware,   \* what each display speaks
    unit,       \* thermalwriter.service: "active" or "inactive"
    unitBefore, \* the same, before the run
    lines,      \* lines on stdin, not read yet
    stdinOpen,  \* may more come
    moves       \* displays moved so far

tool == <<phase, report, hint, selected, target, peers, guard, wasActive,
          session, passive, held, shown, soaked, reconnected, failing, exit,
          written>>
world == <<bus, firmware, unit, unitBefore, lines, stdinOpen, moves>>
vars == <<tool, world>>

NoSession == [display |-> Nobody, route |-> "none", attached |-> FALSE]
Sessions == [display : Displays \cup {Nobody}, route : Routes,
             attached : BOOLEAN]

TypeOK ==
    /\ phase \in Phases /\ report \in Report
    /\ hint \in Addresses \cup {Nowhere}
    /\ selected \in Addresses \cup {Nowhere}
    /\ target \in Displays \cup {Nobody}
    /\ peers \subseteq {IdOf[d] : d \in Displays} \X Addresses
    /\ guard \in {"none", "held", "restored", "failed"}
    /\ wasActive \in BOOLEAN
    /\ session \in Sessions
    /\ passive \in ReadKinds
    /\ held \in BOOLEAN /\ failing \in BOOLEAN
    /\ shown \in [Displays -> SUBSET Cards]
    /\ soaked \in 0..SoakFrames
    /\ reconnected \in Displays \cup {Nobody}
    /\ exit \in {"running", "ok", "error"}
    /\ written \in {"none", "shareable", "private"}
    /\ bus \in [Addresses -> Displays \cup {Nobody}]
    /\ firmware \in [Displays -> Protocols]
    /\ unit \in {"active", "inactive"} /\ unitBefore \in {"active", "inactive"}
    /\ lines \in Seq(BOOLEAN) /\ Len(lines) <= MaxAhead
    /\ stdinOpen \in BOOLEAN
    /\ moves \in 0..MaxMoves

Place(where) ==
    [a \in Addresses |-> IF \E d \in Displays : where[d] = a
                         THEN CHOOSE d \in Displays : where[d] = a
                         ELSE Nobody]

Init ==
    /\ phase = "preflight"
    /\ \E scope \in Scopes, build \in BuildKinds :
          report = NewInProgress(scope, build)
    /\ hint \in Addresses \cup {Nowhere}
    /\ selected = Nowhere /\ target = Nobody /\ peers = {}
    /\ guard = "none" /\ wasActive = FALSE
    /\ session = NoSession /\ passive = "none"
    /\ held = FALSE /\ shown = [d \in Displays |-> {}] /\ soaked = 0
    /\ reconnected = Nobody
    /\ failing = FALSE /\ exit = "running" /\ written = "none"
    /\ \E where \in [Displays -> Addresses \cup {Nowhere}] :
          /\ \A d \in Displays : where[d] \in Attached[d]
          /\ \A d, e \in Displays : where[d] = where[e] /\ where[d] # Nowhere
                                      => d = e
          /\ bus = Place(where)
    /\ firmware \in [Displays -> Protocols]
    /\ \A d \in Displays : firmware[d] \in Firmwares[d]
    /\ unit \in {"active", "inactive"} /\ unitBefore = unit
    /\ lines = <<>> /\ stdinOpen = TRUE /\ moves = 0

-----------------------------------------------------------------------------
(* The bus, the operator.  Both stand still once nothing of theirs is read *)
(* any more.                                                               *)

PlugPhases == Phases \ {"close", "restore", "finalize", "write", "done"}
TypePhases == PlugPhases \ {"rescan", "compare"}

Unplug(a) ==
    /\ phase \in PlugPhases /\ moves < MaxMoves /\ bus[a] # Nobody
    /\ bus' = [bus EXCEPT ![a] = Nobody]
    /\ session' = IF session.display = bus[a]
                  THEN [session EXCEPT !.attached = FALSE] ELSE session
    /\ moves' = moves + 1
    /\ UNCHANGED <<phase, report, hint, selected, target, peers, guard,
                   wasActive, passive, held, shown, soaked, reconnected,
                   failing, exit, written, firmware, unit, unitBefore, lines,
                   stdinOpen>>

Plug(d, a) ==
    /\ phase \in PlugPhases /\ moves < MaxMoves /\ bus[a] = Nobody
    /\ \A b \in Addresses : bus[b] # d
    /\ bus' = [bus EXCEPT ![a] = d]
    /\ moves' = moves + 1
    /\ UNCHANGED <<tool, firmware, unit, unitBefore, lines, stdinOpen>>

Type(answer) ==
    /\ phase \in TypePhases /\ stdinOpen /\ Len(lines) < MaxAhead
    /\ lines' = Append(lines, answer)
    /\ UNCHANGED <<tool, bus, firmware, unit, unitBefore, stdinOpen, moves>>

CloseStdin ==
    /\ phase \in TypePhases /\ stdinOpen
    /\ stdinOpen' = FALSE
    /\ UNCHANGED <<tool, bus, firmware, unit, unitBefore, lines, moves>>

-----------------------------------------------------------------------------
(* Inventory                                                               *)

Entries == {a \in Addresses : bus[a] # Nobody /\ IdOf[bus[a]] = Device}

\* Addresses --bus-address, or its absence, selects among the entries.
Selection(entries, where) ==
    IF where # Nowhere THEN entries \cap {where}
    ELSE IF Cardinality(entries) = 1 THEN entries ELSE {}

\* The peers of the display at an address; an id whose inventory fails is
\* passed over.
Peers(except, unread) ==
    {<<IdOf[bus[a]], a>> :
        a \in {b \in Addresses \ {except} :
                 bus[b] # Nobody /\ IdOf[bus[b]] \notin unread}}

Ids == {IdOf[d] : d \in Displays}

-----------------------------------------------------------------------------
(* Before the display is touched                                           *)

\* It fails before or after a display was selected.
PreflightFails(stage, a) ==
    /\ report' = FailAt(report, stage)
    /\ selected' = a /\ target' = IF a = Nowhere THEN Nobody ELSE bus[a]
    /\ failing' = TRUE /\ phase' = "write"

\* The hidraw node of a HID display cannot be told from the others.
CorrelationFails(a) ==
    /\ ShapeOf[bus[a]] # "bulk"
    /\ PreflightFails("HidrawCorrelation", a)

\* What is recorded of the selected display.  A passive run notes the checks it
\* does not make.
Identified(shape, policy) ==
    LET seen == RecordChecks(
                  RecordCheck(
                    SetPolicy(SetFingerprint(report, shape, shape # "bulk"),
                              policy), "Enumerated", "Pass"),
                  {"PassiveAllowlist"},
                  IF policy # "StopUnsupportedShape" THEN "Pass" ELSE "Fail")
    IN  IF report.scope = "Full" THEN seen
        ELSE RecordChecks(seen, CheckFields \ MandatoryPassive,
                          "NotApplicable")

\* A display that is not allowed is refused; a passive run is over.
Concluded(noted, allowed) ==
    LET alone == report.scope = "Passive"
        ok == allowed /\ (alone => CanFinalizePassive(noted))
    IN  /\ report' = IF ~allowed THEN FailAt(noted, "PassiveAllowlist")
                     ELSE IF alone /\ ok THEN Passed(noted) ELSE noted
        /\ failing' = ~ok
        /\ phase' = IF ok /\ ~alone THEN "snapshot" ELSE "write"

Preflight ==
    /\ phase = "preflight"
    /\ \/ PreflightFails("Inventory", Nowhere)           \* enumeration error
       \/ /\ Selection(Entries, hint) = {}
          /\ PreflightFails(IF Entries = {} THEN "Inventory" ELSE "Selection",
                            Nowhere)
       \/ \E a \in Selection(Entries, hint) :
             \/ CorrelationFails(a)
             \/ LET shape == ShapeOf[bus[a]]
                    policy == SelectPolicy(shape, shape # "bulk")
                IN  /\ selected' = a /\ target' = bus[a]
                    /\ Concluded(Identified(shape, policy),
                                 policy # "StopUnsupportedShape")
    /\ UNCHANGED <<hint, peers, guard, wasActive, session, passive, held,
                   shown, soaked, reconnected, exit, written, world>>

SnapshotPeers ==
    /\ phase = "snapshot"
    /\ \E unread \in SUBSET Ids : peers' = Peers(selected, unread)
    /\ phase' = "ownership"
    /\ UNCHANGED <<report, hint, selected, target, guard, wasActive, session,
                   passive, held, shown, soaked, reconnected, failing, exit,
                   written, world>>

\* An error listing the hidraw nodes leaves by `?`, without a report.
BuildOwnershipTarget ==
    /\ phase = "ownership"
    /\ \/ phase' = "acquire" /\ UNCHANGED exit
       \/ phase' = "done" /\ exit' = "error"
    /\ UNCHANGED <<report, hint, selected, target, peers, guard, wasActive,
                   session, passive, held, shown, soaked, reconnected,
                   failing, written, world>>

\* is_concurrently_owned, once the unit is stopped: somebody has the daemon's
\* bus name or the display's node open, nobody has, or it cannot be told.
Ownership == {"owned", "free", "unknown"}

\* Every error leaves by `?`, before there is a guard to restore anything.
NotAcquired ==
    /\ report' = FailAt(RecordCheck(report, "ExclusiveOwner", "Fail"),
                        "ExclusiveOwner")
    /\ failing' = TRUE /\ phase' = "write"
    /\ UNCHANGED <<guard, wasActive>>

Acquired(active) ==
    /\ wasActive' = active
    /\ guard' = "held"
    /\ report' = RecordCheck(report, "ExclusiveOwner", "Pass")
    /\ phase' = "select" /\ UNCHANGED failing

\* Faulty variant: was_active is asked after the unit was stopped.
Acquire_AsksLate ==
    /\ phase = "acquire"
    /\ unit' = "inactive"
    /\ Acquired(unit' = "active")
    /\ UNCHANGED <<hint, selected, target, peers, session, passive, held,
                   shown, soaked, reconnected, exit, written, bus, firmware,
                   unitBefore, lines, stdinOpen, moves>>

\* systemctl says whether the unit is active and stops it if it is; either
\* may fail, and a stop that fails may have stopped it.
SystemdUserControl(succeeds) ==
    unit' \in {"inactive"} \cup IF succeeds THEN {} ELSE {unit}

Acquire ==
    /\ phase = "acquire"
    /\ \/ SystemdUserControl(FALSE) /\ NotAcquired
       \/ \E owner \in Ownership :
             /\ SystemdUserControl(TRUE)
             /\ IF owner = "free" THEN Acquired(unit = "active")
                                 ELSE NotAcquired
    /\ UNCHANGED <<hint, selected, target, peers, session, passive, held,
                   shown, soaked, reconnected, exit, written, bus, firmware,
                   unitBefore, lines, stdinOpen, moves>>

-----------------------------------------------------------------------------
(* Negotiation.  Every failure goes straight to the restore of the daemon; *)
(* the session, if any, is dropped on the way.                             *)

NegotiationFails(r) ==
    /\ report' = r
    /\ failing' = TRUE /\ session' = NoSession /\ phase' = "restore"

\* The hidraw node is looked up again; without it the run stops.
SelectPreHandshakePolicy ==
    /\ phase = "select"
    /\ \E correlated \in BOOLEAN :
          LET policy == SelectPolicy(report.shape, correlated)
              r == SetPolicy(report, policy)
          IN  IF policy = "Hid407ReadOnlyProbe"
              THEN /\ report' = r /\ phase' = "probe"
                   /\ UNCHANGED <<failing, session>>
              ELSE NegotiationFails(FailAt(r, "PassiveAllowlist"))
    /\ UNCHANGED <<hint, selected, target, peers, guard, wasActive, passive,
                   held, shown, soaked, reconnected, exit, written, world>>

\* What a display may answer to a bounded read: external.
Responses(d) ==
    {"malformed"} \cup IF firmware[d] = "pm58" THEN {"pm58"}
                       ELSE {"empty", firmware[d]}

\* What comes within the timeout; a signal does not prolong the wait.
poll_hidraw_for_read_deadline(d) == Responses(d) \cup {"empty"}

\* An error, a negative count or one above the capacity stops the session.
read_bounded(d) == poll_hidraw_for_read_deadline(d) \cup {"failed"}

\* authorize_hid_report_writes: the exact short answer of a PM58.
Authorizes(observation) ==
    /\ observation.label = "UpstreamPm58" /\ observation.bytes = 8
    /\ WritesAllowed(observation) /\ observation.route = "HidReport"

\* The authorization is that of the bytes this session has read itself.
authorize_writes(kind) == kind = "pm58" /\ Authorizes(Observation(kind))

Open(d, route) == [display |-> d, route |-> route, attached |-> TRUE]

ReadFails(r) ==
    /\ \E safe \in BOOLEAN :
          NegotiationFails(FailAt(RecordReadFailure(r, safe), "Handshake"))
    /\ UNCHANGED passive

\* Classify the answer and record what was negotiated: a PM58 keeps the
\* session, whatever else is well-formed asks for one over libusb.
Answered(r, d, kind) ==
    LET observed == kind \notin {"empty", "unknown"}
        recorded == IF observed THEN RecordProfile(r, kind) ELSE r
        shook    == RecordCheck(recorded, "Handshake", "Pass")
    IN  /\ passive' = kind
        /\ IF \/ kind = "malformed"
              \/ observed /\ ~CanRecordProfile(r, kind)
           THEN NegotiationFails(FailAt(r, "Negotiation"))
           ELSE IF authorize_writes(kind)
           THEN /\ report' = RecordCheck(RecordWriteEvidence(shook),
                                        "ActiveWrite", "Pass")
                /\ session' = Open(d, "HidReport")
                /\ phase' = "cards" /\ UNCHANGED failing
           ELSE /\ report' = shook
                /\ session' = NoSession
                /\ phase' = "handshake" /\ UNCHANGED failing

\* Open the hidraw node at the selected address, whatever display is there
\* by now, and read once.
Probe ==
    /\ phase = "probe"
    /\ \/ NegotiationFails(FailAt(report, "Handshake")) /\ UNCHANGED passive
       \/ /\ bus[selected] # Nobody /\ ShapeOf[bus[selected]] # "bulk"
          /\ LET d == bus[selected]
                 opened == SetBackend(report)
             IN  \E kind \in read_bounded(d) :
                    \/ kind = "failed" /\ ReadFails(opened)
                    \/ /\ kind # "failed"
                       /\ Answered(RecordRead(opened, kind), d, kind)
    /\ UNCHANGED <<hint, selected, target, peers, guard, wasActive, held,
                   shown, soaked, reconnected, exit, written, world>>

\* Faulty variant: any answer over libusb authorises the writes.
HandshakePm128_AnyAnswer ==
    /\ phase = "handshake"
    /\ \/ NegotiationFails(report)
       \/ /\ bus[selected] # Nobody /\ ShapeOf[bus[selected]] = "type2exact"
          /\ report' = RecordCheck(report, "ActiveWrite", "Pass")
          /\ session' = Open(bus[selected], "HidInterrupt")
          /\ phase' = "cards" /\ UNCHANGED failing
    /\ UNCHANGED <<hint, selected, target, peers, guard, wasActive, passive,
                   held, shown, soaked, reconnected, exit, written, world>>

\* A fresh libusb session must answer as PM128; a failure sets no result.
HandshakePm128 ==
    /\ phase = "handshake"
    /\ \/ NegotiationFails(report)
       \/ /\ bus[selected] # Nobody /\ ShapeOf[bus[selected]] = "type2exact"
          /\ firmware[bus[selected]] = "pm128"
          /\ report' = RecordCheck(report, "ActiveWrite", "Pass")
          /\ session' = Open(bus[selected], "HidInterrupt")
          /\ phase' = "cards" /\ UNCHANGED failing
    /\ UNCHANGED <<hint, selected, target, peers, guard, wasActive, passive,
                   held, shown, soaked, reconnected, exit, written, world>>

-----------------------------------------------------------------------------
(* Cards, soak, reconnect                                                  *)

Fails(r) == report' = r /\ failing' = TRUE /\ phase' = "close"
Goes(r, next) == report' = r /\ phase' = next /\ UNCHANGED failing

\* Cards are generated, encoded and saved; a failure sets no result.
PrepareCards ==
    /\ phase = "cards"
    /\ held' = FALSE
    /\ \/ Fails(report)
       \/ Goes(RecordCheck(report, "ActiveWrite", "Pass"), "TargetMarker")
    /\ UNCHANGED <<hint, selected, target, peers, guard, wasActive, session,
                   passive, shown, soaked, reconnected, exit, written, world>>

Prompts == Cards \cup {"SecondDisplayUnchanged"}

\* The card on the displays while a question is open.
CardOf(p) == IF p = "SecondDisplayUnchanged" THEN "Colors" ELSE p

USERSPACE_SUBMIT_BYTES == 513

\* What writing the reports of one frame may return: external.
Returns == {<<513, 513>>, <<513, 512>>, <<-1>>}

\* A report was taken whole, or the session stops.
write_protocol_chunk(s, returned) ==
    s.attached /\ returned = USERSPACE_SUBMIT_BYTES

write_chunked(s, returned) ==
    \A i \in DOMAIN returned : write_protocol_chunk(s, returned[i])

\* A PM128 takes the frame in one transfer.
send_encoded(s, returned) ==
    IF s.route = "HidReport" THEN write_chunked(s, returned) ELSE s.attached

\* The hold loop sends the card, again and again, until a line is there.
HoldCard ==
    /\ phase \in Prompts
    /\ \/ /\ \E returned \in Returns : send_encoded(session, returned)
          /\ held' = TRUE
          /\ shown' = [shown EXCEPT ![session.display] =
                         @ \cup {CardOf(phase)}]
          /\ UNCHANGED <<report, failing, phase>>
       \/ Fails(FailAt(report, "ActiveWrite")) /\ UNCHANGED <<held, shown>>
    /\ UNCHANGED <<hint, selected, target, peers, guard, wasActive, session,
                   passive, soaked, reconnected, exit, written, world>>

NextPrompt(p) ==
    CASE p = "TargetMarker" -> "Orientation"
      [] p = "Orientation"  -> "Colors"
      [] p = "Colors" /\ peers # {} -> "SecondDisplayUnchanged"
      [] OTHER -> "soak"

Confirmed(p) ==
    LET r == RecordCheck(report, p, "Pass")
    IN  IF p = "Colors" /\ peers = {}
        THEN RecordCheck(r, "SecondDisplayUnchanged", "NotApplicable") ELSE r

\* The oldest line on stdin answers, whenever it was typed.
AnswerCard ==
    /\ phase \in Prompts /\ held /\ lines # <<>>
    /\ lines' = Tail(lines)
    /\ held' = FALSE
    /\ IF Head(lines) THEN Goes(Confirmed(phase), NextPrompt(phase))
       ELSE Fails(FailAt(report, phase))
    /\ UNCHANGED <<hint, selected, target, peers, guard, wasActive, session,
                   passive, shown, soaked, reconnected, exit, written, bus,
                   firmware, unit, unitBefore, stdinOpen, moves>>

Soak ==
    /\ phase = "soak"
    /\ \/ /\ soaked < SoakFrames
          /\ \E returned \in Returns : send_encoded(session, returned)
          /\ soaked' = soaked + 1 /\ UNCHANGED <<report, failing, phase>>
       \/ /\ soaked = SoakFrames
          /\ Goes(RecordCheck(report, "Soak", "Pass"), "replug")
          /\ UNCHANGED soaked
       \/ /\ soaked < SoakFrames
          /\ Fails(FailAt(report, "Soak")) /\ UNCHANGED soaked
    /\ UNCHANGED <<hint, selected, target, peers, guard, wasActive, session,
                   passive, held, shown, reconnected, exit, written, world>>

\* Blocks for a line; the end of stdin is a no.
AnswerReplug ==
    /\ phase = "replug"
    /\ \/ /\ lines # <<>>
          /\ lines' = Tail(lines)
          /\ IF Head(lines) THEN Goes(report, "rescan")
             ELSE Fails(FailAt(report, "Reconnect"))
       \/ /\ lines = <<>> /\ ~stdinOpen
          /\ Fails(FailAt(report, "Reconnect"))
          /\ UNCHANGED lines
    /\ UNCHANGED <<hint, selected, target, peers, guard, wasActive, session,
                   passive, held, shown, soaked, reconnected, exit, written,
                   bus, firmware, unit, unitBefore, stdinOpen, moves>>

\* Addresses resolve_reconnect takes the target to be at, at most one.
Reconnected(entries) ==
    IF hint # Nowhere THEN entries \cap {hint}
    ELSE LET moved == entries \ {selected}
         IN  IF Cardinality(moved) = 1 THEN moved
             ELSE IF moved = {} THEN entries ELSE {}

\* Faulty variant: the scan is repeated until the display is back.
Rescan_Waits ==
    /\ phase = "rescan"
    /\ \E a \in Reconnected(Entries) :
          /\ selected' = a /\ reconnected' = bus[a]
          /\ Goes(report, "compare")
    /\ UNCHANGED <<hint, target, peers, guard, wasActive, session, passive,
                   held, shown, soaked, exit, written, world>>

Rescan ==
    /\ phase = "rescan"
    /\ \/ Fails(FailAt(report, "Reconnect"))             \* enumeration error
          /\ UNCHANGED <<selected, reconnected>>
       \/ /\ Reconnected(Entries) = {}
          /\ Fails(AbortAt(report, "Reconnect"))
          /\ UNCHANGED <<selected, reconnected>>
       \/ \E a \in Reconnected(Entries) :
             /\ selected' = a /\ reconnected' = bus[a]
             /\ Goes(report, "compare")
    /\ UNCHANGED <<hint, target, peers, guard, wasActive, session, passive,
                   held, shown, soaked, exit, written, world>>

ComparePeers ==
    /\ phase = "compare"
    /\ \E unread \in SUBSET Ids :
          IF Peers(selected, unread) = peers
          THEN Goes(RecordCheck(report, "Reconnect", "Pass"), "close")
          ELSE Fails(AbortAt(report, "Reconnect"))
    /\ UNCHANGED <<hint, selected, target, peers, guard, wasActive, session,
                   passive, held, shown, soaked, reconnected, exit, written,
                   world>>

-----------------------------------------------------------------------------
(* Giving back                                                             *)

CloseOutput ==
    /\ phase = "close"
    /\ session' = NoSession
    /\ phase' = "restore"
    /\ UNCHANGED <<report, hint, selected, target, peers, guard, wasActive,
                   passive, held, shown, soaked, reconnected, failing, exit,
                   written, world>>

\* ServiceGuard::restore: started again only if it was active before.
restore(started) ==
    /\ unit' = IF wasActive /\ started THEN "active" ELSE unit
    /\ guard' = IF started THEN "restored" ELSE "failed"

\* restore_daemon: the check is lost when the run has failed already.
RestoreDaemon ==
    /\ phase = "restore" /\ guard = "held"
    /\ \E started \in IF wasActive THEN BOOLEAN ELSE {TRUE} :
          /\ restore(started)
          /\ report' = RecordCheck(report, "DaemonRestored",
                                   IF started THEN "Pass" ELSE "Fail")
    /\ phase' = IF failing THEN "write" ELSE "finalize"
    /\ UNCHANGED <<hint, selected, target, peers, wasActive, session, passive,
                   held, shown, soaked, reconnected, failing, exit, written,
                   bus, firmware, unitBefore, lines, stdinOpen, moves>>

Finalize ==
    /\ phase = "finalize"
    /\ IF CanFinalizeFull(report)
       THEN report' = Passed(report) /\ UNCHANGED failing
       ELSE report' = FailAt(report, "Reconnect") /\ failing' = TRUE
    /\ phase' = "write"
    /\ UNCHANGED <<hint, selected, target, peers, guard, wasActive, session,
                   passive, held, shown, soaked, reconnected, exit, written,
                   world>>

\* How the run ends: as it went, if all files could be written.
Ending(all) == IF all /\ ~failing THEN "ok" ELSE "error"

\* Writing may fail before or after report.toml.
WriteOutput ==
    /\ phase = "write"
    /\ LET form == IF Shareable(report) THEN "shareable" ELSE "private"
       IN  \/ written' = form /\ exit' = Ending(TRUE)
           \/ written' \in {"none", form} /\ exit' = Ending(FALSE)
    /\ phase' = "done"
    /\ UNCHANGED <<report, hint, selected, target, peers, guard, wasActive,
                   session, passive, held, shown, soaked, reconnected,
                   failing, world>>

-----------------------------------------------------------------------------
Tool ==
    \/ Preflight \/ SnapshotPeers \/ BuildOwnershipTarget \/ Acquire
    \/ SelectPreHandshakePolicy \/ Probe \/ HandshakePm128
    \/ PrepareCards \/ HoldCard \/ AnswerCard \/ Soak
    \/ AnswerReplug \/ Rescan \/ ComparePeers
    \/ CloseOutput \/ RestoreDaemon \/ Finalize \/ WriteOutput

Environment ==
    \/ \E a \in Addresses : Unplug(a)
    \/ \E d \in Displays, a \in Addresses : Plug(d, a)
    \/ \E answer \in BOOLEAN : Type(answer)
    \/ CloseStdin

Next == Tool \/ Environment

\* The tool runs on; an operator whose stdin is open types a line when the
\* tool has none left.
Fairness ==
    /\ WF_vars(Tool)
    /\ WF_vars(lines = <<>> /\ phase \in Prompts \cup {"replug"}
               /\ \E answer \in BOOLEAN : Type(answer))

Spec == Init /\ [][Next]_vars /\ Fairness

-----------------------------------------------------------------------------
(* Properties                                                              *)

Ended == exit \in {"ok", "error"}
Passing == report.result = "Pass" /\ report.scope = "Full"

\* A full pass was earned: one display was shown every card and the whole
\* soak, no other was shown any, that display speaks an authorised protocol,
\* a second display was there to be asked about, the daemon is as it was
\* before the run, and the report can still be promoted to Tested.
\* (finalize_full_pass against everything before it)
PassIsEarned ==
    Passing =>
        /\ EligibleForTested(report)
        /\ \E d \in Displays :
              /\ shown[d] = Cards /\ firmware[d] \in {"pm58", "pm128"}
              /\ ShapeOf[d] # "bulk"
              /\ \A e \in Displays \ {d} : shown[e] = {}
        /\ soaked = SoakFrames
        /\ peers # {}
        /\ unit = unitBefore /\ session = NoSession
        /\ exit = "ok" => written = "shareable"

\* While a session that may write is open the daemon is stopped, the guard
\* is held, and the display on the other end gave the one answer that
\* authorises its route.  The daemon is never started into an open session.
\* (ServiceGuard, negotiate_hid407, restore_daemon)
OutputAuthorized ==
    session # NoSession =>
        /\ guard = "held" /\ unit = "inactive"
        /\ firmware[session.display] = IF session.route = "HidReport"
                                       THEN "pm58" ELSE "pm128"

\* Once the guard was acquired, a run that returns leaves the unit as it
\* found it, unless systemd refused to start it.  (ServiceGuard::restore)
DaemonAsFound ==
    Ended /\ guard # "none" => unit = unitBefore \/ guard = "failed"

\* A run whose operator goes on answering comes to its end, whatever fails
\* and whatever is unplugged.  (with stdin closed a card is held for ever)
Ends == [](exit = "running" => stdinOpen) => <>(exit # "running")
==============================================================================
