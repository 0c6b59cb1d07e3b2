---------------------------- MODULE DeviceSessions ----------------------------
(***************************************************************************)
(* How the daemon gets hold of its displays and writes to them             *)
(* (src/transport): the scan and the selection of discovery.rs, the exact  *)
(* policies of policy.rs, the two backends of hid_lcd.rs, the bulk one of  *)
(* bulk_usb.rs, the null one, and the part of tick.rs that drops a group.  *)
(*                                                                         *)
(* Connecting is a long walk with the bus changing under it.  A device is  *)
(* known by where it is, the address, which is looked up again at each     *)
(* open; only an open handle stays with one device.  So every step that    *)
(* calls the kernel is an action of its own.  A display's identity, its    *)
(* descriptor shape and its kernel node are kept; bytes are not.           *)
(***************************************************************************)
EXTENDS Naturals, Sequences, FiniteSets

CONSTANTS
    Devices,     \* what may be on the bus
    IdOf,        \* its VID:PID; identities are numbered in their order
    ShapeOf,     \* "square" and "type2" are the exact descriptors
    Firmwares,   \* how it may answer, fixed for a behaviour
    Addresses,   \* bus addresses
    Nodes,       \* hidraw device nodes
    Selections,  \* what the configuration and the environment may ask for
    Chunks,      \* transfers that carry one frame
    MaxMoves,    \* bound on plugging and unplugging
    MaxFaults,   \* bound on I/O errors
    Nobody, Nowhere, NoNode

Shapes == {"square", "type2", "hid", "other"}
Answers == {"pm4sub5", "pm58", "pm128", "foreign"}

ASSUME SessionsAssumption ==
    /\ Addresses \subseteq Nat /\ Nowhere \notin Addresses
    /\ NoNode \notin Nodes /\ Nobody \notin Devices
    /\ IdOf \in [Devices -> Nat] /\ ShapeOf \in [Devices -> Shapes]
    /\ \A d \in Devices : Firmwares[d] \subseteq Answers
    /\ IsFiniteSet(Devices)
    /\ Chunks \in Nat \ {0} /\ MaxMoves \in Nat /\ MaxFaults \in Nat

\* An exact descriptor names its VID:PID (exact_square_descriptor,
\* exact_type2_descriptor).
ASSUME DescriptorAssumption ==
    \A d, e \in Devices :
        ShapeOf[d] = ShapeOf[e] /\ ShapeOf[d] \in {"square", "type2"}
            => IdOf[d] = IdOf[e]

ASSUME SelectionsAssumption ==
    \A w \in Selections : /\ w.mode \in {"auto", "id", "all", "targets"}
                          /\ w.targets \in Seq(Nat)
                          /\ w.forced \in BOOLEAN /\ w.profile \in BOOLEAN
                          /\ w.mode = "id" => Len(w.targets) = 1

VARIABLES
    bus,         \* where each device is
    node,        \* the hidraw node the kernel gives it
    firmware,    \* how it answers
    claims,      \* what the kernel has given to this process
    moves,       \* plugging so far
    faults,      \* I/O errors so far
    wanted,      \* the selection, fixed at start
    phase,       \* "idle", "opening" or "up"
    chosen,      \* the devices of the scan that were selected
    opened,      \* their sessions, opened one after the other
    current,     \* the session being negotiated
    sending      \* the output the frame is being written to

vars == <<bus, node, firmware, claims, moves, faults, wanted, phase, chosen,
          opened, current, sending>>
env == <<bus, node, firmware, moves>>
fixed == <<firmware, wanted>>

-----------------------------------------------------------------------------
(* Sessions                                                                *)

Routes == {"none", "bulk", "hidraw", "libusb", "null"}
Policies == {"none", "Square87adPm4", "Type2Pm58", "Type2Pm128", "null"}
Steps == {"none", "identify", "bulk", "handshake", "correlate", "node",
          "authenticate", "read", "interrupt", "pm128"}

\* `sent` counts the transfers of the frame on the wire; `torn` says that a
\* frame was begun in the middle of another.
Session == [device : Devices \cup {Nobody}, id : Nat,
            address : Addresses \cup {0}, route : Routes, policy : Policies,
            live : BOOLEAN, sent : 0..Chunks, torn : BOOLEAN]

NoSession == [device |-> Nobody, id |-> 0, address |-> 0, route |-> "none",
              policy |-> "none", live |-> FALSE, sent |-> 0, torn |-> FALSE]

NullOutput == [NoSession EXCEPT !.route = "null", !.policy = "null"]

Idle == [step |-> "none", name |-> NoNode, session |-> NoSession]

At(a) == {d \in Devices : bus[d] = a}
Named(n) == {d \in Devices : node[d] = n}

HasNode(d) == ShapeOf[d] \in {"type2", "hid"}

\* exact_descriptor_policy: the whole descriptor, or no route.
Exact(d) == ShapeOf[d] \in {"square", "type2"}

\* What closing or dropping a session gives back.
Held(s) == IF s.live THEN {<<s.device, s.route>>} ELSE {}
HeldBy(sessions) == UNION {Held(sessions[i]) : i \in DOMAIN sessions}

-----------------------------------------------------------------------------
(* Scan and selection                                                      *)

Entry == [id : Nat, address : Addresses]

Found == {[id |-> IdOf[d], address |-> bus[d]] :
            d \in {e \in Devices : bus[e] # Nowhere /\ Exact(e)}}

Before(x, y) == x.id < y.id \/ (x.id = y.id /\ x.address < y.address)

\* sort_discovered
Sorted(S) == {q \in [1..Cardinality(S) -> S] :
                \A i, j \in 1..Cardinality(S) : i < j => Before(q[i], q[j])}

Matching(w, S) ==
    CASE w.mode = "id" -> {e \in S : e.id = w.targets[1]}
      [] w.mode = "targets" -> {e \in S : \E i \in DOMAIN w.targets :
                                             e.id = w.targets[i]}
      [] OTHER -> S

Distinct(t) == \A i, j \in DOMAIN t : t[i] = t[j] => i = j

\* The first unused match of each target, in discovery order: the targets
\* are distinct, so no match is ever contended.
ByTarget(w, S) ==
    {q \in [DOMAIN w.targets -> S] :
        /\ Distinct(w.targets)
        /\ \A i \in DOMAIN q :
             /\ q[i].id = w.targets[i]
             /\ \A e \in S : e.id = q[i].id => q[i].address <= e.address}

\* One display, or an error: none matches, or it cannot be told which.
SelectOne(w, S) ==
    IF Cardinality(Matching(w, S)) = 1 THEN Sorted(Matching(w, S)) ELSE {}

\* The one selection, or none.
Select(w, S) ==
    CASE w.mode = "targets" -> ByTarget(w, S)
      [] w.mode = "all"     -> Sorted(S)
      [] OTHER              -> SelectOne(w, S)

\* With a null transport, or a profile to fall back on, one display at most
\* can be faked.
MayFake == Len(wanted.targets) <= 1

-----------------------------------------------------------------------------
(* Connecting                                                              *)

Init ==
    /\ bus \in [Devices -> Addresses \cup {Nowhere}]
    /\ \A d, e \in Devices : bus[d] = bus[e] /\ bus[d] # Nowhere => d = e
    /\ node \in [Devices -> Nodes \cup {NoNode}]
    /\ \A d, e \in Devices : node[d] = node[e] /\ node[d] # NoNode => d = e
    /\ \A d \in Devices : node[d] # NoNode <=> (HasNode(d) /\ bus[d] # Nowhere)
    /\ firmware \in [Devices -> Answers]
    /\ \A d \in Devices : firmware[d] \in Firmwares[d]
    /\ wanted \in Selections
    /\ claims = {} /\ moves = 0 /\ faults = 0
    /\ phase = "idle" /\ chosen = <<>> /\ opened = <<>>
    /\ current = Idle /\ sending = 1

Fake ==
    /\ phase' = "up" /\ opened' = <<NullOutput>> /\ chosen' = <<>>
    /\ UNCHANGED <<bus, node, firmware, claims, moves, faults, wanted,
                   current, sending>>

\* force_null: nothing is scanned.
ConnectNull ==
    /\ phase = "idle" /\ wanted.forced /\ MayFake
    /\ Fake

Scan ==
    /\ phase = "idle" /\ ~wanted.forced
    /\ \E q \in Select(wanted, Found) :
         /\ q # <<>>
         /\ chosen' = q
         /\ phase' = "opening"
         /\ current' = [Idle EXCEPT !.step = "identify"]
    /\ UNCHANGED <<bus, node, firmware, claims, moves, faults, wanted, opened,
                   sending>>

\* HardwareConnectError::NoDevice: the scan shows no match at all.
Absent(S) == Matching(wanted, S) = {}

\* connect_all_inner: the fixture stands in only for what is not there.
FallBack ==
    /\ phase = "idle" /\ ~wanted.forced /\ wanted.profile
    /\ Absent(Found) /\ MayFake
    /\ Fake

\* Whatever fails, the sessions that are open are closed and the tick loop
\* tries again in two seconds.  A selection that fails never leaves `idle`.
\* Faulty variant: the sessions opened before the failure stay.
GiveUp_Leaks ==
    /\ claims' = claims \ Held(current.session)
    /\ phase' = "idle" /\ chosen' = <<>> /\ opened' = <<>>
    /\ current' = Idle /\ sending' = 1

GiveUp ==
    /\ claims' = claims \ (HeldBy(opened) \cup Held(current.session))
    /\ phase' = "idle" /\ chosen' = <<>> /\ opened' = <<>>
    /\ current' = Idle /\ sending' = 1

\* A permission, a busy interface, a transfer: any step of the walk may fail;
\* and a group whose frame sources cannot be built is dropped again.
Fault ==
    /\ phase \in {"opening", "up"} /\ faults < MaxFaults
    /\ faults' = faults + 1
    /\ GiveUp
    /\ UNCHANGED <<env, wanted>>

Target == chosen[Len(opened) + 1]

\* The walk goes on when `ok`, and fails otherwise.
Walk(step, ok, proceed) ==
    /\ phase = "opening" /\ current.step = step
    /\ \/ ok /\ proceed
       \/ ~ok /\ GiveUp /\ UNCHANGED <<node, faults>>
    /\ UNCHANGED <<bus, firmware, moves, wanted>>

GoOn(step) == /\ current' = [current EXCEPT !.step = step]
              /\ UNCHANGED <<node, faults, claims, phase, chosen, opened,
                             sending>>

\* open_discovered: the device now at the address, if its descriptor is exact
\* and its identity the one the scan saw.
Identify ==
    Walk("identify",
         \E d \in At(Target.address) : Exact(d) /\ IdOf[d] = Target.id,
         \E d \in At(Target.address) :
            GoOn(IF ShapeOf[d] = "square" THEN "bulk" ELSE "correlate"))

\* A handle on device d: what it holds, it holds until it is closed.
Hold(d, route, step) ==
    /\ current' = [current EXCEPT !.step = step, !.session =
                     [NoSession EXCEPT !.device = d, !.id = Target.id,
                                       !.address = Target.address,
                                       !.route = route, !.live = TRUE]]
    /\ claims' = claims \cup {<<d, route>>}
    /\ UNCHANGED <<faults, phase, chosen, opened, sending>>

\* Faulty variant: the first display that answers is enough.
Join_First(policy) ==
    /\ opened' = Append(opened, [current.session EXCEPT !.policy = policy])
    /\ phase' = "up" /\ current' = Idle
    /\ UNCHANGED <<node, faults, claims, chosen, sending>>

\* An authorised session joins the group; the group is up when it is whole.
Join(policy) ==
    /\ opened' = Append(opened, [current.session EXCEPT !.policy = policy])
    /\ IF Len(opened) + 1 = Len(chosen)
       THEN phase' = "up" /\ current' = Idle
       ELSE phase' = phase /\ current' = [Idle EXCEPT !.step = "identify"]
    /\ UNCHANGED <<node, faults, claims, chosen, sending>>

\* BulkUsb::open_at
OpenBulk ==
    Walk("bulk",
         \E d \in At(Target.address) :
            ShapeOf[d] = "square" /\ <<d, "bulk">> \notin claims,
         /\ \E d \in At(Target.address) : Hold(d, "bulk", "handshake")
         /\ UNCHANGED node)

Says(answer) == current.session.live /\ firmware[current.session.device] = answer

HandshakeSquare ==
    Walk("handshake", Says("pm4sub5"), Join("Square87adPm4"))

\* open_type2_hidraw: the one node whose USB ancestor is at the address.
Correlate ==
    Walk("correlate",
         \E d \in At(Target.address) : ShapeOf[d] = "type2" /\ node[d] # NoNode,
         /\ \E d \in At(Target.address) :
              current' = [current EXCEPT !.step = "node", !.name = node[d]]
         /\ UNCHANGED <<node, faults, claims, phase, chosen, opened, sending>>)

\* Opened by name: by now the name may belong to another device.
OpenNode ==
    Walk("node",
         Named(current.name) # {},
         /\ \E d \in Named(current.name) : Hold(d, "hidraw", "authenticate")
         /\ UNCHANGED node)

\* authenticate_opened_hidraw: the name again, and the address it has now.
AtTarget(name) == \E d \in Named(name) : bus[d] = Target.address

Authenticate == Walk("authenticate", AtTarget(current.name), GoOn("read"))

\* Faulty variant: the hidraw session stays open under the libusb one.
CloseHidraw_Kept ==
    /\ current' = [Idle EXCEPT !.step = "interrupt"]
    /\ UNCHANGED <<node, claims, phase, chosen, opened, sending>>

CloseHidraw ==
    /\ current' = [Idle EXCEPT !.step = "interrupt"]
    /\ claims' = claims \ Held(current.session)
    /\ UNCHANGED <<node, phase, chosen, opened, sending>>

\* The passive read: PM58, nothing or a full response, or anything else.  A
\* PM58 display that says nothing is a fault; the others speak when spoken to.
ReadPassive ==
    Walk("read", current.session.live,
         \/ Says("pm58") /\ Join("Type2Pm58")
         \/ Says("pm58") /\ faults < MaxFaults /\ faults' = faults + 1
                         /\ CloseHidraw
         \/ ~Says("pm58") /\ CloseHidraw /\ UNCHANGED faults
         \/ Says("foreign") /\ GiveUp /\ UNCHANGED <<node, faults>>)

\* open_type2_libusb: by address again, and the claim detaches the kernel
\* driver, so the node goes.
OpenInterrupt ==
    Walk("interrupt",
         \E d \in At(Target.address) :
            ShapeOf[d] = "type2" /\ <<d, "libusb">> \notin claims,
         \E d \in At(Target.address) :
            /\ Hold(d, "libusb", "pm128")
            /\ node' = [node EXCEPT ![d] = NoNode])

\* Faulty variant: any answer of a display that was asked is taken.
AnswersPm128_Any == current.session.live

AnswersPm128 == Says("pm128")

HandshakePm128 == Walk("pm128", AnswersPm128, Join("Type2Pm128"))

Negotiate ==
    \/ Identify \/ OpenBulk \/ HandshakeSquare
    \/ Correlate \/ OpenNode \/ Authenticate \/ ReadPassive
    \/ OpenInterrupt \/ HandshakePm128

-----------------------------------------------------------------------------
(* Writing frames                                                          *)

\* A frame goes out in one interrupt transfer or in many others.
FrameTransfers(s) == IF s.route \in {"bulk", "hidraw"} THEN Chunks ELSE 1

Advance == sending' = IF sending = Len(opened) THEN 1 ELSE sending + 1

\* One transfer of the frame for the output whose turn it is.
Transfer ==
    /\ phase = "up"
    /\ opened[sending].live \/ opened[sending].route = "null"
    /\ IF opened[sending].sent + 1 = FrameTransfers(opened[sending])
       THEN opened' = [opened EXCEPT ![sending].sent = 0] /\ Advance
       ELSE opened' = [opened EXCEPT ![sending].sent = @ + 1]
            /\ UNCHANGED sending
    /\ UNCHANGED <<env, claims, faults, wanted, phase, chosen, current>>

\* Faulty variant: Type2 sessions survive a timeout too.
Fatal_LostOnly(s, error) == error = "lost"

\* mark_disconnected, mark_disconnected_if_fatal: a bulk transfer that timed
\* out leaves its handle open, every other failure drops it.
Fatal(s, error) == error = "lost" \/ s.route # "bulk"

\* An error ends the pass.  If the output lost its handle the whole group is
\* closed; if not, the next pass begins a new frame on it.
SendFails ==
    /\ phase = "up" /\ opened[sending].route # "null"
    /\ \E error \in {"lost", "timeout"} :
         /\ IF opened[sending].live
            THEN faults < MaxFaults /\ faults' = faults + 1
            ELSE error = "lost" /\ UNCHANGED faults
         /\ \/ Fatal(opened[sending], error) /\ GiveUp
            \/ /\ ~Fatal(opened[sending], error)
               /\ opened' = [opened EXCEPT ![sending].sent = 0,
                                ![sending].torn = @ \/ opened[sending].sent > 0]
               /\ sending' = 1
               /\ UNCHANGED <<claims, phase, chosen, current>>
    /\ UNCHANGED <<env, wanted>>

-----------------------------------------------------------------------------
(* The bus and the kernel                                                  *)

Lost(s, d) == IF s.device = d THEN [s EXCEPT !.live = FALSE] ELSE s

Unplug(d) ==
    /\ moves < MaxMoves /\ moves' = moves + 1
    /\ bus[d] # Nowhere /\ bus' = [bus EXCEPT ![d] = Nowhere]
    /\ node' = [node EXCEPT ![d] = NoNode]
    /\ claims' = {c \in claims : c[1] # d}
    /\ opened' = [i \in DOMAIN opened |-> Lost(opened[i], d)]
    /\ current' = [current EXCEPT !.session = Lost(@, d)]
    /\ UNCHANGED <<firmware, faults, wanted, phase, chosen, sending>>

Plug(d, a) ==
    /\ moves < MaxMoves /\ moves' = moves + 1
    /\ bus[d] = Nowhere /\ At(a) = {} /\ bus' = [bus EXCEPT ![d] = a]
    /\ UNCHANGED <<node, firmware, claims, faults, wanted, phase, chosen,
                   opened, current, sending>>

\* The kernel driver takes an interface nobody has claimed.
Register(d) ==
    /\ bus[d] # Nowhere /\ HasNode(d) /\ node[d] = NoNode
    /\ <<d, "libusb">> \notin claims
    /\ \E n \in Nodes : Named(n) = {} /\ node' = [node EXCEPT ![d] = n]
    /\ UNCHANGED <<bus, firmware, claims, moves, faults, wanted, phase, chosen,
                   opened, current, sending>>

Connecting == ConnectNull \/ Scan \/ FallBack \/ Negotiate
Sending == Transfer \/ SendFails

Next ==
    \/ Connecting \/ Fault \/ Sending
    \/ \E d \in Devices : Unplug(d) \/ Register(d)
    \/ \E d \in Devices, a \in Addresses : Plug(d, a)

\* The daemon's loop and the kernel go on; nothing is said of the user.
Fairness ==
    /\ WF_vars(Connecting) /\ WF_vars(Sending)
    /\ \A d \in Devices : WF_vars(Register(d))

Spec == Init /\ [][Next]_vars /\ Fairness

-----------------------------------------------------------------------------
(* Properties                                                              *)

\* Type correctness.
TypeOK ==
    /\ bus \in [Devices -> Addresses \cup {Nowhere}]
    /\ node \in [Devices -> Nodes \cup {NoNode}]
    /\ firmware \in [Devices -> Answers]
    /\ claims \subseteq Devices \X Routes
    /\ moves \in 0..MaxMoves /\ faults \in 0..MaxFaults
    /\ wanted \in Selections
    /\ phase \in {"idle", "opening", "up"}
    /\ chosen \in Seq(Entry) /\ opened \in Seq(Session)
    /\ current \in [step : Steps, name : Nodes \cup {NoNode}, session : Session]
    /\ sending \in Nat \ {0}
    /\ phase = "up" => sending \in DOMAIN opened

\* What a display has to say, and on which route, for a policy to be its own.
Grounds(policy) ==
    CASE policy = "Square87adPm4" -> [shape |-> "square", said |-> <<"pm4sub5", "bulk">>]
      [] policy = "Type2Pm58"     -> [shape |-> "type2", said |-> <<"pm58", "hidraw">>]
      [] OTHER                    -> [shape |-> "type2", said |-> <<"pm128", "libusb">>]

\* Every output the daemon writes to gave the exact answer its policy needs, on
\* the one route of that policy, and while it is there it is at the address the
\* scan saw, though that address and the hidraw name are looked up again at
\* every open and may by then be somebody else's.  A claimed interface belongs
\* to a display with the exact descriptor and the identity of the scan; of a
\* hidraw node that is not known, because nothing reads the descriptor after
\* the node is open (discovery.rs, hid_lcd.rs, hid_report.rs).
OutputAuthorized ==
    \A i \in DOMAIN opened :
        LET s == opened[i] IN
        s.route # "null" =>
            /\ <<firmware[s.device], s.route>> = Grounds(s.policy).said
            /\ s.live => bus[s.device] = s.address
            /\ s.route # "hidraw" => /\ ShapeOf[s.device] = Grounds(s.policy).shape
                                     /\ IdOf[s.device] = s.id

\* The kernel's side and the program's agree: an interface is held exactly
\* while a session that is open holds it, so a walk that failed halfway holds
\* nothing; and no display is held by hidraw and libusb at once
\* (open_all_discovered, handshake_type2_production).
ClaimsHeld ==
    /\ claims = HeldBy(opened) \cup Held(current.session)
    /\ \A c, e \in claims : c[1] = e[1] => c = e

\* A session that stops in the middle of a frame is not written to again,
\* except a bulk one whose transfer timed out (bulk_usb.rs, hid_lcd.rs).
FramesWhole == \A i \in DOMAIN opened : opened[i].torn => opened[i].route = "bulk"

\* The displays the configuration asks for are there and answer as they should.
Available ==
    \E q \in Select(wanted, Found) :
        /\ q # <<>>
        /\ \A i \in DOMAIN q : \A d \in At(q[i].address) :
              firmware[d] \in (IF ShapeOf[d] = "square" THEN {"pm4sub5"}
                               ELSE {"pm58", "pm128"})

\* Once the displays asked for stay plugged in, the daemon gets them: nothing
\* a failed walk left behind keeps the next one from succeeding.
Recovers == <>[](~wanted.forced /\ Available) => <>[](phase = "up")

\* What the rest of the daemon sees of all this is a DisplayGroup.
Visible == IF phase = "up"
           THEN [i \in DOMAIN opened |-> [id      |-> opened[i].id,
                                          address |-> opened[i].address,
                                          policy  |-> opened[i].policy]]
           ELSE <<>>

Group == INSTANCE DisplayGroup WITH
            Ids <- {IdOf[d] : d \in Devices},
            PoliciesOf <- [i \in {IdOf[d] : d \in Devices} |->
                             {p \in Policies \ {"none", "null"} :
                                \E d \in Devices : /\ IdOf[d] = i
                                                   /\ ShapeOf[d] = Grounds(p).shape}],
            outputs <- Visible

\* Between two connections the group is whole or absent, in the order asked
\* for, and never changed in place (connect_all, the tick loop's disconnect).
ImplementsGroup == Group!Spec
==============================================================================
