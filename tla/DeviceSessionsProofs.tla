----------------------- MODULE DeviceSessionsProofs -----------------------
(***************************************************************************)
(* What the daemon may write to, for any devices on any bus, any selection *)
(* and any number of unpluggings and faults: every output gave the answer  *)
(* its policy needs, the program holds exactly the interfaces its sessions *)
(* need, and what is seen of it from outside is a group that is whole or   *)
(* absent.                                                                 *)
(*                                                                         *)
(* The inductive invariant follows the walk: what each step knows of the   *)
(* device it works on (Walking), what the scan chose (ChosenOK), what the  *)
(* sessions already opened keep (OpenedOK), and what the kernel has given  *)
(* away (ClaimsOK).  A device can be claimed twice only under one address, *)
(* and no two entries of a scan have the same.                             *)
(***************************************************************************)
EXTENDS DeviceSessions, FiniteSetTheorems, TLAPS

BusOK ==
    /\ bus \in [Devices -> Addresses \cup {Nowhere}]
    /\ node \in [Devices -> Nodes \cup {NoNode}]
    /\ firmware \in [Devices -> Answers]
    /\ wanted \in Selections
    /\ \A d, e \in Devices : bus[d] = bus[e] /\ bus[d] # Nowhere => d = e
    /\ \A d, e \in Devices : node[d] = node[e] /\ node[d] # NoNode => d = e
    /\ \A d \in Devices : node[d] # NoNode => HasNode(d) /\ bus[d] # Nowhere

\* What the scan chose answers the selection, at distinct addresses.
Chosen(q) ==
    /\ q \in Seq(Entry) /\ q # <<>>
    /\ \A i, j \in DOMAIN q : q[i].address = q[j].address => i = j
    /\ Group!Fits(wanted, q)

ChosenOK ==
    phase = "opening" =>
        /\ Chosen(chosen) /\ ~wanted.forced
        /\ Len(opened) < Len(chosen)

\* An exact descriptor of this shape and identity has been seen.
Seen(shape, id) == \E d \in Devices : ShapeOf[d] = shape /\ IdOf[d] = id

Exactly(s, shape) == ShapeOf[s.device] = shape /\ IdOf[s.device] = s.id

\* A session whose display gave the answer of its policy, on its route.
Authorized(s) ==
    /\ s.device \in Devices /\ s.address \in Addresses
    /\ s.torn => s.route = "bulk"
    /\ s.sent < FrameTransfers(s)
    /\ \/ /\ s.policy = "Square87adPm4" /\ s.route = "bulk"
          /\ firmware[s.device] = "pm4sub5" /\ Exactly(s, "square")
       \/ /\ s.policy = "Type2Pm58" /\ s.route = "hidraw"
          /\ firmware[s.device] = "pm58" /\ Seen("type2", s.id)
       \/ /\ s.policy = "Type2Pm128" /\ s.route = "libusb"
          /\ firmware[s.device] = "pm128" /\ Exactly(s, "type2")

\* The handle leads to the address the scan saw.
Placed(s) == s.live => bus[s.device] = s.address

Faked == phase = "up" /\ opened = <<NullOutput>> /\ Group!MayFake(wanted)

OpenedOK ==
    /\ opened \in Seq(Session)
    /\ Faked \/ \A i \in DOMAIN opened : Authorized(opened[i]) /\ Placed(opened[i])
    /\ phase \in {"idle", "opening", "up"}
    /\ phase = "idle" => opened = <<>>
    /\ phase = "opening" =>
         \A i \in DOMAIN opened : /\ opened[i].id = chosen[i].id
                                  /\ opened[i].address = chosen[i].address
    /\ IF phase = "up" THEN sending \in DOMAIN opened ELSE sending = 1

\* The steps before a handle is opened, and those with one.
Early == {"none", "identify", "bulk", "correlate", "node", "interrupt"}
Late == {"handshake", "authenticate", "read", "pm128"}

Walking ==
    LET step == current.step
        s == current.session
    IN  /\ current = [step |-> step, name |-> current.name, session |-> s]
        /\ step \in Early \cup Late /\ s \in Session
        /\ phase = "opening" <=> step # "none"
        /\ step \in Early => s = NoSession
        /\ step \in Late => /\ s.device \in Devices /\ ~s.torn /\ s.sent = 0
                            /\ s.id = Target.id /\ s.address = Target.address
        /\ step = "handshake" => /\ s.route = "bulk"
                                 /\ Exactly(s, "square") /\ Placed(s)
        /\ step = "authenticate" =>
             /\ s.route = "hidraw"
             /\ s.live => node[s.device] = current.name /\ current.name # NoNode
        /\ step = "read" => s.route = "hidraw" /\ Placed(s)
        /\ step = "pm128" => /\ s.route = "libusb"
                             /\ Exactly(s, "type2") /\ Placed(s)
        /\ step = "bulk" => Seen("square", Target.id)
        /\ step \in {"correlate", "node", "authenticate", "read", "interrupt"} =>
             Seen("type2", Target.id)
        /\ step = "node" => /\ current.name # NoNode
                            /\ \A c \in claims : node[c[1]] # current.name

ClaimsOK ==
    /\ claims \subseteq Devices \X {"bulk", "hidraw", "libusb"}
    /\ claims = HeldBy(opened) \cup Held(current.session)
    /\ \A c, e \in claims : c[1] = e[1] => c = e
    /\ \A c \in claims :
         /\ c[2] = "bulk" => ~HasNode(c[1])
         /\ c[2] = "hidraw" => node[c[1]] # NoNode
         /\ c[2] = "libusb" => node[c[1]] = NoNode

IInv == BusOK /\ ChosenOK /\ OpenedOK /\ Walking /\ ClaimsOK

-----------------------------------------------------------------------------
(* The scan. *)

LEMMA FoundFacts ==
    ASSUME BusOK
    PROVE  /\ Found \subseteq Entry
           /\ IsFiniteSet(Found)
           /\ \A e, f \in Found : e.address = f.address => e = f
<1> DEFINE Live == {d \in Devices : bus[d] # Nowhere /\ Exact(d)}
           entry(d) == [id |-> IdOf[d], address |-> bus[d]]
<1>1. Found \subseteq Entry
  BY SessionsAssumption DEF Found, Entry, BusOK
<1>2. IsFiniteSet(Found)
  <2>1. IsFiniteSet(Live)
    BY SessionsAssumption, FS_Subset
  <2> DEFINE entries == [d \in Live |-> entry(d)]
  <2>2. entries \in Surjection(Live, Found)
    BY DEF Surjection, Found
  <2> HIDE DEF Live, entries
  <2> QED
    BY <2>1, <2>2, FS_Surjection
<1>3. ASSUME NEW e \in Found, NEW f \in Found, e.address = f.address
      PROVE  e = f
  <2>1. PICK d \in Live : e = entry(d)
    BY DEF Found
  <2>2. PICK b \in Live : f = entry(b)
    BY DEF Found
  <2>3. d = b
    BY <1>3, <2>1, <2>2 DEF BusOK
  <2> QED
    BY <2>1, <2>2, <2>3
<1> QED
  BY <1>1, <1>2, <1>3

\* Whatever the selection, what it selects are entries at distinct addresses.
LEMMA SelectedChosen ==
    ASSUME BusOK, NEW q \in Select(wanted, Found), q # <<>>
    PROVE  Chosen(q)
<1>1. /\ wanted.mode \in {"auto", "id", "all", "targets"}
      /\ wanted.targets \in Seq(Nat)
      /\ wanted.mode = "id" => Len(wanted.targets) = 1
  BY SelectionsAssumption DEF BusOK
<1>2. \A e \in Entry : e.id \in Nat /\ e.address \in Nat
  BY SessionsAssumption DEF Entry
<1>3. CASE wanted.mode = "targets"
  <2>1. /\ q \in [DOMAIN wanted.targets -> Found] /\ Distinct(wanted.targets)
        /\ \A i \in DOMAIN q : q[i].id = wanted.targets[i]
    BY <1>3 DEF Select, SelectOne, ByTarget
  <2>2. DOMAIN wanted.targets = 1 .. Len(wanted.targets) /\ Len(wanted.targets) \in Nat
    BY <1>1
  <2>3. q \in Seq(Entry)
    BY <2>1, <2>2, FoundFacts
  <2>4. \A i, j \in DOMAIN q : q[i].address = q[j].address => i = j
    BY <2>1, FoundFacts DEF Distinct
  <2>5. Group!Fits(wanted, q)
    BY <1>3, <2>1 DEF Group!Fits
  <2> QED
    BY <2>3, <2>4, <2>5 DEF Chosen
<1>4. ASSUME NEW S \in SUBSET Found, q \in Sorted(S)
      PROVE  /\ q \in Seq(Entry)
             /\ Cardinality(S) \in Nat
             /\ DOMAIN q = 1 .. Cardinality(S)
             /\ \A i \in DOMAIN q : q[i] \in S
             /\ \A i, j \in DOMAIN q : i < j => Before(q[i], q[j])
             /\ \A i, j \in DOMAIN q : q[i].address = q[j].address => i = j
  <2>1. IsFiniteSet(S)
    BY FoundFacts, FS_Subset
  <2>2. Cardinality(S) \in Nat
    BY <2>1, FS_CardinalityType
  <2>3. /\ q \in [1 .. Cardinality(S) -> S]
        /\ \A i, j \in 1 .. Cardinality(S) : i < j => Before(q[i], q[j])
    BY <1>4 DEF Sorted
  <2>4. q \in Seq(Entry)
    BY <2>2, <2>3, FoundFacts
  <2>5. ASSUME NEW i \in DOMAIN q, NEW j \in DOMAIN q,
               q[i].address = q[j].address
        PROVE  i = j
    <3>1. q[i] = q[j] /\ q[i] \in Entry
      BY <2>3, <2>5, FoundFacts
    <3>2. ~Before(q[i], q[i])
      BY <1>2, <3>1 DEF Before
    <3>3. i \in Nat /\ j \in Nat
      BY <2>2, <2>3
    <3> QED
      BY <2>3, <3>1, <3>2, <3>3
  <2> QED
    BY <2>2, <2>3, <2>4, <2>5
<1>5. CASE wanted.mode = "all"
  <2>1. q \in Sorted(Found)
    BY <1>5 DEF Select, SelectOne
  <2>2. Group!Fits(wanted, q)
    BY <1>4, <1>5, <2>1 DEF Group!Fits, Group!Before, Before
  <2> QED
    BY <1>4, <2>1, <2>2 DEF Chosen
<1>6. CASE wanted.mode \in {"auto", "id"}
  <2> DEFINE S == Matching(wanted, Found)
  <2>1. S \subseteq Found
    BY DEF Matching
  <2>2. Cardinality(S) = 1 /\ q \in Sorted(S)
    BY <1>6 DEF Select, SelectOne
  <2>3. wanted.mode = "id" => \A e \in S : e.id = wanted.targets[1]
    BY DEF Matching
  <2> HIDE DEF S
  <2>4. DOMAIN q = {1} /\ q[1] \in S
    <3>1. DOMAIN q = 1 .. Cardinality(S) /\ \A i \in DOMAIN q : q[i] \in S
      BY <1>4, <2>1, <2>2
    <3> QED
      BY <2>2, <3>1
  <2>5. Group!Fits(wanted, q)
    BY <1>6, <2>3, <2>4 DEF Group!Fits
  <2> QED
    BY <1>4, <2>1, <2>2, <2>5 DEF Chosen
<1> QED
  BY <1>1, <1>3, <1>5, <1>6

-----------------------------------------------------------------------------
(* Sessions and claims. *)

LEMMA HeldIs ==
    ASSUME NEW s, NEW c
    PROVE  c \in Held(s) <=> s.live /\ c = <<s.device, s.route>>
BY DEF Held

LEMMA HeldByIs ==
    ASSUME NEW sessions, NEW c
    PROVE  c \in HeldBy(sessions) <=>
             \E i \in DOMAIN sessions : c \in Held(sessions[i])
BY DEF HeldBy

LEMMA NoSessionFacts ==
    /\ NullOutput.route = "null" /\ ~NullOutput.live
    /\ NoSession \in Session /\ Held(NoSession) = {}
    /\ NullOutput \in Session /\ Held(NullOutput) = {}
<1>1. NoSession \in Session
  BY SessionsAssumption DEF NoSession, Session, Routes, Policies
<1>2. NullOutput \in Session
  BY <1>1 DEF NullOutput, Session, Routes, Policies
<1>3. ~NoSession.live /\ ~NullOutput.live
  BY DEF NoSession, NullOutput
<1>4. NullOutput.route = "null"
  BY DEF NoSession, NullOutput
<1> QED
  BY <1>1, <1>2, <1>3, <1>4, HeldIs

\* The devices that are held have a session that is open, at their address.
LEMMA ClaimedAt ==
    ASSUME IInv, phase = "opening", NEW c \in HeldBy(opened)
    PROVE  /\ c[1] \in Devices
           /\ bus[c[1]] # Target.address
<1>1. PICK i \in DOMAIN opened : opened[i].live
                              /\ c = <<opened[i].device, opened[i].route>>
  BY HeldIs, HeldByIs
<1>2. /\ Authorized(opened[i]) /\ Placed(opened[i])
      /\ opened[i].address = chosen[i].address
  BY <1>1 DEF IInv, OpenedOK, Faked
<1>3. /\ c[1] = opened[i].device /\ c[1] \in Devices
      /\ bus[c[1]] = chosen[i].address
  BY <1>1, <1>2 DEF Authorized, Placed
<1>4. /\ i \in 1 .. Len(opened) /\ Len(opened) \in Nat
      /\ chosen \in Seq(Entry) /\ Len(opened) < Len(chosen)
      /\ \A j, k \in DOMAIN chosen :
           chosen[j].address = chosen[k].address => j = k
  BY DEF IInv, OpenedOK, ChosenOK, Chosen
<1>5. /\ i \in DOMAIN chosen /\ Len(opened) + 1 \in DOMAIN chosen
      /\ i # Len(opened) + 1
  BY <1>4
<1> QED
  BY <1>3, <1>4, <1>5 DEF Target

\* The device the walk is about to open is not held by anybody.
LEMMA Unclaimed ==
    ASSUME IInv, phase = "opening", current.step \in Early,
           NEW d \in Devices, bus[d] = Target.address
    PROVE  \A c \in claims : c[1] # d
BY ClaimedAt, NoSessionFacts DEF IInv, ClaimsOK, Walking

LEMMA TargetEntry ==
    ASSUME IInv, phase = "opening"
    PROVE  /\ Target \in Entry
           /\ Len(opened) \in Nat /\ Len(opened) + 1 \in DOMAIN chosen
<1>1. /\ opened \in Seq(Session) /\ chosen \in Seq(Entry)
      /\ Len(opened) < Len(chosen)
  BY DEF IInv, OpenedOK, ChosenOK, Chosen
<1> QED
  BY <1>1 DEF Target

\* Only one device is at the address.
LEMMA OneAtTarget ==
    ASSUME IInv, phase = "opening",
           NEW d \in At(Target.address), NEW e \in At(Target.address)
    PROVE  d = e
<1>1. Target.address \in Addresses
  BY TargetEntry DEF Entry
<1> QED
  BY <1>1, SessionsAssumption DEF At, IInv, BusOK

-----------------------------------------------------------------------------
(* The steps. *)

LEMMA InitInv == Init => IInv
<1> SUFFICES ASSUME Init
             PROVE  IInv
  OBVIOUS
<1>1. BusOK
  BY DEF Init, BusOK
<1>2. ChosenOK
  BY DEF Init, ChosenOK
<1>3. OpenedOK
  BY DEF Init, OpenedOK
<1>4. Walking
  BY NoSessionFacts DEF Init, Idle, Walking, Early, Late
<1>5. ClaimsOK
  <2>1. HeldBy(<<>>) = {}
    BY HeldByIs
  <2> QED
    BY <2>1, NoSessionFacts DEF Init, Idle, ClaimsOK, ClaimsHeld
<1> QED
  BY <1>1, <1>2, <1>3, <1>4, <1>5 DEF IInv

\* Giving up leaves nothing held.
LEMMA GiveUpInv ==
    ASSUME IInv, GiveUp, UNCHANGED <<bus, node, firmware, wanted>>
    PROVE  IInv'
<1>1. BusOK'
  BY DEF IInv, BusOK
<1>2. ChosenOK'
  BY DEF GiveUp, ChosenOK
<1>3. OpenedOK'
  BY DEF GiveUp, OpenedOK
<1>4. Walking'
  BY NoSessionFacts DEF GiveUp, Idle, Walking, Early, Late
<1>5. ClaimsOK'
  <2>1. HeldBy(<<>>) = {}
    BY HeldByIs
  <2>2. claims' = {}
    BY DEF GiveUp, IInv, ClaimsOK, ClaimsHeld
  <2> QED
    BY <2>1, <2>2, NoSessionFacts DEF GiveUp, Idle, ClaimsOK, ClaimsHeld
<1> QED
  BY <1>1, <1>2, <1>3, <1>4, <1>5 DEF IInv

\* A null output takes the place of what is not there.
LEMMA FakeInv ==
    ASSUME IInv, Fake, phase = "idle", Group!MayFake(wanted)
    PROVE  IInv'
<1>1. BusOK'
  BY DEF Fake, IInv, BusOK
<1>2. ChosenOK'
  BY DEF Fake, ChosenOK
<1>3. OpenedOK'
  <2>1. <<NullOutput>> \in Seq(Session) /\ 1 \in DOMAIN <<NullOutput>>
    BY NoSessionFacts
  <2>2. sending = 1
    BY DEF IInv, OpenedOK
  <2>3. Faked'
    BY DEF Fake, Faked
  <2> QED
    BY <2>1, <2>2, <2>3 DEF Fake, OpenedOK
<1>4. Walking'
  BY DEF Fake, IInv, Walking, Early, Late
<1>5. ClaimsOK'
  <2>1. claims = {} /\ Held(current.session) = {}
    BY HeldByIs, NoSessionFacts
       DEF IInv, ClaimsOK, ClaimsHeld, OpenedOK, Walking, Early
  <2>2. HeldBy(<<NullOutput>>) = {}
    BY HeldByIs, NoSessionFacts
  <2> QED
    BY <2>1, <2>2 DEF Fake, ClaimsOK, ClaimsHeld
<1> QED
  BY <1>1, <1>2, <1>3, <1>4, <1>5 DEF IInv

LEMMA ScanInv ==
    ASSUME IInv, Scan
    PROVE  IInv'
<1>1. BusOK'
  BY DEF Scan, IInv, BusOK
<1>2. ChosenOK'
  <2>1. Chosen(chosen')
    BY SelectedChosen DEF Scan, IInv
  <2>2. Chosen(chosen)'
    BY <2>1 DEF Scan, Chosen
  <2>3. opened' = <<>> /\ chosen' # <<>> /\ chosen' \in Seq(Entry)
    BY <2>1 DEF Scan, IInv, OpenedOK, Chosen
  <2> QED
    BY <2>2, <2>3 DEF Scan, ChosenOK
<1>3. OpenedOK'
  BY DEF Scan, IInv, OpenedOK, Faked
<1>4. Walking'
  BY NoSessionFacts DEF Scan, Idle, Walking, Early, Late
<1>5. ClaimsOK'
  BY NoSessionFacts
     DEF Scan, Idle, IInv, ClaimsOK, ClaimsHeld, Walking, Early, HeldBy
<1> QED
  BY <1>1, <1>2, <1>3, <1>4, <1>5 DEF IInv

-----------------------------------------------------------------------------
(* The walk. *)

\* A step that is about the session in hand leaves the rest as it is.
LEMMA RestKept ==
    ASSUME IInv,
           UNCHANGED <<bus, firmware, wanted, phase, chosen, opened, sending>>
    PROVE  /\ UNCHANGED node => BusOK'
           /\ ChosenOK' /\ OpenedOK' /\ Target' = Target
BY DEF IInv, BusOK, ChosenOK, Chosen, OpenedOK, Faked, Authorized, Placed,
       Exactly, Seen, Target

\* The next step, with the same session.
LEMMA GoOnKept ==
    ASSUME IInv, NEW step, GoOn(step),
           UNCHANGED <<bus, firmware, wanted>>
    PROVE  /\ BusOK' /\ ChosenOK' /\ OpenedOK' /\ ClaimsOK'
           /\ Target' = Target
           /\ current' = [step |-> step, name |-> current.name,
                          session |-> current.session]
           /\ UNCHANGED <<node, phase, claims>>
<1>1. /\ UNCHANGED <<node, claims, phase, chosen, opened, sending>>
      /\ current' = [step |-> step, name |-> current.name,
                     session |-> current.session]
  BY DEF GoOn, IInv, Walking
<1>2. ClaimsOK'
  BY <1>1 DEF IInv, ClaimsOK, ClaimsHeld, HeldBy, Held
<1> QED
  BY <1>1, <1>2, RestKept

LEMMA IdentifyInv ==
    ASSUME IInv, Identify
    PROVE  IInv'
<1>0. phase = "opening" /\ current.step = "identify"
      /\ UNCHANGED <<bus, firmware, moves, wanted>>
  BY DEF Identify, Walk
<1>1. CASE GiveUp /\ UNCHANGED <<node, faults>>
  BY <1>0, <1>1, GiveUpInv
<1>2. ASSUME NEW d \in Devices, Exact(d), IdOf[d] = Target.id,
             GoOn(IF ShapeOf[d] = "square" THEN "bulk" ELSE "correlate")
      PROVE  IInv'
  <2> DEFINE next == IF ShapeOf[d] = "square" THEN "bulk" ELSE "correlate"
  <2>1. next \in {"bulk", "correlate"}
    OBVIOUS
  <2>2. /\ next = "bulk" => Seen("square", Target.id)
        /\ next = "correlate" => Seen("type2", Target.id)
    BY <1>2 DEF Exact, Seen
  <2> HIDE DEF next
  <2>3. GoOn(next)
    BY <1>2 DEF next
  <2>4. Walking'
    BY <1>0, <2>1, <2>2, <2>3, GoOnKept
       DEF IInv, Walking, Early, Late, Seen
  <2> QED
    BY <1>0, <2>3, <2>4, GoOnKept DEF IInv
<1>3. \/ GiveUp /\ UNCHANGED <<node, faults>>
      \/ \E d \in At(Target.address) : Exact(d) /\ IdOf[d] = Target.id /\
            \E e \in At(Target.address) :
               GoOn(IF ShapeOf[e] = "square" THEN "bulk" ELSE "correlate")
  BY DEF Identify, Walk
<1> QED
  BY <1>0, <1>1, <1>2, <1>3, OneAtTarget DEF At

\* A handle on a device nobody holds.
LEMMA HoldKept ==
    ASSUME IInv, phase = "opening", current.step \in Early,
           NEW d \in Devices, NEW route \in {"bulk", "hidraw", "libusb"},
           NEW step, Hold(d, route, step),
           UNCHANGED <<bus, firmware, wanted>>,
           \A c \in claims : c[1] # d,
           \A c \in claims : UNCHANGED node[c[1]],
           route = "bulk" => ~HasNode(d),
           route = "hidraw" => node'[d] # NoNode,
           route = "libusb" => node'[d] = NoNode
    PROVE  /\ ChosenOK' /\ OpenedOK' /\ ClaimsOK' /\ Target' = Target
           /\ phase' = phase
           /\ \E s \in Session :
                /\ current' = [step |-> step, name |-> current.name, session |-> s]
                /\ s.device = d /\ s.id = Target.id
                /\ s.address = Target.address /\ s.route = route
                /\ s.live /\ ~s.torn /\ s.sent = 0
<1> DEFINE s == [NoSession EXCEPT !.device = d, !.id = Target.id,
                                  !.address = Target.address,
                                  !.route = route, !.live = TRUE]
<1>1. /\ current' = [step |-> step, name |-> current.name, session |-> s]
      /\ claims' = claims \cup {<<d, route>>}
      /\ UNCHANGED <<phase, chosen, opened, sending>>
  BY DEF Hold, IInv, Walking
<1>2. /\ s.device = d /\ s.id = Target.id /\ s.address = Target.address
      /\ s.route = route /\ s.live /\ ~s.torn /\ s.sent = 0
  BY DEF NoSession
<1>3. s \in Session
  <2>1. Target.id \in Nat /\ Target.address \in Addresses
    BY TargetEntry DEF Entry
  <2> DEFINE closed == [NoSession EXCEPT !.device = d, !.id = Target.id,
                                         !.address = Target.address,
                                         !.route = route]
  <2>2. closed \in Session
    BY <2>1, NoSessionFacts DEF Session, Routes
  <2>3. s = [closed EXCEPT !.live = TRUE]
    BY DEF NoSession
  <2> HIDE DEF s, closed
  <2> QED
    BY <2>2, <2>3 DEF Session
<1> HIDE DEF s
<1>4. ClaimsOK'
  <2>1. claims = HeldBy(opened)
    BY NoSessionFacts DEF IInv, ClaimsOK, Walking
  <2>2. Held(s) = {<<d, route>>}
    BY <1>2 DEF Held
  <2>3. claims' = HeldBy(opened') \cup Held(current'.session)
    BY <1>1, <2>1, <2>2
  <2>4. claims' \subseteq Devices \X {"bulk", "hidraw", "libusb"}
    BY <1>1 DEF IInv, ClaimsOK
  <2>5. \A c, e \in claims' : c[1] = e[1] => c = e
    BY <1>1 DEF IInv, ClaimsOK
  <2>6. \A c \in claims' :
          /\ c[2] = "bulk" => ~HasNode(c[1])
          /\ c[2] = "hidraw" => node'[c[1]] # NoNode
          /\ c[2] = "libusb" => node'[c[1]] = NoNode
    BY <1>1 DEF IInv, ClaimsOK
  <2>7. (HeldBy(opened) \cup Held(current.session))' =
          HeldBy(opened') \cup Held(current'.session)
    BY DEF HeldBy, Held
  <2> QED
    BY <2>3, <2>4, <2>5, <2>6, <2>7 DEF ClaimsOK, HasNode
<1> QED
  BY <1>1, <1>2, <1>3, <1>4, RestKept

LEMMA OpenBulkInv ==
    ASSUME IInv, OpenBulk
    PROVE  IInv'
<1>0. phase = "opening" /\ current.step = "bulk" /\ current.step \in Early
      /\ UNCHANGED <<bus, firmware, moves, wanted>>
  BY DEF OpenBulk, Walk, Early
<1>1. CASE GiveUp /\ UNCHANGED <<node, faults>>
  BY <1>0, <1>1, GiveUpInv
<1>2. CASE UNCHANGED node /\
           \E d \in At(Target.address) :
              ShapeOf[d] = "square" /\ Hold(d, "bulk", "handshake")
  <2>1. PICK d \in Devices : /\ bus[d] = Target.address
                             /\ ShapeOf[d] = "square"
                             /\ Hold(d, "bulk", "handshake")
    BY <1>2 DEF At
  <2>2. \A c \in claims : c[1] # d
    BY <1>0, <2>1, Unclaimed
  <2>3. ~HasNode(d)
    BY <2>1 DEF HasNode
  <2>4. IdOf[d] = Target.id
    BY <1>0, <2>1, DescriptorAssumption DEF IInv, Walking, Seen
  <2>5. /\ ChosenOK' /\ OpenedOK' /\ ClaimsOK' /\ BusOK' /\ Target' = Target
        /\ phase' = "opening"
        /\ \E s \in Session :
             /\ current' = [step |-> "handshake", name |-> current.name,
                            session |-> s]
             /\ s.device = d /\ s.id = Target.id
             /\ s.address = Target.address /\ s.route = "bulk"
             /\ s.live /\ ~s.torn /\ s.sent = 0
    BY <1>0, <1>2, <2>1, <2>2, <2>3, HoldKept DEF IInv, BusOK
  <2>6. Walking'
    BY <1>0, <2>1, <2>4, <2>5
       DEF Walking, Early, Late, Exactly, Placed
  <2> QED
    BY <2>5, <2>6 DEF IInv
<1> QED
  BY <1>0, <1>1, <1>2, OneAtTarget DEF OpenBulk, Walk

\* An authorized session joins the group.
LEMMA JoinInv ==
    ASSUME IInv, phase = "opening", current.step \in Late,
           NEW policy \in Policies, Join(policy),
           UNCHANGED <<bus, firmware, wanted>>,
           Authorized([current.session EXCEPT !.policy = policy]),
           Placed(current.session)
    PROVE  IInv'
<1> DEFINE s == [current.session EXCEPT !.policy = policy]
<1>0. current.session \in Session
  BY DEF IInv, Walking
<1>1. /\ s \in Session /\ s.live = current.session.live
      /\ s.device = current.session.device
      /\ s.route = current.session.route
      /\ s.id = current.session.id
      /\ s.address = current.session.address
  BY <1>0 DEF Session
<1>2. /\ opened' = Append(opened, s)
      /\ UNCHANGED <<bus, node, firmware, wanted, claims, chosen, sending>>
  BY DEF Join
<1>3. Authorized(s) /\ Placed(s)
  BY <1>1 DEF Placed
<1> HIDE DEF s
<1>4. /\ opened \in Seq(Session) /\ Len(opened) \in Nat
      /\ DOMAIN opened = 1 .. Len(opened)
      /\ sending = 1
      /\ \A i \in DOMAIN opened :
           /\ Authorized(opened[i]) /\ Placed(opened[i])
           /\ opened[i].id = chosen[i].id
           /\ opened[i].address = chosen[i].address
  BY DEF IInv, OpenedOK, Faked
<1>5. /\ opened' \in Seq(Session) /\ Len(opened') = Len(opened) + 1
      /\ DOMAIN opened' = 1 .. Len(opened) + 1
      /\ \A i \in DOMAIN opened : opened'[i] = opened[i]
      /\ opened'[Len(opened) + 1] = s
      /\ DOMAIN opened' = DOMAIN opened \cup {Len(opened) + 1}
  BY <1>1, <1>2, <1>4
<1>6. BusOK'
  BY <1>2 DEF IInv, BusOK
<1>7. s.id = Target.id /\ s.address = Target.address
  BY <1>1 DEF IInv, Walking
<1>8. OpenedOK'
  <2>1. \A i \in DOMAIN opened' : Authorized(opened'[i]) /\ Placed(opened'[i])
    BY <1>3, <1>4, <1>5
  <2>2. \A i \in DOMAIN opened' : /\ opened'[i].id = chosen'[i].id
                                  /\ opened'[i].address = chosen'[i].address
    BY <1>2, <1>4, <1>5, <1>7 DEF Target
  <2>3. (\A i \in DOMAIN opened : Authorized(opened[i]) /\ Placed(opened[i]))'
    BY <1>2, <2>1 DEF Authorized, Placed, Exactly, Seen
  <2>4. phase' \in {"opening", "up"} /\ sending' \in DOMAIN opened' /\ sending' = 1
    BY <1>2, <1>4, <1>5 DEF Join
  <2> QED
    BY <1>5, <2>2, <2>3, <2>4 DEF OpenedOK
<1>9. ChosenOK'
  <2>1. CASE phase' = "opening"
    <3>1. Len(opened) + 1 # Len(chosen)
      BY <2>1 DEF Join
    <3>2. Len(opened') < Len(chosen') /\ chosen \in Seq(Entry)
      BY <1>2, <1>4, <1>5, <3>1 DEF IInv, ChosenOK, Chosen
    <3> QED
      BY <1>2, <3>2 DEF IInv, ChosenOK, Chosen
  <2> QED
    BY <2>1 DEF ChosenOK
<1>10. current' \in {Idle, [Idle EXCEPT !.step = "identify"]}
       /\ (phase' = "opening" <=> current'.step # "none")
  BY DEF Join, Idle
<1>11. Walking'
  BY <1>10, NoSessionFacts DEF Walking, Idle, Early, Late
<1>12. ClaimsOK'
  <2>1. current'.session = NoSession
    BY <1>10 DEF Idle
  <2>2. \A c : c \in Held(s) <=> c \in Held(current.session)
    BY <1>1, HeldIs
  <2>3. \A c : c \in HeldBy(opened') <=> c \in HeldBy(opened) \/ c \in Held(s)
    BY <1>5, HeldByIs
  <2>4. claims' = HeldBy(opened') \cup Held(current'.session)
    BY <1>2, <2>1, <2>2, <2>3, NoSessionFacts DEF IInv, ClaimsOK
  <2>5. (HeldBy(opened) \cup Held(current.session))' =
          HeldBy(opened') \cup Held(current'.session)
    BY DEF HeldBy, Held
  <2> QED
    BY <1>2, <2>4, <2>5 DEF IInv, ClaimsOK
<1> QED
  BY <1>6, <1>8, <1>9, <1>11, <1>12 DEF IInv

LEMMA HandshakeSquareInv ==
    ASSUME IInv, HandshakeSquare
    PROVE  IInv'
<1>0. phase = "opening" /\ current.step = "handshake" /\ current.step \in Late
      /\ UNCHANGED <<bus, firmware, moves, wanted>>
  BY DEF HandshakeSquare, Walk, Late
<1>1. CASE GiveUp /\ UNCHANGED <<node, faults>>
  BY <1>0, <1>1, GiveUpInv
<1>2. CASE Says("pm4sub5") /\ Join("Square87adPm4")
  <2> DEFINE s == [current.session EXCEPT !.policy = "Square87adPm4"]
  <2>1. /\ current.session \in Session /\ current.session.device \in Devices
        /\ current.session.address \in Addresses /\ ~current.session.torn
        /\ current.session.sent = 0
        /\ current.session.route = "bulk"
        /\ Exactly(current.session, "square") /\ Placed(current.session)
    BY <1>0, TargetEntry DEF IInv, Walking, Entry
  <2>2. /\ s.device = current.session.device /\ s.id = current.session.id
        /\ s.address = current.session.address /\ s.policy = "Square87adPm4"
        /\ s.route = "bulk" /\ s.sent = 0
    BY <2>1 DEF Session
  <2>3. Authorized(s)
    BY <1>2, <2>1, <2>2, SessionsAssumption
       DEF Authorized, Exactly, Says, FrameTransfers
  <2>4. "Square87adPm4" \in Policies
    BY DEF Policies
  <2> QED
    BY <1>0, <1>2, <2>1, <2>3, <2>4, JoinInv
<1> QED
  BY <1>1, <1>2 DEF HandshakeSquare, Walk

\* Nobody holds the node that is at the address: whoever is held is elsewhere.
LEMMA CorrelateInv ==
    ASSUME IInv, Correlate
    PROVE  IInv'
<1>0. phase = "opening" /\ current.step = "correlate" /\ current.step \in Early
      /\ UNCHANGED <<bus, firmware, moves, wanted>>
  BY DEF Correlate, Walk, Early
<1>1. CASE GiveUp /\ UNCHANGED <<node, faults>>
  BY <1>0, <1>1, GiveUpInv
<1>2. ASSUME NEW d \in At(Target.address), node[d] # NoNode,
             current' = [current EXCEPT !.step = "node", !.name = node[d]],
             UNCHANGED <<node, faults, claims, phase, chosen, opened, sending>>
      PROVE  IInv'
  <2>1. d \in Devices /\ bus[d] = Target.address
    BY DEF At
  <2>2. /\ current' = [step |-> "node", name |-> node[d],
                       session |-> current.session]
        /\ current.session = NoSession
    BY <1>0, <1>2 DEF IInv, Walking
  <2>3. \A c \in claims : node[c[1]] # node[d]
    BY <1>0, <1>2, <2>1, Unclaimed DEF IInv, BusOK, ClaimsOK
  <2>4. Seen("type2", Target.id)
    BY <1>0 DEF IInv, Walking
  <2>5. BusOK' /\ ChosenOK' /\ OpenedOK' /\ Target' = Target
    BY <1>0, <1>2, RestKept
  <2>6. Walking'
    BY <1>0, <1>2, <2>2, <2>3, <2>4, <2>5, NoSessionFacts
       DEF Walking, Early, Late, Seen
  <2>7. ClaimsOK'
    BY <1>2, <2>2 DEF IInv, ClaimsOK, HeldBy, Held
  <2> QED
    BY <2>5, <2>6, <2>7 DEF IInv
<1> QED
  BY <1>0, <1>1, <1>2, OneAtTarget DEF Correlate, Walk

LEMMA OpenNodeInv ==
    ASSUME IInv, OpenNode
    PROVE  IInv'
<1>0. phase = "opening" /\ current.step = "node" /\ current.step \in Early
      /\ UNCHANGED <<bus, firmware, moves, wanted>>
  BY DEF OpenNode, Walk, Early
<1>1. CASE GiveUp /\ UNCHANGED <<node, faults>>
  BY <1>0, <1>1, GiveUpInv
<1>2. ASSUME NEW d \in Devices, node[d] = current.name,
             Hold(d, "hidraw", "authenticate"), UNCHANGED node
      PROVE  IInv'
  <2>1. /\ current.name # NoNode /\ Seen("type2", Target.id)
        /\ \A c \in claims : c[1] # d
    BY <1>0, <1>2 DEF IInv, Walking
  <2>2. /\ ChosenOK' /\ OpenedOK' /\ ClaimsOK' /\ BusOK' /\ Target' = Target
        /\ phase' = "opening"
        /\ \E s \in Session :
             /\ current' = [step |-> "authenticate", name |-> current.name,
                            session |-> s]
             /\ s.device = d /\ s.id = Target.id
             /\ s.address = Target.address /\ s.route = "hidraw"
             /\ s.live /\ ~s.torn /\ s.sent = 0
    BY <1>0, <1>2, <2>1, HoldKept DEF IInv, BusOK
  <2>3. Walking'
    BY <1>0, <1>2, <2>1, <2>2 DEF Walking, Early, Late, Seen
  <2> QED
    BY <2>2, <2>3 DEF IInv
<1> QED
  BY <1>1, <1>2 DEF OpenNode, Walk, Named

\* The device of the session is the one the name has now: it is still there,
\* and no two devices have one name.
LEMMA AuthenticateInv ==
    ASSUME IInv, Authenticate
    PROVE  IInv'
<1>0. phase = "opening" /\ current.step = "authenticate"
      /\ UNCHANGED <<bus, firmware, moves, wanted>>
  BY DEF Authenticate, Walk
<1>1. CASE GiveUp /\ UNCHANGED <<node, faults>>
  BY <1>0, <1>1, GiveUpInv
<1>2. CASE AtTarget(current.name) /\ GoOn("read")
  <2> DEFINE s == current.session
  <2>1. /\ s \in Session /\ s.device \in Devices /\ ~s.torn /\ s.sent = 0
        /\ s.id = Target.id /\ s.address = Target.address
        /\ s.route = "hidraw" /\ Seen("type2", Target.id)
        /\ s.live => node[s.device] = current.name /\ current.name # NoNode
    BY <1>0 DEF IInv, Walking, Late
  <2>2. PICK d \in Devices : node[d] = current.name /\ bus[d] = Target.address
    BY <1>2 DEF AtTarget, Named
  <2>3. Placed(s)
    BY <2>1, <2>2 DEF Placed, IInv, BusOK
  <2> HIDE DEF s
  <2>4. /\ current' = [step |-> "read", name |-> current.name, session |-> s]
        /\ Target' = Target /\ phase' = "opening"
    BY <1>0, <1>2, GoOnKept DEF s
  <2>5. Walking'
    BY <1>0, <2>1, <2>3, <2>4 DEF Walking, Early, Late, Placed, Seen
  <2> QED
    BY <1>0, <1>2, <2>5, GoOnKept DEF IInv
<1> QED
  BY <1>1, <1>2 DEF Authenticate, Walk

\* A session that is closed gives back what only it held.
LEMMA CloseHidrawInv ==
    ASSUME IInv, phase = "opening", current.step = "read", CloseHidraw,
           UNCHANGED <<bus, firmware, wanted>>
    PROVE  IInv'
<1> DEFINE s == current.session
<1>1. /\ s.device \in Devices /\ s.address = Target.address /\ Placed(s)
      /\ Seen("type2", Target.id)
  BY DEF IInv, Walking, Late
<1>2. /\ current' = [step |-> "interrupt", name |-> NoNode, session |-> NoSession]
      /\ claims' = claims \ Held(s)
      /\ UNCHANGED <<node, phase, chosen, opened, sending>>
  BY DEF CloseHidraw, Idle
<1>3. BusOK' /\ ChosenOK' /\ OpenedOK' /\ Target' = Target
  BY <1>2, RestKept
<1>4. Walking'
  BY <1>1, <1>2, <1>3, NoSessionFacts DEF Walking, Early, Late, Seen
<1>5. ClaimsOK'
  <2>1. \A c \in HeldBy(opened) : c \notin Held(s)
    BY <1>1, ClaimedAt, HeldIs DEF Placed
  <2>2. claims = HeldBy(opened) \cup Held(s)
    BY DEF IInv, ClaimsOK
  <2>3. claims' = HeldBy(opened) /\ claims' \subseteq claims
    BY <1>2, <2>1, <2>2
  <2>4. (HeldBy(opened) \cup Held(current.session))' = HeldBy(opened)
    BY <1>2, NoSessionFacts DEF HeldBy, Held
  <2> QED
    BY <1>2, <2>3, <2>4 DEF IInv, ClaimsOK
<1> QED
  BY <1>3, <1>4, <1>5 DEF IInv

LEMMA ReadPassiveInv ==
    ASSUME IInv, ReadPassive
    PROVE  IInv'
<1>0. phase = "opening" /\ current.step = "read" /\ current.step \in Late
      /\ UNCHANGED <<bus, firmware, moves, wanted>>
  BY DEF ReadPassive, Walk, Late
<1>1. CASE GiveUp /\ UNCHANGED <<node, faults>>
  BY <1>0, <1>1, GiveUpInv
<1>2. CASE Says("pm58") /\ Join("Type2Pm58")
  <2> DEFINE s == [current.session EXCEPT !.policy = "Type2Pm58"]
  <2>1. /\ current.session \in Session /\ current.session.device \in Devices
        /\ current.session.address \in Addresses /\ ~current.session.torn
        /\ current.session.sent = 0
        /\ current.session.route = "hidraw"
        /\ Seen("type2", current.session.id) /\ Placed(current.session)
    BY <1>0, TargetEntry DEF IInv, Walking, Entry
  <2>2. /\ s.device = current.session.device /\ s.id = current.session.id
        /\ s.address = current.session.address /\ s.policy = "Type2Pm58"
        /\ s.route = "hidraw" /\ s.sent = 0
    BY <2>1 DEF Session
  <2>3. ~s.torn
    BY <2>1 DEF Session
  <2>4. Authorized(s)
    BY <1>2, <2>1, <2>2, <2>3, SessionsAssumption
       DEF Authorized, Says, FrameTransfers
  <2>5. "Type2Pm58" \in Policies
    BY DEF Policies
  <2> QED
    BY <1>0, <1>2, <2>1, <2>4, <2>5, JoinInv
<1>3. CASE CloseHidraw
  BY <1>0, <1>3, CloseHidrawInv
<1> QED
  BY <1>1, <1>2, <1>3 DEF ReadPassive, Walk

\* The claim detaches the kernel driver of that device and no other.
LEMMA OpenInterruptInv ==
    ASSUME IInv, OpenInterrupt
    PROVE  IInv'
<1>0. phase = "opening" /\ current.step = "interrupt" /\ current.step \in Early
      /\ UNCHANGED <<bus, firmware, moves, wanted>>
  BY DEF OpenInterrupt, Walk, Early
<1>1. CASE GiveUp /\ UNCHANGED <<node, faults>>
  BY <1>0, <1>1, GiveUpInv
<1>2. ASSUME NEW d \in Devices, bus[d] = Target.address, ShapeOf[d] = "type2",
             Hold(d, "libusb", "pm128"), node' = [node EXCEPT ![d] = NoNode]
      PROVE  IInv'
  <2>1. \A c \in claims : c[1] # d
    BY <1>0, <1>2, Unclaimed
  <2>2. IdOf[d] = Target.id
    BY <1>0, <1>2, DescriptorAssumption DEF IInv, Walking, Seen
  <2>3. node'[d] = NoNode /\ \A c \in claims : node'[c[1]] = node[c[1]]
    BY <1>2, <2>1 DEF IInv, BusOK, ClaimsOK
  <2>4. BusOK'
    BY <1>0, <1>2 DEF IInv, BusOK, HasNode
  <2>5. /\ ChosenOK' /\ OpenedOK' /\ ClaimsOK' /\ Target' = Target
        /\ phase' = "opening"
        /\ \E s \in Session :
             /\ current' = [step |-> "pm128", name |-> current.name,
                            session |-> s]
             /\ s.device = d /\ s.id = Target.id
             /\ s.address = Target.address /\ s.route = "libusb"
             /\ s.live /\ ~s.torn /\ s.sent = 0
    BY <1>0, <1>2, <2>1, <2>3, HoldKept
  <2>6. Walking'
    BY <1>0, <1>2, <2>2, <2>5 DEF Walking, Early, Late, Exactly, Placed
  <2> QED
    BY <2>4, <2>5, <2>6 DEF IInv
<1> QED
  BY <1>0, <1>1, <1>2, OneAtTarget DEF OpenInterrupt, Walk, At

LEMMA HandshakePm128Inv ==
    ASSUME IInv, HandshakePm128
    PROVE  IInv'
<1>0. phase = "opening" /\ current.step = "pm128" /\ current.step \in Late
      /\ UNCHANGED <<bus, firmware, moves, wanted>>
  BY DEF HandshakePm128, Walk, Late
<1>1. CASE GiveUp /\ UNCHANGED <<node, faults>>
  BY <1>0, <1>1, GiveUpInv
<1>2. CASE Says("pm128") /\ Join("Type2Pm128")
  <2> DEFINE s == [current.session EXCEPT !.policy = "Type2Pm128"]
  <2>1. /\ current.session \in Session /\ current.session.device \in Devices
        /\ current.session.address \in Addresses /\ ~current.session.torn
        /\ current.session.sent = 0
        /\ current.session.route = "libusb"
        /\ Exactly(current.session, "type2") /\ Placed(current.session)
    BY <1>0, TargetEntry DEF IInv, Walking, Entry
  <2>2. /\ s.device = current.session.device /\ s.id = current.session.id
        /\ s.address = current.session.address /\ s.policy = "Type2Pm128"
        /\ s.route = "libusb" /\ s.sent = 0
    BY <2>1 DEF Session
  <2>3. ~s.torn
    BY <2>1 DEF Session
  <2>4. Authorized(s)
    BY <1>2, <2>1, <2>2, <2>3, SessionsAssumption
       DEF Authorized, Exactly, Says, FrameTransfers
  <2>5. "Type2Pm128" \in Policies
    BY DEF Policies
  <2> QED
    BY <1>0, <1>2, <2>1, <2>4, <2>5, JoinInv
<1> QED
  BY <1>1, <1>2 DEF HandshakePm128, Walk, AnswersPm128

LEMMA NegotiateInv == ASSUME IInv, Negotiate PROVE IInv'
BY IdentifyInv, OpenBulkInv, HandshakeSquareInv, CorrelateInv, OpenNodeInv,
   AuthenticateInv, ReadPassiveInv, OpenInterruptInv, HandshakePm128Inv
   DEF Negotiate

LEMMA ConnectingInv == ASSUME IInv, Connecting PROVE IInv'
<1>1. ASSUME Fake, phase = "idle", wanted.forced \/ wanted.profile, MayFake
      PROVE  IInv'
  <2>1. Group!MayFake(wanted)
    BY <1>1 DEF MayFake, Group!MayFake
  <2> QED
    BY <1>1, <2>1, FakeInv
<1> QED
  BY <1>1, NegotiateInv, ScanInv DEF Connecting, ConnectNull, FallBack

-----------------------------------------------------------------------------
(* Frames, and the bus. *)

\* When nothing is being opened, sessions that keep what they are and hold
\* keep the invariant.
LEMMA SentKept ==
    ASSUME IInv, phase = "up", NEW n \in DOMAIN opened, NEW s \in Session,
           opened' = [opened EXCEPT ![n] = s],
           UNCHANGED <<bus, node, firmware, wanted, claims, phase, chosen,
                       current>>,
           sending' \in DOMAIN opened,
           /\ s.device = opened[n].device /\ s.id = opened[n].id
           /\ s.address = opened[n].address /\ s.route = opened[n].route
           /\ s.policy = opened[n].policy /\ s.live = opened[n].live
           /\ s.torn => s.route = "bulk"
           /\ s.sent < FrameTransfers(s),
           Faked => s = NullOutput
    PROVE  IInv'
<1>1. /\ opened \in Seq(Session)
      /\ Faked \/ \A i \in DOMAIN opened : Authorized(opened[i]) /\ Placed(opened[i])
  BY DEF IInv, OpenedOK
<1>2. /\ opened' \in Seq(Session) /\ DOMAIN opened' = DOMAIN opened
      /\ opened'[n] = s
      /\ \A i \in DOMAIN opened \ {n} : opened'[i] = opened[i]
  BY <1>1
<1>3. BusOK' /\ ChosenOK'
  BY DEF IInv, BusOK, ChosenOK
<1>4. Faked => Faked'
  BY <1>1, <1>2 DEF Faked
<1>5. Authorized(opened[n]) /\ Placed(opened[n]) => Authorized(s) /\ Placed(s)
  BY DEF Authorized, Placed, Exactly
<1>6. OpenedOK'
  <2>1. ASSUME NEW i \in DOMAIN opened, Authorized(opened[i]), Placed(opened[i])
        PROVE  Authorized(opened'[i]) /\ Placed(opened'[i])
    BY <1>2, <1>5, <2>1
  <2>2. (\A i \in DOMAIN opened : Authorized(opened[i]) /\ Placed(opened[i]))
          => (\A i \in DOMAIN opened : Authorized(opened[i]) /\ Placed(opened[i]))'
    BY <1>2, <2>1 DEF Authorized, Placed, Exactly, Seen
  <2> QED
    BY <1>1, <1>2, <1>4, <2>2 DEF IInv, OpenedOK
<1>7. Walking'
  BY DEF IInv, Walking, Early, Late, Seen
<1>8. ClaimsOK'
  <2>1. \A c : \A i \in DOMAIN opened : c \in Held(opened'[i]) <=> c \in Held(opened[i])
    BY <1>2 DEF Held
  <2>2. ASSUME NEW c
        PROVE  c \in HeldBy(opened') <=> c \in HeldBy(opened)
    BY <1>2, <2>1, HeldByIs
  <2>3. (HeldBy(opened) \cup Held(current.session))' =
          HeldBy(opened') \cup Held(current.session)
    BY DEF HeldBy, Held
  <2> QED
    BY <2>2, <2>3 DEF IInv, ClaimsOK
<1> QED
  BY <1>3, <1>6, <1>7, <1>8 DEF IInv

LEMMA UpFacts ==
    ASSUME IInv, phase = "up"
    PROVE  /\ sending \in DOMAIN opened /\ opened[sending] \in Session
           /\ 1 \in DOMAIN opened
           /\ sending # Len(opened) => sending + 1 \in DOMAIN opened
           /\ opened[sending].torn => opened[sending].route = "bulk"
           /\ opened[sending].sent < FrameTransfers(opened[sending])
           /\ Faked => sending = 1 /\ opened[sending] = NullOutput
<1>1. sending \in DOMAIN opened /\ opened \in Seq(Session)
  BY DEF IInv, OpenedOK
<1>2. CASE Faked
  <2>1. sending = 1 /\ opened[sending] = NullOutput /\ Len(opened) = 1
    BY <1>1, <1>2 DEF Faked
  <2>2. ~NullOutput.torn
    BY DEF NullOutput, NoSession
  <2>3. NullOutput.sent < FrameTransfers(NullOutput)
    BY DEF NullOutput, NoSession, FrameTransfers
  <2> QED
    BY <1>1, <2>1, <2>2, <2>3
<1>3. CASE ~Faked
  BY <1>1, <1>3 DEF IInv, OpenedOK, Authorized
<1> QED
  BY <1>2, <1>3

LEMMA TransferInv ==
    ASSUME IInv, Transfer
    PROVE  IInv'
<1> DEFINE s(n) == [opened[sending] EXCEPT !.sent = n]
<1>1. /\ phase = "up"
      /\ UNCHANGED <<bus, node, firmware, wanted, claims, phase, chosen, current>>
  BY DEF Transfer, env
<1>2. ASSUME NEW n \in 0 .. Chunks, opened' = [opened EXCEPT ![sending] = s(n)],
             sending' \in DOMAIN opened, Faked => n = 0,
             n < FrameTransfers(opened[sending])
      PROVE  IInv'
  <2>1. /\ s(n) \in Session
        /\ s(n).device = opened[sending].device /\ s(n).id = opened[sending].id
        /\ s(n).address = opened[sending].address
        /\ s(n).route = opened[sending].route
        /\ s(n).policy = opened[sending].policy
        /\ s(n).live = opened[sending].live
        /\ s(n).sent = n
    BY <1>1, UpFacts DEF Session
  <2>2. s(n).torn = opened[sending].torn
    BY <1>1, UpFacts DEF Session
  <2>3. s(n).torn => s(n).route = "bulk"
    BY <1>1, <2>1, <2>2, UpFacts
  <2>4. Faked => s(n) = NullOutput
    <3>0. NullOutput.sent = 0
      BY DEF NullOutput, NoSession
    <3>1. [NullOutput EXCEPT !.sent = 0] = NullOutput
      BY <3>0, NoSessionFacts DEF Session
    <3> QED
      BY <1>1, <1>2, <3>1, UpFacts
  <2>5. s(n).sent < FrameTransfers(s(n))
    BY <1>2, <2>1 DEF FrameTransfers
  <2> HIDE DEF s
  <2> QED
    BY <1>1, <1>2, <2>1, <2>3, <2>4, <2>5, UpFacts, SentKept
<1>3. CASE /\ opened[sending].sent + 1 = FrameTransfers(opened[sending])
           /\ opened' = [opened EXCEPT ![sending].sent = 0] /\ Advance
  <2>1. 0 \in 0 .. Chunks /\ 0 < FrameTransfers(opened[sending])
    BY SessionsAssumption DEF FrameTransfers
  <2>2. opened' = [opened EXCEPT ![sending] = s(0)]
    BY <1>3
  <2>3. sending' \in DOMAIN opened
    BY <1>1, <1>3, UpFacts DEF Advance
  <2> QED
    BY <1>2, <2>1, <2>2, <2>3
<1>4. CASE /\ opened[sending].sent + 1 # FrameTransfers(opened[sending])
           /\ opened' = [opened EXCEPT ![sending].sent = @ + 1]
           /\ UNCHANGED sending
  <2> DEFINE sent == opened[sending].sent
             most == FrameTransfers(opened[sending])
  <2>1. sent \in Nat /\ most \in Nat /\ most <= Chunks /\ sent < most
    <3>1. sent \in 0 .. Chunks /\ sent < most
      BY <1>1, UpFacts DEF Session
    <3>2. most \in Nat /\ most <= Chunks
      BY SessionsAssumption DEF FrameTransfers
    <3> QED
      BY <3>1, <3>2
  <2>2. Faked => sent = 0 /\ most = 1
    BY <1>1, UpFacts DEF NullOutput, NoSession, FrameTransfers
  <2>3. opened' = [opened EXCEPT ![sending] = s(sent + 1)]
    BY <1>4
  <2> HIDE DEF sent, most
  <2>4. sent + 1 \in 0 .. Chunks /\ sent + 1 < most /\ ~Faked
    BY <1>4, <2>1, <2>2, SessionsAssumption DEF sent, most
  <2> QED
    BY <1>1, <1>2, <1>4, <2>3, <2>4, UpFacts DEF most
<1> QED
  BY <1>3, <1>4 DEF Transfer

\* A frame that times out halfway on the bulk route tears the next one; on any
\* other route the group goes.
LEMMA SendFailsInv ==
    ASSUME IInv, SendFails
    PROVE  IInv'
<1>1. /\ phase = "up" /\ opened[sending].route # "null"
      /\ UNCHANGED <<bus, node, firmware, wanted>>
  BY DEF SendFails, env
<1>2. CASE GiveUp
  BY <1>1, <1>2, GiveUpInv
<1>3. ASSUME NEW error \in {"lost", "timeout"}, ~Fatal(opened[sending], error),
             opened' = [opened EXCEPT ![sending].sent = 0,
                            ![sending].torn = @ \/ opened[sending].sent > 0],
             sending' = 1, UNCHANGED <<claims, phase, chosen, current>>
      PROVE  IInv'
  <2> DEFINE begun == opened[sending].torn \/ opened[sending].sent > 0
             whole == [opened[sending] EXCEPT !.sent = 0]
             s == [whole EXCEPT !.torn = begun]
  <2>1. opened[sending].route = "bulk"
    BY <1>3 DEF Fatal
  <2>2. ~Faked
    BY <1>1, <2>1, UpFacts DEF NullOutput, NoSession
  <2>3. /\ whole \in Session
        /\ whole.device = opened[sending].device
        /\ whole.id = opened[sending].id
        /\ whole.address = opened[sending].address
        /\ whole.route = opened[sending].route
        /\ whole.policy = opened[sending].policy /\ whole.sent = 0
    BY <1>1, UpFacts, SessionsAssumption DEF Session
  <2>12. whole.live = opened[sending].live
    BY <1>1, UpFacts DEF Session
  <2>4. begun \in BOOLEAN
    <3>1. opened[sending].torn \in BOOLEAN
      BY <1>1, UpFacts DEF Session
    <3> QED
      BY <3>1
  <2>5. opened' = [opened EXCEPT ![sending] = s]
    BY <1>1, <1>3, UpFacts DEF IInv, OpenedOK, Session
  <2> HIDE DEF whole, begun
  <2>6. /\ s \in Session
        /\ s.device = whole.device /\ s.id = whole.id
        /\ s.address = whole.address /\ s.route = whole.route
        /\ s.policy = whole.policy /\ s.live = whole.live
        /\ s.sent = whole.sent
    BY <2>3, <2>4 DEF Session
  <2> HIDE DEF s
  <2>7. s.sent < FrameTransfers(s)
    BY <2>3, <2>6, SessionsAssumption DEF FrameTransfers
  <2>8. s.torn => s.route = "bulk"
    BY <2>1, <2>3, <2>6
  <2>9. sending' \in DOMAIN opened /\ sending \in DOMAIN opened
    BY <1>1, <1>3, UpFacts
  <2>10. /\ s.device = opened[sending].device /\ s.id = opened[sending].id
         /\ s.address = opened[sending].address
         /\ s.route = opened[sending].route
         /\ s.policy = opened[sending].policy
    BY <2>3, <2>6
  <2>11. s.live = opened[sending].live
    BY <2>6, <2>12
  <2> QED
    BY <1>1, <1>3, <2>2, <2>5, <2>6, <2>7, <2>8, <2>9, <2>10, <2>11, SentKept
<1> QED
  BY <1>2, <1>3 DEF SendFails

LEMMA FaultInv == ASSUME IInv, Fault PROVE IInv'
BY GiveUpInv DEF Fault, env

\* A session of an unplugged device is dead, and otherwise what it was.
LEMMA LostFacts ==
    ASSUME NEW s \in Session, NEW d
    PROVE  /\ Lost(s, d) \in Session
           /\ Lost(s, d).device = s.device /\ Lost(s, d).id = s.id
           /\ Lost(s, d).address = s.address /\ Lost(s, d).route = s.route
           /\ Lost(s, d).policy = s.policy /\ Lost(s, d).sent = s.sent
           /\ Lost(s, d).torn = s.torn
           /\ Lost(s, d).live <=> (s.live /\ s.device # d)
           /\ s.device # d => Lost(s, d) = s
<1> DEFINE dead == [s EXCEPT !.live = FALSE]
<1>1. /\ dead \in Session
      /\ dead.device = s.device /\ dead.id = s.id
      /\ dead.address = s.address /\ dead.route = s.route
      /\ dead.policy = s.policy /\ dead.sent = s.sent
  BY DEF Session
<1>2. dead.torn = s.torn /\ ~dead.live
  BY DEF Session
<1> HIDE DEF dead
<1>3. Lost(s, d) = IF s.device = d THEN dead ELSE s
  BY DEF Lost, dead
<1> QED
  BY <1>1, <1>2, <1>3, Zenon

\* The kernel takes back what it had given, whoever held it, and the sessions
\* of that device are dead.
LEMMA UnplugInv ==
    ASSUME IInv, NEW d \in Devices, Unplug(d)
    PROVE  IInv'
<1>1. /\ bus' = [bus EXCEPT ![d] = Nowhere]
      /\ node' = [node EXCEPT ![d] = NoNode]
      /\ claims' = {c \in claims : c[1] # d}
      /\ opened' = [i \in DOMAIN opened |-> Lost(opened[i], d)]
      /\ current' = [current EXCEPT !.session = Lost(@, d)]
      /\ UNCHANGED <<firmware, wanted, phase, chosen, sending>>
  BY DEF Unplug
<1>2. /\ \A e \in Devices \ {d} : bus'[e] = bus[e] /\ node'[e] = node[e]
      /\ bus'[d] = Nowhere /\ node'[d] = NoNode
      /\ BusOK'
  BY <1>1 DEF IInv, BusOK, HasNode
<1>3. /\ opened \in Seq(Session) /\ DOMAIN opened = 1 .. Len(opened)
      /\ Len(opened) \in Nat
      /\ \A i \in DOMAIN opened : opened[i] \in Session
  BY DEF IInv, OpenedOK
<1>4. /\ opened' \in Seq(Session) /\ Len(opened') = Len(opened)
      /\ DOMAIN opened' = DOMAIN opened
      /\ \A i \in DOMAIN opened : opened'[i] = Lost(opened[i], d)
  <2>1. \A i \in DOMAIN opened : Lost(opened[i], d) \in Session
    BY <1>3, LostFacts
  <2> QED
    BY <1>1, <1>3, <2>1
<1>5. Target' = Target
  BY <1>1, <1>4 DEF Target
<1>6. ChosenOK'
  BY <1>1, <1>4 DEF IInv, ChosenOK, Chosen
<1>7. OpenedOK'
  <2>1. ASSUME Faked
        PROVE  Faked'
    <3>1. Lost(NullOutput, d) = NullOutput
      BY SessionsAssumption DEF Lost, NullOutput, NoSession
    <3>2. opened = <<NullOutput>>
      BY <2>1 DEF Faked
    <3>3. opened' = <<NullOutput>>
      BY <1>4, <3>1, <3>2
    <3> QED
      BY <1>1, <2>1, <3>3 DEF Faked
  <2>2. ASSUME NEW i \in DOMAIN opened,
               Authorized(opened[i]), Placed(opened[i])
        PROVE  Authorized(opened[i])' /\ Placed(opened[i])'
    <3> DEFINE s == opened[i]
               t == opened'[i]
    <3>1. /\ t.device = s.device /\ t.id = s.id /\ t.address = s.address
          /\ t.route = s.route /\ t.policy = s.policy /\ t.sent = s.sent
      BY <1>3, <1>4, LostFacts
    <3>2. t.torn => s.torn
      BY <1>3, <1>4, LostFacts
    <3>3. t.live => s.live /\ s.device # d
      BY <1>3, <1>4, LostFacts
    <3> DEFINE authorized(r) == Authorized(r)
    <3>4. authorized(t)
      <4> HIDE DEF s, t
      <4>1. authorized(s)
        BY <2>2 DEF s
      <4> QED
        BY <3>1, <3>2, <4>1 DEF Authorized, Exactly, FrameTransfers
    <3>5. Authorized(opened[i])'
      BY <1>1, <3>4 DEF Authorized, Exactly, Seen
    <3>6. t.live => bus'[t.device] = t.address
      BY <1>2, <2>2, <3>1, <3>3 DEF Placed, Authorized
    <3> QED
      BY <3>5, <3>6 DEF Placed
  <2>3. \A i \in DOMAIN opened : /\ opened'[i].id = opened[i].id
                                 /\ opened'[i].address = opened[i].address
    BY <1>3, <1>4, LostFacts
  <2>4. opened = <<>> => opened' = <<>>
    BY <1>3, <1>4
  <2> QED
    BY <1>1, <1>4, <2>1, <2>2, <2>3, <2>4 DEF IInv, OpenedOK
<1> DEFINE s == current.session
           t == Lost(current.session, d)
<1>8. s \in Session /\ current' = [step |-> current.step,
                                   name |-> current.name, session |-> t]
  BY <1>1 DEF IInv, Walking
<1>9. /\ t \in Session /\ t.device = s.device /\ t.id = s.id
      /\ t.address = s.address /\ t.route = s.route /\ t.sent = s.sent
  BY <1>8, LostFacts
<1>10. t.torn = s.torn /\ (t.live => s.live /\ s.device # d)
  BY <1>8, LostFacts
<1>11. s = NoSession => t = NoSession
  BY SessionsAssumption DEF Lost, NoSession
<1>12. \A c : c \in Held(t) <=> c \in Held(s) /\ c[1] # d
  BY <1>8, <1>9, LostFacts, HeldIs
<1> HIDE DEF s, t
<1>13. Walking'
  <2>1. s \in Session /\ Walking
    BY <1>8 DEF IInv
  <2>2. current'.step = current.step /\ current'.session = t
        /\ current'.name = current.name
    BY <1>8
  <2>3. current.step \in Late =>
          /\ t.device \in Devices /\ t.id = Target'.id
          /\ t.address = Target'.address
          /\ t.sent = 0 /\ ~t.torn
    BY <1>5, <1>9, <1>10, <2>1 DEF Walking, s
  <2>4. t.device \in Devices /\ Placed(s)
          => (t.live => bus'[t.device] = t.address)
    BY <1>2, <1>9, <1>10 DEF Placed
  <2>5. \A shape : Exactly(s, shape) => Exactly(t, shape)
    BY <1>9 DEF Exactly
  <2>6. current.step = "authenticate" =>
          (t.live => node'[t.device] = current.name /\ current.name # NoNode)
    BY <1>2, <1>9, <1>10, <2>1 DEF Walking, Late, s
  <2>7. current.step = "node" => \A c \in claims' : node'[c[1]] # current.name
    BY <1>1, <1>2, <2>1 DEF Walking, IInv, ClaimsOK
  <2>8. /\ current.step \in Early => t = NoSession
        /\ phase' = "opening" <=> current.step # "none"
        /\ current.step \in Early \cup Late
    BY <1>1, <1>11, <2>1 DEF Walking, s
  <2>9. /\ current.step = "handshake" =>
             /\ t.route = "bulk" /\ Exactly(t, "square")
             /\ t.live => bus'[t.device] = t.address
        /\ current.step = "authenticate" => t.route = "hidraw"
        /\ current.step = "read" =>
             /\ t.route = "hidraw"
             /\ t.live => bus'[t.device] = t.address
        /\ current.step = "pm128" =>
             /\ t.route = "libusb" /\ Exactly(t, "type2")
             /\ t.live => bus'[t.device] = t.address
    BY <1>9, <2>1, <2>3, <2>4, <2>5 DEF Walking, Late, s
  <2>10. /\ current.step = "bulk" => Seen("square", Target'.id)
         /\ current.step \in {"correlate", "node", "authenticate", "read",
                               "interrupt"} => Seen("type2", Target'.id)
         /\ current.step = "node" => current.name # NoNode
    BY <1>5, <2>1 DEF Walking
  <2> QED
    BY <1>8, <1>9, <2>3, <2>6, <2>7, <2>8, <2>9, <2>10
       DEF Walking, Late, Early, Seen, Placed, Exactly
<1>14. ClaimsOK'
  <2>1. \A c : c \in HeldBy(opened') <=> c \in HeldBy(opened) /\ c[1] # d
    <3>1. \A c : \A i \in DOMAIN opened :
            c \in Held(opened'[i]) <=> c \in Held(opened[i]) /\ c[1] # d
      BY <1>3, <1>4, LostFacts, HeldIs
    <3> QED
      BY <1>4, <3>1, HeldByIs
  <2>2. claims = HeldBy(opened) \cup Held(s)
    BY DEF IInv, ClaimsOK, s
  <2>3. claims' = HeldBy(opened') \cup Held(t)
    BY <1>1, <1>12, <2>1, <2>2
  <2>4. (HeldBy(opened) \cup Held(current.session))' =
          HeldBy(opened') \cup Held(t)
    BY <1>8 DEF HeldBy, Held
  <2>5. claims' \subseteq claims
        /\ \A c \in claims' : c[1] \in Devices /\ c[1] # d
    BY <1>1 DEF IInv, ClaimsOK
  <2> QED
    BY <1>2, <2>3, <2>4, <2>5 DEF IInv, ClaimsOK, HasNode
<1> QED
  BY <1>2, <1>6, <1>7, <1>13, <1>14 DEF IInv

\* Only a device that nobody holds moves or gets a node, so what the sessions
\* know of theirs stays true.
LEMMA OthersKept ==
    ASSUME IInv, NEW d \in Devices, \A c \in claims : c[1] # d,
           \A e \in Devices \ {d} : bus'[e] = bus[e] /\ node'[e] = node[e],
           UNCHANGED <<firmware, wanted, claims, phase, chosen, opened, current,
                       sending>>,
           BusOK',
           node'[d] # NoNode => \A e \in Devices \ {d} : node[e] # node'[d],
           node'[d] # node[d] => node[d] = NoNode
    PROVE  IInv'
<1>1. Target' = Target
  BY DEF Target
<1>2. ChosenOK'
  BY DEF IInv, ChosenOK, Chosen
<1>3. \A i \in DOMAIN opened : opened[i].live => opened[i].device # d
  <2>1. \A i \in DOMAIN opened : opened[i].live =>
           <<opened[i].device, opened[i].route>> \in claims
    BY HeldIs, HeldByIs DEF IInv, ClaimsOK
  <2> QED
    BY <2>1
<1>4. current.session.live => current.session.device # d
  <2>1. current.session.live =>
           <<current.session.device, current.session.route>> \in claims
    BY HeldIs DEF IInv, ClaimsOK
  <2> QED
    BY <2>1
<1>5. OpenedOK'
  <2>1. ASSUME NEW i \in DOMAIN opened,
               Authorized(opened[i]), Placed(opened[i])
        PROVE  Authorized(opened[i])' /\ Placed(opened[i])'
    BY <1>3, <2>1 DEF Authorized, Placed, Exactly, Seen
  <2>2. Faked => Faked'
    BY DEF Faked
  <2> QED
    BY <2>1, <2>2 DEF IInv, OpenedOK
<1>6. Walking'
  <2> DEFINE s == current.session
  <2>1. s.device \in Devices /\ Placed(s) => Placed(s)'
    BY <1>4 DEF Placed
  <2>2. current.step = "authenticate" =>
          (s.live => node'[s.device] = current.name /\ current.name # NoNode)
    BY <1>4 DEF IInv, Walking, Late
  <2>3. current.step = "node" => \A c \in claims : node'[c[1]] # current.name
    BY DEF IInv, Walking, ClaimsOK
  <2> QED
    BY <1>1, <2>1, <2>2, <2>3
       DEF IInv, Walking, Early, Late, Exactly, Seen
<1>7. ClaimsOK'
  <2>1. \A c \in claims : node'[c[1]] = node[c[1]]
    BY DEF IInv, ClaimsOK
  <2>2. (HeldBy(opened) \cup Held(current.session))' =
          HeldBy(opened) \cup Held(current.session)
    BY DEF HeldBy, Held
  <2> QED
    BY <2>1, <2>2 DEF IInv, ClaimsOK, HasNode
<1> QED
  BY <1>2, <1>5, <1>6, <1>7 DEF IInv

\* What is held is plugged in.
LEMMA HeldPresent ==
    ASSUME IInv, NEW c \in claims
    PROVE  bus[c[1]] # Nowhere
<1>1. c \in HeldBy(opened) \/ c \in Held(current.session)
  BY DEF IInv, ClaimsOK
<1>2. CASE c \in HeldBy(opened)
  <2>1. PICK i \in DOMAIN opened : opened[i].live
                                /\ c = <<opened[i].device, opened[i].route>>
    BY <1>2, HeldIs, HeldByIs
  <2>2. ~Faked
    <3>1. Faked => opened[i] = NullOutput
      BY DEF Faked
    <3> QED
      BY <2>1, <3>1, NoSessionFacts
  <2>3. Authorized(opened[i]) /\ Placed(opened[i])
    BY <2>1, <2>2 DEF IInv, OpenedOK
  <2> QED
    BY <2>1, <2>3, SessionsAssumption DEF Authorized, Placed
<1>3. CASE c \in Held(current.session)
  <2> DEFINE s == current.session
  <2>1. s.live /\ c = <<s.device, s.route>>
    BY <1>3, HeldIs
  <2>2. current.step \in Late /\ s.device \in Devices /\ phase = "opening"
    BY <2>1 DEF IInv, Walking, Early, Late, NoSession
  <2>3. s.address \in Addresses
    BY <2>2, TargetEntry DEF IInv, Walking, Entry
  <2>4. CASE current.step = "authenticate"
    BY <2>1, <2>2, <2>4 DEF IInv, Walking, BusOK
  <2>5. CASE current.step # "authenticate"
    <3>1. Placed(s)
      BY <2>2, <2>5 DEF IInv, Walking, Late
    <3> QED
      BY <2>1, <2>3, <3>1, SessionsAssumption DEF Placed
  <2> QED
    BY <2>4, <2>5
<1> QED
  BY <1>1, <1>2, <1>3

LEMMA PlugInv ==
    ASSUME IInv, NEW d \in Devices, NEW a \in Addresses, Plug(d, a)
    PROVE  IInv'
<1>1. /\ bus[d] = Nowhere /\ At(a) = {} /\ bus' = [bus EXCEPT ![d] = a]
      /\ UNCHANGED <<node, firmware, claims, wanted, phase, chosen, opened,
                     current, sending>>
  BY DEF Plug
<1>2. BusOK'
  BY <1>1, SessionsAssumption DEF IInv, BusOK, At, HasNode
<1>3. node[d] = NoNode
  BY <1>1 DEF IInv, BusOK
<1>4. \A e \in Devices \ {d} : bus'[e] = bus[e] /\ node'[e] = node[e]
  BY <1>1 DEF IInv, BusOK
<1>5. \A c \in claims : c[1] # d
  BY <1>1, HeldPresent
<1> QED
  BY <1>1, <1>2, <1>3, <1>4, <1>5, OthersKept

LEMMA RegisterInv ==
    ASSUME IInv, NEW d \in Devices, Register(d)
    PROVE  IInv'
<1>1. PICK n \in Nodes : Named(n) = {} /\ node' = [node EXCEPT ![d] = n]
  BY DEF Register
<1>2. /\ bus[d] # Nowhere /\ HasNode(d) /\ node[d] = NoNode
      /\ <<d, "libusb">> \notin claims
      /\ UNCHANGED <<bus, firmware, claims, wanted, phase, chosen, opened,
                     current, sending>>
  BY DEF Register
<1>3. \A e \in Devices : node[e] # n
  BY <1>1 DEF Named
<1>4. /\ node'[d] = n /\ n # NoNode
      /\ \A e \in Devices \ {d} : bus'[e] = bus[e] /\ node'[e] = node[e]
  BY <1>1, <1>2, SessionsAssumption DEF IInv, BusOK
<1>5. BusOK'
  BY <1>1, <1>2, <1>3, <1>4 DEF IInv, BusOK, HasNode
<1>6. \A c \in claims : c[1] # d
  <2>1. ASSUME NEW c \in claims, c[1] = d
        PROVE  FALSE
    <3>1. c = <<d, c[2]>> /\ c[2] \in {"bulk", "hidraw", "libusb"}
      BY <2>1 DEF IInv, ClaimsOK
    <3> QED
      BY <1>2, <2>1, <3>1 DEF IInv, ClaimsOK
  <2> QED
    BY <2>1
<1> QED
  BY <1>2, <1>3, <1>4, <1>5, <1>6, OthersKept

LEMMA StutterInv == ASSUME IInv, UNCHANGED vars PROVE IInv'
BY DEF IInv, BusOK, ChosenOK, Chosen, OpenedOK, Faked, Authorized, Placed,
       Exactly, Seen, Walking, Target, ClaimsOK, HeldBy, Held, vars

LEMMA StepInv == ASSUME IInv, [Next]_vars PROVE IInv'
BY ConnectingInv, FaultInv, TransferInv, SendFailsInv, UnplugInv, PlugInv,
   RegisterInv, StutterInv DEF Next, Sending

LEMMA Invariance == Spec => []IInv
BY InitInv, StepInv, PTL DEF Spec

-----------------------------------------------------------------------------
(* What the daemon may write to. *)

\* Every output gave the answer its policy needs on the route of that policy,
\* and while it is there it is where the scan saw it.
THEOREM OutputsAuthorized == Spec => []OutputAuthorized
<1>1. IInv => OutputAuthorized
  <2> SUFFICES ASSUME IInv, NEW i \in DOMAIN opened, opened[i].route # "null"
               PROVE  LET s == opened[i] IN
                      /\ <<firmware[s.device], s.route>> = Grounds(s.policy).said
                      /\ s.live => bus[s.device] = s.address
                      /\ s.route # "hidraw" =>
                           /\ ShapeOf[s.device] = Grounds(s.policy).shape
                           /\ IdOf[s.device] = s.id
    BY DEF OutputAuthorized
  <2>1. ~Faked
    <3>1. Faked => opened[i] = NullOutput
      BY DEF Faked
    <3> QED
      BY <3>1, NoSessionFacts
  <2>2. Authorized(opened[i]) /\ Placed(opened[i])
    BY <2>1 DEF IInv, OpenedOK
  <2> QED
    BY <2>2 DEF Authorized, Placed, Exactly, Grounds
<1> QED
  BY <1>1, Invariance, PTL

\* The program holds what its open sessions need, and nothing else: a walk
\* that failed halfway gave everything back.
THEOREM InterfacesHeld == Spec => []ClaimsHeld
<1>1. IInv => ClaimsHeld
  BY DEF IInv, ClaimsOK, ClaimsHeld
<1> QED
  BY <1>1, Invariance, PTL

\* Only a bulk session is written to after a frame that stopped halfway.
THEOREM NoTornFrame == Spec => []FramesWhole
<1>1. IInv => FramesWhole
  <2>1. ~NullOutput.torn
    BY DEF NullOutput, NoSession
  <2> QED
    BY <2>1 DEF IInv, OpenedOK, Faked, Authorized, FramesWhole
<1> QED
  BY <1>1, Invariance, PTL

-----------------------------------------------------------------------------
(* What is seen of it from outside. *)

Present(s) == [id |-> s.id, address |-> s.address, policy |-> s.policy]

LEMMA VisibleIs ==
    /\ phase # "up" => Visible = <<>>
    /\ phase = "up" => Visible = [i \in DOMAIN opened |-> Present(opened[i])]
BY DEF Visible, Present

\* An authorised session is an output with a policy of its identity.
LEMMA AuthorizedExact ==
    ASSUME NEW s \in Session, Authorized(s)
    PROVE  /\ Present(s) \in Group!Output
           /\ s.policy \in
                {p \in Policies \ {"none", "null"} :
                   \E d \in Devices : /\ IdOf[d] = s.id
                                      /\ ShapeOf[d] = Grounds(p).shape}
<1> DEFINE Ids == {IdOf[d] : d \in Devices}
           Of(n) == {p \in Policies \ {"none", "null"} :
                       \E d \in Devices : /\ IdOf[d] = n
                                          /\ ShapeOf[d] = Grounds(p).shape}
<1>1. PICK d \in Devices : IdOf[d] = s.id /\ ShapeOf[d] = Grounds(s.policy).shape
  BY DEF Authorized, Exactly, Seen, Grounds
<1>2. s.policy \in Policies \ {"none", "null"}
  BY DEF Authorized, Policies
<1>3. s.policy \in Of(s.id) /\ s.id \in Ids
  BY <1>1, <1>2
<1>4. s.id \in Ids /\ s.address \in Nat
      /\ s.policy \in UNION {[i \in Ids |-> Of(i)][n] : n \in Ids}
  <2>1. s.address \in Nat
    BY SessionsAssumption DEF Authorized
  <2>2. [i \in Ids |-> Of(i)][s.id] = Of(s.id)
    BY <1>3
  <2> HIDE DEF Of, Ids
  <2> QED
    BY <1>3, <2>1, <2>2
<1>5. Present(s) \in Group!Output
  BY <1>4 DEF Group!Output, Present
<1> QED
  BY <1>3, <1>5

\* The last display that joins makes the group whole.
LEMMA JoinConnects ==
    ASSUME IInv, IInv', phase = "opening", current.step \in Late,
           NEW policy, Join(policy), UNCHANGED <<firmware, wanted>>,
           phase' = "up"
    PROVE  Group!Connect
<1> DEFINE s == [current.session EXCEPT !.policy = policy]
           g == Visible'
<1>1. /\ opened' = Append(opened, s) /\ Len(opened) + 1 = Len(chosen)
      /\ chosen' = chosen
  BY DEF Join
<1>2. /\ opened \in Seq(Session) /\ chosen \in Seq(Entry)
      /\ Group!Fits(wanted, chosen) /\ ~wanted.forced
      /\ \A i \in DOMAIN opened : /\ opened[i].id = chosen[i].id
                                  /\ opened[i].address = chosen[i].address
  BY DEF IInv, OpenedOK, ChosenOK, Chosen
<1>3. /\ current.session \in Session
      /\ current.session.route \in {"bulk", "hidraw", "libusb"}
      /\ current.session.id = Target.id
      /\ current.session.address = Target.address
  BY DEF IInv, Walking, Late
<1>4. /\ s.route \in {"bulk", "hidraw", "libusb"}
      /\ s.id = Target.id /\ s.address = Target.address
  BY <1>3 DEF Session
<1> HIDE DEF s
<1>5. /\ DOMAIN opened' = DOMAIN chosen /\ DOMAIN opened' # {}
      /\ \A i \in DOMAIN opened' : /\ opened'[i].id = chosen[i].id
                                   /\ opened'[i].address = chosen[i].address
  BY <1>1, <1>2, <1>4 DEF Target
<1>6. ASSUME Faked'
      PROVE  FALSE
  <2>1. opened' = <<NullOutput>>
    BY <1>6 DEF Faked
  <2>2. opened'[Len(opened) + 1] = s /\ Len(opened') = Len(opened) + 1
    BY <1>1, <1>2
  <2>3. s = NullOutput
    BY <2>1, <2>2
  <2> QED
    BY <1>4, <2>3, NoSessionFacts
<1>7. \A i \in DOMAIN opened' : opened'[i] \in Session /\ Authorized(opened[i])'
  BY <1>6 DEF IInv, OpenedOK
<1>8. g = [i \in DOMAIN opened' |-> Present(opened'[i])]
  BY DEF Visible, Present
<1>9. /\ DOMAIN g = DOMAIN chosen /\ DOMAIN g # {}
      /\ \A i \in DOMAIN g : g[i].id = chosen[i].id /\ g[i].address = chosen[i].address
  BY <1>5, <1>8 DEF Present
<1>10. Group!Exact(g)
  <2>1. ASSUME NEW i \in DOMAIN g
        PROVE  /\ g[i] \in Group!Output
               /\ g[i].policy \in
                    {p \in Policies \ {"none", "null"} :
                       \E d \in Devices : /\ IdOf[d] = g[i].id
                                          /\ ShapeOf[d] = Grounds(p).shape}
    <3>1. opened'[i] \in Session /\ Authorized(opened[i])'
          /\ g[i] = Present(opened'[i])
      BY <1>7, <1>8, <2>1
    <3> DEFINE t == opened'[i]
    <3>2. t \in Session /\ Authorized(t)
      BY <3>1 DEF Authorized, Exactly, Seen, FrameTransfers
    <3>3. g[i] = Present(t)
      BY <3>1
    <3> HIDE DEF t, g
    <3>4. g[i].id = t.id /\ g[i].policy = t.policy
      BY <3>3 DEF Present
    <3> QED
      BY <3>2, <3>3, <3>4, AuthorizedExact
  <2> QED
    BY <2>1 DEF Group!Exact
<1>11. Group!Fits(wanted, g)
  BY <1>2, <1>9 DEF Group!Fits, Group!Before
<1>12. Visible = <<>> /\ g # <<>>
  BY <1>9 DEF Visible
<1> HIDE DEF g
<1> QED
  BY <1>2, <1>10, <1>11, <1>12 DEF Group!Connect, g

LEMMA FakeConnects ==
    ASSUME phase = "idle", Fake, wanted.forced \/ wanted.profile, MayFake
    PROVE  Group!Connect
<1> DEFINE g == Visible'
<1>1. g = <<[id |-> 0, address |-> 0, policy |-> "null"]>>
  <2>1. phase' = "up" /\ opened' = <<NullOutput>>
    BY DEF Fake
  <2>2. g = [i \in {1} |-> Present(NullOutput)]
    BY <2>1 DEF Visible, Present
  <2>3. /\ NullOutput.id = 0 /\ NullOutput.address = 0
        /\ NullOutput.policy = "null"
    BY DEF NullOutput, NoSession
  <2>4. Present(NullOutput) = [id |-> 0, address |-> 0, policy |-> "null"]
    BY <2>3 DEF Present
  <2> QED
    BY <2>2, <2>4
<1>2. Visible = <<>> /\ g # <<>> /\ wanted' = wanted
  BY <1>1 DEF Visible, Fake
<1> HIDE DEF g
<1> QED
  BY <1>1, <1>2
     DEF Group!Connect, Group!MayFake, Group!Fixture, MayFake, g

\* Whatever is given up, the whole group goes with it.
LEMMA GiveUpDisconnects ==
    ASSUME IInv, GiveUp, UNCHANGED wanted
    PROVE  Group!Disconnect \/ UNCHANGED Group!vars
<1>1. Visible' = <<>>
  BY DEF GiveUp, Visible
<1>2. CASE Visible = <<>>
  BY <1>1, <1>2 DEF Group!vars
<1>3. CASE Visible # <<>>
  BY <1>1, <1>3 DEF Group!Disconnect
<1> QED
  BY <1>2, <1>3

\* A step that leaves the phase alone, and the outputs what they were.
LEMMA VisibleKept ==
    ASSUME UNCHANGED <<wanted, phase>>,
           phase = "up" =>
             /\ DOMAIN opened' = DOMAIN opened
             /\ \A i \in DOMAIN opened : /\ opened'[i].id = opened[i].id
                                         /\ opened'[i].address = opened[i].address
                                         /\ opened'[i].policy = opened[i].policy
    PROVE  UNCHANGED Group!vars
<1>1. Visible' = Visible
  BY DEF Visible
<1> QED
  BY <1>1 DEF Group!vars

\* A session that another of the same identity and policy replaces.
LEMMA ReplacedKept ==
    ASSUME UNCHANGED <<wanted, phase>>, opened \in Seq(Session),
           NEW n \in DOMAIN opened, NEW s, opened' = [opened EXCEPT ![n] = s],
           s.id = opened[n].id, s.address = opened[n].address,
           s.policy = opened[n].policy
    PROVE  UNCHANGED Group!vars
BY VisibleKept

LEMMA NegotiateRefines ==
    ASSUME IInv, IInv', Negotiate
    PROVE  Group!Next \/ UNCHANGED Group!vars
<1>1. UNCHANGED <<firmware, wanted>> /\ phase = "opening"
  BY DEF Negotiate, Identify, OpenBulk, HandshakeSquare, Correlate, OpenNode,
         Authenticate, ReadPassive, OpenInterrupt, HandshakePm128, Walk
<1>2. CASE GiveUp
  BY <1>1, <1>2, GiveUpDisconnects DEF Group!Next
<1>3. CASE UNCHANGED phase
  BY <1>1, <1>3, VisibleKept
<1>4. ASSUME NEW policy, Join(policy), current.step \in Late
      PROVE  Group!Next \/ UNCHANGED Group!vars
  <2>1. CASE phase' = "up"
    BY <1>1, <1>4, <2>1, JoinConnects DEF Group!Next
  <2>2. CASE phase' = phase
    BY <1>3, <2>2
  <2> QED
    BY <1>4, <2>1, <2>2 DEF Join
<1>5. \/ GiveUp \/ UNCHANGED phase
      \/ \E policy : Join(policy) /\ current.step \in Late
  BY DEF Negotiate, Identify, OpenBulk, HandshakeSquare, Correlate, OpenNode,
         Authenticate, ReadPassive, OpenInterrupt, HandshakePm128, Walk,
         GoOn, Hold, CloseHidraw, Late
<1> QED
  BY <1>2, <1>3, <1>4, <1>5

LEMMA StepRefines ==
    ASSUME IInv, IInv', [Next]_vars
    PROVE  [Group!Next]_(Group!vars)
<1>1. CASE Negotiate
  BY <1>1, NegotiateRefines
<1>2. CASE ConnectNull \/ FallBack
  BY <1>2, FakeConnects DEF ConnectNull, FallBack, Group!Next
<1>3. CASE Scan
  <2>1. Visible = <<>> /\ Visible' = <<>> /\ wanted' = wanted
    BY <1>3 DEF Scan, Visible
  <2> QED
    BY <2>1 DEF Group!vars
<1>4. CASE Fault
  BY <1>4, GiveUpDisconnects DEF Fault, Group!Next
<1>5. CASE SendFails
  <2>1. CASE GiveUp
    BY <1>5, <2>1, GiveUpDisconnects DEF SendFails, Group!Next
  <2>2. CASE ~GiveUp
    <3> DEFINE s == [opened[sending] EXCEPT !.sent = 0,
                               !.torn = @ \/ opened[sending].sent > 0]
    <3>1. /\ phase = "up" /\ UNCHANGED <<wanted, phase>>
          /\ opened' = [opened EXCEPT ![sending] = s]
      BY <1>5, <2>2 DEF SendFails
    <3>2. /\ s.id = opened[sending].id /\ s.address = opened[sending].address
          /\ s.policy = opened[sending].policy
      BY <3>1, UpFacts DEF Session
    <3> HIDE DEF s
    <3> QED
      BY <3>1, <3>2, UpFacts, ReplacedKept DEF IInv, OpenedOK
  <2> QED
    BY <2>1, <2>2
<1>6. CASE Transfer
  <2> DEFINE s(n) == [opened[sending] EXCEPT !.sent = n]
  <2>1. PICK n \in Nat : opened' = [opened EXCEPT ![sending] = s(n)]
    <3>1. /\ opened[sending].sent + 1 \in Nat
          /\ \/ opened' = [opened EXCEPT ![sending].sent = 0]
             \/ opened' = [opened EXCEPT ![sending].sent = @ + 1]
      BY <1>6, UpFacts DEF Transfer, Session
    <3> QED
      BY <3>1
  <2>2. phase = "up" /\ UNCHANGED <<wanted, phase>>
    BY <1>6 DEF Transfer
  <2>3. /\ s(n).id = opened[sending].id
        /\ s(n).address = opened[sending].address
        /\ s(n).policy = opened[sending].policy
    BY <2>2, UpFacts DEF Session
  <2> HIDE DEF s
  <2> QED
    BY <2>1, <2>2, <2>3, UpFacts, ReplacedKept DEF IInv, OpenedOK
<1>7. ASSUME NEW d \in Devices, Unplug(d)
      PROVE  UNCHANGED Group!vars
  <2>1. \A i \in DOMAIN opened : opened[i] \in Session
    BY DEF IInv, OpenedOK
  <2> QED
    BY <1>7, <2>1, LostFacts, VisibleKept DEF Unplug
<1>8. ASSUME NEW d \in Devices, Register(d) \/ \E a \in Addresses : Plug(d, a)
      PROVE  UNCHANGED Group!vars
  BY <1>8, VisibleKept DEF Register, Plug
<1>9. CASE UNCHANGED vars
  BY <1>9, VisibleKept DEF vars
<1> QED
  BY <1>1, <1>2, <1>3, <1>4, <1>5, <1>6, <1>7, <1>8, <1>9
     DEF Next, Connecting, Sending

\* What the rest of the daemon sees is a group that is whole, as the
\* configuration asks for it, or absent, and never changed in place.
THEOREM GroupWholeOrAbsent == Spec => ImplementsGroup
<1>1. Init => Group!Init
  BY DEF Init, Group!Init, Visible
<1>2. IInv /\ IInv' /\ [Next]_vars => [Group!Next]_(Group!vars)
  BY StepRefines
<1> QED
  BY <1>1, <1>2, Invariance, PTL DEF Spec, ImplementsGroup, Group!Spec
=============================================================================
