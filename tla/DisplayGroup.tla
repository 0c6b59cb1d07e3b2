----------------------------- MODULE DisplayGroup ----------------------------
(***************************************************************************)
(* What connect_all (src/transport/discovery.rs) and the tick loop promise *)
(* the rest of the daemon: there is either no display, or the whole group  *)
(* that the configuration asks for, in its order, each output with an      *)
(* exactly negotiated policy.  A group is never patched: it goes away as a *)
(* whole, and a new one is negotiated from nothing.                        *)
(***************************************************************************)
EXTENDS Naturals, Sequences

CONSTANTS
    Ids,         \* USB identities (VID:PID), numbered in their order
    PoliciesOf   \* the output policies of an identity

VARIABLES
    wanted,      \* the display selection: mode, targets, environment
    outputs      \* the connected group; the first output is the primary

vars == <<wanted, outputs>>

\* An output of the group; the null transport answers for no real display.
Output == [id : Ids, address : Nat, policy : UNION {PoliciesOf[i] : i \in Ids}]
Fixture == <<[id |-> 0, address |-> 0, policy |-> "null"]>>

Exact(g) == \A i \in DOMAIN g : /\ g[i] \in Output
                                /\ g[i].policy \in PoliciesOf[g[i].id]

\* `all` mirrors every display, by identity and then by address.
Before(x, y) == x.id < y.id \/ (x.id = y.id /\ x.address < y.address)

\* The group answers the selection.
Fits(w, g) ==
    CASE w.mode = "targets" -> /\ DOMAIN g = DOMAIN w.targets
                               /\ \A i \in DOMAIN g : g[i].id = w.targets[i]
      [] w.mode = "id"      -> DOMAIN g = {1} /\ g[1].id = w.targets[1]
      [] w.mode = "auto"    -> DOMAIN g = {1}
      [] OTHER -> /\ g # <<>>
                  /\ \A i, j \in DOMAIN g : i < j => Before(g[i], g[j])

\* The null transport and the fixture are one display, whatever is wanted.
MayFake(w) == (w.forced \/ w.profile) /\ Len(w.targets) <= 1

-----------------------------------------------------------------------------
Init == outputs = <<>>

Connect ==
    /\ outputs = <<>>
    /\ outputs' # <<>>
    /\ \/ ~wanted.forced /\ Exact(outputs') /\ Fits(wanted, outputs')
       \/ MayFake(wanted) /\ outputs' = Fixture
    /\ UNCHANGED wanted

Disconnect ==
    /\ outputs # <<>> /\ outputs' = <<>>
    /\ UNCHANGED wanted

Next == Connect \/ Disconnect

Spec == Init /\ [][Next]_vars
==============================================================================
