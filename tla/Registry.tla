------------------------------ MODULE Registry ------------------------------
(***************************************************************************)
(* What the node adapter (server/main.go) promises of its registry,        *)
(* without handlers, locks or files.  The registry is a sequence of nodes: *)
(* the node in slot i has the number i + 1, from which both its name       *)
(* "node-%d" and its address "100.64.0.%d" are built.  A node's identity   *)
(* never changes while the process lives; only the time it was last seen   *)
(* moves, and only forward.  The death of the process may roll the         *)
(* registry back to an earlier state of itself, and nothing else does.     *)
(***************************************************************************)
EXTENDS Integers, Sequences

VARIABLES up,           \* the process runs
          slots         \* the registered nodes, in order of registration

Nodes == [id : Nat, key : Nat, seen : Nat]

\* What identifies a node to its peers: its number and its key pair.
Identity(n) == [id |-> n.id, key |-> n.key]

Identities(s) == {Identity(s[i]) : i \in DOMAIN s}

(***************************************************************************)
(* s is an earlier state of t: t has every node of s in the same slot, and *)
(* saw it no earlier.                                                      *)
(***************************************************************************)
Earlier(s, t) ==
    /\ Len(s) <= Len(t)
    /\ \A i \in 1 .. Len(s) : /\ Identity(s[i]) = Identity(t[i])
                              /\ s[i].seen <= t[i].seen

Init == up = FALSE /\ slots \in Seq(Nodes)

Register ==
    /\ up /\ up'
    /\ Len(slots') = Len(slots) + 1
    /\ \A i \in DOMAIN slots : slots'[i] = slots[i]
    /\ slots'[Len(slots')].id = Len(slots') + 1

Touch ==
    /\ up /\ up'
    /\ Len(slots') = Len(slots)
    /\ Earlier(slots, slots')

Die == up /\ ~up' /\ Earlier(slots', slots)

Restart == ~up /\ up' /\ UNCHANGED slots

Next == Register \/ Touch \/ Die \/ Restart

Spec == Init /\ [][Next]_<<up, slots>>
=============================================================================
