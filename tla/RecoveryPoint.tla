--------------------------- MODULE RecoveryPoint ---------------------------
(***************************************************************************)
(* What the unattended backup promises: the newest snapshot of a home only *)
(* ever moves forward, to states that were committed, and a generation is  *)
(* acknowledged only when a snapshot covers it, once, in ascending order.  *)
(***************************************************************************)
EXTENDS Integers

CONSTANT Homes

VARIABLES
  dirty,    \* the generation of the owner-visible events
  covered,  \* the generation of the newest snapshot
  acked     \* the generation acknowledged as safe

vars == <<dirty, covered, acked>>

Init == dirty = [h \in Homes |-> 0] /\ covered = dirty /\ acked = dirty

Event(h) == dirty' = [dirty EXCEPT ![h] = @ + 1] /\ UNCHANGED <<covered, acked>>

Cover(h) ==
  /\ \E g \in covered[h]..dirty[h] : covered' = [covered EXCEPT ![h] = g]
  /\ UNCHANGED <<dirty, acked>>

Acknowledge(h) ==
  /\ \E g \in (acked[h] + 1)..covered[h] : acked' = [acked EXCEPT ![h] = g]
  /\ UNCHANGED <<dirty, covered>>

Next == \E h \in Homes : Event(h) \/ Cover(h) \/ Acknowledge(h)

Spec == Init /\ [][Next]_vars
=============================================================================
