------------------------------ MODULE MCBackup ------------------------------
(* A home h1 that one or two workers back up, and a home h2 that its owner *)
(* backs up by hand into the same store.                                   *)
EXTENDS BackupInv

CONSTANTS h1, h2, w1, w2, owner, b1, b2

TwoHomes == [p \in Procs |-> IF p = owner THEN h2 ELSE h1]
KeepOne == [p \in Procs |-> 1]
\* One event per worker of h1; the database of h2 does not change.
Events == [h \in Homes |-> IF h = h1 THEN Cardinality(Workers) ELSE 0]
Symmetry == Permutations(Blocks)
=============================================================================
