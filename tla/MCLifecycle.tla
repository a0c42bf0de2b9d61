---- MODULE MCLifecycle ----
(* Values for the constants of Lifecycle, for TLC. *)
EXTENDS LifecycleInv
DepsChain == [t \in Tasks |-> {d \in Tasks : d < t}]
====
