----------------------------- MODULE BackupInv -----------------------------
(***************************************************************************)
(* The inductive invariant of the backup: what the process inside the      *)
(* store knows at every point, and what a worker knows of the generation   *)
(* it read.  Module BackupProofs proves it for any homes, processes,       *)
(* retentions and bounds.                                                  *)
(***************************************************************************)
EXTENDS BackupWorker

\* One process at a time is in the store; what it need not copy any more is
\* there, and what it is about to unlink is referenced by no snapshot.
StoreInv ==
  /\ \A p, q \in Procs : pc[p] \in Locked /\ pc[q] \in Locked => p = q
  /\ SnapshotsRestorable
  /\ \A p \in Procs :
       /\ pc[p] = "copying" => staged[p].blocks \ left[p] \subseteq blocks \ damaged
       /\ pc[p] = "sweeping" => left[p] \cap Referenced = {}

\* Generation g and time u are not ahead of snapshot s.
UpTo(g, u, s) == g <= s.gen /\ u <= s.at

\* Snapshots are published in the order in which they were taken.
OrderInv ==
  /\ \A h \in Homes : Covered(h) <= dirty[h] /\ Newest(h).at <= now
  /\ \A p \in Procs : LET h == HomeOf[p] IN pc[p] = "copying" =>
       /\ UpTo(Covered(h), Newest(h).at, staged[p])
       /\ staged[p].gen <= dirty[h] /\ staged[p].at <= now

\* What a worker read is not ahead of the snapshot it takes; what it wrote back
\* is not ahead of the newest snapshot.
WorkerInv ==
  /\ \A h \in Homes : UpTo(acked[h], lastSuccess[h], Newest(h))
  /\ \A w \in Workers : LET h == HomeOf[w] IN
       /\ generation[w] <= dirty[h] /\ started[w] <= now
       /\ pc[w] = "copying" => UpTo(generation[w], started[w], staged[w])
       /\ pc[w] \in {"pruning", "sweeping", "ok"} => UpTo(generation[w], started[w], Newest(h))

Inv == TypeOK /\ StoreInv /\ OrderInv /\ WorkerInv
=============================================================================
