---------------------------- MODULE BackupWorker ----------------------------
(***************************************************************************)
(* The unattended backup (nc/backup_worker.py): workers started by a timer *)
(* read the generation, take a snapshot through SnapshotStore and then     *)
(* acknowledge the generation they read; an owner may back up other homes, *)
(* or the same one, into the same store.                                   *)
(***************************************************************************)
EXTENDS SnapshotStore

CONSTANTS
  Workers,   \* the processes that are workers; the others are nc backup
  Fallback,  \* FALLBACK_SECONDS
  Stale      \* STALE_SECONDS

ASSUME WorkerAssumption ==
  /\ Workers \subseteq Procs
  /\ Fallback \in Nat /\ Stale \in Nat

VARIABLES
  acked,        \* backup_state.acknowledged_generation
  lastSuccess,  \* backup_state.last_success_at, 0 for NULL
  lastError,    \* whether backup_state.last_error is set
  generation,   \* the generation a worker read
  started       \* the time a worker read it

row == <<acked, lastSuccess, lastError>>
read == <<generation, started>>
vars == <<storeVars, row, read>>

TypeOK ==
  /\ StoreTypeOK
  /\ acked \in [Homes -> Nat]
  /\ lastSuccess \in [Homes -> Nat]
  /\ lastError \in [Homes -> BOOLEAN]
  /\ generation \in [Workers -> Nat]
  /\ started \in [Workers -> Nat]

Init ==
  /\ StoreInit
  /\ acked = [h \in Homes |-> 0]
  /\ lastSuccess = [h \in Homes |-> 0]
  /\ lastError = [h \in Homes |-> FALSE]
  /\ generation = [w \in Workers |-> 0]
  /\ started = [w \in Workers |-> 0]

\* Mutant of Pending: the comparison is off by one.
PendingMutant(h) == dirty[h] > acked[h] + 1

Pending(h) == dirty[h] > acked[h]
Due(h) == lastSuccess[h] = 0 \/ now - lastSuccess[h] >= Fallback

ReadRow(w) ==
  LET h == HomeOf[w] IN
  /\ pc[w] = "idle"
  /\ Pending(h) \/ Due(h)
  /\ generation' = [generation EXCEPT ![w] = dirty[h]]
  /\ started' = [started EXCEPT ![w] = now]
  /\ Go(w, "noting")
  /\ UNCHANGED <<database, store, staged, left, failures, row>>

\* validate_destination refuses: the mount is absent, or unsafe.
DestinationRefused(w) ==
  /\ failures < MaxFailures /\ failures' = failures + 1
  /\ pc[w] = "idle"
  /\ lastError' = [lastError EXCEPT ![HomeOf[w]] = TRUE]
  /\ UNCHANGED <<database, store, pc, staged, left, acked, lastSuccess, read>>

\* What a worker read is gone when it ends.
EndRun(w) ==
  /\ generation' = [generation EXCEPT ![w] = 0]
  /\ started' = [started EXCEPT ![w] = 0]

NoteAttempt(w) ==
  /\ pc[w] = "noting"
  /\ lastError' = [lastError EXCEPT ![HomeOf[w]] = FALSE]
  /\ Go(w, "waiting")
  /\ UNCHANGED <<database, store, staged, left, failures, acked, lastSuccess, read>>

NoteFailure(w) ==
  /\ pc[w] = "failed"
  /\ lastError' = [lastError EXCEPT ![HomeOf[w]] = TRUE]
  /\ Go(w, "idle") /\ EndRun(w)
  /\ UNCHANGED <<database, store, staged, left, failures, acked, lastSuccess>>

\* Mutants of Acknowledge: the row's generation now is acknowledged, not the one
\* read; the success is dated when the backup ended, not when it began; a slower
\* worker overwrites a later acknowledgement.
AcknowledgeMutant(w) ==
  LET h == HomeOf[w] IN
  /\ pc[w] = "ok"
  /\ acked' = [acked EXCEPT ![h] = dirty[h]]
  /\ lastSuccess' = [lastSuccess EXCEPT ![h] = started[w]]
  /\ lastError' = [lastError EXCEPT ![h] = FALSE]
  /\ Go(w, "idle") /\ EndRun(w)
  /\ UNCHANGED <<database, store, staged, left, failures>>
AcknowledgeMutant2(w) ==
  LET h == HomeOf[w] IN
  /\ pc[w] = "ok"
  /\ acked' = [acked EXCEPT ![h] = generation[w]]
  /\ lastSuccess' = [lastSuccess EXCEPT ![h] = now]
  /\ lastError' = [lastError EXCEPT ![h] = FALSE]
  /\ Go(w, "idle") /\ EndRun(w)
  /\ UNCHANGED <<database, store, staged, left, failures>>
AcknowledgeMutant3(w) ==
  LET h == HomeOf[w] IN
  /\ pc[w] = "ok"
  /\ acked' = [acked EXCEPT ![h] = generation[w]]
  /\ lastSuccess' = [lastSuccess EXCEPT ![h] = started[w]]
  /\ lastError' = [lastError EXCEPT ![h] = FALSE]
  /\ Go(w, "idle") /\ EndRun(w)
  /\ UNCHANGED <<database, store, staged, left, failures>>

\* One UPDATE, on condition that it moves the acknowledgement forward.
Acknowledge(w) ==
  LET h == HomeOf[w] IN
  /\ pc[w] = "ok"
  /\ IF acked[h] < generation[w]
     THEN /\ acked' = [acked EXCEPT ![h] = generation[w]]
          /\ lastSuccess' = [lastSuccess EXCEPT ![h] = started[w]]
          /\ lastError' = [lastError EXCEPT ![h] = FALSE]
     ELSE UNCHANGED row
  /\ Go(w, "idle") /\ EndRun(w)
  /\ UNCHANGED <<database, store, staged, left, failures>>

\* nc backup --incremental, by hand.
OwnerBackup(p) ==
  /\ p \notin Workers
  /\ \/ pc[p] = "idle" /\ Go(p, "waiting")
     \/ pc[p] \in {"ok", "failed"} /\ Go(p, "idle")
  /\ UNCHANGED <<database, store, staged, left, failures, row, read>>

WorkerStep(w) == ReadRow(w) \/ NoteAttempt(w) \/ NoteFailure(w) \/ Acknowledge(w)

Next ==
  \/ \E h \in Homes : Commit(h) /\ UNCHANGED <<row, read>>
  \/ Tick /\ UNCHANGED <<row, read>>
  \/ \E p \in Procs :
       \/ (EnterStore(p) \/ StoreStep(p) \/ StoreFailure(p)) /\ UNCHANGED <<row, read>>
       \/ Dies(p) /\ (IF p \in Workers THEN EndRun(p) ELSE UNCHANGED read) /\ UNCHANGED row
  \/ \E w \in Workers : WorkerStep(w) \/ DestinationRefused(w)
  \/ \E p \in Procs : OwnerBackup(p)

Spec == Init /\ [][Next]_vars

(* The timer starts a worker every minute (deploy/neocortex-backup.timer); *)
(* a process that was started goes on, and none waits for the store's lock *)
(* for ever.                                                               *)
Fairness ==
  /\ \A w \in Workers : WF_vars(WorkerStep(w))
  /\ \A p \in Procs : /\ WF_vars(StoreStep(p) /\ UNCHANGED <<row, read>>)
                      /\ SF_vars(EnterStore(p) /\ UNCHANGED <<row, read>>)

FairSpec == Spec /\ Fairness
----------------------------------------------------------------------------
\* A home's newest snapshot, and the generation it holds.
Newest(h) == IF snapshots[h] = <<>> THEN NoSnapshot ELSE Last(snapshots[h])
Covered(h) == Newest(h).gen

\* An acknowledged generation is covered by a snapshot that was not pruned:
\* events that arrive while a snapshot is taken stay pending, and neither a
\* slow worker nor the owner's own backups and retention undo the coverage
\* (run_once, README: "coalesces all committed ... events").
AckedIsCovered == \A h \in Homes : acked[h] <= Covered(h)

\* The backup implements the recovery point.
RP == INSTANCE RecoveryPoint WITH covered <- [h \in Homes |-> Covered(h)]
ImplementsRecoveryPoint == RP!Spec

\* backup-status: healthy.
Healthy(h) == lastSuccess[h] # 0 /\ now - lastSuccess[h] <= Stale /\ ~lastError[h]

\* A home reported healthy has a restorable snapshot no older than the limit
\* (README: backup-status is nonzero for "older-than-30-minute backups").
HealthyIsFresh ==
  \A h \in Homes : Healthy(h) =>
    \E i \in DOMAIN snapshots[h] : /\ now - snapshots[h][i].at <= Stale
                                   /\ snapshots[h][i].blocks \subseteq blocks \ damaged

\* Every event of a home that a worker backs up is covered and acknowledged in
\* the end, after any finite number of errors and deaths, unless a damaged block
\* lies in the way.
EventsGetCovered ==
  \A w \in Workers : \A n \in 1..MaxEvents[HomeOf[w]] :
    dirty[HomeOf[w]] >= n ~> acked[HomeOf[w]] >= n \/ damaged # {}
=============================================================================
