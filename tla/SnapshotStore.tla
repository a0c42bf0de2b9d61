--------------------------- MODULE SnapshotStore ---------------------------
(***************************************************************************)
(* The incremental snapshot store (nc/snapshot.py): content-addressed      *)
(* blocks shared by the snapshots of several homes, written and pruned by  *)
(* backup processes that take turns under the store's file lock, while the *)
(* owner and the agents keep committing to the homes' databases.           *)
(*                                                                         *)
(* A snapshot is visible from the moment its manifest is renamed into      *)
(* place; a home's snapshots are kept in the order of publication, which   *)
(* is the order of their names as long as the clock does not step back.    *)
(* Staged copies and the temporary files of a process that died are in     *)
(* nobody's way and are left out.                                          *)
(***************************************************************************)
EXTENDS Integers, Sequences, FiniteSets, SequencesExt

CONSTANTS
  Homes,        \* NC_HOMEs, each the source of its own snapshots
  Procs,        \* backup processes
  HomeOf,       \* the home a process backs up
  RetainOf,     \* the retention it was started with
  Blocks,       \* block contents, and so block digests
  MaxEvents,    \* bound: owner-visible events, per home
  MaxTime,      \* bound: the clock
  MaxFailures,  \* bound: errors and deaths of backup processes
  MayDamage     \* whether the destination may damage what is written to it

ASSUME StoreAssumption ==
  /\ HomeOf \in [Procs -> Homes]
  /\ RetainOf \in [Procs -> Nat \ {0}]
  /\ MaxEvents \in [Homes -> Nat] /\ MaxTime \in Nat /\ MaxFailures \in Nat
  /\ MayDamage \in BOOLEAN

VARIABLES
  content,    \* the blocks of a home's database as committed
  dirty,      \* backup_state.dirty_generation
  now,        \* the clock
  blocks,     \* the blocks in the store
  damaged,    \* those whose bytes do not match their digest
  snapshots,  \* per home, the published snapshots, oldest first
  pc,         \* how far a backup process is
  staged,     \* the copy of the database it made
  left,       \* the blocks it still has to store, or to unlink
  failures    \* errors and deaths so far

database == <<content, dirty, now>>
store == <<blocks, damaged, snapshots>>
storeVars == <<database, store, pc, staged, left, failures>>

\* A snapshot: its blocks, the generation its database holds, when it was taken.
Snapshot == [blocks : SUBSET Blocks, gen : Nat, at : Nat]
Locked == {"staging", "copying", "pruning", "sweeping"}
Places == Locked \cup {"idle", "noting", "waiting", "ok", "failed"}
NoSnapshot == [blocks |-> {}, gen |-> 0, at |-> 0]

StoreTypeOK ==
  /\ content \in [Homes -> SUBSET Blocks]
  /\ dirty \in [Homes -> Nat]
  /\ now \in Nat
  /\ blocks \subseteq Blocks /\ damaged \subseteq blocks
  /\ snapshots \in [Homes -> Seq(Snapshot)]
  /\ pc \in [Procs -> Places]
  /\ staged \in [Procs -> Snapshot]
  /\ left \in [Procs -> SUBSET Blocks]
  /\ failures \in Nat

StoreInit ==
  /\ content \in [Homes -> SUBSET Blocks \ {{}}]
  /\ dirty = [h \in Homes |-> 0]
  /\ now = 1
  /\ blocks = {} /\ damaged = {}
  /\ snapshots = [h \in Homes |-> <<>>]
  /\ pc = [p \in Procs |-> "idle"]
  /\ staged = [p \in Procs |-> NoSnapshot]
  /\ left = [p \in Procs |-> {}]
  /\ failures = 0

Go(p, place) == pc' = [pc EXCEPT ![p] = place]

\* A process forgets its copy, and what it had to do with it.
Forget(p) == staged' = [staged EXCEPT ![p] = NoSnapshot]
Drop(p) == Forget(p) /\ left' = [left EXCEPT ![p] = {}]

Referenced ==
  UNION {UNION {snapshots[h][i].blocks : i \in DOMAIN snapshots[h]} : h \in Homes}
----------------------------------------------------------------------------
(* The homes' databases.                                                   *)

\* A transaction of the owner or of the scheduler; an owner-visible event
\* marks the database dirty in the same transaction.
Commit(h) ==
  /\ dirty[h] < MaxEvents[h]
  /\ content' \in {[content EXCEPT ![h] = S] : S \in SUBSET Blocks \ {{}}}
  /\ dirty' = [dirty EXCEPT ![h] = @ + 1] \/ UNCHANGED dirty
  /\ UNCHANGED <<now, store, pc, staged, left, failures>>

Tick ==
  /\ now < MaxTime
  /\ now' = now + 1
  /\ UNCHANGED <<content, dirty, store, pc, staged, left, failures>>
----------------------------------------------------------------------------
(* A backup: _incremental_backup, one step per change of the store.        *)

EnterStore(p) ==
  /\ pc[p] = "waiting"
  /\ \A q \in Procs : pc[q] \notin Locked
  /\ Go(p, "staging")
  /\ UNCHANGED <<database, store, staged, left, failures>>

\* SQLite's online backup copies one committed state of the database.
StageDatabase(p) ==
  LET h == HomeOf[p] IN
  /\ pc[p] = "staging"
  /\ staged' = [staged EXCEPT ![p] = [blocks |-> content[h], gen |-> dirty[h], at |-> now]]
  /\ left' = [left EXCEPT ![p] = content[h]]
  /\ Go(p, "copying")
  /\ UNCHANGED <<database, store, failures>>

ReuseBlock(p, b) ==
  /\ pc[p] = "copying" /\ b \in left[p] \cap (blocks \ damaged)
  /\ left' = [left EXCEPT ![p] = @ \ {b}]
  /\ UNCHANGED <<database, store, pc, staged, failures>>

WriteBlock(p, b) ==
  /\ pc[p] = "copying" /\ b \in left[p] \ blocks
  /\ blocks' = blocks \cup {b}
  /\ left' = [left EXCEPT ![p] = @ \ {b}]
  /\ UNCHANGED <<database, damaged, snapshots, pc, staged, failures>>

\* The block is in place before it is verified, and stays there.
WriteDamagedBlock(p, b) ==
  /\ MayDamage /\ failures < MaxFailures /\ failures' = failures + 1
  /\ pc[p] = "copying" /\ b \in left[p] \ blocks
  /\ blocks' = blocks \cup {b}
  /\ damaged' = damaged \cup {b}
  /\ Go(p, "failed") /\ Drop(p)
  /\ UNCHANGED <<database, snapshots>>

\* "corrupt shared block": a damaged block is neither reused nor replaced.
CorruptBlock(p) ==
  /\ pc[p] = "copying" /\ left[p] \cap damaged # {}
  /\ Go(p, "failed") /\ Drop(p)
  /\ UNCHANGED <<database, store, failures>>

PublishManifest(p) ==
  /\ pc[p] = "copying" /\ left[p] = {}
  /\ snapshots' = [snapshots EXCEPT ![HomeOf[p]] = Append(@, staged[p])]
  /\ Go(p, "pruning") /\ Forget(p)
  /\ UNCHANGED <<database, blocks, damaged, left, failures>>

\* _prune_store removes the newest of the superfluous snapshots first.
PruneSnapshot(p) ==
  LET s == snapshots[HomeOf[p]] IN
  /\ pc[p] = "pruning" /\ Len(s) > RetainOf[p]
  /\ snapshots' = [snapshots EXCEPT ![HomeOf[p]] = RemoveAt(s, Len(s) - RetainOf[p])]
  /\ UNCHANGED <<database, blocks, damaged, pc, staged, left, failures>>

\* Mutant of CollectBlocks: only the own home's snapshots keep their blocks.
CollectBlocksMutant(p) ==
  LET s == snapshots[HomeOf[p]] IN
  /\ pc[p] = "pruning" /\ Len(s) <= RetainOf[p]
  /\ left' = [left EXCEPT ![p] = blocks \ UNION {s[i].blocks : i \in DOMAIN s}]
  /\ Go(p, "sweeping")
  /\ UNCHANGED <<database, store, staged, failures>>

CollectBlocks(p) ==
  /\ pc[p] = "pruning" /\ Len(snapshots[HomeOf[p]]) <= RetainOf[p]
  /\ left' = [left EXCEPT ![p] = blocks \ Referenced]
  /\ Go(p, "sweeping")
  /\ UNCHANGED <<database, store, staged, failures>>

UnlinkBlock(p, b) ==
  /\ pc[p] = "sweeping" /\ b \in left[p]
  /\ blocks' = blocks \ {b}
  /\ damaged' = damaged \ {b}
  /\ left' = [left EXCEPT ![p] = @ \ {b}]
  /\ UNCHANGED <<database, snapshots, pc, staged, failures>>

LeaveStore(p) ==
  /\ pc[p] = "sweeping" /\ left[p] = {}
  /\ Go(p, "ok") /\ Drop(p)
  /\ UNCHANGED <<database, store, failures>>

\* An error at any point, also after the manifest was published.
StoreError(p) ==
  /\ failures < MaxFailures /\ failures' = failures + 1
  /\ pc[p] \in Locked
  /\ Go(p, "failed") /\ Drop(p)
  /\ UNCHANGED <<database, store>>

\* The process dies; the file lock goes with it.
Dies(p) ==
  /\ failures < MaxFailures /\ failures' = failures + 1
  /\ pc[p] # "idle"
  /\ Go(p, "idle") /\ Drop(p)
  /\ UNCHANGED <<database, store>>

StoreStep(p) ==
  \/ StageDatabase(p) \/ PublishManifest(p) \/ CorruptBlock(p)
  \/ PruneSnapshot(p) \/ CollectBlocks(p) \/ LeaveStore(p)
  \/ \E b \in Blocks : ReuseBlock(p, b) \/ WriteBlock(p, b) \/ UnlinkBlock(p, b)

StoreFailure(p) ==
  StoreError(p) \/ \E b \in Blocks : WriteDamagedBlock(p, b)
----------------------------------------------------------------------------
\* Every published snapshot can be restored, whoever backed up, pruned, failed
\* or died meanwhile: its blocks are in the store with the right bytes
\* (README: each manifest "is independently restorable").
SnapshotsRestorable == Referenced \subseteq blocks \ damaged
=============================================================================
