---------------------------- MODULE BackupProofs ----------------------------
(***************************************************************************)
(* Proofs that Inv is an invariant of the backup, for any homes, backup    *)
(* processes, retentions and blocks, and what follows from it.             *)
(***************************************************************************)
EXTENDS BackupInv, SequenceTheorems, TLAPS

(***************************************************************************)
(* Sequences and snapshots.                                                *)
(***************************************************************************)

\* Pruning keeps the newest snapshot, and invents none.
LEMMA PruneFacts ==
  ASSUME NEW S, NEW s \in Seq(S), NEW r \in Nat \ {0}, Len(s) > r,
         NEW t, t = RemoveAt(s, Len(s) - r)
  PROVE  /\ t \in Seq(S) /\ t # <<>> /\ Last(t) = Last(s)
         /\ \A i \in DOMAIN t : \E j \in DOMAIN s : t[i] = s[j]
<1> DEFINE k == Len(s) - r
           a == SubSeq(s, 1, k - 1)
           b == SubSeq(s, k + 1, Len(s))
<1>1. k \in 1..(Len(s) - 1)
  OBVIOUS
<1>2. /\ a \in Seq(S) /\ Len(a) = k - 1 /\ \A i \in 1..(k - 1) : a[i] = s[i]
  BY <1>1
<1>3. /\ b \in Seq(S) /\ Len(b) = r /\ \A i \in 1..r : b[i] = s[k + i]
  BY <1>1
<1>4. t = a \o b
  BY DEF RemoveAt
<1>5. /\ t \in Seq(S) /\ Len(t) = k - 1 + r
      /\ \A i \in 1..(k - 1) : t[i] = s[i]
      /\ \A i \in k..(k - 1 + r) : t[i] = s[i + 1]
  <2> HIDE DEF a, b
  <2>1. /\ t \in Seq(S) /\ Len(t) = k - 1 + r
        /\ \A i \in 1..(k - 1) : t[i] = a[i]
        /\ \A i \in k..(k - 1 + r) : t[i] = b[i - (k - 1)]
    <3>1. t \in Seq(S) /\ Len(t) = Len(a) + Len(b)
      BY <1>2, <1>3, <1>4, ConcatProperties
    <3>2. \A i \in 1..(Len(a) + Len(b)) :
             (a \o b)[i] = IF i <= Len(a) THEN a[i] ELSE b[i - Len(a)]
      BY <1>2, <1>3, ConcatProperties
    <3>3. Len(a) = k - 1 /\ Len(b) = r /\ k \in Nat /\ r \in Nat
      BY <1>1, <1>2, <1>3
    <3>4. \A i \in 1..(k - 1 + r) : t[i] = IF i <= k - 1 THEN a[i] ELSE b[i - (k - 1)]
      BY <1>4, <3>2, <3>3
    <3>5. ASSUME NEW i \in 1..(k - 1) PROVE t[i] = a[i]
      BY <1>1, <3>3, <3>4
    <3>6. ASSUME NEW i \in k..(k - 1 + r) PROVE t[i] = b[i - (k - 1)]
      BY <1>1, <3>3, <3>4
    <3> QED
      BY <3>1, <3>3, <3>5, <3>6
  <2>2. ASSUME NEW i \in k..(k - 1 + r) PROVE t[i] = s[i + 1]
    <3>1. i - (k - 1) \in 1..r /\ k + (i - (k - 1)) = i + 1
      BY <1>1
    <3> QED
      BY <1>3, <2>1, <3>1
  <2> QED
    BY <1>2, <2>1, <2>2
<1>6. t # <<>> /\ Len(t) = Len(s) - 1
  BY <1>5
<1>7. t[Len(t)] = s[Len(s)]
  <2> HIDE DEF a, b
  <2> QED BY <1>1, <1>5, <1>6, SMTT(30)
<1>8. ASSUME NEW i \in DOMAIN t PROVE \E j \in DOMAIN s : t[i] = s[j]
  <2>1. i \in 1..(Len(s) - 1) /\ DOMAIN s = 1..Len(s)
    BY <1>5, <1>6
  <2>2. CASE i < k
    BY <1>1, <1>5, <2>1, <2>2
  <2>3. CASE i >= k
    <3>1. i \in k..(k - 1 + r) /\ i + 1 \in DOMAIN s
      BY <1>1, <1>5, <2>1, <2>3
    <3> QED
      BY <1>5, <3>1
  <2> QED
    BY <1>1, <2>1, <2>2, <2>3
<1> QED
  BY <1>5, <1>6, <1>7, <1>8 DEF Last

\* A published snapshot is the newest.
LEMMA AppendFacts ==
  ASSUME NEW S, NEW s \in Seq(S), NEW t \in Seq(S),
         Len(t) = Len(s) + 1, \A i \in 1..Len(s) : t[i] = s[i]
  PROVE  /\ t # <<>> /\ Last(t) = t[Len(t)]
         /\ \A i \in DOMAIN t : t[i] = t[Len(t)] \/ \E j \in DOMAIN s : t[i] = s[j]
<1>1. ASSUME NEW i \in DOMAIN t PROVE t[i] = t[Len(t)] \/ \E j \in DOMAIN s : t[i] = s[j]
  <2>1. i \in 1..(Len(s) + 1) /\ DOMAIN s = 1..Len(s)
    OBVIOUS
  <2>2. CASE i = Len(s) + 1
    BY <2>2
  <2>3. CASE i \in 1..Len(s)
    BY <2>1, <2>3
  <2> QED
    BY <2>1, <2>2, <2>3
<1> QED
  BY <1>1 DEF Last

USE StoreAssumption, WorkerAssumption

\* A home's newest snapshot is a snapshot.
LEMMA NewestTyped ==
  ASSUME TypeOK, NEW h \in Homes
  PROVE  Newest(h) \in Snapshot /\ Covered(h) \in Nat /\ Newest(h).at \in Nat
<1>1. NoSnapshot \in Snapshot
  BY DEF NoSnapshot, Snapshot
<1>2. snapshots[h] \in Seq(Snapshot)
  BY DEF TypeOK, StoreTypeOK
<1>3. Newest(h) \in Snapshot
  <2>1. CASE snapshots[h] = <<>>
    BY <1>1, <2>1 DEF Newest
  <2>2. CASE snapshots[h] # <<>>
    BY <1>2, <2>2, LenProperties, EmptySeq DEF Newest, Last
  <2> QED
    BY <2>1, <2>2
<1> QED
  BY <1>3 DEF Snapshot, Covered

\* The home of a process, and what the process holds.
LEMMA ProcFacts ==
  ASSUME TypeOK, NEW p \in Procs
  PROVE  /\ HomeOf[p] \in Homes /\ RetainOf[p] \in Nat \ {0}
         /\ snapshots[HomeOf[p]] \in Seq(Snapshot)
         /\ staged[p] \in Snapshot /\ left[p] \subseteq Blocks
BY DEF TypeOK, StoreTypeOK

\* What a snapshot references.
LEMMA ReferencedBy ==
  \A b : b \in Referenced <=> \E h \in Homes : \E i \in DOMAIN snapshots[h] :
                                 b \in snapshots[h][i].blocks
BY DEF Referenced

\* As long as no snapshot is published or pruned, the newest ones stay and the
\* same blocks are referenced.
LEMMA SameSnapshots ==
  ASSUME UNCHANGED snapshots
  PROVE  /\ Referenced' = Referenced
         /\ \A h \in Homes : Newest(h)' = Newest(h) /\ Covered(h)' = Covered(h)
BY DEF Referenced, Newest, Covered, Last

\* The types that the arithmetic below needs.
TypeFacts ==
  /\ \A h \in Homes : Covered(h) \in Nat /\ Newest(h).at \in Nat
  /\ \A p \in Procs : HomeOf[p] \in Homes /\ staged[p].gen \in Nat /\ staged[p].at \in Nat
  /\ dirty \in [Homes -> Nat] /\ now \in Nat
  /\ acked \in [Homes -> Nat] /\ lastSuccess \in [Homes -> Nat]
  /\ generation \in [Workers -> Nat] /\ started \in [Workers -> Nat]
  /\ damaged \subseteq blocks /\ NoSnapshot \in Snapshot
  /\ pc \in [Procs -> Places] /\ staged \in [Procs -> Snapshot] /\ left \in [Procs -> SUBSET Blocks]

\* They follow from the type invariant.
LEMMA TypedFacts == TypeOK => TypeFacts
<1> SUFFICES ASSUME TypeOK PROVE TypeFacts
  OBVIOUS
<1>1. \A p \in Procs : staged[p].gen \in Nat /\ staged[p].at \in Nat
  BY ProcFacts DEF Snapshot
<1>2. NoSnapshot \in Snapshot
  BY DEF NoSnapshot, Snapshot
<1> QED
  BY <1>1, <1>2, NewestTyped, ProcFacts DEF TypeFacts, TypeOK, StoreTypeOK

\* Inv holds initially.
LEMMA InitInv == Init => Inv
<1> SUFFICES ASSUME Init PROVE Inv
  OBVIOUS
<1>1. NoSnapshot \in Snapshot /\ NoSnapshot.gen = 0 /\ NoSnapshot.at = 0
  BY DEF NoSnapshot, Snapshot
<1>2. TypeOK
  BY <1>1 DEF Init, StoreInit, TypeOK, StoreTypeOK, Places
<1>3. Referenced = {}
  BY DEF Referenced, Init, StoreInit
<1>4. StoreInv
  BY <1>3 DEF StoreInv, SnapshotsRestorable, Init, StoreInit, Locked
<1>5. \A h \in Homes : Covered(h) = 0 /\ Newest(h).at = 0
  BY <1>1 DEF Covered, Newest, Init, StoreInit
<1>6. OrderInv
  BY <1>5 DEF OrderInv, Init, StoreInit
<1>7. WorkerInv
  BY <1>5 DEF WorkerInv, UpTo, Init, StoreInit, Covered
<1> QED
  BY <1>2, <1>4, <1>6, <1>7 DEF Inv

(***************************************************************************)
(* The steps that publish and prune no snapshot.                           *)
(***************************************************************************)

\* A commit may only raise the generation.
LEMMA CommitInv ==
  ASSUME Inv, NEW home \in Homes, Commit(home), UNCHANGED <<row, read>>
  PROVE  Inv'
<1>1. /\ Referenced' = Referenced
      /\ \A h \in Homes : Newest(h)' = Newest(h) /\ Covered(h)' = Covered(h)
  BY SameSnapshots DEF Commit, database, store, row, read
<1>2. TypeFacts
  BY TypedFacts DEF Inv
<1>3. TypeOK'
  <2>1. content' \in [Homes -> SUBSET Blocks] /\ dirty' \in [Homes -> Nat]
    <3>1. PICK S \in SUBSET Blocks : content' = [content EXCEPT ![home] = S]
      BY DEF Commit
    <3>2. dirty' = dirty \/ dirty' = [dirty EXCEPT ![home] = @ + 1]
      BY DEF Commit
    <3> QED
      BY <3>1, <3>2 DEF Inv, TypeOK, StoreTypeOK
  <2> QED
    BY <2>1 DEF Inv, TypeOK, StoreTypeOK, Commit, store, row, read
<1>4. StoreInv'
  BY <1>1, <1>2 DEF Inv, TypeFacts, StoreInv, SnapshotsRestorable, Locked, Commit, database, store, row, read
<1>5. OrderInv'
  <2>1. \A h \in Homes : dirty'[h] \in Nat /\ dirty[h] <= dirty'[h]
    BY <1>2 DEF TypeFacts, Commit
  <2> QED
    BY <1>1, <1>2, <2>1 DEF Inv, TypeFacts, OrderInv, UpTo, Commit
<1>6. WorkerInv'
  BY <1>1, <1>2, SMTT(30) DEF Inv, TypeFacts, OrderInv, WorkerInv, UpTo, Commit, database, store, row, read
<1> QED
  BY <1>3, <1>4, <1>5, <1>6 DEF Inv

\* Time only passes.
LEMMA TickInv ==
  ASSUME Inv, Tick, UNCHANGED <<row, read>>
  PROVE  Inv'
<1>1. /\ Referenced' = Referenced
      /\ \A h \in Homes : Newest(h)' = Newest(h) /\ Covered(h)' = Covered(h)
  BY SameSnapshots DEF Tick, database, store, row, read
<1>2. TypeFacts
  BY TypedFacts DEF Inv
<1>3. TypeOK'
  BY <1>2 DEF Inv, TypeFacts, TypeOK, StoreTypeOK, Places, Locked, Tick, database, store, row, read
<1>4. StoreInv'
  BY <1>1, <1>2 DEF Inv, TypeFacts, StoreInv, SnapshotsRestorable, Locked, Tick, database, store, row, read
<1>5. OrderInv'
  BY <1>1, <1>2 DEF Inv, TypeFacts, OrderInv, UpTo, Tick, database, store, row, read
<1>6. WorkerInv'
  BY <1>1, <1>2 DEF Inv, TypeFacts, OrderInv, WorkerInv, UpTo, Tick, database, store, row, read
<1> QED
  BY <1>3, <1>4, <1>5, <1>6 DEF Inv

\* Whoever enters finds the store empty of processes.
LEMMA EnterStoreInv ==
  ASSUME Inv, NEW p \in Procs, EnterStore(p), UNCHANGED <<row, read>>
  PROVE  Inv'
<1>1. /\ Referenced' = Referenced
      /\ \A h \in Homes : Newest(h)' = Newest(h) /\ Covered(h)' = Covered(h)
  BY SameSnapshots DEF EnterStore, database, store, row, read, Go
<1>2. TypeFacts
  BY TypedFacts DEF Inv
<1>3. TypeOK'
  BY <1>2 DEF Inv, TypeFacts, TypeOK, StoreTypeOK, Places, Locked, EnterStore, database, store, row, read, Go
<1>4. StoreInv'
  BY <1>1, <1>2 DEF Inv, TypeFacts, StoreInv, SnapshotsRestorable, Locked, EnterStore, database, store, row, read, Go
<1>5. OrderInv'
  BY <1>1, <1>2 DEF Inv, TypeFacts, OrderInv, UpTo, EnterStore, database, store, row, read, Go
<1>6. WorkerInv'
  BY <1>1, <1>2 DEF Inv, TypeFacts, OrderInv, WorkerInv, UpTo, EnterStore, database, store, row, read, Go
<1> QED
  BY <1>3, <1>4, <1>5, <1>6 DEF Inv

\* A copy is not behind any earlier snapshot, nor what the worker read.
LEMMA StageDatabaseInv ==
  ASSUME Inv, NEW p \in Procs, StageDatabase(p), UNCHANGED <<row, read>>
  PROVE  Inv'
<1>1. /\ Referenced' = Referenced
      /\ \A h \in Homes : Newest(h)' = Newest(h) /\ Covered(h)' = Covered(h)
  BY SameSnapshots DEF StageDatabase, database, store, row, read, Go
<1>2. TypeFacts
  BY TypedFacts DEF Inv
<1>3. TypeOK'
  BY <1>2 DEF Inv, TypeFacts, TypeOK, StoreTypeOK, Places, Locked, Snapshot, StageDatabase, database, store, row, read, Go
<1>4. StoreInv'
  BY <1>1, <1>2 DEF Inv, TypeFacts, StoreInv, SnapshotsRestorable, Locked, StageDatabase, database, store, row, read, Go
<1>5. OrderInv'
  BY <1>1, <1>2 DEF Inv, TypeFacts, OrderInv, UpTo, StageDatabase, database, store, row, read, Go
<1>6. WorkerInv'
  BY <1>1, <1>2 DEF Inv, TypeFacts, OrderInv, WorkerInv, UpTo, StageDatabase, database, store, row, read, Go
<1> QED
  BY <1>3, <1>4, <1>5, <1>6 DEF Inv

\* A reused block was verified.
LEMMA ReuseBlockInv ==
  ASSUME Inv, NEW p \in Procs, NEW b \in Blocks, ReuseBlock(p, b), UNCHANGED <<row, read>>
  PROVE  Inv'
<1>1. /\ Referenced' = Referenced
      /\ \A h \in Homes : Newest(h)' = Newest(h) /\ Covered(h)' = Covered(h)
  BY SameSnapshots DEF ReuseBlock, database, store, row, read
<1>2. TypeFacts
  BY TypedFacts DEF Inv
<1>3. TypeOK'
  BY <1>2 DEF Inv, TypeFacts, TypeOK, StoreTypeOK, Places, Locked, ReuseBlock, database, store, row, read
<1>4. StoreInv'
  BY <1>1, <1>2 DEF Inv, TypeFacts, StoreInv, SnapshotsRestorable, Locked, ReuseBlock, database, store, row, read
<1>5. OrderInv'
  BY <1>1, <1>2 DEF Inv, TypeFacts, OrderInv, UpTo, ReuseBlock, database, store, row, read
<1>6. WorkerInv'
  BY <1>1, <1>2 DEF Inv, TypeFacts, OrderInv, WorkerInv, UpTo, ReuseBlock, database, store, row, read
<1> QED
  BY <1>3, <1>4, <1>5, <1>6 DEF Inv

\* A written block is there.
LEMMA WriteBlockInv ==
  ASSUME Inv, NEW p \in Procs, NEW b \in Blocks, WriteBlock(p, b), UNCHANGED <<row, read>>
  PROVE  Inv'
<1>1. /\ Referenced' = Referenced
      /\ \A h \in Homes : Newest(h)' = Newest(h) /\ Covered(h)' = Covered(h)
  BY SameSnapshots DEF WriteBlock, database, store, row, read
<1>2. TypeFacts
  BY TypedFacts DEF Inv
<1>3. TypeOK'
  BY <1>2 DEF Inv, TypeFacts, TypeOK, StoreTypeOK, Places, Locked, WriteBlock, database, store, row, read
<1>4. StoreInv'
  BY <1>1, <1>2 DEF Inv, TypeFacts, StoreInv, SnapshotsRestorable, Locked, WriteBlock, database, store, row, read
<1>5. OrderInv'
  BY <1>1, <1>2 DEF Inv, TypeFacts, OrderInv, UpTo, WriteBlock, database, store, row, read
<1>6. WorkerInv'
  BY <1>1, <1>2 DEF Inv, TypeFacts, OrderInv, WorkerInv, UpTo, WriteBlock, database, store, row, read
<1> QED
  BY <1>3, <1>4, <1>5, <1>6 DEF Inv

\* A block that is damaged on writing was in no snapshot.
LEMMA WriteDamagedBlockInv ==
  ASSUME Inv, NEW p \in Procs, NEW b \in Blocks, WriteDamagedBlock(p, b), UNCHANGED <<row, read>>
  PROVE  Inv'
<1>1. /\ Referenced' = Referenced
      /\ \A h \in Homes : Newest(h)' = Newest(h) /\ Covered(h)' = Covered(h)
  BY SameSnapshots DEF WriteDamagedBlock, database, store, row, read, Go, Drop, Forget
<1>2. TypeFacts
  BY TypedFacts DEF Inv
<1>3. TypeOK'
  BY <1>2 DEF Inv, TypeFacts, TypeOK, StoreTypeOK, Places, Locked, WriteDamagedBlock, database, store, row, read, Go, Drop, Forget
<1>4. StoreInv'
  BY <1>1, <1>2 DEF Inv, TypeFacts, StoreInv, SnapshotsRestorable, Locked, WriteDamagedBlock, database, store, row, read, Go, Drop, Forget
<1>5. OrderInv'
  BY <1>1, <1>2 DEF Inv, TypeFacts, OrderInv, UpTo, WriteDamagedBlock, database, store, row, read, Go, Drop, Forget
<1>6. WorkerInv'
  BY <1>1, <1>2 DEF Inv, TypeFacts, OrderInv, WorkerInv, UpTo, WriteDamagedBlock, database, store, row, read, Go, Drop, Forget
<1> QED
  BY <1>3, <1>4, <1>5, <1>6 DEF Inv

\* A backup that meets a damaged block changes nothing.
LEMMA CorruptBlockInv ==
  ASSUME Inv, NEW p \in Procs, CorruptBlock(p), UNCHANGED <<row, read>>
  PROVE  Inv'
<1>1. /\ Referenced' = Referenced
      /\ \A h \in Homes : Newest(h)' = Newest(h) /\ Covered(h)' = Covered(h)
  BY SameSnapshots DEF CorruptBlock, database, store, row, read, Go, Drop, Forget
<1>2. TypeFacts
  BY TypedFacts DEF Inv
<1>3. TypeOK'
  BY <1>2 DEF Inv, TypeFacts, TypeOK, StoreTypeOK, Places, Locked, CorruptBlock, database, store, row, read, Go, Drop, Forget
<1>4. StoreInv'
  BY <1>1, <1>2 DEF Inv, TypeFacts, StoreInv, SnapshotsRestorable, Locked, CorruptBlock, database, store, row, read, Go, Drop, Forget
<1>5. OrderInv'
  BY <1>1, <1>2 DEF Inv, TypeFacts, OrderInv, UpTo, CorruptBlock, database, store, row, read, Go, Drop, Forget
<1>6. WorkerInv'
  BY <1>1, <1>2 DEF Inv, TypeFacts, OrderInv, WorkerInv, UpTo, CorruptBlock, database, store, row, read, Go, Drop, Forget
<1> QED
  BY <1>3, <1>4, <1>5, <1>6 DEF Inv

\* Only unreferenced blocks are collected.
LEMMA CollectBlocksInv ==
  ASSUME Inv, NEW p \in Procs, CollectBlocks(p), UNCHANGED <<row, read>>
  PROVE  Inv'
<1>1. /\ Referenced' = Referenced
      /\ \A h \in Homes : Newest(h)' = Newest(h) /\ Covered(h)' = Covered(h)
  BY SameSnapshots DEF CollectBlocks, database, store, row, read, Go
<1>2. TypeFacts
  BY TypedFacts DEF Inv
<1>3. TypeOK'
  BY <1>2 DEF Inv, TypeFacts, TypeOK, StoreTypeOK, Places, Locked, CollectBlocks, database, store, row, read, Go
<1>4. StoreInv'
  BY <1>1, <1>2 DEF Inv, TypeFacts, StoreInv, SnapshotsRestorable, Locked, CollectBlocks, database, store, row, read, Go
<1>5. OrderInv'
  BY <1>1, <1>2 DEF Inv, TypeFacts, OrderInv, UpTo, CollectBlocks, database, store, row, read, Go
<1>6. WorkerInv'
  BY <1>1, <1>2 DEF Inv, TypeFacts, OrderInv, WorkerInv, UpTo, CollectBlocks, database, store, row, read, Go
<1> QED
  BY <1>3, <1>4, <1>5, <1>6 DEF Inv

\* Only collected blocks are unlinked.
LEMMA UnlinkBlockInv ==
  ASSUME Inv, NEW p \in Procs, NEW b \in Blocks, UnlinkBlock(p, b), UNCHANGED <<row, read>>
  PROVE  Inv'
<1>1. /\ Referenced' = Referenced
      /\ \A h \in Homes : Newest(h)' = Newest(h) /\ Covered(h)' = Covered(h)
  BY SameSnapshots DEF UnlinkBlock, database, store, row, read
<1>2. TypeFacts
  BY TypedFacts DEF Inv
<1>3. TypeOK'
  BY <1>2 DEF Inv, TypeFacts, TypeOK, StoreTypeOK, Places, Locked, UnlinkBlock, database, store, row, read
<1>4. StoreInv'
  BY <1>1, <1>2 DEF Inv, TypeFacts, StoreInv, SnapshotsRestorable, Locked, UnlinkBlock, database, store, row, read
<1>5. OrderInv'
  BY <1>1, <1>2 DEF Inv, TypeFacts, OrderInv, UpTo, UnlinkBlock, database, store, row, read
<1>6. WorkerInv'
  BY <1>1, <1>2 DEF Inv, TypeFacts, OrderInv, WorkerInv, UpTo, UnlinkBlock, database, store, row, read
<1> QED
  BY <1>3, <1>4, <1>5, <1>6 DEF Inv

\* A backup that ended well leaves the store.
LEMMA LeaveStoreInv ==
  ASSUME Inv, NEW p \in Procs, LeaveStore(p), UNCHANGED <<row, read>>
  PROVE  Inv'
<1>1. /\ Referenced' = Referenced
      /\ \A h \in Homes : Newest(h)' = Newest(h) /\ Covered(h)' = Covered(h)
  BY SameSnapshots DEF LeaveStore, database, store, row, read, Go, Drop, Forget
<1>2. TypeFacts
  BY TypedFacts DEF Inv
<1>3. TypeOK'
  BY <1>2 DEF Inv, TypeFacts, TypeOK, StoreTypeOK, Places, Locked, LeaveStore, database, store, row, read, Go, Drop, Forget
<1>4. StoreInv'
  BY <1>1, <1>2 DEF Inv, TypeFacts, StoreInv, SnapshotsRestorable, Locked, LeaveStore, database, store, row, read, Go, Drop, Forget
<1>5. OrderInv'
  BY <1>1, <1>2 DEF Inv, TypeFacts, OrderInv, UpTo, LeaveStore, database, store, row, read, Go, Drop, Forget
<1>6. WorkerInv'
  BY <1>1, <1>2 DEF Inv, TypeFacts, OrderInv, WorkerInv, UpTo, LeaveStore, database, store, row, read, Go, Drop, Forget
<1> QED
  BY <1>3, <1>4, <1>5, <1>6 DEF Inv

\* An error leaves the store as it is.
LEMMA StoreErrorInv ==
  ASSUME Inv, NEW p \in Procs, StoreError(p), UNCHANGED <<row, read>>
  PROVE  Inv'
<1>1. /\ Referenced' = Referenced
      /\ \A h \in Homes : Newest(h)' = Newest(h) /\ Covered(h)' = Covered(h)
  BY SameSnapshots DEF StoreError, database, store, row, read, Go, Drop, Forget
<1>2. TypeFacts
  BY TypedFacts DEF Inv
<1>3. TypeOK'
  BY <1>2 DEF Inv, TypeFacts, TypeOK, StoreTypeOK, Places, Locked, StoreError, database, store, row, read, Go, Drop, Forget
<1>4. StoreInv'
  BY <1>1, <1>2 DEF Inv, TypeFacts, StoreInv, SnapshotsRestorable, Locked, StoreError, database, store, row, read, Go, Drop, Forget
<1>5. OrderInv'
  BY <1>1, <1>2 DEF Inv, TypeFacts, OrderInv, UpTo, StoreError, database, store, row, read, Go, Drop, Forget
<1>6. WorkerInv'
  BY <1>1, <1>2 DEF Inv, TypeFacts, OrderInv, WorkerInv, UpTo, StoreError, database, store, row, read, Go, Drop, Forget
<1> QED
  BY <1>3, <1>4, <1>5, <1>6 DEF Inv

\* A death leaves the store as it is.
LEMMA DiesInv ==
  ASSUME Inv, NEW p \in Procs, Dies(p), IF p \in Workers THEN EndRun(p) ELSE UNCHANGED read, UNCHANGED row
  PROVE  Inv'
<1>1. /\ Referenced' = Referenced
      /\ \A h \in Homes : Newest(h)' = Newest(h) /\ Covered(h)' = Covered(h)
  BY SameSnapshots DEF Dies, database, store, row, read, Go, Drop, Forget, EndRun
<1>2. TypeFacts
  BY TypedFacts DEF Inv
<1>3. TypeOK'
  <2>1. generation' \in [Workers -> Nat] /\ started' \in [Workers -> Nat]
    <3>1. CASE p \in Workers
      BY <1>2, <3>1 DEF TypeFacts, EndRun
    <3>2. CASE p \notin Workers
      BY <1>2, <3>2 DEF TypeFacts, read
    <3> QED
      BY <3>1, <3>2
  <2> QED
    BY <1>2, <2>1 DEF Inv, TypeFacts, TypeOK, StoreTypeOK, Places, Locked, Dies, database, store, row, read, Go, Drop, Forget, EndRun
<1>4. StoreInv'
  BY <1>1, <1>2 DEF Inv, TypeFacts, StoreInv, SnapshotsRestorable, Locked, Dies, database, store, row, read, Go, Drop, Forget, EndRun
<1>5. OrderInv'
  BY <1>1, <1>2 DEF Inv, TypeFacts, OrderInv, UpTo, Dies, database, store, row, read, Go, Drop, Forget, EndRun
<1>6. WorkerInv'
  BY <1>1, <1>2 DEF Inv, TypeFacts, OrderInv, WorkerInv, UpTo, Dies, database, store, row, read, Go, Drop, Forget, EndRun
<1> QED
  BY <1>3, <1>4, <1>5, <1>6 DEF Inv

\* A worker reads the generation of now.
LEMMA ReadRowInv ==
  ASSUME Inv, NEW w \in Workers, ReadRow(w)
  PROVE  Inv'
<1>1. /\ Referenced' = Referenced
      /\ \A h \in Homes : Newest(h)' = Newest(h) /\ Covered(h)' = Covered(h)
  BY SameSnapshots DEF ReadRow, database, store, row, read, Go
<1>2. TypeFacts
  BY TypedFacts DEF Inv
<1>3. TypeOK'
  BY <1>2 DEF Inv, TypeFacts, TypeOK, StoreTypeOK, Places, Locked, ReadRow, database, store, row, read, Go
<1>4. StoreInv'
  BY <1>1, <1>2 DEF Inv, TypeFacts, StoreInv, SnapshotsRestorable, Locked, ReadRow, database, store, row, read, Go
<1>5. OrderInv'
  BY <1>1, <1>2 DEF Inv, TypeFacts, OrderInv, UpTo, ReadRow, database, store, row, read, Go
<1>6. WorkerInv'
  BY <1>1, <1>2 DEF Inv, TypeFacts, OrderInv, WorkerInv, UpTo, ReadRow, database, store, row, read, Go
<1> QED
  BY <1>3, <1>4, <1>5, <1>6 DEF Inv

\* A refused destination is noted.
LEMMA DestinationRefusedInv ==
  ASSUME Inv, NEW w \in Workers, DestinationRefused(w)
  PROVE  Inv'
<1>1. /\ Referenced' = Referenced
      /\ \A h \in Homes : Newest(h)' = Newest(h) /\ Covered(h)' = Covered(h)
  BY SameSnapshots DEF DestinationRefused, database, store, row, read
<1>2. TypeFacts
  BY TypedFacts DEF Inv
<1>3. TypeOK'
  BY <1>2 DEF Inv, TypeFacts, TypeOK, StoreTypeOK, Places, Locked, DestinationRefused, database, store, row, read
<1>4. StoreInv'
  BY <1>1, <1>2 DEF Inv, TypeFacts, StoreInv, SnapshotsRestorable, Locked, DestinationRefused, database, store, row, read
<1>5. OrderInv'
  BY <1>1, <1>2 DEF Inv, TypeFacts, OrderInv, UpTo, DestinationRefused, database, store, row, read
<1>6. WorkerInv'
  BY <1>1, <1>2 DEF Inv, TypeFacts, OrderInv, WorkerInv, UpTo, DestinationRefused, database, store, row, read
<1> QED
  BY <1>3, <1>4, <1>5, <1>6 DEF Inv

\* An attempt is noted.
LEMMA NoteAttemptInv ==
  ASSUME Inv, NEW w \in Workers, NoteAttempt(w)
  PROVE  Inv'
<1>1. /\ Referenced' = Referenced
      /\ \A h \in Homes : Newest(h)' = Newest(h) /\ Covered(h)' = Covered(h)
  BY SameSnapshots DEF NoteAttempt, database, store, row, read, Go
<1>2. TypeFacts
  BY TypedFacts DEF Inv
<1>3. TypeOK'
  BY <1>2 DEF Inv, TypeFacts, TypeOK, StoreTypeOK, Places, Locked, NoteAttempt, database, store, row, read, Go
<1>4. StoreInv'
  BY <1>1, <1>2 DEF Inv, TypeFacts, StoreInv, SnapshotsRestorable, Locked, NoteAttempt, database, store, row, read, Go
<1>5. OrderInv'
  BY <1>1, <1>2 DEF Inv, TypeFacts, OrderInv, UpTo, NoteAttempt, database, store, row, read, Go
<1>6. WorkerInv'
  BY <1>1, <1>2 DEF Inv, TypeFacts, OrderInv, WorkerInv, UpTo, NoteAttempt, database, store, row, read, Go
<1> QED
  BY <1>3, <1>4, <1>5, <1>6 DEF Inv

\* A failure is noted.
LEMMA NoteFailureInv ==
  ASSUME Inv, NEW w \in Workers, NoteFailure(w)
  PROVE  Inv'
<1>1. /\ Referenced' = Referenced
      /\ \A h \in Homes : Newest(h)' = Newest(h) /\ Covered(h)' = Covered(h)
  BY SameSnapshots DEF NoteFailure, database, store, row, read, Go, EndRun
<1>2. TypeFacts
  BY TypedFacts DEF Inv
<1>3. TypeOK'
  BY <1>2 DEF Inv, TypeFacts, TypeOK, StoreTypeOK, Places, Locked, NoteFailure, database, store, row, read, Go, EndRun
<1>4. StoreInv'
  BY <1>1, <1>2 DEF Inv, TypeFacts, StoreInv, SnapshotsRestorable, Locked, NoteFailure, database, store, row, read, Go, EndRun
<1>5. OrderInv'
  BY <1>1, <1>2 DEF Inv, TypeFacts, OrderInv, UpTo, NoteFailure, database, store, row, read, Go, EndRun
<1>6. WorkerInv'
  BY <1>1, <1>2 DEF Inv, TypeFacts, OrderInv, WorkerInv, UpTo, NoteFailure, database, store, row, read, Go, EndRun
<1> QED
  BY <1>3, <1>4, <1>5, <1>6 DEF Inv

\* What is acknowledged is covered.
LEMMA AcknowledgeInv ==
  ASSUME Inv, NEW w \in Workers, Acknowledge(w)
  PROVE  Inv'
<1>1. /\ Referenced' = Referenced
      /\ \A h \in Homes : Newest(h)' = Newest(h) /\ Covered(h)' = Covered(h)
  BY SameSnapshots DEF Acknowledge, database, store, row, read, Go, EndRun
<1>2. TypeFacts
  BY TypedFacts DEF Inv
<1>3. TypeOK'
  BY <1>2 DEF Inv, TypeFacts, TypeOK, StoreTypeOK, Places, Locked, Acknowledge, database, store, row, read, Go, EndRun
<1>4. StoreInv'
  BY <1>1, <1>2 DEF Inv, TypeFacts, StoreInv, SnapshotsRestorable, Locked, Acknowledge, database, store, row, read, Go, EndRun
<1>5. OrderInv'
  BY <1>1, <1>2 DEF Inv, TypeFacts, OrderInv, UpTo, Acknowledge, database, store, row, read, Go, EndRun
<1>6. WorkerInv'
  <2>1. \A h \in Homes : UpTo(acked'[h], lastSuccess'[h], Newest(h))
    BY <1>1, <1>2 DEF Inv, TypeFacts, WorkerInv, UpTo, Acknowledge, row
  <2>2. \A v \in Workers : pc'[v] = IF v = w THEN "idle" ELSE pc[v]
    BY <1>2 DEF TypeFacts, Acknowledge, Go
  <2>3. \A v \in Workers : /\ generation'[v] = IF v = w THEN 0 ELSE generation[v]
                          /\ started'[v] = IF v = w THEN 0 ELSE started[v]
    BY <1>2 DEF TypeFacts, Acknowledge, EndRun
  <2>4. UNCHANGED <<dirty, now, staged>>
    BY DEF Acknowledge, database
  <2> QED
    BY <1>1, <1>2, <2>1, <2>2, <2>3, <2>4 DEF Inv, TypeFacts, WorkerInv, UpTo
<1> QED
  BY <1>3, <1>4, <1>5, <1>6 DEF Inv

\* The owner starts and ends a backup.
LEMMA OwnerBackupInv ==
  ASSUME Inv, NEW p \in Procs, OwnerBackup(p)
  PROVE  Inv'
<1>1. /\ Referenced' = Referenced
      /\ \A h \in Homes : Newest(h)' = Newest(h) /\ Covered(h)' = Covered(h)
  BY SameSnapshots DEF OwnerBackup, database, store, row, read, Go
<1>2. TypeFacts
  BY TypedFacts DEF Inv
<1>3. TypeOK'
  BY <1>2 DEF Inv, TypeFacts, TypeOK, StoreTypeOK, Places, Locked, OwnerBackup, database, store, row, read, Go
<1>4. StoreInv'
  BY <1>1, <1>2 DEF Inv, TypeFacts, StoreInv, SnapshotsRestorable, Locked, OwnerBackup, database, store, row, read, Go
<1>5. OrderInv'
  BY <1>1, <1>2 DEF Inv, TypeFacts, OrderInv, UpTo, OwnerBackup, database, store, row, read, Go
<1>6. WorkerInv'
  BY <1>1, <1>2 DEF Inv, TypeFacts, OrderInv, WorkerInv, UpTo, OwnerBackup, database, store, row, read, Go
<1> QED
  BY <1>3, <1>4, <1>5, <1>6 DEF Inv

(***************************************************************************)
(* Publishing and pruning.                                                 *)
(***************************************************************************)

\* The newest snapshot of a home whose list of snapshots is not empty.
LEMMA NewestOf ==
  ASSUME NEW h, snapshots'[h] # <<>>
  PROVE  Newest(h)' = Last(snapshots'[h]) /\ Covered(h)' = Last(snapshots'[h]).gen
BY DEF Newest, Covered, Last

\* The other homes' newest snapshots stay.
LEMMA OtherNewest ==
  ASSUME NEW h, snapshots'[h] = snapshots[h]
  PROVE  Newest(h)' = Newest(h) /\ Covered(h)' = Covered(h)
BY DEF Newest, Covered, Last

\* A published snapshot becomes its home's newest; all its blocks are there.
LEMMA PublishManifestInv ==
  ASSUME Inv, NEW p \in Procs, PublishManifest(p), UNCHANGED <<row, read>>
  PROVE  Inv'
<1> DEFINE home == HomeOf[p]
<1>1. TypeFacts
  BY TypedFacts DEF Inv
<1>2. home \in Homes /\ snapshots[home] \in Seq(Snapshot) /\ staged[p] \in Snapshot
  BY ProcFacts DEF Inv
<1>3. /\ \A h \in Homes \ {home} : snapshots'[h] = snapshots[h]
      /\ snapshots'[home] = Append(snapshots[home], staged[p])
      /\ DOMAIN snapshots' = Homes /\ DOMAIN snapshots = Homes
  BY <1>2 DEF PublishManifest, Inv, TypeOK, StoreTypeOK
<1>4. /\ snapshots'[home] \in Seq(Snapshot) /\ snapshots'[home] # <<>>
      /\ Last(snapshots'[home]) = staged[p]
      /\ \A i \in DOMAIN snapshots'[home] :
           \/ snapshots'[home][i] = staged[p]
           \/ \E j \in DOMAIN snapshots[home] : snapshots'[home][i] = snapshots[home][j]
  <2> HIDE DEF home
  <2> DEFINE t == snapshots'[home]
  <2>1. /\ t \in Seq(Snapshot) /\ Len(t) = Len(snapshots[home]) + 1
        /\ t[Len(t)] = staged[p]
        /\ \A i \in 1..Len(snapshots[home]) : t[i] = snapshots[home][i]
    BY <1>2, <1>3
  <2> HIDE DEF t
  <2>2. /\ t # <<>> /\ Last(t) = t[Len(t)]
        /\ \A i \in DOMAIN t : t[i] = t[Len(t)] \/ \E j \in DOMAIN snapshots[home] : t[i] = snapshots[home][j]
    BY <1>2, <2>1, AppendFacts
  <2> QED
    BY <2>1, <2>2 DEF t
<1>5. /\ Newest(home)' = staged[p] /\ Covered(home)' = staged[p].gen
      /\ \A h \in Homes \ {home} : Newest(h)' = Newest(h) /\ Covered(h)' = Covered(h)
  BY <1>3, <1>4, NewestOf, OtherNewest
<1>6. Referenced' \subseteq Referenced \cup staged[p].blocks
  <2> SUFFICES ASSUME NEW h \in Homes, NEW i \in DOMAIN snapshots'[h],
                      NEW b \in snapshots'[h][i].blocks
               PROVE  b \in Referenced \cup staged[p].blocks
    BY DEF Referenced
  <2>1. CASE h = home
    BY <1>2, <1>4, <2>1, ReferencedBy
  <2>2. CASE h # home
    BY <1>3, <2>2, ReferencedBy
  <2> QED
    BY <2>1, <2>2
<1>7. staged[p].blocks \subseteq blocks \ damaged
  BY DEF Inv, StoreInv, PublishManifest
<1>8. /\ UNCHANGED <<content, dirty, now, blocks, damaged, left, failures, row, read>>
      /\ \A q \in Procs : pc'[q] = IF q = p THEN "pruning" ELSE pc[q]
      /\ \A q \in Procs : staged'[q] = IF q = p THEN NoSnapshot ELSE staged[q]
  BY <1>1 DEF TypeFacts, PublishManifest, Go, Forget, database
<1>9. TypeOK'
  <2>1. snapshots' \in [Homes -> Seq(Snapshot)]
    BY <1>2, <1>3, <1>4 DEF Inv, TypeOK, StoreTypeOK, PublishManifest
  <2>2. pc' \in [Procs -> Places] /\ staged' \in [Procs -> Snapshot]
    BY <1>1 DEF TypeFacts, PublishManifest, Go, Forget, Places, Locked
  <2> QED
    BY <1>8, <2>1, <2>2 DEF Inv, TypeOK, StoreTypeOK, row, read
<1>10. StoreInv'
  <2>1. SnapshotsRestorable'
    BY <1>6, <1>7, <1>8 DEF Inv, StoreInv, SnapshotsRestorable
  <2>2. \A q \in Procs : pc[q] \in Locked => q = p
    BY DEF Inv, StoreInv, PublishManifest, Locked
  <2> QED
    BY <1>8, <2>1, <2>2 DEF StoreInv, Locked
<1>11. OrderInv'
  <2>1. \A q \in Procs : pc[q] = "copying" => q = p
    BY DEF Inv, StoreInv, PublishManifest, Locked
  <2>2. \A q \in Procs : pc'[q] # "copying"
    BY <1>8, <2>1
  <2>3. \A h \in Homes : Covered(h)' <= dirty[h] /\ Newest(h)'.at <= now
    BY <1>2, <1>5 DEF Inv, OrderInv, PublishManifest
  <2> QED
    BY <1>8, <2>2, <2>3 DEF OrderInv
<1>12. WorkerInv'
  <2>1. /\ UpTo(Covered(home), Newest(home).at, staged[p])
        /\ p \in Workers => UpTo(generation[p], started[p], staged[p])
    BY DEF Inv, OrderInv, WorkerInv, PublishManifest
  <2>2. \A h \in Homes : UpTo(acked[h], lastSuccess[h], Newest(h)')
    <3>1. ASSUME NEW h \in Homes \ {home} PROVE UpTo(acked[h], lastSuccess[h], Newest(h)')
      BY <1>5 DEF Inv, WorkerInv
    <3>2. UpTo(acked[home], lastSuccess[home], Newest(home))
      BY <1>2 DEF Inv, WorkerInv
    <3>3. UpTo(acked[home], lastSuccess[home], staged[p])
      BY <1>1, <1>2, <2>1, <3>2 DEF TypeFacts, UpTo, Covered
    <3> QED
      BY <1>5, <3>1, <3>3
  <2>3. ASSUME NEW w \in Workers, pc'[w] \in {"pruning", "sweeping", "ok"}
        PROVE  UpTo(generation[w], started[w], Newest(HomeOf[w])')
    <3>1. CASE w = p
      BY <1>5, <2>1, <3>1
    <3>2. CASE w # p
      <4>1. UpTo(generation[w], started[w], Newest(HomeOf[w]))
        BY <1>8, <2>3, <3>2 DEF Inv, WorkerInv
      <4>2. CASE HomeOf[w] = home
        BY <1>1, <1>2, <1>5, <2>1, <4>1, <4>2 DEF TypeFacts, UpTo, Covered
      <4>3. CASE HomeOf[w] # home
        BY <1>1, <1>5, <4>1, <4>3 DEF TypeFacts
      <4> QED
        BY <4>2, <4>3
    <3> QED
      BY <3>1, <3>2
  <2>4. \A w \in Workers : pc'[w] # "copying"
    BY <1>8 DEF Inv, StoreInv, PublishManifest, Locked
  <2> QED
    BY <1>8, <2>2, <2>3, <2>4 DEF Inv, WorkerInv, row, read
<1> QED
  BY <1>9, <1>10, <1>11, <1>12 DEF Inv

\* Pruning takes old snapshots away and keeps the newest.
LEMMA PruneSnapshotInv ==
  ASSUME Inv, NEW p \in Procs, PruneSnapshot(p), UNCHANGED <<row, read>>
  PROVE  Inv'
<1> DEFINE home == HomeOf[p]
<1>1. TypeFacts
  BY TypedFacts DEF Inv
<1>2. home \in Homes /\ snapshots[home] \in Seq(Snapshot) /\ RetainOf[p] \in Nat \ {0}
  BY ProcFacts DEF Inv
<1>3. /\ \A h \in Homes \ {home} : snapshots'[h] = snapshots[h]
      /\ snapshots'[home] = RemoveAt(snapshots[home], Len(snapshots[home]) - RetainOf[p])
      /\ Len(snapshots[home]) > RetainOf[p]
      /\ DOMAIN snapshots' = Homes /\ DOMAIN snapshots = Homes
  BY <1>2 DEF PruneSnapshot, Inv, TypeOK, StoreTypeOK
<1>4. /\ snapshots'[home] \in Seq(Snapshot) /\ snapshots'[home] # <<>>
      /\ Last(snapshots'[home]) = Last(snapshots[home])
      /\ \A i \in DOMAIN snapshots'[home] :
           \E j \in DOMAIN snapshots[home] : snapshots'[home][i] = snapshots[home][j]
  BY <1>2, <1>3, PruneFacts
<1>5. \A h \in Homes : Newest(h)' = Newest(h) /\ Covered(h)' = Covered(h)
  <2>1. snapshots[home] # <<>>
    BY <1>2, <1>3
  <2>2. Newest(home)' = Newest(home) /\ Covered(home)' = Covered(home)
    BY <1>4, <2>1, NewestOf DEF Newest, Covered
  <2> QED
    BY <1>3, <2>2, OtherNewest
<1>6. Referenced' \subseteq Referenced
  <2> SUFFICES ASSUME NEW h \in Homes, NEW i \in DOMAIN snapshots'[h],
                      NEW b \in snapshots'[h][i].blocks
               PROVE  b \in Referenced
    BY DEF Referenced
  <2>1. CASE h = home
    BY <1>2, <1>4, <2>1, ReferencedBy
  <2>2. CASE h # home
    BY <1>3, <2>2, ReferencedBy
  <2> QED
    BY <2>1, <2>2
<1>7. UNCHANGED <<content, dirty, now, blocks, damaged, pc, staged, left, failures, row, read>>
  BY DEF PruneSnapshot, database
<1>8. TypeOK'
  <2>1. snapshots' \in [Homes -> Seq(Snapshot)]
    BY <1>2, <1>3, <1>4 DEF Inv, TypeOK, StoreTypeOK, PruneSnapshot
  <2> QED
    BY <1>7, <2>1 DEF Inv, TypeOK, StoreTypeOK, row, read
<1>9. StoreInv'
  BY <1>6, <1>7 DEF Inv, StoreInv, SnapshotsRestorable
<1>10. OrderInv'
  BY <1>5, <1>7 DEF Inv, OrderInv, UpTo
<1>11. WorkerInv'
  BY <1>1, <1>5, <1>7 DEF Inv, TypeFacts, WorkerInv, UpTo, row, read
<1> QED
  BY <1>8, <1>9, <1>10, <1>11 DEF Inv

(***************************************************************************)
(* Inv is an invariant.                                                    *)
(***************************************************************************)

\* Inv depends on the variables of the specification only.
LEMMA StutterInv == ASSUME Inv, UNCHANGED vars PROVE Inv'
<1>1. /\ Referenced' = Referenced
      /\ \A h \in Homes : Newest(h)' = Newest(h) /\ Covered(h)' = Covered(h)
  BY SameSnapshots DEF vars, storeVars, store
<1>2. TypeFacts
  BY TypedFacts DEF Inv
<1> USE DEF vars, storeVars, database, store, row, read
<1>3. TypeOK'
  BY DEF Inv, TypeOK, StoreTypeOK
<1>4. StoreInv'
  BY <1>1 DEF Inv, StoreInv, SnapshotsRestorable
<1>5. OrderInv'
  BY <1>1 DEF Inv, OrderInv, UpTo
<1>6. WorkerInv'
  BY <1>1, <1>2 DEF Inv, TypeFacts, WorkerInv, UpTo
<1> QED
  BY <1>3, <1>4, <1>5, <1>6 DEF Inv

\* Every step keeps Inv.
LEMMA NextInv == ASSUME Inv, [Next]_vars PROVE Inv'
<1>1. CASE UNCHANGED vars
  BY <1>1, StutterInv
<1>2. ASSUME NEW h \in Homes, Commit(h), UNCHANGED <<row, read>> PROVE Inv'
  BY <1>2, CommitInv
<1>3. ASSUME Tick, UNCHANGED <<row, read>> PROVE Inv'
  BY <1>3, TickInv
<1>4. ASSUME NEW p \in Procs, EnterStore(p), UNCHANGED <<row, read>> PROVE Inv'
  BY <1>4, EnterStoreInv
<1>5. ASSUME NEW p \in Procs, StoreStep(p), UNCHANGED <<row, read>> PROVE Inv'
  BY <1>5, StageDatabaseInv, PublishManifestInv, CorruptBlockInv, PruneSnapshotInv,
     CollectBlocksInv, LeaveStoreInv, ReuseBlockInv, WriteBlockInv, UnlinkBlockInv
  DEF StoreStep
<1>6. ASSUME NEW p \in Procs, StoreFailure(p), UNCHANGED <<row, read>> PROVE Inv'
  BY <1>6, StoreErrorInv, WriteDamagedBlockInv DEF StoreFailure
<1>7. ASSUME NEW p \in Procs, Dies(p), IF p \in Workers THEN EndRun(p) ELSE UNCHANGED read,
             UNCHANGED row
      PROVE  Inv'
  BY <1>7, DiesInv
<1>8. ASSUME NEW w \in Workers, WorkerStep(w) \/ DestinationRefused(w) PROVE Inv'
  BY <1>8, ReadRowInv, NoteAttemptInv, NoteFailureInv, AcknowledgeInv, DestinationRefusedInv
  DEF WorkerStep
<1>9. ASSUME NEW p \in Procs, OwnerBackup(p) PROVE Inv'
  BY <1>9, OwnerBackupInv
<1> QED
  BY <1>1, <1>2, <1>3, <1>4, <1>5, <1>6, <1>7, <1>8, <1>9 DEF Next

\* Inv is an invariant of the backup, for any homes, processes, retentions,
\* errors and deaths.
THEOREM Invariance == Spec => []Inv
BY InitInv, NextInv, PTL DEF Spec

\* Every published snapshot can be restored, however many homes share the store
\* and whichever backups fail or die (README, incremental store).
THEOREM SnapshotsStayRestorable == Spec => []SnapshotsRestorable
<1>1. Inv => SnapshotsRestorable
  BY DEF Inv, StoreInv
<1> QED
  BY Invariance, <1>1, PTL

\* What is acknowledged is covered by a snapshot (run_once).
THEOREM AcknowledgedIsCovered == Spec => []AckedIsCovered
<1>1. Inv => AckedIsCovered
  BY DEF Inv, WorkerInv, AckedIsCovered, UpTo, Covered
<1> QED
  BY Invariance, <1>1, PTL

\* A healthy home has a fresh, restorable snapshot (backup-status).
THEOREM HealthyHomesAreFresh == Spec => []HealthyIsFresh
<1>1. ASSUME Inv, NEW h \in Homes, Healthy(h)
      PROVE  \E i \in DOMAIN snapshots[h] : /\ now - snapshots[h][i].at <= Stale
                                            /\ snapshots[h][i].blocks \subseteq blocks \ damaged
  <2>1. TypeFacts /\ snapshots[h] \in Seq(Snapshot)
    BY <1>1, TypedFacts DEF Inv, TypeOK, StoreTypeOK
  <2>2. lastSuccess[h] <= Newest(h).at /\ now - lastSuccess[h] <= Stale /\ lastSuccess[h] # 0
    BY <1>1 DEF Inv, WorkerInv, UpTo, Healthy
  <2>3. snapshots[h] # <<>>
    BY <1>1, <2>1, <2>2 DEF TypeFacts, Newest, NoSnapshot
  <2>4. Len(snapshots[h]) \in DOMAIN snapshots[h] /\ Newest(h) = snapshots[h][Len(snapshots[h])]
    BY <2>1, <2>3 DEF Newest, Last
  <2>5. now - Newest(h).at <= Stale
    BY <1>1, <2>1, <2>2 DEF TypeFacts
  <2>6. Newest(h).blocks \subseteq blocks \ damaged
    BY <1>1, <2>4, ReferencedBy DEF Inv, StoreInv, SnapshotsRestorable
  <2> QED
    BY <2>4, <2>5, <2>6
<1>2. Inv => HealthyIsFresh
  BY <1>1 DEF HealthyIsFresh
<1> QED
  BY Invariance, <1>2, PTL

(***************************************************************************)
(* The backup implements the recovery point.                               *)
(***************************************************************************)

\* The newest snapshot moves forward only, and never ahead of the database.
LEMMA CoveredAdvances ==
  ASSUME Inv, NEW p \in Procs, PublishManifest(p), UNCHANGED <<row, read>>
  PROVE  [RP!Next]_(RP!vars)
<1> DEFINE home == HomeOf[p]
<1>1. home \in Homes /\ snapshots[home] \in Seq(Snapshot) /\ staged[p] \in Snapshot
  BY ProcFacts DEF Inv
<1>2. TypeFacts
  BY TypedFacts DEF Inv
<1>3. /\ \A h \in Homes \ {home} : snapshots'[h] = snapshots[h]
      /\ snapshots'[home] = Append(snapshots[home], staged[p])
  BY <1>1 DEF PublishManifest, Inv, TypeOK, StoreTypeOK
<1>4. snapshots'[home] # <<>> /\ Last(snapshots'[home]) = staged[p]
  <2> HIDE DEF home
  <2> DEFINE t == snapshots'[home]
  <2>1. /\ t \in Seq(Snapshot) /\ Len(t) = Len(snapshots[home]) + 1
        /\ t[Len(t)] = staged[p]
        /\ \A i \in 1..Len(snapshots[home]) : t[i] = snapshots[home][i]
    BY <1>1, <1>3
  <2> QED
    BY <1>1, <2>1, AppendFacts
<1>5. /\ Covered(home)' = staged[p].gen
      /\ \A h \in Homes \ {home} : Covered(h)' = Covered(h)
  BY <1>3, <1>4, NewestOf, OtherNewest
<1>6. staged[p].gen \in Covered(home)..dirty[home]
  BY <1>1, <1>2 DEF Inv, TypeFacts, OrderInv, UpTo, PublishManifest
<1>7. [h \in Homes |-> Covered(h)]' = [[h \in Homes |-> Covered(h)] EXCEPT ![home] = staged[p].gen]
  BY <1>1, <1>5
<1>8. UNCHANGED <<dirty, acked>>
  BY DEF PublishManifest, database, row
<1>9. RP!Cover(home)
  BY <1>1, <1>6, <1>7, <1>8 DEF RP!Cover
<1> QED
  BY <1>1, <1>9 DEF RP!Next

\* A step that leaves the generations alone, and the newest snapshots.
LEMMA RecoveryStutter ==
  ASSUME UNCHANGED <<dirty, acked>>, \A h \in Homes : Covered(h)' = Covered(h)
  PROVE  [RP!Next]_(RP!vars)
BY DEF RP!vars

\* Every step is a step of the recovery point, or leaves it unchanged.
LEMMA RecoveryNext == ASSUME Inv, [Next]_vars PROVE [RP!Next]_(RP!vars)
<1> USE DEF database, store, row, read
<1>1. CASE UNCHANGED vars
  BY <1>1, SameSnapshots, RecoveryStutter DEF vars, storeVars
<1>2. ASSUME NEW home \in Homes, Commit(home), UNCHANGED <<row, read>>
      PROVE  [RP!Next]_(RP!vars)
  <2>1. \A h \in Homes : Covered(h)' = Covered(h)
    BY <1>2, SameSnapshots DEF Commit
  <2>2. CASE UNCHANGED dirty
    BY <1>2, <2>1, <2>2, RecoveryStutter
  <2>3. CASE dirty' = [dirty EXCEPT ![home] = @ + 1]
    BY <1>2, <2>1, <2>3 DEF RP!Event, RP!Next
  <2> QED
    BY <1>2, <2>2, <2>3 DEF Commit
<1>3. ASSUME Tick, UNCHANGED <<row, read>> PROVE [RP!Next]_(RP!vars)
  BY <1>3, SameSnapshots, RecoveryStutter DEF Tick
<1>4. ASSUME NEW p \in Procs, EnterStore(p), UNCHANGED <<row, read>>
      PROVE  [RP!Next]_(RP!vars)
  BY <1>4, SameSnapshots, RecoveryStutter DEF EnterStore
<1>5. ASSUME NEW p \in Procs, StoreStep(p), UNCHANGED <<row, read>>
      PROVE  [RP!Next]_(RP!vars)
  <2>1. CASE PublishManifest(p)
    BY <1>5, <2>1, CoveredAdvances
  <2>2. CASE PruneSnapshot(p)
    <3>1. snapshots[HomeOf[p]] \in Seq(Snapshot) /\ RetainOf[p] \in Nat \ {0} /\ HomeOf[p] \in Homes
      BY ProcFacts DEF Inv
    <3>2. /\ snapshots[HomeOf[p]] # <<>> /\ snapshots'[HomeOf[p]] # <<>>
          /\ Last(snapshots'[HomeOf[p]]) = Last(snapshots[HomeOf[p]])
          /\ \A h \in Homes \ {HomeOf[p]} : snapshots'[h] = snapshots[h]
      BY <2>2, <3>1, PruneFacts DEF PruneSnapshot, Inv, TypeOK, StoreTypeOK
    <3>3. \A h \in Homes : Covered(h)' = Covered(h)
      BY <3>2, NewestOf, OtherNewest DEF Newest, Covered
    <3> QED
      BY <1>5, <2>2, <3>3, RecoveryStutter DEF PruneSnapshot
  <2>3. CASE \/ StageDatabase(p) \/ CorruptBlock(p) \/ CollectBlocks(p) \/ LeaveStore(p)
             \/ \E b \in Blocks : ReuseBlock(p, b) \/ WriteBlock(p, b) \/ UnlinkBlock(p, b)
    <3>1. UNCHANGED <<dirty, snapshots>>
      BY <2>3 DEF StageDatabase, CorruptBlock, CollectBlocks, LeaveStore, ReuseBlock,
                  WriteBlock, UnlinkBlock
    <3> QED
      BY <1>5, <3>1, SameSnapshots, RecoveryStutter
  <2> QED
    BY <1>5, <2>1, <2>2, <2>3 DEF StoreStep
<1>6. ASSUME NEW p \in Procs, StoreFailure(p) \/ Dies(p), UNCHANGED row
      PROVE  [RP!Next]_(RP!vars)
  <2>1. UNCHANGED <<dirty, snapshots>>
    BY <1>6 DEF StoreFailure, StoreError, WriteDamagedBlock, Dies
  <2> QED
    BY <1>6, <2>1, SameSnapshots, RecoveryStutter
<1>7. ASSUME NEW w \in Workers, WorkerStep(w) \/ DestinationRefused(w)
      PROVE  [RP!Next]_(RP!vars)
  <2>1. UNCHANGED <<dirty, snapshots>>
    BY <1>7 DEF WorkerStep, ReadRow, NoteAttempt, NoteFailure, Acknowledge, DestinationRefused
  <2>2. \A h \in Homes : Covered(h)' = Covered(h)
    BY <2>1, SameSnapshots
  <2>3. CASE Acknowledge(w) /\ acked[HomeOf[w]] < generation[w]
    <3>1. HomeOf[w] \in Homes /\ TypeFacts
      BY TypedFacts DEF Inv, TypeFacts
    <3>2. generation[w] \in (acked[HomeOf[w]] + 1)..Covered(HomeOf[w])
      BY <2>3, <3>1 DEF Inv, TypeFacts, WorkerInv, UpTo, Acknowledge, Covered
    <3>3. acked' = [acked EXCEPT ![HomeOf[w]] = generation[w]]
      BY <2>3 DEF Acknowledge
    <3>4. [h \in Homes |-> Covered(h)][HomeOf[w]] = Covered(HomeOf[w])
      BY <3>1
    <3>5. RP!Acknowledge(HomeOf[w])
      BY <2>1, <2>2, <3>2, <3>3, <3>4 DEF RP!Acknowledge
    <3> QED
      BY <3>1, <3>5 DEF RP!Next
  <2>4. CASE ~(Acknowledge(w) /\ acked[HomeOf[w]] < generation[w])
    <3>1. UNCHANGED acked
      BY <1>7, <2>4 DEF WorkerStep, ReadRow, NoteAttempt, NoteFailure, Acknowledge, DestinationRefused
    <3> QED
      BY <2>1, <2>2, <3>1, RecoveryStutter
  <2> QED
    BY <2>3, <2>4
<1>8. ASSUME NEW p \in Procs, OwnerBackup(p) PROVE [RP!Next]_(RP!vars)
  BY <1>8, SameSnapshots, RecoveryStutter DEF OwnerBackup
<1> QED
  BY <1>1, <1>2, <1>3, <1>4, <1>5, <1>6, <1>7, <1>8 DEF Next

\* The unattended backup implements the recovery point: coverage only moves
\* forward, over committed generations, and acknowledgements follow it.
THEOREM BackupImplementsRecoveryPoint == Spec => ImplementsRecoveryPoint
<1>1. Init => RP!Init
  BY DEF Init, StoreInit, RP!Init, Covered, Newest, NoSnapshot
<1>2. Inv /\ [Next]_vars => [RP!Next]_(RP!vars)
  BY RecoveryNext
<1> QED
  BY <1>1, <1>2, Invariance, PTL DEF Spec, ImplementsRecoveryPoint, RP!Spec

=============================================================================
