---------------------------- MODULE Blobs_proofs ----------------------------
(***************************************************************************)
(* Proofs about Blobs.tla, for any number of bodies, handles and           *)
(* producers.                                                              *)
(***************************************************************************)
EXTENDS Blobs, TLAPS

(* What the two locks keep apart: while the collector holds the staging    *)
(* lock no window is open, while it holds the writer lock no batch is      *)
(* staged; a producer in its transaction has its window open.              *)
Locks ==
    /\ \A h \in Handles : pc[h] \in Staging => \A p \in Producers : ~window[p]
    /\ \A h \in Handles : pc[h] \in Sweeping => NoWriter
    /\ (tx # NoTx /\ tx.who \in Producers) => window[tx.who]

(* A body a producer staged in its window stays on disk: StagedKept is     *)
(* what its window is for.                                                 *)
StagedKept == \A p \in Producers : \A b \in ours[p] : OnDisk(b)

(* A file fails its name only because the disk spoiled it.                 *)
OnlyRot == \A b \in Bodies : file[b] = "failing" => b \in rotted

(* A handle putting an item has the write transaction.                     *)
Putting == \A h \in Handles : pc[h] = "putting" => (tx # NoTx /\ tx.who = h)

WindowInv == TypeOK /\ Putting /\ Locks /\ OnlyRot /\ StagedKept

(* Where the owner's bodies without a row may be while it collects: in a   *)
(* verb or a put that began past the collector's check.                    *)
Threads ==
    /\ \A h \in Handles : held[h] # {} => (h \in running \/ pc[h] = "staged")
    /\ \A h \in Handles : pc[h] \in Collects => running \subseteq late
    /\ (tx # NoTx /\ tx.who \in Handles /\ tx.who \notin late)
          => \A h \in Handles : pc[h] \notin {"deleted", "sweeping"}
    /\ \A h \in late : h \in running \/ pc[h] = "putting"
    /\ \A h \in running : pc[h] # "putting"
    /\ (tx # NoTx /\ tx.who \in Handles) => pc[tx.who] = "putting"

AwaitedKept ==
    /\ \A h \in Handles : \A b \in held[h] : OnDisk(b) \/ b \in lost
    /\ tx # NoTx => OnDisk(tx.body) \/ tx.body \in lost

BlobsInv == WindowInv /\ Threads /\ AwaitedKept /\ PinnedPresent

-----------------------------------------------------------------------------
(* A step keeps the types.                                                 *)
LEMMA TypeStep ==
  ASSUME TypeOK, Putting, [Next]_vars
  PROVE  TypeOK'
<1> USE DEF disk, tables, verbs, owner, staging
<1>1. ASSUME NEW p \in Producers, NEW b \in Bodies, StageBody(p, b)
      PROVE  TypeOK'
  BY <1>1 DEF StageBody, Opened, Writable, Landed, TypeOK, Labels, Collects,
     Staging
<1>2. ASSUME NEW p \in Producers, OpenWriter(p) PROVE TypeOK'
  BY <1>2 DEF OpenWriter, Opened, TypeOK, Labels, Collects, Staging
<1>3. ASSUME NEW p \in Producers, NEW b \in Bodies, StreamBody(p, b)
      PROVE  TypeOK'
  BY <1>3 DEF StreamBody, Landed, TypeOK, Labels, Collects, Staging
<1>4. ASSUME NEW p \in Producers, NEW b \in Bodies, Enqueue(p, b)
      PROVE  TypeOK'
  BY <1>4 DEF Enqueue, Close, TypeOK, Labels, Collects, Staging
<1>5. ASSUME NEW p \in Producers, EnqueueBare(p) PROVE TypeOK'
  BY <1>5 DEF EnqueueBare, Close, TypeOK, Labels, Collects, Staging
<1>6. ASSUME NEW p \in Producers, NEW b \in Bodies, AppendBody(p, b)
      PROVE  TypeOK'
  BY <1>6 DEF AppendBody, Opened, Landed, TypeOK, Labels, Collects, Staging
<1>7. ASSUME NEW p \in Producers, AppendCommits(p) PROVE TypeOK'
  BY <1>7 DEF AppendCommits, Close, TypeOK, Labels, Collects, Staging
<1>8. ASSUME NEW p \in Producers, AppendRefused(p) PROVE TypeOK'
  BY <1>8 DEF AppendRefused, Opened, TypeOK, Labels, Collects, Staging
<1>9. ASSUME NEW p \in Producers, AppendFails(p) PROVE TypeOK'
  BY <1>9 DEF AppendFails, TypeOK, Labels, Collects, Staging
<1>10. ASSUME NEW p \in Producers, ProducerEnds(p) PROVE TypeOK'
  BY <1>10 DEF ProducerEnds, TypeOK, Labels, Collects, Staging
<1>11. ASSUME NEW h \in Handles, BeginVerb(h) PROVE TypeOK'
  BY <1>11 DEF BeginVerb, Starts, TypeOK, Labels, Collects, Staging
<1>12. ASSUME NEW h \in Handles, NEW b \in Bodies, StreamFetched(h, b)
       PROVE  TypeOK'
  BY <1>12 DEF StreamFetched, Landed, TypeOK, Labels, Collects, Staging
<1>13. ASSUME NEW h \in Handles, NEW B \in SUBSET Bodies, StageBatch(h, B)
       PROVE  TypeOK'
  BY <1>13 DEF StageBatch, Landed, TypeOK, Labels, Collects, Staging
<1>14. ASSUME NEW h \in Handles, NEW A \in SUBSET Bodies, NEW P \in SUBSET Bodies,
              CommitBatch(h, A, P)
       PROVE  TypeOK'
  BY <1>14 DEF CommitBatch, Unstaged, Kept, TypeOK, Labels, Collects, Staging
<1>15. ASSUME NEW h \in Handles, BatchFails(h) PROVE TypeOK'
  BY <1>15 DEF BatchFails, Unstaged, Kept, TypeOK, Labels, Collects, Staging
<1>16. ASSUME NEW h \in Handles, EndVerb(h) PROVE TypeOK'
  BY <1>16 DEF EndVerb, Ends, TypeOK, Labels, Collects, Staging
<1>17. ASSUME NEW h \in Handles, NEW row \in queue, NEW keep \in BOOLEAN,
              ApplyQueued(h, row, keep)
       PROVE  TypeOK'
  BY <1>17 DEF ApplyQueued, TypeOK, Labels, Collects, Staging
<1>18. ASSUME NEW h \in Handles, NEW b \in Bodies, PutItem(h, b)
       PROVE  TypeOK'
  BY <1>18 DEF PutItem, Landed, Starts, TypeOK, Labels, Collects, Staging
<1>19. ASSUME NEW h \in Handles, PutCommits(h) PROVE TypeOK'
  BY <1>19 DEF PutCommits, Ends, Putting, TypeOK, Labels, Collects, Staging
<1>20. ASSUME NEW h \in Handles, CheckInFlight(h) PROVE TypeOK'
  BY <1>20 DEF CheckInFlight, Goto, OnlyMoves, TypeOK, Labels, Collects,
     Staging
<1>21. ASSUME NEW h \in Handles, LockStaging(h) PROVE TypeOK'
  BY <1>21 DEF LockStaging, Goto, OnlyMoves, TypeOK, Labels, Collects,
     Staging
<1>22. ASSUME NEW h \in Handles, LockWriters(h) PROVE TypeOK'
  BY <1>22 DEF LockWriters, Goto, OnlyMoves, TypeOK, Labels, Collects,
     Staging
<1>23. ASSUME NEW h \in Handles, DeleteRows(h) PROVE TypeOK'
  BY <1>23 DEF DeleteRows, Goto, TypeOK, Labels, Collects, Staging
<1>24. ASSUME NEW h \in Handles, CollectFails(h) PROVE TypeOK'
  BY <1>24 DEF CollectFails, Goto, OnlyMoves, TypeOK, Labels, Collects,
     Staging
<1>25. ASSUME NEW h \in Handles, Scan(h) PROVE TypeOK'
  BY <1>25 DEF Scan, Goto, TypeOK, Labels, Collects, Staging
<1>26. ASSUME NEW h \in Handles, NEW b \in Bodies, Sweep(h, b) PROVE TypeOK'
  BY <1>26 DEF Sweep, TypeOK, Labels, Collects, Staging
<1>27. ASSUME NEW h \in Handles, Collected(h) PROVE TypeOK'
  BY <1>27 DEF Collected, Goto, OnlyMoves, TypeOK, Labels, Collects, Staging
<1>28. ASSUME NEW row \in queue, Cancel(row) PROVE TypeOK'
  BY <1>28 DEF Cancel, TypeOK, Labels, Collects, Staging
<1>29. ASSUME NEW B \in SUBSET Bodies, Release(B) PROVE TypeOK'
  BY <1>29 DEF Release, TypeOK, Labels, Collects, Staging
<1>30. ASSUME NEW b \in Bodies, Rot(b) PROVE TypeOK'
  BY <1>30, RotsAssumption DEF Rot, TypeOK, Labels, Collects, Staging
<1>31. ASSUME NEW b \in Bodies, CheckBody(b) PROVE TypeOK'
  BY <1>31 DEF CheckBody, TypeOK, Labels, Collects, Staging
<1>32. ASSUME NEW b \in Bodies, Quarantine(b) PROVE TypeOK'
  BY <1>32 DEF Quarantine, TypeOK, Labels, Collects, Staging
<1>33. ASSUME OwnerCrash PROVE TypeOK'
  BY <1>33 DEF OwnerCrash, TypeOK, Labels, Collects, Staging
<1>34. CASE UNCHANGED vars
  BY <1>34 DEF vars, TypeOK, Labels, Collects, Staging
<1>35. ASSUME NEW h \in Handles, PutFails(h)
      PROVE  TypeOK'
  BY <1>35 DEF PutFails, Ends, TypeOK, Labels, Collects, Staging
<1> QED
  BY <1>1, <1>2, <1>3, <1>4, <1>5, <1>6, <1>7, <1>8, <1>9, <1>10, <1>11,
     <1>12, <1>13, <1>14, <1>15, <1>16, <1>17, <1>18, <1>19, <1>20, <1>21,
     <1>22, <1>23, <1>24, <1>25, <1>26, <1>27, <1>28, <1>29, <1>30, <1>31,
     <1>32, <1>33, <1>34, <1>35 DEF vars, Next, Producing, Writing, Collecting,
     Keeping

(* Only the handle that opened put_item's transaction ends it.             *)
LEMMA PuttingStep ==
  ASSUME TypeOK, Putting, [Next]_vars
  PROVE  Putting'
<1> USE DEF disk, tables, verbs, owner, staging
<1>1. ASSUME NEW p \in Producers, NEW b \in Bodies, AppendBody(p, b)
      PROVE  Putting'
  BY <1>1 DEF AppendBody, Opened, Landed, TypeOK, Putting
<1>2. ASSUME NEW p \in Producers, AppendCommits(p) PROVE Putting'
  BY <1>2, ActorsAssumption DEF AppendCommits, Close, TypeOK, Putting
<1>3. ASSUME NEW p \in Producers, AppendFails(p) PROVE Putting'
  BY <1>3, ActorsAssumption DEF AppendFails, TypeOK, Putting
<1>4. ASSUME NEW p \in Producers, ProducerEnds(p) PROVE Putting'
  BY <1>4, ActorsAssumption DEF ProducerEnds, TypeOK, Putting
<1>5. ASSUME NEW h \in Handles, NEW B \in SUBSET Bodies, StageBatch(h, B)
      PROVE  Putting'
  BY <1>5 DEF StageBatch, Landed, TypeOK, Putting
<1>6. ASSUME NEW h \in Handles, NEW A \in SUBSET Bodies, NEW P \in SUBSET Bodies,
             CommitBatch(h, A, P)
      PROVE  Putting'
  BY <1>6 DEF CommitBatch, Unstaged, Kept, TypeOK, Putting
<1>7. ASSUME NEW h \in Handles, BatchFails(h) PROVE Putting'
  BY <1>7 DEF BatchFails, Unstaged, Kept, TypeOK, Putting
<1>8. ASSUME NEW h \in Handles, NEW b \in Bodies, PutItem(h, b)
      PROVE  Putting'
  BY <1>8, NoTxAssumption DEF PutItem, Landed, Starts, TypeOK, Putting
<1>9. ASSUME NEW h \in Handles, PutCommits(h) PROVE Putting'
  BY <1>9 DEF PutCommits, Ends, TypeOK, Putting
<1>10. ASSUME NEW h \in Handles, CheckInFlight(h) PROVE Putting'
  BY <1>10 DEF CheckInFlight, Goto, OnlyMoves, TypeOK, Putting
<1>11. ASSUME NEW h \in Handles, LockStaging(h) PROVE Putting'
  BY <1>11 DEF LockStaging, Goto, OnlyMoves, TypeOK, Putting
<1>12. ASSUME NEW h \in Handles, LockWriters(h) PROVE Putting'
  BY <1>12 DEF LockWriters, Goto, OnlyMoves, TypeOK, Putting
<1>13. ASSUME NEW h \in Handles, DeleteRows(h) PROVE Putting'
  BY <1>13 DEF DeleteRows, Goto, TypeOK, Putting
<1>14. ASSUME NEW h \in Handles, CollectFails(h) PROVE Putting'
  BY <1>14 DEF CollectFails, Goto, OnlyMoves, TypeOK, Putting
<1>15. ASSUME NEW h \in Handles, Scan(h) PROVE Putting'
  BY <1>15 DEF Scan, Goto, TypeOK, Putting
<1>16. ASSUME NEW h \in Handles, Collected(h) PROVE Putting'
  BY <1>16 DEF Collected, Goto, OnlyMoves, TypeOK, Putting
<1>17. ASSUME OwnerCrash PROVE Putting'
  BY <1>17 DEF OwnerCrash, TypeOK, Putting
<1>18. CASE UNCHANGED <<pc, tx>>
  BY <1>18 DEF TypeOK, Putting
<1>19. ASSUME NEW h \in Handles, PutFails(h)
      PROVE  Putting'
  BY <1>19 DEF PutFails, Ends, TypeOK, Putting
<1> QED
  BY <1>1, <1>2, <1>3, <1>4, <1>5, <1>6, <1>7, <1>8, <1>9, <1>10, <1>11,
     <1>12, <1>13, <1>14, <1>15, <1>16, <1>17, <1>18, <1>19 DEF vars, Next,
     Producing, Writing, Collecting, Keeping, StageBody, OpenWriter,
     StreamBody, Enqueue, EnqueueBare, AppendRefused, BeginVerb,
     StreamFetched, EndVerb, ApplyQueued, Sweep, Cancel, Release, Rot,
     CheckBody, Quarantine, Opened, Landed, Close

(* Nobody opens a window or stages a batch past the collector, and the     *)
(* collector takes neither lock while one is open: hold, try_collecting    *)
(* and writing exclude each other.                                         *)
LEMMA LockStep ==
  ASSUME TypeOK, Locks, [Next]_vars
  PROVE  Locks'
<1> USE DEF disk, tables, verbs, owner, staging
<1>1. ASSUME NEW p \in Producers, NEW b \in Bodies, StageBody(p, b)
      PROVE  Locks'
  BY <1>1 DEF StageBody, Opened, Writable, Landed, Hold, MayStage, TypeOK,
     Locks, Staging, Sweeping, NoWriter
<1>2. ASSUME NEW p \in Producers, OpenWriter(p) PROVE Locks'
  BY <1>2 DEF OpenWriter, Opened, Hold, MayStage, TypeOK, Locks, Staging,
     Sweeping, NoWriter
<1>3. ASSUME NEW p \in Producers, NEW b \in Bodies, StreamBody(p, b)
      PROVE  Locks'
  BY <1>3 DEF StreamBody, Landed, TypeOK, Locks, Staging, Sweeping, NoWriter
<1>4. ASSUME NEW p \in Producers, NEW b \in Bodies, Enqueue(p, b)
      PROVE  Locks'
  BY <1>4 DEF Enqueue, Close, TypeOK, Locks, Staging, Sweeping, NoWriter
<1>5. ASSUME NEW p \in Producers, EnqueueBare(p) PROVE Locks'
  BY <1>5 DEF EnqueueBare, Close, TypeOK, Locks, Staging, Sweeping, NoWriter
<1>6. ASSUME NEW p \in Producers, NEW b \in Bodies, AppendBody(p, b)
      PROVE  Locks'
  BY <1>6 DEF AppendBody, Opened, Landed, Hold, MayStage, TypeOK, Locks,
     Staging, Sweeping, NoWriter
<1>7. ASSUME NEW p \in Producers, AppendCommits(p) PROVE Locks'
  BY <1>7 DEF AppendCommits, Close, TypeOK, Locks, Staging, Sweeping,
     NoWriter
<1>8. ASSUME NEW p \in Producers, AppendRefused(p) PROVE Locks'
  BY <1>8 DEF AppendRefused, Opened, Hold, MayStage, TypeOK, Locks, Staging,
     Sweeping, NoWriter
<1>9. ASSUME NEW p \in Producers, AppendFails(p) PROVE Locks'
  BY <1>9 DEF AppendFails, TypeOK, Locks, Staging, Sweeping, NoWriter
<1>10. ASSUME NEW p \in Producers, ProducerEnds(p) PROVE Locks'
  BY <1>10 DEF ProducerEnds, TypeOK, Locks, Staging, Sweeping, NoWriter
<1>11. ASSUME NEW h \in Handles, NEW B \in SUBSET Bodies, StageBatch(h, B)
       PROVE  Locks'
  BY <1>11 DEF StageBatch, Landed, MayWrite, TypeOK, Locks, Staging,
     Sweeping, NoWriter
<1>12. ASSUME NEW h \in Handles, NEW A \in SUBSET Bodies, NEW P \in SUBSET Bodies,
              CommitBatch(h, A, P)
       PROVE  Locks'
  BY <1>12 DEF CommitBatch, Unstaged, Kept, TypeOK, Locks, Staging, Sweeping,
     NoWriter
<1>13. ASSUME NEW h \in Handles, BatchFails(h) PROVE Locks'
  BY <1>13 DEF BatchFails, Unstaged, Kept, TypeOK, Locks, Staging, Sweeping,
     NoWriter
<1>14. ASSUME NEW h \in Handles, NEW b \in Bodies, PutItem(h, b) PROVE Locks'
  BY <1>14, ActorsAssumption DEF PutItem, Landed, Starts, TypeOK, Locks, Staging,
     Sweeping, NoWriter
<1>15. ASSUME NEW h \in Handles, PutCommits(h) PROVE Locks'
  BY <1>15 DEF PutCommits, Ends, TypeOK, Locks, Staging, Sweeping, NoWriter
<1>16. ASSUME NEW h \in Handles, CheckInFlight(h) PROVE Locks'
  BY <1>16 DEF CheckInFlight, Goto, OnlyMoves, TypeOK, Locks, Staging,
     Sweeping, NoWriter
<1>17. ASSUME NEW h \in Handles, LockStaging(h) PROVE Locks'
  BY <1>17 DEF LockStaging, Goto, OnlyMoves, MayCollect, MayStage, TypeOK,
     Locks, Staging, Sweeping, NoWriter
<1>18. ASSUME NEW h \in Handles, LockWriters(h) PROVE Locks'
  BY <1>18 DEF LockWriters, Goto, OnlyMoves, TypeOK, Locks, Staging,
     Sweeping, NoWriter
<1>19. ASSUME NEW h \in Handles, DeleteRows(h) PROVE Locks'
  BY <1>19 DEF DeleteRows, Goto, TypeOK, Locks, Staging, Sweeping, NoWriter
<1>20. ASSUME NEW h \in Handles, CollectFails(h) PROVE Locks'
  BY <1>20 DEF CollectFails, Goto, OnlyMoves, TypeOK, Locks, Staging,
     Sweeping, NoWriter
<1>21. ASSUME NEW h \in Handles, Scan(h) PROVE Locks'
  BY <1>21 DEF Scan, Goto, TypeOK, Locks, Staging, Sweeping, NoWriter
<1>22. ASSUME NEW h \in Handles, Collected(h) PROVE Locks'
  BY <1>22 DEF Collected, Goto, OnlyMoves, TypeOK, Locks, Staging, Sweeping,
     NoWriter
<1>23. ASSUME OwnerCrash PROVE Locks'
  BY <1>23 DEF OwnerCrash, TypeOK, Locks, Staging, Sweeping, NoWriter
<1>24. CASE UNCHANGED <<pc, tx, window, ours, streamed>>
  BY <1>24 DEF TypeOK, Locks, Staging, Sweeping, NoWriter
<1>25. ASSUME NEW h \in Handles, PutFails(h)
      PROVE  Locks'
  BY <1>25 DEF PutFails, Ends, TypeOK, Locks, Staging, Sweeping, NoWriter
<1> QED
  BY <1>1, <1>2, <1>3, <1>4, <1>5, <1>6, <1>7, <1>8, <1>9, <1>10, <1>11,
     <1>12, <1>13, <1>14, <1>15, <1>16, <1>17, <1>18, <1>19, <1>20, <1>21,
     <1>22, <1>23, <1>24, <1>25 DEF vars, Next, Producing, Writing, Collecting,
     Keeping, BeginVerb, StreamFetched, EndVerb, ApplyQueued, Sweep, Cancel,
     Release, Rot, CheckBody, Quarantine, Landed

(* No write of the store leaves a failing file.                            *)
LEMMA OnlyRotStep ==
  ASSUME TypeOK, OnlyRot, [Next]_vars
  PROVE  OnlyRot'
<1> USE DEF disk, tables, verbs, owner, staging
<1>1. ASSUME NEW p \in Producers, NEW b \in Bodies, StageBody(p, b)
      PROVE  OnlyRot'
  BY <1>1 DEF StageBody, Opened, Writable, Landed, TypeOK, OnlyRot
<1>2. ASSUME NEW p \in Producers, NEW b \in Bodies, StreamBody(p, b)
      PROVE  OnlyRot'
  BY <1>2 DEF StreamBody, Landed, TypeOK, OnlyRot
<1>3. ASSUME NEW p \in Producers, NEW b \in Bodies, AppendBody(p, b)
      PROVE  OnlyRot'
  BY <1>3 DEF AppendBody, Opened, Landed, TypeOK, OnlyRot
<1>4. ASSUME NEW h \in Handles, NEW b \in Bodies, StreamFetched(h, b)
      PROVE  OnlyRot'
  BY <1>4 DEF StreamFetched, Landed, TypeOK, OnlyRot
<1>5. ASSUME NEW h \in Handles, NEW B \in SUBSET Bodies, StageBatch(h, B)
      PROVE  OnlyRot'
  BY <1>5 DEF StageBatch, Landed, TypeOK, OnlyRot
<1>6. ASSUME NEW h \in Handles, NEW b \in Bodies, PutItem(h, b)
      PROVE  OnlyRot'
  BY <1>6 DEF PutItem, Landed, Starts, TypeOK, OnlyRot
<1>7. ASSUME NEW h \in Handles, NEW b \in Bodies, Sweep(h, b) PROVE OnlyRot'
  BY <1>7 DEF Sweep, TypeOK, OnlyRot
<1>8. ASSUME NEW b \in Bodies, Rot(b) PROVE OnlyRot'
  BY <1>8 DEF Rot, TypeOK, OnlyRot
<1>9. ASSUME NEW b \in Bodies, Quarantine(b) PROVE OnlyRot'
  BY <1>9 DEF Quarantine, TypeOK, OnlyRot
<1>10. CASE UNCHANGED disk
  BY <1>10 DEF TypeOK, OnlyRot
<1> QED
  BY <1>1, <1>2, <1>3, <1>4, <1>5, <1>6, <1>7, <1>8, <1>9, <1>10 DEF vars,
     Next, Producing, Writing, Collecting, Keeping, OpenWriter, Enqueue,
     EnqueueBare, AppendCommits, AppendRefused, AppendFails, ProducerEnds,
     BeginVerb, CommitBatch, BatchFails, EndVerb, ApplyQueued, PutCommits,
     PutFails,
     CheckInFlight, LockStaging, LockWriters, DeleteRows, CollectFails, Scan,
     Collected, Cancel, Release, CheckBody, OwnerCrash, Opened, Close,
     Unstaged, Kept, Goto, OnlyMoves

(* Only the collector's walk takes a body off the disk, and only one no    *)
(* row names: the quarantine moves failing files alone, and a write never  *)
(* replaces a sound file.                                                  *)
LEMMA Unlinks ==
  ASSUME TypeOK, OnlyRot, NEW b \in Bodies, [Next]_vars,
         \/ OnDisk(b) /\ ~OnDisk(b)'
         \/ file[b] = "sound" /\ file'[b] = "absent"
  PROVE  \E h \in Handles : Sweep(h, b) /\ b \notin rows
<1> USE DEF disk, tables, verbs, owner, staging
<1> DEFINE Swept == \E h \in Handles : Sweep(h, b) /\ b \notin rows
<1> HIDE DEF Swept
<1>1. ASSUME NEW p \in Producers, NEW c \in Bodies, StageBody(p, c)
      PROVE  Swept
  BY <1>1 DEF StageBody, Opened, Writable, Landed, TypeOK, OnlyRot, OnDisk
<1>2. ASSUME NEW p \in Producers, NEW c \in Bodies, StreamBody(p, c)
      PROVE  Swept
  BY <1>2 DEF StreamBody, Landed, TypeOK, OnlyRot, OnDisk
<1>3. ASSUME NEW p \in Producers, NEW c \in Bodies, AppendBody(p, c)
      PROVE  Swept
  BY <1>3 DEF AppendBody, Opened, Landed, TypeOK, OnlyRot, OnDisk
<1>4. ASSUME NEW h \in Handles, NEW c \in Bodies, StreamFetched(h, c)
      PROVE  Swept
  BY <1>4 DEF StreamFetched, Landed, TypeOK, OnlyRot, OnDisk
<1>5. ASSUME NEW h \in Handles, NEW B \in SUBSET Bodies, StageBatch(h, B)
      PROVE  Swept
  BY <1>5 DEF StageBatch, Landed, TypeOK, OnlyRot, OnDisk
<1>6. ASSUME NEW h \in Handles, NEW c \in Bodies, PutItem(h, c) PROVE Swept
  BY <1>6 DEF PutItem, Landed, Starts, TypeOK, OnlyRot, OnDisk
<1>7. ASSUME NEW h \in Handles, NEW c \in Bodies, Sweep(h, c) PROVE Swept
  BY <1>7 DEF Sweep, Swept, TypeOK, OnlyRot, OnDisk
<1>8. ASSUME NEW c \in Bodies, Rot(c) PROVE Swept
  BY <1>8 DEF Rot, TypeOK, OnlyRot, OnDisk
<1>9. ASSUME NEW c \in Bodies, Quarantine(c) PROVE Swept
  BY <1>9 DEF Quarantine, TypeOK, OnlyRot, OnDisk
<1>10. CASE UNCHANGED disk
  BY <1>10 DEF TypeOK, OnlyRot, OnDisk
<1> QED
  BY <1>1, <1>2, <1>3, <1>4, <1>5, <1>6, <1>7, <1>8, <1>9, <1>10 DEF vars,
     Next, Producing, Writing, Collecting, Keeping, OpenWriter, Enqueue,
     EnqueueBare, AppendCommits, AppendRefused, AppendFails, ProducerEnds,
     BeginVerb, CommitBatch, BatchFails, EndVerb, ApplyQueued, PutCommits,
     PutFails,
     CheckInFlight, LockStaging, LockWriters, DeleteRows, CollectFails, Scan,
     Collected, Cancel, Release, CheckBody, OwnerCrash, Opened, Close,
     Unstaged, Kept, Goto, OnlyMoves, Swept

(* What a step adds to the bodies awaiting a row, that step landed.        *)
Fresh ==
    /\ \A p \in Producers : \A b \in ours'[p] : b \in ours[p] \/ file'[b] = "sound"
    /\ \A h \in Handles : \A b \in held'[h] : b \in held[h] \/ file'[b] = "sound"
    /\ tx' # NoTx => tx' = tx \/ file'[tx'.body] = "sound"

(* Staging, streaming and the batch's bodies all land before they are      *)
(* theirs to name.                                                         *)
LEMMA FreshStep ==
  ASSUME TypeOK, [Next]_vars
  PROVE  Fresh
<1> USE DEF disk, tables, verbs, owner, staging
<1>1. ASSUME NEW p \in Producers, NEW b \in Bodies, StageBody(p, b)
      PROVE  Fresh
  BY <1>1 DEF StageBody, Opened, Writable, Landed, TypeOK, Fresh
<1>2. ASSUME NEW p \in Producers, NEW b \in Bodies, StreamBody(p, b)
      PROVE  Fresh
  BY <1>2 DEF StreamBody, Landed, TypeOK, Fresh
<1>3. ASSUME NEW p \in Producers, NEW b \in Bodies, Enqueue(p, b) PROVE Fresh
  BY <1>3 DEF Enqueue, Close, TypeOK, Fresh
<1>4. ASSUME NEW p \in Producers, EnqueueBare(p) PROVE Fresh
  BY <1>4 DEF EnqueueBare, Close, TypeOK, Fresh
<1>5. ASSUME NEW p \in Producers, NEW b \in Bodies, AppendBody(p, b)
      PROVE  Fresh
  BY <1>5 DEF AppendBody, Opened, Landed, TypeOK, Fresh
<1>6. ASSUME NEW p \in Producers, AppendCommits(p) PROVE Fresh
  BY <1>6 DEF AppendCommits, Close, TypeOK, Fresh
<1>7. ASSUME NEW p \in Producers, AppendFails(p) PROVE Fresh
  BY <1>7 DEF AppendFails, TypeOK, Fresh
<1>8. ASSUME NEW p \in Producers, ProducerEnds(p) PROVE Fresh
  BY <1>8 DEF ProducerEnds, TypeOK, Fresh
<1>9. ASSUME NEW h \in Handles, NEW b \in Bodies, StreamFetched(h, b)
      PROVE  Fresh
  BY <1>9 DEF StreamFetched, Landed, TypeOK, Fresh
<1>10. ASSUME NEW h \in Handles, NEW B \in SUBSET Bodies, StageBatch(h, B)
       PROVE  Fresh
  BY <1>10 DEF StageBatch, Landed, TypeOK, Fresh
<1>11. ASSUME NEW h \in Handles, NEW A \in SUBSET Bodies, NEW P \in SUBSET Bodies,
              CommitBatch(h, A, P)
       PROVE  Fresh
  BY <1>11 DEF CommitBatch, Unstaged, Kept, TypeOK, Fresh
<1>12. ASSUME NEW h \in Handles, BatchFails(h) PROVE Fresh
  BY <1>12 DEF BatchFails, Unstaged, Kept, TypeOK, Fresh
<1>13. ASSUME NEW h \in Handles, EndVerb(h) PROVE Fresh
  BY <1>13 DEF EndVerb, Ends, TypeOK, Fresh
<1>14. ASSUME NEW h \in Handles, NEW b \in Bodies, PutItem(h, b) PROVE Fresh
  BY <1>14 DEF PutItem, Landed, Starts, TypeOK, Fresh
<1>15. ASSUME NEW h \in Handles, PutCommits(h) PROVE Fresh
  BY <1>15 DEF PutCommits, Ends, TypeOK, Fresh
<1>16. ASSUME OwnerCrash PROVE Fresh
  BY <1>16 DEF OwnerCrash, TypeOK, Fresh
<1>17. CASE UNCHANGED <<ours, held, tx>>
  BY <1>17 DEF TypeOK, Fresh
<1>18. ASSUME NEW h \in Handles, PutFails(h)
      PROVE  Fresh
  BY <1>18 DEF PutFails, Ends, TypeOK, Fresh
<1> QED
  BY <1>1, <1>2, <1>3, <1>4, <1>5, <1>6, <1>7, <1>8, <1>9, <1>10, <1>11,
     <1>12, <1>13, <1>14, <1>15, <1>16, <1>17, <1>18 DEF vars, Next, Producing,
     Writing, Collecting, Keeping, OpenWriter, AppendRefused, BeginVerb,
     ApplyQueued, CheckInFlight, LockStaging, LockWriters, DeleteRows,
     CollectFails, Scan, Sweep, Collected, Cancel, Release, Rot, CheckBody,
     Quarantine, Opened, Goto, OnlyMoves

(* What a step indexes was indexed or awaiting a row before it.            *)
Named ==
    \A b \in rows' :
        \/ b \in rows
        \/ \E p \in Producers : b \in ours[p]
        \/ \E h \in Handles : b \in held[h]
        \/ tx # NoTx /\ b = tx.body

(* A transaction indexes only what awaited a row, and leaves no pointer at *)
(* a body without one, the collector's deletes included.                   *)
LEMMA NamedStep ==
  ASSUME TypeOK, Putting, Pinned \subseteq rows, [Next]_vars
  PROVE  Named /\ (Pinned \subseteq rows)'
<1> USE DEF disk, tables, verbs, owner, staging
<1>1. ASSUME NEW p \in Producers, NEW b \in Bodies, Enqueue(p, b)
      PROVE  Named /\ (Pinned \subseteq rows)'
  BY <1>1 DEF Enqueue, Close, TypeOK, Named, Pinned
<1>2. ASSUME NEW p \in Producers, AppendCommits(p)
      PROVE  Named /\ (Pinned \subseteq rows)'
  BY <1>2 DEF AppendCommits, Close, TypeOK, Named, Pinned
<1>3. ASSUME NEW h \in Handles, NEW A \in SUBSET Bodies, NEW P \in SUBSET Bodies,
             CommitBatch(h, A, P)
      PROVE  Named /\ (Pinned \subseteq rows)'
  BY <1>3 DEF CommitBatch, Unstaged, Kept, TypeOK, Named, Pinned
<1>4. ASSUME NEW h \in Handles, NEW row \in queue, NEW keep \in BOOLEAN,
             ApplyQueued(h, row, keep)
      PROVE  Named /\ (Pinned \subseteq rows)'
  BY <1>4 DEF ApplyQueued, TypeOK, Named, Pinned
<1>5. ASSUME NEW h \in Handles, PutCommits(h)
      PROVE  Named /\ (Pinned \subseteq rows)'
  BY <1>5 DEF PutCommits, Ends, Putting, TypeOK, Named, Pinned
<1>6. ASSUME NEW h \in Handles, DeleteRows(h)
      PROVE  Named /\ (Pinned \subseteq rows)'
  BY <1>6 DEF DeleteRows, Goto, TypeOK, Named, Pinned
<1>7. ASSUME NEW row \in queue, Cancel(row)
      PROVE  Named /\ (Pinned \subseteq rows)'
  BY <1>7 DEF Cancel, TypeOK, Named, Pinned
<1>8. ASSUME NEW B \in SUBSET Bodies, Release(B)
      PROVE  Named /\ (Pinned \subseteq rows)'
  BY <1>8 DEF Release, TypeOK, Named, Pinned
<1>9. CASE UNCHANGED tables
  BY <1>9 DEF TypeOK, Named, Pinned
<1> QED
  BY <1>1, <1>2, <1>3, <1>4, <1>5, <1>6, <1>7, <1>8, <1>9 DEF vars, Next,
     Producing, Writing, Collecting, Keeping, StageBody, OpenWriter,
     StreamBody, EnqueueBare, AppendBody, AppendRefused, AppendFails,
     ProducerEnds, BeginVerb, StreamFetched, StageBatch, BatchFails, EndVerb,
     PutItem, PutFails,
     CheckInFlight, LockStaging, LockWriters, CollectFails, Scan,
     Sweep, Collected, Rot, CheckBody, Quarantine, OwnerCrash, Opened,
     Landed, Close, Unstaged, Kept, Goto, OnlyMoves

(* A thread that lands a body outside the writer lock while another        *)
(* collects began past its check, and stays marked until it ends.          *)
LEMMA ThreadStep ==
  ASSUME TypeOK, Threads, [Next]_vars
  PROVE  Threads'
<1> USE DEF disk, tables, verbs, owner, staging
<1>1. ASSUME NEW p \in Producers, NEW b \in Bodies, AppendBody(p, b)
      PROVE  Threads'
  BY <1>1, ActorsAssumption DEF AppendBody, Opened, Landed, TypeOK, Threads,
     Collects, Staging
<1>2. ASSUME NEW p \in Producers, AppendCommits(p) PROVE Threads'
  BY <1>2 DEF AppendCommits, Close, TypeOK, Threads, Collects, Staging
<1>3. ASSUME NEW p \in Producers, AppendFails(p) PROVE Threads'
  BY <1>3 DEF AppendFails, TypeOK, Threads, Collects, Staging
<1>4. ASSUME NEW p \in Producers, ProducerEnds(p) PROVE Threads'
  BY <1>4 DEF ProducerEnds, TypeOK, Threads, Collects, Staging
<1>5. ASSUME NEW h \in Handles, BeginVerb(h) PROVE Threads'
  BY <1>5 DEF BeginVerb, Starts, TypeOK, Threads,
     Collects, Staging
<1>6. ASSUME NEW h \in Handles, NEW b \in Bodies, StreamFetched(h, b)
      PROVE  Threads'
  BY <1>6 DEF StreamFetched, Landed, TypeOK, Threads, Collects, Staging
<1>7. ASSUME NEW h \in Handles, NEW B \in SUBSET Bodies, StageBatch(h, B)
      PROVE  Threads'
  BY <1>7 DEF StageBatch, Landed, TypeOK, Threads, Collects, Staging
<1>8. ASSUME NEW h \in Handles, NEW A \in SUBSET Bodies, NEW P \in SUBSET Bodies,
             CommitBatch(h, A, P)
      PROVE  Threads'
  BY <1>8 DEF CommitBatch, Unstaged, Kept, TypeOK, Threads, Collects, Staging
<1>9. ASSUME NEW h \in Handles, BatchFails(h) PROVE Threads'
  BY <1>9 DEF BatchFails, Unstaged, Kept, TypeOK, Threads, Collects, Staging
<1>10. ASSUME NEW h \in Handles, EndVerb(h) PROVE Threads'
  BY <1>10 DEF EndVerb, Ends, TypeOK, Threads, Collects, Staging
<1>11. ASSUME NEW h \in Handles, NEW b \in Bodies, PutItem(h, b)
       PROVE  Threads'
  BY <1>11 DEF PutItem, Landed, Starts, TypeOK,
     Threads, Collects, Staging
<1>12. ASSUME NEW h \in Handles, PutCommits(h) PROVE Threads'
  BY <1>12 DEF PutCommits, Ends, TypeOK, Threads, Collects, Staging
<1>13. ASSUME NEW h \in Handles, CheckInFlight(h) PROVE Threads'
  BY <1>13 DEF CheckInFlight, Goto, OnlyMoves, TypeOK, Threads, Collects,
     Staging
<1>14. ASSUME NEW h \in Handles, LockStaging(h) PROVE Threads'
  BY <1>14 DEF LockStaging, Goto, OnlyMoves, TypeOK, Threads, Collects,
     Staging
<1>15. ASSUME NEW h \in Handles, LockWriters(h) PROVE Threads'
  BY <1>15 DEF LockWriters, Goto, OnlyMoves, TypeOK, Threads, Collects,
     Staging
<1>16. ASSUME NEW h \in Handles, DeleteRows(h) PROVE Threads'
  BY <1>16 DEF DeleteRows, Goto, TypeOK, Threads, Collects, Staging
<1>17. ASSUME NEW h \in Handles, CollectFails(h) PROVE Threads'
  BY <1>17 DEF CollectFails, Goto, OnlyMoves, TypeOK, Threads, Collects,
     Staging
<1>18. ASSUME NEW h \in Handles, Scan(h) PROVE Threads'
  BY <1>18 DEF Scan, Goto, TypeOK, Threads, Collects, Staging
<1>19. ASSUME NEW h \in Handles, Collected(h) PROVE Threads'
  BY <1>19 DEF Collected, Goto, OnlyMoves, TypeOK, Threads, Collects, Staging
<1>20. ASSUME OwnerCrash PROVE Threads'
  BY <1>20 DEF OwnerCrash, TypeOK, Threads, Collects, Staging
<1>21. CASE UNCHANGED <<pc, tx, running, late, held>>
  BY <1>21 DEF TypeOK, Threads, Collects, Staging
<1>22. ASSUME NEW h \in Handles, PutFails(h)
      PROVE  Threads'
  BY <1>22 DEF PutFails, Ends, TypeOK, Threads, Collects, Staging
<1> QED
  BY <1>1, <1>2, <1>3, <1>4, <1>5, <1>6, <1>7, <1>8, <1>9, <1>10, <1>11,
     <1>12, <1>13, <1>14, <1>15, <1>16, <1>17, <1>18, <1>19, <1>20, <1>21, <1>22 DEF
     vars, Next, Producing, Writing, Collecting, Keeping, StageBody,
     OpenWriter, StreamBody, Enqueue, EnqueueBare, AppendRefused,
     ApplyQueued, Sweep, Cancel, Release, Rot, CheckBody, Quarantine, Opened,
     Landed, Close

-----------------------------------------------------------------------------
(* A body being swept is in nobody's window.                               *)
LEMMA SweptUnstaged ==
  ASSUME TypeOK, Locks, NEW h \in Handles, NEW b \in Bodies, Sweep(h, b)
  PROVE  /\ \A p \in Producers : b \notin ours[p]
         /\ tx # NoTx => tx.who \notin Producers
  BY DEF TypeOK, Locks, Sweep, Staging

(* A thread of the owner that awaits its row began past the check.         *)
LEMMA SweptLate ==
  ASSUME TypeOK, Locks, Threads, NEW h \in Handles, NEW b \in Bodies, Sweep(h, b)
  PROVE  /\ tx # NoTx => tx.who \in late
         /\ \A g \in Handles : b \in held[g] => g \in late
<1>1. tx # NoTx => tx.who \in late
  BY SweptUnstaged DEF TypeOK, Threads, Sweep
<1>2. running \subseteq late /\ NoWriter
  BY DEF Locks, Threads, Sweep, Sweeping, Collects, Staging
<1> QED
  BY <1>1, <1>2 DEF Threads, NoWriter

(* What a step lands leaves the lost ones, and nothing else does.          *)
LEMMA LostStep ==
  ASSUME TypeOK, [Next]_vars, NEW b \in lost, b \notin lost'
  PROVE  file'[b] = "sound"
<1> USE DEF disk, tables, verbs, owner, staging
<1>1. ASSUME NEW p \in Producers, NEW c \in Bodies, StageBody(p, c)
      PROVE  file'[b] = "sound"
  BY <1>1 DEF StageBody, Landed, TypeOK
<1>2. ASSUME NEW p \in Producers, NEW c \in Bodies, StreamBody(p, c)
      PROVE  file'[b] = "sound"
  BY <1>2 DEF StreamBody, Landed, TypeOK
<1>3. ASSUME NEW p \in Producers, NEW c \in Bodies, AppendBody(p, c)
      PROVE  file'[b] = "sound"
  BY <1>3 DEF AppendBody, Landed, TypeOK
<1>4. ASSUME NEW h \in Handles, NEW c \in Bodies, StreamFetched(h, c)
      PROVE  file'[b] = "sound"
  BY <1>4 DEF StreamFetched, Landed, TypeOK
<1>5. ASSUME NEW h \in Handles, NEW B \in SUBSET Bodies, StageBatch(h, B)
      PROVE  file'[b] = "sound"
  BY <1>5 DEF StageBatch, Landed, TypeOK
<1>6. ASSUME NEW h \in Handles, NEW c \in Bodies, PutItem(h, c)
      PROVE  file'[b] = "sound"
  BY <1>6 DEF PutItem, Landed, TypeOK
<1>7. ASSUME NEW h \in Handles, NEW c \in Bodies, Sweep(h, c)
      PROVE  file'[b] = "sound"
  BY <1>7 DEF Sweep
<1>8. ASSUME NEW c \in Bodies, Rot(c) \/ Quarantine(c)
      PROVE  file'[b] = "sound"
  BY <1>8 DEF Rot, Quarantine
<1>9. CASE UNCHANGED disk
  BY <1>9
<1> QED
  BY <1>1, <1>2, <1>3, <1>4, <1>5, <1>6, <1>7, <1>8, <1>9 DEF vars,
     Next, Producing, Writing, Collecting, Keeping, OpenWriter, Enqueue,
     EnqueueBare, AppendCommits, AppendRefused, AppendFails, ProducerEnds,
     BeginVerb, CommitBatch, BatchFails, EndVerb, ApplyQueued, PutCommits,
     PutFails, CheckInFlight, LockStaging, LockWriters, DeleteRows,
     CollectFails, Scan, Collected, Cancel, Release, CheckBody, OwnerCrash,
     Opened, Close, Unstaged, Kept, Goto, OnlyMoves

(* The staged bodies of a step stay on disk, whatever the collector does.  *)
LEMMA StagedStep ==
  ASSUME TypeOK, Locks, OnlyRot, StagedKept, [Next]_vars
  PROVE  StagedKept'
<1> SUFFICES ASSUME NEW p \in Producers, NEW b \in ours'[p], ~OnDisk(b)'
             PROVE  FALSE
  BY DEF StagedKept
<1>1. b \in ours[p]
  BY FreshStep DEF Fresh, OnDisk
<1>2. b \in Bodies /\ OnDisk(b)
  BY <1>1 DEF StagedKept, TypeOK
<1>3. PICK h \in Handles : Sweep(h, b)
  BY <1>2, Unlinks
<1> QED
  BY <1>1, <1>2, <1>3, SweptUnstaged

(* The inductive step of everything the locks alone guarantee.             *)
LEMMA WindowStep ==
  ASSUME WindowInv, [Next]_vars
  PROVE  WindowInv'
  BY TypeStep, PuttingStep, LockStep, OnlyRotStep, StagedStep DEF WindowInv

(* Nothing staged, nobody collecting: the start satisfies it.              *)
LEMMA WindowInit ==
  ASSUME Init
  PROVE  WindowInv
  BY RotsAssumption DEF Init, WindowInv, TypeOK, Labels, Putting, Locks,
     NoWriter, Staging, Sweeping, OnlyRot, StagedKept

(* What every interleaving, crash and refusal preserves of the locks.      *)
THEOREM WindowHolds == Spec => []WindowInv
<1>1. WindowInv /\ [Next]_vars => WindowInv'
  BY WindowStep
<1> QED
  BY <1>1, WindowInit, PTL DEF Spec

(* Every variable keeps its type: in particular put_item commits only in a *)
(* transaction still its own, past any producer's append, failure or death.*)
THEOREM TypeCorrect == Spec => []TypeOK
  BY WindowHolds, PTL DEF WindowInv

(* The staging lock does what it is for, past the collector's check too:   *)
(* a body a producer staged or streamed in its window is on disk until the *)
(* window closes, whoever collects or quarantines meanwhile (hold, pinned, *)
(* PimdirLock::collect).                                                   *)
THEOREM WindowSafe == Spec => []StagedKept
  BY WindowHolds, PTL DEF WindowInv

-----------------------------------------------------------------------------
(* A body the owner landed, or a transaction wrote, stays until its row,   *)
(* or was unlinked from under a verb or a put begun past the check.        *)
LEMMA AwaitedStep ==
  ASSUME TypeOK, Locks, OnlyRot, Threads, AwaitedKept, [Next]_vars
  PROVE  AwaitedKept'
<1>1. ASSUME NEW g \in Handles, NEW b \in held'[g], ~OnDisk(b)', b \notin lost'
      PROVE  FALSE
  <2>1. b \in held[g] /\ file'[b] # "sound"
    BY <1>1, FreshStep DEF Fresh, OnDisk
  <2>2. b \in Bodies /\ OnDisk(b)
    BY <1>1, <2>1, LostStep DEF AwaitedKept, TypeOK
  <2>3. PICK h \in Handles : Sweep(h, b) /\ b \notin rows
    BY <1>1, <2>2, Unlinks
  <2>4. g \in late
    BY <2>1, <2>2, <2>3, SweptLate
  <2> QED
    BY <1>1, <2>1, <2>2, <2>3, <2>4 DEF Sweep, Exposed
<1>2. ASSUME tx' # NoTx, ~OnDisk(tx.body)', tx.body' \notin lost'
      PROVE  FALSE
  <2>1. tx' = tx
    BY <1>2, FreshStep DEF Fresh, OnDisk
  <2>2. PICK b \in Bodies : tx.body = b
    BY <1>2, <2>1 DEF TypeOK
  <2>3. b \notin lost' /\ file'[b] # "sound" /\ ~OnDisk(b)'
    BY <1>2, <2>1, <2>2 DEF OnDisk
  <2>4. OnDisk(b)
    BY <1>2, <2>1, <2>2, <2>3, LostStep DEF AwaitedKept, OnDisk
  <2>5. PICK h \in Handles : Sweep(h, b) /\ b \notin rows
    BY <2>3, <2>4, Unlinks
  <2>6. tx.who \in late /\ tx = [who |-> tx.who, body |-> b]
    BY <1>2, <2>1, <2>2, <2>5, SweptLate DEF TypeOK
  <2> QED
    BY <2>3, <2>5, <2>6 DEF Sweep, Exposed
<1> QED
  BY <1>1, <1>2 DEF AwaitedKept, OnDisk

(* A row never outlives its body: a step indexes what was on disk or lost, *)
(* and the walk unlinks nothing it indexed.                                *)
LEMMA PinnedStep ==
  ASSUME BlobsInv, [Next]_vars
  PROVE  PinnedPresent'
<1> USE DEF BlobsInv, WindowInv
<1>1. Named /\ (Pinned \subseteq rows)'
  BY NamedStep DEF PinnedPresent
<1>2. ASSUME NEW b \in rows', ~OnDisk(b)', b \notin lost'
      PROVE  FALSE
  <2>1. b \in Bodies /\ (OnDisk(b) \/ b \in lost)
    BY <1>1 DEF Named, PinnedPresent, StagedKept, AwaitedKept, TypeOK
  <2>2. OnDisk(b)
    BY <1>2, <2>1, LostStep DEF OnDisk
  <2>3. PICK h \in Handles : Sweep(h, b) /\ b \notin rows
    BY <1>2, <2>1, <2>2, Unlinks
  <2> QED
    BY <2>3 DEF Sweep, tables
<1> QED
  BY <1>1, <1>2 DEF PinnedPresent

(* The inductive step of the whole invariant.                              *)
LEMMA BlobsStep ==
  ASSUME BlobsInv, [Next]_vars
  PROVE  BlobsInv'
  BY WindowStep, ThreadStep, AwaitedStep, PinnedStep DEF BlobsInv, WindowInv

(* The empty store satisfies it.                                           *)
LEMMA BlobsInit ==
  ASSUME Init
  PROVE  BlobsInv
  BY WindowInit DEF Init, BlobsInv, Threads, Collects, Staging, AwaitedKept,
     PinnedPresent, Pinned

(* The inductive invariant of the whole store, the owner's side included.  *)
THEOREM BlobsHolds == Spec => []BlobsInv
<1>1. BlobsInv /\ [Next]_vars => BlobsInv'
  BY BlobsStep
<1> QED
  BY <1>1, BlobsInit, PTL DEF Spec

(* No row without a body, for any number of handles, producers, bodies and *)
(* crashes, but for a body the collector unlinked from under a verb or a   *)
(* put_item that began after it looked at the running count: nothing else  *)
(* the store does at once, whatever the order, leaves a row dangling.      *)
THEOREM NoDangling == Spec => []PinnedPresent
  BY BlobsHolds, PTL DEF BlobsInv

(* The collector and the quarantine unlink no sound body a row points at,  *)
(* nor one that a producer, a batch, an append or a verb it did not look   *)
(* past has yet to name.                                                   *)
THEOREM CollectorSafe == Spec => SweepsOnlyGarbage
<1> DEFINE Unlinked(b) == file[b] = "sound" /\ file'[b] = "absent"
<1>1. ASSUME BlobsInv, [Next]_vars, NEW b \in Bodies, Unlinked(b)
      PROVE  b \notin Pinned \cup Awaited
  <2> USE <1>1 DEF BlobsInv, WindowInv
  <2>1. PICK h \in Handles : Sweep(h, b) /\ b \notin rows
    BY Unlinks
  <2>2. b \notin Pinned
    BY <2>1 DEF PinnedPresent
  <2>3. /\ \A p \in Producers : b \notin ours[p]
        /\ tx # NoTx => tx.who \in late
        /\ \A g \in Handles : b \in held[g] => g \in late
    BY <2>1, SweptUnstaged, SweptLate
  <2> QED
    BY <2>2, <2>3 DEF Awaited
<1>2. BlobsInv /\ [Next]_vars
        => [\A b \in Bodies : Unlinked(b) => b \notin Pinned \cup Awaited]_vars
  BY <1>1
<1> QED
  BY <1>2, BlobsHolds, PTL DEF Spec, SweepsOnlyGarbage
=============================================================================
