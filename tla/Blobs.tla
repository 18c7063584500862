-------------------------------- MODULE Blobs --------------------------------
(***************************************************************************)
(* The bodies of a store, between the blob tree, the rows that name them   *)
(* and the locks that keep the collector away (src/src/client/lock.rs,     *)
(* blobs.rs, producer.rs, run.rs, write.rs and the reclamation half of     *)
(* client.rs).                                                             *)
(*                                                                         *)
(* One owner process holds any number of handles, each on a thread of its  *)
(* own; any number of producer processes stage bodies and enqueue actions. *)
(* A body is written to objects/ before the transaction that names it, so  *)
(* in between it is a file nothing references: producers hold the staging  *)
(* lock shared over that window, the owner's writes hold the process's     *)
(* writer lock shared, the owner's verbs count themselves as running, and  *)
(* the collector takes the two locks exclusively once it saw no verb run.  *)
(* It looks once: a verb may begin after, and put_item is in no count.     *)
(*                                                                         *)
(* A lock is not a variable: who holds it follows from where each thread   *)
(* is.  Reference counts are left out, the collector recomputing them from *)
(* the pointers before it deletes a row; the six pointer columns are two,  *)
(* the owner's rows and the queue's.                                       *)
(***************************************************************************)
EXTENDS Naturals

CONSTANTS
    Bodies,    \* the bodies anyone writes
    Handles,   \* the owning handles of the owner process
    Producers, \* the producer processes
    NoTx,      \* no transaction holds a body not yet named
    MaxRots    \* how many files go bad

ASSUME ActorsAssumption == Handles \cap Producers = {}
ASSUME NoTxAssumption == NoTx \notin [who : Handles \cup Producers, body : Bodies]
ASSUME RotsAssumption == MaxRots \in Nat

VARIABLES
    file,     \* body -> what sits at its path
    rows,     \* the object rows
    pointed,  \* the bodies the owner's rows point at
    queue,    \* the pending actions naming a body: <<producer, body>>
    tx,       \* the open write transaction that wrote a body itself, or NoTx
    pc,       \* handle -> where its thread is
    running,  \* the handles running a verb
    late,     \* history: the handles whose verb or put began past the check
              \* of a collector still at work
    held,     \* handle -> bodies it landed that its next write may name
    todo,     \* handle -> bodies its walk has yet to decide
    window,   \* producer -> whether it holds the staging lock
    ours,     \* producer -> bodies it staged in its window
    unpinned, \* producer -> those staged whole that no row of its pinned
    streamed, \* producer -> whether it opened a streaming writer
    suspects, \* bodies a read of the owner found failing, to be moved
    rotted,   \* history: bodies whose file went bad since it was written
    lost,     \* history: bodies unlinked from under such a handle, and not
              \* written since
    rots      \* how many files went bad

disk == <<file, rotted, lost>>
tables == <<rows, pointed, queue>>
verbs == <<running, late>>
owner == <<pc, verbs, held, todo>>
staging == <<window, ours, unpinned, streamed>>
vars == <<disk, tables, tx, owner, staging, suspects, rots>>

Init ==
    /\ file = [b \in Bodies |-> "absent"]
    /\ rows = {} /\ pointed = {} /\ queue = {}
    /\ tx = NoTx
    /\ pc = [h \in Handles |-> "idle"]
    /\ running = {} /\ late = {}
    /\ held = [h \in Handles |-> {}]
    /\ todo = [h \in Handles |-> {}]
    /\ window = [p \in Producers |-> FALSE]
    /\ ours = [p \in Producers |-> {}]
    /\ unpinned = [p \in Producers |-> {}]
    /\ streamed = [p \in Producers |-> FALSE]
    /\ suspects = {} /\ rotted = {} /\ lost = {} /\ rots = 0

-----------------------------------------------------------------------------
Pinned == pointed \cup {row[2] : row \in queue}

(* The collector holds the staging lock, then the writer lock as well.     *)
Staging == {"locked", "collecting", "deleted", "sweeping"}
Sweeping == {"collecting", "deleted", "sweeping"}
Collects == Staging \cup {"checked"}

(* Mutant: the collector takes no staging lock.                            *)
MutantMayCollect == \A h \in Handles : pc[h] \notin Staging

(* PimdirLock::stage waits for the collector alone; ::collect fails while  *)
(* anyone else holds the staging lock.                                     *)
MayStage == \A h \in Handles : pc[h] \notin Staging
MayCollect == MayStage /\ \A p \in Producers : ~window[p]
(* PimdirLock::writing and ::collecting.                                   *)
MayWrite == \A h \in Handles : pc[h] \notin Sweeping
NoWriter == \A h \in Handles : pc[h] # "staged"

(* Nothing keeps a verb or a put from starting past a collector's check:   *)
(* the running count is read once, and put_item is not in it.              *)
Starts(h) ==
    late' = IF \E g \in Handles : pc[g] \in Collects THEN late \cup {h} ELSE late
Ends(h) == late' = late \ {h}
Exposed ==
    {b \in Bodies :
        \E h \in late : b \in held[h] \/ tx = [who |-> h, body |-> b]}

(* PimdirBlobs::write and settle: a name held by a sound file keeps it,    *)
(* one held by a failing file takes no write.                              *)
Writable(B) == \A b \in B : file[b] # "failing"
Landed(B) ==
    /\ file' = [b \in Bodies |-> IF b \in B THEN "sound" ELSE file[b]]
    /\ rotted' = rotted \ B
    /\ lost' = lost \ B

(* set_aside: the owner frees a name a failing file holds, while no other  *)
(* thread or process stages.                                               *)
Replaceable(b) == file[b] = "failing" => MayCollect /\ NoWriter

-----------------------------------------------------------------------------
(* A producer's window (hold, pinned).                                     *)

(* Between its calls a producer holds no transaction.                      *)
Outside(p) == tx # NoTx => tx.who # p
Hold(p) == ~window[p] => MayStage
Opened(p) == window' = [window EXCEPT ![p] = TRUE]

(* Mutant: the first row pinned closes the window.                         *)
MutantClose(p, B) ==
    /\ unpinned' = [unpinned EXCEPT ![p] = @ \ B]
    /\ window' = [window EXCEPT ![p] = FALSE]
    /\ ours' = [ours EXCEPT ![p] = @ \ B]
    /\ UNCHANGED streamed

(* A row pinned B: the window closes once every body staged whole is       *)
(* pinned and none was streamed.                                           *)
Close(p, B) ==
    LET left == unpinned[p] \ B
        shut == left = {} /\ ~streamed[p]
    IN  /\ unpinned' = [unpinned EXCEPT ![p] = left]
        /\ window' = [window EXCEPT ![p] = @ /\ ~shut]
        /\ ours' = [ours EXCEPT ![p] = IF shut THEN {} ELSE @]
        /\ UNCHANGED streamed

(* stage_body.                                                             *)
StageBody(p, b) ==
    /\ Outside(p) /\ Hold(p) /\ Opened(p)
    /\ IF Writable({b})
       THEN /\ Landed({b})
            /\ ours' = [ours EXCEPT ![p] = @ \cup {b}]
            /\ unpinned' = [unpinned EXCEPT ![p] = @ \cup {b}]
       ELSE UNCHANGED <<disk, ours, unpinned>>
    /\ UNCHANGED <<tables, tx, owner, streamed, suspects, rots>>

(* blob_writer, then the writer's commit.                                  *)
OpenWriter(p) ==
    /\ Outside(p) /\ Hold(p) /\ Opened(p)
    /\ streamed' = [streamed EXCEPT ![p] = TRUE]
    /\ UNCHANGED <<disk, tables, tx, owner, ours, unpinned, suspects, rots>>

StreamBody(p, b) ==
    /\ Outside(p) /\ streamed[p]
    /\ Writable({b}) /\ Landed({b})
    /\ ours' = [ours EXCEPT ![p] = @ \cup {b}]
    /\ UNCHANGED <<tables, tx, owner, window, unpinned, streamed, suspects, rots>>

(* append of an action naming a body staged before or indexed already.     *)
Enqueue(p, b) ==
    /\ tx = NoTx
    /\ b \in ours[p] \cup rows
    /\ queue' = queue \cup {<<p, b>>}
    /\ rows' = rows \cup {b}
    /\ Close(p, {b})
    /\ UNCHANGED <<disk, pointed, tx, owner, suspects, rots>>

(* append of an action naming none, an intent or a flag change.            *)
EnqueueBare(p) ==
    /\ tx = NoTx /\ window[p]
    /\ Close(p, {})
    /\ UNCHANGED <<disk, tables, tx, owner, suspects, rots>>

(* append carrying its body: the window first, then the transaction the    *)
(* body is written in.                                                     *)
AppendBody(p, b) ==
    /\ tx = NoTx /\ Hold(p) /\ Opened(p)
    /\ Writable({b}) /\ Landed({b})
    /\ tx' = [who |-> p, body |-> b]
    /\ UNCHANGED <<tables, owner, ours, unpinned, streamed, suspects, rots>>

AppendCommits(p) ==
    /\ tx # NoTx /\ tx.who = p
    /\ queue' = queue \cup {<<p, tx.body>>}
    /\ rows' = rows \cup {tx.body}
    /\ tx' = NoTx
    /\ Close(p, {tx.body})
    /\ UNCHANGED <<disk, pointed, owner, suspects, rots>>

(* Refused before the body is written (the database busy, a duplicate, a   *)
(* failing name), or the commit fails: the window stays open.              *)
AppendRefused(p) ==
    /\ Outside(p) /\ Hold(p) /\ Opened(p)
    /\ UNCHANGED <<disk, tables, tx, owner, ours, unpinned, streamed, suspects, rots>>

AppendFails(p) ==
    /\ tx # NoTx /\ tx.who = p
    /\ tx' = NoTx
    /\ UNCHANGED <<disk, tables, owner, staging, suspects, rots>>

(* The producer drops or dies.                                             *)
ProducerEnds(p) ==
    /\ window' = [window EXCEPT ![p] = FALSE]
    /\ ours' = [ours EXCEPT ![p] = {}]
    /\ unpinned' = [unpinned EXCEPT ![p] = {}]
    /\ streamed' = [streamed EXCEPT ![p] = FALSE]
    /\ tx' = IF tx # NoTx /\ tx.who = p THEN NoTx ELSE tx
    /\ UNCHANGED <<disk, tables, owner, suspects, rots>>

-----------------------------------------------------------------------------
(* The owner's verbs (run, service) and writes.                            *)

BeginVerb(h) ==
    /\ pc[h] = "idle" /\ h \notin running
    /\ running' = running \cup {h}
    /\ Starts(h)
    /\ UNCHANGED <<disk, tables, tx, pc, held, todo, staging, suspects, rots>>

(* A connector streams a fetched body through blob_stage: the owner lock   *)
(* alone is held, no writer lock.                                          *)
StreamFetched(h, b) ==
    /\ pc[h] = "idle" /\ h \in running
    /\ Replaceable(b) /\ Landed({b})
    /\ held' = [held EXCEPT ![h] = @ \cup {b}]
    /\ UNCHANGED <<tables, tx, pc, verbs, todo, staging, suspects, rots>>

(* write: the bodies a batch carries land under the writer lock, ahead of  *)
(* its transaction.                                                        *)
StageBatch(h, B) ==
    /\ pc[h] = "idle" /\ MayWrite
    /\ Writable(B) /\ Landed(B)
    /\ pc' = [pc EXCEPT ![h] = "staged"]
    /\ held' = [held EXCEPT ![h] = @ \cup B]
    /\ UNCHANGED <<tables, tx, verbs, todo, staging, suspects, rots>>

(* What a handle keeps past a write: a verb may name it in a later chunk.  *)
Kept(h) == IF h \in running THEN held[h] ELSE {}
Unstaged(h) ==
    /\ pc' = [pc EXCEPT ![h] = "idle"]
    /\ held' = [held EXCEPT ![h] = Kept(h)]
    /\ UNCHANGED <<verbs, todo>>

(* The batch indexes bodies it landed and leaves its rows pointing at      *)
(* indexed ones, or fails whole.                                           *)
CommitBatch(h, A, P) ==
    /\ pc[h] = "staged" /\ tx = NoTx
    /\ A \subseteq held[h] /\ P \subseteq rows \cup A
    /\ rows' = rows \cup A
    /\ pointed' = P
    /\ Unstaged(h)
    /\ UNCHANGED <<disk, queue, tx, staging, suspects, rots>>

BatchFails(h) ==
    /\ pc[h] = "staged"
    /\ Unstaged(h)
    /\ UNCHANGED <<disk, tables, tx, staging, suspects, rots>>

EndVerb(h) ==
    /\ pc[h] = "idle" /\ h \in running
    /\ running' = running \ {h}
    /\ Ends(h)
    /\ held' = [held EXCEPT ![h] = {}]
    /\ UNCHANGED <<disk, tables, tx, pc, todo, staging, suspects, rots>>

(* apply_queued: the action's pointer becomes its item's, or nobody's (a   *)
(* duplicate, a superseded edit), in one transaction under the writer      *)
(* lock; a body that does not read sound stays queued.                     *)
ApplyQueued(h, row, keep) ==
    /\ pc[h] = "idle" /\ MayWrite /\ tx = NoTx
    /\ row \in queue /\ file[row[2]] = "sound"
    /\ queue' = queue \ {row}
    /\ pointed' = IF keep THEN pointed \cup {row[2]} ELSE pointed
    /\ UNCHANGED <<disk, rows, tx, owner, staging, suspects, rots>>

(* cancel_action.                                                          *)
Cancel(row) ==
    /\ tx = NoTx
    /\ row \in queue
    /\ queue' = queue \ {row}
    /\ UNCHANGED <<disk, rows, pointed, tx, owner, staging, suspects, rots>>

(* purge, purge_retained_before, collect_before, release_before.           *)
Release(B) ==
    /\ tx = NoTx
    /\ B # {} /\ B \subseteq pointed
    /\ pointed' = pointed \ B
    /\ UNCHANGED <<disk, rows, queue, tx, owner, staging, suspects, rots>>

(* put_item: the body is written inside the transaction that names it,     *)
(* under neither the writer lock nor the running count.                    *)
PutItem(h, b) ==
    /\ pc[h] = "idle" /\ h \notin running /\ tx = NoTx
    /\ Replaceable(b) /\ Landed({b})
    /\ tx' = [who |-> h, body |-> b]
    /\ pc' = [pc EXCEPT ![h] = "putting"]
    /\ Starts(h)
    /\ UNCHANGED <<tables, running, held, todo, staging, suspects, rots>>

PutCommits(h) ==
    /\ pc[h] = "putting"
    /\ rows' = rows \cup {tx.body}
    /\ pointed' = pointed \cup {tx.body}
    /\ tx' = NoTx
    /\ pc' = [pc EXCEPT ![h] = "idle"]
    /\ Ends(h)
    /\ UNCHANGED <<disk, queue, running, held, todo, staging, suspects, rots>>

(* A later statement or the commit refused: the body stays, an orphan.     *)
PutFails(h) ==
    /\ pc[h] = "putting"
    /\ tx' = NoTx
    /\ pc' = [pc EXCEPT ![h] = "idle"]
    /\ Ends(h)
    /\ UNCHANGED <<disk, tables, running, held, todo, staging, suspects, rots>>

-----------------------------------------------------------------------------
(* collect_garbage.                                                        *)

Goto(h, label) == pc' = [pc EXCEPT ![h] = label]
OnlyMoves == UNCHANGED <<disk, tables, tx, verbs, held, todo, staging, suspects, rots>>

(* Mutant: the running verbs are not looked at.                            *)
MutantCheckInFlight(h) ==
    /\ pc[h] = "idle" /\ h \notin running
    /\ Goto(h, "checked") /\ OnlyMoves

CheckInFlight(h) ==
    /\ pc[h] = "idle" /\ running = {}
    /\ Goto(h, "checked") /\ OnlyMoves

(* A producer staging, or another collector, is reported and not awaited.  *)
LockStaging(h) ==
    /\ pc[h] = "checked"
    /\ Goto(h, IF MayCollect THEN "locked" ELSE "idle") /\ OnlyMoves

LockWriters(h) ==
    /\ pc[h] = "locked" /\ NoWriter
    /\ Goto(h, "collecting") /\ OnlyMoves

(* The counts recomputed, a row nothing points at goes.                    *)
DeleteRows(h) ==
    /\ pc[h] = "collecting" /\ tx = NoTx
    /\ rows' = rows \cap Pinned
    /\ Goto(h, "deleted")
    /\ UNCHANGED <<disk, pointed, queue, tx, verbs, held, todo, staging, suspects, rots>>

(* The database stayed busy: the locks go, nothing was collected.          *)
CollectFails(h) ==
    /\ pc[h] = "collecting" /\ tx # NoTx
    /\ Goto(h, "idle") /\ OnlyMoves

Scan(h) ==
    /\ pc[h] = "deleted"
    /\ todo' = [todo EXCEPT ![h] = {b \in Bodies : file[b] # "absent"}]
    /\ Goto(h, "sweeping")
    /\ UNCHANGED <<disk, tables, tx, verbs, held, staging, suspects, rots>>

(* One file of the walk: unlinked when no row names it.  Only a put may    *)
(* write between the look and the unlink, and ends as one begun before.    *)
Sweep(h, b) ==
    /\ pc[h] = "sweeping" /\ b \in todo[h]
    /\ todo' = [todo EXCEPT ![h] = @ \ {b}]
    /\ IF b \in rows THEN UNCHANGED disk
       ELSE /\ file' = [file EXCEPT ![b] = "absent"]
            /\ rotted' = rotted \ {b}
            /\ lost' = lost \cup ({b} \cap Exposed)
    /\ UNCHANGED <<tables, tx, pc, verbs, held, staging, suspects, rots>>

Collected(h) ==
    /\ pc[h] = "sweeping" /\ todo[h] = {}
    /\ Goto(h, "idle") /\ OnlyMoves

-----------------------------------------------------------------------------
(* A file goes bad on disk, the owner's next read of it notices, and       *)
(* quarantine moves it, checked again under the collector's locks.         *)

Rot(b) ==
    /\ rots < MaxRots /\ rots' = rots + 1
    /\ file[b] = "sound"
    /\ file' = [file EXCEPT ![b] = "failing"]
    /\ rotted' = rotted \cup {b}
    /\ UNCHANGED <<lost, tables, tx, owner, staging, suspects>>

CheckBody(b) ==
    /\ file[b] = "failing"
    /\ suspects' = suspects \cup {b}
    /\ UNCHANGED <<disk, tables, tx, owner, staging, rots>>

(* Left to the next read while a producer stages; a writer of the process  *)
(* is waited for.                                                          *)
Quarantine(b) ==
    /\ b \in suspects
    /\ MayCollect => NoWriter
    /\ suspects' = suspects \ {b}
    /\ file' = IF MayCollect /\ file[b] = "failing"
               THEN [file EXCEPT ![b] = "absent"] ELSE file
    /\ UNCHANGED <<rotted, lost, tables, tx, owner, staging, rots>>

(* The owner process dies: its locks go with it, its files stay.           *)
OwnerCrash ==
    /\ pc' = [h \in Handles |-> "idle"]
    /\ running' = {} /\ late' = {}
    /\ held' = [h \in Handles |-> {}]
    /\ todo' = [h \in Handles |-> {}]
    /\ suspects' = {}
    /\ tx' = IF tx # NoTx /\ tx.who \in Handles THEN NoTx ELSE tx
    /\ UNCHANGED <<disk, tables, staging, rots>>

-----------------------------------------------------------------------------
Producing ==
    \E p \in Producers :
        \/ \E b \in Bodies : StageBody(p, b)
        \/ OpenWriter(p)
        \/ \E b \in Bodies : StreamBody(p, b)
        \/ \E b \in Bodies : Enqueue(p, b)
        \/ EnqueueBare(p)
        \/ \E b \in Bodies : AppendBody(p, b)
        \/ AppendCommits(p)
        \/ AppendRefused(p)
        \/ AppendFails(p)
        \/ ProducerEnds(p)

Writing ==
    \E h \in Handles :
        \/ BeginVerb(h)
        \/ \E b \in Bodies : StreamFetched(h, b)
        \/ \E B \in SUBSET Bodies : StageBatch(h, B)
        \/ \E A \in SUBSET Bodies : \E P \in SUBSET Bodies : CommitBatch(h, A, P)
        \/ BatchFails(h)
        \/ EndVerb(h)
        \/ \E row \in queue : \E keep \in BOOLEAN : ApplyQueued(h, row, keep)
        \/ \E b \in Bodies : PutItem(h, b)
        \/ PutCommits(h)
        \/ PutFails(h)

Collecting ==
    \E h \in Handles :
        \/ CheckInFlight(h)
        \/ LockStaging(h)
        \/ LockWriters(h)
        \/ DeleteRows(h)
        \/ CollectFails(h)
        \/ Scan(h)
        \/ \E b \in Bodies : Sweep(h, b)
        \/ Collected(h)

Keeping ==
    \/ \E row \in queue : Cancel(row)
    \/ \E B \in SUBSET Bodies : Release(B)
    \/ \E b \in Bodies : Rot(b)
    \/ \E b \in Bodies : CheckBody(b)
    \/ \E b \in Bodies : Quarantine(b)
    \/ OwnerCrash

Next == Producing \/ Writing \/ Collecting \/ Keeping

Spec == Init /\ [][Next]_vars

-----------------------------------------------------------------------------
Labels == {"idle", "staged", "putting"} \cup Collects

(* Every variable has its type (the columns of the store's tables, the     *)
(* labels of a handle's thread), and a producer with a body staged or a    *)
(* writer open has the staging lock (PimdirProducer::hold, pinned).        *)
TypeOK ==
    /\ file \in [Bodies -> {"absent", "sound", "failing"}]
    /\ rows \subseteq Bodies /\ pointed \subseteq Bodies
    /\ queue \subseteq Producers \X Bodies
    /\ tx \in [who : Handles \cup Producers, body : Bodies] \cup {NoTx}
    /\ pc \in [Handles -> Labels]
    /\ running \subseteq Handles /\ late \subseteq Handles
    /\ held \in [Handles -> SUBSET Bodies]
    /\ todo \in [Handles -> SUBSET Bodies]
    /\ window \in [Producers -> BOOLEAN]
    /\ ours \in [Producers -> SUBSET Bodies]
    /\ unpinned \in [Producers -> SUBSET Bodies]
    /\ streamed \in [Producers -> BOOLEAN]
    /\ suspects \subseteq Bodies
    /\ rotted \subseteq Bodies /\ lost \subseteq Bodies
    /\ rots \in 0..MaxRots
    /\ \A p \in Producers : (ours[p] # {} \/ streamed[p]) => window[p]

(* On disk as it was written, unless the disk itself spoiled it.           *)
OnDisk(b) == file[b] = "sound" \/ b \in rotted

(* No row without a body (delete_garbage_objects.sql, "a crash leaves at   *)
(* worst an orphan and never a row without a body"): what an item or a     *)
(* queued action points at is indexed, and what is indexed is on disk,     *)
(* whatever staged, committed, crashed, collected or was quarantined in    *)
(* between.  The one exception is a body unlinked before the verb or the   *)
(* put that wrote it, begun past the collector's check, named it: then     *)
(* collect_garbage and run leave the row without its body.                 *)
PinnedPresent == Pinned \subseteq rows /\ \A b \in rows : OnDisk(b) \/ b \in lost

(* What a thread or a producer wrote and has yet to name, but for a verb   *)
(* or a put begun past the check of a collector at work.                   *)
Awaited ==
    {b \in Bodies : \/ \E p \in Producers : b \in ours[p]
                    \/ \E h \in Handles \ late : b \in held[h]
                    \/ tx # NoTx /\ tx.body = b /\ tx.who \notin late}

(* The collector and the quarantine unlink no sound body that a row points *)
(* at, or that a producer, a batch, an append, or a verb or put no         *)
(* collector had checked past has yet to name (collect_garbage, "so no     *)
(* writer is between a body and the row that pins it").                    *)
SweepsOnlyGarbage ==
    [][\A b \in Bodies : (file[b] = "sound" /\ file'[b] = "absent")
                            => b \notin Pinned \cup Awaited]_vars
=============================================================================
