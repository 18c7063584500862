------------------------------- MODULE Queue -------------------------------
(***************************************************************************)
(* The action queue of a store (src/src/client/producer.rs and the queue's *)
(* half of src/src/client.rs): producers append actions, every owning      *)
(* handle of the owner process may drain them, and the owner cancels,      *)
(* acknowledges or replaces a row by request.                              *)
(*                                                                         *)
(* A drain reads the pending rows once, outside any transaction, then      *)
(* takes them one by one in append order; each row's apply is one          *)
(* transaction that claims the row first, and the park or the bump of one  *)
(* that failed is another.  Between any two of these, every other actor    *)
(* may run: another drain, a request, a producer, a sync's write.          *)
(*                                                                         *)
(* A row's immutable columns are asked[id], which the list a pass read     *)
(* carries too; what the database changes of it is the rest.  The body a   *)
(* drain finds failing is set aside by Blobs.tla's Quarantine.             *)
(***************************************************************************)
EXTENDS Staging, FiniteSets

CONSTANTS
    Drains,      \* the owning handles that drain
    MaxRows,     \* how many rows are ever appended
    MaxAttempts, \* PimdirSourceStore::MAX_ATTEMPTS
    MaxStops,    \* how many passes end early
    MaxSyncs,    \* how many batches a sync writes meanwhile
    Requests,    \* the actions producers append
    Malformed,   \* the rows other programs insert by themselves
    Changes,     \* the store changes that replace a performed intent
    Deniable,    \* the kinds a declaration may stop supporting
    InitItems,   \* the items at the start
    SyncPlaces,  \* the places a sync writes meanwhile
    NoAction     \* no row appended under an id yet

ASSUME RowsAssumption == MaxRows \in Nat
ASSUME AttemptsAssumption == MaxAttempts \in Nat /\ MaxAttempts > 0
ASSUME StopsAssumption == MaxStops \in Nat /\ MaxSyncs \in Nat
ASSUME NoActionAssumption == NoAction \notin Requests \cup Malformed \cup Changes
ASSUME PlacesAssumption == SyncPlaces \subseteq Places
ASSUME ItemsAssumption == InitItems \in [Places -> Items \cup {NoItem}]
ASSUME ActionsAssumption ==
    \A a \in Requests \cup Malformed \cup Changes :
       /\ a.at \in Places /\ a.body \in Objects /\ a.flags \in Flags
       /\ a.supersedes \in Places \cup {NoPlace}
ASSUME MalformedAssumption ==
    \A a \in Malformed : a.kind \in {"malformed", "later", "restated"}

VARIABLES
    items,     \* place -> the item there
    performer, \* the source chosen to perform intents
    denied,    \* the kinds the declared capabilities refuse
    asked,     \* id -> the action appended under it
    queued,    \* the ids with a queue row
    parked,    \* those of them with an error
    attempts,  \* id -> its attempts column
    nextId,    \* AUTOINCREMENT
    receipts,  \* the ids with a receipt
    aged,      \* the receipts past RECEIPT_DAYS
    pins,      \* body -> the references the queue counts of it
    pc,        \* drain -> where its pass is
    todo,      \* drain -> the rows its pass has yet to settle
    snap,      \* drain -> the attempts its list read
    stops, syncs,
    effects,   \* history: id -> how often its action was applied
    withdrawn, \* history: the rows dropped by request
    performed  \* history: the rows acknowledged or replaced

store == <<items, performer, denied>>
rows == <<asked, queued, parked, attempts, nextId>>
answers == <<receipts, aged>>
passes == <<pc, todo, snap>>
bounds == <<stops, syncs>>
history == <<effects, withdrawn, performed>>
vars == <<store, rows, answers, pins, passes, bounds, history>>

Ids == 1..MaxRows

Init ==
    /\ items = InitItems /\ performer = NoPlace /\ denied = {}
    /\ asked = [i \in Ids |-> NoAction]
    /\ queued = {} /\ parked = {} /\ nextId = 1
    /\ attempts = [i \in Ids |-> 0]
    /\ receipts = {} /\ aged = {}
    /\ pins = [b \in Bodies |-> 0]
    /\ pc = [d \in Drains |-> "idle"]
    /\ todo = [d \in Drains |-> {}]
    /\ snap = [d \in Drains |-> [i \in Ids |-> 0]]
    /\ stops = 0 /\ syncs = 0
    /\ effects = [i \in Ids |-> 0]
    /\ withdrawn = {} /\ performed = {}

-----------------------------------------------------------------------------
Pending == queued \ parked

(* The gate of the declared capabilities; an add that supersedes an item   *)
(* also removes it.                                                        *)
Denied(a) ==
    \/ a.kind \in denied
    \/ a.kind = "add" /\ a.supersedes # NoPlace /\ "remove" \in denied

(* duplicate: a pending add of the key, or a live item of it that nothing  *)
(* pending withdraws.                                                      *)
Duplicate(a) ==
    \/ \E i \in Pending : asked[i].kind = "add" /\ asked[i].at = a.at
    \/ /\ Live(items[a.at])
       /\ ~\E i \in Pending : asked[i].kind \in {"remove", "move"} /\ asked[i].at = a.at

Pin(body) == [b \in Bodies |-> IF b = body THEN pins[b] + 1 ELSE pins[b]]
Release(body) == [b \in Bodies |-> IF b = body THEN pins[b] - 1 ELSE pins[b]]

Inserted(a) ==
    /\ nextId \in Ids
    /\ asked' = [asked EXCEPT ![nextId] = a]
    /\ nextId' = nextId + 1

(* PimdirProducer::append: the gate, then the duplicate check, the pin and *)
(* the insert as one transaction; a declaration made in between leaves     *)
(* what one made after the insert does.                                    *)
Append(a) ==
    /\ ~Denied(a)
    /\ ~(a.fresh /\ Duplicate(a))
    /\ Inserted(a)
    /\ queued' = queued \cup {nextId}
    /\ pins' = Pin(a.body)
    /\ UNCHANGED <<store, parked, attempts, answers, passes, bounds, history>>

(* A row another program inserts: its payload does not decode, is of a     *)
(* later version, or restates another body than its column.                *)
AppendMalformed(a) ==
    /\ Inserted(a)
    /\ queued' = queued \cup {nextId}
    /\ pins' = Pin(a.body)
    /\ UNCHANGED <<store, parked, attempts, answers, passes, bounds, history>>

-----------------------------------------------------------------------------
(* The drain of one handle.                                                *)

(* The pending rows, read outside any transaction.                         *)
Begin(d) ==
    /\ pc[d] = "idle"
    /\ pc' = [pc EXCEPT ![d] = "pass"]
    /\ todo' = [todo EXCEPT ![d] = Pending]
    /\ snap' = [snap EXCEPT ![d] = attempts]
    /\ UNCHANGED <<store, rows, answers, pins, bounds, history>>

(* The row a pass is at: the list is in append order.                      *)
At(d, i) == i \in todo[d] /\ \A j \in todo[d] : i <= j
Taking(d, i) == pc[d] = "pass" /\ At(d, i)
Settle(d, i) == todo' = [todo EXCEPT ![d] = @ \ {i}]

(* What decoding the row says, before any transaction.                     *)
Unreadable(a) == a.kind = "malformed"
Intent(a) == a.kind = "intent"
Later(a) == a.kind = "later"
Drained(a) == ~Unreadable(a) /\ ~Intent(a) /\ ~Later(a)

(* A later version's row, or an intent its performer may take.             *)
SkipRow(d, i) ==
    /\ Taking(d, i)
    /\ Later(asked[i]) \/ (Intent(asked[i]) /\ ~Denied(asked[i]))
    /\ Settle(d, i)
    /\ UNCHANGED <<store, rows, answers, pins, pc, snap, bounds, history>>

(* A payload that does not decode, an intent its source no longer takes.   *)
RefuseRow(d, i) ==
    /\ Taking(d, i)
    /\ Unreadable(asked[i]) \/ (Intent(asked[i]) /\ Denied(asked[i]))
    /\ pc' = [pc EXCEPT ![d] = "park"]
    /\ UNCHANGED <<store, rows, answers, pins, todo, snap, bounds, history>>

(* Mutant: the claim is not asked whether it deleted a row.                *)
MutantClaims(i) == TRUE

(* CLAIM_ACTION: the first statement of the row's transaction, which a row *)
(* another handle applied or a request removed does not pass.              *)
Claims(i) == i \in queued

LostClaim(d, i) ==
    /\ Taking(d, i) /\ Drained(asked[i])
    /\ ~Claims(i)
    /\ Settle(d, i)
    /\ UNCHANGED <<store, rows, answers, pins, pc, snap, bounds, history>>

Performs(a) == a.kind = "set-performer"

(* Whether the transaction commits: not for a row restating another body,  *)
(* refused by the owner's backstop or one the staging does not take.       *)
Commits(a) == ~Denied(a) /\ (Performs(a) \/ Takes(items, a))

(* The row removed, by an apply or by request, its columns with it.        *)
Removed(i) ==
    /\ queued' = queued \ {i}
    /\ parked' = parked \ {i}
    /\ attempts' = [attempts EXCEPT ![i] = 0]

(* Mutant: the apply's transaction records no receipt.                     *)
MutantReceipted(i) == UNCHANGED receipts

(* record_receipt; which item it names is left out.                        *)
Receipted(i) == receipts' = receipts \cup {i}

(* apply_queued: the claim, the action's writes, the pin released and the  *)
(* receipt, in one transaction.                                            *)
ApplyQueued(d, i) ==
    /\ Taking(d, i) /\ Drained(asked[i])
    /\ Claims(i)
    /\ Commits(asked[i])
    /\ IF Performs(asked[i])
       THEN performer' = asked[i].to /\ UNCHANGED items
       ELSE items' = Applied(items, asked[i]) /\ UNCHANGED performer
    /\ Removed(i)
    /\ Receipted(i)
    /\ pins' = Release(asked[i].body)
    /\ effects' = [effects EXCEPT ![i] = @ + 1]
    /\ Settle(d, i)
    /\ UNCHANGED <<denied, asked, nextId, aged, pc, snap, bounds, withdrawn, performed>>

(* The transaction rolled back, the claimed row restored: it will never    *)
(* apply.                                                                  *)
ParkRow(d, i) ==
    /\ Taking(d, i) /\ Drained(asked[i])
    /\ Claims(i)
    /\ ~Commits(asked[i])
    /\ pc' = [pc EXCEPT ![d] = "park"]
    /\ UNCHANGED <<store, rows, answers, pins, todo, snap, bounds, history>>

(* The retry bound, over the attempts the pass read.                       *)
Retries(d, i) == snap[d][i] + 1 < MaxAttempts

(* The environment fails the row: the database busy, a body unreadable.    *)
RetryRow(d, i) ==
    /\ Taking(d, i) /\ Drained(asked[i])
    /\ pc' = [pc EXCEPT ![d] = IF Retries(d, i) THEN "bump" ELSE "park"]
    /\ UNCHANGED <<store, rows, answers, pins, todo, snap, bounds, history>>

(* Mutant: a retryable failure is not counted.                             *)
MutantFailAction(d, i) ==
    /\ parked' = IF pc[d] = "park" THEN parked \cup ({i} \cap queued) ELSE parked
    /\ attempts' = IF pc[d] = "park" THEN [attempts EXCEPT ![i] = @ + 1] ELSE attempts

(* fail_action: PARK_ACTION or BUMP_ATTEMPTS, by id, in a transaction of   *)
(* its own; a row gone meanwhile is not touched.                           *)
FailAction(d, i) ==
    IF i \in queued
    THEN /\ attempts' = [attempts EXCEPT ![i] = @ + 1]
         /\ parked' = IF pc[d] = "park" THEN parked \cup {i} ELSE parked
    ELSE UNCHANGED <<attempts, parked>>

FailRow(d, i) ==
    /\ pc[d] \in {"park", "bump"} /\ At(d, i)
    /\ FailAction(d, i)
    /\ pc' = [pc EXCEPT ![d] = "pass"]
    /\ Settle(d, i)
    /\ UNCHANGED <<store, asked, queued, nextId, answers, pins, snap, bounds, history>>

(* A pass over, the list it read goes.                                     *)
Forget(d) == snap' = [snap EXCEPT ![d] = [i \in Ids |-> 0]]

(* The end of the pass: the receipts past their days go.                   *)
Finish(d) ==
    /\ pc[d] = "pass" /\ todo[d] = {}
    /\ pc' = [pc EXCEPT ![d] = "idle"]
    /\ Forget(d)
    /\ receipts' = receipts \ aged /\ aged' = {}
    /\ UNCHANGED <<store, rows, pins, todo, bounds, history>>

(* A pass that ends early: its process dies, or recording a failure is     *)
(* itself refused and the drain returns the error.                         *)
Stop(d) ==
    /\ pc[d] # "idle" /\ stops < MaxStops
    /\ stops' = stops + 1
    /\ pc' = [pc EXCEPT ![d] = "idle"]
    /\ todo' = [todo EXCEPT ![d] = {}]
    /\ Forget(d)
    /\ UNCHANGED <<store, rows, answers, pins, syncs, history>>

-----------------------------------------------------------------------------
(* The owner's requests, each one transaction on a row pending or parked.  *)

DropAction(i) ==
    /\ i \in queued
    /\ Removed(i)
    /\ pins' = Release(asked[i].body)
    /\ withdrawn' = withdrawn \cup {i}
    /\ UNCHANGED <<store, asked, nextId, answers, passes, bounds, effects, performed>>

AcknowledgeAction(i) ==
    /\ i \in queued
    /\ Removed(i)
    /\ Receipted(i)
    /\ pins' = Release(asked[i].body)
    /\ performed' = performed \cup {i}
    /\ UNCHANGED <<store, asked, nextId, aged, passes, bounds, effects, withdrawn>>

(* Mutant: the performed intent's pin is not released.                     *)
MutantRepinned(i, a) == Pin(a.body)

(* The change's body is pinned before the intent's is released.            *)
Repinned(i, a) ==
    [b \in Bodies |-> (IF b = asked[i].body THEN Pin(a.body)[b] - 1 ELSE Pin(a.body)[b])]

(* replace_action: the store change a performed intent leaves is appended  *)
(* and the intent receipted.                                               *)
ReplaceAction(i, a) ==
    /\ i \in queued
    /\ Inserted(a)
    /\ queued' = (queued \cup {nextId}) \ {i}
    /\ parked' = parked \ {i}
    /\ attempts' = [attempts EXCEPT ![i] = 0]
    /\ Receipted(i)
    /\ pins' = Repinned(i, a)
    /\ performed' = performed \cup {i}
    /\ UNCHANGED <<store, aged, passes, bounds, effects, withdrawn>>

-----------------------------------------------------------------------------
(* What goes on meanwhile.                                                 *)

(* declare: the capabilities of a source replaced whole.                   *)
Declare(kinds) ==
    /\ denied' = kinds /\ denied' # denied
    /\ UNCHANGED <<items, performer, rows, answers, pins, passes, bounds, history>>

SyncWrite(p) ==
    /\ syncs < MaxSyncs
    /\ syncs' = syncs + 1
    /\ items' \in SyncWritten(items, p)
    /\ UNCHANGED <<performer, denied, rows, answers, pins, passes, stops, history>>

(* RECEIPT_DAYS go by.                                                     *)
Age(i) ==
    /\ i \in receipts \ aged
    /\ aged' = aged \cup {i}
    /\ UNCHANGED <<store, rows, receipts, pins, passes, bounds, history>>

-----------------------------------------------------------------------------
Pass(d) ==
    \/ Begin(d) \/ Finish(d)
    \/ \E i \in Ids : \/ SkipRow(d, i) \/ RefuseRow(d, i) \/ LostClaim(d, i)
                      \/ ApplyQueued(d, i) \/ ParkRow(d, i) \/ RetryRow(d, i)
                      \/ FailRow(d, i)

Next ==
    \/ \E a \in Requests : Append(a)
    \/ \E a \in Malformed : AppendMalformed(a)
    \/ \E d \in Drains : Pass(d) \/ Stop(d)
    \/ \E i \in Ids : \/ DropAction(i) \/ Age(i)
                      \/ AcknowledgeAction(i)
                      \/ \E a \in Changes : ReplaceAction(i, a)
    \/ \E kinds \in SUBSET Deniable : Declare(kinds)
    \/ \E p \in SyncPlaces : SyncWrite(p)

(* An owner that keeps draining, each pass going on to its end.            *)
Fairness == \A d \in Drains : WF_vars(Pass(d))

Spec == Init /\ [][Next]_vars /\ Fairness

-----------------------------------------------------------------------------
(* The type invariant: an error is only of a row still queued (PARK_ACTION *)
(* finds none otherwise), a receipt aged only while it is kept.            *)
TypeOK ==
    /\ items \in [Places -> Items \cup {NoItem}]
    /\ asked \in [Ids -> Requests \cup Malformed \cup Changes \cup {NoAction}]
    /\ queued \subseteq Ids /\ parked \subseteq queued
    /\ attempts \in [Ids -> Nat]
    /\ nextId \in 1..(MaxRows + 1)
    /\ receipts \subseteq Ids /\ aged \subseteq receipts
    /\ pins \in [Bodies -> Int]
    /\ pc \in [Drains -> {"idle", "pass", "park", "bump"}]
    /\ todo \in [Drains -> SUBSET Ids]
    /\ snap \in [Drains -> [Ids -> Nat]]
    /\ denied \subseteq Deniable
    /\ stops \in 0..MaxStops /\ syncs \in 0..MaxSyncs
    /\ effects \in [Ids -> Nat]
    /\ withdrawn \subseteq Ids /\ performed \subseteq Ids

(* Every row ever appended has exactly one fate: it is still queued, or it *)
(* was applied once, or it was dropped by request, or its performer        *)
(* acknowledged it.  The claim of apply_queued and the deletes of the      *)
(* three requests race for the row from lists read long before; nothing is *)
(* applied twice, applied after it was withdrawn, or lost.                 *)
Fates(i) ==
    effects[i] + (IF i \in queued THEN 1 ELSE 0) + (IF i \in withdrawn THEN 1 ELSE 0)
               + (IF i \in performed THEN 1 ELSE 0)
OneFate == \A i \in Ids : Fates(i) = IF i < nextId THEN 1 ELSE 0

(* The references the queue counts of a body are its rows naming it,       *)
(* pending or parked, whichever way the other rows went.                   *)
PinsCount ==
    \A b \in Bodies : pins[b] = Cardinality({i \in queued : asked[i].body = b})

(* The order a producer relies on: a row is applied over an earlier one    *)
(* still pending only when that one was tried and failed by the            *)
(* environment, or is no drain's to apply.                                 *)
OvertakesOnlyTried ==
    [][\A i, j \in Ids :
         effects'[j] # effects[j] /\ i < j /\ i \in Pending
            => attempts[i] > 0 \/ ~Drained(asked[i])]_vars

(* action_status.                                                          *)
Status(i) ==
    IF i \in parked THEN "parked"
    ELSE IF i \in queued THEN "pending"
    ELSE IF i \in receipts THEN "applied"
    ELSE IF i < nextId THEN "unknown" ELSE "unasked"

Promise == INSTANCE ActionStatus WITH
    status <- [i \in Ids |-> Status(i)],
    count  <- effects

(* What a producer reads of its row never goes back, each row is applied   *)
(* at most once, and in the step it reads `Applied`.                       *)
StatusPromise == Promise!Spec

(* Every pending row a drain may apply is settled: applied, parked or      *)
(* removed, whatever fails, once passes stop ending early.                 *)
Settles == \A i \in Ids : (i \in Pending /\ Drained(asked[i])) ~> (i \notin Pending)

(* What a server still holds of an item, the drain never forgets: an item  *)
(* bound under the server's handle stays bound or becomes the tombstone    *)
(* whose delete the next sync pushes, until a sync retires it.  An add of  *)
(* the key queued behind the remove or the move must not take the row over *)
(* (release_bindings in write.rs).                                         *)
ServerDeletesKept ==
    [][syncs' = syncs => \A p \in Places : OnServer(items[p]) => OnServer(items'[p])]_vars

-----------------------------------------------------------------------------
(* What the comments say and the code does not keep (README, under         *)
(* Disagreements).                                                         *)

(* A parked row is "kept with its error until somebody cancels it"         *)
(* (PimdirActionStatus::Parked): no drain applies it.                      *)
ParkedKept ==
    [][\A i \in Ids : effects'[i] # effects[i] => i \notin parked]_vars

(* A copy lands under the identity "while free, else a minted one that is" *)
(* (PimdirLinkId::claim): on no live item.                                 *)
CopiesAreFresh ==
    [][\A i \in Ids : effects'[i] # effects[i] /\ asked[i].kind = "copy"
         => ~Live(items[Target(items, asked[i])])]_vars
=============================================================================
