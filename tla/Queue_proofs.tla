---------------------------- MODULE Queue_proofs ----------------------------
(***************************************************************************)
(* Theorems about Queue.tla, for any handles, any number of rows, attempts *)
(* and stops, and any actions.  First the rows: every row appended has     *)
(* exactly one fate and the queue implements ActionStatus.tla, where the   *)
(* claim and the deletes alone decide.  Then the items a pass writes: the  *)
(* types, the pins a queued or recorded body holds, the deletes owed to a  *)
(* server, and the order of appends.                                       *)
(***************************************************************************)
EXTENDS Queue, Staging_proofs

(* Where the rows and the receipts of the ids may be: what Fates counts    *)
(* is counted over ids already answered, and a receipt is only of a row    *)
(* that is gone.                                                           *)
RowsWell ==
    /\ nextId \in Nat \ {0}
    /\ queued \subseteq Ids /\ parked \subseteq queued
    /\ receipts \subseteq Ids /\ aged \subseteq receipts
    /\ receipts \cap queued = {}
    /\ \A i \in receipts : i < nextId
    /\ effects \in [Ids -> Nat]

QueueInv == RowsWell /\ OneFate

-----------------------------------------------------------------------------
(* A step that changes no row keeps the invariant.                         *)
LEMMA Untouched ==
    ASSUME QueueInv,
           UNCHANGED <<queued, parked, receipts, aged, nextId, history>>
    PROVE  QueueInv'
BY DEF QueueInv, RowsWell, OneFate, Fates, Ids, history

(* PimdirProducer::append takes a fresh id: the row has no other fate.     *)
LEMMA AppendKeeps ==
    ASSUME QueueInv, NEW a,
           Append(a) \/ AppendMalformed(a)
    PROVE  QueueInv'
<1>1. /\ nextId \in Ids /\ nextId' = nextId + 1
      /\ queued' = queued \cup {nextId}
      /\ parked' = parked /\ receipts' = receipts /\ aged' = aged
      /\ effects' = effects /\ withdrawn' = withdrawn /\ performed' = performed
      BY DEF Append, AppendMalformed, Inserted, answers, history
<1>2. RowsWell'
      BY <1>1, RowsAssumption DEF QueueInv, RowsWell, Ids
<1>3. ASSUME NEW i \in Ids
      PROVE  Fates(i)' = IF i < nextId' THEN 1 ELSE 0
      BY <1>1, <1>3, RowsAssumption DEF QueueInv, RowsWell, OneFate, Fates, Ids
<1> QED BY <1>2, <1>3 DEF QueueInv, OneFate

(* What is queued was answered, never applied and never settled otherwise. *)
LEMMA QueuedOnly ==
    ASSUME QueueInv, NEW i \in Ids, i \in queued
    PROVE  i < nextId /\ effects[i] = 0 /\ i \notin withdrawn /\ i \notin performed
<1>1. effects[i] \in Nat /\ i \in Int /\ nextId \in Int
      BY RowsAssumption DEF QueueInv, RowsWell, Ids
<1> DEFINE w == IF i \in withdrawn THEN 1 ELSE 0
           p == IF i \in performed THEN 1 ELSE 0
<1>2. effects[i] + 1 + w + p = IF i < nextId THEN 1 ELSE 0
      BY DEF QueueInv, OneFate, Fates
<1>3. w \in Nat /\ p \in Nat
      OBVIOUS
<1>4. i < nextId /\ effects[i] = 0 /\ w = 0 /\ p = 0
  <2> HIDE DEF w, p
  <2> QED BY <1>1, <1>2, <1>3
<1> QED BY <1>4

(* The claimed row goes, its one application counted with it.              *)
LEMMA ApplyKeeps ==
    ASSUME QueueInv, NEW d \in Drains, NEW i \in Ids, ApplyQueued(d, i)
    PROVE  QueueInv'
<1>1. /\ i \in queued /\ nextId' = nextId
      /\ queued' = queued \ {i} /\ parked' = parked \ {i}
      /\ receipts' = receipts \cup {i} /\ aged' = aged
      /\ effects' = [effects EXCEPT ![i] = @ + 1]
      /\ withdrawn' = withdrawn /\ performed' = performed
      BY DEF ApplyQueued, Claims, Removed, Receipted
<1>2. i < nextId /\ effects[i] = 0
      BY <1>1, QueuedOnly
<1>3. RowsWell'
      BY <1>1, <1>2, RowsAssumption DEF QueueInv, RowsWell, Ids
<1>4. ASSUME NEW j \in Ids
      PROVE  Fates(j)' = IF j < nextId' THEN 1 ELSE 0
      BY <1>1, <1>2, RowsAssumption DEF QueueInv, RowsWell, OneFate, Fates, Ids
<1> QED BY <1>3, <1>4 DEF QueueInv, OneFate

(* A failed attempt parks or leaves the row, still queued.                 *)
LEMMA FailKeeps ==
    ASSUME QueueInv, NEW d \in Drains, NEW i \in Ids, FailRow(d, i)
    PROVE  QueueInv'
BY DEF QueueInv, RowsWell, OneFate, Fates, Ids, FailRow, FailAction, answers, history

(* The end of a pass moves no row; the receipts past their days go.        *)
LEMMA FinishKeeps ==
    ASSUME QueueInv, NEW d \in Drains, Finish(d)
    PROVE  QueueInv'
BY DEF QueueInv, RowsWell, OneFate, Fates, Ids, Finish, rows, history

(* drop_action withdraws a queued row, and it is queued no more.           *)
LEMMA DropKeeps ==
    ASSUME QueueInv, NEW i \in Ids, DropAction(i)
    PROVE  QueueInv'
BY RowsAssumption
   DEF QueueInv, RowsWell, OneFate, Fates, Ids, DropAction, Removed, answers

(* acknowledge removes a queued row some performer did.                    *)
LEMMA AcknowledgeKeeps ==
    ASSUME QueueInv, NEW i \in Ids, AcknowledgeAction(i)
    PROVE  QueueInv'
BY RowsAssumption
   DEF QueueInv, RowsWell, OneFate, Fates, Ids, AcknowledgeAction, Removed, Receipted

(* replace_action withdraws the row and appends another in its place.      *)
LEMMA ReplaceKeeps ==
    ASSUME QueueInv, NEW i \in Ids, NEW a \in Changes, ReplaceAction(i, a)
    PROVE  QueueInv'
BY RowsAssumption
   DEF QueueInv, RowsWell, OneFate, Fates, Ids, ReplaceAction, Inserted, Receipted

(* A receipt that ages is of a row already gone.                           *)
LEMMA AgeKeeps ==
    ASSUME QueueInv, NEW i \in Ids, Age(i)
    PROVE  QueueInv'
BY DEF QueueInv, RowsWell, OneFate, Fates, Ids, Age, rows, history

(* The steps of a drain, and the rest, that change no row.                 *)
QuietPass(d) ==
    \/ Begin(d)
    \/ \E i \in Ids : \/ SkipRow(d, i) \/ RefuseRow(d, i) \/ LostClaim(d, i)
                      \/ ParkRow(d, i) \/ RetryRow(d, i)

Quiet ==
    \/ \E d \in Drains : QuietPass(d) \/ Stop(d)
    \/ \E kinds \in SUBSET Deniable : Declare(kinds)
    \/ \E p \in SyncPlaces : SyncWrite(p)

(* The steps that touch no row of the queue.                               *)
LEMMA QuietSteps ==
    ASSUME Quiet
    PROVE  UNCHANGED <<queued, parked, receipts, aged, nextId, history>>
BY DEF Quiet, QuietPass, Begin, SkipRow, RefuseRow, LostClaim, ParkRow, RetryRow, Stop,
       Declare, SyncWrite, rows, answers

(* An empty queue has no fates.                                            *)
LEMMA InitInv == Init => QueueInv
BY DEF Init, QueueInv, RowsWell, OneFate, Fates, Ids

(* Each step keeps the fates of the rows.                                  *)
LEMMA StepInv == QueueInv /\ [Next]_vars => QueueInv'
<1> SUFFICES ASSUME QueueInv, [Next]_vars
             PROVE  QueueInv'
    OBVIOUS
<1>1. CASE UNCHANGED vars
      BY <1>1, Untouched DEF vars, rows, answers
<1>2. CASE Quiet
      BY <1>2, QuietSteps, Untouched
<1>3. CASE \E a \in Requests : Append(a)
      BY <1>3, AppendKeeps
<1>4. CASE \E a \in Malformed : AppendMalformed(a)
      BY <1>4, AppendKeeps
<1>5. CASE \E d \in Drains : Finish(d)
      BY <1>5, FinishKeeps
<1>6. CASE \E d \in Drains, i \in Ids : ApplyQueued(d, i)
      BY <1>6, ApplyKeeps
<1>7. CASE \E d \in Drains, i \in Ids : FailRow(d, i)
      BY <1>7, FailKeeps
<1>8. CASE \E i \in Ids : DropAction(i) \/ AcknowledgeAction(i) \/ Age(i)
      BY <1>8, DropKeeps, AcknowledgeKeeps, AgeKeeps
<1>9. CASE \E i \in Ids, a \in Changes : ReplaceAction(i, a)
      BY <1>9, ReplaceKeeps
<1> QED BY <1>1, <1>2, <1>3, <1>4, <1>5, <1>6, <1>7, <1>8, <1>9
        DEF Next, Pass, Quiet, QuietPass

(* The invariant of the rows holds of every behaviour.                     *)
LEMMA Inductive == Spec => []QueueInv
BY InitInv, StepInv, PTL DEF Spec

(* Every row has exactly one fate, however many handles drain at once and  *)
(* whatever requests race them: the claim of apply_queued and the deletes  *)
(* of drop, acknowledge and replace decide it.                             *)
THEOREM ExactlyOnce == Spec => []OneFate
<1>1. QueueInv => OneFate
      BY DEF QueueInv
<1> QED BY <1>1, Inductive, PTL

-----------------------------------------------------------------------------
(* The refinement: each step is a step of ActionStatus, or none of it.     *)

(* No row of an id not answered yet.                                       *)
LEMMA UnaskedIds ==
    ASSUME QueueInv
    PROVE  \A i \in Ids : Status(i) = "unasked" <=> ~(i < nextId)
<1> SUFFICES ASSUME NEW i \in Ids
             PROVE  Status(i) = "unasked" <=> ~(i < nextId)
    OBVIOUS
<1>1. i \in queued => i < nextId
      BY QueuedOnly
<1> QED BY <1>1 DEF QueueInv, RowsWell, Status

(* append is Enqueue of the promise.                                       *)
LEMMA AppendRefines ==
    ASSUME QueueInv, NEW a, Append(a) \/ AppendMalformed(a)
    PROVE  Promise!Enqueue(nextId) /\ nextId \in Ids
<1>1. /\ nextId \in Ids /\ nextId' = nextId + 1
      /\ queued' = queued \cup {nextId}
      /\ parked' = parked /\ receipts' = receipts /\ effects' = effects
      BY DEF Append, AppendMalformed, Inserted, answers, history
<1>2. ~(nextId < nextId) /\ nextId \notin parked
      BY <1>1, QueuedOnly DEF QueueInv, RowsWell
<1>3. \A j \in Ids : ~(j < nextId) => nextId <= j
      BY <1>1, RowsAssumption DEF Ids
<1>4. Promise!First(nextId)
      BY <1>3, UnaskedIds DEF Promise!First
<1>5. \A j \in Ids : Status(j)' = IF j = nextId THEN "pending" ELSE Status(j)
  <2> SUFFICES ASSUME NEW j \in Ids
               PROVE  Status(j)' = IF j = nextId THEN "pending" ELSE Status(j)
      OBVIOUS
  <2>1. j # nextId => (j < nextId + 1 <=> j < nextId)
        BY <1>1, RowsAssumption DEF Ids
  <2> QED BY <1>1, <1>2, <2>1 DEF Status
<1> QED BY <1>1, <1>2, <1>4, <1>5, UnaskedIds DEF Promise!Enqueue

(* A claim whose transaction commits is Apply of the promise.              *)
LEMMA ApplyRefines ==
    ASSUME QueueInv, NEW d \in Drains, NEW i \in Ids, ApplyQueued(d, i)
    PROVE  Promise!Apply(i)
<1>1. /\ i \in queued /\ nextId' = nextId
      /\ queued' = queued \ {i} /\ parked' = parked \ {i}
      /\ receipts' = receipts \cup {i}
      /\ effects' = [effects EXCEPT ![i] = @ + 1]
      BY DEF ApplyQueued, Claims, Removed, Receipted
<1>2. effects[i] = 0
      BY <1>1, QueuedOnly
<1>3. effects' = [effects EXCEPT ![i] = 1]
      BY <1>1, <1>2
<1>4. \A j \in Ids : Status(j)' = IF j = i THEN "applied" ELSE Status(j)
      BY <1>1 DEF Status
<1> QED BY <1>1, <1>2, <1>3, <1>4 DEF Promise!Apply, Promise!Kept, Status

(* A failed attempt is Park of the promise, or a stutter.                  *)
LEMMA FailRefines ==
    ASSUME QueueInv, NEW d \in Drains, NEW i \in Ids, FailRow(d, i)
    PROVE  Promise!Park(i) \/ UNCHANGED <<[j \in Ids |-> Status(j)], effects>>
<1>1. /\ nextId' = nextId /\ queued' = queued /\ receipts' = receipts
      /\ effects' = effects
      BY DEF FailRow, answers, history
<1>2. CASE i \in queued \ parked /\ pc[d] = "park"
  <2>1. parked' = parked \cup {i}
        BY <1>2 DEF FailRow, FailAction
  <2>2. \A j \in Ids : Status(j)' = IF j = i THEN "parked" ELSE Status(j)
        BY <1>1, <2>1 DEF Status
  <2> QED BY <1>1, <1>2, <2>2 DEF Promise!Park, Status
<1>3. CASE ~(i \in queued \ parked /\ pc[d] = "park")
  <2>1. parked' = parked
        BY <1>3 DEF FailRow, FailAction
  <2> QED BY <1>1, <2>1 DEF Status
<1> QED BY <1>2, <1>3

(* The end of a pass is Forget of the promise, of the aged receipts.       *)
LEMMA FinishRefines ==
    ASSUME QueueInv, NEW d \in Drains, Finish(d)
    PROVE  Promise!Forget(aged) /\ aged \in SUBSET Ids
<1>1. /\ nextId' = nextId /\ queued' = queued /\ parked' = parked
      /\ receipts' = receipts \ aged /\ effects' = effects
      BY DEF Finish, rows, history
<1>2. \A j \in aged : j \in Ids /\ j \in receipts /\ j \notin queued /\ j \notin parked
                       /\ j < nextId
      BY DEF QueueInv, RowsWell
<1>3. \A j \in Ids : Status(j)' = IF j \in aged THEN "unknown" ELSE Status(j)
      BY <1>1, <1>2 DEF Status
<1> QED BY <1>1, <1>2, <1>3 DEF Promise!Forget, Status

(* drop_action is Withdraw of the promise.                                 *)
LEMMA DropRefines ==
    ASSUME QueueInv, NEW i \in Ids, DropAction(i)
    PROVE  Promise!Withdraw(i)
<1>1. /\ i \in queued /\ nextId' = nextId
      /\ queued' = queued \ {i} /\ parked' = parked \ {i}
      /\ receipts' = receipts /\ effects' = effects
      BY DEF DropAction, Removed, answers
<1>2. i \notin receipts /\ i < nextId
      BY <1>1, QueuedOnly DEF QueueInv, RowsWell
<1>3. \A j \in Ids : Status(j)' = IF j = i THEN "unknown" ELSE Status(j)
      BY <1>1, <1>2 DEF Status
<1> QED BY <1>1, <1>3 DEF Promise!Withdraw, Promise!Kept, Status

(* acknowledge is Acknowledge of the promise.                              *)
LEMMA AcknowledgeRefines ==
    ASSUME QueueInv, NEW i \in Ids, AcknowledgeAction(i)
    PROVE  Promise!Acknowledge(i)
<1>1. /\ i \in queued /\ nextId' = nextId
      /\ queued' = queued \ {i} /\ parked' = parked \ {i}
      /\ receipts' = receipts \cup {i} /\ effects' = effects
      BY DEF AcknowledgeAction, Removed, Receipted
<1>2. \A j \in Ids : Status(j)' = IF j = i THEN "applied" ELSE Status(j)
      BY <1>1 DEF Status
<1> QED BY <1>1, <1>2 DEF Promise!Acknowledge, Promise!Kept, Status

(* replace_action is Replace of the promise.                               *)
LEMMA ReplaceRefines ==
    ASSUME QueueInv, NEW i \in Ids, NEW a \in Changes, ReplaceAction(i, a)
    PROVE  Promise!Replace(i, nextId) /\ nextId \in Ids
<1>1. /\ i \in queued /\ nextId \in Ids /\ nextId' = nextId + 1
      /\ queued' = (queued \cup {nextId}) \ {i} /\ parked' = parked \ {i}
      /\ receipts' = receipts \cup {i} /\ effects' = effects
      BY DEF ReplaceAction, Inserted, Receipted
<1>2. ~(nextId < nextId) /\ i # nextId /\ nextId \notin parked /\ nextId \notin receipts
      BY <1>1, QueuedOnly DEF QueueInv, RowsWell
<1>3. \A j \in Ids : ~(j < nextId) => nextId <= j
      BY <1>1, RowsAssumption DEF Ids
<1>4. Promise!First(nextId)
      BY <1>3, UnaskedIds DEF Promise!First
<1>5. \A j \in Ids : Status(j)' = IF j = nextId THEN "pending"
                                  ELSE IF j = i THEN "applied" ELSE Status(j)
  <2> SUFFICES ASSUME NEW j \in Ids
               PROVE  Status(j)' = IF j = nextId THEN "pending"
                                   ELSE IF j = i THEN "applied" ELSE Status(j)
      OBVIOUS
  <2>1. j # nextId => (j < nextId + 1 <=> j < nextId)
        BY <1>1, RowsAssumption DEF Ids
  <2> QED BY <1>1, <1>2, <2>1 DEF Status
<1> QED BY <1>1, <1>2, <1>4, <1>5, UnaskedIds DEF Promise!Replace, Promise!Kept, Status

(* The first states of the queue are first states of the promise.          *)
LEMMA InitRefines == Init => Promise!Init
BY DEF Init, Promise!Init, Status, Ids

(* Each step of the queue is one of the promise, or a stutter.             *)
LEMMA StepRefines ==
    QueueInv /\ [Next]_vars => [Promise!Next]_<<[i \in Ids |-> Status(i)], effects>>
<1> SUFFICES ASSUME QueueInv, [Next]_vars
             PROVE  [Promise!Next]_<<[i \in Ids |-> Status(i)], effects>>
    OBVIOUS
<1>1. CASE UNCHANGED vars
      BY <1>1 DEF vars, rows, answers, history, Status
<1>2. CASE Quiet
      BY <1>2, QuietSteps DEF history, Status
<1>3. CASE \E a \in Requests : Append(a)
      BY <1>3, AppendRefines DEF Promise!Next
<1>4. CASE \E a \in Malformed : AppendMalformed(a)
      BY <1>4, AppendRefines DEF Promise!Next
<1>5. CASE \E d \in Drains : Finish(d)
      BY <1>5, FinishRefines DEF Promise!Next
<1>6. CASE \E d \in Drains, i \in Ids : ApplyQueued(d, i)
      BY <1>6, ApplyRefines DEF Promise!Next
<1>7. CASE \E d \in Drains, i \in Ids : FailRow(d, i)
      BY <1>7, FailRefines DEF Promise!Next
<1>8. CASE \E i \in Ids : DropAction(i) \/ AcknowledgeAction(i)
      BY <1>8, DropRefines, AcknowledgeRefines DEF Promise!Next
<1>9. CASE \E i \in Ids, a \in Changes : ReplaceAction(i, a)
      BY <1>9, ReplaceRefines DEF Promise!Next
<1>10. CASE \E i \in Ids : Age(i)
      BY <1>10 DEF Age, rows, history, Status
<1> QED BY <1>1, <1>2, <1>3, <1>4, <1>5, <1>6, <1>7, <1>8, <1>9, <1>10
        DEF Next, Pass, Quiet, QuietPass

(* The queue keeps the promise action_status makes a producer: what it     *)
(* answers of an id never goes back, and it answers `Applied` in the step  *)
(* the store took the action, once.                                        *)
THEOREM Implements == Spec => StatusPromise
BY Inductive, InitRefines, StepRefines, PTL DEF Spec, StatusPromise, Promise!Spec

-----------------------------------------------------------------------------
(* The type invariant, of every variable at once.                          *)

(* The first states are of the type.                                       *)
LEMMA InitType == Init => TypeOK
BY RowsAssumption, StopsAssumption, ItemsAssumption DEF Init, TypeOK, Ids

(* The action of a row, once appended, is of the sets producers, other     *)
(* programs and performers append from, and no append rewrites it.         *)
Asked == Requests \cup Malformed \cup Changes
RowsAsked == \A i \in Ids : i < nextId => asked[i] \in Asked

TypeInv == TypeOK /\ RowsAsked

(* A queued id names the action it was appended with.                      *)
LEMMA QueuedAsked ==
    ASSUME TypeInv, QueueInv, NEW i \in queued
    PROVE  /\ i \in Ids /\ asked[i] \in Asked
           /\ asked[i].at \in Places /\ asked[i].body \in Objects
           /\ asked[i].flags \in Flags
           /\ asked[i].supersedes \in Places \cup {NoPlace}
<1>1. i \in Ids /\ asked[i] \in Asked
      BY QueuedOnly DEF TypeInv, RowsAsked, QueueInv, RowsWell
<1> QED BY <1>1, ActionsAssumption DEF Asked

(* What an append and a replacement write of the row.                      *)
LEMMA InsertType ==
    ASSUME TypeInv, NEW a \in Asked, Inserted(a)
    PROVE  /\ asked' \in [Ids -> Asked \cup {NoAction}]
           /\ nextId' \in 1..(MaxRows + 1)
           /\ RowsAsked'
<1>1. /\ nextId \in Ids /\ nextId' = nextId + 1
      /\ asked' = [asked EXCEPT ![nextId] = a]
      /\ asked \in [Ids -> Asked \cup {NoAction}]
      BY DEF Inserted, TypeInv, TypeOK, Asked
<1>2. \A i \in Ids : i < nextId + 1 /\ i # nextId => i < nextId
      BY <1>1, RowsAssumption DEF Ids
<1> QED BY <1>1, <1>2, RowsAssumption DEF TypeInv, RowsAsked, Ids

(* A pin added or released leaves the counts of the type.                  *)
LEMMA PinsType ==
    ASSUME pins \in [Bodies -> Int], NEW body, NEW i, NEW a
    PROVE  /\ Pin(body) \in [Bodies -> Int]
           /\ Release(body) \in [Bodies -> Int]
           /\ Repinned(i, a) \in [Bodies -> Int]
BY DEF Pin, Release, Repinned

(* append keeps the types.                                                 *)
LEMMA AppendType ==
    ASSUME TypeInv, NEW a \in Asked, Append(a) \/ AppendMalformed(a)
    PROVE  TypeInv'
<1>1. Inserted(a) /\ pins' = Pin(a.body) /\ queued' = queued \cup {nextId}
      BY DEF Append, AppendMalformed
<1>2. UNCHANGED <<store, parked, attempts, answers, passes, bounds, history>>
      BY DEF Append, AppendMalformed
<1>3. pins' \in [Bodies -> Int]
      BY <1>1, PinsType DEF TypeInv, TypeOK
<1>4. nextId \in Ids
      BY <1>1 DEF Inserted
<1> QED BY <1>1, <1>2, <1>3, <1>4, InsertType
        DEF TypeInv, TypeOK, Asked, store, answers, passes, bounds, history

(* The start of a pass and its claims keep the types.                      *)
LEMMA PassType ==
    ASSUME TypeInv, NEW d \in Drains, QuietPass(d) \/ Stop(d)
    PROVE  TypeInv'
<1>1. UNCHANGED <<items, denied, asked, queued, parked, attempts, nextId, receipts, aged,
                  pins, effects, withdrawn, performed>>
      BY DEF QuietPass, Begin, SkipRow, RefuseRow, LostClaim, ParkRow, RetryRow, Stop,
             store, rows, answers, history
<1>2. pc' \in [Drains -> {"idle", "pass", "park", "bump"}]
      BY DEF TypeInv, TypeOK, QuietPass, Begin, SkipRow, RefuseRow, LostClaim, ParkRow,
             RetryRow, Stop
<1>3. todo' \in [Drains -> SUBSET Ids]
      BY DEF TypeInv, TypeOK, QuietPass, Begin, SkipRow, RefuseRow, LostClaim, ParkRow,
             RetryRow, Stop, Pending, Settle
<1>4. snap' \in [Drains -> [Ids -> Nat]]
  <2>1. CASE Begin(d)
        BY <2>1 DEF TypeInv, TypeOK, Begin
  <2>2. CASE Stop(d)
        BY <2>2 DEF TypeInv, TypeOK, Stop, Forget
  <2>3. CASE ~Begin(d) /\ ~Stop(d)
        BY <2>3 DEF TypeInv, TypeOK, QuietPass, SkipRow, RefuseRow, LostClaim, ParkRow,
                    RetryRow
  <2> QED BY <2>1, <2>2, <2>3
<1>5. stops' \in 0..MaxStops /\ syncs' \in 0..MaxSyncs
      BY StopsAssumption
      DEF TypeInv, TypeOK, QuietPass, Begin, SkipRow, RefuseRow, LostClaim, ParkRow,
          RetryRow, Stop, bounds
<1> QED BY <1>1, <1>2, <1>3, <1>4, <1>5 DEF TypeInv, TypeOK, RowsAsked, Ids, Asked

(* A committed action keeps the types.                                     *)
LEMMA ApplyType ==
    ASSUME TypeInv, QueueInv, NEW d \in Drains, NEW i \in Ids, ApplyQueued(d, i)
    PROVE  TypeInv' /\ \A q \in Places : OnServer(items[q]) => OnServer(items'[q])
<1>1. /\ i \in queued /\ Commits(asked[i])
      /\ queued' = queued \ {i} /\ parked' = parked \ {i}
      /\ attempts' = [attempts EXCEPT ![i] = 0]
      /\ receipts' = receipts \cup {i}
      /\ pins' = Release(asked[i].body)
      /\ effects' = [effects EXCEPT ![i] = @ + 1]
      /\ todo' = [todo EXCEPT ![d] = @ \ {i}]
      /\ UNCHANGED <<denied, asked, nextId, aged, pc, snap, stops, syncs, withdrawn,
                     performed>>
      BY DEF ApplyQueued, Claims, Removed, Receipted, Settle, bounds
<1>2. /\ items' \in Held
      /\ \A q \in Places : OnServer(items[q]) => OnServer(items'[q])
  <2>1. items \in Held
        BY DEF TypeInv, TypeOK, Held
  <2>2. CASE Performs(asked[i])
        BY <2>1, <2>2 DEF ApplyQueued
  <2>3. CASE ~Performs(asked[i])
    <3>1. items' = Applied(items, asked[i]) /\ Takes(items, asked[i])
          BY <1>1, <2>3 DEF ApplyQueued, Commits
    <3> QED BY <1>1, <2>1, <3>1, QueuedAsked, AppliedItems
  <2> QED BY <2>2, <2>3
<1>3. pins' \in [Bodies -> Int]
      BY <1>1, PinsType DEF TypeInv, TypeOK
<1>4. /\ attempts' \in [Ids -> Nat] /\ effects' \in [Ids -> Nat]
      /\ todo' \in [Drains -> SUBSET Ids]
      BY <1>1 DEF TypeInv, TypeOK
<1>5. /\ queued' \subseteq Ids /\ parked' \subseteq queued'
      /\ receipts' \subseteq Ids /\ aged' \subseteq receipts'
      BY <1>1 DEF TypeInv, TypeOK
<1> QED BY <1>1, <1>2, <1>3, <1>4, <1>5 DEF TypeInv, TypeOK, RowsAsked, Ids, Asked, Held

(* A failed attempt keeps the types.                                       *)
LEMMA FailType ==
    ASSUME TypeInv, NEW d \in Drains, NEW i \in Ids, FailRow(d, i)
    PROVE  TypeInv'
<1>1. attempts' \in [Ids -> Nat] /\ parked' \subseteq queued
  <2>1. CASE i \in queued
    <3>1. attempts \in [Ids -> Nat] /\ parked \subseteq queued
          BY DEF TypeInv, TypeOK
    <3>2. attempts' = [attempts EXCEPT ![i] = @ + 1] /\ parked' \subseteq parked \cup {i}
          BY <2>1 DEF FailRow, FailAction
    <3> QED BY <2>1, <3>1, <3>2
  <2>2. CASE i \notin queued
        BY <2>2 DEF TypeInv, TypeOK, FailRow, FailAction
  <2> QED BY <2>1, <2>2
<1> QED BY <1>1 DEF TypeInv, TypeOK, RowsAsked, Ids, Asked, FailRow, Settle, store,
                    answers, bounds, history

(* The end of a pass keeps the types.                                      *)
LEMMA FinishType ==
    ASSUME TypeInv, NEW d \in Drains, Finish(d)
    PROVE  TypeInv'
BY DEF TypeInv, TypeOK, RowsAsked, Ids, Asked, Finish, Forget, store, rows, bounds,
       history

(* drop_action and acknowledge keep the types.                             *)
LEMMA RequestType ==
    ASSUME TypeInv, NEW i \in Ids, DropAction(i) \/ AcknowledgeAction(i)
    PROVE  TypeInv'
<1>1. pins' \in [Bodies -> Int]
      BY PinsType DEF TypeInv, TypeOK, DropAction, AcknowledgeAction
<1>2. CASE DropAction(i)
      BY <1>1, <1>2 DEF TypeInv, TypeOK, RowsAsked, Ids, Asked, DropAction, Removed, store,
                        answers, passes, bounds
<1>3. CASE AcknowledgeAction(i)
      BY <1>1, <1>3 DEF TypeInv, TypeOK, RowsAsked, Ids, Asked, AcknowledgeAction, Removed,
                        Receipted, store, passes, bounds
<1> QED BY <1>2, <1>3

(* replace_action keeps the types.                                         *)
LEMMA ReplaceType ==
    ASSUME TypeInv, NEW i \in Ids, NEW a \in Changes, ReplaceAction(i, a)
    PROVE  TypeInv'
<1>1. pins' \in [Bodies -> Int]
      BY PinsType DEF TypeInv, TypeOK, ReplaceAction
<1>2. a \in Asked /\ Inserted(a) /\ nextId \in Ids
      BY DEF Asked, ReplaceAction, Inserted
<1>3. /\ asked' \in [Ids -> Asked \cup {NoAction}] /\ nextId' \in 1..(MaxRows + 1)
      /\ RowsAsked'
      BY <1>2, InsertType
<1> QED BY <1>1, <1>2, <1>3
        DEF TypeInv, TypeOK, Asked, ReplaceAction, Receipted, store, passes, bounds

(* A stop, a purge of receipts and a sync keep the types.                  *)
LEMMA MeanwhileType ==
    ASSUME TypeInv,
           \/ \E i \in Ids : Age(i)
           \/ \E kinds \in SUBSET Deniable : Declare(kinds)
           \/ \E p \in SyncPlaces : SyncWrite(p)
    PROVE  TypeInv'
<1>1. CASE \E p \in SyncPlaces : SyncWrite(p)
  <2>1. items' \in Held
        BY <1>1, SyncedItems, PlacesAssumption DEF TypeInv, TypeOK, Held, SyncWrite
  <2>2. stops' \in 0..MaxStops /\ syncs' \in 0..MaxSyncs
        BY <1>1, StopsAssumption DEF TypeInv, TypeOK, SyncWrite
  <2> QED BY <1>1, <2>1, <2>2 DEF TypeInv, TypeOK, RowsAsked, Ids, Asked, Held, SyncWrite,
                                  rows, answers, passes, history
<1>2. CASE \E i \in Ids : Age(i)
      BY <1>2 DEF TypeInv, TypeOK, RowsAsked, Ids, Asked, Age, store, rows, passes,
                  bounds, history
<1>3. CASE \E kinds \in SUBSET Deniable : Declare(kinds)
      BY <1>3 DEF TypeInv, TypeOK, RowsAsked, Ids, Asked, Declare, rows, answers, passes,
                  bounds, history
<1> QED BY <1>1, <1>2, <1>3

(* Each step keeps the types.                                              *)
LEMMA TypeStep == QueueInv /\ TypeInv /\ [Next]_vars => TypeInv'
<1> SUFFICES ASSUME QueueInv, TypeInv, [Next]_vars
             PROVE  TypeInv'
    OBVIOUS
<1>1. CASE UNCHANGED vars
      BY <1>1 DEF vars, TypeInv, TypeOK, RowsAsked, Ids, Asked, store, rows, answers,
                  passes, bounds, history
<1>2. CASE \E a \in Requests : Append(a)
      BY <1>2, AppendType DEF Asked
<1>3. CASE \E a \in Malformed : AppendMalformed(a)
      BY <1>3, AppendType DEF Asked
<1>4. CASE \E d \in Drains : QuietPass(d) \/ Stop(d)
      BY <1>4, PassType
<1>5. CASE \E d \in Drains : Finish(d)
      BY <1>5, FinishType
<1>6. CASE \E d \in Drains, i \in Ids : ApplyQueued(d, i)
      BY <1>6, ApplyType
<1>7. CASE \E d \in Drains, i \in Ids : FailRow(d, i)
      BY <1>7, FailType
<1>8. CASE \E i \in Ids : DropAction(i) \/ AcknowledgeAction(i)
      BY <1>8, RequestType
<1>9. CASE \E i \in Ids, a \in Changes : ReplaceAction(i, a)
      BY <1>9, ReplaceType
<1>10. CASE \/ \E i \in Ids : Age(i)
            \/ \E kinds \in SUBSET Deniable : Declare(kinds)
            \/ \E p \in SyncPlaces : SyncWrite(p)
      BY <1>10, MeanwhileType
<1> QED BY <1>1, <1>2, <1>3, <1>4, <1>5, <1>6, <1>7, <1>8, <1>9, <1>10
        DEF Next, Pass, QuietPass

(* The first states satisfy the invariant of the types.                    *)
LEMMA InitTypeInv == Init => TypeInv
BY InitType DEF TypeInv, RowsAsked, Init, Ids

(* The types hold of every behaviour.                                      *)
LEMMA TypesInductive == Spec => []TypeInv
BY InitTypeInv, TypeStep, Inductive, PTL DEF Spec

(* Every variable keeps its type; in particular what the staging of an     *)
(* action and a sync's write leave at each place is an item again or none. *)
THEOREM TypeCorrect == Spec => []TypeOK
<1>1. TypeInv => TypeOK
      BY DEF TypeInv
<1> QED BY <1>1, TypesInductive, PTL

-----------------------------------------------------------------------------
(* What the server still holds.                                            *)

(* No step drops the base under a delete the server is owed.               *)
LEMMA DeletesStep ==
    ASSUME QueueInv, TypeInv, [Next]_vars, syncs' = syncs
    PROVE  \A q \in Places : OnServer(items[q]) => OnServer(items'[q])
<1>1. CASE \E d \in Drains, i \in Ids : ApplyQueued(d, i)
      BY <1>1, ApplyType
<1>2. CASE \E p \in SyncPlaces : SyncWrite(p)
      BY <1>2 DEF SyncWrite, TypeInv, TypeOK
<1>3. CASE ~(\E d \in Drains, i \in Ids : ApplyQueued(d, i))
           /\ ~(\E p \in SyncPlaces : SyncWrite(p))
  <2>1. items' = items
        BY <1>3 DEF vars, store, Next, Pass, Append, AppendMalformed, Begin, Finish, SkipRow,
                    RefuseRow, LostClaim, ParkRow, RetryRow, FailRow, Stop, DropAction, Age,
                    AcknowledgeAction, ReplaceAction, Declare
  <2> QED BY <2>1
<1> QED BY <1>1, <1>2, <1>3

(* The drain never forgets what a server holds: an item bound under the    *)
(* server's handle stays bound or becomes the tombstone whose delete is to *)
(* push, whatever actions land over it, until a sync's own write retires   *)
(* it (release_bindings).                                                  *)
THEOREM DeletesOwed == Spec => ServerDeletesKept
<1>1. QueueInv /\ TypeInv /\ [Next]_vars
        => [syncs' = syncs => \A p \in Places : OnServer(items[p]) => OnServer(items'[p])]_vars
      BY DeletesStep
<1> QED BY <1>1, Inductive, TypesInductive, PTL DEF Spec, ServerDeletesKept

-----------------------------------------------------------------------------
(* The references the queue counts.                                        *)

Naming(ids, told, b) == {i \in ids : told[i].body = b}

(* The rows a count is taken over are finitely many.                       *)
LEMMA RowsFinite ==
    ASSUME TypeInv, NEW b
    PROVE  IsFiniteSet(Naming(queued, asked, b))
<1>1. IsFiniteSet(Ids)
      BY FS_Interval, RowsAssumption DEF Ids
<1>2. Naming(queued, asked, b) \in SUBSET Ids
      BY DEF Naming, TypeInv, TypeOK
<1> QED BY <1>1, <1>2, FS_Subset

(* A row appended, under an id no row had.                                 *)
LEMMA PinAdds ==
    ASSUME QueueInv, TypeInv, PinsCount, NEW a, Inserted(a), NEW b \in Bodies
    PROVE  /\ Naming(queued \cup {nextId}, asked', b)
                = IF a.body = b THEN Naming(queued, asked, b) \cup {nextId}
                  ELSE Naming(queued, asked, b)
           /\ Pin(a.body)[b] = Cardinality(Naming(queued \cup {nextId}, asked', b))
<1>1. /\ nextId \in Ids /\ nextId \notin queued
      /\ asked' = [asked EXCEPT ![nextId] = a]
      BY QueuedOnly DEF Inserted, QueueInv, RowsWell
<1>2. \A i \in Ids : asked'[i] = IF i = nextId THEN a ELSE asked[i]
      BY <1>1 DEF TypeInv, TypeOK
<1>3. queued \subseteq Ids
      BY DEF TypeInv, TypeOK
<1>4. Naming(queued \cup {nextId}, asked', b)
        = IF a.body = b THEN Naming(queued, asked, b) \cup {nextId}
          ELSE Naming(queued, asked, b)
      BY <1>1, <1>2, <1>3 DEF Naming
<1>5. nextId \notin Naming(queued, asked, b)
      BY <1>1 DEF Naming
<1>6. pins[b] = Cardinality(Naming(queued, asked, b))
      BY DEF PinsCount, Naming
<1>7. Cardinality(Naming(queued, asked, b) \cup {nextId})
        = Cardinality(Naming(queued, asked, b)) + 1
      BY <1>5, RowsFinite, FS_AddElement
<1> QED BY <1>4, <1>6, <1>7 DEF Pin

(* A row removed.                                                          *)
LEMMA ReleaseRemoves ==
    ASSUME QueueInv, TypeInv, PinsCount, NEW i \in queued, NEW b \in Bodies
    PROVE  Release(asked[i].body)[b] = Cardinality(Naming(queued \ {i}, asked, b))
<1>1. pins[b] = Cardinality(Naming(queued, asked, b))
      BY DEF PinsCount, Naming
<1>2. Naming(queued \ {i}, asked, b) = Naming(queued, asked, b) \ {i}
      BY DEF Naming
<1>3. i \in Naming(queued, asked, b) <=> asked[i].body = b
      BY DEF Naming
<1>4. Cardinality(Naming(queued, asked, b) \ {i})
        = IF asked[i].body = b THEN pins[b] - 1 ELSE pins[b]
      BY <1>1, <1>3, RowsFinite, FS_RemoveElement
<1> QED BY <1>2, <1>4 DEF Release

(* One row appended and another removed.                                   *)
LEMMA ReplaceMoves ==
    ASSUME QueueInv, TypeInv, PinsCount, NEW i \in queued, NEW a, Inserted(a),
           NEW b \in Bodies
    PROVE  Repinned(i, a)[b]
             = Cardinality(Naming((queued \cup {nextId}) \ {i}, asked', b))
<1> DEFINE S == Naming(queued \cup {nextId}, asked', b)
<1>1. /\ nextId \in Ids /\ i # nextId /\ i \in Ids
      /\ asked' = [asked EXCEPT ![nextId] = a]
      BY QueuedOnly DEF Inserted, QueueInv, RowsWell
<1>2. asked'[i] = asked[i]
      BY <1>1 DEF TypeInv, TypeOK
<1>3. Pin(a.body)[b] = Cardinality(S)
      BY PinAdds
<1>4. IsFiniteSet(S)
  <2>1. IsFiniteSet(Naming(queued, asked, b))
        BY RowsFinite
  <2>2. IsFiniteSet(Naming(queued, asked, b) \cup {nextId})
        BY <2>1, FS_AddElement
  <2> QED BY <2>1, <2>2, PinAdds
<1>5. i \in S <=> asked[i].body = b
      BY <1>2 DEF Naming
<1>6. Naming((queued \cup {nextId}) \ {i}, asked', b) = S \ {i}
      BY DEF Naming
<1>7. Cardinality(S \ {i})
        = IF asked[i].body = b THEN Pin(a.body)[b] - 1 ELSE Pin(a.body)[b]
  <2> HIDE DEF S
  <2> QED BY <1>3, <1>4, <1>5, FS_RemoveElement
<1> QED BY <1>6, <1>7 DEF Repinned

(* Each step keeps the pins equal to the rows that hold the body.          *)
LEMMA PinsStep == QueueInv /\ TypeInv /\ PinsCount /\ [Next]_vars => PinsCount'
<1> SUFFICES ASSUME QueueInv, TypeInv, PinsCount, [Next]_vars
             PROVE  PinsCount'
    OBVIOUS
<1> SUFFICES ASSUME NEW b \in Bodies
             PROVE  pins'[b] = Cardinality(Naming(queued', asked', b))
    BY DEF PinsCount, Naming
<1>1. CASE \E a \in Requests : Append(a)
      BY <1>1, PinAdds DEF Append
<1>2. CASE \E a \in Malformed : AppendMalformed(a)
      BY <1>2, PinAdds DEF AppendMalformed
<1>3. CASE \E d \in Drains, i \in Ids : ApplyQueued(d, i)
      BY <1>3, ReleaseRemoves DEF ApplyQueued, Claims, Removed
<1>4. CASE \E i \in Ids : DropAction(i) \/ AcknowledgeAction(i)
      BY <1>4, ReleaseRemoves DEF DropAction, AcknowledgeAction, Removed
<1>5. CASE \E i \in Ids, a \in Changes : ReplaceAction(i, a)
      BY <1>5, ReplaceMoves DEF ReplaceAction
<1>6. CASE UNCHANGED <<pins, queued, asked>>
      BY <1>6 DEF PinsCount, Naming
<1>7. CASE \E d \in Drains : Finish(d) \/ \E i \in Ids : FailRow(d, i)
      BY <1>6, <1>7 DEF Finish, FailRow, rows
<1>8. CASE Quiet
      BY <1>6, <1>8 DEF Quiet, QuietPass, Begin, SkipRow, RefuseRow, LostClaim, ParkRow,
                        RetryRow, Stop, Declare, SyncWrite, rows
<1>9. CASE UNCHANGED vars \/ \E i \in Ids : Age(i)
      BY <1>6, <1>9 DEF vars, rows, Age
<1> QED BY <1>1, <1>2, <1>3, <1>4, <1>5, <1>7, <1>8, <1>9
        DEF Next, Pass, Quiet, QuietPass

(* An empty queue pins nothing.                                            *)
LEMMA InitPins == Init => PinsCount
<1> SUFFICES ASSUME Init, NEW b \in Bodies
             PROVE  pins[b] = Cardinality({i \in queued : asked[i].body = b})
    BY DEF PinsCount
<1>1. {i \in queued : asked[i].body = b} = {}
      BY DEF Init
<1> QED BY <1>1, FS_EmptySet DEF Init

(* The references of a body the queue holds are exactly the rows that name *)
(* it, whichever of the claim, the requests and the replacement took the   *)
(* others: no body a row still needs is let go, and none is kept for a row *)
(* that is gone.                                                           *)
THEOREM PinsExact == Spec => []PinsCount
BY InitPins, PinsStep, Inductive, TypesInductive, PTL DEF Spec

-----------------------------------------------------------------------------
(* The append order.                                                       *)

(* A pass is past a row only for one of three reasons: the row is no       *)
(* longer pending, it was tried and its attempts bumped, or no drain may   *)
(* apply it.                                                               *)
PastOnlyTried(d) ==
    \A j \in todo[d] :
       /\ j < nextId
       /\ \A i \in Ids : i < j /\ i \in Pending /\ i \notin todo[d]
                            => attempts[i] > 0 \/ ~Drained(asked[i])
Tried == \A d \in Drains : PastOnlyTried(d)

(* Whatever a step does elsewhere, a pass whose list it leaves alone or    *)
(* shortens by a row it settled keeps this.                                *)
LEMMA StillTried ==
    ASSUME TypeInv, Tried, NEW d \in Drains, nextId' >= nextId, nextId' \in Int,
           todo'[d] \subseteq todo[d],
           \A i \in Ids : i < nextId /\ i \in Pending' =>
              /\ i \in Pending /\ asked'[i] = asked[i]
              /\ attempts[i] > 0 => attempts'[i] > 0,
           \A i \in todo[d] \ todo'[d] : i \in Pending'
              => attempts'[i] > 0 \/ ~Drained(asked'[i])
    PROVE  PastOnlyTried(d)'
<1>1. /\ nextId \in Int /\ todo[d] \subseteq Ids
      /\ \A i \in Ids : i \in Int
      BY RowsAssumption DEF TypeInv, TypeOK, Ids
<1> SUFFICES ASSUME NEW j \in todo'[d]
             PROVE  /\ j < nextId'
                    /\ \A i \in Ids : i < j /\ i \in Pending' /\ i \notin todo'[d]
                                         => attempts'[i] > 0 \/ ~Drained(asked'[i])
    BY DEF PastOnlyTried, Ids
<1>2. j \in todo[d] /\ j < nextId
      BY DEF Tried, PastOnlyTried
<1>3. ASSUME NEW i \in Ids, i < j, i \in Pending', i \notin todo'[d]
      PROVE  attempts'[i] > 0 \/ ~Drained(asked'[i])
  <2>1. i < nextId
        BY <1>1, <1>2, <1>3
  <2>2. CASE i \in todo[d]
        BY <1>3, <2>2
  <2>3. CASE i \notin todo[d]
        BY <1>2, <1>3, <2>1, <2>3 DEF Tried, PastOnlyTried
  <2> QED BY <2>2, <2>3
<1> QED BY <1>1, <1>2, <1>3

(* A row is passed over only after an attempt at it failed.                *)
LEMMA TriedStep == QueueInv /\ TypeInv /\ Tried /\ [Next]_vars => Tried'
<1> SUFFICES ASSUME QueueInv, TypeInv, Tried, [Next]_vars, NEW e \in Drains
             PROVE  PastOnlyTried(e)'
    BY DEF Tried
<1>1. /\ nextId \in Int /\ nextId >= nextId
      /\ \A i \in Ids : i \in Int /\ attempts[i] \in Nat
      BY RowsAssumption DEF TypeInv, TypeOK, Ids
<1>2. CASE /\ UNCHANGED <<queued, parked, attempts, asked, nextId>>
           /\ todo'[e] \subseteq todo[e]
           /\ \A i \in todo[e] \ todo'[e] : i \in queued => ~Drained(asked[i])
      BY <1>1, <1>2, StillTried DEF Pending
<1>3. ASSUME NEW a, Inserted(a), queued' \subseteq queued \cup {nextId},
             UNCHANGED todo,
             parked' = parked \/ (\E i \in Ids : parked' = parked \ {i} /\ i \notin queued'),
             \A i \in queued' : attempts'[i] = attempts[i]
      PROVE  PastOnlyTried(e)'
  <2>1. /\ nextId' = nextId + 1 /\ asked' = [asked EXCEPT ![nextId] = a]
        BY <1>3 DEF Inserted
  <2>2. \A i \in Ids : i < nextId => asked'[i] = asked[i] /\ i # nextId
        BY <1>1, <2>1 DEF TypeInv, TypeOK
  <2>3. \A i \in Ids : i < nextId /\ i \in Pending' =>
              /\ i \in Pending /\ asked'[i] = asked[i]
              /\ attempts[i] > 0 => attempts'[i] > 0
        BY <1>3, <2>2 DEF Pending
  <2> QED BY <1>1, <1>3, <2>1, <2>3, StillTried
<1>4. ASSUME NEW i \in Ids, Removed(i), UNCHANGED <<asked, nextId>>,
             todo'[e] \subseteq todo[e], todo[e] \ todo'[e] \subseteq {i}
      PROVE  PastOnlyTried(e)'
  <2>1. /\ Pending' \subseteq Pending /\ i \notin Pending'
        /\ \A j \in Ids : j # i => attempts'[j] = attempts[j]
        BY <1>4 DEF Removed, Pending, TypeInv, TypeOK
  <2> QED BY <1>1, <1>4, <2>1, StillTried
<1>5. CASE \E a \in Requests : Append(a)
      BY <1>3, <1>5 DEF Append, passes
<1>6. CASE \E a \in Malformed : AppendMalformed(a)
      BY <1>3, <1>6 DEF AppendMalformed, passes
<1>7. CASE \E i \in Ids, a \in Changes : ReplaceAction(i, a)
  <2>1. PICK i \in Ids, a \in Changes : ReplaceAction(i, a)
        BY <1>7
  <2>2. /\ Inserted(a) /\ UNCHANGED todo
        /\ queued' = (queued \cup {nextId}) \ {i} /\ parked' = parked \ {i}
        /\ attempts' = [attempts EXCEPT ![i] = 0]
        BY <2>1 DEF ReplaceAction, passes
  <2>3. \A j \in queued' : attempts'[j] = attempts[j]
        BY <2>2 DEF TypeInv, TypeOK, Inserted
  <2> QED BY <1>3, <2>2, <2>3
<1>8. CASE \E d \in Drains, i \in Ids : ApplyQueued(d, i)
  <2>1. PICK d \in Drains, i \in Ids : ApplyQueued(d, i)
        BY <1>8
  <2>2. /\ Removed(i) /\ UNCHANGED <<asked, nextId>>
        /\ todo'[e] = IF e = d THEN todo[e] \ {i} ELSE todo[e]
        BY <2>1 DEF ApplyQueued, Settle, TypeInv, TypeOK
  <2> QED BY <1>4, <2>2
<1>9. CASE \E i \in Ids : DropAction(i) \/ AcknowledgeAction(i)
      BY <1>4, <1>9 DEF DropAction, AcknowledgeAction, passes
<1>10. CASE \E d \in Drains, i \in Ids : FailRow(d, i)
  <2>1. PICK d \in Drains, i \in Ids : FailRow(d, i)
        BY <1>10
  <2>2. /\ UNCHANGED <<asked, queued, nextId>>
        /\ todo'[e] = IF e = d THEN todo[e] \ {i} ELSE todo[e]
        /\ parked \subseteq parked'
        /\ \A j \in Ids : attempts[j] > 0 => attempts'[j] > 0
        /\ i \in queued => attempts'[i] > 0
    <3>1. /\ UNCHANGED <<asked, queued, nextId>>
          /\ todo'[e] = IF e = d THEN todo[e] \ {i} ELSE todo[e]
          BY <2>1 DEF FailRow, Settle, TypeInv, TypeOK
    <3>2. attempts \in [Ids -> Nat]
          BY DEF TypeInv, TypeOK
    <3>3. CASE i \in queued
      <4>1. attempts' = [attempts EXCEPT ![i] = @ + 1] /\ parked \subseteq parked'
            BY <2>1, <3>3 DEF FailRow, FailAction
      <4> QED BY <3>1, <3>2, <4>1
    <3>4. CASE i \notin queued
      <4>1. UNCHANGED <<attempts, parked>>
            BY <2>1, <3>4 DEF FailRow, FailAction
      <4> QED BY <3>1, <3>4, <4>1
    <3> QED BY <3>3, <3>4
  <2> QED BY <1>1, <2>2, StillTried DEF Pending
<1>11. CASE \E d \in Drains : Begin(d)
  <2>1. PICK d \in Drains : Begin(d)
        BY <1>11
  <2>2. CASE e # d
        BY <1>2, <2>1, <2>2 DEF Begin, rows, TypeInv, TypeOK
  <2>3. CASE e = d
    <3>1. todo'[e] = Pending /\ UNCHANGED <<queued, parked, nextId>>
          BY <2>1, <2>3 DEF Begin, rows, TypeInv, TypeOK
    <3>2. \A j \in Pending : j < nextId
          BY QueuedOnly DEF Pending, TypeInv, TypeOK
    <3> QED BY <3>1, <3>2 DEF PastOnlyTried, Pending
  <2> QED BY <2>2, <2>3
<1>12. CASE \E d \in Drains, i \in Ids : SkipRow(d, i) \/ LostClaim(d, i)
  <2>1. PICK d \in Drains, i \in Ids : SkipRow(d, i) \/ LostClaim(d, i)
        BY <1>12
  <2>2. /\ UNCHANGED <<queued, parked, attempts, asked, nextId>>
        /\ todo'[e] = IF e = d THEN todo[e] \ {i} ELSE todo[e]
        /\ i \in queued => ~Drained(asked[i])
        BY <2>1 DEF SkipRow, LostClaim, Claims, Settle, Drained, rows, TypeInv, TypeOK
  <2> QED BY <1>2, <2>2
<1>13. CASE \E d \in Drains : Stop(d)
  <2>1. PICK d \in Drains : Stop(d)
        BY <1>13
  <2>2. todo'[e] = IF e = d THEN {} ELSE todo[e]
        BY <2>1 DEF Stop, TypeInv, TypeOK
  <2>3. CASE e = d
        BY <2>2, <2>3 DEF PastOnlyTried
  <2>4. CASE e # d
        BY <1>2, <2>1, <2>2, <2>4 DEF Stop, rows
  <2> QED BY <2>3, <2>4
<1>14. CASE UNCHANGED <<rows, todo>>
      BY <1>2, <1>14 DEF rows
<1>15. CASE \E d \in Drains :
              \/ Finish(d)
              \/ \E i \in Ids : RefuseRow(d, i) \/ ParkRow(d, i) \/ RetryRow(d, i)
      BY <1>14, <1>15 DEF Finish, RefuseRow, ParkRow, RetryRow
<1>16. CASE \/ UNCHANGED vars
            \/ \E i \in Ids : Age(i)
            \/ \E kinds \in SUBSET Deniable : Declare(kinds)
            \/ \E p \in SyncPlaces : SyncWrite(p)
      BY <1>14, <1>16 DEF vars, passes, Age, Declare, SyncWrite
<1> QED BY <1>5, <1>6, <1>7, <1>8, <1>9, <1>10, <1>11, <1>12, <1>13, <1>15, <1>16
        DEF Next, Pass

(* The first states have passed over no row.                               *)
LEMMA InitTried == Init => Tried
BY DEF Init, Tried, PastOnlyTried

(* What was passed over was tried, in every behaviour.                     *)
LEMMA TriedInductive == Spec => []Tried
BY InitTried, TriedStep, Inductive, TypesInductive, PTL DEF Spec

(* Rows are applied in append order: one is applied over an earlier one    *)
(* still pending only when that one was tried and failed by the            *)
(* environment, or is no drain's to apply, however many passes interleave  *)
(* and whenever each read its list.                                        *)
THEOREM AppendOrder == Spec => OvertakesOnlyTried
<1> DEFINE Order == \A i, j \in Ids :
                       effects'[j] # effects[j] /\ i < j /\ i \in Pending
                          => attempts[i] > 0 \/ ~Drained(asked[i])
<1>1. QueueInv /\ TypeInv /\ Tried /\ [Next]_vars => [Order]_vars
  <2> SUFFICES ASSUME TypeInv, Tried, Next, NEW i \in Ids, NEW j \in Ids,
                      effects'[j] # effects[j], i < j, i \in Pending
               PROVE  attempts[i] > 0 \/ ~Drained(asked[i])
      OBVIOUS
  <2>1. PICK d \in Drains, k \in Ids : ApplyQueued(d, k)
        BY DEF Next, Pass, history, Append, AppendMalformed, Begin, Finish, SkipRow,
               RefuseRow, LostClaim, ParkRow, RetryRow, FailRow, Stop, DropAction, Age,
               AcknowledgeAction, ReplaceAction, Declare, SyncWrite
  <2>2. k = j /\ j \in todo[d] /\ \A m \in todo[d] : j <= m
        BY <2>1 DEF ApplyQueued, Taking, At, TypeInv, TypeOK
  <2>3. i \notin todo[d]
        BY <2>2, RowsAssumption DEF Ids
  <2> QED BY <2>2, <2>3 DEF Tried, PastOnlyTried
<1> QED BY <1>1, Inductive, TypesInductive, TriedInductive, PTL DEF Spec, OvertakesOnlyTried
=============================================================================
