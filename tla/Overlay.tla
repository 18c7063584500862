------------------------------ MODULE Overlay ------------------------------
(***************************************************************************)
(* What a frontend reads while its actions wait: the overlay of the        *)
(* pending queue over the committed rows (src/src/client/reader.rs), the   *)
(* producer's append and the owner's drain behind the gate of the declared *)
(* capabilities (src/src/client/producer.rs, Gate.tla), a source declaring *)
(* again meanwhile, a sync's writes and a keyset scan paging through a     *)
(* collection between all of them.                                         *)
(*                                                                         *)
(* Queue.tla models the rows themselves: claims, parks, attempts,          *)
(* receipts.  Here a parked row has left the queue, as the overlay reads   *)
(* it, and an intent waits in place until its performer acknowledges it;   *)
(* of a row's attempts only whether one failed is kept.  A page is read in *)
(* statements of their own, the queue, the rows and each arrival, and the  *)
(* owner may write between any two.  A public id is a key: the reader's    *)
(* `seq` is one per key and store.                                         *)
(***************************************************************************)
EXTENDS Gate, SequencesExt

CONSTANTS
    Requests,     \* the actions producers append
    Declarations, \* source -> the sets of rows it may declare
    InitItems, InitRows, InitPerformer,
    SyncPlaces,   \* the places a sync writes meanwhile
    Scanned,      \* the collections a frontend scans
    Rank,         \* key -> its place in link-id order
    Limit,        \* the rows a page asks for
    MaxAppends,   \* how many actions are appended
    MaxChanges,   \* how often a sync writes or a source declares meanwhile
    NoScan

ASSUME LimitAssumption == Limit \in Nat \ {0}
ASSUME RankAssumption ==
    /\ Rank \in [Links \X (0..MaxMint) -> Nat \ {0}]
    /\ \A k, l \in Links \X (0..MaxMint) : Rank[k] = Rank[l] => k = l
ASSUME BudgetAssumption == {MaxAppends, MaxChanges} \subseteq Nat

ASSUME LinksAssumption == IsFiniteSet(Links)
ASSUME StoreAssumption ==
    /\ InitItems \in [Places -> Items \cup {NoItem}] /\ SyncPlaces \subseteq Places
    /\ Scanned \subseteq Collections
    /\ InitPerformer \in [DOMAIN InitPerformer -> Sources \cup {NoSource}]
ASSUME RequestsAssumption ==
    \A a \in Requests :
        CASE a.kind = "set-performer" ->
               a.cap \in DOMAIN InitPerformer /\ a.source \in Sources \cup {NoSource}
          [] a.kind \in {"add", "remove", "set-flags", "update", "copy", "move"} ->
               /\ a.at \in Places /\ a.body \in Objects /\ a.flags \in Flags
               /\ a.supersedes \in Places \cup {NoPlace}
          [] OTHER -> IsIntent(a)

(* What a reader is shown of an item, and a scan of it.                    *)
Shown == [object : Objects, flags : Flags]
Keys == Links \X (0..MaxMint)
Scans ==
    [in : Scanned, after : Nat, reading : {"none", "rows", "arrivals", "ended"},
     gone : SUBSET Keys, left : SUBSET (Keys \X Collections), page : SUBSET Keys]

ASSUME NoneAssumption == NoItem \notin Shown /\ NoScan \notin Scans

VARIABLES
    items,     \* place -> the item there
    queue,     \* the pending rows in append order
    tried,     \* row -> whether an attempt at it failed
    caps,      \* the declaration rows
    performer, \* capability -> the source recorded to perform it
    scan,      \* a frontend's scan of a collection: where its cursor is, and
               \* of the page being read the keys pending rows remove, the
               \* arrivals yet to read and the keys found
    kept,      \* history: the keys in the scanned view since it began, and
               \* on none of its pages
    spent      \* what is used of each bound

vars == <<items, queue, tried, caps, performer, scan, kept, spent>>

Capabilities == DOMAIN InitPerformer

Init ==
    /\ items = InitItems /\ queue = <<>> /\ tried = <<>>
    /\ caps = InitRows /\ performer = InitPerformer
    /\ scan = NoScan /\ kept = {}
    /\ spent = [append |-> 0, change |-> 0]

Spend(what, bound) == spent[what] < bound /\ spent' = [spent EXCEPT ![what] = @ + 1]

-----------------------------------------------------------------------------
(* PimdirReader::pending: a row restating or removing the item of key k in *)
(* c; a move away, and an add superseding it, read as its remove.          *)
Edits(a, c, k) ==
    \/ a.kind \in {"set-flags", "update", "remove"} /\ a.at = <<c, k>>
    \/ a.kind = "move" /\ a.at = <<c, k>> /\ a.to # c
    \/ a.kind = "add" /\ a.supersedes = <<c, k>>

Removing(a) == a.kind \in {"remove", "move", "add"}

(* The rows bringing key k into c from another collection; the last one    *)
(* takes the place of the others.                                          *)
Arrivals(q, c, k) ==
    {i \in DOMAIN q : /\ q[i].kind \in {"move", "copy"} /\ q[i].at[2] = k
                      /\ q[i].at[1] # c /\ q[i].to = c}

ArrivesFrom(q, c, k) == q[Latest(Arrivals(q, c, k))].at[1]

(* PimdirPending: the keys the fold drops, and those read elsewhere.       *)
Removed(q, c) ==
    {k \in Keys : \E i \in DOMAIN q : Edits(q[i], c, k) /\ Removing(q[i])}

Arriving(q, c) ==
    {<<k, ArrivesFrom(q, c, k)>> : k \in {l \in Keys : Arrivals(q, c, l) # {}}}

(* committed_item, and the conflict pending reads with a committed one.    *)
Committed(its, p) ==
    IF Live(its[p]) THEN [object |-> its[p].object, flags |-> its[p].flags] ELSE NoItem

Standing(its, p) == IF Live(its[p]) THEN its[p].conflict ELSE NoBody

(* Mutant: the overlay shows an edit whatever conflict it meets.           *)
MutantSettles(conflict, a) == TRUE

(* PimdirStanding::settle, of the one binding an item has.                 *)
Settles(conflict, a) ==
    IF a.resolves = {} THEN conflict = NoBody
    ELSE conflict # NoBody /\ conflict \in a.resolves

(* fold, one pending action: an update the drain would park changes        *)
(* nothing.                                                                *)
FoldOne(f, a) ==
    IF f.item = NoItem THEN f
    ELSE CASE Removing(a) -> [f EXCEPT !.item = NoItem]
           [] a.kind = "set-flags" -> [f EXCEPT !.item.flags = a.flags]
           [] a.kind = "update" ->
                IF /\ a.ifMatch = NoBody \/ a.ifMatch = f.item.object
                   /\ Settles(f.standing, a)
                THEN [item |-> [f.item EXCEPT !.object = a.body], standing |-> NoBody]
                ELSE f

(* The rows of the key folded in append order over the item read in from.  *)
Folds(its, q, from, c, k) ==
    LET fold[n \in 0..Len(q)] ==
            IF n = 0
            THEN [item |-> Committed(its, <<from, k>>), standing |-> Standing(its, <<c, k>>)]
            ELSE IF Edits(q[n], c, k) THEN FoldOne(fold[n - 1], q[n]) ELSE fold[n - 1]
    IN  fold

Folded(its, q, from, c, k) == Folds(its, q, from, c, k)[Len(q)].item

(* get_item: the committed item, or one a pending move or copy brings in   *)
(* read where it still is, with this collection's edits folded in.         *)
ReadIn(its, q, c, k) ==
    IF Live(its[<<c, k>>]) \/ Arrivals(q, c, k) = {} THEN c ELSE ArrivesFrom(q, c, k)

View(its, q, c, k) == Folded(its, q, ReadIn(its, q, c, k), c, k)

InView(its, q, c) == {k \in Keys : View(its, q, c, k) # NoItem}

-----------------------------------------------------------------------------
Before(k, l) == Rank[k] < Rank[l]
First(n, keys) == {k \in keys : Cardinality({l \in keys : Before(l, k)}) < n}

(* list_items_page: the committed rows past the cursor, in link-id order.  *)
Fetch(c, after, n) == First(n, {k \in Keys : Live(items[<<c, k>>]) /\ Rank[k] > after})

(* Mutant: no more rows are read than the page asks for.                   *)
MutantReach(gone) == Limit

(* overlaid: a page reads past its limit by the pending removals.          *)
Reach(gone) == Limit + Cardinality(gone)

(* list_items, page by page, begun at any moment.                          *)
StartScan(c) ==
    /\ scan = NoScan
    /\ scan' = [in |-> c, after |-> 0, reading |-> "none",
                gone |-> {}, left |-> {}, page |-> {}]
    /\ kept' = InView(items, queue, c)
    /\ UNCHANGED <<items, queue, tried, caps, performer, spent>>

OnlyReads == UNCHANGED <<items, queue, tried, caps, performer, spent>>
Reading(what) == scan # NoScan /\ scan.reading = what

(* overlaid, statement by statement: the pending queue,                    *)
ReadPending ==
    /\ Reading("none")
    /\ scan' = [scan EXCEPT !.reading = "rows", !.gone = Removed(queue, scan.in),
                            !.left = Arriving(queue, scan.in)]
    /\ OnlyReads /\ UNCHANGED kept

(* the committed rows, less what was to be removed,                        *)
ReadRows ==
    /\ Reading("rows")
    /\ scan' = [scan EXCEPT !.reading = "arrivals",
                   !.page = Fetch(scan.in, scan.after, Reach(scan.gone)) \ scan.gone]
    /\ OnlyReads /\ UNCHANGED kept

(* each item that was to arrive, where it was to leave, inside the page,   *)
ReadArrival(k, from) ==
    /\ Reading("arrivals") /\ <<k, from>> \in scan.left
    /\ LET found == Live(items[<<from, k>>]) /\ k \notin scan.gone /\ Rank[k] > scan.after
       IN  scan' = [scan EXCEPT !.left = @ \ {<<k, from>>},
                                !.page = IF found THEN @ \cup {k} ELSE @]
    /\ OnlyReads /\ UNCHANGED kept

(* all sorted and truncated.  The next page's cursor is the last key of    *)
(* this one, and a short page ends the scan.                               *)
TurnPage ==
    /\ Reading("arrivals") /\ scan.left = {}
    /\ LET page == First(Limit, scan.page)
           last == {Rank[k] : k \in page} \cup {scan.after}
       IN  /\ scan' = [scan EXCEPT
                  !.reading = IF Cardinality(page) < Limit THEN "ended" ELSE "none",
                  !.after = CHOOSE r \in last : \A o \in last : o <= r,
                  !.gone = {}, !.page = {}]
           /\ kept' = kept \ page
    /\ OnlyReads

(* What a step leaves of the keys in the scanned view throughout, and read *)
(* in the same collection from the first statement of a page to its last.  *)
Steady(k) ==
    scan.reading \in {"rows", "arrivals"} =>
        ReadIn(items', queue', scan.in, k) = ReadIn(items, queue, scan.in, k)

Watched ==
    /\ kept' = IF scan = NoScan THEN {}
               ELSE {k \in kept \cap InView(items', queue', scan.in) : Steady(k)}
    /\ UNCHANGED scan

-----------------------------------------------------------------------------
(* duplicate: a pending add of the key, or a live item of it that nothing  *)
(* pending in the collection withdraws.                                    *)
Duplicate(a) ==
    \/ \E i \in DOMAIN queue : queue[i].kind = "add" /\ queue[i].at = a.at
    \/ /\ Live(items[a.at])
       /\ ~\E i \in DOMAIN queue : queue[i].kind \in {"remove", "move"} /\ queue[i].at = a.at

(* PimdirProducer::append, and the enqueue_* calls over it.                *)
AppendAction(a) ==
    /\ Spend("append", MaxAppends)
    /\ Gate(caps, queue, performer, items, a)
    /\ (a.kind = "add" /\ a.fresh) => ~Duplicate(a)
    /\ queue' = Append(queue, a) /\ tried' = Append(tried, FALSE)
    /\ UNCHANGED <<items, caps, performer>>
    /\ Watched

(* Mutant: the drain applies what the producer's gate once passed.         *)
MutantAccepted(its, rows, q, perf, a) ==
    CASE a.kind = "set-performer" -> TakesChoice(rows, a)
      [] OTHER -> Takes(its, a)

(* One row's turn in the drain: whether the backstop and the apply take    *)
(* it, and what they leave.                                                *)
Accepted(its, rows, q, perf, a) ==
    CASE a.kind = "set-performer" -> TakesChoice(rows, a)
      [] OTHER -> Gate(rows, q, perf, its, a) /\ Takes(its, a)

Waiting(a) == IsIntent(a) /\ BackstopIntent(caps, a)

(* drain: the rows in append order, an intent left to its performer and a  *)
(* row whose attempt failed left behind for the next pass.                 *)
Turn(i) ==
    /\ ~Waiting(queue[i])
    /\ \A j \in 1..(i - 1) : Waiting(queue[j]) \/ tried[j]

Leaves(i) == queue' = RemoveAt(queue, i) /\ tried' = RemoveAt(tried, i)

DrainRow(i) ==
    /\ Turn(i) /\ Leaves(i)
    /\ LET a == queue[i]
           applied == ~IsIntent(a) /\ Accepted(items, caps, queue, performer, a)
       IN  /\ items' = IF applied /\ a.kind # "set-performer" THEN Applied(items, a)
                       ELSE items
           /\ performer' = IF applied /\ a.kind = "set-performer"
                           THEN [performer EXCEPT ![a.cap] = a.source] ELSE performer
    /\ UNCHANGED <<caps, spent>>
    /\ Watched

(* A failure of the environment: the row stays for another attempt, or     *)
(* parks past the last one or where none would help.                       *)
FailRow(i) ==
    /\ Turn(i) /\ ~IsIntent(queue[i])
    /\ \/ tried' = [tried EXCEPT ![i] = TRUE] /\ UNCHANGED queue
       \/ Leaves(i)
    /\ UNCHANGED <<items, caps, performer, spent>>
    /\ Watched

(* acknowledge: its performer carried an intent out, at any time.          *)
Acknowledge ==
    /\ \E i \in DOMAIN queue : IsIntent(queue[i]) /\ Leaves(i)
    /\ UNCHANGED <<items, caps, performer, spent>>
    /\ Watched

(* The owner declares a source's capabilities anew.                        *)
Declare(s) ==
    /\ Spend("change", MaxChanges)
    /\ \E new \in Declarations[s] : caps' = Declaration(caps, s, new)
    /\ UNCHANGED <<items, queue, tried, performer>>
    /\ Watched

(* A batch a sync writes between two rows or two pages.                    *)
SyncWrite(p) ==
    /\ Spend("change", MaxChanges)
    /\ items' \in SyncWritten(items, p)
    /\ UNCHANGED <<queue, tried, caps, performer>>
    /\ Watched

Next ==
    \/ \E a \in Requests : AppendAction(a)
    \/ \E i \in DOMAIN queue : DrainRow(i) \/ FailRow(i)
    \/ Acknowledge
    \/ \E s \in Sources : Declare(s)
    \/ \E p \in SyncPlaces : SyncWrite(p)
    \/ \E c \in Scanned : StartScan(c)
    \/ ReadPending
    \/ ReadRows
    \/ \E k \in Keys, from \in Collections : ReadArrival(k, from)
    \/ TurnPage

Spec == Init /\ [][Next]_vars

-----------------------------------------------------------------------------
(* Every variable keeps its type.                                          *)
TypeOK ==
    /\ items \in [Places -> Items \cup {NoItem}]
    /\ queue \in Seq(Requests)
    /\ tried \in Seq(BOOLEAN) /\ Len(tried) = Len(queue)
    /\ caps \subseteq InitRows \cup UNION {UNION Declarations[s] : s \in Sources}
    /\ performer \in [Capabilities -> Sources \cup {NoSource}]
    /\ scan \in Scans \cup {NoScan}
    /\ kept \subseteq Keys
    /\ spent \in [append : Nat, change : Nat]

(* The drain's pass over the queue as it stands, the rows it refuses kept  *)
(* by whether the gate did.                                                *)
DrainOne(d, a) ==
    IF IsIntent(a) \/ a.kind = "set-performer" THEN d
    ELSE IF ~Gate(caps, queue, performer, d.items, a) THEN [d EXCEPT !.gated = @ \cup {a}]
    ELSE IF ~Takes(d.items, a) THEN [d EXCEPT !.parked = @ \cup {a}]
    ELSE [d EXCEPT !.items = Applied(d.items, a)]

Drained == FoldLeft(DrainOne, [items |-> items, gated |-> {}, parked |-> {}], queue)

(* The rows about the keys of a link, in any collection.                   *)
About(a, l) ==
    /\ ~IsIntent(a) /\ a.kind # "set-performer"
    /\ a.at[2][1] = l \/ (a.kind = "add" /\ a.supersedes # NoPlace /\ a.supersedes[2][1] = l)

Relocates(a) == a.kind \in {"move", "copy"}

(* The links whose rows the drain will all take, or park as the overlay    *)
(* foresees: none is an add, none is refused but an update over another    *)
(* body or a conflict, and the item is brought in from at most one other   *)
(* collection, before anything else and under the key it has there.        *)
Foreseen(l, d) ==
    LET rows == SelectSeq(queue, LAMBDA a : About(a, l))
    IN  \A i \in DOMAIN rows :
            /\ ~(rows[i].kind = "add" /\ rows[i].at[2][1] = l)
            /\ rows[i] \notin d.gated
            /\ rows[i] \in d.parked => rows[i].kind = "update"
            /\ Relocates(rows[i]) =>
                   i = 1 /\ Target(items, rows[i]) = <<rows[i].to, rows[i].at[2]>>
            /\ HasBinding(items[rows[i].at]) \/ Relocates(rows[1])

(* A reader sees an item as it will be once the queue is drained: the view *)
(* of every key with pending rows, live or arriving, is the item the drain *)
(* would leave (reader.rs, fold: "so the item reads as it will be").       *)
ReadsAsDrained ==
    LET d == Drained
        pending == {l \in Links : \E i \in DOMAIN queue : About(queue[i], l)}
    IN  \A l \in pending : Foreseen(l, d) =>
            \A c \in Collections, n \in 0..MaxMint :
                View(items, queue, c, <<l, n>>) = Committed(d.items, <<c, <<l, n>>>>)

(* A keyset scan sees every item once: each key in the view throughout was *)
(* on one of its pages when a short page ends it, whatever was appended,   *)
(* drained or synced between two pages or two statements of one, but for   *)
(* an item that landed in the collection, or left it for one it is to      *)
(* arrive from, while a page was being read (reader.rs, list_items and     *)
(* overlaid).                                                              *)
ScanComplete == Reading("ended") => kept = {}

(* What a step makes a place owe its source's server: the add of what      *)
(* lands there, over an item or not, unless the source itself moves it.    *)
(* Nothing is asked of a source in a collection of no declared kind.       *)
Owed(a, p) ==
    LET was == items[p]
        is == items'[p]
        sameSource == SourceOf[a.at[1]] = SourceOf[p[1]]
        lands == Live(is) /\ (~Live(was) \/ (Relocates(a) /\ p # a.at))
    IN  IF p[1] \notin Declared THEN {}
        ELSE IF lands
        THEN IF Relocates(a) /\ sameSource THEN {}
             ELSE {<<Domain(p[1]), "add">>} \cup FlagChanges(p[1], {}, is.flags)
        ELSE IF Live(was) /\ ~Live(is)
        THEN {<<Domain(p[1]), IF a.kind = "move" THEN "move" ELSE "remove">>}
        ELSE IF Live(was) /\ Live(is)
        THEN FlagChanges(p[1], was.flags, is.flags) \cup
             (IF was.object # is.object /\ p[1] \notin Messages
              THEN {<<Domain(p[1]), "update">>} ELSE {})
        ELSE {}

(* What the drain applies is what the sources concerned can push, by the   *)
(* declarations standing when it applies it and not those its producer     *)
(* read: every place it changes owes its source only what that source      *)
(* supports there (producer.rs, apply_queued: "parked here rather than     *)
(* pushed and rejected later").                                            *)
PushesSupported ==
    [][\A i \in DOMAIN queue : DrainRow(i) =>
        \A p \in Places : (items'[p] # items[p] /\ Synced(items, p[1])
                           /\ (HasBinding(items[p]) \/ ~Live(items[p]))) =>
            Check(caps, p[1], {SourceOf[p[1]]}, Owed(queue[i], p))]_vars

(* A choice of performer holds from the moment it is queued: the step that *)
(* records it changes no resolution, unless an older choice of the same    *)
(* capability, left behind by a failed attempt, is then the last one       *)
(* queued (capability.rs, chosen: "rather than from the owner's next run").*)
Chooses(i, cap) == queue[i].kind = "set-performer" /\ queue[i].cap = cap

Overtakes(i) ==
    /\ \E j \in 1..(i - 1) : Chooses(j, queue[i].cap)
    /\ ~\E j \in (i + 1)..Len(queue) : Chooses(j, queue[i].cap)

ChoiceHolds ==
    [][\A i \in DOMAIN queue :
        (/\ queue[i].kind = "set-performer" /\ TakesChoice(caps, queue[i])
         /\ ~Overtakes(i) /\ DrainRow(i)) =>
        \A c \in Collections, cap \in Capabilities :
            ResolvePerformer(caps, queue', performer', c, cap, NoSource)
                = ResolvePerformer(caps, queue, performer, c, cap, NoSource)]_vars
=============================================================================
