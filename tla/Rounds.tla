------------------------------- MODULE Rounds -------------------------------
(***************************************************************************)
(* How a sync run lists a collection (src/src/sync.rs, the store's side in *)
(* src/src/client/write.rs): a delta from the checkpoint, or a round over  *)
(* a scope, page by page, that outlives the runs listing it.  Each page    *)
(* lands with its cursor and stamps what it listed; the last page drops    *)
(* the bindings in scope no page stamped, or parks the round when it would *)
(* drop too many; a run resuming a round lists its head first.             *)
(*                                                                         *)
(* The merge of one member is Sync.tla's: here a binding only remembers    *)
(* the server change it was last merged at.  The server's changes are      *)
(* numbered by a clock, which is what a checkpoint names.  One local       *)
(* create waits to be pushed.  A binding's round id is kept as whether it  *)
(* is the id the source's row holds, a new id voiding every stamp.         *)
(***************************************************************************)
EXTENDS Scope, Absence, FiniteSets

CONSTANTS
    N,            \* the handles the server gives are 1..N
    Date,         \* handle -> the date of the member there
    Ahead,        \* handles dated after every instant a round opens
    Arrivals,     \* handles a server may give the pending create
    Connectors,   \* the connectors a source may have, `page` the handles a page spans
    Wanted,       \* the scopes runs ask for
    Accepts,      \* whether the runs confirm the absences found
    Fulls,        \* whether runs may ignore the checkpoint
    MaxChanges,   \* changes the server sees
    MaxFaults     \* crashes, refusals and empty answers

Handles == 1..N

ASSUME RoundsAssumption ==
    /\ N \in Nat \ {0}
    /\ Date \in [Handles -> 0..(Forever - 1)]
    /\ Ahead \subseteq Handles /\ Arrivals \subseteq Handles
    /\ Connectors \subseteq [page : 1..N, heads : SUBSET {"delta", "band"}, scopeBound : BOOLEAN,
                             upfront : BOOLEAN, narrows : BOOLEAN, enumerates : BOOLEAN,
                             capped : BOOLEAN, fails : BOOLEAN]
    /\ Wanted \subseteq Scope
    /\ Accepts \subseteq BOOLEAN /\ Fulls \subseteq BOOLEAN
    /\ MaxChanges \in Nat /\ MaxFaults \in Nat

VARIABLES
    conn,    \* what the connector states of its source
    live,    \* the handles the server holds
    mod,     \* handle -> the clock at its last change, 0 for a handle never given
    clock,   \* the server's change counter
    held,    \* handle -> the change its binding was merged at, 0 for no binding
    stamp,   \* the handles whose binding carries the source's round id
    src,     \* the source's row: checkpoint, coverage and round
    create,  \* the pending create: "none", "pending" or "landed"
    run,     \* the run under way, or NoRun
    faults,  \* faults so far
    gone,    \* history: handles off the server at some time since the round opened
    seen,    \* history: whether a page or head of the open round named a member
    park     \* history: whether the open round, and the one the coverage is of, parked

vars == <<conn, live, mod, clock, held, stamp, src, create, run, faults, gone, seen, park>>
server == <<live, mod, clock>>
store == <<held, stamp, src>>
history == <<gone, seen, park>>

NoRun == [state |-> "idle"]
NoCursor == [pos |-> 0, mod |-> 0]
NoScope == [since |-> 0, until |-> 0]
Idle == run = NoRun

NoRound == [open |-> FALSE, scope |-> NoScope, band |-> FALSE, cursor |-> NoCursor,
            checkpoint |-> 0, startedAt |-> 0]
Bound == {h \in Handles : held[h] # 0}

Init ==
    /\ conn \in Connectors
    /\ live \in SUBSET (Handles \ Arrivals)
    /\ mod = [h \in Handles |-> IF h \in live THEN 1 ELSE 0]
    /\ clock = 1
    /\ held = [h \in Handles |-> 0]
    /\ stamp = {}
    /\ src = [checkpoint |-> 0, coverage |-> NoScope, round |-> NoRound]
    /\ create \in IF Arrivals = {} THEN {"none"} ELSE {"none", "pending"}
    /\ run = NoRun
    /\ faults = 0
    /\ gone = {}
    /\ seen = FALSE
    /\ park = [round |-> FALSE, coverage |-> FALSE]

-----------------------------------------------------------------------------
(* The server: what other clients do.  A handle removed may come back, as  *)
(* a member moved out of a mailbox and in again.                           *)

Changes(h) ==
    /\ clock < MaxChanges
    /\ clock' = clock + 1
    /\ mod' = [mod EXCEPT ![h] = clock + 1]
    /\ UNCHANGED <<conn, store, create, faults, seen, park>>

ClientAdds(h) ==
    /\ h \notin live /\ h \notin Arrivals
    /\ Changes(h)
    /\ live' = live \cup {h}
    /\ UNCHANGED <<run, gone>>

ClientEdits(h) ==
    /\ h \in live
    /\ Changes(h)
    /\ UNCHANGED <<live, run, gone>>

ClientRemoves(h) ==
    /\ h \in live
    /\ Changes(h)
    /\ live' = live \ {h}
    /\ gone' = gone \cup {h}
    /\ run' = IF Idle THEN run ELSE [run EXCEPT !.off = @ \cup {h}]

-----------------------------------------------------------------------------
(* The store's round (write.rs, the statements it runs).                   *)

(* open_round: the next round id, so no binding carries it yet; the cursor *)
(* and the checkpoint of an earlier attempt go with it.                    *)
Opened(row, plan) ==
    [row EXCEPT !.round = [open |-> TRUE, scope |-> plan.scope, band |-> plan.band,
                           cursor |-> NoCursor, checkpoint |-> 0, startedAt |-> clock]]

(* The write that opens a round opens it with whatever else it carries.    *)
Row == IF run.opening THEN Opened(src, run.plan) ELSE src
Stamps == IF run.opening THEN {} ELSE stamp

Coalesce(a, b) == IF a # 0 THEN a ELSE b

(* finds_absent: in the round's scope, undated only when it lists it whole. *)
FindsAbsent(round, date) ==
    IF date = Undated THEN ~round.band ELSE Contains(round.scope, date)

(* What a listing proves of a binding it lacks: a narrowed one only what   *)
(* its filter could list, or what an unfiltered enumeration lacks too.     *)
Proves(page, h) ==
    \/ ~page.narrowed
    \/ Date[h] # Undated /\ h \notin Ahead
    \/ page.enumerates /\ h \notin page.enumerated

(* list_unstamped_bindings, read once the round is open in the store.      *)
Unstamped(page) ==
    {h \in Bound \ stamp : /\ FindsAbsent(src.round, Date[h])
                           /\ Proves(page, h)}

-----------------------------------------------------------------------------
(* Choosing the listing (choose, head_of).                                 *)

RoundPlan(scope, span, band) ==
    [kind |-> "round", scope |-> scope, span |-> span, band |-> band,
     cursor |-> NoCursor, checkpoint |-> 0, opens |-> TRUE, resumed |-> FALSE]
Afresh(wanted) == RoundPlan(wanted, wanted, FALSE)
DeltaPlan == [Afresh(NoScope) EXCEPT !.kind = "delta", !.checkpoint = src.checkpoint]

Covered(wanted) == src.coverage # NoScope /\ Covers(src.coverage, wanted)

Choose(wanted, full) ==
    LET round  == src.round
        banded == /\ src.coverage # NoScope /\ ~conn.scopeBound /\ ~full
                  /\ HasBand(src.coverage, wanted)
        opened == IF banded
                  THEN RoundPlan(BandOf(src.coverage, wanted), SpanOf(src.coverage, wanted), TRUE)
                  ELSE Afresh(wanted)
    IN  IF round.open /\ round.scope = opened.scope /\ round.band = banded /\ ~full
        THEN [opened EXCEPT !.cursor = round.cursor, !.checkpoint = round.checkpoint,
                            !.opens = FALSE, !.resumed = TRUE]
        ELSE IF src.checkpoint # 0 /\ Covered(wanted) /\ ~round.open /\ ~full
        THEN DeltaPlan
        ELSE opened

(* The head a resuming run lists first, and the change it lists it from.   *)
NoHead == [kind |-> "none", from |-> 0]
HeadOf(plan) ==
    LET round == src.round
        from  == IF round.checkpoint # 0 \/ ~round.band THEN round.checkpoint ELSE src.checkpoint
    IN  IF plan.kind # "round" \/ plan.opens THEN NoHead
        ELSE IF from # 0 /\ "delta" \in conn.heads THEN [kind |-> "delta", from |-> from]
        ELSE IF "band" \in conn.heads THEN [kind |-> "band", from |-> round.startedAt]
        ELSE NoHead

NoPage == [kind |-> "none"]

Start(wanted, full, accept) ==
    /\ Idle
    /\ LET plan == Choose(wanted, full)
       IN  run' = [state |-> "enumerating", wanted |-> wanted, accept |-> accept,
                   plan |-> plan, head |-> HeadOf(plan), named |-> FALSE,
                   roundOpen |-> src.round.open, opening |-> FALSE, off |-> {},
                   page |-> NoPage, absent |-> {}, dropped |-> {}, todo |-> {}, pushed |-> {}]
    /\ UNCHANGED <<conn, server, store, create, faults, history>>

-----------------------------------------------------------------------------
(* Opening the merge of a page (open_merge): what it finds absent, whether *)
(* that parks the round, and what is left to merge.                        *)

(* The page that opens the plan's round.                                   *)
Opening(r) == r.plan.opens /\ r.page.kind \in {"partial", "last"}

InRound(plan) == {h \in Bound : FindsAbsent(plan, Date[h])}

Absent(r) ==
    IF r.page.kind # "last" \/ r.page.capped THEN {}
    ELSE (IF Opening(r) THEN InRound(r.plan) ELSE Unstamped(r.page)) \ r.page.listed

(* stamped: whether a page an earlier run listed for the round named a     *)
(* member it could prove absent.                                           *)
StampedBefore(r) ==
    r.plan.resumed /\ \E h \in InRound(r.plan) : Proves(r.page, h) /\ h \notin Unstamped(r.page)

Parks(r) ==
    /\ r.page.kind = "last"
    /\ Guard(Cardinality(Absent(r)), Cardinality(InRound(r.plan)),
             r.named \/ r.page.listed # {} \/ StampedBefore(r), r.accept)

Merging(r) ==
    LET absent  == IF Parks(r) THEN {} ELSE Absent(r)
        dropped == r.page.vanished \cup absent
    IN  [r EXCEPT
           !.state = "merging",
           !.plan = [r.plan EXCEPT !.opens = r.plan.opens /\ ~Opening(r)],
           !.named = r.named \/ (r.page.kind # "delta" /\ r.page.listed # {}),
           !.roundOpen = r.roundOpen \/ Opening(r),
           !.opening = Opening(r) \/ (Parks(r) /\ r.plan.cursor # NoCursor),
           !.off = IF Opening(r) THEN r.off ELSE gone,
           !.page = [r.page EXCEPT !.kind = IF Parks(r) THEN "parked" ELSE r.page.kind],
           !.absent = absent,
           !.dropped = dropped,
           !.todo = r.page.listed \cup (dropped \cap Bound)]

-----------------------------------------------------------------------------
(* The connector's answers (remote.rs): one page, or a refusal.            *)

Changed(from, scope) ==
    {h \in live : mod[h] > from /\ Contains(scope, Date[h])}

Page(kind, items, vanished, cursor, checkpoint) ==
    [kind |-> kind, listed |-> items, vanished |-> vanished,
     at |-> [h \in Handles |-> IF h \in items THEN mod[h] ELSE 0],
     cursor |-> cursor, checkpoint |-> checkpoint, narrowed |-> FALSE,
     enumerates |-> FALSE, enumerated |-> {}, capped |-> FALSE, failing |-> FALSE]

(* What a date filter may miss: what has no date, and what is dated ahead  *)
(* of its arrival.                                                         *)
Missable == {h \in Handles : Date[h] = Undated} \cup Ahead

DeltaPage ==
    Page("delta", Changed(run.plan.checkpoint, run.wanted),
         {h \in Handles \ live : mod[h] > run.plan.checkpoint}, NoCursor, clock)

(* A head: its members and removals since a checkpoint, or the members     *)
(* changed since the round opened, which carries no checkpoint.            *)
HeadPage ==
    IF run.head.kind = "delta"
    THEN Page("deltaHead", Changed(run.head.from, run.wanted),
              {h \in Handles \ live : mod[h] > run.head.from}, NoCursor, clock)
    ELSE Page("bandHead", Changed(run.head.from, run.wanted), {}, NoCursor, 0)

(* One page of a round: the handles after the cursor, the last one listing *)
(* again what a band head of the round would.  A source gives the          *)
(* checkpoint up front, or on the last page the one its first page began   *)
(* from.                                                                   *)
RoundPage(plan, missed) ==
    LET first    == plan.cursor = NoCursor
        began    == IF first THEN clock ELSE plan.cursor.mod
        until    == plan.cursor.pos + conn.page
        last     == until >= N
        filtered == (plan.band \/ conn.narrows) /\ plan.scope # Unbounded
        narrowed == last /\ filtered
        again    == IF last /\ "band" \in conn.heads /\ ~first
                    THEN Changed(src.round.startedAt, plan.scope) ELSE {}
        reach    == {h \in live : /\ plan.cursor.pos < h /\ h <= until
                                  /\ Contains(plan.scope, Date[h])} \cup again
        items    == IF filtered \/ conn.capped THEN reach \ missed ELSE reach
        page     == Page(IF last THEN "last" ELSE "partial", items, {},
                         IF last THEN NoCursor ELSE [pos |-> until, mod |-> began],
                         IF plan.band THEN 0
                         ELSE IF first /\ conn.upfront THEN clock
                         ELSE IF last /\ ~conn.upfront THEN began ELSE 0)
    IN  [page EXCEPT !.narrowed = narrowed,
                     !.enumerates = narrowed /\ conn.enumerates,
                     !.enumerated = IF narrowed /\ conn.enumerates THEN live ELSE {},
                     !.capped = conn.capped /\ last]

(* A narrowed round its last page would open is opened in a write of its   *)
(* own first.                                                              *)
OpensFirst(r) == r.page.kind = "last" /\ r.page.narrowed /\ r.plan.opens

(* take_page: a round the page opens takes its absences from what the      *)
(* server lacks now, or comes to lack.                                     *)
Taken(plan, page) ==
    [run EXCEPT !.plan = plan, !.head = NoHead, !.page = page, !.off = Handles \ live]

Takes(plan, page) ==
    /\ run' = LET r == Taken(plan, page)
              IN  IF OpensFirst(r) THEN [r EXCEPT !.state = "opening"] ELSE Merging(r)
    /\ UNCHANGED <<conn, server, store, create, history>>

OpenNarrowed ==
    /\ run.state = "opening"
    /\ src' = Opened(src, run.plan)
    /\ stamp' = {}
    /\ gone' = run.off
    /\ seen' = FALSE
    /\ park' = [park EXCEPT !.round = FALSE]
    /\ run' = [run EXCEPT !.state = "loading", !.plan = [run.plan EXCEPT !.opens = FALSE], !.roundOpen = TRUE]
    /\ UNCHANGED <<conn, server, held, create, faults>>

(* The page is loaded again once its round is open in the store.           *)
OpenMerge ==
    /\ run.state = "loading"
    /\ run' = Merging(run)
    /\ UNCHANGED <<conn, server, store, create, faults, history>>

AnswersHead ==
    /\ run.state = "enumerating" /\ run.head # NoHead
    /\ Takes(run.plan, HeadPage)
    /\ UNCHANGED faults

AnswersDelta ==
    /\ run.state = "enumerating" /\ run.head = NoHead /\ run.plan.kind = "delta"
    /\ Takes(run.plan, DeltaPage)
    /\ UNCHANGED faults

AnswersRound(missed) ==
    /\ run.state = "enumerating" /\ run.head = NoHead /\ run.plan.kind = "round"
    /\ Takes(run.plan, RoundPage(run.plan, missed))
    /\ UNCHANGED faults

Fault == faults < MaxFaults /\ faults' = faults + 1

(* A connector answering a round to a delta request: a round of its own.   *)
AnswersRoundToDelta(missed) ==
    /\ run.state = "enumerating" /\ run.head = NoHead /\ run.plan.kind = "delta"
    /\ Fault
    /\ Takes(Afresh(run.wanted), RoundPage(Afresh(run.wanted), missed))

(* A failing connector: a round that names no member at all.               *)
AnswersNothing ==
    /\ run.state = "enumerating" /\ run.head = NoHead /\ run.plan.kind = "round"
    /\ conn.fails /\ run.plan.cursor = NoCursor /\ ~run.named
    /\ run.plan.opens \/ ~seen
    /\ Fault
    /\ Takes(run.plan, [Page("last", {}, {}, NoCursor, IF run.plan.band THEN 0 ELSE clock)
                         EXCEPT !.failing = TRUE])

(* restart and head_rejected: the round begins again under a new id, over  *)
(* the scope asked for when its position was void.                         *)
Refuses ==
    /\ run.state = "enumerating"
    /\ run.head # NoHead \/ run.plan.kind = "delta" \/ run.plan.cursor # NoCursor
    /\ Fault
    /\ run' = [run EXCEPT
                 !.head = NoHead,
                 !.named = FALSE,
                 !.plan = IF run.head = NoHead /\ run.plan.kind = "round"
                          THEN [run.plan EXCEPT !.cursor = NoCursor, !.opens = TRUE,
                                                !.resumed = FALSE]
                          ELSE Afresh(run.wanted)]
    /\ UNCHANGED <<conn, server, store, create, history>>

(* NoHead: the round resumes as it would without.                          *)
ListsNoHead ==
    /\ run.state = "enumerating" /\ run.head # NoHead
    /\ Fault
    /\ run' = [run EXCEPT !.head = NoHead]
    /\ UNCHANGED <<conn, server, store, create, history>>

-----------------------------------------------------------------------------
(* Merging a page, one member at a time, and pushing the create.           *)

(* The first write a round opens in.  A park draws it anew with the page's *)
(* stamps.                                                                 *)
Commits ==
    /\ gone' = IF run.opening THEN run.off ELSE gone
    /\ park' = [park EXCEPT !.round = @ /\ ~run.opening]

(* One member merged and written: pulled as the page lists it, or dropped  *)
(* with its stamp.  A listed arrival lands the pending create.             *)
Merge(h) ==
    /\ run.state = "merging"
    /\ h \in run.todo /\ \A k \in run.todo : h <= k
    /\ held' = [held EXCEPT ![h] = IF h \in run.dropped THEN 0 ELSE run.page.at[h]]
    /\ src' = Row
    /\ stamp' = IF h \in run.dropped THEN Stamps \ {h} ELSE Stamps
    /\ create' = IF h \in Arrivals \ run.dropped THEN "landed" ELSE create
    /\ Commits
    /\ seen' = (seen /\ ~run.opening)
    /\ run' = [run EXCEPT !.todo = @ \ {h}, !.opening = FALSE]
    /\ UNCHANGED <<conn, server, faults>>

(* Mutant: a create derives from any page.                                 *)
MutantHoldsCreates == FALSE

(* holds_creates: until the round's last page, and on a delta while a      *)
(* round is open.                                                          *)
HoldsCreates ==
    \/ run.page.kind \in {"partial", "parked", "deltaHead", "bandHead"}
    \/ run.page.kind = "delta" /\ run.roundOpen

(* The create is pushed, its date being in the scope, and its answer comes *)
(* back or is lost.                                                        *)
Pushable(a) ==
    /\ create = "pending" /\ ~HoldsCreates /\ Contains(run.wanted, Date[a])
    /\ mod[a] = 0

Push(a, answered) ==
    /\ run.state = "merging" /\ run.todo = {}
    /\ Pushable(a)
    /\ clock' = clock + 1
    /\ mod' = [mod EXCEPT ![a] = clock + 1]
    /\ live' = live \cup {a}
    /\ run' = [run EXCEPT !.state = "landing", !.pushed = IF answered THEN {a} ELSE {}]
    /\ IF answered THEN UNCHANGED faults ELSE Fault
    /\ UNCHANGED <<conn, store, create, history>>

-----------------------------------------------------------------------------
(* The page's last write: its stamps, what the push answered, and its tail *)
(* (batch; set_round_cursor, close_round, upsert_checkpoint, set_coverage).*)

(* Mutant: a page before the last lands its checkpoint as the source's.    *)
MutantEarlyCheckpoint(row) ==
    IF run.page.kind = "partial"
    THEN [row EXCEPT !.round.cursor = run.page.cursor,
                     !.checkpoint = Coalesce(run.page.checkpoint, @)]
    ELSE IF run.page.kind = "last"
    THEN [checkpoint |-> Coalesce(run.page.checkpoint, row.checkpoint),
          coverage |-> run.plan.span, round |-> NoRound]
    ELSE row

(* Mutant: closing a round leaves its columns.                             *)
MutantLeftOpen(row) ==
    IF run.page.kind = "last"
    THEN [row EXCEPT !.checkpoint = Coalesce(run.page.checkpoint, Coalesce(row.round.checkpoint, @)),
                     !.coverage = run.plan.span]
    ELSE row

Tail(row) ==
    LET page == run.page
        plan == run.plan
        pageCheckpoint == IF plan.band THEN 0 ELSE page.checkpoint
        narrower == /\ row.coverage # NoScope /\ row.coverage # run.wanted
                    /\ Covers(row.coverage, run.wanted)
    IN  CASE page.kind = "delta" ->
               [row EXCEPT !.checkpoint = page.checkpoint,
                           !.coverage = IF plan.kind = "delta" /\ narrower THEN run.wanted ELSE @]
          [] page.kind = "partial" ->
               [row EXCEPT !.round =
                   [row.round EXCEPT !.cursor = page.cursor,
                                     !.checkpoint = Coalesce(pageCheckpoint, row.round.checkpoint)]]
          [] page.kind = "parked" ->
               [row EXCEPT !.round = [row.round EXCEPT !.checkpoint =
                   IF plan.band THEN row.round.checkpoint
                   ELSE Coalesce(Coalesce(page.checkpoint, plan.checkpoint), row.round.checkpoint)]]
          [] page.kind = "last" ->
               [checkpoint |-> Coalesce(pageCheckpoint,
                                        Coalesce(row.round.checkpoint, row.checkpoint)),
                coverage |-> plan.span,
                round |-> NoRound]
          [] page.kind = "deltaHead" -> [row EXCEPT !.round = [row.round EXCEPT !.checkpoint = page.checkpoint]]
          [] page.kind = "bandHead" -> row

(* A head's page is stamped unless it lists by date.                       *)
Stamped(page) == IF page.kind \in {"delta", "bandHead"} THEN {} ELSE page.listed

Land ==
    /\ \/ run.state = "landing"
       \/ run.state = "merging" /\ run.todo = {} /\ \A a \in Arrivals : ~Pushable(a)
    /\ LET page  == run.page
           marks == Stamped(page) \ run.dropped
           next  == [run EXCEPT !.state = "enumerating", !.opening = FALSE, !.off = {},
                                !.plan = [run.plan EXCEPT !.cursor =
                                    IF page.kind = "partial" THEN page.cursor ELSE run.plan.cursor],
                                !.page = NoPage, !.absent = {}, !.dropped = {}]
       IN  /\ src' = Tail(Row)
           /\ stamp' = Stamps \cup marks
           /\ held' = [h \in Handles |-> IF h \in run.pushed THEN mod[h] ELSE held[h]]
           /\ create' = IF run.pushed # {} THEN "landed" ELSE create
           /\ gone' = IF run.opening THEN run.off ELSE gone
           /\ seen' = (marks # {} \/ (seen /\ ~run.opening))
           /\ park' = CASE page.kind = "parked" -> [park EXCEPT !.round = TRUE]
                        [] page.kind = "last" ->
                             [round |-> FALSE,
                              coverage |-> (park.round /\ ~run.opening)
                                           \/ (park.coverage /\ run.plan.band)]
                        [] OTHER -> [park EXCEPT !.round = @ /\ ~run.opening]
           /\ run' = IF page.kind \in {"deltaHead", "bandHead", "partial"} THEN next ELSE NoRun
    /\ UNCHANGED <<conn, server, faults>>

(* The process stops, or the remote fails: what landed stays.              *)
Interrupt ==
    /\ ~Idle
    /\ Fault
    /\ run' = NoRun
    /\ UNCHANGED <<conn, server, store, create, history>>

-----------------------------------------------------------------------------
Client == \E h \in Handles : ClientAdds(h) \/ ClientEdits(h) \/ ClientRemoves(h)

Begin == \E wanted \in Wanted, full \in Fulls, accept \in Accepts : Start(wanted, full, accept)

Missing == IF conn.capped THEN SUBSET Handles ELSE SUBSET Missable

Faulty ==
    \/ \E missed \in Missing : AnswersRoundToDelta(missed)
    \/ AnswersNothing \/ Refuses \/ ListsNoHead \/ Interrupt
    \/ \E a \in Arrivals : Push(a, FALSE)

Steps ==
    \/ AnswersHead \/ AnswersDelta \/ (\E missed \in Missing : AnswersRound(missed))
    \/ OpenNarrowed \/ OpenMerge \/ (\E h \in Handles : Merge(h))
    \/ (\E a \in Arrivals : Push(a, TRUE)) \/ Land

Next == Client \/ Begin \/ Faulty \/ Steps

Spec == Init /\ [][Next]_vars

(* A driver keeps running syncs, and a run that is not interrupted ends.   *)
Fairness == WF_vars(Begin) /\ WF_vars(Steps)
FairSpec == Spec /\ Fairness

-----------------------------------------------------------------------------
(* The rows of the source and the records of a run.                        *)
Cursors == [pos : 0..N, mod : Nat]
Ranges == Scope \cup {NoScope}
RoundRows == [open : BOOLEAN, scope : Ranges, band : BOOLEAN, cursor : Cursors,
              checkpoint : Nat, startedAt : Nat]
SourceRows == [checkpoint : Nat, coverage : Ranges, round : RoundRows]
Plans == [kind : {"delta", "round"}, scope : Ranges, span : Ranges, band : BOOLEAN,
          cursor : Cursors, checkpoint : Nat, opens : BOOLEAN, resumed : BOOLEAN]
Pages == [kind : {"delta", "deltaHead", "bandHead", "partial", "last", "parked"},
          listed : SUBSET Handles, at : [Handles -> Nat], vanished : SUBSET Handles,
          cursor : Cursors, checkpoint : Nat, narrowed : BOOLEAN, enumerates : BOOLEAN,
          enumerated : SUBSET Handles, capped : BOOLEAN, failing : BOOLEAN]
Runs == [state : {"enumerating", "opening", "loading", "merging", "landing"},
         wanted : Wanted, accept : BOOLEAN, plan : Plans,
         head : [kind : {"none", "delta", "band"}, from : Nat],
         named : BOOLEAN, roundOpen : BOOLEAN, opening : BOOLEAN, off : SUBSET Handles,
         page : Pages \cup {NoPage}, absent : SUBSET Handles, dropped : SUBSET Handles,
         todo : SUBSET Handles, pushed : SUBSET Arrivals]

TypeOK ==
    /\ conn \in Connectors
    /\ live \subseteq Handles
    /\ mod \in [Handles -> Nat] /\ held \in [Handles -> Nat]
    /\ clock \in Nat /\ faults \in Nat
    /\ stamp \subseteq Handles
    /\ src \in SourceRows
    /\ create \in {"none", "pending", "landed"}
    /\ run \in Runs \cup {NoRun}
    /\ gone \subseteq Handles
    /\ seen \in BOOLEAN
    /\ park \in [round : BOOLEAN, coverage : BOOLEAN]

Promised(h) ==
    /\ h \notin Missable /\ mod[h] # 0 /\ mod[h] <= src.checkpoint
    /\ src.coverage # NoScope /\ Contains(src.coverage, Date[h])
    /\ ~conn.capped /\ ~conn.fails

Agrees(h) == held[h] = IF h \in live THEN mod[h] ELSE 0

(* What a closed round left is kept by every delta since (PimdirCoverage): *)
(* a member the coverage holds that has not changed since the checkpoint   *)
(* is held as the server has it, and one removed before it is not held.  A *)
(* member no date filter is sure to list, a capped source and one that     *)
(* fails are outside what a listing can promise; a round that parked is    *)
(* ParkedCoverageServed's.                                                 *)
CoverageServed == ~park.coverage => \A h \in Handles : Promised(h) => Agrees(h)

(* A binding is dropped for its absence only when its member really was    *)
(* off the server at some time since the round opened, however many runs   *)
(* and crashes the round spans (sync.rs, open_merge): a connector failing  *)
(* to name anything drops nothing the caller did not confirm.              *)
AbsenceProven ==
    run.state = "merging" =>
        run.absent \subseteq run.off \/ (run.page.failing /\ run.accept)

(* A create is filed once: one pushed whose answer was lost is found by a  *)
(* listing before any page derives it again (holds_creates, sync.rs), at a *)
(* source that lists its newest members last and whose rounds list all the *)
(* scope the run asks for, neither capped nor failing.                     *)
CreatedOnce ==
    conn.scopeBound /\ ~conn.capped /\ ~conn.fails => Cardinality(live \cap Arrivals) <= 1

(* Once the server rests and the faults end, the runs bring the store to   *)
(* hold what the server has in the scope they cover, and every round ends. *)
Settled ==
    /\ ~src.round.open
    /\ \A h \in Handles \ Missable : Contains(src.coverage, Date[h]) => Agrees(h)
Converges == <>[](Idle => Settled)

-----------------------------------------------------------------------------
(* What the specification says and the code does not keep (README, under   *)
(* Disagreements).                                                         *)

(* The same of a round that parked and was listed again: what the parked   *)
(* page stamped, removed before the listing that closes the round, must be *)
(* found absent by it.                                                     *)
ParkedCoverageServed == \A h \in Handles : Promised(h) => Agrees(h)
=============================================================================
