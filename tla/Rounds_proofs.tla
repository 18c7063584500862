---------------------------- MODULE Rounds_proofs ----------------------------
(***************************************************************************)
(* Theorems about Rounds.tla, for any handles, dates, connectors, scopes,  *)
(* changes of the server and faults: its types, that an item is dropped as *)
(* absent only when the server had lost it (AbsenceIsProven), and that a   *)
(* create pushed without an answer is filed once (FiledOnce). Each action  *)
(* is first described field by field by a lemma of its own (ChooseIs,      *)
(* MergeIs, LandIs, ...); the steps of the invariants are proved from      *)
(* these lemmas and seldom expand an action. That what the coverage        *)
(* promises is served is proved in Coverage_proofs.tla.                    *)
(***************************************************************************)
EXTENDS Rounds, FiniteSetTheorems, TLAPS

-----------------------------------------------------------------------------
(* Types.                                                                  *)

(* The records of a run and its page, told apart from none by their tags.  *)
LEMMA Tags ==
    /\ \A r \in Runs : r # NoRun /\ r.state # "idle"
    /\ \A p \in Pages : p # NoPage /\ p.kind # "none"
    /\ NoRun.state = "idle" /\ NoPage.kind = "none"
BY DEF Runs, Pages, NoRun, NoPage

(* The values of nothing have their types.                                 *)
LEMMA Nones ==
    /\ NoCursor \in Cursors /\ NoCursor.pos = 0 /\ NoCursor.mod = 0
    /\ NoRound \in RoundRows /\ ~NoRound.open /\ NoRound.cursor = NoCursor
    /\ NoRound.checkpoint = 0 /\ ~NoRound.band
    /\ NoScope \notin Scope /\ NoScope \in Ranges
    /\ Unbounded \in Scope
    /\ N \in Nat /\ 1 <= N
BY RoundsAssumption, ForeverAssumption
   DEF NoCursor, Cursors, NoRound, RoundRows, NoScope, Scope, Ranges, Unbounded

(* A scope that adds a band to another, its band and their span.           *)
LEMMA BandTypes ==
    ASSUME NEW cov \in Scope, NEW wanted \in Scope, HasBand(cov, wanted)
    PROVE  BandOf(cov, wanted) \in Scope /\ SpanOf(cov, wanted) \in Scope
BY ForeverAssumption
   DEF HasBand, BandOf, SpanOf, Covers, Below, Above, Scope

(* A round opened from nothing, field by field.                            *)
LEMMA AfreshIs ==
    ASSUME NEW wanted \in Ranges
    PROVE  /\ Afresh(wanted) \in Plans /\ Afresh(wanted).kind = "round"
           /\ Afresh(wanted).scope = wanted /\ Afresh(wanted).span = wanted
           /\ Afresh(wanted).band = FALSE /\ Afresh(wanted).cursor = NoCursor
           /\ Afresh(wanted).opens = TRUE /\ Afresh(wanted).resumed = FALSE
           /\ Afresh(wanted).checkpoint = 0
BY Nones DEF Afresh, RoundPlan, Plans

(* What choose answers: the open round resumed, a delta, or a round opened.*)
LEMMA ChooseIs ==
    ASSUME TypeOK, NEW wanted \in Wanted, NEW full \in BOOLEAN
    PROVE  LET plan == Choose(wanted, full) IN
           /\ plan \in Plans
           /\ plan.kind = "delta" =>
                /\ plan.opens /\ plan.cursor = NoCursor /\ ~plan.resumed /\ ~plan.band
                /\ plan.checkpoint = src.checkpoint /\ ~src.round.open
                /\ src.coverage # NoScope /\ Covers(src.coverage, wanted)
           /\ plan.kind = "round" =>
                /\ IF plan.band
                   THEN /\ src.coverage # NoScope /\ ~conn.scopeBound
                        /\ HasBand(src.coverage, wanted)
                        /\ plan.scope = BandOf(src.coverage, wanted)
                        /\ plan.span = SpanOf(src.coverage, wanted)
                   ELSE plan.scope = wanted /\ plan.span = wanted
                /\ plan.opens => plan.cursor = NoCursor /\ ~plan.resumed /\ plan.checkpoint = 0
                /\ ~plan.opens =>
                     /\ src.round.open /\ src.round.scope = plan.scope
                     /\ src.round.band = plan.band /\ src.round.cursor = plan.cursor
                     /\ plan.checkpoint = src.round.checkpoint
<1> DEFINE banded == /\ src.coverage # NoScope /\ ~conn.scopeBound /\ ~full
                     /\ HasBand(src.coverage, wanted)
           opened == IF banded
                     THEN RoundPlan(BandOf(src.coverage, wanted), SpanOf(src.coverage, wanted), TRUE)
                     ELSE Afresh(wanted)
           resumed == [opened EXCEPT !.cursor = src.round.cursor,
                                     !.checkpoint = src.round.checkpoint,
                                     !.opens = FALSE, !.resumed = TRUE]
<1>1. /\ wanted \in Scope /\ wanted \in Ranges /\ src \in SourceRows
      /\ src.coverage \in Ranges /\ src.round \in RoundRows /\ src.checkpoint \in Nat
      BY RoundsAssumption DEF TypeOK, SourceRows, Ranges
<1>2. /\ opened \in Plans /\ opened.kind = "round" /\ opened.band = banded
      /\ IF banded THEN /\ opened.scope = BandOf(src.coverage, wanted)
                        /\ opened.span = SpanOf(src.coverage, wanted)
         ELSE opened.scope = wanted /\ opened.span = wanted
      /\ opened.cursor = NoCursor /\ opened.opens /\ ~opened.resumed /\ opened.checkpoint = 0
  <2>1. CASE banded
    <3>1. src.coverage \in Scope /\ HasBand(src.coverage, wanted)
          BY <1>1, <2>1 DEF Ranges
    <3>2. BandOf(src.coverage, wanted) \in Scope /\ SpanOf(src.coverage, wanted) \in Scope
          BY <3>1, <1>1, BandTypes
    <3> QED BY <2>1, <3>2, Nones DEF RoundPlan, Plans, Ranges
  <2>2. CASE ~banded
    <3>1. opened = Afresh(wanted) /\ banded = FALSE
          BY <2>2
    <3> HIDE DEF opened, banded
    <3> QED BY <2>2, <3>1, <1>1, AfreshIs
  <2> QED BY <2>1, <2>2
<1>3. /\ resumed \in Plans /\ resumed.kind = "round" /\ resumed.band = opened.band
      /\ resumed.scope = opened.scope /\ resumed.span = opened.span /\ ~resumed.opens
      /\ resumed.cursor = src.round.cursor /\ resumed.checkpoint = src.round.checkpoint
  <2> HIDE DEF opened
  <2> QED BY <1>1, <1>2 DEF Plans, RoundRows
<1>4. /\ DeltaPlan \in Plans /\ DeltaPlan.kind = "delta" /\ DeltaPlan.opens
      /\ DeltaPlan.cursor = NoCursor /\ ~DeltaPlan.resumed /\ ~DeltaPlan.band
      /\ DeltaPlan.checkpoint = src.checkpoint
      BY <1>1, Nones DEF DeltaPlan, Afresh, RoundPlan, Plans
<1>5. Choose(wanted, full) =
        IF src.round.open /\ src.round.scope = opened.scope /\ src.round.band = banded /\ ~full
        THEN resumed
        ELSE IF src.checkpoint # 0 /\ Covered(wanted) /\ ~src.round.open /\ ~full
        THEN DeltaPlan ELSE opened
      BY DEF Choose
<1> HIDE DEF opened, resumed
<1> QED BY <1>2, <1>3, <1>4, <1>5 DEF Covered

(* The heads a run may list first.                                         *)
Heads == [kind : {"none", "delta", "band"}, from : Nat]

(* What head_of answers: a head only of a round resumed.                   *)
LEMMA HeadOfIs ==
    ASSUME TypeOK, NEW plan \in Plans
    PROVE  LET head == HeadOf(plan) IN
           /\ head \in Heads
           /\ head # NoHead => plan.kind = "round" /\ ~plan.opens
           /\ head.kind = "delta" =>
                head.from = IF src.round.checkpoint # 0 \/ ~src.round.band
                            THEN src.round.checkpoint ELSE src.checkpoint
<1>1. /\ src.round.checkpoint \in Nat /\ src.checkpoint \in Nat /\ src.round.startedAt \in Nat
      BY DEF TypeOK, SourceRows, RoundRows
<1> QED BY <1>1 DEF HeadOf, NoHead, Heads

-----------------------------------------------------------------------------
(* The pages.                                                              *)

(* Whether a round's listing is by a date filter, and what it names for    *)
(* sure of what the server holds.                                          *)
Filters(plan) == (plan.band \/ conn.narrows) /\ plan.scope # Unbounded
Sure(plan, h) ==
    /\ Contains(plan.scope, Date[h]) /\ ~conn.capped
    /\ Filters(plan) => h \notin Missable

(* A delta, and a head of either kind.                                     *)
LEMMA DeltaPageIs ==
    ASSUME TypeOK, run \in Runs
    PROVE  /\ DeltaPage \in Pages /\ DeltaPage.kind = "delta"
           /\ DeltaPage.listed = Changed(run.plan.checkpoint, run.wanted)
           /\ DeltaPage.vanished = {h \in Handles \ live : mod[h] > run.plan.checkpoint}
           /\ DeltaPage.cursor = NoCursor /\ DeltaPage.checkpoint = clock
           /\ DeltaPage.narrowed = FALSE /\ DeltaPage.failing = FALSE
           /\ \A h \in DeltaPage.listed : DeltaPage.at[h] = mod[h]
<1> DEFINE items == Changed(run.plan.checkpoint, run.wanted)
           vanished == {h \in Handles \ live : mod[h] > run.plan.checkpoint}
<1>1. items \in SUBSET Handles /\ vanished \in SUBSET Handles /\ clock \in Nat
      BY DEF Changed, TypeOK
<1>2. DeltaPage = Page("delta", items, vanished, NoCursor, clock)
      BY DEF DeltaPage
<1> HIDE DEF items, vanished
<1>3. /\ DeltaPage \in Pages /\ DeltaPage.kind = "delta" /\ DeltaPage.listed = items
      /\ DeltaPage.vanished = vanished
      /\ DeltaPage.cursor = NoCursor /\ DeltaPage.checkpoint = clock
      /\ DeltaPage.narrowed = FALSE /\ DeltaPage.failing = FALSE
      /\ \A h \in items : DeltaPage.at[h] = mod[h]
      BY <1>1, <1>2, Nones DEF TypeOK, Page, Pages
<1> QED BY <1>3 DEF items, vanished

(* The page of a head (what moved since it was last listed) is a page, and *)
(* what it lists is dated by the server's stamps.                          *)
LEMMA HeadPageIs ==
    ASSUME TypeOK, run \in Runs
    PROVE  /\ HeadPage \in Pages
           /\ HeadPage.kind = IF run.head.kind = "delta" THEN "deltaHead" ELSE "bandHead"
           /\ HeadPage.listed = Changed(run.head.from, run.wanted)
           /\ HeadPage.vanished = IF run.head.kind = "delta"
                                  THEN {h \in Handles \ live : mod[h] > run.head.from} ELSE {}
           /\ HeadPage.cursor = NoCursor
           /\ HeadPage.checkpoint = IF run.head.kind = "delta" THEN clock ELSE 0
           /\ HeadPage.narrowed = FALSE /\ HeadPage.failing = FALSE
           /\ \A h \in HeadPage.listed : HeadPage.at[h] = mod[h]
<1> DEFINE items == Changed(run.head.from, run.wanted)
           vanished == {h \in Handles \ live : mod[h] > run.head.from}
<1>1. /\ items \in SUBSET Handles /\ vanished \in SUBSET Handles /\ clock \in Nat
      /\ {} \in SUBSET Handles /\ 0 \in Nat
      BY DEF Changed, TypeOK
<1>2. HeadPage = IF run.head.kind = "delta"
                 THEN Page("deltaHead", items, vanished, NoCursor, clock)
                 ELSE Page("bandHead", items, {}, NoCursor, 0)
      BY DEF HeadPage
<1> HIDE DEF items, vanished
<1>3. /\ HeadPage \in Pages
      /\ HeadPage.kind = IF run.head.kind = "delta" THEN "deltaHead" ELSE "bandHead"
      /\ HeadPage.listed = items
      /\ HeadPage.vanished = IF run.head.kind = "delta" THEN vanished ELSE {}
      /\ HeadPage.cursor = NoCursor
      /\ HeadPage.checkpoint = IF run.head.kind = "delta" THEN clock ELSE 0
      /\ HeadPage.narrowed = FALSE /\ HeadPage.failing = FALSE
      /\ \A h \in items : HeadPage.at[h] = mod[h]
  <2>1. CASE run.head.kind = "delta"
        BY <1>1, <1>2, <2>1, Nones DEF TypeOK, Page, Pages
  <2>2. CASE run.head.kind # "delta"
        BY <1>1, <1>2, <2>2, Nones DEF TypeOK, Page, Pages
  <2> QED BY <2>1, <2>2
<1> QED BY <1>3 DEF items, vanished

(* One page of a round.                                                    *)
Began(plan) == IF plan.cursor = NoCursor THEN clock ELSE plan.cursor.mod
Reaches(plan) == plan.cursor.pos + conn.page
(* A page of a round, field by field: it is the last when its reach passes *)
(* the last position, and a partial one carries the cursor to go on from.  *)
LEMMA RoundPageIs ==
    ASSUME TypeOK, NEW plan \in Plans, NEW missed
    PROVE  LET p    == RoundPage(plan, missed)
               last == Reaches(plan) >= N
           IN
           /\ p \in Pages /\ p.kind = IF last THEN "last" ELSE "partial"
           /\ p.vanished = {} /\ p.failing = FALSE
           /\ last => p.cursor = NoCursor
           /\ ~last => p.cursor.pos = Reaches(plan) /\ p.cursor.mod = Began(plan)
           /\ p.checkpoint = IF plan.band THEN 0
                             ELSE IF plan.cursor = NoCursor /\ conn.upfront THEN clock
                             ELSE IF last /\ ~conn.upfront THEN Began(plan) ELSE 0
           /\ p.narrowed <=> (last /\ Filters(plan))
           /\ p.enumerates => p.enumerated = live
           /\ p.capped <=> (last /\ conn.capped)
           /\ p.listed \subseteq live
           /\ p.at = [h \in Handles |-> IF h \in p.listed THEN mod[h] ELSE 0]
           /\ \A h \in live : (/\ plan.cursor.pos < h /\ h <= Reaches(plan)
                               /\ Contains(plan.scope, Date[h])
                               /\ Filters(plan) \/ conn.capped => h \notin missed)
                            => h \in p.listed
<1> DEFINE last == Reaches(plan) >= N
           first == plan.cursor = NoCursor
           narrowed == last /\ Filters(plan)
           again == IF last /\ "band" \in conn.heads /\ ~first
                    THEN Changed(src.round.startedAt, plan.scope) ELSE {}
           reach == {h \in live : /\ plan.cursor.pos < h /\ h <= Reaches(plan)
                                  /\ Contains(plan.scope, Date[h])} \cup again
           items == IF Filters(plan) \/ conn.capped THEN reach \ missed ELSE reach
           kind == IF last THEN "last" ELSE "partial"
           cursor == IF last THEN NoCursor ELSE [pos |-> Reaches(plan), mod |-> Began(plan)]
           checkpoint == IF plan.band THEN 0
                         ELSE IF first /\ conn.upfront THEN clock
                         ELSE IF last /\ ~conn.upfront THEN Began(plan) ELSE 0
           page == Page(kind, items, {}, cursor, checkpoint)
           p == [page EXCEPT !.narrowed = narrowed,
                             !.enumerates = narrowed /\ conn.enumerates,
                             !.enumerated = IF narrowed /\ conn.enumerates THEN live ELSE {},
                             !.capped = conn.capped /\ last]
<1>1. RoundPage(plan, missed) = p
      BY DEF RoundPage, Reaches, Filters, Began
<1>2. /\ plan.cursor \in Cursors /\ clock \in Nat /\ conn.page \in 1..N
      /\ conn.capped \in BOOLEAN /\ conn.narrows \in BOOLEAN /\ conn.enumerates \in BOOLEAN
      /\ plan.band \in BOOLEAN /\ live \subseteq Handles
      BY RoundsAssumption DEF Plans, TypeOK
<1>3. Reaches(plan) \in Nat /\ Began(plan) \in Nat
      BY <1>2, Nones DEF Reaches, Began, Cursors
<1>4. /\ items \in SUBSET Handles /\ items \subseteq live
      BY <1>2 DEF Changed
<1>5. /\ cursor \in Cursors /\ checkpoint \in Nat /\ kind \in {"last", "partial"}
      BY <1>2, <1>3, Nones DEF Cursors
<1>6. /\ page \in Pages /\ page.kind = kind /\ page.listed = items /\ page.vanished = {}
      /\ page.cursor = cursor /\ page.checkpoint = checkpoint /\ page.failing = FALSE
      /\ page.at = [h \in Handles |-> IF h \in items THEN mod[h] ELSE 0]
  <2>1. {} \in SUBSET Handles
        OBVIOUS
  <2> HIDE DEF kind, items, cursor, checkpoint
  <2> QED BY <1>4, <1>5, <2>1 DEF TypeOK, Page, Pages
<1>7. /\ p \in Pages /\ p.kind = kind /\ p.listed = items /\ p.vanished = {}
      /\ p.cursor = cursor /\ p.checkpoint = checkpoint /\ p.failing = FALSE
      /\ p.at = page.at /\ p.narrowed = narrowed /\ p.capped = (conn.capped /\ last)
      /\ p.enumerates = (narrowed /\ conn.enumerates)
      /\ p.enumerated = IF narrowed /\ conn.enumerates THEN live ELSE {}
  <2>1. narrowed \in BOOLEAN /\ (conn.capped /\ last) \in BOOLEAN
        OBVIOUS
  <2>2. live \in SUBSET Handles
        BY <1>2
  <2> HIDE DEF page, kind, items, cursor, checkpoint, narrowed, last
  <2> QED BY <1>2, <1>6, <2>1, <2>2 DEF Pages
<1>8. \A h \in live : (/\ plan.cursor.pos < h /\ h <= Reaches(plan)
                       /\ Contains(plan.scope, Date[h])
                       /\ Filters(plan) \/ conn.capped => h \notin missed)
                    => h \in items
  <2> SUFFICES ASSUME NEW h \in live, plan.cursor.pos < h, h <= Reaches(plan),
                      Contains(plan.scope, Date[h]),
                      Filters(plan) \/ conn.capped => h \notin missed
               PROVE  h \in items
      OBVIOUS
  <2>1. h \in reach
        OBVIOUS
  <2> HIDE DEF reach
  <2> QED BY <2>1
<1> HIDE DEF page, items, p, narrowed
<1>9. p.narrowed <=> (last /\ Filters(plan))
      BY <1>7 DEF narrowed
<1>10. /\ last => p.cursor = NoCursor
       /\ ~last => p.cursor.pos = Reaches(plan) /\ p.cursor.mod = Began(plan)
      BY <1>7
<1> HIDE DEF cursor
<1> QED BY <1>1, <1>4, <1>6, <1>7, <1>8, <1>9, <1>10

(* The page of a connector that names nothing.                             *)
NothingPage(plan) ==
    [Page("last", {}, {}, NoCursor, IF plan.band THEN 0 ELSE clock) EXCEPT !.failing = TRUE]
(* The page of a listing that failed to name anything.                     *)
LEMMA NothingPageIs ==
    ASSUME TypeOK, NEW plan \in Plans
    PROVE  LET p == NothingPage(plan) IN
           /\ p \in Pages /\ p.kind = "last" /\ p.listed = {} /\ p.vanished = {}
           /\ p.cursor = NoCursor /\ p.checkpoint = IF plan.band THEN 0 ELSE clock
           /\ p.narrowed = FALSE /\ p.failing = TRUE
<1> DEFINE q == Page("last", {}, {}, NoCursor, IF plan.band THEN 0 ELSE clock)
<1>1. /\ q \in Pages /\ q.kind = "last" /\ q.listed = {} /\ q.vanished = {}
      /\ q.cursor = NoCursor /\ q.checkpoint = IF plan.band THEN 0 ELSE clock
      /\ q.narrowed = FALSE
      BY Nones DEF TypeOK, Page, Pages
<1> HIDE DEF q
<1>2. NothingPage(plan) = [q EXCEPT !.failing = TRUE]
      BY DEF NothingPage, q
<1> QED BY <1>1, <1>2 DEF Pages

-----------------------------------------------------------------------------
(* What a step makes of the run.                                           *)

(* Plans that differ in opens alone, pages in kind alone.                  *)
SamePlan(p, q) ==
    /\ p.kind = q.kind /\ p.scope = q.scope /\ p.span = q.span /\ p.band = q.band
    /\ p.cursor = q.cursor /\ p.checkpoint = q.checkpoint /\ p.resumed = q.resumed
SamePage(p, q) ==
    /\ p.listed = q.listed /\ p.at = q.at /\ p.vanished = q.vanished
    /\ p.cursor = q.cursor /\ p.checkpoint = q.checkpoint /\ p.narrowed = q.narrowed
    /\ p.enumerates = q.enumerates /\ p.enumerated = q.enumerated
    /\ p.capped = q.capped /\ p.failing = q.failing

(* What a merge opened over a page drops for its absence.                  *)
DroppedAbsent(r) == IF Parks(r) THEN {} ELSE Absent(r)

(* What a merge finds absent are handles of the source.                    *)
LEMMA AbsentBound ==
    ASSUME TypeOK, NEW r
    PROVE  Absent(r) \in SUBSET Handles /\ DroppedAbsent(r) \in SUBSET Handles
BY DEF Absent, DroppedAbsent, InRound, Unstamped, Bound

(* open_merge, field by field.                                             *)
LEMMA MergingIs ==
    ASSUME TypeOK, NEW r \in Runs, r.page \in Pages
    PROVE  LET m == Merging(r) IN
           /\ m \in Runs /\ m.state = "merging" /\ m.wanted = r.wanted
           /\ m.accept = r.accept /\ m.head = r.head /\ m.pushed = r.pushed
           /\ m.plan \in Plans /\ SamePlan(m.plan, r.plan)
           /\ m.plan.opens <=> (r.plan.opens /\ ~Opening(r))
           /\ m.named <=> (r.named \/ (r.page.kind # "delta" /\ r.page.listed # {}))
           /\ m.roundOpen <=> (r.roundOpen \/ Opening(r))
           /\ m.opening <=> (Opening(r) \/ (Parks(r) /\ r.plan.cursor # NoCursor))
           /\ m.off = IF Opening(r) THEN r.off ELSE gone
           /\ m.page \in Pages /\ SamePage(m.page, r.page)
           /\ m.page.kind = IF Parks(r) THEN "parked" ELSE r.page.kind
           /\ m.absent = DroppedAbsent(r)
           /\ m.dropped = r.page.vanished \cup DroppedAbsent(r)
           /\ m.todo = r.page.listed \cup (m.dropped \cap Bound)
<1> DEFINE dropped == r.page.vanished \cup DroppedAbsent(r)
           plan == [r.plan EXCEPT !.opens = r.plan.opens /\ ~Opening(r)]
           page == [r.page EXCEPT !.kind = IF Parks(r) THEN "parked" ELSE r.page.kind]
           named == r.named \/ (r.page.kind # "delta" /\ r.page.listed # {})
           roundOpen == r.roundOpen \/ Opening(r)
           opening == Opening(r) \/ (Parks(r) /\ r.plan.cursor # NoCursor)
           off == IF Opening(r) THEN r.off ELSE gone
           todo == r.page.listed \cup (dropped \cap Bound)
           m == [r EXCEPT !.state = "merging", !.plan = plan, !.named = named,
                          !.roundOpen = roundOpen, !.opening = opening, !.off = off,
                          !.page = page, !.absent = DroppedAbsent(r), !.dropped = dropped,
                          !.todo = todo]
<1>1. Merging(r) = m
      BY DEF Merging, DroppedAbsent
<1>2. /\ plan \in Plans /\ SamePlan(plan, r.plan)
      /\ plan.opens <=> (r.plan.opens /\ ~Opening(r))
  <2>1. r.plan \in Plans /\ (r.plan.opens /\ ~Opening(r)) \in BOOLEAN
        BY DEF Runs
  <2> QED BY <2>1 DEF Plans, SamePlan
<1>3. /\ page \in Pages /\ SamePage(page, r.page)
      /\ page.kind = IF Parks(r) THEN "parked" ELSE r.page.kind
      BY DEF Pages, SamePage
<1>4. /\ dropped \in SUBSET Handles /\ todo \in SUBSET Handles /\ off \in SUBSET Handles
      /\ named \in BOOLEAN /\ roundOpen \in BOOLEAN /\ opening \in BOOLEAN
      BY AbsentBound DEF Pages, TypeOK, Runs
<1>5. /\ m \in Runs /\ m.state = "merging" /\ m.wanted = r.wanted
      /\ m.accept = r.accept /\ m.head = r.head /\ m.pushed = r.pushed
      /\ m.plan = plan /\ m.page = page /\ m.named = named /\ m.roundOpen = roundOpen
      /\ m.opening = opening /\ m.off = off /\ m.absent = DroppedAbsent(r)
      /\ m.dropped = dropped /\ m.todo = todo
  <2> HIDE DEF plan, page, dropped, todo, off, named, roundOpen, opening
  <2> QED BY <1>2, <1>3, <1>4, AbsentBound DEF Runs
<1>6. /\ m.named <=> named
      /\ m.roundOpen <=> roundOpen
      /\ m.opening <=> opening
  <2> HIDE DEF m, named, roundOpen, opening
  <2> QED BY <1>5
<1> HIDE DEF m, plan, page
<1> QED BY <1>1, <1>2, <1>3, <1>5, <1>6

(* The run as a page is taken.                                             *)
LEMMA TakenIs ==
    ASSUME TypeOK, run \in Runs, NEW plan \in Plans, NEW page \in Pages
    PROVE  LET r == Taken(plan, page) IN
           /\ r \in Runs /\ r.state = run.state /\ r.wanted = run.wanted
           /\ r.accept = run.accept /\ r.plan = plan /\ r.head = NoHead
           /\ r.named = run.named /\ r.roundOpen = run.roundOpen
           /\ r.opening = run.opening /\ r.off = Handles \ live /\ r.page = page
           /\ r.absent = run.absent /\ r.dropped = run.dropped /\ r.todo = run.todo
           /\ r.pushed = run.pushed
<1>1. NoHead \in [kind : {"none", "delta", "band"}, from : Nat] /\ Handles \ live \in SUBSET Handles
      BY DEF NoHead
<1> QED BY <1>1 DEF Taken, Runs

(* Runs that differ in off alone.                                          *)
SameButOff(r, q) ==
    /\ r.state = q.state /\ r.wanted = q.wanted /\ r.accept = q.accept /\ r.plan = q.plan
    /\ r.head = q.head /\ r.named = q.named /\ r.roundOpen = q.roundOpen
    /\ r.opening = q.opening /\ r.page = q.page /\ r.absent = q.absent
    /\ r.dropped = q.dropped /\ r.todo = q.todo /\ r.pushed = q.pushed

(* Another client changes a member.                                        *)
LEMMA ClientIs ==
    ASSUME TypeOK, NEW h \in Handles, ClientAdds(h) \/ ClientEdits(h) \/ ClientRemoves(h)
    PROVE  /\ UNCHANGED <<conn, held, stamp, src, create, faults, seen, park>>
           /\ clock' = clock + 1 /\ mod' \in [Handles -> Nat] /\ mod'[h] = clock + 1
           /\ \A k \in Handles : k # h => mod'[k] = mod[k] /\ (k \in live' <=> k \in live)
           /\ live' \subseteq Handles
           /\ live' \cap Arrivals \subseteq live
           /\ gone' = gone \cup (live \ live')
           /\ run = NoRun => run' = NoRun
           /\ run \in Runs => /\ run' \in Runs /\ SameButOff(run', run)
                              /\ run'.off = run.off \cup (live \ live')
<1>1. /\ UNCHANGED <<conn, held, stamp, src, create, faults, seen, park>>
      /\ clock' = clock + 1 /\ mod' \in [Handles -> Nat] /\ mod'[h] = clock + 1
      /\ \A k \in Handles : k # h => mod'[k] = mod[k]
      BY DEF ClientAdds, ClientEdits, ClientRemoves, Changes, TypeOK, store
<1>2. CASE ClientAdds(h) \/ ClientEdits(h)
  <2>1. /\ live \subseteq live' /\ live' \subseteq live \cup {h}
        /\ h \in Arrivals => live' = live
        /\ run' = run /\ gone' = gone
        BY <1>2 DEF ClientAdds, ClientEdits
  <2>2. run \in Runs => run'.off = run.off \cup (live \ live')
        BY <2>1 DEF Runs
  <2> QED BY <1>1, <2>1, <2>2 DEF SameButOff, TypeOK
<1>3. CASE ClientRemoves(h)
  <2>1. /\ h \in live /\ live' = live \ {h} /\ gone' = gone \cup {h}
        /\ run' = IF Idle THEN run ELSE [run EXCEPT !.off = @ \cup {h}]
        BY <1>3 DEF ClientRemoves
  <2>2. run \in Runs => ~Idle
        BY Tags DEF Idle
  <2>3. run \in Runs => /\ run' \in Runs /\ SameButOff(run', run) /\ run'.off = run.off \cup {h}
        BY <2>1, <2>2 DEF Runs, SameButOff
  <2> QED BY <1>1, <2>1, <2>3 DEF TypeOK, Idle
<1> QED BY <1>2, <1>3

(* A run begins.                                                           *)
LEMMA StartIs ==
    ASSUME TypeOK, NEW wanted \in Wanted, NEW full \in BOOLEAN, NEW accept \in BOOLEAN,
           Start(wanted, full, accept)
    PROVE  /\ UNCHANGED <<conn, live, mod, clock, held, stamp, src, create, faults, gone, seen, park>>
           /\ run = NoRun /\ run' \in Runs /\ run'.state = "enumerating" /\ run'.wanted = wanted
           /\ run'.plan = Choose(wanted, full) /\ run'.plan \in Plans
           /\ run'.head = HeadOf(run'.plan) /\ run'.opening = FALSE /\ run'.page = NoPage
           /\ run'.pushed = {}
<1>1. /\ UNCHANGED <<conn, live, mod, clock, held, stamp, src, create, faults, gone, seen, park>>
      /\ run = NoRun
      BY DEF Start, Idle, server, store, history
<1>2. Choose(wanted, full) \in Plans
      BY ChooseIs
<1>3. HeadOf(Choose(wanted, full)) \in Heads
      BY <1>2, HeadOfIs
<1>4. src.round.open \in BOOLEAN
      BY DEF TypeOK, SourceRows, RoundRows
<1>5. run' = [state |-> "enumerating", wanted |-> wanted, accept |-> accept,
              plan |-> Choose(wanted, full), head |-> HeadOf(Choose(wanted, full)),
              named |-> FALSE, roundOpen |-> src.round.open, opening |-> FALSE, off |-> {},
              page |-> NoPage, absent |-> {}, dropped |-> {}, todo |-> {}, pushed |-> {}]
      BY DEF Start
<1> QED BY <1>1, <1>2, <1>3, <1>4, <1>5 DEF Runs, Heads

(* A page taken, whichever it is.                                          *)
LEMMA TakesIs ==
    ASSUME TypeOK, run \in Runs, NEW plan \in Plans, NEW page \in Pages, Takes(plan, page)
    PROVE  LET r == Taken(plan, page) IN
           /\ UNCHANGED <<conn, live, mod, clock, held, stamp, src, create, gone, seen, park>>
           /\ run' \in Runs /\ r \in Runs /\ r.page \in Pages
           /\ ~OpensFirst(r) => run' = Merging(r)
           /\ OpensFirst(r) => /\ run'.state = "opening" /\ run'.wanted = r.wanted
                               /\ run'.plan = r.plan /\ run'.head = r.head
                               /\ run'.opening = r.opening /\ run'.off = r.off
                               /\ run'.page = r.page /\ run'.pushed = r.pushed
<1>1. Taken(plan, page) \in Runs /\ Taken(plan, page).page \in Pages
      BY TakenIs
<1>2. /\ UNCHANGED <<conn, live, mod, clock, held, stamp, src, create, gone, seen, park>>
      /\ run' = IF OpensFirst(Taken(plan, page)) THEN [Taken(plan, page) EXCEPT !.state = "opening"]
                ELSE Merging(Taken(plan, page))
      BY DEF Takes, server, store, history
<1>3. Merging(Taken(plan, page)) \in Runs
      BY <1>1, MergingIs
<1> QED BY <1>1, <1>2, <1>3 DEF Runs

(* The write of its own that opens a narrowed round.                       *)
LEMMA OpenedIs ==
    ASSUME TypeOK, NEW plan \in Plans
    PROVE  LET row == Opened(src, plan) IN
           /\ row \in SourceRows /\ row.checkpoint = src.checkpoint
           /\ row.coverage = src.coverage /\ row.round \in RoundRows
           /\ row.round.open = TRUE /\ row.round.scope = plan.scope
           /\ row.round.band = plan.band /\ row.round.cursor = NoCursor
           /\ row.round.checkpoint = 0
BY Nones DEF TypeOK, Opened, SourceRows, RoundRows, Plans

(* Opening a round whose scope the listing narrows, field by field: the    *)
(* round is persisted before its first page is asked for.                  *)
LEMMA OpenNarrowedIs ==
    ASSUME TypeOK, run \in Runs, OpenNarrowed
    PROVE  /\ UNCHANGED <<conn, live, mod, clock, held, create, faults>>
           /\ run.state = "opening" /\ src' = Opened(src, run.plan) /\ src' \in SourceRows
           /\ stamp' = {} /\ gone' = run.off /\ seen' = FALSE
           /\ park' \in [round : BOOLEAN, coverage : BOOLEAN]
           /\ park'.round = FALSE /\ park'.coverage = park.coverage
           /\ run' \in Runs /\ run'.state = "loading" /\ run'.wanted = run.wanted
           /\ run'.accept = run.accept
           /\ run'.plan \in Plans /\ SamePlan(run'.plan, run.plan) /\ run'.plan.opens = FALSE
           /\ run'.head = run.head /\ run'.opening = run.opening /\ run'.page = run.page
           /\ run'.pushed = run.pushed
<1> DEFINE plan == [run.plan EXCEPT !.opens = FALSE]
<1>1. plan \in Plans /\ SamePlan(plan, run.plan) /\ plan.opens = FALSE
      BY DEF Runs, Plans, SamePlan
<1>2. run' = [run EXCEPT !.state = "loading", !.plan = plan, !.roundOpen = TRUE]
      BY DEF OpenNarrowed
<1>3. src' = Opened(src, run.plan) /\ src' \in SourceRows
      BY OpenedIs DEF OpenNarrowed, Runs
<1>4. /\ park' \in [round : BOOLEAN, coverage : BOOLEAN]
      /\ park'.round = FALSE /\ park'.coverage = park.coverage
      BY DEF OpenNarrowed, TypeOK
<1>5. /\ UNCHANGED <<conn, live, mod, clock, held, create, faults>>
      /\ run.state = "opening" /\ stamp' = {} /\ gone' = run.off /\ seen' = FALSE
      BY DEF OpenNarrowed, server
<1> HIDE DEF plan
<1> QED BY <1>1, <1>2, <1>3, <1>4, <1>5 DEF Runs

(* The row and the stamps a commit starts from.                            *)
LEMMA RowIs ==
    ASSUME TypeOK, run \in Runs
    PROVE  /\ Row \in SourceRows /\ Row.round \in RoundRows
           /\ Row.checkpoint = src.checkpoint /\ Row.coverage = src.coverage
           /\ Row.checkpoint \in Nat /\ Row.coverage \in Ranges
           /\ Stamps \subseteq Handles
           /\ ~run.opening => Row = src /\ Stamps = stamp
           /\ run.opening => /\ Row = Opened(src, run.plan) /\ Stamps = {}
                             /\ Row.round.open = TRUE /\ Row.round.scope = run.plan.scope
                             /\ Row.round.band = run.plan.band
                             /\ Row.round.cursor = NoCursor /\ Row.round.checkpoint = 0
<1>1. run.plan \in Plans
      BY DEF Runs
<1>2. Opened(src, run.plan) \in SourceRows
      BY <1>1, OpenedIs
<1>3. Row \in SourceRows /\ Stamps \subseteq Handles
      BY <1>2 DEF Row, Stamps, TypeOK
<1>4. Row.round \in RoundRows /\ Row.checkpoint \in Nat /\ Row.coverage \in Ranges
      BY <1>3 DEF SourceRows
<1> QED BY <1>1, <1>3, <1>4, OpenedIs DEF Row, Stamps

(* Merging one handle of a page, field by field: its row alone changes,    *)
(* and the opening of the round is persisted with the first one.           *)
LEMMA MergeIs ==
    ASSUME TypeOK, run \in Runs, run.page \in Pages, NEW h \in Handles, Merge(h)
    PROVE  /\ UNCHANGED <<conn, live, mod, clock, faults>>
           /\ run.state = "merging" /\ h \in run.todo
           /\ held' \in [Handles -> Nat]
           /\ held'[h] = IF h \in run.dropped THEN 0 ELSE run.page.at[h]
           /\ \A k \in Handles : k # h => held'[k] = held[k]
           /\ src' = Row /\ src' \in SourceRows
           /\ stamp' = IF h \in run.dropped THEN Stamps \ {h} ELSE Stamps
           /\ create' = IF h \in Arrivals \ run.dropped THEN "landed" ELSE create
           /\ gone' = IF run.opening THEN run.off ELSE gone
           /\ seen' = (seen /\ ~run.opening)
           /\ park' \in [round : BOOLEAN, coverage : BOOLEAN]
           /\ park'.round = (park.round /\ ~run.opening) /\ park'.coverage = park.coverage
           /\ run' \in Runs /\ run'.state = "merging" /\ run'.wanted = run.wanted
           /\ run'.accept = run.accept /\ run'.plan = run.plan /\ run'.head = run.head
           /\ run'.opening = FALSE /\ run'.off = run.off /\ run'.page = run.page
           /\ run'.absent = run.absent /\ run'.dropped = run.dropped
           /\ run'.todo = run.todo \ {h} /\ run'.pushed = run.pushed
<1>1. /\ UNCHANGED <<conn, live, mod, clock, faults>>
      /\ run.state = "merging" /\ h \in run.todo /\ src' = Row /\ src' \in SourceRows
      /\ stamp' = IF h \in run.dropped THEN Stamps \ {h} ELSE Stamps
      /\ create' = IF h \in Arrivals \ run.dropped THEN "landed" ELSE create
      /\ gone' = IF run.opening THEN run.off ELSE gone
      /\ seen' = (seen /\ ~run.opening)
      BY RowIs DEF Merge, Commits, server
<1>2. /\ held' \in [Handles -> Nat]
      /\ held'[h] = IF h \in run.dropped THEN 0 ELSE run.page.at[h]
      /\ \A k \in Handles : k # h => held'[k] = held[k]
      BY DEF Merge, TypeOK, Pages
<1>3. /\ park' \in [round : BOOLEAN, coverage : BOOLEAN]
      /\ park'.round = (park.round /\ ~run.opening) /\ park'.coverage = park.coverage
      BY DEF Merge, Commits, TypeOK
<1>4. run' = [run EXCEPT !.todo = @ \ {h}, !.opening = FALSE]
      BY DEF Merge
<1> QED BY <1>1, <1>2, <1>3, <1>4 DEF Runs

(* Pushing the pending create, field by field: the server takes it under a *)
(* handle never seen, answered or not.                                     *)
LEMMA PushIs ==
    ASSUME TypeOK, run \in Runs, NEW a \in Arrivals, NEW answered \in BOOLEAN, Push(a, answered)
    PROVE  /\ UNCHANGED <<conn, held, stamp, src, create, gone, seen, park>>
           /\ run.state = "merging" /\ run.todo = {} /\ a \in Handles
           /\ create = "pending" /\ ~HoldsCreates /\ Contains(run.wanted, Date[a]) /\ mod[a] = 0
           /\ clock' = clock + 1 /\ mod' \in [Handles -> Nat] /\ mod'[a] = clock + 1
           /\ \A k \in Handles : k # a => mod'[k] = mod[k]
           /\ live' = live \cup {a} /\ faults' \in Nat
           /\ run' \in Runs /\ run'.state = "landing" /\ run'.wanted = run.wanted
           /\ run'.accept = run.accept /\ run'.plan = run.plan /\ run'.head = run.head
           /\ run'.opening = run.opening /\ run'.off = run.off /\ run'.page = run.page
           /\ run'.absent = run.absent /\ run'.dropped = run.dropped /\ run'.todo = run.todo
           /\ run'.pushed \subseteq {a}
<1>1. /\ UNCHANGED <<conn, held, stamp, src, create, gone, seen, park>>
      /\ run.state = "merging" /\ run.todo = {} /\ a \in Handles
      /\ create = "pending" /\ ~HoldsCreates /\ Contains(run.wanted, Date[a]) /\ mod[a] = 0
      /\ clock' = clock + 1 /\ live' = live \cup {a}
      BY RoundsAssumption DEF Push, Pushable, store, history
<1>2. /\ mod' \in [Handles -> Nat] /\ mod'[a] = clock + 1
      /\ \A k \in Handles : k # a => mod'[k] = mod[k]
      BY <1>1 DEF Push, TypeOK
<1>3. faults' \in Nat
      BY DEF Push, Fault, TypeOK
<1>4. run' = [run EXCEPT !.state = "landing", !.pushed = IF answered THEN {a} ELSE {}]
      BY DEF Push
<1> QED BY <1>1, <1>2, <1>3, <1>4 DEF Runs

(* The tail of a page's last write, by the kind of the page.               *)
LEMMA TailIs ==
    ASSUME TypeOK, run \in Runs, run.page \in Pages, NEW row \in SourceRows
    PROVE  LET page == run.page
               plan == run.plan
               tail == Tail(row)
               fresh == IF plan.band THEN 0 ELSE page.checkpoint
           IN
           /\ tail \in SourceRows
           /\ page.kind = "delta" =>
                /\ tail.checkpoint = page.checkpoint /\ tail.round = row.round
                /\ tail.coverage = IF /\ plan.kind = "delta" /\ row.coverage # NoScope
                                      /\ row.coverage # run.wanted
                                      /\ Covers(row.coverage, run.wanted)
                                   THEN run.wanted ELSE row.coverage
           /\ page.kind \in {"partial", "parked", "deltaHead", "bandHead"} =>
                /\ tail.checkpoint = row.checkpoint /\ tail.coverage = row.coverage
                /\ tail.round \in RoundRows
                /\ tail.round.open = row.round.open /\ tail.round.scope = row.round.scope
                /\ tail.round.band = row.round.band
                /\ tail.round.cursor = IF page.kind = "partial" THEN page.cursor
                                       ELSE row.round.cursor
                /\ page.kind = "partial" =>
                     tail.round.checkpoint = Coalesce(fresh, row.round.checkpoint)
                /\ page.kind = "parked" /\ plan.band =>
                     tail.round.checkpoint = row.round.checkpoint
                /\ page.kind = "parked" /\ ~plan.band =>
                     tail.round.checkpoint \in {page.checkpoint, plan.checkpoint,
                                               row.round.checkpoint}
                /\ page.kind = "deltaHead" => tail.round.checkpoint = page.checkpoint
                /\ page.kind = "bandHead" => tail = row
           /\ page.kind = "last" =>
                /\ tail.coverage = plan.span /\ tail.round = NoRound
                /\ tail.checkpoint = Coalesce(fresh, Coalesce(row.round.checkpoint, row.checkpoint))
<1> DEFINE page == run.page
           plan == run.plan
           fresh == IF plan.band THEN 0 ELSE page.checkpoint
           parked == IF plan.band THEN row.round.checkpoint
                     ELSE Coalesce(Coalesce(page.checkpoint, plan.checkpoint), row.round.checkpoint)
           partial == [row.round EXCEPT !.cursor = page.cursor,
                                        !.checkpoint = Coalesce(fresh, row.round.checkpoint)]
           kept == [row.round EXCEPT !.checkpoint = parked]
           headed == [row.round EXCEPT !.checkpoint = page.checkpoint]
<1>1. /\ plan \in Plans /\ row.round \in RoundRows /\ row.checkpoint \in Nat
      /\ row.coverage \in Ranges /\ page.checkpoint \in Nat /\ plan.checkpoint \in Nat
      /\ row.round.checkpoint \in Nat /\ page.cursor \in Cursors /\ plan.span \in Ranges
      /\ plan.band \in BOOLEAN /\ run.wanted \in Ranges
      BY RoundsAssumption DEF Runs, Plans, Pages, SourceRows, RoundRows, Ranges
<1>2. /\ fresh \in Nat /\ Coalesce(fresh, row.round.checkpoint) \in Nat
      /\ parked \in Nat
      /\ ~plan.band => parked \in {page.checkpoint, plan.checkpoint, row.round.checkpoint}
      /\ Coalesce(fresh, Coalesce(row.round.checkpoint, row.checkpoint)) \in Nat
      BY <1>1 DEF Coalesce
<1> HIDE DEF fresh, parked
<1>3. /\ partial \in RoundRows /\ partial.open = row.round.open
      /\ partial.scope = row.round.scope /\ partial.band = row.round.band
      /\ partial.cursor = page.cursor
      /\ partial.checkpoint = Coalesce(fresh, row.round.checkpoint)
      BY <1>1, <1>2 DEF RoundRows
<1>4. /\ kept \in RoundRows /\ kept.open = row.round.open
      /\ kept.scope = row.round.scope /\ kept.band = row.round.band
      /\ kept.cursor = row.round.cursor /\ kept.checkpoint = parked
      BY <1>1, <1>2 DEF RoundRows
<1>5. /\ headed \in RoundRows /\ headed.open = row.round.open
      /\ headed.scope = row.round.scope /\ headed.band = row.round.band
      /\ headed.cursor = row.round.cursor /\ headed.checkpoint = page.checkpoint
      BY <1>1 DEF RoundRows
<1>6. CASE page.kind = "delta"
  <2>1. Tail(row) = [row EXCEPT !.checkpoint = page.checkpoint,
                                !.coverage = IF /\ plan.kind = "delta" /\ row.coverage # NoScope
                                                /\ row.coverage # run.wanted
                                                /\ Covers(row.coverage, run.wanted)
                                             THEN run.wanted ELSE row.coverage]
        BY <1>6 DEF Tail
  <2> QED BY <1>1, <1>6, <2>1 DEF SourceRows
<1>7. CASE page.kind = "partial"
  <2>1. Tail(row) = [row EXCEPT !.round = partial]
        BY <1>7 DEF Tail, fresh
  <2> HIDE DEF partial
  <2> QED BY <1>1, <1>3, <1>7, <2>1 DEF SourceRows, fresh
<1>8. CASE page.kind = "parked"
  <2>1. Tail(row) = [row EXCEPT !.round = kept]
        BY <1>8 DEF Tail, parked
  <2>2. plan.band => parked = row.round.checkpoint
        BY DEF parked
  <2> HIDE DEF kept
  <2> QED BY <1>1, <1>2, <1>4, <1>8, <2>1, <2>2 DEF SourceRows
<1>9. CASE page.kind = "deltaHead"
  <2>1. Tail(row) = [row EXCEPT !.round = headed]
        BY <1>9 DEF Tail
  <2> HIDE DEF headed
  <2> QED BY <1>1, <1>5, <1>9, <2>1 DEF SourceRows
<1>10. CASE page.kind = "bandHead"
  <2>1. Tail(row) = row
        BY <1>10 DEF Tail
  <2> QED BY <1>1, <1>10, <2>1
<1>11. CASE page.kind = "last"
  <2>1. Tail(row) = [checkpoint |-> Coalesce(fresh, Coalesce(row.round.checkpoint, row.checkpoint)),
                     coverage |-> plan.span, round |-> NoRound]
        BY <1>11 DEF Tail, fresh
  <2> QED BY <1>1, <1>2, <1>11, <2>1, Nones DEF SourceRows, fresh
<1>12. page.kind \in {"delta", "deltaHead", "bandHead", "partial", "last", "parked"}
      BY DEF Pages
<1> QED BY <1>6, <1>7, <1>8, <1>9, <1>10, <1>11, <1>12

(* The kinds of page a run goes on after.                                  *)
Onward == {"deltaHead", "bandHead", "partial"}

(* Landing a page, field by field: the stamps of what it lists, the handle *)
(* of a create that was answered, and the tail of the source's row.        *)
LEMMA LandIs ==
    ASSUME TypeOK, run \in Runs, run.page \in Pages, Land
    PROVE  /\ UNCHANGED <<conn, live, mod, clock, faults>>
           /\ run.state \in {"merging", "landing"}
           /\ run.state = "merging" => run.todo = {}
           /\ src' = Tail(Row) /\ src' \in SourceRows
           /\ stamp' = Stamps \cup (Stamped(run.page) \ run.dropped) /\ stamp' \subseteq Handles
           /\ held' \in [Handles -> Nat]
           /\ \A h \in Handles : held'[h] = IF h \in run.pushed THEN mod[h] ELSE held[h]
           /\ create' = IF run.pushed # {} THEN "landed" ELSE create
           /\ gone' = IF run.opening THEN run.off ELSE gone
           /\ seen' = (Stamped(run.page) \ run.dropped # {} \/ (seen /\ ~run.opening))
           /\ park' \in [round : BOOLEAN, coverage : BOOLEAN]
           /\ run.page.kind # "last" => park'.coverage = park.coverage
           /\ run.page.kind \notin {"last", "parked"} => park'.round = (park.round /\ ~run.opening)
           /\ run.page.kind = "parked" => park'.round = TRUE
           /\ run.page.kind = "last" =>
                park'.coverage = ((park.round /\ ~run.opening) \/ (park.coverage /\ run.plan.band))
           /\ run.page.kind \notin Onward => run' = NoRun
           /\ run.page.kind \in Onward =>
                /\ run' \in Runs /\ run'.state = "enumerating" /\ run'.wanted = run.wanted
                /\ run'.plan \in Plans /\ run'.plan.kind = run.plan.kind
                /\ run'.plan.scope = run.plan.scope /\ run'.plan.span = run.plan.span
                /\ run'.plan.band = run.plan.band /\ run'.plan.opens = run.plan.opens
                /\ run'.plan.checkpoint = run.plan.checkpoint /\ run'.plan.resumed = run.plan.resumed
                /\ run'.plan.cursor = IF run.page.kind = "partial" THEN run.page.cursor
                                      ELSE run.plan.cursor
                /\ run'.head = run.head /\ run'.opening = FALSE /\ run'.page = NoPage
                /\ run'.pushed = run.pushed
<1> DEFINE plan == [run.plan EXCEPT !.cursor =
                      IF run.page.kind = "partial" THEN run.page.cursor ELSE run.plan.cursor]
           next == [run EXCEPT !.state = "enumerating", !.opening = FALSE, !.off = {},
                               !.plan = plan, !.page = NoPage, !.absent = {}, !.dropped = {}]
<1>1. /\ UNCHANGED <<conn, live, mod, clock, faults>>
      /\ run.state \in {"merging", "landing"}
      /\ run.state = "merging" => run.todo = {}
      /\ src' = Tail(Row)
      /\ stamp' = Stamps \cup (Stamped(run.page) \ run.dropped)
      /\ create' = IF run.pushed # {} THEN "landed" ELSE create
      /\ gone' = IF run.opening THEN run.off ELSE gone
      /\ seen' = (Stamped(run.page) \ run.dropped # {} \/ (seen /\ ~run.opening))
      BY DEF Land, server
<1>2. src' \in SourceRows
      BY <1>1, RowIs, TailIs
<1>3. stamp' \subseteq Handles
      BY <1>1, RowIs DEF Stamped, Pages
<1>4. /\ held' \in [Handles -> Nat]
      /\ \A h \in Handles : held'[h] = IF h \in run.pushed THEN mod[h] ELSE held[h]
      BY DEF Land, TypeOK
<1>5. /\ park' \in [round : BOOLEAN, coverage : BOOLEAN]
      /\ run.page.kind # "last" => park'.coverage = park.coverage
      /\ run.page.kind \notin {"last", "parked"} => park'.round = (park.round /\ ~run.opening)
      /\ run.page.kind = "parked" => park'.round = TRUE
      /\ run.page.kind = "last" =>
           park'.coverage = ((park.round /\ ~run.opening) \/ (park.coverage /\ run.plan.band))
  <2>1. park' = CASE run.page.kind = "parked" -> [park EXCEPT !.round = TRUE]
                  [] run.page.kind = "last" ->
                       [round |-> FALSE,
                        coverage |-> (park.round /\ ~run.opening) \/ (park.coverage /\ run.plan.band)]
                  [] OTHER -> [park EXCEPT !.round = @ /\ ~run.opening]
        BY DEF Land
  <2>2. CASE run.page.kind = "parked"
        BY <2>1, <2>2 DEF TypeOK
  <2>3. CASE run.page.kind = "last"
        BY <2>1, <2>3 DEF TypeOK
  <2>4. CASE run.page.kind \notin {"last", "parked"}
    <3>1. park' = [park EXCEPT !.round = @ /\ ~run.opening]
          BY <2>1, <2>4
    <3> QED BY <3>1, <2>4 DEF TypeOK
  <2> QED BY <2>2, <2>3, <2>4
<1>6. run' = IF run.page.kind \in Onward THEN next ELSE NoRun
      BY DEF Land, Onward
<1>7. /\ plan \in Plans /\ plan.kind = run.plan.kind
      /\ plan.scope = run.plan.scope /\ plan.span = run.plan.span
      /\ plan.band = run.plan.band /\ plan.opens = run.plan.opens
      /\ plan.checkpoint = run.plan.checkpoint /\ plan.resumed = run.plan.resumed
      /\ plan.cursor = IF run.page.kind = "partial" THEN run.page.cursor ELSE run.plan.cursor
      BY DEF Runs, Plans, Pages
<1>8. /\ next \in Runs /\ next.state = "enumerating" /\ next.wanted = run.wanted
      /\ next.plan = plan /\ next.head = run.head /\ next.opening = FALSE /\ next.page = NoPage
      /\ next.pushed = run.pushed
  <2> HIDE DEF plan
  <2> QED BY <1>7 DEF Runs
<1> HIDE DEF plan, next
<1> QED BY <1>1, <1>2, <1>3, <1>4, <1>5, <1>6, <1>7, <1>8

(* restart and head_rejected: the plan opens its round again.              *)
LEMMA RefusesIs ==
    ASSUME TypeOK, run \in Runs, Refuses
    PROVE  /\ UNCHANGED <<conn, live, mod, clock, held, stamp, src, create, gone, seen, park>>
           /\ faults' \in Nat /\ run.state = "enumerating"
           /\ run' \in Runs /\ run'.state = "enumerating" /\ run'.wanted = run.wanted
           /\ run'.head = NoHead /\ run'.opening = run.opening /\ run'.page = run.page
           /\ run'.pushed = run.pushed
           /\ run'.plan \in Plans /\ run'.plan.kind = "round" /\ run'.plan.opens = TRUE
           /\ run'.plan.cursor = NoCursor /\ run'.plan.resumed = FALSE
           /\ run'.plan.checkpoint \in {run.plan.checkpoint, 0}
           /\ \/ /\ run.plan.kind = "round" /\ run'.plan.scope = run.plan.scope
                 /\ run'.plan.span = run.plan.span /\ run'.plan.band = run.plan.band
              \/ /\ run'.plan.scope = run.wanted /\ run'.plan.span = run.wanted
                 /\ run'.plan.band = FALSE
<1> DEFINE again == [run.plan EXCEPT !.cursor = NoCursor, !.opens = TRUE, !.resumed = FALSE]
           plan == IF run.head = NoHead /\ run.plan.kind = "round" THEN again
                   ELSE Afresh(run.wanted)
<1>1. /\ UNCHANGED <<conn, live, mod, clock, held, stamp, src, create, gone, seen, park>>
      /\ faults' \in Nat /\ run.state = "enumerating"
      /\ run' = [run EXCEPT !.head = NoHead, !.named = FALSE, !.plan = plan]
      BY DEF Refuses, Fault, TypeOK, server, store, history
<1>2. /\ again \in Plans /\ again.kind = run.plan.kind /\ again.scope = run.plan.scope
      /\ again.span = run.plan.span /\ again.band = run.plan.band
      /\ again.opens = TRUE /\ again.cursor = NoCursor /\ again.resumed = FALSE
      /\ again.checkpoint = run.plan.checkpoint
      BY Nones DEF Runs, Plans
<1>3. run.wanted \in Ranges
      BY RoundsAssumption DEF Runs, Ranges
<1> HIDE DEF again
<1>4. /\ plan \in Plans /\ plan.kind = "round" /\ plan.opens = TRUE
      /\ plan.cursor = NoCursor /\ plan.resumed = FALSE
      /\ plan.checkpoint \in {run.plan.checkpoint, 0}
      /\ \/ /\ run.plan.kind = "round" /\ plan.scope = run.plan.scope
            /\ plan.span = run.plan.span /\ plan.band = run.plan.band
         \/ /\ plan.scope = run.wanted /\ plan.span = run.wanted
            /\ plan.band = FALSE
  <2>1. CASE run.head = NoHead /\ run.plan.kind = "round"
        BY <1>2, <2>1
  <2>2. CASE ~(run.head = NoHead /\ run.plan.kind = "round")
        BY <1>3, <2>2, AfreshIs
  <2> QED BY <2>1, <2>2
<1>5. NoHead \in Heads
      BY DEF NoHead, Heads
<1> HIDE DEF plan
<1> QED BY <1>1, <1>4, <1>5 DEF Runs, Heads

(* A head the server will not list is given up, the plan kept.             *)
LEMMA ListsNoHeadIs ==
    ASSUME TypeOK, run \in Runs, ListsNoHead
    PROVE  /\ UNCHANGED <<conn, live, mod, clock, held, stamp, src, create, gone, seen, park>>
           /\ faults' \in Nat /\ run.state = "enumerating"
           /\ run' \in Runs /\ run'.state = "enumerating" /\ run'.wanted = run.wanted
           /\ run'.plan = run.plan /\ run'.head = NoHead /\ run'.opening = run.opening
           /\ run'.page = run.page /\ run'.pushed = run.pushed
<1>1. NoHead \in Heads
      BY DEF NoHead, Heads
<1> QED BY <1>1 DEF ListsNoHead, Fault, TypeOK, server, store, history, Runs, Heads

(* An interrupted run leaves the store as its last commit had it.          *)
LEMMA InterruptIs ==
    ASSUME TypeOK, Interrupt
    PROVE  /\ UNCHANGED <<conn, live, mod, clock, held, stamp, src, create, gone, seen, park>>
           /\ faults' \in Nat /\ run' = NoRun
BY DEF Interrupt, Fault, TypeOK, server, store, history

(* The pages a run may take, and the plan each is a page of.               *)
Listable(plan, page) ==
    \/ run.head # NoHead /\ plan = run.plan /\ page = HeadPage
    \/ run.head = NoHead /\ run.plan.kind = "delta" /\ plan = run.plan /\ page = DeltaPage
    \/ /\ run.head = NoHead
       /\ \/ run.plan.kind = "round" /\ plan = run.plan
          \/ run.plan.kind = "delta" /\ plan = Afresh(run.wanted)
       /\ \E missed \in Missing : page = RoundPage(plan, missed)
    \/ /\ run.head = NoHead /\ run.plan.kind = "round" /\ plan = run.plan
       /\ conn.fails /\ plan.cursor = NoCursor /\ ~run.named
       /\ plan.opens \/ ~seen
       /\ page = NothingPage(plan)

Answers ==
    \/ AnswersHead \/ AnswersDelta \/ AnswersNothing
    \/ \E missed \in Missing : AnswersRound(missed) \/ AnswersRoundToDelta(missed)

(* An answer is a page taken of one of these.                              *)
LEMMA AnswerIs ==
    ASSUME TypeOK, run \in Runs \cup {NoRun}, Answers
    PROVE  /\ run \in Runs /\ run.state = "enumerating" /\ faults' \in Nat
           /\ \E plan \in Plans, page \in Pages :
                 page.kind # "parked" /\ Listable(plan, page) /\ Takes(plan, page)
<1>1. /\ run.state = "enumerating" /\ run \in Runs
      BY Tags DEF Answers, AnswersHead, AnswersDelta, AnswersNothing, AnswersRound,
                  AnswersRoundToDelta
<1>2. faults' \in Nat
      BY DEF Answers, AnswersHead, AnswersDelta, AnswersNothing, AnswersRound,
             AnswersRoundToDelta, Fault, TypeOK
<1>3. run.plan \in Plans /\ run.wanted \in Ranges
      BY <1>1, RoundsAssumption DEF Runs, Ranges
<1>4. Afresh(run.wanted) \in Plans
      BY <1>3, AfreshIs
<1>5. CASE AnswersHead
  <2>1. /\ Takes(run.plan, HeadPage) /\ Listable(run.plan, HeadPage)
        BY <1>5 DEF AnswersHead, Listable
  <2>2. HeadPage \in Pages /\ HeadPage.kind # "parked"
        BY <1>1, HeadPageIs
  <2> QED BY <1>1, <1>2, <1>3, <2>1, <2>2
<1>6. CASE AnswersDelta
  <2>1. /\ Takes(run.plan, DeltaPage) /\ Listable(run.plan, DeltaPage)
        BY <1>6 DEF AnswersDelta, Listable
  <2>2. DeltaPage \in Pages /\ DeltaPage.kind # "parked"
        BY <1>1, DeltaPageIs
  <2> QED BY <1>1, <1>2, <1>3, <2>1, <2>2
<1>7. CASE AnswersNothing
  <2>1. /\ Takes(run.plan, NothingPage(run.plan)) /\ Listable(run.plan, NothingPage(run.plan))
        BY <1>7 DEF AnswersNothing, Listable, NothingPage
  <2>2. NothingPage(run.plan) \in Pages /\ NothingPage(run.plan).kind # "parked"
        BY <1>3, NothingPageIs
  <2> QED BY <1>1, <1>2, <1>3, <2>1, <2>2
<1>8. ASSUME NEW missed \in Missing, AnswersRound(missed)
      PROVE  \E plan \in Plans, page \in Pages :
                 page.kind # "parked" /\ Listable(plan, page) /\ Takes(plan, page)
  <2> DEFINE page == RoundPage(run.plan, missed)
  <2>1. /\ Takes(run.plan, page) /\ Listable(run.plan, page)
        BY <1>8 DEF AnswersRound, Listable
  <2>2. page \in Pages /\ page.kind # "parked"
        BY <1>3, RoundPageIs
  <2> QED BY <1>3, <2>1, <2>2
<1>9. ASSUME NEW missed \in Missing, AnswersRoundToDelta(missed)
      PROVE  \E plan \in Plans, page \in Pages :
                 page.kind # "parked" /\ Listable(plan, page) /\ Takes(plan, page)
  <2> DEFINE plan == Afresh(run.wanted)
             page == RoundPage(plan, missed)
  <2>1. /\ Takes(plan, page) /\ Listable(plan, page)
        BY <1>9 DEF AnswersRoundToDelta, Listable
  <2>2. page \in Pages /\ page.kind # "parked"
        BY <1>4, RoundPageIs
  <2> QED BY <1>4, <2>1, <2>2
<1> QED BY <1>1, <1>2, <1>5, <1>6, <1>7, <1>8, <1>9 DEF Answers

-----------------------------------------------------------------------------
(* The shape of a run: how its plan, its page and the source's row go      *)
(* together at each state.                                                 *)

Merged == run.state \in {"merging", "landing"}

(* The source's row holds the round of the plan, at the plan's position.   *)
Matches(round, plan) ==
    /\ round.open /\ round.scope = plan.scope /\ round.band = plan.band
    /\ round.cursor = plan.cursor

PlanShape ==
    /\ run.state \in {"enumerating", "opening", "loading"} => ~run.opening
    /\ run.plan.opens => run.plan.cursor = NoCursor
    /\ run.plan.kind = "delta" =>
         /\ run.plan.opens /\ ~src.round.open /\ ~run.opening
         /\ run.state \notin {"opening", "loading"}
    /\ run.state = "enumerating" => run.page = NoPage
    /\ run.state = "enumerating" /\ run.plan.opens => ~run.plan.resumed
    /\ run.head # NoHead =>
         run.state = "enumerating" /\ run.plan.kind = "round" /\ ~run.plan.opens
    /\ (run.plan.kind = "round" /\ ~run.plan.opens /\ ~run.opening /\ run.page.kind # "parked")
         => Matches(src.round, run.plan)

OpeningShape ==
    run.state \in {"opening", "loading"} =>
      /\ run.plan.opens <=> run.state = "opening"
      /\ run.page.kind = "last" /\ run.page.narrowed /\ run.plan.cursor = NoCursor
      /\ run.page.vanished = {} /\ ~run.page.failing

MergedShape ==
    /\ run.state # "landing" => run.pushed = {}
    /\ run.state = "landing" => run.todo = {} /\ run.page.kind \in {"delta", "last"}
    /\ Merged =>
         /\ run.page.kind = "delta" <=> run.plan.kind = "delta"
         /\ run.plan.kind = "round" => ~run.plan.opens
         /\ run.opening => run.page.kind \in {"partial", "last", "parked"}
         /\ run.opening /\ run.page.kind # "parked" => run.plan.cursor = NoCursor
         /\ run.page.kind # "last" => run.absent = {}
         /\ run.page.kind \in {"partial", "bandHead", "parked"} => run.dropped = {}
         /\ run.page.kind = "last" => run.dropped = run.absent

Shape ==
    run \in Runs =>
      /\ run.state # "enumerating" => run.page \in Pages
      /\ PlanShape /\ OpeningShape /\ MergedShape

(* What an answer's page and plan are to each other.                       *)
LEMMA ListableIs ==
    ASSUME TypeOK, Shape, run \in Runs, run.state = "enumerating",
           NEW plan \in Plans, NEW page \in Pages, Listable(plan, page)
    PROVE  /\ plan.opens => plan.cursor = NoCursor /\ ~plan.resumed
           /\ plan.kind = "delta" <=> page.kind = "delta"
           /\ plan.kind = "delta" => plan.opens /\ ~src.round.open
           /\ plan.kind = "round" /\ ~plan.opens => Matches(src.round, plan)
           /\ page.kind \in {"deltaHead", "bandHead"} => ~plan.opens
           /\ page.kind \notin {"delta", "deltaHead"} => page.vanished = {}
           /\ page.narrowed => ~page.failing
           /\ ~run.opening
           /\ run.pushed = {}
<1>1. run.plan \in Plans /\ run.wanted \in Ranges
      BY RoundsAssumption DEF Runs, Ranges
<1>2. PlanShape /\ ~run.opening /\ run.pushed = {} /\ run.page.kind # "parked"
      BY Tags DEF Shape, PlanShape, MergedShape
<1>3. CASE run.head # NoHead /\ plan = run.plan /\ page = HeadPage
  <2>1. /\ plan.kind = "round" /\ ~plan.opens
        BY <1>2, <1>3 DEF PlanShape
  <2>2. /\ page.kind \in {"deltaHead", "bandHead"} /\ ~page.narrowed
        /\ page.kind = "bandHead" => page.vanished = {}
        BY <1>3, HeadPageIs
  <2>3. Matches(src.round, plan)
        BY <1>2, <1>3, <2>1 DEF PlanShape
  <2> QED BY <1>2, <2>1, <2>2, <2>3
<1>4. CASE run.plan.kind = "delta" /\ plan = run.plan /\ page = DeltaPage
  <2>1. page.kind = "delta" /\ ~page.narrowed
        BY <1>4, DeltaPageIs
  <2> QED BY <1>2, <1>4, <2>1 DEF PlanShape
<1>5. /\ run.plan.kind = "round" /\ plan = run.plan
        => /\ plan.opens => plan.cursor = NoCursor /\ ~plan.resumed
           /\ ~plan.opens => Matches(src.round, plan)
      BY <1>2 DEF PlanShape
<1>6. ASSUME \/ run.plan.kind = "round" /\ plan = run.plan
             \/ run.plan.kind = "delta" /\ plan = Afresh(run.wanted),
             NEW missed, page = RoundPage(plan, missed)
      PROVE  /\ plan.opens => plan.cursor = NoCursor /\ ~plan.resumed
             /\ plan.kind = "round" /\ page.kind \in {"partial", "last"}
             /\ ~plan.opens => Matches(src.round, plan)
             /\ page.vanished = {} /\ ~page.failing
  <2>1. page.kind \in {"partial", "last"} /\ page.vanished = {} /\ ~page.failing
    <3>1. /\ RoundPage(plan, missed).kind \in {"partial", "last"}
          /\ RoundPage(plan, missed).vanished = {} /\ ~RoundPage(plan, missed).failing
          BY RoundPageIs
    <3> QED BY <1>6, <3>1
  <2>2. CASE run.plan.kind = "round" /\ plan = run.plan
        BY <1>5, <2>1, <2>2
  <2>3. CASE plan = Afresh(run.wanted)
        BY <1>1, <2>1, <2>3, AfreshIs
  <2> QED BY <1>6, <2>2, <2>3
<1>7. CASE run.plan.kind = "round" /\ plan = run.plan /\ page = NothingPage(plan)
  <2>1. page.kind = "last" /\ page.vanished = {} /\ ~page.narrowed
        BY <1>7, NothingPageIs
  <2> QED BY <1>2, <1>5, <1>7, <2>1
<1> QED BY <1>2, <1>3, <1>4, <1>6, <1>7 DEF Listable

(* A page taken, its merge opened at once or once its round is open, and   *)
(* what of the shape each leaves.                                          *)
LEMMA MergingShape ==
    ASSUME TypeOK, NEW r \in Runs, r.page \in Pages, r.page.kind # "parked",
           r.plan.opens => r.plan.cursor = NoCursor,
           r.plan.kind = "delta" <=> r.page.kind = "delta",
           r.plan.kind = "delta" => r.plan.opens /\ ~src.round.open,
           r.plan.kind = "round" /\ ~r.plan.opens => Matches(src.round, r.plan),
           r.page.kind \in {"deltaHead", "bandHead"} => ~r.plan.opens,
           r.page.kind \notin {"delta", "deltaHead"} => r.page.vanished = {},
           r.head = NoHead, r.pushed = {}, run' = Merging(r), src' = src
    PROVE  Shape'
<1> DEFINE m == Merging(r)
<1>1. /\ m \in Runs /\ m.state = "merging" /\ m.head = NoHead /\ m.pushed = {}
      /\ m.plan \in Plans /\ SamePlan(m.plan, r.plan)
      /\ m.plan.opens <=> (r.plan.opens /\ ~Opening(r))
      /\ m.opening <=> (Opening(r) \/ (Parks(r) /\ r.plan.cursor # NoCursor))
      /\ m.page \in Pages
      /\ m.page.kind = IF Parks(r) THEN "parked" ELSE r.page.kind
      /\ m.absent = DroppedAbsent(r)
      /\ m.dropped = r.page.vanished \cup DroppedAbsent(r)
      BY MergingIs
<1>2. /\ Opening(r) <=> (r.plan.opens /\ r.page.kind \in {"partial", "last"})
      /\ Parks(r) => r.page.kind = "last"
      /\ DroppedAbsent(r) # {} => r.page.kind = "last" /\ ~Parks(r)
      BY DEF Opening, Parks, DroppedAbsent, Absent
<1>3. /\ r.page.kind \in {"delta", "deltaHead", "bandHead", "partial", "last"}
      /\ r.plan.kind \in {"delta", "round"}
      BY DEF Pages, Plans, Runs
<1> HIDE DEF m
<1>4. m.plan.opens => m.plan.cursor = NoCursor
      BY <1>1 DEF SamePlan
<1>5. m.plan.kind = "delta" => m.plan.opens /\ ~src.round.open /\ ~m.opening
      BY <1>1, <1>2 DEF SamePlan
<1>6. (m.plan.kind = "round" /\ ~m.plan.opens /\ ~m.opening) => Matches(src.round, m.plan)
      BY <1>1, <1>2 DEF SamePlan, Matches
<1>7. m.page.kind = "delta" <=> m.plan.kind = "delta"
      BY <1>1, <1>2 DEF SamePlan
<1>8. m.plan.kind = "round" => ~m.plan.opens
      BY <1>1, <1>2, <1>3 DEF SamePlan
<1>9. /\ m.opening => m.page.kind \in {"partial", "last", "parked"}
      /\ m.opening /\ m.page.kind # "parked" => m.plan.cursor = NoCursor
      BY <1>1, <1>2 DEF SamePlan
<1>10. /\ m.page.kind # "last" => m.absent = {}
       /\ m.page.kind \in {"partial", "bandHead", "parked"} => m.dropped = {}
       /\ m.page.kind = "last" => m.dropped = m.absent
      BY <1>1, <1>2, <1>3
<1>11. run' = m
      BY DEF m
<1> QED BY <1>1, <1>4, <1>5, <1>6, <1>7, <1>8, <1>9, <1>10, <1>11
        DEF Shape, PlanShape, OpeningShape, MergedShape, Merged

(* Every step keeps the types and the shape.                               *)
LEMMA ShapeStep ==
    ASSUME TypeOK, Shape, [Next]_vars
    PROVE  TypeOK' /\ Shape'
<1>1. run \in Runs \cup {NoRun} /\ NoRun \notin Runs
      BY Tags DEF TypeOK
<1>2. ASSUME NEW h \in Handles, ClientAdds(h) \/ ClientEdits(h) \/ ClientRemoves(h)
      PROVE  TypeOK' /\ Shape'
  <2>1. TypeOK'
        BY <1>1, <1>2, ClientIs DEF TypeOK
  <2>2. CASE run = NoRun
    <3>1. run' = NoRun
          BY <1>2, <2>2, ClientIs
    <3> QED BY <1>1, <2>1, <3>1 DEF Shape
  <2>3. CASE run \in Runs
    <3>1. run' \in Runs /\ SameButOff(run', run) /\ src' = src
          BY <1>2, <2>3, ClientIs
    <3>2. PlanShape /\ OpeningShape /\ MergedShape /\ (run.state # "enumerating" => run.page \in Pages)
          BY <2>3 DEF Shape
    <3>3. PlanShape' /\ OpeningShape' /\ MergedShape'
          BY <3>1, <3>2 DEF PlanShape, OpeningShape, MergedShape, Merged, SameButOff
    <3> QED BY <2>1, <3>1, <3>2, <3>3 DEF Shape, SameButOff
  <2> QED BY <1>1, <2>1, <2>2, <2>3
<1>3. ASSUME NEW wanted \in Wanted, NEW full \in Fulls, NEW accept \in Accepts,
             Start(wanted, full, accept)
      PROVE  TypeOK' /\ Shape'
  <2>1. full \in BOOLEAN /\ accept \in BOOLEAN
        BY RoundsAssumption
  <2>2. /\ UNCHANGED <<conn, live, mod, clock, held, stamp, src, create, faults, gone, seen, park>>
        /\ run' \in Runs /\ run'.state = "enumerating"
        /\ run'.plan = Choose(wanted, full) /\ run'.plan \in Plans
        /\ run'.head = HeadOf(run'.plan) /\ run'.opening = FALSE /\ run'.page = NoPage
        /\ run'.pushed = {}
        BY <1>3, <2>1, StartIs
  <2>3. /\ run'.plan.kind = "delta" =>
             run'.plan.opens /\ run'.plan.cursor = NoCursor /\ ~run'.plan.resumed /\ ~src.round.open
        /\ run'.plan.kind = "round" =>
             /\ run'.plan.opens => run'.plan.cursor = NoCursor /\ ~run'.plan.resumed
             /\ ~run'.plan.opens => Matches(src.round, run'.plan)
        BY <2>1, <2>2, ChooseIs DEF Matches
  <2>4. run'.head # NoHead => run'.plan.kind = "round" /\ ~run'.plan.opens
        BY <2>2, HeadOfIs
  <2>5. run'.plan.kind \in {"delta", "round"}
        BY <2>2 DEF Plans
  <2> QED BY <2>2, <2>3, <2>4, <2>5
          DEF TypeOK, Shape, PlanShape, OpeningShape, MergedShape, Merged
<1>4. CASE Answers
  <2>1. /\ run \in Runs /\ run.state = "enumerating" /\ faults' \in Nat
        BY <1>1, <1>4, AnswerIs
  <2>2. PICK plan \in Plans, page \in Pages :
                 page.kind # "parked" /\ Listable(plan, page) /\ Takes(plan, page)
        BY <1>1, <1>4, AnswerIs
  <2> DEFINE r == Taken(plan, page)
  <2>3. /\ UNCHANGED <<conn, live, mod, clock, held, stamp, src, create, gone, seen, park>>
        /\ run' \in Runs /\ r \in Runs /\ r.page \in Pages
        /\ ~OpensFirst(r) => run' = Merging(r)
        /\ OpensFirst(r) => /\ run'.state = "opening" /\ run'.plan = r.plan
                            /\ run'.head = r.head /\ run'.opening = r.opening
                            /\ run'.page = r.page /\ run'.pushed = r.pushed
        BY <2>1, <2>2, TakesIs
  <2>4. /\ r.plan = plan /\ r.head = NoHead /\ r.opening = run.opening /\ r.page = page
        /\ r.pushed = run.pushed
        BY <2>1, TakenIs
  <2> HIDE DEF r
  <2>5. /\ r.plan.opens => r.plan.cursor = NoCursor
        /\ r.plan.kind = "delta" <=> r.page.kind = "delta"
        /\ r.plan.kind = "delta" => r.plan.opens /\ ~src.round.open
        /\ r.plan.kind = "round" /\ ~r.plan.opens => Matches(src.round, r.plan)
        /\ r.page.kind \in {"deltaHead", "bandHead"} => ~r.plan.opens
        /\ r.page.kind \notin {"delta", "deltaHead"} => r.page.vanished = {}
        /\ r.page.narrowed => ~r.page.failing
        /\ ~r.opening /\ r.pushed = {}
        BY <2>1, <2>2, <2>4, ListableIs
  <2>6. TypeOK'
        BY <2>1, <2>3 DEF TypeOK
  <2>7. CASE OpensFirst(r)
    <3>1. r.page.kind = "last" /\ r.page.narrowed /\ r.plan.opens /\ r.plan.kind # "delta"
          BY <2>5, <2>7 DEF OpensFirst
    <3> QED BY <2>3, <2>4, <2>5, <2>6, <2>7, <3>1
            DEF Shape, PlanShape, OpeningShape, MergedShape, Merged
  <2>8. CASE ~OpensFirst(r)
    <3>1. r.page.kind # "parked" /\ run' = Merging(r) /\ src' = src
          BY <2>2, <2>3, <2>4, <2>8
    <3> QED BY <2>3, <2>4, <2>5, <2>6, <3>1, MergingShape
  <2> QED BY <2>7, <2>8
<1>5. CASE OpenNarrowed
  <2>1. run \in Runs
        BY <1>1, <1>5, Tags DEF OpenNarrowed
  <2>2. /\ PlanShape /\ OpeningShape /\ MergedShape /\ run.page \in Pages /\ run.state = "opening"
        /\ run.plan \in Plans
        BY <1>5, <2>1 DEF Shape, OpenNarrowed, Runs
  <2>3. /\ src'.round.open = TRUE /\ src'.round.scope = run.plan.scope
        /\ src'.round.band = run.plan.band /\ src'.round.cursor = NoCursor
    <3>1. src' = Opened(src, run.plan)
          BY <1>5, <2>1, OpenNarrowedIs
    <3> QED BY <2>2, <3>1, OpenedIs
  <2>4. /\ run' \in Runs /\ run'.state = "loading" /\ run'.plan \in Plans
        /\ SamePlan(run'.plan, run.plan) /\ run'.plan.opens = FALSE
        /\ run'.head = run.head /\ run'.opening = run.opening /\ run'.page = run.page
        /\ run'.pushed = run.pushed
        BY <1>5, <2>1, OpenNarrowedIs
  <2>5. TypeOK'
        BY <1>5, <2>1, OpenNarrowedIs DEF TypeOK, Runs
  <2>6. /\ run.plan.kind # "delta" /\ run.plan.cursor = NoCursor /\ ~run.opening
        /\ run.head = NoHead /\ run.pushed = {}
        BY <2>2 DEF PlanShape, OpeningShape, MergedShape
  <2>7. PlanShape'
        BY <2>3, <2>4, <2>6 DEF PlanShape, Matches, SamePlan
  <2>8. OpeningShape' /\ MergedShape'
        BY <2>2, <2>4, <2>6 DEF OpeningShape, MergedShape, Merged, SamePlan
  <2> QED BY <2>2, <2>4, <2>5, <2>7, <2>8 DEF Shape
<1>6. CASE OpenMerge
  <2>1. run \in Runs /\ run.state = "loading" /\ run' = Merging(run)
        /\ UNCHANGED <<conn, live, mod, clock, held, stamp, src, create, faults, gone, seen, park>>
        BY <1>1, <1>6, Tags DEF OpenMerge, server, store, history
  <2>2. PlanShape /\ OpeningShape /\ MergedShape /\ run.page \in Pages
        BY <2>1 DEF Shape
  <2>3. run' \in Runs
        BY <2>1, <2>2, MergingIs
  <2>4. TypeOK'
        BY <2>1, <2>3 DEF TypeOK
  <2>5. /\ run.page.kind = "last" /\ run.page.vanished = {} /\ ~run.plan.opens
        /\ run.plan.kind # "delta" /\ run.plan.cursor = NoCursor /\ ~run.opening
        /\ run.head = NoHead /\ run.pushed = {}
        BY <2>1, <2>2 DEF PlanShape, OpeningShape, MergedShape
  <2>6. run.plan.kind = "round" => Matches(src.round, run.plan)
        BY <2>1, <2>2, <2>5 DEF PlanShape
  <2>7. Shape'
        BY <2>1, <2>2, <2>5, <2>6, MergingShape
  <2> QED BY <2>4, <2>7
<1>7. ASSUME NEW h \in Handles, Merge(h)
      PROVE  TypeOK' /\ Shape'
  <2>1. run \in Runs /\ run.state = "merging"
        BY <1>1, <1>7, Tags DEF Merge
  <2>2. PlanShape /\ OpeningShape /\ MergedShape /\ run.page \in Pages
        BY <2>1 DEF Shape
  <2>3. /\ UNCHANGED <<conn, live, mod, clock, faults>>
        /\ held' \in [Handles -> Nat] /\ src' = Row /\ src' \in SourceRows
        /\ stamp' = IF h \in run.dropped THEN Stamps \ {h} ELSE Stamps
        /\ create' = IF h \in Arrivals \ run.dropped THEN "landed" ELSE create
        /\ gone' = IF run.opening THEN run.off ELSE gone
        /\ seen' = (seen /\ ~run.opening)
        /\ park' \in [round : BOOLEAN, coverage : BOOLEAN]
        /\ run' \in Runs
        BY <1>7, <2>1, <2>2, MergeIs
  <2>4. TypeOK'
    <3>1. stamp' \subseteq Handles /\ gone' \subseteq Handles
          BY <2>1, <2>3, RowIs DEF TypeOK, Runs
    <3> QED BY <2>3, <3>1 DEF TypeOK
  <2>5. /\ run'.state = "merging" /\ run'.plan = run.plan /\ run'.head = run.head
        /\ run'.opening = FALSE /\ run'.page = run.page
        /\ run'.absent = run.absent /\ run'.dropped = run.dropped /\ run'.pushed = run.pushed
        BY <1>7, <2>1, <2>2, MergeIs
  <2>6. run.opening => /\ src'.round.open = TRUE /\ src'.round.scope = run.plan.scope
                       /\ src'.round.band = run.plan.band /\ src'.round.cursor = NoCursor
        BY <2>1, <2>3, RowIs
  <2>7. ~run.opening => src' = src
        BY <2>1, <2>3, RowIs
  <2>8. PlanShape'
        BY <2>1, <2>2, <2>5, <2>6, <2>7 DEF PlanShape, MergedShape, Merged, Matches
  <2>9. OpeningShape' /\ MergedShape'
        BY <2>1, <2>2, <2>5 DEF OpeningShape, MergedShape, Merged
  <2> QED BY <2>2, <2>3, <2>4, <2>5, <2>8, <2>9 DEF Shape
<1>8. ASSUME NEW a \in Arrivals, NEW answered \in BOOLEAN, Push(a, answered)
      PROVE  TypeOK' /\ Shape'
  <2>1. run \in Runs /\ run.state = "merging"
        BY <1>1, <1>8, Tags DEF Push
  <2>2. PlanShape /\ OpeningShape /\ MergedShape /\ run.page \in Pages
        BY <2>1 DEF Shape
  <2>3. /\ UNCHANGED <<conn, held, stamp, src, create, gone, seen, park>>
        /\ a \in Handles /\ run.todo = {} /\ ~HoldsCreates
        /\ clock' = clock + 1 /\ mod' \in [Handles -> Nat]
        /\ live' = live \cup {a} /\ faults' \in Nat
        /\ run' \in Runs /\ run'.state = "landing"
        /\ run'.plan = run.plan /\ run'.head = run.head
        /\ run'.opening = run.opening /\ run'.page = run.page
        /\ run'.absent = run.absent /\ run'.dropped = run.dropped /\ run'.todo = run.todo
        BY <1>8, <2>1, PushIs
  <2>4. TypeOK'
        BY <2>3 DEF TypeOK
  <2>5. run.page.kind \in {"delta", "last"}
        BY <2>2, <2>3 DEF HoldsCreates, Pages
  <2> QED BY <2>1, <2>2, <2>3, <2>4, <2>5 DEF Shape, PlanShape, OpeningShape, MergedShape, Merged
<1>9. CASE Land
  <2>1. run \in Runs /\ run.state \in {"merging", "landing"}
        BY <1>1, <1>9, Tags DEF Land
  <2>2. PlanShape /\ OpeningShape /\ MergedShape /\ run.page \in Pages /\ run.plan \in Plans
        BY <2>1 DEF Shape, Runs
  <2>3. /\ UNCHANGED <<conn, live, mod, clock, faults>>
        /\ src' = Tail(Row) /\ src' \in SourceRows /\ stamp' \subseteq Handles
        /\ held' \in [Handles -> Nat]
        /\ create' = IF run.pushed # {} THEN "landed" ELSE create
        /\ gone' = IF run.opening THEN run.off ELSE gone
        /\ seen' = (Stamped(run.page) \ run.dropped # {} \/ (seen /\ ~run.opening))
        /\ park' \in [round : BOOLEAN, coverage : BOOLEAN]
        /\ run.page.kind \notin Onward => run' = NoRun
        BY <1>9, <2>1, <2>2, LandIs
  <2>4. run.page.kind \in Onward =>
                /\ run' \in Runs /\ run'.state = "enumerating"
                /\ run'.plan \in Plans /\ run'.plan.kind = run.plan.kind
                /\ run'.plan.scope = run.plan.scope
                /\ run'.plan.band = run.plan.band /\ run'.plan.opens = run.plan.opens
                /\ run'.plan.cursor = IF run.page.kind = "partial" THEN run.page.cursor
                                      ELSE run.plan.cursor
                /\ run'.head = run.head /\ run'.opening = FALSE /\ run'.page = NoPage
                /\ run'.pushed = run.pushed
        BY <1>9, <2>1, <2>2, LandIs
  <2>5. TypeOK'
    <3>1. gone' \subseteq Handles
          BY <2>1, <2>3 DEF TypeOK, Runs
    <3>2. run' \in Runs \cup {NoRun}
          BY <2>3, <2>4
    <3> QED BY <2>3, <3>1, <3>2 DEF TypeOK
  <2>6. CASE run.page.kind \notin Onward
        BY <1>1, <2>3, <2>5, <2>6 DEF Shape
  <2>7. CASE run.page.kind \in Onward
    <3>1. /\ run.plan.kind = "round" /\ ~run.plan.opens /\ run.state = "merging"
          /\ run.head = NoHead /\ run.pushed = {} /\ run.page.kind # "parked"
          BY <2>1, <2>2, <2>7 DEF PlanShape, MergedShape, Merged, Onward, Plans
    <3>2. /\ Row.round.open /\ Row.round.scope = run.plan.scope
          /\ Row.round.band = run.plan.band
          /\ Row.round.cursor = run.plan.cursor
      <4>1. CASE run.opening
            BY <2>1, <2>2, <3>1, <4>1, RowIs DEF MergedShape, Merged
      <4>2. CASE ~run.opening
            BY <2>1, <2>2, <3>1, <4>2, RowIs DEF PlanShape, Matches
      <4> QED BY <4>1, <4>2
    <3>3. Row \in SourceRows
          BY <2>1, RowIs
    <3>4. /\ src'.round.open = Row.round.open /\ src'.round.scope = Row.round.scope
          /\ src'.round.band = Row.round.band
          /\ src'.round.cursor = IF run.page.kind = "partial" THEN run.page.cursor
                                 ELSE Row.round.cursor
          BY <2>1, <2>2, <2>3, <2>7, <3>3, TailIs DEF Onward
    <3>5. Matches(src'.round, run'.plan)
          BY <2>4, <2>7, <3>2, <3>4 DEF Matches
    <3> QED BY <2>4, <2>5, <2>7, <3>1, <3>5
            DEF Shape, PlanShape, OpeningShape, MergedShape, Merged
  <2> QED BY <2>6, <2>7
<1>10. CASE Refuses
  <2>1. run \in Runs
        BY <1>1, <1>10, Tags DEF Refuses
  <2>2. TypeOK'
        BY <1>10, <2>1, RefusesIs DEF TypeOK
  <2>3. PlanShape /\ MergedShape /\ run.state = "enumerating"
        BY <1>10, <2>1 DEF Shape, Refuses
  <2>4. /\ run' \in Runs /\ run'.state = "enumerating"
        /\ run'.head = NoHead /\ run'.opening = run.opening /\ run'.page = run.page
        /\ run'.pushed = run.pushed
        /\ run'.plan \in Plans /\ run'.plan.kind = "round" /\ run'.plan.opens = TRUE
        /\ run'.plan.cursor = NoCursor /\ run'.plan.resumed = FALSE
        BY <1>10, <2>1, RefusesIs
  <2> QED BY <2>2, <2>3, <2>4 DEF Shape, PlanShape, OpeningShape, MergedShape, Merged
<1>11. CASE ListsNoHead
  <2>1. run \in Runs
        BY <1>1, <1>11, Tags DEF ListsNoHead
  <2>2. TypeOK'
        BY <1>11, <2>1, ListsNoHeadIs DEF TypeOK
  <2>3. PlanShape /\ MergedShape /\ run.state = "enumerating"
        BY <1>11, <2>1 DEF Shape, ListsNoHead
  <2>4. /\ run' \in Runs /\ run'.state = "enumerating" /\ src' = src
        /\ run'.head = NoHead /\ run'.opening = run.opening /\ run'.page = run.page
        /\ run'.pushed = run.pushed /\ run'.plan = run.plan
        BY <1>11, <2>1, ListsNoHeadIs
  <2> QED BY <2>2, <2>3, <2>4 DEF Shape, PlanShape, OpeningShape, MergedShape, Merged
<1>12. CASE Interrupt
       BY <1>1, <1>12, InterruptIs DEF TypeOK, Shape
<1>13. CASE UNCHANGED vars
       BY <1>13 DEF vars, TypeOK, Shape, PlanShape, OpeningShape, MergedShape, Merged, Bound
<1> QED
  BY <1>2, <1>3, <1>4, <1>5, <1>6, <1>7, <1>8, <1>9, <1>10, <1>11, <1>12, <1>13
     DEF Next, Client, Begin, Faulty, Steps, Answers

-----------------------------------------------------------------------------
(* Absence.  While a round is open, what is off the server is gone, and    *)
(* what its pages are sure to name and is not gone is stamped up to the    *)
(* round's position: so what the last page finds unstamped is gone.        *)

(* What was off the server since the round under way opened, or will have  *)
(* been when the write that opens it lands.                                *)
Off == IF run.state = "opening" \/ run.opening THEN run.off ELSE gone

RoundSwept ==
    src.round.open =>
      /\ Handles \ live \subseteq gone
      /\ \A h \in Handles :
            h <= src.round.cursor.pos /\ h \notin gone /\ Sure(src.round, h) => h \in stamp

StampsSeen == stamp # {} => seen

OffSwept ==
    /\ run.state = "opening" \/ run.opening => Handles \ live \subseteq run.off
    /\ Merged /\ ~run.opening => run.off = gone

OpeningSwept ==
    run.state \in {"opening", "loading"} =>
      /\ \A h \in Handles : h \notin Off /\ Sure(run.plan, h) => h \in run.page.listed
      /\ run.page.enumerates => Handles \ Off \subseteq run.page.enumerated
      /\ conn.capped => run.page.capped

MergedSwept ==
    Merged =>
      /\ run.page.kind = "partial" =>
           \A h \in Handles : h <= run.page.cursor.pos /\ h \notin Off /\ Sure(run.plan, h)
                                 => h \in Stamps \cup run.page.listed
      /\ run.page.kind = "deltaHead" => run.dropped \subseteq gone
      /\ run.page.kind = "last" =>
           \/ run.dropped \subseteq run.off
           \/ run.page.failing /\ run.accept /\ run.plan.cursor = NoCursor

Swept ==
    /\ RoundSwept /\ StampsSeen
    /\ run \in Runs /\ run.state # "enumerating" => OffSwept /\ OpeningSwept /\ MergedSwept

(* A page's absents were off the server, when what its listing is sure of  *)
(* and still there is listed or stamped.                                   *)
LEMMA AbsentIsOff ==
    ASSUME TypeOK, NEW r \in Runs, r.page \in Pages, NEW off,
           conn.capped => r.page.capped,
           ~r.page.narrowed => ~Filters(r.plan),
           Opening(r) => ~r.page.narrowed,
           ~Opening(r) => Matches(src.round, r.plan),
           r.page.enumerates => Handles \ off \subseteq r.page.enumerated,
           \A h \in Handles : h \notin off /\ Sure(r.plan, h) =>
              h \in r.page.listed \/ (~Opening(r) /\ h \in stamp)
    PROVE  Absent(r) \subseteq off
<1> SUFFICES ASSUME NEW h \in Absent(r), h \notin off
             PROVE  FALSE
    OBVIOUS
<1>1. h \in Handles /\ h \notin r.page.listed /\ ~r.page.capped
      BY AbsentBound DEF Absent
<1>2. CASE Opening(r)
  <2>1. FindsAbsent(r.plan, Date[h])
        BY <1>2 DEF Absent, InRound
  <2>2. Sure(r.plan, h)
        BY <1>1, <1>2, <2>1 DEF Sure, FindsAbsent, Contains
  <2> QED BY <1>1, <1>2, <2>2
<1>3. CASE ~Opening(r)
  <2>1. FindsAbsent(src.round, Date[h]) /\ Proves(r.page, h) /\ h \notin stamp
        BY <1>3 DEF Absent, Unstamped
  <2>2. Contains(r.plan.scope, Date[h])
        BY <1>3, <2>1 DEF FindsAbsent, Contains, Matches
  <2>3. Filters(r.plan) => h \notin Missable
        BY <1>1, <2>1 DEF Proves, Missable
  <2> QED BY <1>1, <1>3, <2>1, <2>2, <2>3 DEF Sure
<1> QED BY <1>2, <1>3

(* A listing that names nothing parks, when anything it would drop is not  *)
(* confirmed.                                                              *)
LEMMA NothingParks ==
    ASSUME TypeOK, NEW r \in Runs, r.page \in Pages, r.page.kind = "last",
           r.page.listed = {}, ~r.named, ~r.accept, ~StampedBefore(r), ~Parks(r)
    PROVE  Absent(r) = {}
<1>1. IsFiniteSet(Absent(r))
  <2>1. IsFiniteSet(Handles)
        BY RoundsAssumption, FS_Interval, 1 \in Int, N \in Int DEF Handles
  <2> QED BY <2>1, AbsentBound, FS_Subset
<1>2. Cardinality(Absent(r)) \in Nat /\ ~(Cardinality(Absent(r)) > 0)
      BY <1>1, FS_CardinalityType DEF Parks, Guard
<1>3. Cardinality(Absent(r)) = 0
      BY <1>2
<1> QED BY <1>1, <1>3, FS_EmptySet

(* The same listing counts nothing of an earlier run while nothing was     *)
(* stamped.                                                                *)
LEMMA NothingStamped ==
    ASSUME TypeOK, NEW r \in Runs, stamp = {} \/ ~r.plan.resumed,
           r.plan.resumed => Matches(src.round, r.plan)
    PROVE  ~StampedBefore(r)
BY DEF StampedBefore, InRound, Unstamped, FindsAbsent, Matches

(* What a round's page lists of what it is sure of.                        *)
LEMMA RoundPageLists ==
    ASSUME TypeOK, NEW plan \in Plans, NEW missed \in Missing, NEW h \in live,
           plan.cursor.pos < h, h <= Reaches(plan), Sure(plan, h)
    PROVE  h \in RoundPage(plan, missed).listed
<1>1. Contains(plan.scope, Date[h]) /\ ~conn.capped /\ (Filters(plan) => h \notin Missable)
      BY DEF Sure
<1>2. Filters(plan) \/ conn.capped => h \notin missed
      BY <1>1 DEF Missing
<1> HIDE DEF Sure, Filters
<1> QED BY <1>1, <1>2, RoundPageIs

(* What a page taken lists, or an earlier one stamped, of what was never   *)
(* off.                                                                    *)
LEMMA RoundPageSweeps ==
    ASSUME TypeOK, RoundSwept, NEW plan \in Plans, NEW missed \in Missing,
           plan.opens => plan.cursor = NoCursor,
           ~plan.opens => Matches(src.round, plan),
           NEW h \in Handles, Sure(plan, h), h <= Reaches(plan),
           IF plan.opens THEN h \in live ELSE h \notin gone
    PROVE  h \in RoundPage(plan, missed).listed \/ (~plan.opens /\ h \in stamp)
<1>1. CASE plan.opens
  <2>1. plan.cursor.pos < h /\ h \in live
        BY <1>1, Nones DEF Handles
  <2> QED BY <2>1, RoundPageLists
<1>2. CASE ~plan.opens
  <2>1. /\ src.round.open /\ Sure(src.round, h) /\ src.round.cursor.pos = plan.cursor.pos
        BY <1>2 DEF Matches, Sure, Filters
  <2>2. h \in live /\ (h <= plan.cursor.pos => h \in stamp)
        BY <1>2, <2>1 DEF RoundSwept
  <2>3. plan.cursor.pos \in Nat /\ h \in Nat
        BY DEF Plans, Cursors, Handles
  <2> QED BY <1>2, <2>2, <2>3, RoundPageLists
<1> QED BY <1>1, <1>2

(* Taking a page.                                                          *)
LEMMA TakesSwept ==
    ASSUME TypeOK, Shape, Swept, run \in Runs, run.state = "enumerating",
           NEW plan \in Plans, NEW page \in Pages, page.kind # "parked",
           Listable(plan, page), Takes(plan, page)
    PROVE  Swept'
<1> DEFINE r == Taken(plan, page)
<1>1. /\ UNCHANGED <<conn, live, mod, clock, held, stamp, src, create, gone, seen, park>>
      /\ run' \in Runs /\ r \in Runs /\ r.page \in Pages
      /\ ~OpensFirst(r) => run' = Merging(r)
      /\ OpensFirst(r) => /\ run'.state = "opening" /\ run'.plan = r.plan
                          /\ run'.opening = r.opening /\ run'.off = r.off
                          /\ run'.page = r.page
      BY TakesIs
<1>2. /\ r.plan = plan /\ r.opening = run.opening /\ r.page = page /\ r.off = Handles \ live
      /\ r.named = run.named /\ r.accept = run.accept
      BY TakenIs
<1> HIDE DEF r
<1>3. /\ plan.opens => plan.cursor = NoCursor /\ ~plan.resumed
      /\ plan.kind = "delta" <=> page.kind = "delta"
      /\ plan.kind = "delta" => plan.opens /\ ~src.round.open
      /\ plan.kind = "round" /\ ~plan.opens => Matches(src.round, plan)
      /\ page.kind \in {"deltaHead", "bandHead"} => ~plan.opens
      /\ page.kind \notin {"delta", "deltaHead"} => page.vanished = {}
      /\ page.narrowed => ~page.failing
      /\ ~run.opening
      BY ListableIs
<1>4. /\ RoundSwept' /\ StampsSeen'
      BY <1>1 DEF Swept, RoundSwept, StampsSeen, Sure, Filters
<1>5. plan.kind \in {"delta", "round"}
      BY DEF Plans
<1>6. page.kind \in {"partial", "last"} /\ ~page.failing =>
        /\ plan.kind = "round"
        /\ \E missed \in Missing : page = RoundPage(plan, missed)
  <2>1. page.kind \in {"partial", "last"} => page # HeadPage /\ page # DeltaPage
        BY HeadPageIs, DeltaPageIs
  <2>2. ~page.failing => page # NothingPage(plan)
        BY NothingPageIs
  <2> QED BY <1>3, <1>5, <2>1, <2>2 DEF Listable
<1>7. page.failing => /\ plan.kind = "round" /\ page = NothingPage(plan) /\ ~run.named
                      /\ plan.cursor = NoCursor
                      /\ plan.opens \/ ~seen
  <2>1. /\ ~HeadPage.failing /\ ~DeltaPage.failing
        BY HeadPageIs, DeltaPageIs
  <2>2. \A missed : ~RoundPage(plan, missed).failing
        BY RoundPageIs
  <2> QED BY <2>1, <2>2 DEF Listable
<1>8. CASE OpensFirst(r)
  <2>1. page.kind = "last" /\ page.narrowed /\ plan.opens /\ ~page.failing
        BY <1>2, <1>3, <1>8 DEF OpensFirst
  <2>2. PICK missed \in Missing : page = RoundPage(plan, missed)
        BY <1>6, <2>1
  <2>3. /\ page.enumerates => page.enumerated = live
        /\ page.capped <=> conn.capped
        /\ Reaches(plan) >= N /\ Reaches(plan) \in Nat
    <3>1. Reaches(plan) \in Nat
          BY RoundsAssumption DEF Reaches, TypeOK, Plans, Cursors
    <3> QED BY <2>1, <2>2, <3>1, RoundPageIs
  <2>4. ASSUME NEW h \in Handles, h \in live, Sure(plan, h)
        PROVE  h \in page.listed
    <3>1. h <= Reaches(plan)
          BY <2>3, Nones DEF Handles
    <3> QED BY <1>3, <2>1, <2>2, <2>4, <3>1, RoundPageSweeps DEF Swept
  <2>5. Off' = Handles \ live
        BY <1>1, <1>2, <1>8 DEF Off
  <2>6. OpeningSwept'
        BY <1>1, <1>2, <1>8, <2>3, <2>4, <2>5 DEF OpeningSwept, Sure, Filters
  <2>7. OffSwept' /\ MergedSwept'
        BY <1>1, <1>2, <1>8 DEF OffSwept, MergedSwept, Merged
  <2> QED BY <1>4, <2>6, <2>7 DEF Swept
<1>9. CASE ~OpensFirst(r)
  <2> DEFINE m == Merging(r)
  <2>1. /\ m \in Runs /\ m.state = "merging" /\ m.accept = r.accept
        /\ SamePlan(m.plan, plan)
        /\ m.opening <=> (Opening(r) \/ (Parks(r) /\ plan.cursor # NoCursor))
        /\ m.off = IF Opening(r) THEN r.off ELSE gone
        /\ SamePage(m.page, page)
        /\ m.page.kind = IF Parks(r) THEN "parked" ELSE page.kind
        /\ m.dropped = page.vanished \cup DroppedAbsent(r)
        BY <1>1, <1>2, MergingIs
  <2>2. run' = m
        BY <1>1, <1>9
  <2> HIDE DEF m
  <2>3. /\ Opening(r) <=> (plan.opens /\ page.kind \in {"partial", "last"})
        /\ Parks(r) => page.kind = "last"
        BY <1>2 DEF Opening, Parks
  <2>4. OffSwept'
    <3>1. m.opening => Handles \ live \subseteq m.off
      <4>1. CASE Opening(r)
            BY <1>2, <2>1, <4>1
      <4>2. CASE ~Opening(r) /\ m.opening
        <5>1. Parks(r) /\ plan.cursor # NoCursor
              BY <2>1, <4>2
        <5>2. src.round.open
              BY <1>3, <1>5, <2>3, <5>1 DEF Matches
        <5> QED BY <2>1, <4>2, <5>2 DEF Swept, RoundSwept
      <4> QED BY <4>1, <4>2
    <3>2. ~m.opening => m.off = gone
          BY <2>1
    <3> QED BY <1>1, <2>1, <2>2, <3>1, <3>2 DEF OffSwept, Merged
  <2>5. OpeningSwept'
        BY <2>1, <2>2 DEF OpeningSwept
  <2>6. m.page.kind = "partial" =>
          \A h \in Handles : h <= m.page.cursor.pos /\ h \notin Off' /\ Sure(m.plan, h)
                                => h \in Stamps' \cup m.page.listed
    <3> SUFFICES ASSUME m.page.kind = "partial",
                        NEW h \in Handles, h <= m.page.cursor.pos, h \notin Off', Sure(m.plan, h)
                 PROVE  h \in Stamps' \cup m.page.listed
        OBVIOUS
    <3>1. page.kind = "partial" /\ ~Parks(r) /\ (m.opening <=> plan.opens)
          BY <2>1, <2>3
    <3>2. ~page.failing
          BY <1>7, <3>1, NothingPageIs
    <3>3. plan.kind = "round"
          BY <1>6, <3>1, <3>2
    <3>4. PICK missed \in Missing : page = RoundPage(plan, missed)
          BY <1>6, <3>1, <3>2
    <3>5. page.cursor.pos = Reaches(plan)
      <4>1. ~(Reaches(plan) >= N)
            BY <3>1, <3>4, RoundPageIs
      <4> QED BY <3>4, <4>1, RoundPageIs
    <3>6. Sure(plan, h) /\ h <= Reaches(plan)
          BY <2>1, <3>5 DEF SamePlan, SamePage, Sure, Filters
    <3>7. IF plan.opens THEN h \in live ELSE h \notin gone
          BY <1>1, <1>2, <2>1, <2>2, <2>3, <3>1 DEF Off
    <3>8. h \in page.listed \/ (~plan.opens /\ h \in stamp)
          BY <1>3, <3>3, <3>4, <3>6, <3>7, RoundPageSweeps DEF Swept
    <3>9. ~plan.opens => Stamps' = stamp
          BY <1>1, <2>2, <3>1 DEF Stamps
    <3> QED BY <2>1, <3>8, <3>9 DEF SamePage
  <2>7. m.page.kind = "deltaHead" => m.dropped \subseteq gone
    <3> SUFFICES ASSUME m.page.kind = "deltaHead"
                 PROVE  m.dropped \subseteq gone
        OBVIOUS
    <3>1. page.kind = "deltaHead" /\ ~plan.opens /\ plan.kind = "round"
          BY <1>3, <1>5, <2>1
    <3>2. Handles \ live \subseteq gone
          BY <1>3, <3>1 DEF Matches, Swept, RoundSwept
    <3>3. page = HeadPage
      <4>1. \A missed : RoundPage(plan, missed).kind # "deltaHead"
            BY RoundPageIs
      <4>2. DeltaPage.kind # "deltaHead" /\ NothingPage(plan).kind # "deltaHead"
            BY DeltaPageIs, NothingPageIs
      <4> QED BY <3>1, <4>1, <4>2 DEF Listable
    <3>4. page.vanished \subseteq Handles \ live
          BY <3>3, HeadPageIs
    <3>5. DroppedAbsent(r) = {}
          BY <1>2, <3>1 DEF DroppedAbsent, Absent
    <3> QED BY <2>1, <3>2, <3>4, <3>5
  <2>8. m.page.kind = "last" => \/ m.dropped \subseteq m.off
                                \/ m.page.failing /\ m.accept /\ m.plan.cursor = NoCursor
    <3> SUFFICES ASSUME m.page.kind = "last"
                 PROVE  \/ m.dropped \subseteq m.off
                        \/ m.page.failing /\ m.accept /\ m.plan.cursor = NoCursor
        OBVIOUS
    <3>1. /\ page.kind = "last" /\ ~Parks(r) /\ plan.kind = "round"
          /\ m.dropped = Absent(r)
          BY <1>3, <1>5, <2>1, <2>3 DEF DroppedAbsent
    <3>2. CASE page.failing
      <4>1. /\ page = NothingPage(plan) /\ plan.cursor = NoCursor /\ ~r.named
            /\ plan.opens \/ ~seen
            BY <1>2, <1>7, <3>2
      <4>2. page.listed = {}
            BY <4>1, NothingPageIs
      <4>3. CASE r.accept
            BY <2>1, <3>2, <4>1, <4>3 DEF SamePage, SamePlan
      <4>4. CASE ~r.accept
        <5>1. stamp = {} \/ ~r.plan.resumed
              BY <1>2, <1>3, <4>1 DEF Swept, StampsSeen
        <5>2. r.plan.resumed => Matches(src.round, r.plan)
              BY <1>2, <1>3, <3>1
        <5>3. Absent(r) = {}
              BY <1>1, <1>2, <3>1, <4>1, <4>2, <4>4, <5>1, <5>2, NothingParks, NothingStamped
        <5> QED BY <3>1, <5>3
      <4> QED BY <4>3, <4>4
    <3>3. CASE ~page.failing
      <4>1. PICK missed \in Missing : page = RoundPage(plan, missed)
            BY <1>6, <3>1, <3>3
      <4>2. /\ page.enumerates => page.enumerated = live
            /\ page.capped <=> conn.capped
            /\ page.narrowed <=> Filters(plan)
            /\ Reaches(plan) >= N /\ Reaches(plan) \in Nat
        <5>1. Reaches(plan) \in Nat
              BY RoundsAssumption DEF Reaches, TypeOK, Plans, Cursors
        <5> QED BY <3>1, <4>1, <5>1, RoundPageIs
      <4>3. /\ Opening(r) <=> plan.opens
            /\ Opening(r) => ~page.narrowed
            BY <1>2, <1>9, <2>3, <3>1 DEF OpensFirst
      <4>4. m.off = IF plan.opens THEN Handles \ live ELSE gone
            BY <1>2, <2>1, <4>3
      <4>5. ~plan.opens => Handles \ live \subseteq gone
            BY <1>3, <3>1 DEF Matches, Swept, RoundSwept
      <4>6. ASSUME NEW h \in Handles, h \notin m.off, Sure(plan, h)
            PROVE  h \in page.listed \/ (~plan.opens /\ h \in stamp)
        <5>1. h <= Reaches(plan)
              BY <4>2, Nones DEF Handles
        <5>2. IF plan.opens THEN h \in live ELSE h \notin gone
              BY <4>4, <4>6
        <5> QED BY <1>3, <3>1, <4>1, <4>6, <5>1, <5>2, RoundPageSweeps DEF Swept
      <4>7. page.enumerates => Handles \ m.off \subseteq page.enumerated
            BY <4>2, <4>4, <4>5
      <4>8. Absent(r) \subseteq m.off
            BY <1>1, <1>2, <1>3, <3>1, <4>2, <4>3, <4>6, <4>7, AbsentIsOff
      <4> QED BY <3>1, <4>8
    <3> QED BY <3>2, <3>3
  <2>9. MergedSwept'
        BY <1>1, <2>2, <2>6, <2>7, <2>8 DEF MergedSwept, Sure, Filters
  <2> QED BY <1>4, <2>4, <2>5, <2>9 DEF Swept
<1> QED BY <1>8, <1>9

(* Every step keeps what the open round swept.                             *)
LEMMA SweptStep ==
    ASSUME TypeOK, Shape, Swept, [Next]_vars
    PROVE  Swept'
<1>1. run \in Runs \cup {NoRun} /\ NoRun \notin Runs /\ run' \in Runs \cup {NoRun}
      BY ShapeStep, Tags DEF TypeOK
<1>2. ASSUME NEW h \in Handles, ClientAdds(h) \/ ClientEdits(h) \/ ClientRemoves(h)
      PROVE  Swept'
  <2>1. /\ UNCHANGED <<conn, stamp, src, seen>> /\ live' \subseteq Handles
        /\ gone' = gone \cup (live \ live')
        /\ run = NoRun => run' = NoRun
        /\ run \in Runs => /\ run' \in Runs /\ SameButOff(run', run)
                           /\ run'.off = run.off \cup (live \ live')
        BY <1>2, ClientIs
  <2>2. RoundSwept' /\ StampsSeen'
        BY <2>1 DEF Swept, RoundSwept, StampsSeen, Sure, Filters
  <2>3. ASSUME run \in Runs, run.state # "enumerating"
        PROVE  OffSwept' /\ OpeningSwept' /\ MergedSwept'
    <3>1. OffSwept /\ OpeningSwept /\ MergedSwept
          BY <2>3 DEF Swept
    <3>2. /\ run'.state = run.state /\ run'.opening = run.opening /\ run'.plan = run.plan
          /\ run'.page = run.page /\ run'.dropped = run.dropped /\ run'.accept = run.accept
          /\ run'.off = run.off \cup (live \ live')
          BY <2>1, <2>3 DEF SameButOff
    <3>3. Off \subseteq Off' /\ Stamps' = Stamps
          BY <2>1, <3>2 DEF Off, Stamps
    <3>4. OffSwept'
          BY <2>1, <3>1, <3>2 DEF OffSwept, Merged
    <3>5. OpeningSwept'
          BY <2>1, <3>1, <3>2, <3>3 DEF OpeningSwept, Sure, Filters
    <3>6. MergedSwept'
          BY <2>1, <3>1, <3>2, <3>3 DEF MergedSwept, Merged, Sure, Filters
    <3> QED BY <3>4, <3>5, <3>6
  <2> QED BY <1>1, <2>1, <2>2, <2>3 DEF Swept, SameButOff
<1>3. ASSUME NEW wanted \in Wanted, NEW full \in Fulls, NEW accept \in Accepts,
             Start(wanted, full, accept)
      PROVE  Swept'
  <2>1. full \in BOOLEAN /\ accept \in BOOLEAN
        BY RoundsAssumption
  <2>2. /\ UNCHANGED <<conn, live, stamp, src, gone, seen>> /\ run'.state = "enumerating"
        BY <1>3, <2>1, StartIs
  <2> QED BY <2>2 DEF Swept, RoundSwept, StampsSeen, Sure, Filters
<1>4. CASE Answers
  <2>1. /\ run \in Runs /\ run.state = "enumerating"
        BY <1>1, <1>4, AnswerIs
  <2>2. PICK plan \in Plans, page \in Pages :
                 page.kind # "parked" /\ Listable(plan, page) /\ Takes(plan, page)
        BY <1>1, <1>4, AnswerIs
  <2> QED BY <2>1, <2>2, TakesSwept
<1>5. CASE OpenNarrowed
  <2>1. run \in Runs /\ run.state = "opening" /\ run.plan \in Plans
        BY <1>1, <1>5, Tags DEF OpenNarrowed, Runs
  <2>2. PlanShape /\ OpeningShape /\ OffSwept /\ OpeningSwept
        BY <2>1 DEF Shape, Swept
  <2>3. /\ conn' = conn /\ live' = live /\ src' = Opened(src, run.plan)
        /\ stamp' = {} /\ gone' = run.off /\ seen' = FALSE
        /\ run' \in Runs /\ run'.state = "loading"
        /\ SamePlan(run'.plan, run.plan) /\ run'.opening = run.opening /\ run'.page = run.page
        BY <1>5, <2>1, OpenNarrowedIs
  <2>4. src'.round.cursor.pos = 0
        BY <2>1, <2>3, OpenedIs, Nones
  <2>5. ~run.opening /\ Handles \ live \subseteq run.off
        BY <2>1, <2>2 DEF PlanShape, OffSwept
  <2>6. RoundSwept' /\ StampsSeen'
        BY <2>3, <2>4, <2>5 DEF RoundSwept, StampsSeen, Handles
  <2>7. Off' = Off
        BY <2>1, <2>3, <2>5 DEF Off
  <2>8. OpeningSwept'
        BY <2>1, <2>2, <2>3, <2>7 DEF OpeningSwept, Sure, Filters, SamePlan
  <2>9. OffSwept' /\ MergedSwept'
        BY <2>3, <2>5 DEF OffSwept, MergedSwept, Merged
  <2> QED BY <2>6, <2>8, <2>9 DEF Swept
<1>6. CASE OpenMerge
  <2>1. /\ run \in Runs /\ run.state = "loading" /\ run' = Merging(run)
        /\ UNCHANGED <<conn, live, stamp, src, gone, seen>>
        BY <1>1, <1>6, Tags DEF OpenMerge, server, store, history
  <2>2. /\ PlanShape /\ OpeningShape /\ OffSwept /\ OpeningSwept /\ RoundSwept
        /\ run.page \in Pages /\ run.plan \in Plans
        BY <2>1 DEF Shape, Swept, Runs
  <2> DEFINE m == Merging(run)
  <2>3. /\ m \in Runs /\ m.state = "merging" /\ SamePlan(m.plan, run.plan)
        /\ m.opening <=> (Opening(run) \/ (Parks(run) /\ run.plan.cursor # NoCursor))
        /\ m.off = IF Opening(run) THEN run.off ELSE gone
        /\ m.page.kind = IF Parks(run) THEN "parked" ELSE run.page.kind
        /\ m.dropped = run.page.vanished \cup DroppedAbsent(run)
        BY <2>1, <2>2, MergingIs
  <2> HIDE DEF m
  <2>4. /\ ~run.plan.opens /\ run.page.kind = "last" /\ run.page.narrowed /\ ~run.opening
        /\ run.plan.cursor = NoCursor /\ run.page.vanished = {} /\ run.plan.kind = "round"
        BY <2>1, <2>2 DEF PlanShape, OpeningShape, Plans
  <2>5. Matches(src.round, run.plan)
        BY <2>2, <2>4 DEF PlanShape
  <2>6. ~Opening(run) /\ Off = gone /\ ~m.opening /\ m.off = gone
        BY <2>1, <2>3, <2>4 DEF Opening, Off
  <2>7. Absent(run) \subseteq gone
        BY <2>1, <2>2, <2>4, <2>5, <2>6, AbsentIsOff DEF OpeningSwept
  <2>8. m.dropped \subseteq m.off
        BY <2>3, <2>4, <2>6, <2>7 DEF DroppedAbsent
  <2>9. run' = m
        BY <2>1 DEF m
  <2>10. MergedSwept'
        BY <2>3, <2>4, <2>8, <2>9 DEF MergedSwept
  <2>11. OffSwept' /\ OpeningSwept'
        BY <2>1, <2>3, <2>6, <2>9 DEF OffSwept, OpeningSwept
  <2> QED BY <2>1, <2>10, <2>11 DEF Swept, RoundSwept, StampsSeen, Sure, Filters
<1>7. ASSUME NEW h \in Handles, Merge(h)
      PROVE  Swept'
  <2>1. run \in Runs /\ run.state = "merging"
        BY <1>1, <1>7, Tags DEF Merge
  <2>2. /\ PlanShape /\ MergedShape /\ OffSwept /\ MergedSwept /\ RoundSwept
        /\ run.page \in Pages /\ run.plan \in Plans
        BY <2>1 DEF Shape, Swept, Runs
  <2>3. /\ conn' = conn /\ live' = live /\ src' = Row
        /\ stamp' = IF h \in run.dropped THEN Stamps \ {h} ELSE Stamps
        /\ gone' = IF run.opening THEN run.off ELSE gone
        /\ seen' = (seen /\ ~run.opening)
        /\ run' \in Runs /\ run'.state = "merging"
        /\ run'.accept = run.accept /\ run'.plan = run.plan
        /\ run'.opening = FALSE /\ run'.off = run.off /\ run'.page = run.page
        /\ run'.dropped = run.dropped
        BY <1>7, <2>1, <2>2, MergeIs
  <2>4. /\ ~run.opening => Row = src /\ Stamps = stamp
        /\ run.opening => /\ Row.round.open = TRUE /\ Row.round.cursor = NoCursor
                          /\ Stamps = {}
        BY <2>1, RowIs
  <2>5. StampsSeen'
        BY <2>3, <2>4 DEF StampsSeen, Swept
  <2>6. RoundSwept'
    <3>1. CASE run.opening
      <4>1. src'.round.cursor.pos = 0 /\ gone' = run.off /\ Handles \ live \subseteq run.off
            BY <2>2, <2>3, <2>4, <3>1, Nones DEF OffSwept
      <4> QED BY <2>3, <4>1 DEF RoundSwept, Handles
    <3>2. CASE ~run.opening /\ src.round.open
      <4>1. /\ src' = src /\ gone' = gone /\ run.off = gone
            /\ stamp' = IF h \in run.dropped THEN stamp \ {h} ELSE stamp
            BY <2>1, <2>2, <2>3, <2>4, <3>2 DEF OffSwept, Merged
      <4>2. h \in run.dropped => h \in gone \/ src.round.cursor.pos = 0
        <5>1. run.page.kind # "delta" /\ run.plan.kind = "round" /\ ~run.plan.opens
              BY <2>1, <2>2, <3>2 DEF PlanShape, MergedShape, Merged, Plans
        <5>2. run.page.kind \in {"partial", "bandHead", "parked"} => run.dropped = {}
              BY <2>1, <2>2 DEF MergedShape, Merged
        <5>3. run.page.kind = "deltaHead" => run.dropped \subseteq gone
              BY <2>1, <2>2 DEF MergedSwept, Merged
        <5>4. run.page.kind = "last" => run.dropped \subseteq gone \/ run.plan.cursor = NoCursor
              BY <2>1, <2>2, <4>1 DEF MergedSwept, Merged
        <5>5. run.page.kind = "last" => src.round.cursor = run.plan.cursor
              BY <2>2, <3>2, <5>1 DEF PlanShape, Matches
        <5>6. run.page.kind \in {"delta", "deltaHead", "bandHead", "partial", "last", "parked"}
              BY <2>2 DEF Pages
        <5> QED BY <5>1, <5>2, <5>3, <5>4, <5>5, <5>6, Nones
      <4> QED BY <2>2, <2>3, <3>2, <4>1, <4>2 DEF RoundSwept, Sure, Filters, Handles
    <3>3. CASE ~run.opening /\ ~src.round.open
          BY <2>3, <2>4, <3>3 DEF RoundSwept
    <3> QED BY <3>1, <3>2, <3>3
  <2>7. OffSwept' /\ OpeningSwept'
        BY <2>1, <2>2, <2>3 DEF OffSwept, OpeningSwept, Merged
  <2>8. Off' = Off /\ Stamps' = stamp'
        BY <2>1, <2>3 DEF Off, Stamps
  <2>9. run.page.kind = "partial" => stamp' = Stamps
        BY <2>1, <2>2, <2>3 DEF MergedShape, Merged
  <2>10. run.page.kind = "deltaHead" => gone' = gone
        BY <2>1, <2>2, <2>3 DEF MergedShape, Merged
  <2>11. MergedSwept'
        BY <2>1, <2>2, <2>3, <2>8, <2>9, <2>10 DEF MergedSwept, Merged, Sure, Filters
  <2> QED BY <2>5, <2>6, <2>7, <2>11 DEF Swept
<1>8. ASSUME NEW a \in Arrivals, NEW answered \in BOOLEAN, Push(a, answered)
      PROVE  Swept'
  <2>1. run \in Runs /\ run.state = "merging"
        BY <1>1, <1>8, Tags DEF Push
  <2>2. OffSwept /\ MergedSwept /\ RoundSwept
        BY <2>1 DEF Swept
  <2>3. /\ UNCHANGED <<conn, stamp, src, gone, seen>> /\ live' = live \cup {a}
        /\ run' \in Runs /\ run'.state = "landing"
        /\ run'.accept = run.accept /\ run'.plan = run.plan
        /\ run'.opening = run.opening /\ run'.off = run.off /\ run'.page = run.page
        /\ run'.dropped = run.dropped
        BY <1>8, <2>1, PushIs
  <2>4. RoundSwept' /\ StampsSeen'
        BY <2>2, <2>3 DEF Swept, RoundSwept, StampsSeen, Sure, Filters
  <2>5. OffSwept' /\ OpeningSwept'
        BY <2>1, <2>2, <2>3 DEF OffSwept, OpeningSwept, Merged
  <2>6. Off' = Off /\ Stamps' = Stamps
        BY <2>1, <2>3 DEF Off, Stamps
  <2>7. MergedSwept'
        BY <2>1, <2>2, <2>3, <2>6 DEF MergedSwept, Merged, Sure, Filters
  <2> QED BY <2>4, <2>5, <2>7 DEF Swept
<1>9. CASE Land
  <2>1. run \in Runs /\ run.state \in {"merging", "landing"}
        BY <1>1, <1>9, Tags DEF Land
  <2>2. /\ PlanShape /\ MergedShape /\ OffSwept /\ MergedSwept /\ RoundSwept
        /\ run.page \in Pages /\ run.plan \in Plans
        BY <2>1 DEF Shape, Swept, Runs
  <2>3. /\ conn' = conn /\ live' = live /\ src' = Tail(Row)
        /\ stamp' = Stamps \cup (Stamped(run.page) \ run.dropped)
        /\ gone' = IF run.opening THEN run.off ELSE gone
        /\ seen' = (Stamped(run.page) \ run.dropped # {} \/ (seen /\ ~run.opening))
        /\ run.page.kind \notin Onward => run' = NoRun
        /\ run.page.kind \in Onward => run'.state = "enumerating"
        BY <1>9, <2>1, <2>2, LandIs
  <2>4. /\ Row \in SourceRows
        /\ ~run.opening => Row = src /\ Stamps = stamp
        /\ run.opening => /\ Row.round.open = TRUE /\ Row.round.cursor = NoCursor
                          /\ Row.round.scope = run.plan.scope /\ Row.round.band = run.plan.band
                          /\ Stamps = {}
        BY <2>1, RowIs
  <2>5. StampsSeen'
        BY <2>3, <2>4 DEF StampsSeen, Swept
  <2>6. RoundSwept'
    <3>1. CASE run.page.kind = "last"
      <4>1. src'.round = NoRound
            BY <2>1, <2>2, <2>3, <2>4, <3>1, TailIs
      <4> QED BY <4>1, Nones DEF RoundSwept
    <3>2. CASE run.page.kind = "delta"
      <4>1. ~run.opening /\ ~src.round.open
            BY <2>1, <2>2, <3>2 DEF PlanShape, MergedShape, Merged
      <4>2. src'.round = src.round
            BY <2>1, <2>2, <2>3, <2>4, <3>2, <4>1, TailIs
      <4> QED BY <4>1, <4>2 DEF RoundSwept
    <3>3. CASE run.page.kind \in {"partial", "parked", "deltaHead", "bandHead"}
      <4>1. /\ src'.round.open = Row.round.open /\ src'.round.scope = Row.round.scope
            /\ src'.round.band = Row.round.band
            /\ src'.round.cursor = IF run.page.kind = "partial" THEN run.page.cursor
                                   ELSE Row.round.cursor
            BY <2>1, <2>2, <2>3, <2>4, <3>3, TailIs
      <4>2. Row.round.open => Handles \ live \subseteq gone'
            BY <2>2, <2>3, <2>4 DEF OffSwept, RoundSwept
      <4>3. CASE run.page.kind = "partial"
        <5>1. /\ run.dropped = {} /\ Stamped(run.page) = run.page.listed
              /\ run.plan.kind = "round" /\ ~run.plan.opens /\ run.state = "merging"
              BY <2>1, <2>2, <4>3 DEF MergedShape, Merged, Stamped, Plans
        <5>2. Row.round.scope = run.plan.scope /\ Row.round.band = run.plan.band
              BY <2>2, <2>4, <4>3, <5>1 DEF PlanShape, Matches
        <5>3. gone' = Off
              BY <2>3, <5>1 DEF Off
        <5>4. \A k \in Handles : k <= run.page.cursor.pos /\ k \notin Off /\ Sure(run.plan, k)
                                    => k \in Stamps \cup run.page.listed
              BY <2>1, <2>2, <4>3 DEF MergedSwept, Merged
        <5>5. \A k \in Handles : Sure(src.round, k)' => Sure(run.plan, k)
              BY <2>3, <4>1, <5>2 DEF Sure, Filters
        <5>6. stamp' = Stamps \cup run.page.listed
              BY <2>3, <5>1
        <5> QED BY <2>3, <4>1, <4>2, <4>3, <5>3, <5>4, <5>5, <5>6 DEF RoundSwept
      <4>4. CASE run.page.kind # "partial" /\ run.opening
        <5>1. src'.round.cursor.pos = 0
              BY <2>4, <4>1, <4>4, Nones
        <5> QED BY <2>3, <4>1, <4>2, <5>1 DEF RoundSwept, Handles
      <4>5. CASE run.page.kind # "partial" /\ ~run.opening
        <5>1. /\ stamp \subseteq stamp' /\ gone' = gone
              /\ src'.round.cursor = src.round.cursor /\ src'.round.open = src.round.open
              /\ src'.round.scope = src.round.scope /\ src'.round.band = src.round.band
              BY <2>3, <2>4, <4>1, <4>5
        <5> QED BY <2>2, <2>3, <5>1 DEF RoundSwept, Sure, Filters
      <4> QED BY <4>3, <4>4, <4>5
    <3>4. run.page.kind \in {"delta", "deltaHead", "bandHead", "partial", "last", "parked"}
          BY <2>2 DEF Pages
    <3> QED BY <3>1, <3>2, <3>3, <3>4
  <2> QED BY <1>1, <2>3, <2>5, <2>6 DEF Swept
<1>10. CASE Refuses
  <2>1. run \in Runs
        BY <1>1, <1>10, Tags DEF Refuses
  <2>2. UNCHANGED <<conn, live, stamp, src, gone, seen>> /\ run'.state = "enumerating"
        BY <1>10, <2>1, RefusesIs
  <2> QED BY <2>2 DEF Swept, RoundSwept, StampsSeen, Sure, Filters
<1>11. CASE ListsNoHead
  <2>1. run \in Runs
        BY <1>1, <1>11, Tags DEF ListsNoHead
  <2>2. UNCHANGED <<conn, live, stamp, src, gone, seen>> /\ run'.state = "enumerating"
        BY <1>11, <2>1, ListsNoHeadIs
  <2> QED BY <2>2 DEF Swept, RoundSwept, StampsSeen, Sure, Filters
<1>12. CASE Interrupt
  <2>1. UNCHANGED <<conn, live, stamp, src, gone, seen>> /\ run' = NoRun
        BY <1>12, InterruptIs
  <2> QED BY <1>1, <2>1 DEF Swept, RoundSwept, StampsSeen, Sure, Filters
<1>13. CASE UNCHANGED vars
       BY <1>13 DEF vars, Swept, RoundSwept, StampsSeen, OffSwept, OpeningSwept, MergedSwept,
                    Off, Stamps, Merged, Sure, Filters
<1> QED
  BY <1>2, <1>3, <1>4, <1>5, <1>6, <1>7, <1>8, <1>9, <1>10, <1>11, <1>12, <1>13
     DEF Next, Client, Begin, Faulty, Steps, Answers

(* The initial states satisfy the types and the shape of rounds.           *)
LEMMA RoundsInit ==
    ASSUME Init
    PROVE  TypeOK /\ Shape /\ Swept
<1>1. /\ src = [checkpoint |-> 0, coverage |-> NoScope, round |-> NoRound]
      /\ run = NoRun /\ stamp = {}
      BY DEF Init
<1>2. src \in SourceRows /\ ~src.round.open
      BY <1>1, Nones DEF SourceRows
<1>3. TypeOK
      BY <1>1, <1>2 DEF Init, TypeOK
<1>4. run \notin Runs
      BY <1>1, Tags
<1> QED BY <1>1, <1>2, <1>3, <1>4 DEF Shape, Swept, RoundSwept, StampsSeen

(* The source's row, the run and the histories keep their types.           *)
THEOREM TypeCorrect == Spec => []TypeOK
<1>1. Init => TypeOK /\ Shape
      BY RoundsInit
<1>2. TypeOK /\ Shape /\ [Next]_vars => (TypeOK /\ Shape)'
      BY ShapeStep
<1> QED BY <1>1, <1>2, PTL DEF Spec

(* A binding is dropped for its absence only when its member was off the   *)
(* server since the round opened, however many runs and crashes the round  *)
(* spans (open_merge, list_unstamped_bindings and PimdirParked::guard).    *)
THEOREM AbsenceIsProven == Spec => []AbsenceProven
<1>1. Init => TypeOK /\ Shape /\ Swept
      BY RoundsInit
<1>2. TypeOK /\ Shape /\ Swept /\ [Next]_vars => (TypeOK /\ Shape /\ Swept)'
      BY ShapeStep, SweptStep
<1>3. TypeOK /\ Shape /\ Swept => AbsenceProven
  <2> SUFFICES ASSUME TypeOK, Shape, Swept, run.state = "merging"
               PROVE  run.absent \subseteq run.off \/ (run.page.failing /\ run.accept)
      BY DEF AbsenceProven
  <2>1. run \in Runs
        BY Tags DEF TypeOK
  <2>2. MergedShape /\ MergedSwept
        BY <2>1 DEF Shape, Swept
  <2> QED BY <2>2 DEF MergedShape, MergedSwept, Merged
<1> QED BY <1>1, <1>2, <1>3, PTL DEF Spec

-----------------------------------------------------------------------------
(* Time.  A checkpoint or a position's change number, where there is one,  *)
(* is no older than the source's checkpoint and no newer than the server;  *)
(* what a page listed is held as it listed it once merged.                 *)

Later(t) == t <= clock /\ (t # 0 => src.checkpoint <= t)
Placed(cursor) == Later(cursor.mod) /\ (cursor # NoCursor => cursor.pos > 0 /\ cursor.mod > 0)

Times ==
    /\ clock > 0 /\ src.checkpoint <= clock
    /\ \A h \in Handles : mod[h] <= clock /\ (h \in live => mod[h] # 0)
    /\ src.round.open => Later(src.round.checkpoint) /\ Placed(src.round.cursor)
    /\ run \in Runs =>
         /\ Later(run.plan.checkpoint) /\ Placed(run.plan.cursor)
         /\ \A h \in run.pushed : mod[h] # 0
         /\ run.state # "enumerating" =>
              Later(run.page.checkpoint) /\ Placed(run.page.cursor)

MergesPage ==
    run \in Runs /\ run.state # "enumerating" =>
      /\ \A h \in run.page.listed : run.page.at[h] # 0
      /\ Merged =>
           /\ run.todo \subseteq run.page.listed \cup run.dropped
           /\ \A h \in run.page.listed : h \notin run.todo => held[h] = run.page.at[h]
           /\ \A h \in run.dropped : h \notin run.todo => held[h] = 0
           /\ run.dropped \cap run.page.listed = {}
           /\ run.page.vanished \subseteq run.dropped

StampsBound == \A h \in stamp : held[h] # 0

Timed == Times /\ MergesPage /\ StampsBound

(* What any answer lists is there, and what it names as vanished is not.   *)
LEMMA ListedLive ==
    ASSUME TypeOK, run \in Runs, NEW plan \in Plans, NEW page \in Pages, Listable(plan, page)
    PROVE  /\ page.listed \subseteq live /\ page.vanished \cap live = {}
           /\ \A h \in page.listed : page.at[h] = mod[h]
<1>1. /\ HeadPage.listed \subseteq live /\ HeadPage.vanished \cap live = {}
      /\ \A h \in HeadPage.listed : HeadPage.at[h] = mod[h]
      BY HeadPageIs DEF Changed
<1>2. /\ DeltaPage.listed \subseteq live /\ DeltaPage.vanished \cap live = {}
      /\ \A h \in DeltaPage.listed : DeltaPage.at[h] = mod[h]
      BY DeltaPageIs DEF Changed
<1>3. ASSUME NEW missed, page = RoundPage(plan, missed)
      PROVE  /\ page.listed \subseteq live /\ page.vanished = {}
             /\ \A h \in page.listed : page.at[h] = mod[h]
  <2> DEFINE p == RoundPage(plan, missed)
  <2>1. p.listed \subseteq live /\ p.vanished = {}
        BY RoundPageIs
  <2>3. p.at = [h \in Handles |-> IF h \in p.listed THEN mod[h] ELSE 0]
        BY RoundPageIs
  <2> HIDE DEF p
  <2>2. page = p
        BY <1>3 DEF p
  <2> QED BY <2>1, <2>2, <2>3 DEF TypeOK
<1>4. NothingPage(plan).listed = {} /\ NothingPage(plan).vanished = {}
      BY NothingPageIs
<1> QED BY <1>1, <1>2, <1>3, <1>4 DEF Listable

(* The times an answer carries.                                            *)
LEMMA ListableTimes ==
    ASSUME TypeOK, Shape, Times, run \in Runs, run.state = "enumerating",
           NEW plan \in Plans, NEW page \in Pages, Listable(plan, page)
    PROVE  /\ Later(plan.checkpoint) /\ Placed(plan.cursor)
           /\ Later(page.checkpoint) /\ Placed(page.cursor)
<1>1. Later(0) /\ Later(clock) /\ clock > 0 /\ clock \in Nat /\ src.checkpoint \in Nat
      BY DEF Times, Later, TypeOK, SourceRows
<1>2. Placed(NoCursor)
      BY <1>1, Nones DEF Placed
<1>3. Later(plan.checkpoint) /\ Placed(plan.cursor)
  <2>1. CASE plan = run.plan
        BY <2>1 DEF Times
  <2>2. CASE plan = Afresh(run.wanted)
    <3>1. run.wanted \in Ranges
          BY RoundsAssumption DEF Runs, Ranges
    <3> QED BY <1>1, <1>2, <2>2, <3>1, AfreshIs
  <2> QED BY <2>1, <2>2 DEF Listable
<1>4. ASSUME NEW missed, page = RoundPage(plan, missed)
      PROVE  Later(page.checkpoint) /\ Placed(page.cursor)
  <2>1. Later(Began(plan)) /\ Began(plan) > 0
        BY <1>1, <1>3 DEF Began, Placed
  <2>2. Reaches(plan) > 0
        BY RoundsAssumption DEF Reaches, TypeOK, Plans, Cursors
  <2>3. page.checkpoint \in {0, clock, Began(plan)}
        BY <1>4, RoundPageIs
  <2>4. \/ page.cursor = NoCursor
        \/ page.cursor.pos = Reaches(plan) /\ page.cursor.mod = Began(plan)
        BY <1>4, RoundPageIs
  <2>5. page.cursor # NoCursor => Placed(page.cursor)
        BY <2>1, <2>2, <2>4 DEF Placed
  <2> QED BY <1>1, <1>2, <2>1, <2>3, <2>4, <2>5
<1>5. /\ HeadPage.checkpoint \in {0, clock} /\ HeadPage.cursor = NoCursor
      /\ DeltaPage.checkpoint = clock /\ DeltaPage.cursor = NoCursor
      /\ NothingPage(plan).checkpoint \in {0, clock} /\ NothingPage(plan).cursor = NoCursor
      BY HeadPageIs, DeltaPageIs, NothingPageIs
<1> QED BY <1>1, <1>2, <1>3, <1>4, <1>5 DEF Listable

(* Opening the merge of a page just taken, or of one whose round just      *)
(* opened: nothing merged yet.                                             *)
LEMMA MergingMerges ==
    ASSUME TypeOK, NEW r \in Runs, r.page \in Pages, r.page.listed \cap r.page.vanished = {},
           \A h \in r.page.listed : r.page.at[h] # 0,
           run' = Merging(r), held' = held
    PROVE  MergesPage'
<1> DEFINE m == Merging(r)
<1>1. /\ SamePage(m.page, r.page)
      /\ m.dropped = r.page.vanished \cup DroppedAbsent(r)
      /\ m.todo = r.page.listed \cup (m.dropped \cap Bound)
      BY MergingIs
<1>2. run' = m
      OBVIOUS
<1> HIDE DEF m
<1>3. DroppedAbsent(r) \cap r.page.listed = {}
      BY DEF DroppedAbsent, Absent
<1>4. m.dropped \subseteq Handles
      BY <1>1, AbsentBound DEF Pages
<1>5. \A h \in m.dropped : h \notin m.todo => held[h] = 0
      BY <1>1, <1>4 DEF Bound
<1>6. /\ m.page.listed = r.page.listed /\ m.page.at = r.page.at
      /\ m.page.vanished = r.page.vanished
      BY <1>1 DEF SamePage
<1>7. /\ m.todo \subseteq m.page.listed \cup m.dropped
      /\ \A h \in m.page.listed : h \in m.todo /\ m.page.at[h] # 0
      /\ m.dropped \cap m.page.listed = {}
      /\ m.page.vanished \subseteq m.dropped
      BY <1>1, <1>3, <1>6
<1> QED BY <1>2, <1>5, <1>7 DEF MergesPage

(* Every step keeps the times and what the pages merged.                   *)
LEMMA TimedStep ==
    ASSUME TypeOK, Shape, Timed, [Next]_vars
    PROVE  Timed'
<1>1. /\ run \in Runs \cup {NoRun} /\ NoRun \notin Runs /\ run' \in Runs \cup {NoRun}
      /\ clock \in Nat /\ mod \in [Handles -> Nat] /\ src \in SourceRows
      BY ShapeStep, Tags DEF TypeOK
<1>2. ASSUME NEW h \in Handles, ClientAdds(h) \/ ClientEdits(h) \/ ClientRemoves(h)
      PROVE  Timed'
  <2>1. /\ UNCHANGED <<held, stamp, src>> /\ clock' = clock + 1 /\ mod'[h] = clock + 1
        /\ \A k \in Handles : k # h => mod'[k] = mod[k] /\ (k \in live' <=> k \in live)
        /\ run = NoRun => run' = NoRun
        /\ run \in Runs => run' \in Runs /\ SameButOff(run', run)
        BY <1>2, ClientIs
  <2>2. src.checkpoint \in Nat /\ src.round.checkpoint \in Nat /\ src.round.cursor.mod \in Nat
        BY <1>1 DEF SourceRows, RoundRows, Cursors
  <2>3. run \in Runs => /\ run.plan.checkpoint \in Nat /\ run.plan.cursor.mod \in Nat
                        /\ run.pushed \subseteq Handles
        BY RoundsAssumption DEF Runs, Plans, Cursors
  <2>4. run \in Runs /\ run.state # "enumerating" =>
           run.page.checkpoint \in Nat /\ run.page.cursor.mod \in Nat
        BY DEF Shape, Pages, Cursors
  <2>5. \A t \in Nat : Later(t) => Later(t)'
        BY <1>1, <2>1 DEF Later
  <2>6. /\ \A k \in Handles : mod'[k] <= clock' /\ (k \in live' => mod'[k] # 0)
        /\ \A k \in Handles : mod[k] # 0 => mod'[k] # 0
        BY <1>1, <2>1 DEF Timed, Times
  <2>7. Times'
        BY <1>1, <2>1, <2>2, <2>3, <2>4, <2>5, <2>6 DEF Timed, Times, Placed, Later, SameButOff
  <2>8. MergesPage'
        BY <1>1, <2>1 DEF Timed, MergesPage, Merged, SameButOff
  <2>9. StampsBound'
        BY <2>1 DEF Timed, StampsBound
  <2> QED BY <2>7, <2>8, <2>9 DEF Timed
<1>3. ASSUME NEW wanted \in Wanted, NEW full \in Fulls, NEW accept \in Accepts,
             Start(wanted, full, accept)
      PROVE  Timed'
  <2>1. full \in BOOLEAN /\ accept \in BOOLEAN
        BY RoundsAssumption
  <2>2. /\ UNCHANGED <<live, mod, clock, held, stamp, src>> /\ run'.pushed = {}
        /\ run' \in Runs /\ run'.state = "enumerating"
        /\ run'.plan = Choose(wanted, full) /\ run'.plan \in Plans
        BY <1>3, <2>1, StartIs
  <2>3. /\ run'.plan.kind = "delta" => run'.plan.cursor = NoCursor /\ run'.plan.checkpoint = src.checkpoint
        /\ run'.plan.kind = "round" =>
             /\ run'.plan.opens => run'.plan.cursor = NoCursor /\ run'.plan.checkpoint = 0
             /\ ~run'.plan.opens => /\ src.round.open /\ src.round.cursor = run'.plan.cursor
                                    /\ run'.plan.checkpoint = src.round.checkpoint
        BY <2>1, <2>2, ChooseIs
  <2>4. run'.plan.kind \in {"delta", "round"}
        BY <2>2 DEF Plans
  <2>5. Later(0) /\ Later(src.checkpoint) /\ Placed(NoCursor)
        BY <1>1, Nones DEF Timed, Times, Later, Placed, SourceRows
  <2>6. Later(run'.plan.checkpoint) /\ Placed(run'.plan.cursor)
        BY <2>3, <2>4, <2>5 DEF Timed, Times
  <2> QED BY <2>2, <2>6 DEF Timed, Times, Later, Placed, MergesPage, StampsBound
<1>4. CASE Answers
  <2>1. /\ run \in Runs /\ run.state = "enumerating"
        BY <1>1, <1>4, AnswerIs
  <2>2. PICK plan \in Plans, page \in Pages :
                 page.kind # "parked" /\ Listable(plan, page) /\ Takes(plan, page)
        BY <1>1, <1>4, AnswerIs
  <2> DEFINE r == Taken(plan, page)
  <2>3. /\ UNCHANGED <<conn, live, mod, clock, held, stamp, src, create, gone, seen, park>>
        /\ run' \in Runs /\ r \in Runs /\ r.page \in Pages
        /\ ~OpensFirst(r) => run' = Merging(r)
        /\ OpensFirst(r) => /\ run'.state = "opening" /\ run'.plan = r.plan
                            /\ run'.page = r.page /\ run'.pushed = r.pushed
        BY <2>1, <2>2, TakesIs
  <2>4. /\ r.plan = plan /\ r.page = page /\ r.pushed = run.pushed
        BY <2>1, TakenIs
  <2> HIDE DEF r
  <2>5. /\ Later(plan.checkpoint) /\ Placed(plan.cursor)
        /\ Later(page.checkpoint) /\ Placed(page.cursor)
        BY <2>1, <2>2, ListableTimes DEF Timed
  <2>6. ~OpensFirst(r) => /\ SamePlan(run'.plan, plan) /\ SamePage(run'.page, page)
                          /\ run'.pushed = r.pushed
        BY <2>3, <2>4, MergingIs
  <2>7. /\ run'.plan.checkpoint = plan.checkpoint /\ run'.plan.cursor = plan.cursor
        /\ run'.page.checkpoint = page.checkpoint /\ run'.page.cursor = page.cursor
        /\ run'.pushed = run.pushed
        BY <2>3, <2>4, <2>6 DEF SamePlan, SamePage
  <2>8. Times'
        BY <2>1, <2>3, <2>5, <2>7 DEF Timed, Times, Later, Placed
  <2>9. /\ page.listed \subseteq live /\ page.vanished \cap live = {}
        /\ \A h \in page.listed : page.at[h] = mod[h]
        BY <2>1, <2>2, ListedLive
  <2>10. \A h \in page.listed : page.at[h] # 0
        BY <2>9 DEF Timed, Times, TypeOK
  <2>11. MergesPage'
    <3>1. CASE OpensFirst(r)
          BY <2>3, <2>4, <2>10, <3>1 DEF MergesPage, Merged
    <3>2. CASE ~OpensFirst(r)
          BY <2>3, <2>4, <2>9, <2>10, <3>2, MergingMerges
    <3> QED BY <3>1, <3>2
  <2>12. StampsBound'
        BY <2>3 DEF Timed, StampsBound
  <2> QED BY <2>8, <2>11, <2>12 DEF Timed
<1>5. CASE OpenNarrowed
  <2>1. run \in Runs /\ run.state = "opening" /\ run.plan \in Plans
        BY <1>1, <1>5, Tags DEF OpenNarrowed, Runs
  <2>2. /\ UNCHANGED <<live, mod, clock, held>> /\ src' = Opened(src, run.plan) /\ stamp' = {}
        /\ run' \in Runs /\ run'.state = "loading"
        /\ SamePlan(run'.plan, run.plan) /\ run'.page = run.page /\ run'.pushed = run.pushed
        BY <1>5, <2>1, OpenNarrowedIs
  <2>3. /\ src'.checkpoint = src.checkpoint /\ src'.round.cursor = NoCursor
        /\ src'.round.checkpoint = 0
        BY <2>1, <2>2, OpenedIs
  <2>4. \A t : Later(t) => Later(t)'
        BY <2>2, <2>3 DEF Later
  <2>5. Later(0)' /\ Placed(NoCursor)'
        BY <1>1, <2>2, <2>3, Nones DEF Timed, Times, Later, Placed
  <2>6. Times'
        BY <2>1, <2>2, <2>3, <2>4, <2>5 DEF Timed, Times, Placed, Later, SamePlan
  <2>7. MergesPage' /\ StampsBound'
        BY <2>1, <2>2 DEF Timed, MergesPage, Merged, StampsBound
  <2> QED BY <2>6, <2>7 DEF Timed
<1>6. CASE OpenMerge
  <2>1. /\ run \in Runs /\ run.state = "loading" /\ run' = Merging(run)
        /\ UNCHANGED <<live, mod, clock, held, stamp, src>>
        BY <1>1, <1>6, Tags DEF OpenMerge, server, store, history
  <2>2. run.page \in Pages /\ run.page.vanished = {}
        BY <2>1 DEF Shape, OpeningShape
  <2>3. /\ SamePlan(run'.plan, run.plan) /\ SamePage(run'.page, run.page)
        /\ run'.state = "merging" /\ run'.pushed = run.pushed
        BY <2>1, <2>2, MergingIs
  <2>4. Times'
        BY <2>1, <2>3 DEF Timed, Times, Later, Placed, SamePlan, SamePage
  <2>5. \A h \in run.page.listed : run.page.at[h] # 0
        BY <2>1 DEF Timed, MergesPage
  <2>6. MergesPage'
        BY <2>1, <2>2, <2>5, MergingMerges
  <2> QED BY <2>1, <2>4, <2>6 DEF Timed, StampsBound
<1>7. ASSUME NEW h \in Handles, Merge(h)
      PROVE  Timed'
  <2>1. run \in Runs /\ run.state = "merging" /\ run.page \in Pages
        BY <1>1, <1>7, Tags DEF Merge, Shape
  <2>2. /\ UNCHANGED <<live, mod, clock>> /\ h \in run.todo
        /\ held'[h] = IF h \in run.dropped THEN 0 ELSE run.page.at[h]
        /\ \A k \in Handles : k # h => held'[k] = held[k]
        /\ src' = Row
        /\ stamp' = IF h \in run.dropped THEN Stamps \ {h} ELSE Stamps
        /\ run' \in Runs /\ run'.state = "merging" /\ run'.plan = run.plan
        /\ run'.page = run.page /\ run'.dropped = run.dropped /\ run'.todo = run.todo \ {h}
        /\ run'.pushed = run.pushed
        BY <1>7, <2>1, MergeIs
  <2>3. /\ Row.checkpoint = src.checkpoint
        /\ ~run.opening => Row = src /\ Stamps = stamp
        /\ run.opening => /\ Row.round.cursor = NoCursor /\ Row.round.checkpoint = 0
                          /\ Stamps = {}
        /\ Stamps \subseteq Handles
        BY <2>1, RowIs
  <2>4. \A t : Later(t) => Later(t)'
        BY <2>2, <2>3 DEF Later
  <2>5. Later(0)' /\ Placed(NoCursor)'
        BY <1>1, <2>2, <2>3, Nones DEF Timed, Times, Later, Placed
  <2>6. Times'
        BY <2>1, <2>2, <2>3, <2>4, <2>5 DEF Timed, Times, Placed, Later
  <2>7. /\ \A k \in run.page.listed : run.page.at[k] # 0
        /\ run.todo \subseteq run.page.listed \cup run.dropped
        /\ \A k \in run.page.listed : k \notin run.todo => held[k] = run.page.at[k]
        /\ \A k \in run.dropped : k \notin run.todo => held[k] = 0
        /\ run.dropped \cap run.page.listed = {}
        /\ run.page.vanished \subseteq run.dropped
        /\ run.page.listed \subseteq Handles /\ run.dropped \subseteq Handles
        BY <2>1 DEF Timed, MergesPage, Merged, Runs, Pages
  <2>8. MergesPage'
        BY <2>1, <2>2, <2>7 DEF MergesPage, Merged
  <2>9. StampsBound'
        BY <2>2, <2>3, <2>7 DEF Timed, StampsBound
  <2> QED BY <2>6, <2>8, <2>9 DEF Timed
<1>8. ASSUME NEW a \in Arrivals, NEW answered \in BOOLEAN, Push(a, answered)
      PROVE  Timed'
  <2>1. run \in Runs /\ run.state = "merging"
        BY <1>1, <1>8, Tags DEF Push
  <2>2. /\ UNCHANGED <<held, stamp, src>> /\ a \in Handles
        /\ clock' = clock + 1 /\ mod'[a] = clock + 1
        /\ \A k \in Handles : k # a => mod'[k] = mod[k]
        /\ live' = live \cup {a}
        /\ run' \in Runs /\ run'.state = "landing" /\ run'.plan = run.plan
        /\ run'.page = run.page /\ run'.dropped = run.dropped /\ run'.todo = run.todo
        /\ run'.pushed \subseteq {a}
        BY <1>8, <2>1, PushIs
  <2>3. /\ src.checkpoint \in Nat /\ src.round.checkpoint \in Nat /\ src.round.cursor.mod \in Nat
        /\ run.plan.checkpoint \in Nat /\ run.plan.cursor.mod \in Nat
        /\ run.page.checkpoint \in Nat /\ run.page.cursor.mod \in Nat
        BY <1>1, <2>1 DEF SourceRows, RoundRows, Cursors, Runs, Plans, Shape, Pages
  <2>4. \A t \in Nat : Later(t) => Later(t)'
        BY <1>1, <2>2 DEF Later
  <2>5. \A k \in Handles : mod'[k] <= clock' /\ (k \in live' => mod'[k] # 0)
        BY <1>1, <2>2 DEF Timed, Times
  <2>6. Times'
        BY <1>1, <2>1, <2>2, <2>3, <2>4, <2>5 DEF Timed, Times, Placed, Later
  <2>7. MergesPage' /\ StampsBound'
        BY <2>1, <2>2 DEF Timed, MergesPage, Merged, StampsBound
  <2> QED BY <2>6, <2>7 DEF Timed
<1>9. CASE Land
  <2>1. run \in Runs /\ run.state \in {"merging", "landing"}
        BY <1>1, <1>9, Tags DEF Land
  <2>2. run.page \in Pages /\ PlanShape /\ MergedShape /\ run.plan \in Plans
        BY <2>1 DEF Shape, Runs
  <2>3. /\ UNCHANGED <<live, mod, clock>> /\ src' = Tail(Row)
        /\ run.state = "merging" => run.todo = {}
        /\ stamp' = Stamps \cup (Stamped(run.page) \ run.dropped)
        /\ \A h \in Handles : held'[h] = IF h \in run.pushed THEN mod[h] ELSE held[h]
        /\ run.page.kind \notin Onward => run' = NoRun
        /\ run.page.kind \in Onward =>
             /\ run' \in Runs /\ run'.state = "enumerating"
             /\ run'.plan.checkpoint = run.plan.checkpoint
             /\ run'.plan.cursor = IF run.page.kind = "partial" THEN run.page.cursor
                                   ELSE run.plan.cursor
             /\ run'.pushed = run.pushed
        BY <1>9, <2>1, <2>2, LandIs
  <2>4. /\ Row \in SourceRows /\ Row.checkpoint = src.checkpoint /\ Stamps \subseteq Handles
        /\ ~run.opening => Row = src /\ Stamps = stamp
        /\ run.opening => /\ Row.round.cursor = NoCursor /\ Row.round.checkpoint = 0
                          /\ Stamps = {}
        BY <2>1, RowIs
  <2>5. Later(0) /\ Placed(NoCursor)
        BY <1>1, Nones DEF Timed, Times, Later, Placed, SourceRows
  <2>6. /\ Later(run.plan.checkpoint) /\ Placed(run.plan.cursor)
        /\ Later(run.page.checkpoint) /\ Placed(run.page.cursor)
        BY <2>1 DEF Timed, Times
  <2>7. Row.round.open => Later(Row.round.checkpoint) /\ Placed(Row.round.cursor)
        BY <2>4, <2>5 DEF Timed, Times
  <2>8. ASSUME run.page.kind \in {"partial", "parked", "deltaHead", "bandHead"}
        PROVE  Times'
    <3>1. /\ src'.checkpoint = Row.checkpoint /\ src'.round.open = Row.round.open
          /\ src'.round.cursor = IF run.page.kind = "partial" THEN run.page.cursor
                                 ELSE Row.round.cursor
          BY <2>1, <2>2, <2>3, <2>4, <2>8, TailIs
    <3>2. src'.round.checkpoint \in {0, run.page.checkpoint, run.plan.checkpoint, Row.round.checkpoint}
          BY <2>1, <2>2, <2>3, <2>4, <2>8, TailIs DEF Coalesce
    <3>3. \A t : Later(t) => Later(t)'
          BY <2>3, <2>4, <3>1 DEF Later
    <3>4. src'.round.open => Later(src'.round.checkpoint) /\ Placed(src'.round.cursor)
          BY <2>5, <2>6, <2>7, <3>1, <3>2, <3>3
    <3>5. \A c : Placed(c) => Placed(c)'
          BY <3>3 DEF Placed
    <3>6. run' \in Runs => Later(run'.plan.checkpoint) /\ Placed(run'.plan.cursor)
          BY <1>1, <2>3, <2>6
    <3>7. run' \in Runs => run'.state = "enumerating" /\ run'.pushed = run.pushed
          BY <1>1, <2>3
    <3>8. src'.round.open => Later(src.round.checkpoint)' /\ Placed(src.round.cursor)'
          BY <3>1, <3>3, <3>4 DEF Later, Placed
    <3>9. run' \in Runs => Later(run.plan.checkpoint)' /\ Placed(run.plan.cursor)'
          BY <2>3, <2>4, <3>1, <3>6 DEF Later, Placed
    <3>10. clock' > 0 /\ src'.checkpoint <= clock' /\ UNCHANGED <<live, mod>>
          BY <2>3, <2>4, <3>1 DEF Timed, Times
    <3>11. \A h \in Handles : mod'[h] <= clock' /\ (h \in live' => mod'[h] # 0)
          BY <2>3, <3>10 DEF Timed, Times
    <3>12. run' \in Runs => run'.state = "enumerating" /\ \A h \in run'.pushed : mod'[h] # 0
          BY <2>1, <2>3, <3>7, <3>10 DEF Timed, Times
    <3> QED BY <3>8, <3>9, <3>10, <3>11, <3>12 DEF Times
  <2>9. ASSUME run.page.kind \in {"delta", "last"}
        PROVE  Times'
    <3>1. run' = NoRun
          BY <2>3, <2>9 DEF Onward
    <3>2. ~src'.round.open
      <4>1. CASE run.page.kind = "last"
        <5>1. src'.round = NoRound
              BY <2>1, <2>2, <2>3, <2>4, <4>1, TailIs
        <5> QED BY <5>1, Nones
      <4>2. CASE run.page.kind = "delta"
        <5>1. ~run.opening /\ ~src.round.open
              BY <2>1, <2>2, <4>2 DEF PlanShape, MergedShape, Merged
        <5>2. src'.round = src.round
              BY <2>1, <2>2, <2>3, <2>4, <4>2, <5>1, TailIs
        <5> QED BY <5>1, <5>2
      <4> QED BY <2>9, <4>1, <4>2
    <3>3. src'.checkpoint \in {run.page.checkpoint, Row.round.checkpoint, src.checkpoint}
          BY <2>1, <2>2, <2>3, <2>4, <2>9, TailIs DEF Coalesce
    <3>4. run.page.kind = "last" => Row.round.open
          BY <2>1, <2>2, <2>4, RowIs DEF PlanShape, MergedShape, Merged, Matches, Plans
    <3>5. run.page.kind = "delta" => src'.checkpoint = run.page.checkpoint
          BY <2>1, <2>2, <2>3, <2>4, TailIs
    <3>6. src'.checkpoint <= clock
          BY <2>6, <2>7, <2>9, <3>3, <3>4, <3>5 DEF Later, Timed, Times
    <3> QED BY <1>1, <2>3, <3>1, <3>2, <3>6 DEF Timed, Times
  <2>10. Times'
    <3>1. run.page.kind \in {"delta", "deltaHead", "bandHead", "partial", "last", "parked"}
          BY <2>2 DEF Pages
    <3> QED BY <2>8, <2>9, <3>1
  <2>11. MergesPage'
        BY <1>1, <2>3 DEF MergesPage
  <2>12. StampsBound'
    <3> SUFFICES ASSUME NEW h \in stamp'
                 PROVE  held'[h] # 0
        BY DEF StampsBound
    <3>1. run.todo = {}
          BY <2>1, <2>2, <2>3 DEF MergedShape
    <3>2. h \in Stamps \/ (h \in run.page.listed /\ h \notin run.dropped)
          BY <2>3 DEF Stamped
    <3>3. h \in Handles
          BY <2>2, <2>4, <3>2 DEF Pages
    <3>4. held[h] # 0
      <4>1. CASE h \in Stamps
            BY <2>4, <4>1 DEF Timed, StampsBound
      <4>2. CASE h \in run.page.listed
            BY <2>1, <3>1, <4>2 DEF Timed, MergesPage, Merged
      <4> QED BY <3>2, <4>1, <4>2
    <3>5. h \in run.pushed => mod[h] # 0
          BY <2>1 DEF Timed, Times
    <3> QED BY <2>3, <3>3, <3>4, <3>5
  <2> QED BY <2>10, <2>11, <2>12 DEF Timed
<1>10. CASE Refuses
  <2>1. run \in Runs
        BY <1>1, <1>10, Tags DEF Refuses
  <2>2. /\ UNCHANGED <<live, mod, clock, held, stamp, src>> /\ run' \in Runs
        /\ run'.state = "enumerating" /\ run'.plan.cursor = NoCursor
        /\ run'.plan.checkpoint \in {run.plan.checkpoint, 0} /\ run'.pushed = run.pushed
        BY <1>10, <2>1, RefusesIs
  <2>3. Later(0) /\ Placed(NoCursor)
        BY <1>1, Nones DEF Timed, Times, Later, Placed, SourceRows
  <2>4. Later(run'.plan.checkpoint) /\ Placed(run'.plan.cursor)
        BY <2>1, <2>2, <2>3 DEF Timed, Times
  <2> QED BY <2>1, <2>2, <2>4 DEF Timed, Times, Later, Placed, MergesPage, StampsBound
<1>11. CASE ListsNoHead
  <2>1. run \in Runs
        BY <1>1, <1>11, Tags DEF ListsNoHead
  <2>2. /\ UNCHANGED <<live, mod, clock, held, stamp, src>> /\ run' \in Runs
        /\ run'.state = "enumerating" /\ run'.plan = run.plan /\ run'.pushed = run.pushed
        BY <1>11, <2>1, ListsNoHeadIs
  <2> QED BY <2>1, <2>2 DEF Timed, Times, Later, Placed, MergesPage, StampsBound
<1>12. CASE Interrupt
  <2>1. UNCHANGED <<live, mod, clock, held, stamp, src>> /\ run' = NoRun
        BY <1>12, InterruptIs
  <2> QED BY <1>1, <2>1 DEF Timed, Times, Later, Placed, MergesPage, StampsBound
<1>13. CASE UNCHANGED vars
       BY <1>13 DEF vars, Timed, Times, Later, Placed, MergesPage, StampsBound, Merged
<1> QED
  BY <1>2, <1>3, <1>4, <1>5, <1>6, <1>7, <1>8, <1>9, <1>10, <1>11, <1>12, <1>13
     DEF Next, Client, Begin, Faulty, Steps, Answers

-----------------------------------------------------------------------------
(* Creates.                                                                *)

(* The page an answer is, by its kind.                                     *)
LEMMA ListableKinds ==
    ASSUME TypeOK, run \in Runs, NEW plan \in Plans, NEW page \in Pages, Listable(plan, page)
    PROVE  /\ \/ plan = run.plan
              \/ plan = Afresh(run.wanted) /\ page.kind \in {"partial", "last"}
           /\ page.kind = "delta" => page = DeltaPage
           /\ page.kind \in {"deltaHead", "bandHead"} => page = HeadPage /\ run.head # NoHead
           /\ page.kind \in {"partial", "last"} /\ ~conn.fails =>
                \E missed \in Missing : page = RoundPage(plan, missed)
<1>1. HeadPage.kind \in {"deltaHead", "bandHead"} /\ DeltaPage.kind = "delta"
      BY HeadPageIs, DeltaPageIs
<1>2. \A missed : RoundPage(plan, missed).kind \in {"partial", "last"}
      BY RoundPageIs
<1>3. NothingPage(plan).kind = "last"
      BY NothingPageIs
<1>4. ASSUME run.head # NoHead, plan = run.plan, page = HeadPage
      PROVE  page.kind \in {"deltaHead", "bandHead"}
      BY <1>1, <1>4
<1>5. ASSUME plan = run.plan, page = DeltaPage
      PROVE  page.kind = "delta"
      BY <1>1, <1>5
<1>6. ASSUME NEW missed \in Missing, page = RoundPage(plan, missed)
      PROVE  page.kind \in {"partial", "last"}
      BY <1>2, <1>6
<1>7. ASSUME page = NothingPage(plan)
      PROVE  page.kind = "last"
      BY <1>3, <1>7
<1> QED BY <1>4, <1>5, <1>6, <1>7 DEF Listable

(* The create has one date wherever it is filed, a date filter lists it,   *)
(* and its handle, the newest, is on the last page of any round.           *)
NewestLast ==
    /\ Arrivals \cap Missable = {}
    /\ \A a, b \in Arrivals : Date[a] = Date[b]
    /\ \A c \in Connectors, a \in Arrivals, k \in Nat : k * c.page < N => k * c.page < a

(* A source whose rounds list all the scope a run asks for.                *)
Whole == conn.scopeBound /\ ~conn.capped /\ ~conn.fails

WholePlans ==
    run \in Runs =>
      /\ ~run.plan.band
      /\ run.plan.kind = "round" => run.plan.scope = run.wanted /\ run.plan.span = run.wanted
      /\ run.plan.kind = "delta" =>
           /\ src.coverage # NoScope /\ Covers(src.coverage, run.wanted)
           /\ run.plan.checkpoint = src.checkpoint

Stepped(cursor) == cursor.pos < N /\ \E k \in Nat : cursor.pos = k * conn.page

SteppedCursors ==
    /\ src.round.open => Stepped(src.round.cursor)
    /\ run \in Runs =>
         /\ Stepped(run.plan.cursor)
         /\ run.state # "enumerating" => Stepped(run.page.cursor)

(* What was filed and not yet found is newer than the checkpoint, listed   *)
(* by any page a create may follow, and merged as the create.              *)
Unfound ==
    /\ \E x : live \cap Arrivals \subseteq {x}
    /\ create = "pending" /\ src.coverage # NoScope =>
         \A a \in live \cap Arrivals :
            Contains(src.coverage, Date[a]) => mod[a] > src.checkpoint
    /\ run \in Runs /\ run.state # "enumerating" =>
         /\ run.state # "landing" /\ run.page.kind \in {"delta", "last"} /\ create = "pending" =>
              \A a \in live \cap Arrivals : Contains(run.wanted, Date[a]) => a \in run.page.listed
         /\ Merged => \A a \in run.page.listed \cap Arrivals : a \notin run.todo => create = "landed"
         /\ run.state = "landing" /\ create = "pending" =>
              \A a \in live \cap Arrivals :
                 /\ mod[a] > src.checkpoint /\ mod[a] > run.page.checkpoint
                 /\ src.round.open => mod[a] > src.round.checkpoint

(* A step of a page is a step of the positions.                            *)
LEMMA NextPosition ==
    ASSUME NEW k \in Nat, NEW p \in Nat
    PROVE  k * p + p = (k + 1) * p /\ k + 1 \in Nat
OBVIOUS

(* The plan and the cursors of any answer.                                 *)
LEMMA ListableWhole ==
    ASSUME TypeOK, Shape, WholePlans, SteppedCursors, run \in Runs, run.state = "enumerating", ~conn.fails,
           NEW plan \in Plans, NEW page \in Pages, Listable(plan, page)
    PROVE  /\ ~plan.band
           /\ plan.kind = "round" => plan.scope = run.wanted /\ plan.span = run.wanted
           /\ plan.kind = "delta" => plan = run.plan
           /\ Stepped(plan.cursor) /\ Stepped(page.cursor)
<1>1. run.wanted \in Ranges
      BY RoundsAssumption DEF Runs, Ranges
<1>2. Stepped(NoCursor)
  <2>1. conn.page \in Nat /\ 0 < N
        BY RoundsAssumption DEF TypeOK
  <2>2. 0 = 0 * conn.page
        BY <2>1
  <2> QED BY <2>1, <2>2, Nones DEF Stepped
<1>3. /\ ~plan.band
      /\ plan.kind = "round" => plan.scope = run.wanted /\ plan.span = run.wanted
      /\ plan.kind = "delta" => plan = run.plan
      /\ Stepped(plan.cursor)
  <2>1. CASE plan = run.plan
        BY <2>1 DEF WholePlans, SteppedCursors
  <2>2. CASE plan = Afresh(run.wanted)
        BY <1>1, <1>2, <2>2, AfreshIs
  <2> QED BY <2>1, <2>2, ListableKinds
<1>4. Stepped(page.cursor)
  <2>1. CASE page.kind \in {"delta", "deltaHead", "bandHead"}
        BY <1>2, <2>1, ListableKinds, DeltaPageIs, HeadPageIs
  <2>2. CASE page.kind \in {"partial", "last"}
    <3>1. PICK missed \in Missing : page = RoundPage(plan, missed)
          BY <2>2, ListableKinds
    <3>2. IF Reaches(plan) >= N THEN page.cursor = NoCursor ELSE page.cursor.pos = Reaches(plan)
          BY <3>1, RoundPageIs
    <3>3. conn.page \in Nat /\ plan.cursor.pos \in Nat /\ N \in Nat
          BY RoundsAssumption DEF TypeOK, Plans, Cursors
    <3>4. PICK k \in Nat : plan.cursor.pos = k * conn.page
          BY <1>3 DEF Stepped
    <3>5. Reaches(plan) = (k + 1) * conn.page /\ k + 1 \in Nat /\ Reaches(plan) \in Nat
      <4>1. k * conn.page + conn.page = (k + 1) * conn.page /\ k + 1 \in Nat
            BY <3>3, NextPosition
      <4>2. Reaches(plan) = plan.cursor.pos + conn.page
            BY DEF Reaches
      <4> QED BY <3>3, <3>4, <4>1, <4>2
    <3>6. CASE Reaches(plan) >= N
          BY <1>2, <3>2, <3>6
    <3>7. CASE ~(Reaches(plan) >= N)
      <4>1. page.cursor.pos = Reaches(plan) /\ Reaches(plan) < N
            BY <3>2, <3>3, <3>5, <3>7
      <4> QED BY <3>5, <4>1 DEF Stepped
    <3> QED BY <3>6, <3>7
  <2>3. page.kind \in {"delta", "deltaHead", "bandHead", "partial", "last"}
    <3>1. /\ HeadPage.kind # "parked" /\ DeltaPage.kind # "parked"
          /\ NothingPage(plan).kind # "parked"
          BY HeadPageIs, DeltaPageIs, NothingPageIs
    <3>2. \A missed : RoundPage(plan, missed).kind # "parked"
          BY RoundPageIs
    <3> QED BY <3>1, <3>2 DEF Listable, Pages
  <2> QED BY <2>1, <2>2, <2>3
<1> QED BY <1>3, <1>4

(* A create filed and not found is on the last page of a round, and on a   *)
(* delta of a coverage that holds it.                                      *)
LEMMA ListsUnfound ==
    ASSUME NewestLast, TypeOK, Shape, WholePlans, SteppedCursors, Unfound, Whole,
           run \in Runs, run.state = "enumerating", create = "pending",
           NEW plan \in Plans, NEW page \in Pages, Listable(plan, page),
           page.kind \in {"delta", "last"},
           NEW a \in live \cap Arrivals, Contains(run.wanted, Date[a])
    PROVE  a \in page.listed
<1>1. /\ ~plan.band
      /\ plan.kind = "round" => plan.scope = run.wanted
      /\ plan.kind = "delta" => plan = run.plan
      /\ Stepped(plan.cursor)
      BY ListableWhole DEF Whole
<1>2. plan.kind = "delta" <=> page.kind = "delta"
      BY ListableIs
<1>3. CASE page.kind = "delta"
  <2>1. page = DeltaPage /\ run.plan.kind = "delta"
        BY <1>1, <1>2, <1>3, ListableKinds
  <2>2. /\ src.coverage # NoScope /\ Covers(src.coverage, run.wanted)
        /\ run.plan.checkpoint = src.checkpoint
        BY <2>1 DEF WholePlans
  <2>3. Contains(src.coverage, Date[a])
    <3>1. src.coverage \in Scope /\ run.wanted \in Scope /\ Date[a] \in Nat
          BY <2>2, RoundsAssumption, ForeverAssumption DEF TypeOK, SourceRows, Ranges, Runs
    <3> QED BY <2>2, <3>1 DEF Contains, Covers, Scope
  <2>4. mod[a] > run.plan.checkpoint
        BY <2>2, <2>3 DEF Unfound
  <2> QED BY <2>1, <2>4, DeltaPageIs DEF Changed
<1>4. CASE page.kind = "last"
  <2>1. PICK missed \in Missing : page = RoundPage(plan, missed)
        BY <1>4, ListableKinds DEF Whole
  <2>2. plan.cursor.pos < a
        BY <1>1 DEF Stepped, NewestLast, TypeOK
  <2>3. a <= Reaches(plan)
    <3>1. RoundPage(plan, missed).kind = IF Reaches(plan) >= N THEN "last" ELSE "partial"
          BY RoundPageIs
    <3>2. Reaches(plan) >= N /\ Reaches(plan) \in Nat
          BY <1>4, <2>1, <3>1, RoundsAssumption DEF Reaches, TypeOK, Plans, Cursors
    <3>3. a \in Handles
          BY RoundsAssumption
    <3>4. a \in Nat /\ a <= N /\ N \in Nat
          BY <3>3, Nones DEF Handles
    <3> QED BY <3>2, <3>4
  <2>4. Sure(plan, a)
        BY <1>1, <1>2, <1>4, RoundsAssumption DEF Sure, Whole, NewestLast, Plans
  <2> QED BY <2>1, <2>2, <2>3, <2>4, RoundPageLists
<1> QED BY <1>3, <1>4

(* Every step keeps the plans and the positions of a source whose rounds   *)
(* list the scope whole.                                                   *)
LEMMA WholeStep ==
    ASSUME TypeOK, Shape, WholePlans, SteppedCursors, Whole, [Next]_vars
    PROVE  WholePlans' /\ SteppedCursors'
<1>1. run \in Runs \cup {NoRun} /\ NoRun \notin Runs /\ run' \in Runs \cup {NoRun}
      BY ShapeStep, Tags DEF TypeOK
<1>2. Stepped(NoCursor)
  <2>1. conn.page \in Nat /\ 0 < N
        BY RoundsAssumption DEF TypeOK
  <2>2. 0 = 0 * conn.page
        BY <2>1
  <2> QED BY <2>1, <2>2, Nones DEF Stepped
<1>3. ASSUME NEW h \in Handles, ClientAdds(h) \/ ClientEdits(h) \/ ClientRemoves(h)
      PROVE  WholePlans' /\ SteppedCursors'
  <2>1. /\ UNCHANGED <<conn, src>> /\ (run = NoRun => run' = NoRun)
        /\ run \in Runs => run' \in Runs /\ SameButOff(run', run)
        BY <1>3, ClientIs
  <2> QED BY <1>1, <2>1 DEF WholePlans, SteppedCursors, Stepped, SameButOff
<1>4. ASSUME NEW wanted \in Wanted, NEW full \in Fulls, NEW accept \in Accepts,
             Start(wanted, full, accept)
      PROVE  WholePlans' /\ SteppedCursors'
  <2>1. full \in BOOLEAN /\ accept \in BOOLEAN
        BY RoundsAssumption
  <2>2. /\ UNCHANGED <<conn, src>> /\ run' \in Runs /\ run'.state = "enumerating"
        /\ run'.wanted = wanted /\ run'.plan = Choose(wanted, full) /\ run'.plan \in Plans
        BY <1>4, <2>1, StartIs
  <2>3. /\ run'.plan.kind = "delta" =>
             /\ run'.plan.cursor = NoCursor /\ ~run'.plan.band
             /\ run'.plan.checkpoint = src.checkpoint
             /\ src.coverage # NoScope /\ Covers(src.coverage, wanted)
        /\ run'.plan.kind = "round" =>
             /\ ~run'.plan.band /\ run'.plan.scope = wanted /\ run'.plan.span = wanted
             /\ run'.plan.opens => run'.plan.cursor = NoCursor
             /\ ~run'.plan.opens => src.round.open /\ src.round.cursor = run'.plan.cursor
        BY <2>1, <2>2, ChooseIs DEF Whole
  <2>4. run'.plan.kind \in {"delta", "round"}
        BY <2>2 DEF Plans
  <2>5. Stepped(run'.plan.cursor)
        BY <1>2, <2>3, <2>4 DEF SteppedCursors
  <2>6. WholePlans'
        BY <2>2, <2>3, <2>4 DEF WholePlans
  <2> QED BY <2>2, <2>5, <2>6 DEF SteppedCursors, Stepped
<1>5. CASE Answers
  <2>1. /\ run \in Runs /\ run.state = "enumerating"
        BY <1>1, <1>5, AnswerIs
  <2>2. PICK plan \in Plans, page \in Pages :
                 page.kind # "parked" /\ Listable(plan, page) /\ Takes(plan, page)
        BY <1>1, <1>5, AnswerIs
  <2> DEFINE r == Taken(plan, page)
  <2>3. /\ UNCHANGED <<conn, src>>
        /\ run' \in Runs /\ r \in Runs /\ r.page \in Pages
        /\ ~OpensFirst(r) => run' = Merging(r)
        /\ OpensFirst(r) => /\ run'.wanted = r.wanted /\ run'.plan = r.plan
                            /\ run'.page = r.page
        BY <2>1, <2>2, TakesIs
  <2>4. r.plan = plan /\ r.page = page /\ r.wanted = run.wanted
        BY <2>1, TakenIs
  <2> HIDE DEF r
  <2>5. /\ ~plan.band
        /\ plan.kind = "round" => plan.scope = run.wanted /\ plan.span = run.wanted
        /\ plan.kind = "delta" => plan = run.plan
        /\ Stepped(plan.cursor) /\ Stepped(page.cursor)
        BY <2>1, <2>2, ListableWhole DEF Whole
  <2>6. ~OpensFirst(r) => /\ SamePlan(run'.plan, plan) /\ SamePage(run'.page, page)
                          /\ run'.wanted = run.wanted
        BY <2>3, <2>4, MergingIs
  <2>7. /\ SamePlan(run'.plan, plan) /\ run'.wanted = run.wanted
        /\ run'.page.cursor = page.cursor
        BY <2>3, <2>4, <2>6 DEF SamePlan, SamePage
  <2>8. WholePlans'
        BY <2>1, <2>3, <2>5, <2>7 DEF WholePlans, SamePlan
  <2>9. SteppedCursors'
        BY <2>3, <2>5, <2>7 DEF SteppedCursors, Stepped, SamePlan
  <2> QED BY <2>8, <2>9
<1>6. CASE OpenNarrowed
  <2>1. run \in Runs /\ run.state = "opening" /\ run.plan \in Plans /\ run.plan.kind # "delta"
        BY <1>1, <1>6, Tags DEF OpenNarrowed, Runs, Shape, PlanShape
  <2>2. /\ conn' = conn /\ src' = Opened(src, run.plan)
        /\ run' \in Runs /\ run'.state = "loading" /\ run'.wanted = run.wanted
        /\ SamePlan(run'.plan, run.plan) /\ run'.page = run.page
        BY <1>6, <2>1, OpenNarrowedIs
  <2>3. src'.round.cursor = NoCursor
        BY <2>1, <2>2, OpenedIs
  <2>4. WholePlans'
        BY <2>1, <2>2 DEF WholePlans, SamePlan
  <2>5. SteppedCursors'
        BY <1>2, <2>1, <2>2, <2>3 DEF SteppedCursors, Stepped, SamePlan
  <2> QED BY <2>4, <2>5
<1>7. CASE OpenMerge
  <2>1. /\ run \in Runs /\ run.state = "loading" /\ run' = Merging(run) /\ UNCHANGED <<conn, src>>
        BY <1>1, <1>7, Tags DEF OpenMerge, server, store, history
  <2>2. run.page \in Pages
        BY <2>1 DEF Shape
  <2>3. /\ SamePlan(run'.plan, run.plan) /\ SamePage(run'.page, run.page) /\ run'.wanted = run.wanted
        BY <2>1, <2>2, MergingIs
  <2> QED BY <2>1, <2>3 DEF WholePlans, SteppedCursors, Stepped, SamePlan, SamePage
<1>8. ASSUME NEW h \in Handles, Merge(h)
      PROVE  WholePlans' /\ SteppedCursors'
  <2>1. run \in Runs /\ run.state = "merging" /\ run.page \in Pages
        BY <1>1, <1>8, Tags DEF Merge, Shape
  <2>2. /\ conn' = conn /\ src' = Row
        /\ run' \in Runs /\ run'.state = "merging" /\ run'.wanted = run.wanted
        /\ run'.plan = run.plan /\ run'.page = run.page
        BY <1>8, <2>1, MergeIs
  <2>3. /\ Row.checkpoint = src.checkpoint /\ Row.coverage = src.coverage
        /\ ~run.opening => Row = src
        /\ run.opening => Row.round.cursor = NoCursor
        BY <2>1, RowIs
  <2>4. WholePlans'
        BY <2>1, <2>2, <2>3 DEF WholePlans
  <2>5. SteppedCursors'
        BY <1>2, <2>1, <2>2, <2>3 DEF SteppedCursors, Stepped
  <2> QED BY <2>4, <2>5
<1>9. ASSUME NEW a \in Arrivals, NEW answered \in BOOLEAN, Push(a, answered)
      PROVE  WholePlans' /\ SteppedCursors'
  <2>1. run \in Runs /\ run.state = "merging"
        BY <1>1, <1>9, Tags DEF Push
  <2>2. /\ UNCHANGED <<conn, src>> /\ run' \in Runs /\ run'.state = "landing"
        /\ run'.wanted = run.wanted /\ run'.plan = run.plan /\ run'.page = run.page
        BY <1>9, <2>1, PushIs
  <2> QED BY <2>1, <2>2 DEF WholePlans, SteppedCursors, Stepped
<1>10. CASE Land
  <2>1. run \in Runs /\ run.state \in {"merging", "landing"}
        BY <1>1, <1>10, Tags DEF Land
  <2>2. run.page \in Pages /\ PlanShape /\ MergedShape /\ run.plan \in Plans
        BY <2>1 DEF Shape, Runs
  <2>3. /\ conn' = conn /\ src' = Tail(Row)
        /\ run.page.kind \notin Onward => run' = NoRun
        /\ run.page.kind \in Onward =>
             /\ run' \in Runs /\ run'.state = "enumerating" /\ run'.wanted = run.wanted
             /\ run'.plan.kind = run.plan.kind /\ run'.plan.band = run.plan.band
             /\ run'.plan.scope = run.plan.scope /\ run'.plan.span = run.plan.span
             /\ run'.plan.cursor = IF run.page.kind = "partial" THEN run.page.cursor
                                   ELSE run.plan.cursor
        BY <1>10, <2>1, <2>2, LandIs
  <2>4. /\ Row \in SourceRows
        /\ ~run.opening => Row = src
        /\ run.opening => Row.round.cursor = NoCursor
        BY <2>1, RowIs
  <2>5. Row.round.open => Stepped(Row.round.cursor)
        BY <1>2, <2>4 DEF SteppedCursors
  <2>6. Stepped(run.plan.cursor) /\ Stepped(run.page.cursor)
        BY <2>1 DEF SteppedCursors
  <2>7. src'.round.open => Stepped(src'.round.cursor)
    <3>1. CASE run.page.kind \in {"partial", "parked", "deltaHead", "bandHead"}
      <4>1. /\ src'.round.open = Row.round.open
            /\ src'.round.cursor = IF run.page.kind = "partial" THEN run.page.cursor
                                   ELSE Row.round.cursor
            BY <2>1, <2>2, <2>3, <2>4, <3>1, TailIs
      <4> QED BY <2>5, <2>6, <4>1
    <3>2. CASE run.page.kind = "last"
      <4>1. src'.round = NoRound
            BY <2>1, <2>2, <2>3, <2>4, <3>2, TailIs
      <4> QED BY <4>1, Nones
    <3>3. CASE run.page.kind = "delta"
      <4>1. src'.round = Row.round
            BY <2>1, <2>2, <2>3, <2>4, <3>3, TailIs
      <4> QED BY <2>5, <4>1
    <3>4. run.page.kind \in {"delta", "deltaHead", "bandHead", "partial", "last", "parked"}
          BY <2>2 DEF Pages
    <3> QED BY <3>1, <3>2, <3>3, <3>4
  <2>8. run' \in Runs => run.page.kind \in Onward /\ run.plan.kind = "round"
        BY <1>1, <2>1, <2>2, <2>3 DEF MergedShape, Merged, Onward, Plans
  <2>9. WholePlans'
        BY <2>1, <2>3, <2>8 DEF WholePlans
  <2>10. SteppedCursors'
        BY <2>3, <2>6, <2>7, <2>8 DEF SteppedCursors, Stepped
  <2> QED BY <2>9, <2>10
<1>11. CASE Refuses
  <2>1. run \in Runs
        BY <1>1, <1>11, Tags DEF Refuses
  <2>2. /\ UNCHANGED <<conn, src>> /\ run' \in Runs
        /\ run'.state = "enumerating" /\ run'.wanted = run.wanted
        /\ run'.plan.kind = "round" /\ run'.plan.cursor = NoCursor
        /\ \/ /\ run.plan.kind = "round" /\ run'.plan.scope = run.plan.scope
              /\ run'.plan.span = run.plan.span /\ run'.plan.band = run.plan.band
           \/ /\ run'.plan.scope = run.wanted /\ run'.plan.span = run.wanted
              /\ run'.plan.band = FALSE
        BY <1>11, <2>1, RefusesIs
  <2>3. WholePlans'
        BY <2>1, <2>2 DEF WholePlans
  <2> QED BY <1>2, <2>2, <2>3 DEF SteppedCursors, Stepped
<1>12. CASE ListsNoHead
  <2>1. run \in Runs
        BY <1>1, <1>12, Tags DEF ListsNoHead
  <2>2. /\ UNCHANGED <<conn, src>> /\ run' \in Runs
        /\ run'.state = "enumerating" /\ run'.wanted = run.wanted /\ run'.plan = run.plan
        BY <1>12, <2>1, ListsNoHeadIs
  <2> QED BY <2>1, <2>2 DEF WholePlans, SteppedCursors, Stepped
<1>13. CASE Interrupt
  <2>1. UNCHANGED <<conn, src>> /\ run' = NoRun
        BY <1>13, InterruptIs
  <2> QED BY <1>1, <2>1 DEF WholePlans, SteppedCursors, Stepped
<1>14. CASE UNCHANGED vars
       BY <1>14 DEF vars, WholePlans, SteppedCursors, Stepped
<1> QED
  BY <1>3, <1>4, <1>5, <1>6, <1>7, <1>8, <1>9, <1>10, <1>11, <1>12, <1>13, <1>14
     DEF Next, Client, Begin, Faulty, Steps, Answers

(* Every step keeps a create filed and not found in sight.                 *)
LEMMA UnfoundStep ==
    ASSUME NewestLast, TypeOK, Shape, Timed, WholePlans, SteppedCursors, Unfound, Whole, [Next]_vars
    PROVE  Unfound'
<1>1. /\ run \in Runs \cup {NoRun} /\ NoRun \notin Runs /\ run' \in Runs \cup {NoRun}
      /\ clock \in Nat /\ mod \in [Handles -> Nat] /\ src \in SourceRows
      /\ src.checkpoint \in Nat /\ src.round.checkpoint \in Nat
      /\ src.checkpoint <= clock /\ Arrivals \subseteq Handles
      BY ShapeStep, Tags, RoundsAssumption DEF TypeOK, Timed, Times, SourceRows, RoundRows
<1>2. ASSUME NEW h \in Handles, ClientAdds(h) \/ ClientEdits(h) \/ ClientRemoves(h)
      PROVE  Unfound'
  <2>1. /\ UNCHANGED <<src, create>> /\ clock' = clock + 1 /\ mod'[h] = clock + 1
        /\ \A k \in Handles : k # h => mod'[k] = mod[k]
        /\ live' \cap Arrivals \subseteq live
        /\ run = NoRun => run' = NoRun
        /\ run \in Runs => run' \in Runs /\ SameButOff(run', run)
        BY <1>2, ClientIs
  <2>2. \A a \in Arrivals, t \in Nat : t <= clock /\ mod[a] > t => mod'[a] > t
        BY <1>1, <2>1
  <2>3. \E x : live' \cap Arrivals \subseteq {x}
        BY <2>1 DEF Unfound
  <2>4. create' = "pending" /\ src'.coverage # NoScope =>
         \A a \in live' \cap Arrivals :
            Contains(src'.coverage, Date[a]) => mod'[a] > src'.checkpoint
        BY <1>1, <2>1, <2>2 DEF Unfound
  <2>5. ASSUME run \in Runs, run.state # "enumerating"
        PROVE /\ run.state # "landing" /\ run.page.kind \in {"delta", "last"} /\ create = "pending" =>
                   \A a \in live' \cap Arrivals : Contains(run.wanted, Date[a]) => a \in run.page.listed
              /\ Merged => \A a \in run.page.listed \cap Arrivals : a \notin run.todo => create = "landed"
              /\ run.state = "landing" /\ create = "pending" =>
                   \A a \in live' \cap Arrivals :
                      /\ mod'[a] > src.checkpoint /\ mod'[a] > run.page.checkpoint
                      /\ src.round.open => mod'[a] > src.round.checkpoint
    <3>1. /\ run.page.checkpoint \in Nat /\ run.page.checkpoint <= clock
          /\ src.round.open => src.round.checkpoint <= clock
          BY <1>1, <2>5 DEF Shape, Pages, Timed, Times, Later
    <3> QED BY <1>1, <2>1, <2>2, <2>5, <3>1 DEF Unfound
  <2>6. run' \in Runs => /\ run \in Runs /\ run'.state = run.state /\ run'.wanted = run.wanted
                         /\ run'.page = run.page /\ run'.todo = run.todo
        BY <1>1, <2>1 DEF SameButOff
  <2> QED BY <2>1, <2>3, <2>4, <2>5, <2>6 DEF Unfound, Merged
<1>3. ASSUME NEW wanted \in Wanted, NEW full \in Fulls, NEW accept \in Accepts,
             Start(wanted, full, accept)
      PROVE  Unfound'
  <2>1. full \in BOOLEAN /\ accept \in BOOLEAN
        BY RoundsAssumption
  <2>2. UNCHANGED <<live, mod, src, create>> /\ run'.state = "enumerating"
        BY <1>3, <2>1, StartIs
  <2> QED BY <2>2 DEF Unfound
<1>4. CASE Answers
  <2>1. /\ run \in Runs /\ run.state = "enumerating"
        BY <1>1, <1>4, AnswerIs
  <2>2. PICK plan \in Plans, page \in Pages :
                 page.kind # "parked" /\ Listable(plan, page) /\ Takes(plan, page)
        BY <1>1, <1>4, AnswerIs
  <2> DEFINE r == Taken(plan, page)
  <2>3. /\ UNCHANGED <<live, mod, src, create>>
        /\ run' \in Runs /\ r \in Runs /\ r.page \in Pages
        /\ ~OpensFirst(r) => run' = Merging(r)
        /\ OpensFirst(r) => /\ run'.state = "opening" /\ run'.wanted = r.wanted
                            /\ run'.page = r.page
        BY <2>1, <2>2, TakesIs
  <2>4. r.page = page /\ r.wanted = run.wanted
        BY <2>1, TakenIs
  <2> HIDE DEF r
  <2>5. ASSUME page.kind \in {"delta", "last"}, create = "pending",
               NEW a \in live \cap Arrivals, Contains(run.wanted, Date[a])
        PROVE  a \in page.listed
        BY <2>1, <2>2, <2>5, ListsUnfound
  <2>6. ~OpensFirst(r) => /\ run'.state = "merging" /\ run'.wanted = run.wanted
                          /\ SamePage(run'.page, page)
                          /\ run'.page.kind \in {"parked", page.kind}
                          /\ page.listed \subseteq run'.todo
        BY <2>3, <2>4, MergingIs
  <2>7. /\ run'.state \in {"opening", "merging"} /\ run'.wanted = run.wanted
        /\ run'.page.listed = page.listed /\ run'.page.kind \in {"parked", page.kind}
        BY <2>3, <2>4, <2>6 DEF SamePage
  <2>8. run'.state = "merging" => page.listed \subseteq run'.todo
        BY <2>3, <2>6
  <2> QED BY <2>3, <2>5, <2>7, <2>8 DEF Unfound, Merged
<1>5. CASE OpenNarrowed
  <2>1. run \in Runs /\ run.state = "opening" /\ run.plan \in Plans
        BY <1>1, <1>5, Tags DEF OpenNarrowed, Runs
  <2>2. /\ UNCHANGED <<live, mod, create>> /\ src' = Opened(src, run.plan)
        /\ run' \in Runs /\ run'.state = "loading" /\ run'.wanted = run.wanted
        /\ run'.page = run.page
        BY <1>5, <2>1, OpenNarrowedIs
  <2>3. src'.checkpoint = src.checkpoint /\ src'.coverage = src.coverage
        BY <2>1, <2>2, OpenedIs
  <2> QED BY <2>1, <2>2, <2>3 DEF Unfound, Merged
<1>6. CASE OpenMerge
  <2>1. /\ run \in Runs /\ run.state = "loading" /\ run' = Merging(run)
        /\ UNCHANGED <<live, mod, src, create>>
        BY <1>1, <1>6, Tags DEF OpenMerge, server, store, history
  <2>2. run.page \in Pages /\ run.page.kind = "last"
        BY <2>1 DEF Shape, OpeningShape
  <2>3. /\ SamePage(run'.page, run.page) /\ run'.wanted = run.wanted /\ run'.state = "merging"
        /\ run.page.listed \subseteq run'.todo
        BY <2>1, <2>2, MergingIs
  <2> QED BY <2>1, <2>2, <2>3 DEF Unfound, Merged, SamePage
<1>7. ASSUME NEW h \in Handles, Merge(h)
      PROVE  Unfound'
  <2>1. run \in Runs /\ run.state = "merging" /\ run.page \in Pages
        BY <1>1, <1>7, Tags DEF Merge, Shape
  <2>2. /\ UNCHANGED <<live, mod>> /\ src' = Row /\ h \in run.todo
        /\ create' = IF h \in Arrivals \ run.dropped THEN "landed" ELSE create
        /\ run' \in Runs /\ run'.state = "merging" /\ run'.wanted = run.wanted
        /\ run'.page = run.page /\ run'.todo = run.todo \ {h}
        BY <1>7, <2>1, MergeIs
  <2>3. Row.checkpoint = src.checkpoint /\ Row.coverage = src.coverage
        BY <2>1, RowIs
  <2>4. run.dropped \cap run.page.listed = {}
        BY <2>1 DEF Timed, MergesPage, Merged
  <2>5. \A a \in run.page.listed \cap Arrivals : a \notin run'.todo => create' = "landed"
        BY <2>1, <2>2, <2>4 DEF Unfound, Merged
  <2>6. create' = "pending" => create = "pending"
        BY <2>2
  <2> QED BY <2>1, <2>2, <2>3, <2>5, <2>6 DEF Unfound, Merged
<1>8. ASSUME NEW a \in Arrivals, NEW answered \in BOOLEAN, Push(a, answered)
      PROVE  Unfound'
  <2>1. run \in Runs /\ run.state = "merging" /\ run.page \in Pages
        BY <1>1, <1>8, Tags DEF Push, Shape
  <2>2. /\ UNCHANGED <<src, create>> /\ run.todo = {} /\ create = "pending"
        /\ ~HoldsCreates /\ Contains(run.wanted, Date[a])
        /\ clock' = clock + 1 /\ mod'[a] = clock + 1
        /\ live' = live \cup {a}
        /\ run' \in Runs /\ run'.state = "landing" /\ run'.page = run.page /\ run'.todo = run.todo
        BY <1>8, <2>1, PushIs
  <2>3. run.page.kind \in {"delta", "last"}
        BY <2>1, <2>2 DEF HoldsCreates, Pages
  <2>4. ASSUME NEW b \in live \cap Arrivals
        PROVE  FALSE
    <3>1. Contains(run.wanted, Date[b])
      <4>1. Date[b] = Date[a]
            BY DEF NewestLast
      <4> QED BY <2>2, <4>1
    <3>2. b \in run.page.listed
          BY <2>1, <2>2, <2>3, <3>1 DEF Unfound
    <3> QED BY <2>1, <2>2, <3>2 DEF Unfound, Merged
  <2>5. live' \cap Arrivals = {a}
        BY <2>2, <2>4
  <2>6. /\ run.page.checkpoint \in Nat /\ run.page.checkpoint <= clock
        /\ src.round.open => src.round.checkpoint <= clock
        BY <1>1, <2>1 DEF Pages, Timed, Times, Later
  <2>7. /\ mod'[a] > src.checkpoint /\ mod'[a] > run.page.checkpoint
        /\ src.round.open => mod'[a] > src.round.checkpoint
        BY <1>1, <2>2, <2>6
  <2> QED BY <2>1, <2>2, <2>5, <2>7 DEF Unfound, Merged
<1>9. CASE Land
  <2>1. run \in Runs /\ run.state \in {"merging", "landing"}
        BY <1>1, <1>9, Tags DEF Land
  <2>2. run.page \in Pages /\ PlanShape /\ MergedShape /\ run.plan \in Plans
        BY <2>1 DEF Shape, Runs
  <2>3. /\ UNCHANGED <<live, mod>> /\ src' = Tail(Row)
        /\ run.state = "merging" => run.todo = {}
        /\ create' = IF run.pushed # {} THEN "landed" ELSE create
        /\ run' \in Runs => run'.state = "enumerating"
        BY <1>1, <1>9, <2>1, <2>2, LandIs
  <2>4. /\ Row \in SourceRows /\ Row.checkpoint = src.checkpoint /\ Row.coverage = src.coverage
        /\ ~run.opening => Row = src
        /\ run.opening => Row.round.checkpoint = 0
        BY <2>1, RowIs
  <2>5. CASE run.page.kind \in {"partial", "parked", "deltaHead", "bandHead"}
    <3>1. src'.checkpoint = src.checkpoint /\ src'.coverage = src.coverage
          BY <2>1, <2>2, <2>3, <2>4, <2>5, TailIs
    <3> QED BY <2>3, <3>1 DEF Unfound
  <2>6. CASE run.page.kind \in {"delta", "last"}
    <3>1. src'.coverage = run.wanted
      <4>1. CASE run.page.kind = "last"
            BY <2>1, <2>2, <2>3, <2>4, <4>1, TailIs DEF WholePlans, MergedShape, Merged, Plans
      <4>2. CASE run.page.kind = "delta"
        <5>1. run.plan.kind = "delta" /\ src.coverage # NoScope /\ Covers(src.coverage, run.wanted)
              BY <2>1, <2>2, <4>2 DEF WholePlans, MergedShape, Merged
        <5>2. src'.coverage = IF /\ run.plan.kind = "delta" /\ Row.coverage # NoScope
                                 /\ Row.coverage # run.wanted
                                 /\ Covers(Row.coverage, run.wanted)
                              THEN run.wanted ELSE Row.coverage
              BY <2>1, <2>2, <2>3, <2>4, <4>2, TailIs
        <5> QED BY <2>4, <5>1, <5>2
      <4> QED BY <2>6, <4>1, <4>2
    <3>2. src'.checkpoint \in {run.page.checkpoint, Row.round.checkpoint, src.checkpoint}
          BY <2>1, <2>2, <2>3, <2>4, <2>6, TailIs DEF Coalesce
    <3>3. run.page.kind = "delta" => src'.checkpoint = run.page.checkpoint
          BY <2>1, <2>2, <2>3, <2>4, TailIs
    <3>4. run.page.kind = "last" => run.opening \/ src.round.open
          BY <2>1, <2>2 DEF PlanShape, MergedShape, Merged, Matches, Plans
    <3>5. ASSUME create' = "pending", NEW a \in live \cap Arrivals, Contains(run.wanted, Date[a])
          PROVE  mod[a] > src'.checkpoint
      <4>1. create = "pending" /\ mod[a] # 0 /\ a \in Handles
            BY <2>3, <3>5, RoundsAssumption DEF Timed, Times
      <4>2. run.state = "landing"
        <5>1. ASSUME run.state = "merging"
              PROVE  FALSE
          <6>1. a \in run.page.listed
                BY <2>1, <2>6, <3>5, <4>1, <5>1 DEF Unfound
          <6> QED BY <2>1, <2>3, <4>1, <5>1, <6>1 DEF Unfound, Merged
        <5> QED BY <2>1, <5>1
      <4>3. /\ mod[a] > src.checkpoint /\ mod[a] > run.page.checkpoint
            /\ src.round.open => mod[a] > src.round.checkpoint
            BY <2>1, <4>1, <4>2 DEF Unfound
      <4>4. mod[a] \in Nat
            BY <1>1, <4>1
      <4> QED BY <2>4, <2>6, <3>2, <3>3, <3>4, <4>1, <4>3, <4>4
    <3> QED BY <2>3, <3>1, <3>5 DEF Unfound
  <2>7. run.page.kind \in {"delta", "deltaHead", "bandHead", "partial", "last", "parked"}
        BY <2>2 DEF Pages
  <2> QED BY <2>5, <2>6, <2>7
<1>10. CASE Refuses
  <2>1. run \in Runs
        BY <1>1, <1>10, Tags DEF Refuses
  <2>2. UNCHANGED <<live, mod, src, create>> /\ run'.state = "enumerating"
        BY <1>10, <2>1, RefusesIs
  <2> QED BY <2>2 DEF Unfound
<1>11. CASE ListsNoHead
  <2>1. run \in Runs
        BY <1>1, <1>11, Tags DEF ListsNoHead
  <2>2. UNCHANGED <<live, mod, src, create>> /\ run'.state = "enumerating"
        BY <1>11, <2>1, ListsNoHeadIs
  <2> QED BY <2>2 DEF Unfound
<1>12. CASE Interrupt
  <2>1. UNCHANGED <<live, mod, src, create>> /\ run' = NoRun
        BY <1>12, InterruptIs
  <2> QED BY <1>1, <2>1 DEF Unfound
<1>13. CASE UNCHANGED vars
       BY <1>13 DEF vars, Unfound, Merged
<1> QED
  BY <1>2, <1>3, <1>4, <1>5, <1>6, <1>7, <1>8, <1>9, <1>10, <1>11, <1>12, <1>13
     DEF Next, Client, Begin, Faulty, Steps, Answers

(* The invariants of the times and of the creates hold at the start.       *)
LEMMA TimedInit ==
    ASSUME Init
    PROVE  Timed /\ WholePlans /\ SteppedCursors /\ Unfound
<1>1. /\ src = [checkpoint |-> 0, coverage |-> NoScope, round |-> NoRound]
      /\ run = NoRun /\ stamp = {} /\ clock = 1 /\ live \cap Arrivals = {}
      /\ mod = [h \in Handles |-> IF h \in live THEN 1 ELSE 0]
      BY DEF Init
<1>2. ~src.round.open /\ run \notin Runs
      BY <1>1, Nones, Tags
<1>3. Times
      BY <1>1, <1>2 DEF Times
<1> QED BY <1>1, <1>2, <1>3
        DEF Timed, MergesPage, StampsBound, WholePlans, SteppedCursors, Unfound

(* What a connector states of its source is fixed.                         *)
LEMMA ConnSame ==
    ASSUME [Next]_vars
    PROVE  conn' = conn
BY DEF Next, Client, Begin, Faulty, Steps, vars, ClientAdds, ClientEdits, ClientRemoves, Changes,
       Start, AnswersHead, AnswersDelta, AnswersRound, AnswersRoundToDelta, AnswersNothing, Takes,
       Refuses, ListsNoHead, Interrupt, OpenNarrowed, OpenMerge, Merge, Push, Land

(* A create is filed once: one pushed whose answer was lost is found by a  *)
(* listing before any page derives it again (holds_creates), at a source   *)
(* that gives its newest members the last handles.                         *)
THEOREM FiledOnce == NewestLast /\ Spec => []CreatedOnce
<1> DEFINE Inv == /\ TypeOK /\ Shape /\ Timed
                  /\ Whole => WholePlans /\ SteppedCursors /\ Unfound
<1> SUFFICES ASSUME NewestLast
             PROVE  Spec => []CreatedOnce
    OBVIOUS
<1>1. Init => Inv
      BY RoundsInit, TimedInit
<1>2. Inv /\ [Next]_vars => Inv'
  <2> SUFFICES ASSUME Inv, [Next]_vars
               PROVE  Inv'
      OBVIOUS
  <2>1. TypeOK' /\ Shape' /\ Timed'
        BY ShapeStep, TimedStep
  <2>2. Whole' => Whole
        BY ConnSame DEF Whole
  <2>3. ASSUME Whole
        PROVE  (WholePlans /\ SteppedCursors /\ Unfound)'
        BY <2>3, WholeStep, UnfoundStep
  <2> QED BY <2>1, <2>2, <2>3
<1>3. Inv => CreatedOnce
  <2> SUFFICES ASSUME Inv, Whole
               PROVE  Cardinality(live \cap Arrivals) <= 1
      BY DEF CreatedOnce, Whole
  <2>1. PICK x : live \cap Arrivals \subseteq {x}
        BY DEF Unfound
  <2>2. IsFiniteSet({x}) /\ Cardinality({x}) = 1
        BY FS_Singleton
  <2> HIDE DEF Inv
  <2> QED BY <2>1, <2>2, FS_Subset
<1> QED BY <1>1, <1>2, <1>3, PTL DEF Spec
=============================================================================
