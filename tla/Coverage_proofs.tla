--------------------------- MODULE Coverage_proofs ---------------------------
(***************************************************************************)
(* What the coverage of Rounds.tla promises, for any handles, dates,       *)
(* connectors, changes of the server and faults, and any scopes open at    *)
(* their ceiling: CoverageServed, from what each page says of the server,  *)
(* what the open round has settled and what its last page finds absent.    *)
(***************************************************************************)
EXTENDS Rounds_proofs

-----------------------------------------------------------------------------
(* The invariant.                                                          *)

(* Every scope a run asks for reaches to the newest date.                  *)
OpenScopes == \A wanted \in Wanted : wanted.until = Forever

(* A source whose listings name what they are sure of.                     *)
Sighted == ~conn.capped /\ ~conn.fails

(* The change the open round's listings are as of.                         *)
AsOf ==
    IF src.round.checkpoint # 0 THEN src.round.checkpoint
    ELSE IF src.round.band THEN src.checkpoint ELSE src.round.cursor.mod

(* What a date filter is sure to list, and the server gave.                *)
Sought(h) == h \notin Missable /\ mod[h] # 0

(* The plan of a run against the coverage, a head against the round it is  *)
(* of, and what a merge drops.                                             *)
CoveragePlanned ==
    /\ run.plan.kind = "delta" =>
         /\ src.coverage # NoScope /\ Covers(src.coverage, run.wanted)
         /\ run.plan.checkpoint = src.checkpoint
    /\ run.plan.kind = "round" =>
         IF run.plan.band
         THEN /\ src.coverage # NoScope /\ run.wanted.since < src.coverage.since
              /\ run.plan.scope.since = run.wanted.since
              /\ run.plan.scope.until = src.coverage.since
              /\ run.plan.span.since = run.wanted.since /\ run.plan.span.until = Forever
         ELSE run.plan.scope = run.wanted /\ run.plan.span = run.wanted
HeadPlanned ==
    run.head.kind = "delta" => /\ run.head.from = AsOf
                               /\ ~src.round.band => src.round.checkpoint # 0
DropsPlanned ==
    Merged => /\ run.dropped = run.page.vanished \cup run.absent
              /\ run.page.kind = "parked" /\ ~run.opening =>
                   /\ src.round.open /\ src.round.cursor = NoCursor
                   /\ src.round.band = run.plan.band
Planned ==
    /\ src.coverage # NoScope => src.coverage.until = Forever
    /\ run \in Runs => CoveragePlanned /\ HeadPlanned /\ DropsPlanned

(* A member changed after everything the source's row and the page are as  *)
(* of.                                                                     *)
Late(h) ==
    /\ mod[h] > src.checkpoint
    /\ mod[h] > run.page.checkpoint /\ mod[h] > run.page.cursor.mod
    /\ src.round.open => mod[h] > src.round.checkpoint /\ mod[h] > src.round.cursor.mod

(* What a page says of a member is so, and it says it of every member it   *)
(* answers for, or the member is late.                                     *)
Truthful(h) ==
    /\ h \in run.page.listed => h \in live /\ run.page.at[h] = mod[h]
    /\ h \in run.page.vanished => h \notin live
    /\ h \notin run.pushed
NamesSince(h, t) ==
    mod[h] > t =>
      /\ h \in live /\ Contains(run.wanted, Date[h]) => h \in run.page.listed
      /\ h \notin live => h \in run.page.vanished
NamesNext(h) ==
    /\ h \in live /\ run.plan.cursor.pos < h /\ Contains(run.plan.scope, Date[h])
    /\ run.page.kind = "partial" => h <= run.page.cursor.pos
    => h \in run.page.listed
Complete(h) ==
    /\ run.page.kind = "delta" => NamesSince(h, src.checkpoint)
    /\ run.page.kind = "deltaHead" => NamesSince(h, AsOf)
    /\ run.page.kind \in {"partial", "last"} => NamesNext(h)
Listing ==
    run \in Runs /\ run.state # "enumerating" =>
      \A h \in Handles : ~Late(h) => Truthful(h) /\ (Sought(h) => Complete(h))

(* The checkpoints and positions a page carries.                           *)
Paging ==
    run \in Runs /\ run.state # "enumerating" =>
      /\ run.page.kind = "partial" =>
           /\ run.page.cursor # NoCursor
           /\ run.plan.cursor # NoCursor =>
                run.page.cursor.mod = run.plan.cursor.mod /\ run.page.checkpoint = 0
           /\ ~run.plan.band /\ run.plan.cursor = NoCursor =>
                (conn.upfront <=> run.page.checkpoint # 0)
      /\ run.page.kind = "last" /\ run.plan.cursor # NoCursor /\ ~run.plan.band =>
           run.page.checkpoint = IF conn.upfront THEN 0 ELSE run.plan.cursor.mod
      /\ run.page.kind = "last" => ~run.page.capped
      /\ run.page.kind = "deltaHead" =>
           /\ run.page.checkpoint # 0
           /\ ~src.round.band => src.round.checkpoint # 0

(* What the open round has settled: what it listed is held and stamped,    *)
(* what is off the server is not stamped, and a band leaves the coverage   *)
(* served.                                                                 *)
ListedSettled ==
    \A h \in Handles :
      Sought(h) /\ Contains(src.round.scope, Date[h]) /\ mod[h] <= AsOf =>
        /\ h \in live /\ h <= src.round.cursor.pos => h \in stamp /\ held[h] = mod[h]
        /\ h \notin live /\ ~park.round => h \notin stamp
CoverageSettled ==
    src.round.band /\ ~park.coverage =>
      \A h \in Handles :
        Sought(h) /\ Contains(src.coverage, Date[h]) /\ mod[h] <= AsOf => Agrees(h)
RoundDated ==
    ~src.round.band =>
      /\ src.round.cursor = NoCursor /\ ~park.round => stamp = {} /\ src.round.checkpoint = 0
      /\ src.round.cursor # NoCursor /\ conn.upfront => src.round.checkpoint # 0
      /\ ~conn.upfront /\ ~park.round => src.round.checkpoint = 0
Settling == src.round.open => ListedSettled /\ CoverageSettled /\ RoundDated

(* The checkpoint the round closes at, and what its last page finds        *)
(* absent: nothing that is there as of it, and all that is not.            *)
Closing ==
    Coalesce(IF run.plan.band THEN 0 ELSE run.page.checkpoint,
             Coalesce(IF run.opening THEN 0 ELSE src.round.checkpoint, src.checkpoint))
AbsentsOff ==
    \A h \in run.absent : Sought(h) /\ h \in live =>
      mod[h] > src.checkpoint /\ (src.round.open => mod[h] > AsOf)
AbsentsFound ==
    run.opening \/ ~park.round =>
      \A h \in Handles :
        Sought(h) /\ Contains(run.plan.scope, Date[h]) /\ h \notin live /\ mod[h] <= Closing
          => h \in run.absent \/ held[h] = 0
Absents ==
    run \in Runs /\ Merged /\ run.page.kind = "last" => AbsentsOff /\ AbsentsFound

-----------------------------------------------------------------------------
(* The steps, by what they change.                                         *)

(* Nothing of the server or the store, and no page after it.               *)
Quiet ==
    /\ UNCHANGED <<conn, live, mod, clock, held, stamp, src, park>>
    /\ run' \in Runs => run'.state = "enumerating"

(* A member of the server, by another client or by the create pushed.      *)
ChangeAt(h) ==
    /\ UNCHANGED <<conn, held, stamp, src, park>>
    /\ clock' = clock + 1 /\ mod'[h] = clock + 1
    /\ \A k \in Handles : k # h => mod'[k] = mod[k] /\ (k \in live' <=> k \in live)
    /\ run' \in Runs =>
         /\ run \in Runs /\ run'.wanted = run.wanted /\ run'.plan = run.plan
         /\ run'.head = run.head /\ run'.opening = run.opening /\ run'.page = run.page
         /\ run'.absent = run.absent /\ run'.dropped = run.dropped
         /\ run'.pushed \subseteq run.pushed \cup {h}
         /\ run'.state = "enumerating" <=> run.state = "enumerating"
         /\ Merged' <=> Merged

(* A change another client makes is dated after everything before it and   *)
(* leaves the store alone.                                                 *)
LEMMA ClientChanges ==
    ASSUME TypeOK, NEW h \in Handles, ClientAdds(h) \/ ClientEdits(h) \/ ClientRemoves(h)
    PROVE  ChangeAt(h)
<1>1. /\ UNCHANGED <<conn, held, stamp, src, park>>
      /\ clock' = clock + 1 /\ mod'[h] = clock + 1
      /\ \A k \in Handles : k # h => mod'[k] = mod[k] /\ (k \in live' <=> k \in live)
      /\ run = NoRun => run' = NoRun
      /\ run \in Runs => run' \in Runs /\ SameButOff(run', run)
      BY ClientIs
<1>2. run \in Runs \cup {NoRun} /\ NoRun \notin Runs
      BY Tags DEF TypeOK
<1> QED BY <1>1, <1>2 DEF ChangeAt, SameButOff, Merged

(* The run's own push is a change of the server like any other.            *)
LEMMA PushChanges ==
    ASSUME TypeOK, NEW a \in Arrivals, NEW answered \in BOOLEAN, Push(a, answered)
    PROVE  a \in Handles /\ ChangeAt(a)
<1>1. run \in Runs
      BY Tags DEF Push, TypeOK
<1>2. /\ UNCHANGED <<conn, held, stamp, src, park>> /\ run.state = "merging" /\ a \in Handles
      /\ clock' = clock + 1 /\ mod'[a] = clock + 1
      /\ \A k \in Handles : k # a => mod'[k] = mod[k]
      /\ live' = live \cup {a} /\ run' \in Runs /\ run'.state = "landing"
      /\ run'.wanted = run.wanted /\ run'.plan = run.plan /\ run'.head = run.head
      /\ run'.opening = run.opening /\ run'.page = run.page
      /\ run'.absent = run.absent /\ run'.dropped = run.dropped /\ run'.pushed \subseteq {a}
      BY <1>1, PushIs
<1> QED BY <1>1, <1>2 DEF ChangeAt, Merged

(* What any step is.                                                       *)
LEMMA StepKinds ==
    ASSUME TypeOK, Shape, [Next]_vars
    PROVE  \/ Quiet
           \/ \E h \in Handles : ChangeAt(h)
           \/ Answers
           \/ OpenNarrowed \/ OpenMerge \/ (\E h \in Handles : Merge(h)) \/ Land
           \/ UNCHANGED vars
<1>1. run \in Runs \cup {NoRun} /\ NoRun \notin Runs /\ run' \in Runs \cup {NoRun}
      BY ShapeStep, Tags DEF TypeOK
<1>2. ASSUME NEW h \in Handles, ClientAdds(h) \/ ClientEdits(h) \/ ClientRemoves(h)
      PROVE  ChangeAt(h)
      BY <1>2, ClientChanges
<1>3. ASSUME NEW a \in Arrivals, NEW answered \in BOOLEAN, Push(a, answered)
      PROVE  a \in Handles /\ ChangeAt(a)
      BY <1>3, PushChanges
<1>4. ASSUME NEW wanted \in Wanted, NEW full \in Fulls, NEW accept \in Accepts,
             Start(wanted, full, accept)
      PROVE  Quiet
  <2>1. full \in BOOLEAN /\ accept \in BOOLEAN
        BY RoundsAssumption
  <2> QED BY <1>4, <2>1, StartIs DEF Quiet
<1>5. Refuses => Quiet
  <2>1. Refuses => run \in Runs
        BY <1>1, Tags DEF Refuses
  <2> QED BY <2>1, RefusesIs DEF Quiet
<1>6. ListsNoHead => Quiet
  <2>1. ListsNoHead => run \in Runs
        BY <1>1, Tags DEF ListsNoHead
  <2> QED BY <2>1, ListsNoHeadIs DEF Quiet
<1>7. Interrupt => Quiet
      BY <1>1, InterruptIs DEF Quiet
<1> QED
  BY <1>2, <1>3, <1>4, <1>5, <1>6, <1>7
     DEF Next, Client, Begin, Faulty, Steps, Answers

-----------------------------------------------------------------------------
(* Plans.                                                                  *)

(* The band a scope open at its ceiling adds to a coverage that is too,    *)
(* and what the two cover.                                                 *)
LEMMA OpenBands ==
    ASSUME NEW cov \in Scope, NEW wanted \in Scope, HasBand(cov, wanted),
           cov.until = Forever, wanted.until = Forever
    PROVE  /\ wanted.since < cov.since
           /\ BandOf(cov, wanted).since = wanted.since /\ BandOf(cov, wanted).until = cov.since
           /\ SpanOf(cov, wanted).since = wanted.since /\ SpanOf(cov, wanted).until = Forever
BY ForeverAssumption DEF HasBand, BandOf, SpanOf, Covers, Below, Above, Scope

(* A head of the round a run resumes is listed from what the round is as   *)
(* of, when it is a delta.                                                 *)
LEMMA HeadAsOf ==
    ASSUME TypeOK, NEW plan \in Plans, HeadOf(plan).kind = "delta"
    PROVE  HeadOf(plan).from = AsOf /\ (~src.round.band => src.round.checkpoint # 0)
<1>1. /\ src.round.checkpoint \in Nat /\ src.checkpoint \in Nat /\ src.round.startedAt \in Nat
      BY DEF TypeOK, SourceRows, RoundRows
<1> QED BY <1>1 DEF HeadOf, NoHead, AsOf

(* Every step keeps the plan tied to the coverage it was chosen from.      *)
LEMMA PlannedStep ==
    ASSUME OpenScopes, TypeOK, Shape, Planned, [Next]_vars
    PROVE  Planned'
<1>1. /\ run \in Runs \cup {NoRun} /\ NoRun \notin Runs /\ run' \in Runs \cup {NoRun}
      /\ src \in SourceRows /\ src.coverage \in Ranges /\ Wanted \subseteq Scope
      BY ShapeStep, Tags, RoundsAssumption DEF TypeOK, SourceRows
<1>2. ASSUME NEW h \in Handles, ChangeAt(h)
      PROVE  Planned'
  <2>1. src' = src
        BY <1>2 DEF ChangeAt
  <2>2. CASE run' \in Runs
    <3>1. /\ run \in Runs /\ run'.wanted = run.wanted /\ run'.plan = run.plan
          /\ run'.head = run.head /\ run'.opening = run.opening /\ run'.page = run.page
          /\ run'.absent = run.absent /\ run'.dropped = run.dropped
          /\ Merged' <=> Merged
          BY <1>2, <2>2 DEF ChangeAt
    <3>2. CoveragePlanned'
          BY <2>1, <3>1 DEF Planned, CoveragePlanned
    <3>3. HeadPlanned'
          BY <2>1, <3>1 DEF Planned, HeadPlanned, AsOf
    <3>4. DropsPlanned'
          BY <2>1, <3>1 DEF Planned, DropsPlanned
    <3> QED BY <2>1, <3>2, <3>3, <3>4 DEF Planned
  <2> QED BY <2>1, <2>2 DEF Planned
<1>3. ASSUME NEW wanted \in Wanted, NEW full \in Fulls, NEW accept \in Accepts,
             Start(wanted, full, accept)
      PROVE  Planned'
  <2>1. full \in BOOLEAN /\ accept \in BOOLEAN /\ wanted \in Scope
        BY <1>1, RoundsAssumption
  <2>2. /\ src' = src /\ run' \in Runs /\ run'.state = "enumerating"
        /\ run'.wanted = wanted /\ run'.plan = Choose(wanted, full) /\ run'.plan \in Plans
        /\ run'.head = HeadOf(run'.plan)
        BY <1>3, <2>1, StartIs
  <2>3. /\ run'.plan.kind = "delta" =>
             /\ run'.plan.checkpoint = src.checkpoint
             /\ src.coverage # NoScope /\ Covers(src.coverage, wanted)
        /\ run'.plan.kind = "round" =>
             IF run'.plan.band
             THEN /\ src.coverage # NoScope /\ HasBand(src.coverage, wanted)
                  /\ run'.plan.scope = BandOf(src.coverage, wanted)
                  /\ run'.plan.span = SpanOf(src.coverage, wanted)
             ELSE run'.plan.scope = wanted /\ run'.plan.span = wanted
        BY <2>1, <2>2, ChooseIs
  <2>4. src.coverage # NoScope => src.coverage \in Scope /\ src.coverage.until = Forever
        BY <1>1 DEF Ranges, Planned
  <2>5. wanted.until = Forever
        BY DEF OpenScopes
  <2>6. run'.plan.kind = "round" /\ run'.plan.band =>
             /\ wanted.since < src.coverage.since
             /\ run'.plan.scope.since = wanted.since /\ run'.plan.scope.until = src.coverage.since
             /\ run'.plan.span.since = wanted.since /\ run'.plan.span.until = Forever
        BY <2>1, <2>3, <2>4, <2>5, OpenBands
  <2>7. CoveragePlanned'
        BY <2>2, <2>3, <2>6 DEF CoveragePlanned
  <2>8. HeadPlanned'
        BY <2>2, HeadAsOf DEF HeadPlanned, AsOf
  <2> QED BY <2>2, <2>7, <2>8 DEF Planned, DropsPlanned, Merged
<1>4. CASE Answers
  <2>1. run \in Runs /\ run.state = "enumerating"
        BY <1>1, <1>4, AnswerIs
  <2>2. PICK plan \in Plans, page \in Pages :
                 page.kind # "parked" /\ Listable(plan, page) /\ Takes(plan, page)
        BY <1>1, <1>4, AnswerIs
  <2> DEFINE r == Taken(plan, page)
  <2>3. /\ src' = src /\ run' \in Runs /\ r \in Runs /\ r.page \in Pages
        /\ ~OpensFirst(r) => run' = Merging(r)
        /\ OpensFirst(r) => /\ run'.state = "opening" /\ run'.wanted = r.wanted
                            /\ run'.plan = r.plan /\ run'.head = r.head
        BY <2>1, <2>2, TakesIs
  <2>4. r.plan = plan /\ r.page = page /\ r.wanted = run.wanted /\ r.head = NoHead
        BY <2>1, TakenIs
  <2> HIDE DEF r
  <2>5. plan = run.plan \/ plan = Afresh(run.wanted)
        BY <2>1, <2>2, ListableKinds
  <2>6. run.wanted \in Ranges
        BY <1>1, <2>1 DEF Runs, Ranges
  <2>7. ~OpensFirst(r) =>
          /\ SamePlan(run'.plan, plan) /\ run'.wanted = run.wanted /\ run'.head = NoHead
          /\ run'.page.vanished = page.vanished
          /\ run'.absent = DroppedAbsent(r)
          /\ run'.dropped = page.vanished \cup DroppedAbsent(r)
          /\ run'.opening <=> (Opening(r) \/ (Parks(r) /\ plan.cursor # NoCursor))
          /\ run'.page.kind = IF Parks(r) THEN "parked" ELSE page.kind
        BY <2>3, <2>4, MergingIs DEF SamePage
  <2>8. /\ SamePlan(run'.plan, plan) /\ run'.wanted = run.wanted /\ run'.head = NoHead
        BY <2>3, <2>4, <2>7 DEF SamePlan
  <2>9. CoveragePlanned'
    <3>1. CASE plan = run.plan
          BY <2>1, <2>3, <2>8, <3>1 DEF Planned, CoveragePlanned, SamePlan
    <3>2. CASE plan = Afresh(run.wanted)
      <4>1. plan.kind = "round" /\ plan.scope = run.wanted /\ plan.span = run.wanted /\ plan.band = FALSE
            BY <2>6, <3>2, AfreshIs
      <4> QED BY <2>8, <4>1 DEF CoveragePlanned, SamePlan
    <3> QED BY <2>5, <3>1, <3>2
  <2>10. HeadPlanned'
        BY <2>8 DEF HeadPlanned, NoHead
  <2>11. DropsPlanned'
    <3>1. CASE OpensFirst(r)
          BY <2>3, <3>1 DEF DropsPlanned, Merged
    <3>2. CASE ~OpensFirst(r)
      <4>1. run'.dropped = run'.page.vanished \cup run'.absent
            BY <2>7, <3>2
      <4>2. ASSUME run'.page.kind = "parked", ~run'.opening
            PROVE  src.round.open /\ src.round.cursor = NoCursor /\ src.round.band = plan.band
        <5>1. Parks(r) /\ plan.cursor = NoCursor /\ ~Opening(r)
              BY <2>2, <2>7, <3>2, <4>2
        <5>2. page.kind = "last" /\ ~plan.opens
              BY <2>4, <5>1 DEF Parks, Opening
        <5>3. plan.kind = "round" /\ Matches(src.round, plan)
              BY <2>1, <2>2, <5>2, ListableIs DEF Plans
        <5> QED BY <5>1, <5>3 DEF Matches
      <4> QED BY <2>3, <2>8, <4>1, <4>2 DEF DropsPlanned, SamePlan
    <3> QED BY <3>1, <3>2
  <2> QED BY <2>3, <2>9, <2>10, <2>11 DEF Planned
<1>5. CASE OpenNarrowed
  <2>1. run \in Runs /\ run.state = "opening" /\ run.plan \in Plans /\ run.plan.kind # "delta"
        BY <1>1, <1>5, Tags DEF OpenNarrowed, Runs, Shape, PlanShape
  <2>2. /\ src' = Opened(src, run.plan)
        /\ run' \in Runs /\ run'.state = "loading" /\ run'.wanted = run.wanted
        /\ SamePlan(run'.plan, run.plan) /\ run'.head = run.head
        BY <1>5, <2>1, OpenNarrowedIs
  <2>3. src'.coverage = src.coverage /\ src'.checkpoint = src.checkpoint
        BY <2>1, <2>2, OpenedIs
  <2>4. CoveragePlanned'
        BY <2>1, <2>2, <2>3 DEF Planned, CoveragePlanned, SamePlan
  <2>5. HeadPlanned'
        BY <2>1, <2>2 DEF HeadPlanned, Shape, PlanShape, NoHead
  <2> QED BY <2>1, <2>2, <2>3, <2>4, <2>5 DEF Planned, DropsPlanned, Merged
<1>6. CASE OpenMerge
  <2>1. /\ run \in Runs /\ run.state = "loading" /\ run' = Merging(run) /\ src' = src
        BY <1>1, <1>6, Tags DEF OpenMerge, server, store, history
  <2>2. run.page \in Pages /\ run.plan \in Plans
        BY <2>1 DEF Shape, Runs
  <2>3. /\ run' \in Runs /\ SamePlan(run'.plan, run.plan) /\ run'.wanted = run.wanted
        /\ run'.head = run.head
        /\ run'.page.vanished = run.page.vanished
        /\ run'.absent = DroppedAbsent(run)
        /\ run'.dropped = run.page.vanished \cup DroppedAbsent(run)
        /\ run'.opening <=> (Opening(run) \/ (Parks(run) /\ run.plan.cursor # NoCursor))
        BY <2>1, <2>2, MergingIs DEF SamePage
  <2>4. /\ run.plan.kind = "round" /\ ~run.plan.opens /\ run.plan.cursor = NoCursor
        /\ Matches(src.round, run.plan)
        BY <2>1, <2>2 DEF Shape, PlanShape, OpeningShape, Plans
  <2>5. CoveragePlanned'
        BY <2>1, <2>3 DEF Planned, CoveragePlanned, SamePlan
  <2>6. HeadPlanned'
        BY <2>1, <2>3 DEF HeadPlanned, Shape, PlanShape, NoHead
  <2>7. DropsPlanned'
        BY <2>1, <2>3, <2>4 DEF DropsPlanned, Matches, SamePlan
  <2> QED BY <2>1, <2>3, <2>5, <2>6, <2>7 DEF Planned
<1>7. ASSUME NEW h \in Handles, Merge(h)
      PROVE  Planned'
  <2>1. run \in Runs /\ run.state = "merging" /\ run.page \in Pages /\ run.plan \in Plans
        BY <1>1, <1>7, Tags DEF Merge, Shape, Runs
  <2>2. /\ src' = Row
        /\ run' \in Runs /\ run'.state = "merging" /\ run'.wanted = run.wanted
        /\ run'.plan = run.plan /\ run'.page = run.page /\ run'.head = run.head
        /\ run'.absent = run.absent /\ run'.dropped = run.dropped
        BY <1>7, <2>1, MergeIs
  <2>3. /\ Row.checkpoint = src.checkpoint /\ Row.coverage = src.coverage
        /\ ~run.opening => Row = src
        /\ run.opening => /\ Row.round.cursor = NoCursor /\ Row.round.open
                          /\ Row.round.band = run.plan.band
        BY <2>1, RowIs
  <2>4. CoveragePlanned'
        BY <2>1, <2>2, <2>3 DEF Planned, CoveragePlanned
  <2>5. HeadPlanned'
        BY <2>1, <2>2 DEF HeadPlanned, Shape, PlanShape, NoHead
  <2>6. DropsPlanned'
        BY <2>1, <2>2, <2>3 DEF Planned, DropsPlanned, Merged
  <2> QED BY <2>1, <2>2, <2>3, <2>4, <2>5, <2>6 DEF Planned
<1>8. CASE Land
  <2>1. run \in Runs /\ run.state \in {"merging", "landing"}
        BY <1>1, <1>8, Tags DEF Land
  <2>2. run.page \in Pages /\ PlanShape /\ MergedShape /\ run.plan \in Plans
        BY <2>1 DEF Shape, Runs
  <2>3. /\ src' = Tail(Row)
        /\ run.page.kind \notin Onward => run' = NoRun
        /\ run.page.kind \in Onward =>
             /\ run' \in Runs /\ run'.state = "enumerating" /\ run'.wanted = run.wanted
             /\ run'.plan.kind = run.plan.kind /\ run'.plan.band = run.plan.band
             /\ run'.plan.scope = run.plan.scope /\ run'.plan.span = run.plan.span
             /\ run'.head = run.head
        BY <1>8, <2>1, <2>2, LandIs
  <2>4. /\ Row \in SourceRows /\ Row.coverage = src.coverage
        BY <2>1, RowIs
  <2>5. CASE run.page.kind \in Onward \cup {"parked"}
    <3>1. src'.coverage = src.coverage
          BY <2>1, <2>2, <2>3, <2>4, <2>5, TailIs DEF Onward
    <3>2. CASE run.page.kind = "parked"
          BY <1>1, <2>3, <3>1, <3>2 DEF Planned, Onward
    <3>3. CASE run.page.kind \in Onward
      <4>1. run.plan.kind = "round"
            BY <2>1, <2>2, <3>3 DEF MergedShape, Merged, Onward, Plans
      <4>2. CoveragePlanned'
            BY <2>1, <2>3, <3>1, <3>3, <4>1 DEF Planned, CoveragePlanned
      <4>3. HeadPlanned'
            BY <2>1, <2>2, <2>3, <3>3 DEF HeadPlanned, PlanShape, NoHead
      <4> QED BY <2>3, <3>1, <3>3, <4>2, <4>3 DEF Planned, DropsPlanned, Merged
    <3> QED BY <2>5, <3>2, <3>3
  <2>6. CASE run.page.kind \in {"delta", "last"}
    <3>1. run' = NoRun
          BY <2>3, <2>6 DEF Onward
    <3>2. run.wanted.until = Forever
          BY <2>1 DEF Runs, OpenScopes
    <3>3. CASE run.page.kind = "delta"
      <4>1. src'.coverage \in {run.wanted, src.coverage}
            BY <2>1, <2>2, <2>3, <2>4, <3>3, TailIs
      <4> QED BY <1>1, <3>1, <3>2, <4>1 DEF Planned
    <3>4. CASE run.page.kind = "last"
      <4>1. src'.coverage = run.plan.span
            BY <2>1, <2>2, <2>3, <2>4, <3>4, TailIs
      <4>2. run.plan.kind = "round"
            BY <2>1, <2>2, <3>4 DEF MergedShape, Merged, Plans
      <4>3. run.plan.span.until = Forever
            BY <2>1, <3>2, <4>2 DEF Planned, CoveragePlanned
      <4> QED BY <1>1, <3>1, <4>1, <4>3 DEF Planned
    <3> QED BY <2>6, <3>3, <3>4
  <2>7. run.page.kind \in {"delta", "deltaHead", "bandHead", "partial", "last", "parked"}
        BY <2>2 DEF Pages
  <2> QED BY <2>5, <2>6, <2>7 DEF Onward
<1>9. CASE Refuses
  <2>1. run \in Runs
        BY <1>1, <1>9, Tags DEF Refuses
  <2>2. /\ src' = src /\ run' \in Runs
        /\ run'.state = "enumerating" /\ run'.wanted = run.wanted /\ run'.head = NoHead
        /\ run'.plan.kind = "round"
        /\ \/ /\ run.plan.kind = "round" /\ run'.plan.scope = run.plan.scope
              /\ run'.plan.span = run.plan.span /\ run'.plan.band = run.plan.band
           \/ /\ run'.plan.scope = run.wanted /\ run'.plan.span = run.wanted
              /\ run'.plan.band = FALSE
        BY <1>9, <2>1, RefusesIs
  <2>3. CoveragePlanned'
        BY <2>1, <2>2 DEF Planned, CoveragePlanned
  <2>4. HeadPlanned'
        BY <2>2 DEF HeadPlanned, NoHead
  <2> QED BY <2>2, <2>3, <2>4 DEF Planned, DropsPlanned, Merged
<1>10. CASE ListsNoHead
  <2>1. run \in Runs
        BY <1>1, <1>10, Tags DEF ListsNoHead
  <2>2. /\ src' = src /\ run' \in Runs /\ run'.state = "enumerating"
        /\ run'.wanted = run.wanted /\ run'.plan = run.plan /\ run'.head = NoHead
        BY <1>10, <2>1, ListsNoHeadIs
  <2>3. CoveragePlanned'
        BY <2>1, <2>2 DEF Planned, CoveragePlanned
  <2>4. HeadPlanned'
        BY <2>2 DEF HeadPlanned, NoHead
  <2> QED BY <2>2, <2>3, <2>4 DEF Planned, DropsPlanned, Merged
<1>11. CASE Interrupt
  <2>1. src' = src /\ run' = NoRun
        BY <1>11, InterruptIs
  <2> QED BY <1>1, <2>1 DEF Planned
<1>12. CASE UNCHANGED vars
       BY <1>12 DEF vars, Planned, CoveragePlanned, HeadPlanned, DropsPlanned, Merged, AsOf
<1>13. ASSUME NEW h \in Handles, ClientAdds(h) \/ ClientEdits(h) \/ ClientRemoves(h)
       PROVE  ChangeAt(h)
       BY <1>13, ClientChanges
<1>14. ASSUME NEW a \in Arrivals, NEW answered \in BOOLEAN, Push(a, answered)
       PROVE  a \in Handles /\ ChangeAt(a)
       BY <1>14, PushChanges
<1> QED
  BY <1>2, <1>3, <1>4, <1>5, <1>6, <1>7, <1>8, <1>9, <1>10, <1>11, <1>12, <1>13, <1>14
     DEF Next, Client, Begin, Faulty, Steps, Answers

-----------------------------------------------------------------------------
(* Pages.                                                                  *)

(* A member that changes is late for the page under way, and no other is.  *)
LEMMA ChangedIsLate ==
    ASSUME TypeOK, Shape, Timed, run \in Runs, run.state # "enumerating", run' \in Runs,
           NEW h \in Handles, ChangeAt(h)
    PROVE  /\ Late(h)'
           /\ \A k \in Handles : k # h => (Late(k)' <=> Late(k))
<1>1. /\ src' = src /\ mod'[h] = clock + 1 /\ run'.page = run.page
      /\ \A k \in Handles : k # h => mod'[k] = mod[k]
      BY DEF ChangeAt
<1>2. run.page \in Pages
      BY DEF Shape
<1>3. /\ clock \in Nat /\ src.checkpoint \in Nat /\ src.round.checkpoint \in Nat
      /\ src.round.cursor.mod \in Nat /\ run.page.checkpoint \in Nat /\ run.page.cursor.mod \in Nat
      BY <1>2 DEF TypeOK, SourceRows, RoundRows, Cursors, Pages
<1>4. /\ src.checkpoint <= clock /\ run.page.checkpoint <= clock /\ run.page.cursor.mod <= clock
      /\ src.round.open => src.round.checkpoint <= clock /\ src.round.cursor.mod <= clock
      BY DEF Timed, Times, Later, Placed
<1>5. Late(h)'
      BY <1>1, <1>3, <1>4 DEF Late
<1> QED BY <1>1, <1>5 DEF Late

(* What an answer names of the members it answers for.                     *)
LEMMA ListableComplete ==
    ASSUME TypeOK, Shape, Planned, Sighted, run \in Runs, run.state = "enumerating",
           NEW plan \in Plans, NEW page \in Pages, Listable(plan, page),
           NEW h \in Handles, Sought(h)
    PROVE  /\ page.kind = "delta" /\ mod[h] > src.checkpoint =>
                /\ h \in live /\ Contains(run.wanted, Date[h]) => h \in page.listed
                /\ h \notin live => h \in page.vanished
           /\ page.kind = "deltaHead" /\ mod[h] > AsOf =>
                /\ h \in live /\ Contains(run.wanted, Date[h]) => h \in page.listed
                /\ h \notin live => h \in page.vanished
           /\ /\ page.kind \in {"partial", "last"}
              /\ h \in live /\ plan.cursor.pos < h /\ Contains(plan.scope, Date[h])
              /\ page.kind = "partial" => h <= page.cursor.pos
              => h \in page.listed
<1>1. /\ page.kind = "delta" => page = DeltaPage /\ plan.kind = "delta" /\ plan = run.plan
      /\ page.kind = "deltaHead" => page = HeadPage
      /\ page.kind \in {"partial", "last"} => \E missed \in Missing : page = RoundPage(plan, missed)
      BY ListableKinds, ListableIs DEF Sighted
<1>2. ASSUME page.kind = "delta", mod[h] > src.checkpoint
      PROVE  /\ h \in live /\ Contains(run.wanted, Date[h]) => h \in page.listed
             /\ h \notin live => h \in page.vanished
  <2>1. run.plan.checkpoint = src.checkpoint
        BY <1>1, <1>2 DEF Planned, CoveragePlanned
  <2>2. /\ page.listed = Changed(src.checkpoint, run.wanted)
        /\ page.vanished = {k \in Handles \ live : mod[k] > src.checkpoint}
        BY <1>1, <1>2, <2>1, DeltaPageIs
  <2> QED BY <1>2, <2>2 DEF Changed
<1>3. ASSUME page.kind = "deltaHead", mod[h] > AsOf
      PROVE  /\ h \in live /\ Contains(run.wanted, Date[h]) => h \in page.listed
             /\ h \notin live => h \in page.vanished
  <2>1. run.head.kind = "delta"
        BY <1>1, <1>3, HeadPageIs
  <2>2. run.head.from = AsOf
        BY <2>1 DEF Planned, HeadPlanned
  <2>3. /\ page.listed = Changed(AsOf, run.wanted)
        /\ page.vanished = {k \in Handles \ live : mod[k] > AsOf}
        BY <1>1, <1>3, <2>1, <2>2, HeadPageIs
  <2> QED BY <1>3, <2>3 DEF Changed
<1>4. ASSUME page.kind \in {"partial", "last"},
             h \in live, plan.cursor.pos < h, Contains(plan.scope, Date[h]),
             page.kind = "partial" => h <= page.cursor.pos
      PROVE  h \in page.listed
  <2>1. PICK missed \in Missing : page = RoundPage(plan, missed)
        BY <1>1, <1>4
  <2>2. /\ page.kind = IF Reaches(plan) >= N THEN "last" ELSE "partial"
        /\ ~(Reaches(plan) >= N) => page.cursor.pos = Reaches(plan)
        BY <2>1, RoundPageIs
  <2>3. /\ plan.cursor.pos \in Nat /\ conn.page \in Nat /\ N \in Nat /\ h \in 1..N
        BY RoundsAssumption DEF TypeOK, Plans, Cursors, Handles
  <2>4. h <= Reaches(plan)
        BY <1>4, <2>2, <2>3 DEF Reaches
  <2>5. Sure(plan, h)
        BY <1>4 DEF Sure, Sighted, Sought
  <2>6. h \in RoundPage(plan, missed).listed
        BY <1>4, <2>4, <2>5, RoundPageLists
  <2> QED BY <2>1, <2>6
<1> QED BY <1>2, <1>3, <1>4

(* The checkpoint and the position of an answer.                           *)
LEMMA ListablePages ==
    ASSUME TypeOK, Shape, Timed, Planned, Sighted, run \in Runs, run.state = "enumerating",
           NEW plan \in Plans, NEW page \in Pages, Listable(plan, page)
    PROVE  /\ page.kind = "partial" =>
                /\ page.cursor # NoCursor
                /\ plan.cursor # NoCursor =>
                     page.cursor.mod = plan.cursor.mod /\ page.checkpoint = 0
                /\ ~plan.band /\ plan.cursor = NoCursor => (conn.upfront <=> page.checkpoint # 0)
           /\ page.kind = "last" /\ plan.cursor # NoCursor /\ ~plan.band =>
                page.checkpoint = IF conn.upfront THEN 0 ELSE plan.cursor.mod
           /\ page.kind = "last" => ~page.capped
           /\ page.kind = "deltaHead" =>
                /\ page.checkpoint # 0
                /\ ~src.round.band => src.round.checkpoint # 0
<1>1. /\ page.kind = "deltaHead" => page = HeadPage
      /\ page.kind \in {"partial", "last"} => \E missed \in Missing : page = RoundPage(plan, missed)
      BY ListableKinds DEF Sighted
<1>2. clock \in Nat /\ clock > 0
      BY DEF TypeOK, Timed, Times
<1>3. CASE page.kind \in {"partial", "last"}
  <2>1. PICK missed \in Missing : page = RoundPage(plan, missed)
        BY <1>1, <1>3
  <2>2. /\ page.kind = IF Reaches(plan) >= N THEN "last" ELSE "partial"
        /\ ~(Reaches(plan) >= N) => page.cursor.pos = Reaches(plan) /\ page.cursor.mod = Began(plan)
        /\ page.checkpoint = IF plan.band THEN 0
                             ELSE IF plan.cursor = NoCursor /\ conn.upfront THEN clock
                             ELSE IF Reaches(plan) >= N /\ ~conn.upfront THEN Began(plan) ELSE 0
        /\ page.capped => conn.capped
        BY <2>1, RoundPageIs
  <2>3. /\ plan.cursor.pos \in Nat /\ conn.page \in Nat /\ conn.page > 0
        BY RoundsAssumption DEF TypeOK, Plans, Cursors
  <2>4. Reaches(plan) # 0
        BY <2>3 DEF Reaches
  <2>5. page.kind = "partial" => page.cursor # NoCursor
        BY <2>2, <2>4, Nones
  <2> QED BY <1>2, <1>3, <2>2, <2>5 DEF Began, Sighted
<1>4. CASE page.kind = "deltaHead"
  <2>1. run.head.kind = "delta" /\ page.checkpoint = clock
        BY <1>1, <1>4, HeadPageIs
  <2> QED BY <1>2, <1>4, <2>1 DEF Planned, HeadPlanned
<1> QED BY <1>3, <1>4

(* Opening the merge of a page keeps what it says.                         *)
LEMMA MergingSays ==
    ASSUME TypeOK, NEW r \in Runs, r.page \in Pages, run' = Merging(r),
           UNCHANGED <<conn, live, mod, src>>
    PROVE  /\ run' \in Runs /\ run'.state = "merging" /\ run'.wanted = r.wanted
           /\ run'.pushed = r.pushed
           /\ run'.plan.cursor = r.plan.cursor /\ run'.plan.scope = r.plan.scope
           /\ run'.plan.band = r.plan.band
           /\ run'.page.listed = r.page.listed /\ run'.page.at = r.page.at
           /\ run'.page.vanished = r.page.vanished /\ run'.page.cursor = r.page.cursor
           /\ run'.page.checkpoint = r.page.checkpoint /\ run'.page.capped = r.page.capped
           /\ run'.page.kind \in {r.page.kind, "parked"}
BY MergingIs DEF SamePlan, SamePage

(* Every step keeps what a page says, and the times it carries.            *)
LEMMA ListingStep ==
    ASSUME TypeOK, Shape, Timed, Planned, Sighted, Listing, Paging, [Next]_vars
    PROVE  Listing' /\ Paging'
<1>1. /\ run \in Runs \cup {NoRun} /\ NoRun \notin Runs /\ run' \in Runs \cup {NoRun}
      /\ \A h \in Handles : mod[h] \in Nat
      /\ src.checkpoint \in Nat
      BY ShapeStep, Tags DEF TypeOK, SourceRows
<1>2. CASE Quiet
      BY <1>2 DEF Quiet, Listing, Paging
<1>3. ASSUME NEW h \in Handles, ChangeAt(h)
      PROVE  Listing' /\ Paging'
  <2> SUFFICES ASSUME run' \in Runs, run'.state # "enumerating"
               PROVE  Listing' /\ Paging'
      BY DEF Listing, Paging
  <2>1. /\ run \in Runs /\ run.state # "enumerating"
        /\ UNCHANGED <<conn, src>>
        /\ \A k \in Handles : k # h => mod'[k] = mod[k] /\ (k \in live' <=> k \in live)
        /\ run'.wanted = run.wanted /\ run'.plan = run.plan /\ run'.page = run.page
        /\ run'.pushed \subseteq run.pushed \cup {h}
        BY <1>3 DEF ChangeAt
  <2>2. /\ Late(h)'
        /\ \A k \in Handles : k # h => (Late(k)' <=> Late(k))
        BY <1>3, <2>1, ChangedIsLate
  <2>3. Paging'
        BY <2>1 DEF Paging
  <2>4. ASSUME NEW k \in Handles, ~Late(k)'
        PROVE  Truthful(k)' /\ (Sought(k)' => Complete(k)')
    <3>1. k # h /\ ~Late(k)
          BY <2>2, <2>4
    <3>2. mod'[k] = mod[k] /\ (k \in live' <=> k \in live) /\ (k \in run'.pushed => k \in run.pushed)
          BY <2>1, <3>1
    <3>3. Truthful(k) /\ (Sought(k) => Complete(k))
          BY <2>1, <3>1 DEF Listing
    <3>4. Truthful(k)'
          BY <2>1, <3>2, <3>3 DEF Truthful
    <3>5. Sought(k)' => Sought(k)
          BY <3>2 DEF Sought
    <3>6. Complete(k) => Complete(k)'
          BY <2>1, <3>2 DEF Complete, NamesSince, NamesNext, AsOf
    <3> QED BY <3>3, <3>4, <3>5, <3>6
  <2> QED BY <2>3, <2>4 DEF Listing
<1>4. CASE Answers
  <2>1. run \in Runs /\ run.state = "enumerating"
        BY <1>1, <1>4, AnswerIs
  <2>2. PICK plan \in Plans, page \in Pages :
                 page.kind # "parked" /\ Listable(plan, page) /\ Takes(plan, page)
        BY <1>1, <1>4, AnswerIs
  <2> DEFINE r == Taken(plan, page)
  <2>3. /\ UNCHANGED <<conn, live, mod, src>> /\ run' \in Runs /\ r \in Runs /\ r.page \in Pages
        /\ ~OpensFirst(r) => run' = Merging(r)
        /\ OpensFirst(r) => /\ run'.state = "opening" /\ run'.wanted = r.wanted
                            /\ run'.plan = r.plan /\ run'.page = r.page /\ run'.pushed = r.pushed
        BY <2>1, <2>2, TakesIs
  <2>4. r.plan = plan /\ r.page = page /\ r.wanted = run.wanted /\ r.pushed = {}
        BY <2>1, <2>2, TakenIs, ListableIs
  <2> HIDE DEF r
  <2>5. /\ run'.wanted = run.wanted /\ run'.pushed = {}
        /\ run'.plan.cursor = plan.cursor /\ run'.plan.scope = plan.scope
        /\ run'.plan.band = plan.band
        /\ run'.page.listed = page.listed /\ run'.page.at = page.at
        /\ run'.page.vanished = page.vanished /\ run'.page.cursor = page.cursor
        /\ run'.page.checkpoint = page.checkpoint /\ run'.page.capped = page.capped
        /\ run'.page.kind \in {page.kind, "parked"}
    <3>1. CASE OpensFirst(r)
          BY <2>3, <2>4, <3>1
    <3>2. CASE ~OpensFirst(r)
          BY <2>3, <2>4, <3>2, MergingSays
    <3> QED BY <3>1, <3>2
  <2>6. /\ page.listed \subseteq live /\ page.vanished \cap live = {}
        /\ \A h \in page.listed : page.at[h] = mod[h]
        BY <2>1, <2>2, ListedLive
  <2>7. ASSUME NEW h \in Handles
        PROVE  Truthful(h)' /\ (Sought(h)' => Complete(h)')
    <3>1. Truthful(h)'
          BY <2>3, <2>5, <2>6 DEF Truthful
    <3>2. ASSUME Sought(h)'
          PROVE  Complete(h)'
      <4>1. Sought(h)
            BY <2>3, <3>2 DEF Sought
      <4>2. /\ page.kind = "delta" /\ mod[h] > src.checkpoint =>
                 /\ h \in live /\ Contains(run.wanted, Date[h]) => h \in page.listed
                 /\ h \notin live => h \in page.vanished
            /\ page.kind = "deltaHead" /\ mod[h] > AsOf =>
                 /\ h \in live /\ Contains(run.wanted, Date[h]) => h \in page.listed
                 /\ h \notin live => h \in page.vanished
            /\ /\ page.kind \in {"partial", "last"}
               /\ h \in live /\ plan.cursor.pos < h /\ Contains(plan.scope, Date[h])
               /\ page.kind = "partial" => h <= page.cursor.pos
               => h \in page.listed
            BY <2>1, <2>2, <4>1, ListableComplete
      <4>3. AsOf' = AsOf
            BY <2>3 DEF AsOf
      <4> QED BY <2>3, <2>5, <4>2, <4>3 DEF Complete, NamesSince, NamesNext
    <3> QED BY <3>1, <3>2
  <2>8. Paging'
    <3>1. /\ page.kind = "partial" =>
               /\ page.cursor # NoCursor
               /\ plan.cursor # NoCursor =>
                    page.cursor.mod = plan.cursor.mod /\ page.checkpoint = 0
               /\ ~plan.band /\ plan.cursor = NoCursor => (conn.upfront <=> page.checkpoint # 0)
          /\ page.kind = "last" /\ plan.cursor # NoCursor /\ ~plan.band =>
               page.checkpoint = IF conn.upfront THEN 0 ELSE plan.cursor.mod
          /\ page.kind = "last" => ~page.capped
          /\ page.kind = "deltaHead" =>
               /\ page.checkpoint # 0
               /\ ~src.round.band => src.round.checkpoint # 0
          BY <2>1, <2>2, ListablePages
    <3> QED BY <2>3, <2>5, <3>1 DEF Paging
  <2> QED BY <2>7, <2>8 DEF Listing
<1>5. CASE OpenNarrowed
  <2>1. run \in Runs /\ run.state = "opening" /\ run.plan \in Plans
        BY <1>1, <1>5, Tags DEF OpenNarrowed, Runs
  <2>2. /\ UNCHANGED <<conn, live, mod>> /\ src' = Opened(src, run.plan)
        /\ run' \in Runs /\ run'.state = "loading" /\ run'.wanted = run.wanted
        /\ SamePlan(run'.plan, run.plan) /\ run'.page = run.page /\ run'.pushed = run.pushed
        BY <1>5, <2>1, OpenNarrowedIs
  <2>3. /\ src'.checkpoint = src.checkpoint /\ src'.round.checkpoint = 0
        /\ src'.round.cursor.mod = 0
        BY <2>1, <2>2, OpenedIs, Nones
  <2>4. run.page.kind = "last"
        BY <2>1 DEF Shape, OpeningShape
  <2>5. Paging'
        BY <2>1, <2>2, <2>4 DEF Paging, SamePlan
  <2>6. ASSUME NEW h \in Handles, ~Late(h)'
        PROVE  Truthful(h)' /\ (Sought(h)' => Complete(h)')
    <3>1. ~Late(h)
          BY <1>1, <2>2, <2>3, <2>6 DEF Late
    <3>2. Truthful(h) /\ (Sought(h) => Complete(h))
          BY <2>1, <3>1 DEF Listing
    <3> QED BY <2>2, <2>4, <3>2 DEF Truthful, Sought, Complete, NamesNext, SamePlan
  <2> QED BY <2>5, <2>6 DEF Listing
<1>6. CASE OpenMerge
  <2>1. /\ run \in Runs /\ run.state = "loading" /\ run' = Merging(run)
        /\ UNCHANGED <<conn, live, mod, src>>
        BY <1>1, <1>6, Tags DEF OpenMerge, server, store, history
  <2>2. run.page \in Pages /\ run.page.kind = "last"
        BY <2>1 DEF Shape, OpeningShape
  <2>3. /\ run' \in Runs /\ run'.wanted = run.wanted /\ run'.pushed = run.pushed
        /\ run'.plan.cursor = run.plan.cursor /\ run'.plan.scope = run.plan.scope
        /\ run'.plan.band = run.plan.band
        /\ run'.page.listed = run.page.listed /\ run'.page.at = run.page.at
        /\ run'.page.vanished = run.page.vanished /\ run'.page.cursor = run.page.cursor
        /\ run'.page.checkpoint = run.page.checkpoint /\ run'.page.capped = run.page.capped
        /\ run'.page.kind \in {run.page.kind, "parked"}
        BY <2>1, <2>2, MergingSays
  <2>4. Paging'
        BY <2>1, <2>2, <2>3 DEF Paging
  <2>5. ASSUME NEW h \in Handles, ~Late(h)'
        PROVE  Truthful(h)' /\ (Sought(h)' => Complete(h)')
    <3>1. ~Late(h)
          BY <2>1, <2>3, <2>5 DEF Late
    <3>2. Truthful(h) /\ (Sought(h) => Complete(h))
          BY <2>1, <3>1 DEF Listing
    <3>3. Truthful(h)'
          BY <2>1, <2>3, <3>2 DEF Truthful
    <3> QED BY <2>1, <2>2, <2>3, <3>2, <3>3 DEF Sought, Complete, NamesNext
  <2> QED BY <2>4, <2>5 DEF Listing
<1>7. ASSUME NEW k \in Handles, Merge(k)
      PROVE  Listing' /\ Paging'
  <2>1. run \in Runs /\ run.state = "merging" /\ run.page \in Pages /\ run.plan \in Plans
        BY <1>1, <1>7, Tags DEF Merge, Shape, Runs
  <2>2. /\ UNCHANGED <<conn, live, mod>> /\ src' = Row
        /\ run' \in Runs /\ run'.state = "merging" /\ run'.wanted = run.wanted
        /\ run'.plan = run.plan /\ run'.page = run.page /\ run'.pushed = run.pushed
        BY <1>7, <2>1, MergeIs
  <2>3. /\ Row.checkpoint = src.checkpoint
        /\ ~run.opening => Row = src
        /\ run.opening => Row.round.checkpoint = 0 /\ Row.round.cursor.mod = 0
        BY <2>1, RowIs, Nones
  <2>4. run.page.kind = "deltaHead" => src' = src
        BY <2>1, <2>2, <2>3 DEF Shape, MergedShape, Merged
  <2>5. Paging'
        BY <2>1, <2>2, <2>4 DEF Paging
  <2>6. ASSUME NEW h \in Handles, ~Late(h)'
        PROVE  Truthful(h)' /\ (Sought(h)' => Complete(h)')
    <3>1. ~Late(h)
          BY <1>1, <2>2, <2>3, <2>6 DEF Late
    <3>2. Truthful(h) /\ (Sought(h) => Complete(h))
          BY <2>1, <3>1 DEF Listing
    <3>3. Truthful(h)'
          BY <2>2, <3>2 DEF Truthful
    <3>4. run.page.kind = "deltaHead" => AsOf' = AsOf
          BY <2>4 DEF AsOf
    <3> QED BY <2>2, <2>3, <3>2, <3>3, <3>4 DEF Sought, Complete, NamesSince, NamesNext
  <2> QED BY <2>5, <2>6 DEF Listing
<1>8. CASE Land
  <2>1. run \in Runs
        BY <1>1, <1>8, Tags DEF Land
  <2>2. run.page \in Pages
        BY <1>8, <2>1 DEF Land, Shape
  <2>3. run' \in Runs => run'.state = "enumerating"
        BY <1>1, <1>8, <2>1, <2>2, LandIs
  <2> QED BY <2>3 DEF Listing, Paging
<1>9. CASE UNCHANGED vars
  <2>1. Listing'
        BY <1>9 DEF vars, Listing, Late, Truthful, Sought, Complete, NamesSince, NamesNext, AsOf
  <2>2. Paging'
        BY <1>9 DEF vars, Paging
  <2> QED BY <2>1, <2>2
<1> QED BY <1>2, <1>3, <1>4, <1>5, <1>6, <1>7, <1>8, <1>9, StepKinds

-----------------------------------------------------------------------------
(* What the open round has settled.                                        *)

(* The change the open round is as of, and what changed since.             *)
LEMMA AsOfIs ==
    ASSUME TypeOK, Timed, src.round.open
    PROVE  /\ AsOf \in Nat /\ AsOf <= clock
           /\ src.round.cursor # NoCursor \/ src.round.band => src.checkpoint <= AsOf
           /\ \A h \in Handles : mod[h] <= AsOf => ~Late(h)
<1>1. /\ clock \in Nat /\ src.checkpoint \in Nat /\ src.round.checkpoint \in Nat
      /\ src.round.cursor.mod \in Nat
      /\ \A h \in Handles : mod[h] \in Nat
      BY DEF TypeOK, SourceRows, RoundRows, Cursors
<1>2. /\ src.checkpoint <= clock /\ src.round.checkpoint <= clock /\ src.round.cursor.mod <= clock
      /\ src.round.checkpoint # 0 => src.checkpoint <= src.round.checkpoint
      /\ src.round.cursor # NoCursor => src.checkpoint <= src.round.cursor.mod
      BY DEF Timed, Times, Later, Placed
<1> QED BY <1>1, <1>2 DEF AsOf, Late

(* A member just merged is held as the server has it, when it has not      *)
(* changed since what the source's row is as of.                           *)
LEMMA MergedAgrees ==
    ASSUME TypeOK, Shape, Timed, Planned, Listing, Absents, run \in Runs,
           NEW h \in Handles, Merge(h), Sought(h),
           mod[h] <= src.checkpoint \/ (src.round.open /\ mod[h] <= AsOf)
    PROVE  Agrees(h)' /\ ~Late(h) /\ (h \in live => h \notin run.dropped)
<1>1. run.state = "merging" /\ run.page \in Pages /\ h \in run.todo
      BY DEF Merge, Shape
<1>2. /\ UNCHANGED <<live, mod>>
      /\ held'[h] = IF h \in run.dropped THEN 0 ELSE run.page.at[h]
      BY <1>1, MergeIs
<1>3. mod[h] \in Nat /\ src.checkpoint \in Nat
      BY DEF TypeOK, SourceRows
<1>4. ~Late(h)
  <2>1. CASE mod[h] <= src.checkpoint
        BY <1>3, <2>1 DEF Late
  <2>2. CASE src.round.open /\ mod[h] <= AsOf
        BY <2>2, AsOfIs
  <2> QED BY <2>1, <2>2
<1>5. Truthful(h)
      BY <1>1, <1>4 DEF Listing
<1>6. CASE h \in run.dropped
  <2>1. h \notin live
    <3>1. CASE h \in run.page.vanished
          BY <1>5, <3>1 DEF Truthful
    <3>2. CASE h \in run.absent
      <4>1. run.page.kind = "last"
            BY <1>1, <3>2 DEF Shape, MergedShape, Merged
      <4>2. AbsentsOff
            BY <1>1, <4>1 DEF Absents, Merged
      <4>3. src.round.open => AsOf \in Nat
            BY AsOfIs
      <4> QED BY <1>3, <3>2, <4>2, <4>3 DEF AbsentsOff
    <3> QED BY <1>1, <1>6, <3>1, <3>2 DEF Planned, DropsPlanned, Merged
  <2> QED BY <1>2, <1>4, <1>6, <2>1 DEF Agrees
<1>7. CASE h \notin run.dropped
  <2>1. h \in run.page.listed
        BY <1>1, <1>7 DEF Timed, MergesPage, Merged
  <2> QED BY <1>2, <1>4, <1>5, <1>7, <2>1 DEF Truthful, Agrees
<1> QED BY <1>6, <1>7

(* A page's last write finds the page merged.                              *)
LEMMA LandMerged ==
    ASSUME TypeOK, Shape, Timed, Planned, run \in Runs, Land
    PROVE  /\ run.page \in Pages /\ run.plan \in Plans /\ Merged
           /\ PlanShape /\ MergedShape
           /\ CoveragePlanned /\ HeadPlanned /\ DropsPlanned
           /\ \A h \in run.page.listed : held[h] = run.page.at[h] /\ h \notin run.dropped
           /\ \A h \in run.dropped : held[h] = 0
           /\ run.page.vanished \subseteq run.dropped
           /\ run.page.kind \notin {"delta", "last"} => run.pushed = {}
<1>1. run.state \in {"merging", "landing"}
      BY DEF Land
<1>2. run.page \in Pages /\ run.plan \in Plans /\ PlanShape /\ MergedShape
      BY <1>1 DEF Shape, Runs
<1>3. run.todo = {}
      BY <1>1, <1>2 DEF Land, MergedShape
<1> QED BY <1>1, <1>2, <1>3 DEF Merged, MergedShape, Timed, MergesPage, Planned

(* The round a page's last write leaves open is its plan's.                *)
LEMMA RowOfPlan ==
    ASSUME TypeOK, Shape, Timed, Planned, run \in Runs, Land,
           run.page.kind \in {"partial", "parked", "deltaHead", "bandHead", "last"}
    PROVE  /\ run.plan.kind = "round"
           /\ Row.round.open /\ Row.round.band = run.plan.band
           /\ run.page.kind # "parked" =>
                Row.round.scope = run.plan.scope /\ Row.round.cursor = run.plan.cursor
           /\ run.page.kind = "parked" => Row.round.cursor = NoCursor
           /\ run.page.kind \in {"deltaHead", "bandHead"} => ~run.opening
           /\ run.page.kind # "parked" /\ run.plan.cursor # NoCursor => ~run.opening
<1>1. /\ run.page \in Pages /\ run.plan \in Plans /\ Merged
      /\ PlanShape /\ MergedShape /\ DropsPlanned
      BY LandMerged
<1>2. run.plan.kind = "round" /\ ~run.plan.opens
      BY <1>1 DEF MergedShape, Plans
<1>3. CASE run.opening
  <2>1. /\ Row.round.open = TRUE /\ Row.round.scope = run.plan.scope
        /\ Row.round.band = run.plan.band /\ Row.round.cursor = NoCursor
        BY <1>3, RowIs
  <2> QED BY <1>1, <1>2, <1>3, <2>1 DEF MergedShape
<1>4. CASE ~run.opening
  <2>1. Row = src
        BY <1>4, RowIs
  <2>2. run.page.kind # "parked" => Matches(src.round, run.plan)
        BY <1>1, <1>2, <1>4 DEF PlanShape
  <2> QED BY <1>1, <1>2, <1>4, <2>1, <2>2 DEF Matches, DropsPlanned
<1> QED BY <1>3, <1>4

(* A member of the coverage when a round opens over a band beside it.      *)
LEMMA BandOpens ==
    ASSUME TypeOK, CoverageServed, Sighted, ~park.coverage, src.coverage # NoScope,
           NEW h \in Handles, Sought(h), Contains(src.coverage, Date[h]), mod[h] <= src.checkpoint
    PROVE  Agrees(h)
BY DEF CoverageServed, Promised, Sighted, Sought

(* A page before the last: what it listed joins what the round settled.    *)
LEMMA PartialSettles ==
    ASSUME TypeOK, Shape, Timed, Planned, Sighted, Listing, Paging, Settling, CoverageServed,
           run \in Runs, Land, run.page.kind = "partial"
    PROVE  Settling'
<1>1. /\ run.page \in Pages /\ run.plan \in Plans /\ Merged /\ run.state # "enumerating"
      /\ CoveragePlanned
      /\ \A h \in run.page.listed : held[h] = run.page.at[h] /\ h \notin run.dropped
      /\ run.pushed = {}
      BY LandMerged DEF Merged
<1>2. /\ run.plan.kind = "round" /\ Row.round.open /\ Row.round.band = run.plan.band
      /\ Row.round.scope = run.plan.scope /\ Row.round.cursor = run.plan.cursor
      /\ run.plan.cursor # NoCursor => ~run.opening
      BY RowOfPlan
<1>3. /\ UNCHANGED <<conn, live, mod>> /\ src' = Tail(Row)
      /\ stamp' = Stamps \cup (Stamped(run.page) \ run.dropped)
      /\ \A h \in Handles : held'[h] = held[h]
      /\ park'.coverage = park.coverage /\ park'.round = (park.round /\ ~run.opening)
      BY <1>1, LandIs
<1>4. /\ Row \in SourceRows /\ Row.checkpoint = src.checkpoint /\ Row.coverage = src.coverage
      /\ ~run.opening => Row = src /\ Stamps = stamp
      /\ run.opening => Stamps = {} /\ Row.round.checkpoint = 0
      BY RowIs
<1> DEFINE fresh == IF run.plan.band THEN 0 ELSE run.page.checkpoint
<1>5. /\ src'.checkpoint = src.checkpoint /\ src'.coverage = src.coverage
      /\ src'.round.open /\ src'.round.scope = run.plan.scope /\ src'.round.band = run.plan.band
      /\ src'.round.cursor = run.page.cursor
      /\ src'.round.checkpoint = Coalesce(fresh, Row.round.checkpoint)
      BY <1>1, <1>2, <1>3, <1>4, TailIs
<1>6. /\ run.page.cursor # NoCursor
      /\ run.plan.cursor # NoCursor =>
           run.page.cursor.mod = run.plan.cursor.mod /\ run.page.checkpoint = 0
      /\ ~run.plan.band /\ run.plan.cursor = NoCursor => (conn.upfront <=> run.page.checkpoint # 0)
      BY <1>1 DEF Paging
<1>7. /\ AsOf' = IF src'.round.checkpoint # 0 THEN src'.round.checkpoint
                 ELSE IF run.plan.band THEN src.checkpoint ELSE run.page.cursor.mod
      /\ AsOf = IF src.round.checkpoint # 0 THEN src.round.checkpoint
                ELSE IF src.round.band THEN src.checkpoint ELSE src.round.cursor.mod
      BY <1>5 DEF AsOf
<1>8. run.plan.cursor # NoCursor => ~run.opening /\ AsOf' = AsOf
      BY <1>2, <1>4, <1>5, <1>6, <1>7 DEF Coalesce
<1>9. run.plan.band => AsOf' = IF run.opening THEN src.checkpoint ELSE AsOf
      BY <1>2, <1>4, <1>5, <1>7 DEF Coalesce
<1>10. /\ src.checkpoint \in Nat /\ src.round.checkpoint \in Nat /\ src.round.cursor.mod \in Nat
       /\ run.page.checkpoint \in Nat /\ run.page.cursor.mod \in Nat
       /\ run.plan.cursor.pos \in Nat
       BY <1>1 DEF TypeOK, SourceRows, RoundRows, Cursors, Pages, Plans
<1>11. ~run.opening => src.round.open
       BY <1>2, <1>4
<1>12. ASSUME NEW h \in Handles, mod[h] <= AsOf'
       PROVE  ~Late(h)
  <2>1. mod[h] \in Nat
        BY DEF TypeOK
  <2>2. \/ AsOf' = run.page.checkpoint \/ AsOf' = src.checkpoint \/ AsOf' = run.page.cursor.mod
        \/ ~run.opening /\ AsOf' = src.round.checkpoint
        BY <1>4, <1>5, <1>7 DEF Coalesce
  <2> QED BY <1>10, <1>11, <1>12, <2>1, <2>2 DEF Late
<1>13. ListedSettled'
  <2> SUFFICES ASSUME NEW h \in Handles, Sought(h), Contains(run.plan.scope, Date[h]),
                      mod[h] <= AsOf'
               PROVE  /\ h \in live /\ h <= run.page.cursor.pos => h \in stamp' /\ held[h] = mod[h]
                      /\ h \notin live /\ ~park'.round => h \notin stamp'
      BY <1>3, <1>5 DEF ListedSettled, Sought
  <2>1. ~Late(h) /\ h \in Nat /\ h >= 1
        BY <1>12, RoundsAssumption DEF Handles
  <2>2. Truthful(h) /\ NamesNext(h)
        BY <1>1, <2>1 DEF Listing, Complete
  <2>3. ASSUME h \in live, h <= run.page.cursor.pos
        PROVE  h \in stamp' /\ held[h] = mod[h]
    <3>1. CASE run.plan.cursor.pos < h
      <4>1. h \in run.page.listed
            BY <2>2, <2>3, <3>1 DEF NamesNext
      <4> QED BY <1>1, <1>3, <2>2, <4>1 DEF Truthful, Stamped
    <3>2. CASE ~(run.plan.cursor.pos < h)
      <4>1. h <= run.plan.cursor.pos /\ run.plan.cursor # NoCursor
            BY <1>10, <2>1, <3>2, Nones
      <4>2. Row = src /\ AsOf' = AsOf /\ Stamps = stamp
            BY <1>4, <1>8, <4>1
      <4>3. ListedSettled
            BY <1>2, <4>2 DEF Settling
      <4>4. h \in stamp /\ held[h] = mod[h]
            BY <1>2, <2>3, <4>1, <4>2, <4>3 DEF ListedSettled
      <4> QED BY <1>3, <4>2, <4>4
    <3> QED BY <3>1, <3>2
  <2>4. ASSUME h \notin live, ~park'.round
        PROVE  h \notin stamp'
    <3>1. h \notin run.page.listed
          BY <2>2, <2>4 DEF Truthful
    <3>2. h \notin Stamps
      <4>1. CASE run.opening
            BY <1>4, <4>1
      <4>2. CASE ~run.opening
        <5>1. Row = src /\ Stamps = stamp /\ ~park.round
              BY <1>3, <1>4, <2>4, <4>2
        <5>2. ListedSettled /\ RoundDated
              BY <1>2, <5>1 DEF Settling
        <5>3. CASE run.plan.cursor = NoCursor /\ ~run.plan.band
              BY <1>2, <5>1, <5>2, <5>3 DEF RoundDated
        <5>4. CASE run.plan.cursor # NoCursor \/ run.plan.band
          <6>1. AsOf' = AsOf
                BY <1>8, <1>9, <4>2, <5>4
          <6> QED BY <1>2, <2>4, <5>1, <5>2, <6>1 DEF ListedSettled
        <5> QED BY <5>3, <5>4
      <4> QED BY <4>1, <4>2
    <3> QED BY <1>3, <3>1, <3>2 DEF Stamped
  <2> QED BY <2>3, <2>4
<1>14. CoverageSettled'
  <2> SUFFICES ASSUME run.plan.band, ~park.coverage, NEW h \in Handles, Sought(h),
                      Contains(src.coverage, Date[h]), mod[h] <= AsOf'
               PROVE  Agrees(h)
      BY <1>3, <1>5 DEF CoverageSettled, Sought, Agrees
  <2>1. CASE run.opening
    <3>1. mod[h] <= src.checkpoint
          BY <1>9, <2>1
    <3> QED BY <1>1, <1>2, <3>1, BandOpens DEF CoveragePlanned
  <2>2. CASE ~run.opening
    <3>1. Row = src /\ AsOf' = AsOf
          BY <1>4, <1>9, <2>2
    <3> QED BY <1>2, <3>1 DEF Settling, CoverageSettled
  <2> QED BY <2>1, <2>2
<1>15. RoundDated'
  <2> SUFFICES ASSUME ~run.plan.band
               PROVE  /\ conn.upfront => src'.round.checkpoint # 0
                      /\ ~conn.upfront /\ ~park'.round => src'.round.checkpoint = 0
      BY <1>3, <1>5, <1>6 DEF RoundDated
  <2>1. ~run.opening => RoundDated /\ Row = src
        BY <1>4, <1>11 DEF Settling
  <2>2. ASSUME conn.upfront
        PROVE  src'.round.checkpoint # 0
    <3>1. CASE run.plan.cursor = NoCursor
          BY <1>5, <1>6, <2>2, <3>1 DEF Coalesce
    <3>2. CASE run.plan.cursor # NoCursor
      <4>1. src.round.checkpoint # 0
            BY <1>2, <2>1, <2>2, <3>2 DEF RoundDated
      <4> QED BY <1>2, <1>5, <1>6, <2>1, <3>2, <4>1 DEF Coalesce
    <3> QED BY <3>1, <3>2
  <2>3. ASSUME ~conn.upfront, ~park'.round
        PROVE  src'.round.checkpoint = 0
    <3>1. run.page.checkpoint = 0
          BY <1>6, <2>3
    <3>2. Row.round.checkpoint = 0
          BY <1>2, <1>3, <1>4, <2>1, <2>3 DEF RoundDated
    <3> QED BY <1>5, <3>1, <3>2 DEF Coalesce
  <2> QED BY <2>2, <2>3
<1> QED BY <1>13, <1>14, <1>15 DEF Settling

(* What is in the scope of a plan, or in the coverage a band is beside, is *)
(* in the scope the run asks for.                                          *)
LEMMA PlanInWanted ==
    ASSUME OpenScopes, TypeOK, Planned, run \in Runs, run.plan.kind = "round", NEW h \in Handles
    PROVE  /\ Contains(run.plan.scope, Date[h]) => Contains(run.wanted, Date[h])
           /\ run.plan.band /\ Contains(src.coverage, Date[h]) => Contains(run.wanted, Date[h])
           /\ Contains(run.plan.span, Date[h]) =>
                \/ Contains(run.plan.scope, Date[h])
                \/ run.plan.band /\ Contains(src.coverage, Date[h])
<1>1. run.wanted \in Scope /\ run.wanted.until = Forever
      BY RoundsAssumption DEF Runs, OpenScopes
<1>2. Date[h] \in Nat /\ Date[h] < Forever /\ Forever \in Nat
      BY RoundsAssumption, ForeverAssumption
<1>3. CASE ~run.plan.band
      BY <1>3 DEF Planned, CoveragePlanned
<1>4. CASE run.plan.band
  <2>1. /\ src.coverage # NoScope /\ run.wanted.since < src.coverage.since
        /\ run.plan.scope.since = run.wanted.since
        /\ run.plan.scope.until = src.coverage.since
        /\ run.plan.span.since = run.wanted.since /\ run.plan.span.until = Forever
        /\ src.coverage.until = Forever
        BY <1>4 DEF Planned, CoveragePlanned
  <2>2. src.coverage \in Scope
        BY <2>1 DEF TypeOK, SourceRows, Ranges
  <2>3. run.wanted.since \in Nat /\ src.coverage.since \in Nat
        BY <1>1, <2>2, ForeverAssumption DEF Scope
  <2> QED BY <1>1, <1>2, <1>4, <2>1, <2>3 DEF Contains
<1> QED BY <1>3, <1>4

(* A delta head: the round is as of the head, what it names being settled. *)
LEMMA HeadSettles ==
    ASSUME OpenScopes, TypeOK, Shape, Timed, Planned, Listing, Paging, Settling,
           run \in Runs, Land, run.page.kind = "deltaHead"
    PROVE  Settling'
<1>1. /\ run.page \in Pages /\ run.plan \in Plans /\ Merged /\ run.state # "enumerating"
      /\ \A h \in run.page.listed : held[h] = run.page.at[h] /\ h \notin run.dropped
      /\ \A h \in run.dropped : held[h] = 0
      /\ run.page.vanished \subseteq run.dropped /\ run.pushed = {}
      BY LandMerged DEF Merged
<1>2. /\ run.plan.kind = "round" /\ Row.round.open /\ Row.round.band = run.plan.band
      /\ Row.round.scope = run.plan.scope /\ ~run.opening
      BY RowOfPlan
<1>3. /\ Row = src /\ Stamps = stamp /\ src \in SourceRows
      BY <1>2, RowIs DEF TypeOK
<1>4. /\ UNCHANGED <<conn, live, mod>> /\ src' = Tail(src)
      /\ stamp' = stamp \cup (Stamped(run.page) \ run.dropped)
      /\ \A h \in Handles : held'[h] = held[h]
      /\ park'.coverage = park.coverage /\ park'.round = park.round
  <2>1. park.round \in BOOLEAN
        BY DEF TypeOK
  <2> QED BY <1>1, <1>2, <1>3, <2>1, LandIs
<1>5. /\ src'.coverage = src.coverage /\ src'.round.open
      /\ src'.round.scope = src.round.scope /\ src'.round.band = src.round.band
      /\ src'.round.cursor = src.round.cursor
      /\ src'.round.checkpoint = run.page.checkpoint
      BY <1>1, <1>2, <1>3, <1>4, TailIs
<1>6. /\ run.page.checkpoint # 0 /\ run.page.checkpoint \in Nat
      /\ ~src.round.band => src.round.checkpoint # 0
      BY <1>1 DEF Paging, Pages
<1>7. AsOf' = run.page.checkpoint
      BY <1>5, <1>6 DEF AsOf
<1>8. ListedSettled /\ CoverageSettled /\ RoundDated
      BY <1>2, <1>3 DEF Settling
<1>9. AsOf \in Nat
      BY <1>2, <1>3, AsOfIs
<1>10. ASSUME NEW h \in Handles, Sought(h), mod[h] <= run.page.checkpoint, ~(mod[h] <= AsOf)
       PROVE  /\ h \in live /\ Contains(run.wanted, Date[h]) =>
                   h \in run.page.listed /\ held[h] = mod[h]
              /\ h \notin live => held[h] = 0 /\ h \notin stamp
  <2>1. mod[h] \in Nat
        BY DEF TypeOK
  <2>2. ~Late(h) /\ mod[h] > AsOf
        BY <1>6, <1>9, <1>10, <2>1 DEF Late
  <2>3. Truthful(h) /\ NamesSince(h, AsOf)
        BY <1>1, <1>10, <2>2 DEF Listing, Complete
  <2>4. h \in stamp => held[h] # 0
        BY DEF Timed, StampsBound
  <2> QED BY <1>1, <2>2, <2>3, <2>4 DEF Truthful, NamesSince
<1>11. ASSUME NEW h \in Handles, mod[h] <= run.page.checkpoint
       PROVE  h \in run.page.listed => h \in live
  <2>1. mod[h] \in Nat
        BY DEF TypeOK
  <2>2. ~Late(h)
        BY <1>6, <1>11, <2>1 DEF Late
  <2> QED BY <1>1, <2>2 DEF Listing, Truthful
<1>12. ListedSettled'
  <2> SUFFICES ASSUME NEW h \in Handles, Sought(h), Contains(src.round.scope, Date[h]),
                      mod[h] <= run.page.checkpoint
               PROVE  /\ h \in live /\ h <= src.round.cursor.pos => h \in stamp' /\ held[h] = mod[h]
                      /\ h \notin live /\ ~park.round => h \notin stamp'
      BY <1>4, <1>5, <1>7 DEF ListedSettled, Sought
  <2>1. Contains(run.wanted, Date[h])
        BY <1>2, <1>3, PlanInWanted
  <2>2. CASE mod[h] <= AsOf
    <3>1. /\ h \in live /\ h <= src.round.cursor.pos => h \in stamp /\ held[h] = mod[h]
          /\ h \notin live /\ ~park.round => h \notin stamp
          BY <1>8, <2>2 DEF ListedSettled
    <3> QED BY <1>4, <1>11, <3>1 DEF Stamped
  <2>3. CASE ~(mod[h] <= AsOf)
    <3>1. /\ h \in live => h \in run.page.listed /\ held[h] = mod[h]
          /\ h \notin live => h \notin stamp
          BY <1>10, <2>1, <2>3
    <3> QED BY <1>1, <1>4, <1>11, <3>1 DEF Stamped
  <2> QED BY <2>2, <2>3
<1>13. CoverageSettled'
  <2> SUFFICES ASSUME src.round.band, ~park.coverage, NEW h \in Handles, Sought(h),
                      Contains(src.coverage, Date[h]), mod[h] <= run.page.checkpoint
               PROVE  Agrees(h)
      BY <1>4, <1>5, <1>7 DEF CoverageSettled, Sought, Agrees
  <2>1. Contains(run.wanted, Date[h])
        BY <1>2, <1>3, PlanInWanted
  <2>2. CASE mod[h] <= AsOf
        BY <1>8, <2>2 DEF CoverageSettled
  <2>3. CASE ~(mod[h] <= AsOf)
        BY <1>10, <2>1, <2>3 DEF Agrees
  <2> QED BY <2>2, <2>3
<1>14. RoundDated'
       BY <1>4, <1>5, <1>6, <1>8 DEF RoundDated
<1> QED BY <1>12, <1>13, <1>14 DEF Settling

(* A parked round begins again where it opened, its stamps voided by a new *)
(* id or listed from the first page.                                       *)
LEMMA ParkedSettles ==
    ASSUME TypeOK, Shape, Timed, Planned, Sighted, Settling, CoverageServed,
           run \in Runs, Land, run.page.kind = "parked"
    PROVE  Settling'
<1>1. /\ run.page \in Pages /\ run.plan \in Plans /\ CoveragePlanned /\ run.pushed = {}
      BY LandMerged
<1>2. /\ run.plan.kind = "round" /\ Row.round.open /\ Row.round.band = run.plan.band
      /\ Row.round.cursor = NoCursor
      BY RowOfPlan
<1>3. /\ Row \in SourceRows /\ Row.checkpoint = src.checkpoint /\ Row.coverage = src.coverage
      /\ ~run.opening => Row = src
      /\ run.opening => Row.round.checkpoint = 0
      BY RowIs
<1>4. /\ UNCHANGED <<conn, live, mod>> /\ src' = Tail(Row)
      /\ \A h \in Handles : held'[h] = held[h]
      /\ park'.coverage = park.coverage /\ park'.round = TRUE
      BY <1>1, LandIs
<1>5. /\ src'.checkpoint = src.checkpoint /\ src'.coverage = src.coverage
      /\ src'.round.open /\ src'.round.band = run.plan.band /\ src'.round.cursor = NoCursor
      /\ run.plan.band => src'.round.checkpoint = Row.round.checkpoint
      BY <1>1, <1>2, <1>3, <1>4, TailIs
<1>6. ListedSettled'
  <2>1. \A h \in Handles : ~(h <= 0)
        BY RoundsAssumption DEF Handles
  <2> QED BY <1>4, <1>5, <2>1, Nones DEF ListedSettled
<1>7. CoverageSettled'
  <2> SUFFICES ASSUME run.plan.band, ~park.coverage, NEW h \in Handles, Sought(h),
                      Contains(src.coverage, Date[h]), mod[h] <= AsOf'
               PROVE  Agrees(h)
      BY <1>4, <1>5 DEF CoverageSettled, Sought, Agrees
  <2>1. CASE run.opening
    <3>1. AsOf' = src.checkpoint
          BY <1>3, <1>5, <2>1 DEF AsOf
    <3> QED BY <1>1, <1>2, <3>1, BandOpens DEF CoveragePlanned
  <2>2. CASE ~run.opening
    <3>1. Row = src /\ AsOf' = AsOf
          BY <1>2, <1>3, <1>5, <2>2 DEF AsOf
    <3> QED BY <1>2, <3>1 DEF Settling, CoverageSettled
  <2> QED BY <2>1, <2>2
<1>8. RoundDated'
      BY <1>4, <1>5 DEF RoundDated
<1> QED BY <1>6, <1>7, <1>8 DEF Settling

(* Merging a member keeps what the round settled, and opens it over what   *)
(* the coverage serves.                                                    *)
LEMMA MergeSettles ==
    ASSUME TypeOK, Shape, Timed, Planned, Sighted, Listing, Settling, Absents, CoverageServed,
           run \in Runs, NEW k \in Handles, Merge(k)
    PROVE  Settling'
<1>1. run.state = "merging" /\ run.page \in Pages /\ run.plan \in Plans /\ MergedShape
      BY DEF Merge, Shape, Runs
<1>2. /\ UNCHANGED <<conn, live, mod>> /\ src' = Row
      /\ held'[k] = IF k \in run.dropped THEN 0 ELSE run.page.at[k]
      /\ \A h \in Handles : h # k => held'[h] = held[h]
      /\ stamp' = IF k \in run.dropped THEN Stamps \ {k} ELSE Stamps
      /\ park'.round = (park.round /\ ~run.opening) /\ park'.coverage = park.coverage
      BY <1>1, MergeIs
<1>3. \A h \in Handles : Sought(h)' <=> Sought(h)
      BY <1>2 DEF Sought
<1>4. CASE run.opening
  <2>1. /\ Row.checkpoint = src.checkpoint /\ Row.coverage = src.coverage /\ Stamps = {}
        /\ Row.round.band = run.plan.band /\ Row.round.cursor = NoCursor
        /\ Row.round.checkpoint = 0
        BY <1>4, RowIs
  <2>2. stamp' = {}
        BY <1>2, <2>1
  <2>3. ListedSettled'
    <3>1. \A h \in Handles : ~(h <= 0)
          BY RoundsAssumption DEF Handles
    <3> QED BY <1>2, <2>1, <2>2, <3>1, Nones DEF ListedSettled
  <2>4. CoverageSettled'
    <3> SUFFICES ASSUME run.plan.band, ~park.coverage, NEW h \in Handles, Sought(h),
                        Contains(src.coverage, Date[h]), mod[h] <= AsOf'
                 PROVE  Agrees(h)'
        BY <1>2, <1>3, <2>1 DEF CoverageSettled
    <3>1. mod[h] <= src.checkpoint
          BY <1>2, <2>1 DEF AsOf
    <3>2. CASE h = k
          BY <3>1, <3>2, MergedAgrees
    <3>3. CASE h # k
      <4>1. run.plan.kind = "round"
            BY <1>1, <1>4 DEF MergedShape, Merged, Plans
      <4>2. Agrees(h)
            BY <3>1, <4>1, BandOpens DEF Planned, CoveragePlanned
      <4> QED BY <1>2, <3>3, <4>2 DEF Agrees
    <3> QED BY <3>2, <3>3
  <2>5. RoundDated'
        BY <1>2, <2>1, <2>2 DEF RoundDated
  <2> QED BY <2>3, <2>4, <2>5 DEF Settling
<1>5. CASE ~run.opening
  <2>1. src' = src /\ Stamps = stamp /\ AsOf' = AsOf
        BY <1>2, <1>5, RowIs DEF AsOf
  <2> SUFFICES ASSUME src.round.open
               PROVE  ListedSettled' /\ CoverageSettled' /\ RoundDated'
      BY <2>1 DEF Settling
  <2>2. ListedSettled /\ CoverageSettled /\ RoundDated
        BY DEF Settling
  <2>3. stamp' \subseteq stamp /\ park'.round = park.round
    <3>1. park.round \in BOOLEAN
          BY DEF TypeOK
    <3> QED BY <1>2, <1>5, <2>1, <3>1
  <2>4. ListedSettled'
    <3> SUFFICES ASSUME NEW h \in Handles, Sought(h), Contains(src.round.scope, Date[h]),
                        mod[h] <= AsOf
                 PROVE  /\ h \in live /\ h <= src.round.cursor.pos => h \in stamp' /\ held'[h] = mod[h]
                        /\ h \notin live /\ ~park.round => h \notin stamp'
        BY <1>2, <1>3, <2>1, <2>3 DEF ListedSettled
    <3>1. /\ h \in live /\ h <= src.round.cursor.pos => h \in stamp /\ held[h] = mod[h]
          /\ h \notin live /\ ~park.round => h \notin stamp
          BY <2>2 DEF ListedSettled
    <3>2. CASE h = k
      <4>1. Agrees(h)' /\ (h \in live => h \notin run.dropped)
            BY <3>2, MergedAgrees
      <4> QED BY <1>2, <2>1, <2>3, <3>1, <3>2, <4>1 DEF Agrees
    <3>3. CASE h # k
          BY <1>2, <2>1, <2>3, <3>1, <3>3
    <3> QED BY <3>2, <3>3
  <2>5. CoverageSettled'
    <3> SUFFICES ASSUME src.round.band, ~park.coverage, NEW h \in Handles, Sought(h),
                        Contains(src.coverage, Date[h]), mod[h] <= AsOf
                 PROVE  Agrees(h)'
        BY <1>2, <1>3, <2>1 DEF CoverageSettled
    <3>1. CASE h = k
          BY <3>1, MergedAgrees
    <3>2. CASE h # k
      <4>1. Agrees(h)
            BY <2>2 DEF CoverageSettled
      <4> QED BY <1>2, <3>2, <4>1 DEF Agrees
    <3> QED BY <3>1, <3>2
  <2>6. RoundDated'
        BY <1>2, <2>1, <2>2, <2>3 DEF RoundDated
  <2> QED BY <2>4, <2>5, <2>6
<1> QED BY <1>4, <1>5

(* Every step keeps what the open round settled.                           *)
LEMMA SettlingStep ==
    ASSUME OpenScopes, TypeOK, Shape, Timed, Planned, Sighted, Listing, Paging, Settling, Absents,
           CoverageServed, [Next]_vars
    PROVE  Settling'
<1>1. /\ run \in Runs \cup {NoRun} /\ NoRun \notin Runs
      BY Tags DEF TypeOK
<1>2. ASSUME UNCHANGED <<conn, live, mod, clock, held, stamp, src, park>>
      PROVE  Settling'
      BY <1>2 DEF Settling, ListedSettled, CoverageSettled, RoundDated, AsOf, Sought, Agrees
<1>3. ASSUME NEW k \in Handles, ChangeAt(k)
      PROVE  Settling'
  <2>1. /\ UNCHANGED <<conn, held, stamp, src, park>> /\ mod'[k] = clock + 1
        /\ \A h \in Handles : h # k => mod'[h] = mod[h] /\ (h \in live' <=> h \in live)
        BY <1>3 DEF ChangeAt
  <2>2. AsOf' = AsOf
        BY <2>1 DEF AsOf
  <2> SUFFICES ASSUME src.round.open
               PROVE  ListedSettled' /\ CoverageSettled' /\ RoundDated'
      BY <2>1 DEF Settling
  <2>3. clock \in Nat /\ AsOf \in Nat /\ AsOf <= clock
        BY AsOfIs DEF TypeOK
  <2>4. ~(mod'[k] <= AsOf)
        BY <2>1, <2>3
  <2>5. \A h \in Handles : mod'[h] <= AsOf =>
          /\ h # k /\ mod'[h] = mod[h] /\ (h \in live' <=> h \in live)
          /\ Sought(h)' => Sought(h)
        BY <2>1, <2>4 DEF Sought
  <2>6. ListedSettled /\ CoverageSettled /\ RoundDated
        BY DEF Settling
  <2>7. ListedSettled'
        BY <2>1, <2>2, <2>5, <2>6 DEF ListedSettled
  <2>8. CoverageSettled'
        BY <2>1, <2>2, <2>5, <2>6 DEF CoverageSettled, Agrees
  <2>9. RoundDated'
        BY <2>1, <2>6 DEF RoundDated
  <2> QED BY <2>7, <2>8, <2>9
<1>4. CASE Answers
  <2>1. /\ run \in Runs
        /\ \E plan \in Plans, page \in Pages : Takes(plan, page)
        BY <1>1, <1>4, AnswerIs
  <2>2. UNCHANGED <<conn, live, mod, clock, held, stamp, src, park>>
        BY <2>1, TakesIs
  <2> QED BY <1>2, <2>2
<1>5. CASE OpenNarrowed
  <2>1. run \in Runs /\ run.state = "opening" /\ run.plan \in Plans /\ run.plan.kind = "round"
        BY <1>1, <1>5, Tags DEF OpenNarrowed, Runs, Shape, PlanShape, Plans
  <2>2. /\ UNCHANGED <<conn, live, mod, held>> /\ src' = Opened(src, run.plan)
        /\ stamp' = {} /\ park'.coverage = park.coverage
        BY <1>5, <2>1, OpenNarrowedIs
  <2>3. /\ src'.checkpoint = src.checkpoint /\ src'.coverage = src.coverage
        /\ src'.round.band = run.plan.band /\ src'.round.cursor = NoCursor
        /\ src'.round.checkpoint = 0
        BY <2>1, <2>2, OpenedIs
  <2>4. ListedSettled'
    <3>1. \A h \in Handles : ~(h <= 0)
          BY RoundsAssumption DEF Handles
    <3> QED BY <2>2, <2>3, <3>1, Nones DEF ListedSettled
  <2>5. CoverageSettled'
    <3> SUFFICES ASSUME run.plan.band, ~park.coverage, NEW h \in Handles, Sought(h),
                        Contains(src.coverage, Date[h]), mod[h] <= AsOf'
                 PROVE  Agrees(h)
        BY <2>2, <2>3 DEF CoverageSettled, Sought, Agrees
    <3>1. AsOf' = src.checkpoint
          BY <2>3 DEF AsOf
    <3> QED BY <2>1, <3>1, BandOpens DEF Planned, CoveragePlanned
  <2>6. RoundDated'
        BY <2>2, <2>3 DEF RoundDated
  <2> QED BY <2>4, <2>5, <2>6 DEF Settling
<1>6. CASE OpenMerge
      BY <1>2, <1>6 DEF OpenMerge, server, store, history
<1>7. ASSUME NEW k \in Handles, Merge(k)
      PROVE  Settling'
  <2>1. run \in Runs
        BY <1>1, <1>7, Tags DEF Merge
  <2> QED BY <1>7, <2>1, MergeSettles
<1>8. CASE Land
  <2>1. run \in Runs
        BY <1>1, <1>8, Tags DEF Land
  <2>2. run.page \in Pages /\ run.plan \in Plans /\ PlanShape /\ MergedShape /\ Merged
        BY <1>8, <2>1, LandMerged
  <2>3. /\ UNCHANGED <<conn, live, mod, clock>> /\ src' = Tail(Row)
        /\ stamp' = Stamps \cup (Stamped(run.page) \ run.dropped)
        /\ held' \in [Handles -> Nat]
        /\ \A h \in Handles : held'[h] = IF h \in run.pushed THEN mod[h] ELSE held[h]
        /\ run.page.kind # "last" => park'.coverage = park.coverage
        /\ run.page.kind \notin {"last", "parked"} => park'.round = (park.round /\ ~run.opening)
        /\ park' \in [round : BOOLEAN, coverage : BOOLEAN]
        BY <1>8, <2>1, <2>2, LandIs
  <2>4. /\ Row \in SourceRows /\ (~run.opening => Row = src /\ Stamps = stamp)
        BY <2>1, RowIs
  <2>5. CASE run.page.kind = "last"
    <3>1. src'.round = NoRound
          BY <2>1, <2>2, <2>3, <2>4, <2>5, TailIs
    <3> QED BY <3>1, Nones DEF Settling
  <2>6. CASE run.page.kind = "delta"
    <3>1. run.plan.kind = "delta" /\ ~run.opening /\ ~src.round.open
          BY <2>2, <2>6 DEF PlanShape, MergedShape
    <3>2. src'.round = src.round
          BY <2>1, <2>2, <2>3, <2>4, <2>6, <3>1, TailIs
    <3> QED BY <3>1, <3>2 DEF Settling
  <2>7. CASE run.page.kind = "bandHead"
    <3>1. ~run.opening /\ run.pushed = {}
          BY <1>8, <2>1, <2>7, RowOfPlan, LandMerged
    <3>2. src' = src
          BY <2>1, <2>2, <2>3, <2>4, <2>7, <3>1, TailIs
    <3>3. stamp' = stamp
          BY <2>3, <2>4, <2>7, <3>1 DEF Stamped
    <3>4. held' = held
      <4>1. held \in [Handles -> Nat]
            BY DEF TypeOK
      <4> QED BY <2>3, <3>1, <4>1
    <3>5. park' = park
      <4>1. park \in [round : BOOLEAN, coverage : BOOLEAN]
            BY DEF TypeOK
      <4> QED BY <2>3, <2>7, <3>1, <4>1
    <3> QED BY <1>2, <2>3, <3>2, <3>3, <3>4, <3>5
  <2>8. CASE run.page.kind = "partial"
        BY <1>8, <2>1, <2>8, PartialSettles
  <2>9. CASE run.page.kind = "deltaHead"
        BY <1>8, <2>1, <2>9, HeadSettles
  <2>10. CASE run.page.kind = "parked"
        BY <1>8, <2>1, <2>10, ParkedSettles
  <2> QED BY <2>2, <2>5, <2>6, <2>7, <2>8, <2>9, <2>10 DEF Pages
<1> QED BY <1>2, <1>3, <1>4, <1>5, <1>6, <1>7, <1>8, StepKinds DEF Quiet, vars

-----------------------------------------------------------------------------
(* What the last page finds absent.                                        *)

(* The checkpoint a round closes at is one its page is as of, and the one  *)
(* the round is, past its first page and over a band.                      *)
ClosesAt ==
    run \in Runs /\ Merged /\ run.page.kind = "last" =>
      /\ Closing \in Nat /\ Closing <= clock
      /\ \A h \in Handles : mod[h] <= Closing => ~Late(h)
      /\ ~run.opening => Matches(src.round, run.plan)
      /\ run.plan.cursor # NoCursor => ~run.opening
      /\ run.plan.band => Closing = IF run.opening THEN src.checkpoint ELSE AsOf
      /\ run.plan.cursor # NoCursor /\ ~park.round => Closing = AsOf

(* Where the last page of a round is merged, the round closes at a date    *)
(* behind which nothing is late.                                           *)
LEMMA Closes == TypeOK /\ Shape /\ Timed /\ Paging /\ Settling => ClosesAt
<1> SUFFICES ASSUME TypeOK, Shape, Timed, Paging, Settling,
                    run \in Runs, Merged, run.page.kind = "last"
             PROVE  /\ Closing \in Nat /\ Closing <= clock
                    /\ \A h \in Handles : mod[h] <= Closing => ~Late(h)
                    /\ ~run.opening => Matches(src.round, run.plan)
                    /\ run.plan.cursor # NoCursor => ~run.opening
                    /\ run.plan.band => Closing = IF run.opening THEN src.checkpoint ELSE AsOf
                    /\ run.plan.cursor # NoCursor /\ ~park.round => Closing = AsOf
    BY DEF ClosesAt
<1>1. /\ run.state # "enumerating" /\ run.page \in Pages /\ run.plan \in Plans
      /\ PlanShape /\ MergedShape
      BY DEF Merged, Shape, Runs
<1>2. /\ run.plan.kind = "round" /\ ~run.plan.opens
      /\ run.opening => run.plan.cursor = NoCursor
      BY <1>1 DEF MergedShape, Plans
<1>3. ~run.opening => Matches(src.round, run.plan)
      BY <1>1, <1>2 DEF PlanShape
<1>4. /\ clock \in Nat /\ src.checkpoint \in Nat /\ src.round.checkpoint \in Nat
      /\ src.round.cursor.mod \in Nat /\ run.page.checkpoint \in Nat
      /\ \A h \in Handles : mod[h] \in Nat
      BY <1>1 DEF TypeOK, SourceRows, RoundRows, Cursors, Pages
<1>5. /\ src.checkpoint <= clock /\ run.page.checkpoint <= clock
      /\ src.round.open => src.round.checkpoint <= clock
      BY <1>1 DEF Timed, Times, Later
<1>6. \/ Closing = run.page.checkpoint \/ Closing = src.checkpoint
      \/ ~run.opening /\ Closing = src.round.checkpoint
      BY DEF Closing, Coalesce
<1>7. ~run.opening => src.round.open
      BY <1>3 DEF Matches
<1>8. Closing \in Nat /\ Closing <= clock
      BY <1>4, <1>5, <1>6, <1>7
<1>9. \A h \in Handles : mod[h] <= Closing => ~Late(h)
      BY <1>4, <1>6, <1>7 DEF Late
<1>10. run.plan.band => Closing = IF run.opening THEN src.checkpoint ELSE AsOf
       BY <1>3 DEF Closing, Coalesce, AsOf, Matches
<1>11. ASSUME run.plan.cursor # NoCursor, ~park.round
       PROVE  Closing = AsOf
  <2>1. ~run.opening /\ Matches(src.round, run.plan) /\ RoundDated
        BY <1>2, <1>3, <1>11 DEF Settling, Matches
  <2>2. CASE run.plan.band
        BY <1>10, <2>1, <2>2
  <2>3. CASE ~run.plan.band
    <3>1. run.page.checkpoint = IF conn.upfront THEN 0 ELSE run.plan.cursor.mod
          BY <1>1, <1>11, <2>3 DEF Paging
    <3>2. CASE conn.upfront
      <4>1. src.round.checkpoint # 0
            BY <1>11, <2>1, <2>3, <3>2 DEF RoundDated, Matches
      <4> QED BY <2>1, <2>3, <3>1, <3>2, <4>1 DEF Closing, Coalesce, AsOf
    <3>3. CASE ~conn.upfront
      <4>1. src.round.checkpoint = 0
            BY <1>11, <2>1, <2>3, <3>3 DEF RoundDated, Matches
      <4>2. run.plan.cursor.mod # 0
            BY <1>11 DEF Timed, Times, Placed
      <4> QED BY <2>1, <2>3, <3>1, <3>3, <4>1, <4>2 DEF Closing, Coalesce, AsOf, Matches
    <3> QED BY <3>2, <3>3
  <2> QED BY <2>2, <2>3
<1> QED BY <1>2, <1>3, <1>8, <1>9, <1>10, <1>11

(* The same, after a step.                                                 *)
LEMMA ClosesNext == (TypeOK /\ Shape /\ Timed /\ Paging /\ Settling)' => ClosesAt'
BY Closes, PTL

(* What opening the merge of a round's last page finds absent.             *)
LEMMA MergingAbsents ==
    ASSUME TypeOK, Timed, Settling, NEW r \in Runs, r.page \in Pages, run' = Merging(r),
           UNCHANGED <<conn, live, mod, clock, held, stamp, src, park>>,
           run'.page.kind = "last", Listing', ClosesAt', ~r.page.capped, r.page.kind = "last",
           r.plan.opens => r.plan.cursor = NoCursor, ~r.plan.opens => Matches(src.round, r.plan)
    PROVE  AbsentsOff' /\ AbsentsFound'
<1>1. /\ run' \in Runs /\ run'.state = "merging"
      /\ SamePlan(run'.plan, r.plan) /\ SamePage(run'.page, r.page)
      /\ run'.opening <=> Opening(r) \/ (Parks(r) /\ r.plan.cursor # NoCursor)
      /\ run'.page.kind = IF Parks(r) THEN "parked" ELSE r.page.kind
      /\ run'.absent = DroppedAbsent(r)
      BY MergingIs
<1>2. ~Parks(r)
      BY <1>1
<1>3. run'.absent = Absent(r) /\ (run'.opening <=> Opening(r))
      BY <1>1, <1>2 DEF DroppedAbsent
<1>4. Opening(r) <=> r.plan.opens
      BY DEF Opening
<1>5. Absent(r) = (IF Opening(r) THEN InRound(r.plan) ELSE Unstamped(r.page)) \ r.page.listed
      BY DEF Absent
<1>6. /\ run'.plan.cursor = r.plan.cursor /\ run'.plan.scope = r.plan.scope
      /\ run'.plan.band = r.plan.band /\ run'.page.listed = r.page.listed
      BY <1>1 DEF SamePlan, SamePage
<1>7. r.plan.cursor.pos \in Nat /\ \A h \in Handles : h \in Nat /\ h >= 1 /\ mod[h] \in Nat
  <2>1. r.plan \in Plans
        BY DEF Runs
  <2>2. r.plan.cursor.pos \in Nat
        BY <2>1 DEF Plans, Cursors
  <2>3. \A h \in Handles : h \in Nat /\ h >= 1
        BY RoundsAssumption DEF Handles
  <2> QED BY <2>2, <2>3 DEF TypeOK
<1>8. AsOf' = AsOf
      BY DEF AsOf
<1>9. src.checkpoint \in Nat
      BY DEF TypeOK, SourceRows
<1>10. AbsentsOff'
  <2> SUFFICES ASSUME NEW h \in Absent(r), Sought(h), h \in live
               PROVE  mod[h] > src.checkpoint /\ (src.round.open => mod[h] > AsOf)
      BY <1>3, <1>8 DEF AbsentsOff, Sought
  <2>1. h \in Handles /\ h \notin r.page.listed
        BY <1>5 DEF InRound, Unstamped, Bound
  <2>2. Date[h] # Undated
        BY <2>1 DEF Sought, Missable
  <2>3. /\ Contains(r.plan.scope, Date[h])
        /\ ~r.plan.opens => h \notin stamp /\ Matches(src.round, r.plan)
    <3>1. CASE r.plan.opens
          BY <1>4, <1>5, <2>2, <3>1 DEF InRound, FindsAbsent
    <3>2. CASE ~r.plan.opens
          BY <1>4, <1>5, <2>2, <3>2 DEF Unstamped, FindsAbsent, Matches
    <3> QED BY <3>1, <3>2
  <2>4. CASE r.plan.cursor.pos < h
    <3>1. Late(h)'
      <4>1. SUFFICES ASSUME ~Late(h)'
                     PROVE  FALSE
            OBVIOUS
      <4>2. Sought(h)'
            BY DEF Sought
      <4>3. Complete(h)'
            BY <1>1, <2>1, <4>1, <4>2 DEF Listing
      <4>4. NamesNext(h)'
            BY <4>3 DEF Complete
      <4> QED BY <1>6, <2>1, <2>3, <2>4, <4>4 DEF NamesNext
    <3> QED BY <1>7, <2>1, <3>1 DEF Late, AsOf
  <2>5. CASE ~(r.plan.cursor.pos < h)
    <3>1. h <= r.plan.cursor.pos /\ r.plan.cursor # NoCursor
          BY <1>7, <2>1, <2>5, Nones
    <3>2. Matches(src.round, r.plan) /\ h \notin stamp
          BY <2>3, <3>1
    <3>3. src.round.open /\ src.round.cursor # NoCursor /\ ListedSettled
          BY <3>1, <3>2 DEF Matches, Settling
    <3>4. ~(mod[h] <= AsOf)
          BY <2>1, <2>3, <3>1, <3>2, <3>3 DEF ListedSettled, Matches
    <3>5. AsOf \in Nat /\ src.checkpoint <= AsOf
          BY <3>3, AsOfIs
    <3> QED BY <1>7, <1>9, <2>1, <3>4, <3>5
  <2> QED BY <2>4, <2>5
<1>11. AbsentsFound'
  <2> SUFFICES ASSUME Opening(r) \/ ~park.round, NEW h \in Handles, Sought(h),
                      Contains(r.plan.scope, Date[h]), h \notin live, mod[h] <= Closing',
                      held[h] # 0
               PROVE  h \in Absent(r)
      BY <1>3, <1>6 DEF AbsentsFound, Sought
  <2>1. h \in Bound /\ Date[h] # Undated /\ h \notin Ahead
        BY DEF Bound, Sought, Missable
  <2>2. ~Late(h)'
        BY <1>1 DEF ClosesAt, Merged
  <2>3. h \notin r.page.listed
        BY <1>1, <1>6, <2>2 DEF Listing, Truthful
  <2>4. CASE Opening(r)
        BY <1>5, <2>1, <2>3, <2>4 DEF InRound, FindsAbsent
  <2>5. CASE ~Opening(r)
    <3>1. ~r.plan.opens /\ Matches(src.round, r.plan) /\ ~park.round /\ ~run'.opening
          BY <1>3, <1>4, <2>5
    <3>2. ListedSettled /\ RoundDated
          BY <3>1 DEF Settling, Matches
    <3>3. h \notin stamp
      <4>1. CASE r.plan.cursor = NoCursor /\ ~r.plan.band
            BY <3>1, <3>2, <4>1 DEF RoundDated, Matches
      <4>2. CASE r.plan.cursor # NoCursor \/ r.plan.band
        <5>1. Closing' = AsOf'
              BY <1>1, <1>6, <3>1, <4>2 DEF ClosesAt, Merged
        <5> QED BY <1>8, <3>1, <3>2, <5>1 DEF ListedSettled, Matches
      <4> QED BY <4>1, <4>2
    <3>4. h \in Unstamped(r.page)
          BY <2>1, <3>1, <3>3 DEF Unstamped, FindsAbsent, Proves, Matches
    <3> QED BY <1>5, <2>3, <2>5, <3>4
  <2> QED BY <2>4, <2>5
<1> QED BY <1>10, <1>11

(* Every step keeps what the last page found absent.                       *)
LEMMA AbsentsStep ==
    ASSUME OpenScopes, TypeOK, Shape, Timed, Planned, Sighted, Listing, Paging, Settling, Absents,
           CoverageServed, [Next]_vars
    PROVE  Absents'
<1>1. /\ run \in Runs \cup {NoRun} /\ NoRun \notin Runs /\ run' \in Runs \cup {NoRun}
      /\ TypeOK' /\ Shape' /\ Timed'
      BY ShapeStep, TimedStep, Tags DEF TypeOK
<1>2. Listing' /\ Paging' /\ Settling'
      BY ListingStep, SettlingStep
<1>3. ClosesAt /\ ClosesAt'
      BY <1>1, <1>2, Closes, ClosesNext
<1>4. /\ \A h \in Handles : mod[h] \in Nat
      /\ src.checkpoint \in Nat
      BY DEF TypeOK, SourceRows
<1>5. CASE Quiet
      BY <1>5 DEF Quiet, Absents, Merged
<1>6. ASSUME NEW k \in Handles, ChangeAt(k)
      PROVE  Absents'
  <2> SUFFICES ASSUME run' \in Runs, Merged', run'.page.kind = "last"
               PROVE  AbsentsOff' /\ AbsentsFound'
      BY DEF Absents
  <2>1. /\ UNCHANGED <<conn, held, stamp, src, park>> /\ mod'[k] = clock + 1
        /\ \A h \in Handles : h # k => mod'[h] = mod[h] /\ (h \in live' <=> h \in live)
        /\ run \in Runs /\ Merged /\ run'.plan = run.plan /\ run'.page = run.page
        /\ run'.opening = run.opening /\ run'.absent = run.absent
        BY <1>6 DEF ChangeAt
  <2>2. AsOf' = AsOf /\ Closing' = Closing
        BY <2>1 DEF AsOf, Closing
  <2>3. AbsentsOff /\ AbsentsFound
        BY <2>1 DEF Absents
  <2>4. /\ clock \in Nat /\ Closing \in Nat /\ Closing <= clock
        /\ src.checkpoint <= clock
        /\ src.round.open => AsOf \in Nat /\ AsOf <= clock
        BY <1>3, <2>1, AsOfIs DEF ClosesAt, TypeOK, Timed, Times
  <2>5. /\ mod'[k] > src.checkpoint /\ (src.round.open => mod'[k] > AsOf)
        /\ ~(mod'[k] <= Closing)
        BY <1>4, <2>1, <2>4
  <2>6. \A h \in Handles : h # k => (Sought(h)' => Sought(h))
        BY <2>1 DEF Sought
  <2>7. AbsentsOff'
    <3>1. run.absent \subseteq Handles
          BY <2>1 DEF Runs
    <3> QED BY <2>1, <2>2, <2>3, <2>5, <2>6, <3>1 DEF AbsentsOff
  <2>8. AbsentsFound'
        BY <2>1, <2>2, <2>3, <2>5, <2>6 DEF AbsentsFound
  <2> QED BY <2>7, <2>8
<1>7. CASE Answers
  <2> SUFFICES ASSUME run' \in Runs, Merged', run'.page.kind = "last"
               PROVE  AbsentsOff' /\ AbsentsFound'
      BY DEF Absents
  <2>1. run \in Runs /\ run.state = "enumerating"
        BY <1>1, <1>7, AnswerIs
  <2>2. PICK plan \in Plans, page \in Pages :
                 page.kind # "parked" /\ Listable(plan, page) /\ Takes(plan, page)
        BY <1>1, <1>7, AnswerIs
  <2> DEFINE r == Taken(plan, page)
  <2>3. /\ UNCHANGED <<conn, live, mod, clock, held, stamp, src, park>>
        /\ r \in Runs /\ r.page \in Pages
        /\ ~OpensFirst(r) => run' = Merging(r)
        /\ OpensFirst(r) => run'.state = "opening"
        BY <2>1, <2>2, TakesIs
  <2>4. r.plan = plan /\ r.page = page
        BY <2>1, <2>2, TakenIs
  <2> HIDE DEF r
  <2>5. run' = Merging(r)
        BY <2>3 DEF Merged
  <2>6. page.kind = "last"
        BY <2>2, <2>3, <2>4, <2>5, MergingSays
  <2>7. /\ plan.opens => plan.cursor = NoCursor
        /\ ~plan.opens => Matches(src.round, plan)
        BY <2>1, <2>2, <2>6, ListableIs DEF Plans
  <2>8. ~page.capped
        BY <2>1, <2>2, <2>6, ListablePages
  <2> QED BY <1>2, <1>3, <2>3, <2>4, <2>5, <2>6, <2>7, <2>8, MergingAbsents
<1>8. CASE OpenNarrowed
  <2>1. run \in Runs
        BY <1>1, <1>8, Tags DEF OpenNarrowed
  <2> QED BY <1>8, <2>1, OpenNarrowedIs DEF Absents, Merged
<1>9. CASE OpenMerge
  <2> SUFFICES ASSUME run' \in Runs, Merged', run'.page.kind = "last"
               PROVE  AbsentsOff' /\ AbsentsFound'
      BY DEF Absents
  <2>1. /\ run \in Runs /\ run.state = "loading" /\ run' = Merging(run)
        /\ UNCHANGED <<conn, live, mod, clock, held, stamp, src, park>>
        BY <1>1, <1>9, Tags DEF OpenMerge, server, store, history
  <2>2. run.page \in Pages /\ run.page.kind = "last" /\ run.plan \in Plans
        BY <2>1 DEF Shape, OpeningShape, Runs
  <2>3. /\ ~run.plan.opens /\ Matches(src.round, run.plan)
        BY <2>1, <2>2 DEF Shape, PlanShape, OpeningShape, Plans
  <2>4. ~run.page.capped
        BY <2>1, <2>2 DEF Paging
  <2> QED BY <1>2, <1>3, <2>1, <2>2, <2>3, <2>4, MergingAbsents
<1>10. ASSUME NEW k \in Handles, Merge(k)
       PROVE  Absents'
  <2> SUFFICES ASSUME run' \in Runs, Merged', run'.page.kind = "last"
               PROVE  AbsentsOff' /\ AbsentsFound'
      BY DEF Absents
  <2>1. run \in Runs /\ run.state = "merging" /\ run.page \in Pages /\ run.plan \in Plans /\ Merged
        BY <1>1, <1>10, Tags DEF Merge, Shape, Runs, Merged
  <2>2. /\ UNCHANGED <<conn, live, mod>> /\ src' = Row /\ k \in run.todo
        /\ held'[k] = IF k \in run.dropped THEN 0 ELSE run.page.at[k]
        /\ \A h \in Handles : h # k => held'[h] = held[h]
        /\ park'.round = (park.round /\ ~run.opening)
        /\ run'.plan = run.plan /\ run'.page = run.page /\ run'.opening = FALSE
        /\ run'.absent = run.absent
        BY <1>10, <2>1, MergeIs
  <2>3. /\ Row.checkpoint = src.checkpoint
        /\ ~run.opening => Row = src
        /\ run.opening => /\ Row.round.band = run.plan.band /\ Row.round.checkpoint = 0
                          /\ Row.round.cursor.mod = 0
        BY <2>1, RowIs, Nones
  <2>4. AbsentsOff /\ AbsentsFound /\ run.page.kind = "last"
        BY <2>1, <2>2 DEF Absents
  <2>5. \A h \in Handles : Sought(h)' <=> Sought(h)
        BY <2>2 DEF Sought
  <2>6. Closing' = Closing
        BY <2>2, <2>3 DEF Closing
  <2>7. AbsentsOff'
    <3>1. run.absent \subseteq Handles
          BY <2>1 DEF Runs
    <3>2. CASE run.opening
      <4>1. AsOf' = IF run.plan.band THEN src.checkpoint ELSE 0
            BY <2>2, <2>3, <3>2 DEF AsOf
      <4>2. \A h \in Handles : mod[h] > src.checkpoint => mod[h] > AsOf'
            BY <1>4, <4>1
      <4> QED BY <2>2, <2>3, <2>4, <2>5, <3>1, <4>2 DEF AbsentsOff
    <3>3. CASE ~run.opening
      <4>1. src' = src /\ AsOf' = AsOf
            BY <2>2, <2>3, <3>3 DEF AsOf
      <4> QED BY <2>2, <2>4, <2>5, <3>1, <4>1 DEF AbsentsOff
    <3> QED BY <3>2, <3>3
  <2>8. AbsentsFound'
    <3> SUFFICES ASSUME ~park'.round, NEW h \in Handles, Sought(h),
                        Contains(run.plan.scope, Date[h]), h \notin live, mod[h] <= Closing
                 PROVE  h \in run.absent \/ held'[h] = 0
        BY <2>2, <2>5, <2>6 DEF AbsentsFound
    <3>1. h \in run.absent \/ held[h] = 0
          BY <2>2, <2>4 DEF AbsentsFound
    <3>2. CASE h = k /\ k \notin run.dropped
      <4>1. h \in run.page.listed
            BY <2>1, <2>2, <3>2 DEF Timed, MergesPage, Merged
      <4>2. ~Late(h)
            BY <1>3, <2>1, <2>4 DEF ClosesAt
      <4> QED BY <2>1, <4>1, <4>2 DEF Listing, Truthful
    <3>3. CASE h = k /\ k \in run.dropped
          BY <2>2, <3>3
    <3>4. CASE h # k
          BY <2>2, <3>1, <3>4
    <3> QED BY <3>2, <3>3, <3>4
  <2> QED BY <2>7, <2>8
<1>11. CASE Land
  <2>1. run \in Runs
        BY <1>1, <1>11, Tags DEF Land
  <2>2. run.page \in Pages
        BY <1>11, <2>1 DEF Land, Shape
  <2>3. run' \in Runs => run'.state = "enumerating"
        BY <1>1, <1>11, <2>1, <2>2, LandIs
  <2> QED BY <2>3 DEF Absents, Merged
<1>12. CASE UNCHANGED vars
       BY <1>12 DEF vars, Absents, Merged, AbsentsOff, AbsentsFound, Sought, AsOf, Closing
<1> QED BY <1>5, <1>6, <1>7, <1>8, <1>9, <1>10, <1>11, <1>12, StepKinds

-----------------------------------------------------------------------------
(* What the coverage promises.                                             *)

(* The last write of a page keeps it: nothing but a delta and the last     *)
(* page of a round moves the checkpoint.                                   *)
LEMMA LandServes ==
    ASSUME OpenScopes, TypeOK, Shape, Timed, Planned, Sighted, Listing, Paging, Settling, Absents,
           CoverageServed, run \in Runs, Land
    PROVE  CoverageServed'
<1>1. /\ run.page \in Pages /\ run.plan \in Plans /\ Merged /\ run.state # "enumerating"
      /\ PlanShape /\ MergedShape /\ CoveragePlanned
      /\ \A h \in run.page.listed : held[h] = run.page.at[h] /\ h \notin run.dropped
      /\ \A h \in run.dropped : held[h] = 0
      /\ run.page.vanished \subseteq run.dropped
      /\ run.page.kind \notin {"delta", "last"} => run.pushed = {}
      BY LandMerged DEF Merged
<1>2. /\ UNCHANGED <<conn, live, mod>> /\ src' = Tail(Row)
      /\ \A h \in Handles : held'[h] = IF h \in run.pushed THEN mod[h] ELSE held[h]
      /\ run.page.kind # "last" => park'.coverage = park.coverage
      /\ run.page.kind = "last" =>
           park'.coverage = ((park.round /\ ~run.opening) \/ (park.coverage /\ run.plan.band))
      BY <1>1, LandIs
<1>3. /\ Row \in SourceRows /\ Row.checkpoint = src.checkpoint /\ Row.coverage = src.coverage
      /\ ~run.opening => Row = src
      /\ run.opening => Row.round.checkpoint = 0
      BY RowIs
<1>4. \A h \in Handles : mod[h] \in Nat
      BY DEF TypeOK
<1>5. CASE run.page.kind \in {"partial", "parked", "deltaHead", "bandHead"}
  <2>1. src'.checkpoint = src.checkpoint /\ src'.coverage = src.coverage
        BY <1>1, <1>2, <1>3, <1>5, TailIs
  <2>2. \A h \in Handles : held'[h] = held[h]
        BY <1>1, <1>2, <1>5
  <2> QED BY <1>2, <1>5, <2>1, <2>2 DEF CoverageServed, Promised, Agrees
<1>6. CASE run.page.kind = "delta"
  <2>1. run.plan.kind = "delta" /\ src.coverage # NoScope /\ Covers(src.coverage, run.wanted)
        BY <1>1, <1>6 DEF MergedShape, CoveragePlanned
  <2>2. src'.checkpoint = run.page.checkpoint /\ src'.coverage = run.wanted
    <3>1. src'.coverage = IF /\ run.plan.kind = "delta" /\ Row.coverage # NoScope
                             /\ Row.coverage # run.wanted
                             /\ Covers(Row.coverage, run.wanted)
                          THEN run.wanted ELSE Row.coverage
          BY <1>1, <1>2, <1>3, <1>6, TailIs
    <3>2. src'.checkpoint = run.page.checkpoint
          BY <1>1, <1>2, <1>3, <1>6, TailIs
    <3> QED BY <1>3, <2>1, <3>1, <3>2
  <2> SUFFICES ASSUME ~park.coverage, NEW h \in Handles, Sought(h),
                      Contains(run.wanted, Date[h]), mod[h] <= run.page.checkpoint
               PROVE  Agrees(h)'
      BY <1>2, <1>6, <2>2 DEF CoverageServed, Promised, Sought
  <2>3. run.page.checkpoint \in Nat /\ src.checkpoint \in Nat
        BY <1>1 DEF Pages, TypeOK, SourceRows
  <2>4. ~Late(h)
        BY <1>4, <2>3 DEF Late
  <2>5. Truthful(h) /\ NamesSince(h, src.checkpoint)
        BY <1>1, <1>6, <2>4 DEF Listing, Complete
  <2>6. held'[h] = held[h]
        BY <1>2, <2>5 DEF Truthful
  <2>7. CASE mod[h] <= src.checkpoint
    <3>1. Contains(src.coverage, Date[h])
      <4>1. src.coverage \in Scope /\ run.wanted \in Scope
            BY <2>1, RoundsAssumption DEF TypeOK, SourceRows, Ranges, Runs
      <4>2. Date[h] \in Nat
            BY RoundsAssumption
      <4> QED BY <2>1, <4>1, <4>2, ForeverAssumption DEF Contains, Covers, Scope
    <3>2. Agrees(h)
          BY <2>1, <2>7, <3>1, BandOpens
    <3> QED BY <1>2, <2>6, <3>2 DEF Agrees
  <2>8. CASE ~(mod[h] <= src.checkpoint)
    <3>1. mod[h] > src.checkpoint
          BY <1>4, <2>3, <2>8
    <3> QED BY <1>1, <1>2, <2>5, <2>6, <3>1 DEF NamesSince, Truthful, Agrees
  <2> QED BY <2>7, <2>8
<1>7. CASE run.page.kind = "last"
  <2>1. /\ run.plan.kind = "round" /\ run.dropped = run.absent
        BY <1>1, <1>7 DEF MergedShape, Plans
  <2>2. ClosesAt /\ Absents
        BY Closes
  <2>3. src'.coverage = run.plan.span /\ src'.checkpoint = Closing
    <3>1. /\ src'.coverage = run.plan.span
          /\ src'.checkpoint = Coalesce(IF run.plan.band THEN 0 ELSE run.page.checkpoint,
                                        Coalesce(Row.round.checkpoint, Row.checkpoint))
          BY <1>1, <1>2, <1>3, <1>7, TailIs
    <3> QED BY <1>3, <3>1 DEF Closing
  <2> SUFFICES ASSUME ~park'.coverage, NEW h \in Handles, Sought(h),
                      Contains(run.plan.span, Date[h]), mod[h] <= Closing
               PROVE  Agrees(h)'
      BY <1>2, <2>3 DEF CoverageServed, Promised, Sought
  <2>4. (run.opening \/ ~park.round) /\ (~park.coverage \/ ~run.plan.band)
        BY <1>2, <1>7
  <2>5. ~Late(h)
        BY <1>1, <1>7, <2>2 DEF ClosesAt
  <2>6. Truthful(h) /\ NamesNext(h)
        BY <1>1, <1>7, <2>5 DEF Listing, Complete
  <2>7. held'[h] = held[h]
        BY <1>2, <2>6 DEF Truthful
  <2>8. Agrees(h) => Agrees(h)'
        BY <1>2, <2>7 DEF Agrees
  <2>9. CASE Contains(run.plan.scope, Date[h]) /\ h \in live
    <3>1. CASE run.plan.cursor.pos < h
      <4>1. h \in run.page.listed
            BY <1>7, <2>6, <2>9, <3>1 DEF NamesNext
      <4> QED BY <1>1, <2>6, <2>8, <2>9, <4>1 DEF Truthful, Agrees
    <3>2. CASE ~(run.plan.cursor.pos < h)
      <4>1. h \in Nat /\ h >= 1 /\ run.plan.cursor.pos \in Nat
            BY <1>1, RoundsAssumption DEF Handles, Plans, Cursors
      <4>2. h <= run.plan.cursor.pos /\ run.plan.cursor # NoCursor
            BY <3>2, <4>1, Nones
      <4>3. Matches(src.round, run.plan) /\ Closing = AsOf
            BY <1>1, <1>7, <2>2, <2>4, <4>2 DEF ClosesAt
      <4>4. ListedSettled
            BY <4>3 DEF Settling, Matches
      <4>5. held[h] = mod[h]
            BY <2>9, <4>2, <4>3, <4>4 DEF ListedSettled, Matches
      <4> QED BY <2>8, <2>9, <4>5 DEF Agrees
    <3> QED BY <3>1, <3>2
  <2>10. CASE Contains(run.plan.scope, Date[h]) /\ h \notin live
    <3>1. AbsentsFound
          BY <1>1, <1>7, <2>2 DEF Absents
    <3>2. h \in run.absent \/ held[h] = 0
          BY <2>4, <2>10, <3>1 DEF AbsentsFound
    <3>3. held[h] = 0
          BY <1>1, <2>1, <3>2
    <3> QED BY <2>8, <2>10, <3>3 DEF Agrees
  <2>11. CASE ~Contains(run.plan.scope, Date[h])
    <3>1. run.plan.band /\ Contains(src.coverage, Date[h]) /\ ~park.coverage
          BY <2>1, <2>4, <2>11, PlanInWanted
    <3>2. src.coverage # NoScope
          BY <1>1, <2>1, <3>1 DEF CoveragePlanned
    <3>3. Closing = IF run.opening THEN src.checkpoint ELSE AsOf
          BY <1>1, <1>7, <2>2, <3>1 DEF ClosesAt
    <3>4. CASE run.opening
      <4>1. Agrees(h)
            BY <3>1, <3>2, <3>3, <3>4, BandOpens
      <4> QED BY <2>8, <4>1
    <3>5. CASE ~run.opening
      <4>1. Matches(src.round, run.plan)
            BY <1>1, <1>7, <2>2, <3>5 DEF ClosesAt
      <4>2. CoverageSettled
            BY <4>1 DEF Settling, Matches
      <4>3. Agrees(h)
            BY <3>1, <3>3, <3>5, <4>1, <4>2 DEF CoverageSettled, Matches
      <4> QED BY <2>8, <4>3
    <3> QED BY <3>4, <3>5
  <2> QED BY <2>9, <2>10, <2>11
<1> QED BY <1>1, <1>5, <1>6, <1>7 DEF Pages

(* Every step keeps what the coverage promises.                            *)
LEMMA ServedStep ==
    ASSUME OpenScopes, TypeOK, Shape, Timed, Planned, Sighted, Listing, Paging, Settling, Absents,
           CoverageServed, [Next]_vars
    PROVE  CoverageServed'
<1>1. /\ run \in Runs \cup {NoRun} /\ NoRun \notin Runs
      BY Tags DEF TypeOK
<1>2. ASSUME UNCHANGED <<conn, live, mod, held, src, park>>
      PROVE  CoverageServed'
      BY <1>2 DEF CoverageServed, Promised, Agrees
<1>3. ASSUME NEW k \in Handles, ChangeAt(k)
      PROVE  CoverageServed'
  <2>1. /\ UNCHANGED <<conn, held, stamp, src, park>> /\ mod'[k] = clock + 1
        /\ \A h \in Handles : h # k => mod'[h] = mod[h] /\ (h \in live' <=> h \in live)
        BY <1>3 DEF ChangeAt
  <2>2. ~(mod'[k] <= src.checkpoint)
    <3>1. clock \in Nat /\ src.checkpoint \in Nat /\ src.checkpoint <= clock
          BY DEF TypeOK, SourceRows, Timed, Times
    <3> QED BY <2>1, <3>1
  <2>3. ASSUME ~park.coverage, NEW h \in Handles, Promised(h)'
        PROVE  Agrees(h)'
    <3>1. h # k
          BY <2>1, <2>2, <2>3 DEF Promised
    <3>2. Promised(h)
          BY <2>1, <2>3, <3>1 DEF Promised
    <3>3. Agrees(h)
          BY <2>3, <3>2 DEF CoverageServed
    <3> QED BY <2>1, <3>1, <3>3 DEF Agrees
  <2> QED BY <2>1, <2>3 DEF CoverageServed
<1>4. CASE Answers
  <2>1. /\ run \in Runs
        /\ \E plan \in Plans, page \in Pages : Takes(plan, page)
        BY <1>1, <1>4, AnswerIs
  <2>2. UNCHANGED <<conn, live, mod, held, src, park>>
        BY <2>1, TakesIs
  <2> QED BY <1>2, <2>2
<1>5. CASE OpenNarrowed
  <2>1. run \in Runs /\ run.plan \in Plans
        BY <1>1, <1>5, Tags DEF OpenNarrowed, Runs
  <2>2. /\ UNCHANGED <<conn, live, mod, held>> /\ src' = Opened(src, run.plan)
        /\ park'.coverage = park.coverage
        BY <1>5, <2>1, OpenNarrowedIs
  <2>3. /\ src'.checkpoint = src.checkpoint /\ src'.coverage = src.coverage
        BY <2>1, <2>2, OpenedIs
  <2> QED BY <2>2, <2>3 DEF CoverageServed, Promised, Agrees
<1>6. CASE OpenMerge
      BY <1>2, <1>6 DEF OpenMerge, server, store, history
<1>7. ASSUME NEW k \in Handles, Merge(k)
      PROVE  CoverageServed'
  <2>1. run \in Runs /\ run.page \in Pages
        BY <1>1, <1>7, Tags DEF Merge, Shape
  <2>2. /\ UNCHANGED <<conn, live, mod>> /\ src' = Row
        /\ \A h \in Handles : h # k => held'[h] = held[h]
        /\ park'.coverage = park.coverage
        BY <1>7, <2>1, MergeIs
  <2>3. Row.checkpoint = src.checkpoint /\ Row.coverage = src.coverage
        BY <2>1, RowIs
  <2>4. ASSUME ~park.coverage, NEW h \in Handles, Promised(h)'
        PROVE  Agrees(h)'
    <3>1. Promised(h)
          BY <2>2, <2>3, <2>4 DEF Promised
    <3>2. CASE h = k
          BY <1>7, <2>1, <3>1, <3>2, MergedAgrees DEF Promised, Sought
    <3>3. CASE h # k
      <4>1. Agrees(h)
            BY <2>4, <3>1 DEF CoverageServed
      <4> QED BY <2>2, <3>3, <4>1 DEF Agrees
    <3> QED BY <3>2, <3>3
  <2> QED BY <2>2, <2>4 DEF CoverageServed
<1>8. CASE Land
  <2>1. run \in Runs
        BY <1>1, <1>8, Tags DEF Land
  <2> QED BY <1>8, <2>1, LandServes
<1> QED BY <1>2, <1>3, <1>4, <1>5, <1>6, <1>7, <1>8, StepKinds DEF Quiet, vars

(* The invariant holds at the start.                                       *)
LEMMA ServedInit ==
    ASSUME Init
    PROVE  Planned /\ Listing /\ Paging /\ Settling /\ Absents /\ CoverageServed
<1>1. /\ src = [checkpoint |-> 0, coverage |-> NoScope, round |-> NoRound] /\ run = NoRun
      BY DEF Init
<1>2. ~src.round.open /\ run \notin Runs
      BY <1>1, Nones, Tags
<1> QED BY <1>1, <1>2 DEF Planned, Listing, Paging, Settling, Absents, CoverageServed, Promised

(* What a closed round left is kept by every delta since (PimdirCoverage), *)
(* through any crash, refusal and change of the server: a member of the    *)
(* coverage unchanged since the checkpoint is held as the server has it,   *)
(* and one removed before it is not held, when every scope is open at its  *)
(* ceiling.                                                                *)
THEOREM CoverageIsServed == OpenScopes /\ Spec => []CoverageServed
<1> DEFINE Inv == /\ TypeOK /\ Shape /\ Timed
                  /\ Sighted => /\ Planned /\ Listing /\ Paging
                                /\ Settling /\ Absents /\ CoverageServed
<1> SUFFICES ASSUME OpenScopes
             PROVE  Spec => []CoverageServed
    OBVIOUS
<1>1. Init => Inv
      BY RoundsInit, TimedInit, ServedInit
<1>2. Inv /\ [Next]_vars => Inv'
  <2> SUFFICES ASSUME Inv, [Next]_vars
               PROVE  Inv'
      OBVIOUS
  <2>1. TypeOK' /\ Shape' /\ Timed'
        BY ShapeStep, TimedStep
  <2>2. Sighted' => Sighted
        BY ConnSame DEF Sighted
  <2>3. ASSUME Sighted
        PROVE  (Planned /\ Listing /\ Paging /\ Settling /\ Absents /\ CoverageServed)'
    <3>1. Planned'
          BY <2>3, PlannedStep
    <3>2. Listing' /\ Paging'
          BY <2>3, ListingStep
    <3>3. Settling'
          BY <2>3, SettlingStep
    <3>4. Absents'
          BY <2>3, AbsentsStep
    <3>5. CoverageServed'
          BY <2>3, ServedStep
    <3> QED BY <3>1, <3>2, <3>3, <3>4, <3>5
  <2> QED BY <2>1, <2>2, <2>3
<1>3. Inv => CoverageServed
      BY DEF CoverageServed, Promised, Sighted
<1> QED BY <1>1, <1>2, <1>3, PTL DEF Spec
=============================================================================
