------------------------------- MODULE Answer -------------------------------
(***************************************************************************)
(* What a query answers (src/src/client/search/compile.rs and the query    *)
(* half of src/src/client/search.rs) and what the answer says it could not *)
(* see (src/src/search/coverage.rs), over a store that holds only part of  *)
(* what its sources do and an index that lags it.                          *)
(*                                                                         *)
(* A hit is an account and a public id; its placements are where its item  *)
(* is held.  A term is the set of placements it holds for, read from the   *)
(* index or from the store as the code reads it, and holds for a hit when  *)
(* one of its placements is in the set.  Instants are hours; an open side  *)
(* of a range is the earliest or the latest instant.                       *)
(***************************************************************************)
EXTENDS Query

CONSTANTS
    World,       \* every placement there is, named, as a store holding all would have it
    Collections, \* collection -> its account and kind
    Scopes,      \* collection -> what each source syncing it closed a round over
    References,  \* the references between items
    Now, Zone,   \* the clock, and the offsets around a transition
    Horizon,     \* the instants the index materialises occurrences within
    Lacks,       \* name -> what the store may have of it beside its body
    MaxLacks

ASSUME BoundAssumption == MaxLacks \in Nat
ASSUME NamedAssumption ==
    /\ {p.name : p \in World} = DOMAIN Lacks
    /\ \A p, r \in World : p.name = r.name => p = r

VARIABLES
    held,  \* name -> what the store and the index have of it
    spans  \* the range of each date term -> the instants it is compiled to

vars == <<family, typed, query, parsed, held, spans>>

DAY == 24
Earliest == 0 - 20000000
Latest == 80000000
Never == [since |-> Latest, until |-> Earliest]

(* Held with its body and indexed, or: its body not fetched; not folded    *)
(* into the index yet; deleted since the index last folded; never synced.  *)
Holdings == {"body", "bodiless", "unindexed", "gone", "absent"}

-----------------------------------------------------------------------------
(* Dates. *)

(* start_of_day: the first instant of a day in the zone. *)
StartOfDay(day) == day * DAY - (IF day <= Zone.day THEN Zone.before ELSE Zone.after)
LocalDay(t) == CHOOSE d \in (t \div DAY) - 1..(t \div DAY) + 1 :
                   StartOfDay(d) <= t /\ t < StartOfDay(d + 1)
YEAR_ZERO == days_from_civil(0, 1, 1) * DAY

(* The instant an amount before now: a year keeps the time of day, and     *)
(* lands on the 28th from a 29 February with none.                         *)
Ago(amount, unit) ==
    LET date == civil_from_days(Now \div DAY)
        year == date[1] - amount
        least(a, b) == IF a < b THEN a ELSE b
        back == days_from_civil(year, date[2], least(date[3], days_in_month(year, date[2])))
        instant == CASE unit = "d" -> Now - amount * DAY
                     [] unit = "w" -> Now - amount * 7 * DAY
                     [] unit = "y" -> IF year >= 0 THEN back * DAY + (Now % DAY) ELSE YEAR_ZERO
    IN  IF instant < YEAR_ZERO THEN YEAR_ZERO ELSE instant

(* The first and the day after the last day of a year, a month or a day. *)
CivilDays(parts) ==
    LET year == parts[1]
        month == parts[2]
        first == days_from_civil(year, month, parts[3])
    IN  CASE Len(parts) = 1 -> <<days_from_civil(year, 1, 1), days_from_civil(year + 1, 1, 1)>>
          [] Len(parts) = 2 -> <<days_from_civil(year, month, 1),
                                 IF month = 12 THEN days_from_civil(year + 1, 1, 1)
                                 ELSE days_from_civil(year, month + 1, 1)>>
          [] Len(parts) = 3 -> <<first, first + 1>>

(* span: the instants a point covers. *)
Span(point) ==
    LET today == LocalDay(Now)
        Days(from, to) == <<StartOfDay(from), StartOfDay(to)>>
    IN  CASE point.is = "civil" -> Days(CivilDays(point.parts)[1], CivilDays(point.parts)[2])
          [] point.is = "today" -> Days(today, today + 1)
          [] point.is = "yesterday" -> Days(today - 1, today)
          [] point.is = "relative" ->
                 <<Ago(point.amount, point.unit), Ago(point.amount, point.unit)>>

(* bounds: from the start of the first point's span to the end of the      *)
(* last's, a relative amount alone running up to now.                      *)
Bounds(range) ==
    LET single == range.start = range.end
    IN  [since |-> IF range.start = Open THEN Earliest ELSE Span(range.start)[1],
         until |-> CASE range.end = Open -> Latest
                     [] range.end # Open /\ single /\ range.end.is = "relative" -> Now
                     [] OTHER -> Span(range.end)[2]]

-----------------------------------------------------------------------------
Init ==
    /\ family \in DOMAIN Families /\ typed = 0 /\ query = <<>> /\ parsed = Parse(<<>>)
    /\ held = [n \in DOMAIN Lacks |-> "body"]
    /\ spans = <<>>

(* Compiled::new: the query's dates, resolved against the clock. *)
DateRanges(terms) == {t[1].predicate.range : t \in {t \in terms : t[1].predicate.is = "date"}}
Resolved(p) ==
    [range \in IF p.fault = Fine THEN DateRanges(Terms(p.node, FALSE)) ELSE {} |-> Bounds(range)]

Type ==
    /\ \E run \in Families[family].runs : TypeQuery(run)
    /\ spans' = Resolved(parsed') /\ UNCHANGED held

Lacking == {n \in DOMAIN held : held[n] # "body"}

(* The store has less of a placement: before the query is typed, so that   *)
(* each query is read over each store.                                     *)
Lack ==
    /\ typed = 0 /\ Families[family].partial /\ Cardinality(Lacking) < MaxLacks
    /\ \E n \in DOMAIN held : \E h \in Lacks[n] : held[n] = "body" /\ held' = [held EXCEPT ![n] = h]
    /\ UNCHANGED <<family, typed, query, parsed, spans>>

Next == Type \/ Lack
Spec == Init /\ [][Next]_vars

-----------------------------------------------------------------------------
(* Terms.  A view is what a store and its index have: `st` of each         *)
(* placement, and whether occurrences are bounded by the horizon.          *)

Key(p) == <<Collections[p.collection].account, p.seq>>
Kind(p) == Collections[p.collection].kind
Live(p, v) == v.st[p.name] \in {"body", "bodiless", "unindexed"}
Indexed(p, v) == v.st[p.name] \in {"body", "bodiless", "gone"}
BodyIndexed(p, v) == v.st[p.name] \in {"body", "gone"} /\ Kind(p) # "file"

FoldText(text) == [i \in DOMAIN text |-> Lower(text[i])]

(* fts: a text with no word in it matches nothing. *)
HasWord(text) == ToSet(text) \ {SP, "-", "(", ")", "*", ".."} # {}

SummaryColumns == RoleFields \cup {"title", "people"}

(* match_objects and match_summaries: an indexed body by every column, a   *)
(* placement indexed with none, and a file, by what its summary holds.     *)
TextMatches(p, v, column, summary, text, prefix) ==
    LET columns == IF column = "any" THEN DOMAIN p.words ELSE {column} \cap DOMAIN p.words
        readable == IF BodyIndexed(p, v) THEN columns
                    ELSE IF summary THEN columns \cap SummaryColumns ELSE {}
        word == FoldText(text)
    IN  /\ Indexed(p, v) /\ HasWord(text)
        /\ \E c \in readable : \E w \in p.words[c] : IF prefix THEN IsPrefix(word, w) ELSE w = word

(* An address, or a whole domain where the value starts with its `@`. *)
Names(p, role, text) ==
    \E a \in p.addresses : /\ role \in {"any", a.role}
                           /\ FoldText(text) \in {<<a.address>>, <<a.domain>>}

MediaType(kind) ==
    CASE kind = "contact" -> "card" [] kind \in {"event", "task", "journal"} -> "calendar"
      [] OTHER -> kind

InBand(band, priority) ==
    CASE band = "high" -> priority \in 1..4 [] band = "medium" -> priority = 5
      [] band = "low" -> priority \in 6..9 [] band = "none" -> priority = 0

Overlaps(o, since, until) == o.start < until /\ (o.end > since \/ o.start >= since)

(* The occurrences the index materialised: within its horizon, and before  *)
(* the instant a series is examined up to.                                 *)
Occurrences(p, v) ==
    {o \in p.occurrences : v.bounded => /\ Overlaps(o, Horizon.start, Horizon.end)
                                       /\ o.start < p.cut}

(* `date:`: a message by its date, a calendar item by its occurrences or,  *)
(* with no body, by its date, and every item of an undated kind that some  *)
(* `kind:` term of the query names.                                        *)
DatePlacements(v, range, undated) ==
    LET b == spans[range]
        bySortKey(p) == Kind(p) = "mail" \/ (Kind(p) = "calendar" /\ v.st[p.name] = "bodiless")
    IN  {p \in World :
            \/ Live(p, v) /\ bySortKey(p) /\ p.date # Latest /\ b.since <= p.date /\ p.date < b.until
            \/ BodyIndexed(p, v) /\ \E o \in Occurrences(p, v) : Overlaps(o, b.since, b.until)
            \/ Live(p, v) /\ Kind(p) \in undated}

(* `person:`: the contacts so named, and whoever names their addresses. *)
PersonPlacements(v, text, prefix) ==
    LET cards == {p \in World : Kind(p) = "card" /\ TextMatches(p, v, "title", TRUE, text, prefix)}
        emails == {a.address : a \in {a \in UNION {p.addresses : p \in cards} : a.role = "email:"}}
    IN  cards \cup {p \in World : Live(p, v) /\ \E a \in p.addresses : a.address \in emails}

(* The thread of the message of that link id, and every message of it. *)
ThreadPlacements(v, link) ==
    {p \in World : /\ Indexed(p, v) /\ Kind(p) = "mail"
                   /\ \E m \in World : Indexed(m, v) /\ Kind(m) = "mail" /\ m.link = link
                                        /\ m.thread = p.thread}

(* The items at the other end of the references of those an id names. *)
LinkedPlacements(v, role, id) ==
    LET ends == {<<Kind(p), p.link>> : p \in {p \in World : Live(p, v)
                                                /\ (p.seq = id.seq \/ p.link = id.link)}}
        linked == {r \in References : role \in {"any", r.role}}
        others == {r.to : r \in {r \in linked : r.from \in ends}}
                  \cup {r.from : r \in {r \in linked : r.to \in ends}}
    IN  {p \in World : Live(p, v) /\ <<Kind(p), p.link>> \in others}

CategoryPlacements(v, category) ==
    {p \in World : /\ Live(p, v) /\ FoldText(category) \in {FoldText(c) : c \in p.categories}
                   /\ p.component = "task" \/ (Kind(p) = "card" /\ BodyIndexed(p, v))}

AttachedPlacements(v) ==
    {p \in World : Live(p, v) /\ p.attached
                   /\ (Kind(p) = "mail" \/ (Kind(p) = "calendar" /\ BodyIndexed(p, v)))}

KindPlacements(v, kind) ==
    {p \in World : Live(p, v) /\ (IF MediaType(kind) = "calendar" THEN p.component = kind
                                   ELSE Kind(p) = MediaType(kind))}

AddressPlacements(v, role, text, prefix) ==
    {p \in World : IF ToSet(text) \cap Mails # {} THEN Live(p, v) /\ Names(p, role, text)
                   ELSE TextMatches(p, v, IF role = "any" THEN "people" ELSE role, TRUE, text, prefix)}

InStamps(range, changed) ==
    /\ range.start # Open => changed >= range.start.at
    /\ range.end # Open => changed <= range.end.at

(* The placements a term holds for. *)
Placements(t, v, undated) ==
    CASE t.is = "text" ->
             {p \in World : TextMatches(p, v, t.column, t.summary, t.text, t.prefix)}
      [] t.is = "address" -> AddressPlacements(v, t.role, t.text, t.prefix)
      [] t.is = "person" -> PersonPlacements(v, t.text, t.prefix)
      [] t.is = "thread" -> ThreadPlacements(v, t.link)
      [] t.is = "linked" -> LinkedPlacements(v, t.role, t.id)
      [] t.is = "flag" -> {p \in World : Indexed(p, v) /\ t.flag \in p.flags}
      [] t.is = "encrypted" -> {p \in World : BodyIndexed(p, v) /\ p.encrypted}
      [] t.is = "has" /\ t.what = "body" -> {p \in World : Live(p, v) /\ v.st[p.name] # "bodiless"}
      [] t.is = "has" /\ t.what = "attachment" -> AttachedPlacements(v)
      [] t.is = "holds" ->
             {p \in World : Live(p, v) /\ BodyIndexed(p, v) /\ t.property \in p.holds}
      [] t.is = "kind" -> KindPlacements(v, t.kind)
      [] t.is = "status" ->
             {p \in World : Live(p, v) /\ p.component = "task" /\ p.status = t.status}
      [] t.is = "priority" ->
             {p \in World : Live(p, v) /\ p.component = "task" /\ InBand(t.band, p.priority)}
      [] t.is = "category" -> CategoryPlacements(v, t.category)
      [] t.is = "collection" -> {p \in World : Live(p, v) /\ <<p.collection>> = t.collection}
      [] t.is = "date" -> DatePlacements(v, t.range, undated)
      [] t.is = "changed" -> {p \in World : Live(p, v) /\ InStamps(t.range, p.changed)}

(* member: a hit one of whose placements a term holds for; an account and  *)
(* a public id are the hit's own.                                          *)
TermHolds(t, v, undated, h) ==
    CASE t.is = "account" -> t.account = <<h[1]>>
      [] t.is = "id" -> \/ t.id.seq # 0 /\ t.id.seq = h[2]
                        \/ \E p \in World : Live(p, v) /\ Key(p) = h /\ p.link = t.id.link
      [] OTHER -> \E p \in Placements(t, v, undated) : Key(p) = h

RECURSIVE Condition(_, _, _, _)
Condition(node, v, undated, h) ==
    CASE node.op = "term" -> TermHolds(node.predicate, v, undated, h)
      [] node.op = "not" -> ~Condition(node.of, v, undated, h)
      [] node.op = "and" -> \A i \in DOMAIN node.of : Condition(node.of[i], v, undated, h)
      [] node.op = "or" -> \E i \in DOMAIN node.of : Condition(node.of[i], v, undated, h)

(* The undated kinds the `kind:` terms of a query name. *)
Undated(node) ==
    {MediaType(t[1].predicate.kind) :
        t \in {t \in Terms(node, FALSE) : /\ t[1].predicate.is = "kind"
                                          /\ t[1].predicate.kind \in {"contact", "file"}}}

Hits(node, v) ==
    LET undated == Undated(node)
    IN  {h \in {Key(p) : p \in {p \in World : Live(p, v)}} : Condition(node, v, undated, h)}

-----------------------------------------------------------------------------
(* Coverage: what the answer says it could not see. *)

(* A mutant that narrows by the operands of an `or` too. *)
MutantConjuncts(node) ==
    {n \in (IF node.op \in {"and", "or"} THEN ToSet(node.of) ELSE {node}) : n.op = "term"}

(* The terms of the top-level conjunction. *)
Conjuncts(node) ==
    {n \in (IF node.op = "and" THEN ToSet(node.of) ELSE {node}) : n.op = "term"}

(* The collections a conjunct narrows the answer to. *)
Narrows(t, c) ==
    CASE t.is = "account" -> <<Collections[c].account>> = t.account
      [] t.is = "collection" -> <<c>> = t.collection
      [] t.is = "kind" -> Collections[c].kind = MediaType(t.kind)
      [] OTHER -> TRUE

InReach(node) ==
    {c \in DOMAIN Collections : \A n \in Conjuncts(node) : Narrows(n.predicate, c)}

(* The range the conjuncts narrow it to: the latest start and the earliest *)
(* end.                                                                    *)
Reach(node) ==
    LET ranges == {spans[n.predicate.range] :
                       n \in {n \in Conjuncts(node) : n.predicate.is = "date"}}
    IN  [since |-> Max({Earliest} \cup {b.since : b \in ranges}),
         until |-> Min({Latest} \cup {b.until : b \in ranges})]

(* PimdirSearchTemporal::over: every source's last closed round holds the  *)
(* range, a source that closed none holding nothing.                       *)
Temporal(c, range) ==
    \A scope \in Scopes[c] :
        /\ scope # Never
        /\ scope.since <= range.since /\ range.until <= scope.until

Coverage(node, v) ==
    LET reach == InReach(node)
        range == Reach(node)
        inside == {p \in World : p.collection \in reach}
        dated == /\ \E t \in Terms(node, FALSE) : t[1].predicate.is = "date"
                 /\ \E c \in reach : Collections[c].kind = "calendar"
    IN  [full |-> \A c \in reach : Temporal(c, range),
         bodiless |-> Cardinality({p \in inside : v.st[p.name] = "bodiless" /\ Kind(p) # "file"}),
         unindexed |-> Cardinality({p \in inside : v.st[p.name] = "unindexed"}),
         cut |-> IF dated
                 THEN Cardinality({p \in inside : BodyIndexed(p, v) /\ p.cut < range.until}) ELSE 0,
         left |-> dated /\ (range.since < Horizon.start \/ range.until > Horizon.end)]

(* PimdirSearchCoverage::is_complete. *)
IsComplete(cov) ==
    cov.full /\ cov.bodiless = 0 /\ cov.unindexed = 0 /\ cov.cut = 0 /\ ~cov.left

-----------------------------------------------------------------------------

(* The store and the index as they are, and as they would be had every     *)
(* placement been synced, fetched and indexed; a file is searched by its   *)
(* summary, and its body is not waited for.                                *)
AsHeld == [st |-> held, bounded |-> TRUE]
Whole ==
    [st |-> [n \in DOMAIN held |->
                IF held[n] = "bodiless" /\ \E p \in World : p.name = n /\ Kind(p) = "file"
                THEN "bodiless" ELSE "body"],
     bounded |-> FALSE]

(* The terms answered from the placements of the hit alone. *)
SelfContained(node) ==
    \A t \in Terms(node, FALSE) : t[1].predicate.is \notin {"person", "thread", "linked"}

HeldOnce == {h \in {Key(p) : p \in World} : Cardinality({p \in World : Key(p) = h}) = 1}

(* An answer that says it is the whole answer is: the same hits as over a  *)
(* store with every member, every body and every occurrence.  The coverage *)
(* looks only at the collections and the range the top-level conjunction   *)
(* narrows the query to, so what lies outside must not be able to answer   *)
(* it.  Said of items held in one collection, of the terms a hit's own     *)
(* placements decide, and while no deletion waits for the index.           *)
CompleteIsWhole ==
    (/\ parsed.fault = Fine /\ SelfContained(parsed.node)
     /\ \A n \in DOMAIN held : held[n] # "gone"
     /\ \E cov \in {Coverage(parsed.node, AsHeld)} : IsComplete(cov))
    => Hits(parsed.node, AsHeld) \cap HeldOnce = Hits(parsed.node, Whole) \cap HeldOnce

(* The reference calendar: one date after the other. *)
NextDate(d) ==
    CASE d[3] < days_in_month(d[1], d[2]) -> <<d[1], d[2], d[3] + 1>>
      [] d[3] = days_in_month(d[1], d[2]) /\ d[2] < 12 -> <<d[1], d[2] + 1, 1>>
      [] OTHER -> <<d[1] + 1, 1, 1>>
Window == Zone.window.first..Zone.window.last
DateSeq == FoldLeft(LAMBDA s, i : Append(s, NextDate(Last(s))), <<Zone.window.date>>,
                    [i \in 1..Cardinality(Window) - 1 |-> i])
DateOf(d) == DateSeq[d - Zone.window.first + 1]
Today == LocalDay(Now)

(* Dates compared as far as the shorter one goes. *)
RECURSIVE NotAfter(_, _)
NotAfter(a, b) ==
    a = <<>> \/ b = <<>> \/ a[1] < b[1] \/ (a[1] = b[1] /\ NotAfter(Tail(a), Tail(b)))

(* The instant t, of local day d, is not before, or not after, a point. *)
From(point, d, t) ==
    CASE point = Open -> TRUE
      [] point.is = "civil" -> NotAfter(point.parts, DateOf(d))
      [] point.is = "today" -> d >= Today
      [] point.is = "yesterday" -> d >= Today - 1
      [] point.is = "relative" -> t >= Ago(point.amount, point.unit)
UpTo(point, d, t, single) ==
    CASE point = Open -> TRUE
      [] point.is = "civil" -> NotAfter(DateOf(d), point.parts)
      [] point.is = "today" -> d <= Today
      [] point.is = "yesterday" -> d < Today
      [] point.is = "relative" -> t < (IF single THEN Now ELSE Ago(point.amount, point.unit))

(* A year back is the same date, or the 28th of a February with no 29th. *)
YearsBack(n) ==
    LET date == DateOf(Now \div DAY)
        back == civil_from_days(Ago(n, "y") \div DAY)
    IN  /\ back[1] = date[1] - n /\ back[2] = date[2]
        /\ back[3] = date[3] \/ (date[3] = 29 /\ back[3] = 28)

(* A date term spans the days it names and no other: an instant is inside  *)
(* exactly when the date it falls on in the zone is, counted day by day,   *)
(* over a leap day, a year's end and a day the zone makes 23 hours long.   *)
DatesAsNamed ==
    LET Agrees(range, b, d, t) ==
            (b.since <= t /\ t < b.until)
            = (From(range.start, d, t) /\ UpTo(range.end, d, t, range.start = range.end))
        Tiles(range, b) ==
            \A d \in Window \ {Zone.window.last} :
                \A t \in {StartOfDay(d), StartOfDay(d) + 12, StartOfDay(d + 1) - 1} :
                    Agrees(range, b, d, t)
    IN  \A range \in DOMAIN spans :
            /\ Tiles(range, spans[range])
            /\ \A point \in {range.start, range.end} :
                   (point.is = "relative" /\ point.unit = "y") => YearsBack(point.amount)
=============================================================================
