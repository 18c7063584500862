------------------------------- MODULE Query -------------------------------
(***************************************************************************)
(* The query language (src/src/search/query.rs): a query split into        *)
(* tokens, its parentheses balanced, then read by a recursive descent, or  *)
(* refused with one fault.                                                 *)
(*                                                                         *)
(* A query is a sequence of pieces: a space, a parenthesis, a quote, a     *)
(* dash, or a run of characters the grammar never looks into, such as a    *)
(* word or a field's name with its colon.  Offsets count pieces.  A date   *)
(* or a number is a piece with its value given beside it.                  *)
(***************************************************************************)
EXTENDS Calendar, SequencesExt

CONSTANTS
    Families,   \* name -> runs of pieces a query is typed from, and how many
    LengthMax, GroupsMax, TermsMax,
    Heads,      \* the pieces that end in a colon
    Letters,    \* the pieces of one character
    Mails,      \* the pieces that hold an `@`
    Folded,     \* piece -> its lowercase, where that is another piece
    Dated,      \* piece -> the numbers it spells between dashes
    Amounts,    \* piece -> the amount and unit it spells
    Numbers,    \* piece -> the number its digits spell
    AppRoles    \* the reference roles applications give, `x-...:`

ASSUME LimitsAssumption == {LengthMax, GroupsMax, TermsMax} \subseteq Nat \ {0}

SP == " "
QUOTE == "quote"
Lower(p) == IF p \in DOMAIN Folded THEN Folded[p] ELSE p
Width(p) == IF p \in Letters THEN 1 ELSE 2
Spell(q, from, to) == SubSeq(q, from, to)

(* A refusal: its code, and the pieces it spans. *)
Refusal(code, from, to) == [code |-> code, from |-> from, to |-> to]
Fine == Refusal("fine", 0, 0)

TitleFields == {"subject:", "title:", "summary:"}
FileFields == {"attachment:", "mimetype:"}
RoleFields == {"from:", "to:", "cc:", "bcc:", "attendee:", "organizer:", "email:"}
TEXT_FIELDS == TitleFields \cup FileFields \cup RoleFields
    \cup {"body:", "with:", "person:", "location:"}
FIELDS == TEXT_FIELDS \cup
    {"tag:", "is:", "flag:", "has:", "kind:", "status:", "priority:", "category:",
     "account:", "collection:", "folder:", "date:", "when:", "thread:", "id:", "linked:",
     "changed:"}
Properties == {"phone", "address", "birthday", "photo"}
Kinds == {"mail", "contact", "event", "task", "journal", "file"}
StatusValues == {"needs-action", "in-process", "completed", "cancelled"}
Priorities == {"high", "medium", "low", "none"}

-----------------------------------------------------------------------------
(* Tokens. *)

Separators == {SP, "(", ")", QUOTE}

(* The quote that closes the one at `open`, none where there is none left. *)
Closing(q, open) == {i \in open + 1..Len(q) : q[i] = QUOTE}

Token(kind, from, to) == [kind |-> kind, from |-> from, to |-> to, colon |-> 0, phrase |-> FALSE]
Unterminated(q, open) == Token("unterminated", open, Len(q))

(* A phrase, or where its quote stays open what refuses the query. *)
Phrase(q, open, token) ==
    IF Closing(q, open) = {} THEN Unterminated(q, open)
    ELSE [token EXCEPT !.to = Min(Closing(q, open))]

(* The word that starts at `at`: an operator, a field with the phrase right*)
(* after its colon, or text.                                               *)
WordToken(q, at) ==
    LET stops == {i \in at + 1..Len(q) : q[i] \in Separators}
        end == IF stops = {} THEN Len(q) ELSE Min(stops) - 1
        colons == {i \in at..end : q[i] \in Heads}
        colon == Min(colons)
        quoted == colon = end /\ end < Len(q) /\ q[end + 1] = QUOTE
        field == [Token("field", at, end) EXCEPT !.colon = colon, !.phrase = quoted]
    IN  CASE colons # {} /\ quoted -> Phrase(q, end + 1, field)
          [] colons # {} /\ ~quoted -> field
          [] colons = {} /\ at = end /\ Lower(q[at]) \in {"and", "or", "not"} ->
                 Token(Lower(q[at]), at, end)
          [] OTHER -> Token("text", at, end)

TokenAt(q, at) ==
    CASE q[at] = "(" -> Token("open", at, at)
      [] q[at] = ")" -> Token("close", at, at)
      [] q[at] = "-" -> Token(IF at = Len(q) \/ q[at + 1] \in {SP, ")"} THEN "bare" ELSE "not", at, at)
      [] q[at] = QUOTE -> Phrase(q, at, Token("phrase", at, at))
      [] OTHER -> WordToken(q, at)

RECURSIVE Lex(_, _)
Lex(q, at) ==
    IF at > Len(q) THEN <<>>
    ELSE IF q[at] = SP THEN Lex(q, at + 1)
    ELSE LET token == TokenAt(q, at) IN <<token>> \o Lex(q, token.to + 1)

(* A mutant that answers the first fault it finds: an unclosed group only  *)
(* once every other parenthesis is read.                                   *)
MutantBalance(ts) ==
    LET step(acc, t) ==
            CASE t.kind = "open" -> [acc EXCEPT !.open = Append(@, t.from)]
              [] t.kind = "close" /\ acc.open = <<>> -> [acc EXCEPT !.loose = @ \cup {t.from}]
              [] t.kind = "close" /\ acc.open # <<>> -> [acc EXCEPT !.open = Front(@)]
              [] OTHER -> acc
        end == FoldLeft(step, [open |-> <<>>, loose |-> {}], ts)
    IN  CASE end.loose # {} -> Refusal("unbalanced-parenthesis", Min(end.loose), Min(end.loose))
          [] end.loose = {} /\ end.open # <<>> ->
                 Refusal("unbalanced-parenthesis", Last(end.open), Last(end.open))
          [] OTHER -> Fine

(* The parentheses pass: the leftmost one that closes nothing, is never    *)
(* closed, or opens a group past the limit.                                *)
Balance(ts) ==
    LET step(acc, t) ==
            CASE t.kind = "open" ->
                     [open |-> Append(acc.open, t.from),
                      deep |-> acc.deep \cup IF Len(acc.open) = GroupsMax THEN {t.from} ELSE {},
                      loose |-> acc.loose]
              [] t.kind = "close" /\ acc.open = <<>> -> [acc EXCEPT !.loose = @ \cup {t.from}]
              [] t.kind = "close" /\ acc.open # <<>> -> [acc EXCEPT !.open = Front(@)]
              [] OTHER -> acc
        end == FoldLeft(step, [open |-> <<>>, deep |-> {}, loose |-> {}], ts)
        faults == end.deep \cup end.loose \cup ToSet(end.open)
        first == Min(faults)
    IN  IF faults = {} THEN Fine
        ELSE Refusal(IF first \in end.deep THEN "limit-exceeded" ELSE "unbalanced-parenthesis",
                     first, first)

-----------------------------------------------------------------------------
(* Terms. *)

Accepted(node) == [fault |-> Fine, node |-> node]
Refused(code, from, to) ==
    [fault |-> Refusal(code, from, to), node |-> [op |-> "none"]]
Term(predicate, t) == [op |-> "term", predicate |-> predicate, from |-> t.from, to |-> t.to]

(* A mutant that reads a run of negations as one. *)
MutantNegated(node) == IF node.op = "not" THEN node ELSE [op |-> "not", of |-> node]

Negated(node) == [op |-> "not", of |-> node]

(* A word's `*`: only its last character, after two or more, and only      *)
(* where allowed.  Fine with the word's stem, or where it is at fault.     *)
Wildcard(q, from, to, allowed) ==
    LET stars == {i \in from..to : q[i] = "*"}
        star == Min(stars)
        before == FoldSeq(LAMBDA p, n : Width(p) + n, 0, Spell(q, from, star - 1))
    IN  CASE stars = {} -> [fault |-> Fine, stem |-> Spell(q, from, to), prefix |-> FALSE]
          [] stars # {} /\ allowed /\ star = to /\ before >= 2 ->
                 [fault |-> Fine, stem |-> Spell(q, from, to - 1), prefix |-> TRUE]
          [] OTHER -> [fault |-> Refusal("invalid-wildcard", star, star), stem |-> <<>>, prefix |-> FALSE]

(* The column a text term searches, "any" for every one, and whether the   *)
(* summary of an item with no body has it.                                 *)
TextTerm(column, summary, stem, prefix) ==
    [is |-> "text", column |-> column, summary |-> summary, text |-> stem, prefix |-> prefix]

(* A side left open, and what is no point at all.                          *)
Open == [is |-> "open"]
None == [is |-> "none"]

days_in(year, month) == days_in_month(year, month)

(* `date`: a keyword, an amount back from now, or the numbers of a year, a *)
(* month or a day that exists.                                             *)
DatePoint(part) ==
    LET word == part[1]
        date == Dated[word]
    IN  CASE Len(part) # 1 -> None
          [] part = <<"today">> -> [is |-> "today"]
          [] part = <<"yesterday">> -> [is |-> "yesterday"]
          [] Len(part) = 1 /\ word \in DOMAIN Amounts ->
                 [is |-> "relative", amount |-> Amounts[word].amount, unit |-> Amounts[word].unit]
          [] Len(part) = 1 /\ word \in DOMAIN Dated /\ Len(date) \in 1..3
                 /\ (Len(date) > 1 => date[2] \in 1..12)
                 /\ (Len(date) > 2 => date[3] \in 1..days_in(date[1], date[2])) ->
                 [is |-> "civil", parts |-> date]
          [] OTHER -> None

Stamp(part) ==
    IF Len(part) = 1 /\ part[1] \in DOMAIN Numbers
    THEN [is |-> "stamp", at |-> Numbers[part[1]]] ELSE None

(* `range`, of dates or of stamps: one point, or two around `..`, either   *)
(* side open but not both; a side that is no point refuses the range.      *)
RangeOf(start, end) ==
    IF None \in {start, end} \/ (start = Open /\ end = Open) THEN None
    ELSE [is |-> "range", start |-> start, end |-> end]
ReadRange(value, dated) ==
    LET dots == {i \in DOMAIN value : value[i] = ".."}
        Side(part) == CASE part = <<>> -> Open
                        [] part # <<>> /\ dated -> DatePoint(part)
                        [] OTHER -> Stamp(part)
    IN  RangeOf(Side(IF dots = {} THEN value ELSE Spell(value, 1, Min(dots) - 1)),
                Side(IF dots = {} THEN value ELSE Spell(value, Min(dots) + 1, Len(value))))

(* The term of a range, where it is one. *)
RangeTerm(is, range) == IF range = None THEN None ELSE [is |-> is, range |-> range]

(* An item named by `id:` or `linked:`: digits read as a public id too. *)
ItemNamed(value) ==
    [link |-> value,
     seq |-> IF Len(value) = 1 /\ value[1] \in DOMAIN Numbers THEN Numbers[value[1]] ELSE 0]

ReferenceRoles ==
    {"attachment:", "invitation:", "sender:", "parent:", "source:", "related:"} \cup AppRoles

(* `linked:`, narrowed to a role where the value starts with one. *)
LinkedTerm(value) ==
    LET named == Len(value) > 1 /\ value[1] \in ReferenceRoles
    IN  [is |-> "linked", role |-> IF named THEN value[1] ELSE "any",
         id |-> ItemNamed(IF named THEN Tail(value) ELSE value)]

(* The predicate of a known field with a value, None where it takes no     *)
(* such value: is:unread is not one but the negation of one.               *)
Predicate(name, value, stem, prefix) ==
    LET one == IF Len(value) = 1 THEN value[1] ELSE ""
        text(column, summary) == TextTerm(column, summary, stem, prefix)
        address(role) == [is |-> "address", role |-> role, text |-> stem, prefix |-> prefix]
        Out(ok, predicate) == IF ok THEN predicate ELSE None
    IN  CASE name \in TitleFields -> text("title", TRUE)
          [] name = "body:" -> text("body", FALSE)
          [] name \in FileFields -> text("attachment", FALSE)
          [] name = "location:" -> text("place", FALSE)
          [] name \in RoleFields -> address(name)
          [] name = "with:" -> address("any")
          [] name = "person:" -> [is |-> "person", text |-> stem, prefix |-> prefix]
          [] name \in {"tag:", "flag:"} -> [is |-> "flag", flag |-> value]
          [] name = "is:" /\ one \in {"unread", "read"} -> [is |-> "flag", flag |-> <<"seen">>]
          [] name = "is:" /\ one \in {"flagged", "answered", "draft"} ->
                 [is |-> "flag", flag |-> <<one>>]
          [] name = "is:" -> Out(one = "encrypted", [is |-> "encrypted"])
          [] name = "has:" /\ one \in {"body", "attachment"} -> [is |-> "has", what |-> one]
          [] name = "has:" -> Out(one \in Properties, [is |-> "holds", property |-> one])
          [] name = "kind:" -> Out(one \in Kinds, [is |-> "kind", kind |-> one])
          [] name = "status:" -> Out(one \in StatusValues, [is |-> "status", status |-> one])
          [] name = "priority:" -> Out(one \in Priorities, [is |-> "priority", band |-> one])
          [] name = "category:" -> [is |-> "category", category |-> value]
          [] name = "account:" -> [is |-> "account", account |-> value]
          [] name \in {"collection:", "folder:"} -> [is |-> "collection", collection |-> value]
          [] name \in {"date:", "when:"} -> RangeTerm("date", ReadRange(value, TRUE))
          [] name = "changed:" -> RangeTerm("changed", ReadRange(value, FALSE))
          [] name = "thread:" -> [is |-> "thread", link |-> value]
          [] name = "id:" -> [is |-> "id", id |-> ItemNamed(value)]
          [] name = "linked:" -> LinkedTerm(value)

(* A known field with a value: what it reads as, or that its value is at   *)
(* fault.                                                                  *)
Valued(name, value, from, t, predicate) ==
    CASE predicate = None ->
             Refused(IF name \in {"date:", "when:"} THEN "invalid-date" ELSE "invalid-value",
                     from, t.to)
      [] predicate # None /\ name = "is:" /\ value = <<"unread">> -> Accepted(Negated(Term(predicate, t)))
      [] OTHER -> Accepted(Term(predicate, t))

(* A field term: its field, then an empty value, then its wildcard, then   *)
(* its value.                                                              *)
FieldTerm(q, t) ==
    LET known == t.colon = t.from /\ q[t.colon] \in FIELDS
        name == q[t.colon]
        from == t.colon + 1
        value == IF t.phrase THEN Spell(q, from + 1, t.to - 1) ELSE Spell(q, from, t.to)
        starred == IF t.phrase THEN [fault |-> Fine, stem |-> value, prefix |-> FALSE]
                   ELSE Wildcard(q, from, t.to,
                                 name \in TEXT_FIELDS /\ ToSet(value) \cap Mails = {})
    IN  CASE ~known -> Refused("unknown-field", t.from, t.colon)
          [] known /\ from > t.to -> Refused("invalid-value", t.from, t.to)
          [] known /\ from <= t.to /\ starred.fault # Fine ->
                 [fault |-> starred.fault, node |-> [op |-> "none"]]
          [] OTHER -> Valued(name, value, from, t,
                             Predicate(name, value, starred.stem, starred.prefix))

(* The term a token reads as, or its fault. *)
ReadTerm(q, t) ==
    LET starred == Wildcard(q, t.from, t.to, TRUE)
        any(text, prefix) == Accepted(Term(TextTerm("any", TRUE, text, prefix), t))
    IN  CASE t.kind = "phrase" -> any(Spell(q, t.from + 1, t.to - 1), FALSE)
          [] t.kind = "text" /\ starred.fault = Fine -> any(starred.stem, starred.prefix)
          [] t.kind = "text" /\ starred.fault # Fine ->
                 [fault |-> starred.fault, node |-> [op |-> "none"]]
          [] t.kind = "field" -> FieldTerm(q, t)

-----------------------------------------------------------------------------
(* The descent: `or` over `and` over `not`, each term counted, then read.  *)
(* A reading is where it stopped, the terms read so far, the node and its  *)
(* fault; `by` is the operator a missing operand leaves dangling, 0 none.  *)

Peek(ts, at) == IF at > Len(ts) THEN "end" ELSE ts[at].kind
TermKinds == {"phrase", "text", "field"}
Starts == TermKinds \cup {"open", "not", "bare"}

Stopped(r, code, from, to) == [r EXCEPT !.fault = Refusal(code, from, to)]
Dangling(r, ts, at) == Stopped(r, "dangling-operator", ts[at].from, ts[at].to)
Joined(op, operands) == IF Len(operands) = 1 THEN operands[1] ELSE [op |-> op, of |-> operands]
On(r) == [r EXCEPT !.at = @ + 1]

RECURSIVE Disjunction(_, _, _), Ors(_, _, _), Conjunction(_, _, _), Ands(_, _, _),
          Negation(_, _, _, _), Primary(_, _, _)

Ors(ts, r, operands) ==
    LET next == Conjunction(ts, On(r), r.at)
    IN  IF r.fault # Fine THEN r
        ELSE IF Peek(ts, r.at) = "or" THEN Ors(ts, next, Append(operands, next.node))
        ELSE [r EXCEPT !.node = Joined("or", operands)]

Disjunction(ts, r, by) ==
    LET first == Conjunction(ts, r, by) IN Ors(ts, first, <<first.node>>)

Ands(ts, r, operands) ==
    LET explicit == Peek(ts, r.at) = "and"
        next == IF explicit THEN Negation(ts, On(r), r.at, <<>>) ELSE Negation(ts, r, 0, <<>>)
    IN  IF r.fault # Fine THEN r
        ELSE IF explicit \/ Peek(ts, r.at) \in Starts
             THEN Ands(ts, next, Append(operands, next.node))
        ELSE [r EXCEPT !.node = Joined("and", operands)]

Conjunction(ts, r, by) ==
    LET first == Negation(ts, r, by, <<>>) IN Ands(ts, first, <<first.node>>)

(* `nots` are the operators read so far, the first of which a missing      *)
(* operand leaves dangling.                                                *)
Negation(ts, r, by, nots) ==
    LET inner == Primary(ts, r, IF nots = <<>> THEN by ELSE nots[1])
        node == FoldSeq(LAMBDA i, n : Negated(n), inner.node, nots)
    IN  CASE Peek(ts, r.at) = "bare" -> Dangling(r, ts, r.at)
          [] Peek(ts, r.at) = "not" -> Negation(ts, On(r), by, Append(nots, r.at))
          [] OTHER -> IF inner.fault = Fine THEN [inner EXCEPT !.node = node] ELSE inner

Primary(ts, r, by) ==
    LET kind == Peek(ts, r.at)
        t == ts[r.at]
        inner == Disjunction(ts, On(r), 0)
        read == t.read
    IN  CASE kind \in {"end", "close", "and", "or"} ->
                 Dangling(r, ts, IF by = 0 THEN r.at ELSE by)
          [] kind = "open" /\ Peek(ts, r.at + 1) = "close" ->
                 Stopped(r, "empty-query", t.from, ts[r.at + 1].to)
          [] kind = "open" /\ Peek(ts, r.at + 1) # "close" ->
                 IF inner.fault = Fine THEN On(inner) ELSE inner
          [] kind \in TermKinds /\ r.terms = TermsMax ->
                 Stopped(r, "limit-exceeded", t.from, t.to)
          [] kind \in TermKinds /\ r.terms < TermsMax ->
                 [at |-> r.at + 1, terms |-> r.terms + 1, node |-> read.node, fault |-> read.fault]

(* The tokens with what each term among them reads as, which is looked at  *)
(* once the descent reaches it.                                            *)
Readings(q, ts) ==
    [i \in DOMAIN ts |->
        [kind |-> ts[i].kind, from |-> ts[i].from, to |-> ts[i].to,
         read |-> IF ts[i].kind \in TermKinds THEN ReadTerm(q, ts[i]) ELSE Accepted([op |-> "none"])]]

(* PimdirQuery::parse: the length, the tokens, no token at all, the        *)
(* parentheses, then the descent.                                          *)
Parse(q) ==
    LET ts == Lex(q, 1)
        start == [at |-> 1, terms |-> 0, node |-> [op |-> "none"], fault |-> Fine]
    IN  CASE Len(q) > LengthMax -> Stopped(start, "limit-exceeded", LengthMax + 1, Len(q))
          [] Len(q) <= LengthMax /\ \E i \in DOMAIN ts : ts[i].kind = "unterminated" ->
                 Stopped(start, "unterminated-phrase", Last(ts).from, Len(q))
          [] Len(q) <= LengthMax /\ ts = <<>> -> Stopped(start, "empty-query", 1, Len(q))
          [] OTHER -> IF Balance(ts) # Fine THEN [start EXCEPT !.fault = Balance(ts)]
                      ELSE Disjunction(Readings(q, ts), start, 0)

(* PimdirQuery::terms: every term, with whether an odd number of negations *)
(* applies to it.                                                          *)
RECURSIVE Terms(_, _)
Terms(node, negated) ==
    CASE node.op = "term" -> {<<node, negated>>}
      [] node.op = "not" -> Terms(node.of, ~negated)
      [] node.op \in {"and", "or"} -> UNION {Terms(node.of[i], negated) : i \in DOMAIN node.of}

-----------------------------------------------------------------------------
(* A query typed a run of pieces at a time, read again at each. *)

VARIABLES
    family, \* what the query is typed from
    typed,  \* how many runs were
    query,  \* its pieces
    parsed  \* what they read as

TypeQuery(run) ==
    /\ typed < Families[family].max
    /\ typed' = typed + 1 /\ query' = query \o run /\ parsed' = Parse(query \o run)
    /\ UNCHANGED family

-----------------------------------------------------------------------------
(* What a query means and where it is at fault, said without reading it    *)
(* left to right.                                                          *)

(* Tokens i to j close every group they open, and open every one they      *)
(* close.                                                                  *)
Count(ts, i, j, kind) == Cardinality({k \in i..j : ts[k].kind = kind})
Balanced(ts, i, j) ==
    /\ Count(ts, i, j, "open") = Count(ts, i, j, "close")
    /\ \A k \in i..j : Count(ts, i, k, "open") >= Count(ts, i, k, "close")
Pair(ts, i, j) ==
    i < j /\ ts[i].kind = "open" /\ ts[j].kind = "close" /\ Balanced(ts, i + 1, j - 1)

(* The groups still open where token i stands. *)
Around(ts, i) ==
    {k \in 1..i - 1 : ts[k].kind = "open" /\ ~\E j \in k + 1..i - 1 : Pair(ts, k, j)}

(* The first token after the run of `not`s that i starts. *)
After(ts, i) ==
    LET past == {k \in i..Len(ts) + 1 : Peek(ts, k) # "not"} IN Min(past)

Faultless == [code |-> "fine", from |-> 0]
NoOperand == {"end", "close", "and", "or"}

(* The fault of token i, told by its neighbours alone, or its own value's. *)
FaultAt(q, ts, i) ==
    LET t == ts[i]
        before == IF i = 1 THEN "open" ELSE ts[i - 1].kind
        own == ReadTerm(q, t).fault
        Here(code) == [code |-> code, from |-> t.from]
        late == Cardinality({k \in 1..i : ts[k].kind \in TermKinds}) > TermsMax
    IN  CASE t.kind \in {"and", "or"} /\ (before = "open" \/ Peek(ts, i + 1) \in NoOperand) ->
                 Here("dangling-operator")
          [] t.kind = "bare" -> Here("dangling-operator")
          [] t.kind = "not" /\ Peek(ts, After(ts, i)) \in NoOperand -> Here("dangling-operator")
          [] t.kind = "open" /\ Peek(ts, i + 1) = "close" -> Here("empty-query")
          [] t.kind \in TermKinds /\ late -> Here("limit-exceeded")
          [] t.kind \in TermKinds /\ ~late -> [code |-> own.code, from |-> own.from]
          [] OTHER -> Faultless

(* The fault of a parenthesis. *)
ParenFault(ts, i) ==
    LET Here(code) == [code |-> code, from |-> ts[i].from]
    IN  CASE ts[i].kind = "open" /\ Cardinality(Around(ts, i)) >= GroupsMax -> Here("limit-exceeded")
          [] ts[i].kind \in {"open", "close"}
                 /\ ~\E j \in DOMAIN ts : Pair(ts, i, j) \/ Pair(ts, j, i) ->
                 Here("unbalanced-parenthesis")
          [] OTHER -> Faultless

(* A query is refused exactly where it is at fault: past the length the    *)
(* grammar takes, at the quote never closed, else at the leftmost faulty   *)
(* parenthesis, else at the leftmost token whose neighbours or whose own   *)
(* value fault it, with that fault's code; one with no fault is accepted.  *)
(* The descent threads the operator to blame through four functions        *)
(* (expected_by): a fault it meets late may lie far to the left.           *)
RefusedWhereFaulty ==
    LET ts == Lex(query, 1)
        fault == parsed.fault
        Leftmost(At(_)) ==
            LET faulty == {i \in DOMAIN ts : At(i) # Faultless}
            IN  IF faulty = {} THEN Faultless ELSE At(Min(faulty))
        paren == Leftmost(LAMBDA i : ParenFault(ts, i))
        expected ==
            CASE Len(query) > LengthMax -> [code |-> "limit-exceeded", from |-> LengthMax + 1]
              [] Len(query) <= LengthMax /\ \E i \in DOMAIN ts : ts[i].kind = "unterminated" ->
                     [code |-> "unterminated-phrase", from |-> Last(ts).from]
              [] Len(query) <= LengthMax /\ ts = <<>> -> [code |-> "empty-query", from |-> 1]
              [] OTHER -> IF paren # Faultless THEN paren
                          ELSE Leftmost(LAMBDA i : FaultAt(query, ts, i))
    IN  [code |-> fault.code, from |-> fault.from] = expected

(* What tokens i to j mean where T are the terms that hold: split at the   *)
(* last `or` outside every group, else at the last `and` or where two      *)
(* operands meet, else a negation, a group or a term.                      *)
RECURSIVE Means(_, _, _, _, _)
Means(q, ts, i, j, T) ==
    LET outside == {k \in i..j : Count(ts, i, k - 1, "open") = Count(ts, i, k - 1, "close")}
        ors == {k \in outside : ts[k].kind = "or"}
        ands == {k \in outside : ts[k].kind = "and"}
        meets == {k \in outside \ {i} : ts[k].kind \in Starts /\ ts[k - 1].kind \notin {"not", "and"}}
        unread == Spell(q, ts[i].from, ts[i].to) \in {<<"is:", "unread">>, <<"is:", QUOTE, "unread", QUOTE>>}
        Both(k, l) == Means(q, ts, i, k, T) /\ Means(q, ts, l, j, T)
    IN  CASE ors # {} -> Means(q, ts, i, Max(ors) - 1, T) \/ Means(q, ts, Max(ors) + 1, j, T)
          [] ors = {} /\ ands # {} -> Both(Max(ands) - 1, Max(ands) + 1)
          [] ors = {} /\ ands = {} /\ meets # {} -> Both(Max(meets) - 1, Max(meets))
          [] OTHER -> CASE ts[i].kind = "not" -> ~Means(q, ts, i + 1, j, T)
                        [] ts[i].kind = "open" -> Means(q, ts, i + 1, j - 1, T)
                        [] OTHER -> (ts[i].from \in T) # unread

RECURSIVE Holds(_, _)
Holds(node, T) ==
    CASE node.op = "term" -> node.from \in T
      [] node.op = "not" -> ~Holds(node.of, T)
      [] node.op = "and" -> \A i \in DOMAIN node.of : Holds(node.of[i], T)
      [] node.op = "or" -> \E i \in DOMAIN node.of : Holds(node.of[i], T)

(* What an accepted query is parsed to means what its text says, whatever  *)
(* terms hold: `not` binds before `and`, said or not, `and` before `or`,   *)
(* groups first, and every negation negates the one operand after it.      *)
ReadsAsStated ==
    LET ts == Lex(query, 1)
        terms == {ts[i].from : i \in {k \in DOMAIN ts : ts[k].kind \in TermKinds}}
    IN  parsed.fault = Fine =>
            \A T \in SUBSET terms : Holds(parsed.node, T) = Means(query, ts, 1, Len(ts), T)
=============================================================================
