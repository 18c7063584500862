------------------------------ MODULE MCQuery ------------------------------
(* A small instance of Answer.tla for TLC: queries typed from operators and *)
(* groups, from what the lexer has to tell apart, from the values fields    *)
(* take, and from terms read over a store of five collections.              *)
EXTENDS Answer

QueryHeads == {"is:", "tag:", "body:", "date:", "subject:", "linked:", "parent:", "bogus:"} \cup FIELDS
QueryDates ==
    ("2023" :> <<2023>>) @@ ("2024-02" :> <<2024, 2>>) @@ ("2023-12" :> <<2023, 12>>)
    @@ ("2024-02-29" :> <<2024, 2, 29>>) @@ ("2023-02-29" :> <<2023, 2, 29>>)
    @@ ("2024-13" :> <<2024, 13>>) @@ ("2024-02-10" :> <<2024, 2, 10>>)
QueryAmounts ==
    ("3d" :> [amount |-> 3, unit |-> "d"]) @@ ("2w" :> [amount |-> 2, unit |-> "w"])
    @@ ("1y" :> [amount |-> 1, unit |-> "y"])
QueryNumbers == ("7" :> 7) @@ ("2" :> 2)
QueryFolds == ("OR" :> "or") @@ ("AB" :> "ab")

Spaced(words) == {<<SP>> \o w : w \in words}
One(words) == {<<SP, w>> : w \in words}

Structure ==
    [runs |-> One({"(", "or", "not", "ab"}) \cup {<<")">>}, max |-> 6, partial |-> FALSE]
Operators ==
    [runs |-> One({"and", "or", "not", "ab"}) \cup {<<SP, "(", "ab">>, <<")">>}, max |-> 4,
     partial |-> FALSE]
Lexical ==
    [runs |-> {<<p>> : p \in {SP, "-", ")", "*", QUOTE, "a", "OR", "is:", "unread"}}
              \cup {[i \in 1..13 |-> SP]},
     max |-> 4, partial |-> FALSE]
Values ==
    [runs |-> Spaced({<<"is:", QUOTE, "unread", QUOTE>>, <<"is:", "ab">>, <<"bogus:", "ab">>,
                      <<"subject:", "ab", "*">>, <<"tag:", "ab", "*">>, <<"from:", "@d", "*">>,
                      <<"date:", "2024-13">>, <<"date:", "2023-02-29">>, <<"date:", "..">>,
                      <<"changed:", "ab">>, <<"kind:", "ab">>, <<"has:", "ab">>, <<"status:", "ab">>,
                      <<"priority:", "ab">>, <<"-", "ab">>, <<"tag:">>}),
     max |-> 3, partial |-> FALSE]
Dates ==
    [runs |-> Spaced({<<"date:", a>> : a \in {"2023", "2024-02", "2024-02-29", "today", "yesterday",
                                              "3d", "2w", "1y"}}
                     \cup {<<"when:", a, "..", b>> : a, b \in {"2023-12", "2024-02", "yesterday", "2w"}}
                     \cup {<<"date:", "2024-02", "..">>, <<"date:", "..", "2023-12">>}),
     max |-> 1, partial |-> FALSE]
EachTerm ==
    [runs |-> Spaced({<<"AB">>, <<"ab", "*">>, <<QUOTE, QUOTE>>, <<"body:", "cd">>, <<"location:", "cd">>,
                      <<"attachment:", "cd">>, <<"from:", "ab">>, <<"from:", "@d">>, <<"with:", "a@d">>,
                      <<"person:", "ab">>, <<"tag:", "x">>, <<"is:", "flagged">>, <<"is:", "encrypted">>,
                      <<"has:", "body">>, <<"has:", "attachment">>, <<"has:", "phone">>,
                      <<"kind:", "mail">>, <<"kind:", "task">>, <<"status:", "completed">>,
                      <<"priority:", "medium">>, <<"priority:", "none">>, <<"priority:", "high">>,
                      <<"priority:", "low">>,
                      <<"category:", "AB">>, <<"account:", "me">>, <<"changed:", "2", "..", "7">>,
                      <<"thread:", "l1">>, <<"id:", "7">>, <<"linked:", "parent:", "l1">>}),
     max |-> 1, partial |-> TRUE]
Combined ==
    [runs |-> Spaced({<<"not">>, <<"ab">>, <<"or", SP, "body:", "cd">>, <<"folder:", "in">>,
                      <<"kind:", "event">>, <<"or", SP, "kind:", "contact">>,
                      <<"date:", "2024-02">>, <<"when:", "2024-02-10", "..">>}),
     max |-> 3, partial |-> TRUE]

QueryFamilies ==
    [structure |-> Structure, operators |-> Operators, lexical |-> Lexical, values |-> Values, dates |-> Dates,
     terms |-> EachTerm, combined |-> Combined]

-----------------------------------------------------------------------------
At(year, month, day) == 24 * days_from_civil(year, month, day) + 12
Clock == At(2024, 2, 29)
ZoneHere ==
    [day |-> days_from_civil(2024, 2, 20), before |-> 1, after |-> 2,
     window |-> [first |-> days_from_civil(2023, 12, 25), last |-> days_from_civil(2024, 3, 6),
                 date |-> <<2023, 12, 25>>]]
HorizonHere == [start |-> At(2023, 12, 28), end |-> At(2024, 3, 4)]

In(account, kind) == [account |-> account, kind |-> kind]
CollectionsHeld ==
    ("in" :> In("me", "mail")) @@ ("old" :> In("me", "mail")) @@ ("new" :> In("you", "mail"))
    @@ ("cards" :> In("me", "card")) @@ ("cal" :> In("me", "calendar")) @@ ("files" :> In("", "file"))
All == [since |-> Earliest, until |-> Latest]
ScopesClosed ==
    ("in" :> {All}) @@ ("old" :> {[since |-> At(2024, 2, 1) - 20, until |-> Latest]}) @@ ("new" :> {Never})
    @@ ("cards" :> {All}) @@ ("cal" :> {All}) @@ ("files" :> {})

Item(name, collection, seq, link) ==
    [name |-> name, collection |-> collection, seq |-> seq, link |-> <<link>>, component |-> "none",
     words |-> [c \in {"title", "body", "place", "attachment", "people", "from:"} |->
                   IF c \in {"title", "people", "from:"} THEN {<<"ab">>} ELSE {<<"cd">>, <<"ab", "cd">>}],
     flags |-> {}, addresses |-> {}, encrypted |-> FALSE, attached |-> FALSE, holds |-> {},
     status |-> "none", priority |-> 0, categories |-> {}, date |-> At(2024, 2, 10), changed |-> 2,
     occurrences |-> {}, cut |-> Latest, thread |-> "none"]
Address(role) == [role |-> role, address |-> "a@d", domain |-> "@d"]
Instant(start) == [start |-> start, end |-> start + 1]

m1 == [Item("m1", "in", 1, "l1") EXCEPT !.flags = {<<"x">>, <<"seen">>}, !.thread = "l1",
           !.addresses = {Address("from:")}]
m1old == [Item("m1old", "old", 1, "l1") EXCEPT !.flags = {<<"flagged">>}, !.thread = "l1"]
m2 == [Item("m2", "old", 2, "l2") EXCEPT !.date = At(2024, 1, 20), !.thread = "l1", !.encrypted = TRUE,
           !.words["title"] = {}, !.attached = TRUE, !.changed = 7]
m3 == [Item("m3", "new", 3, "l3") EXCEPT !.date = Latest, !.thread = "l3"]
c1 == [Item("c1", "cards", 4, "l4") EXCEPT !.addresses = {Address("email:")}, !.holds = {"phone"},
           !.categories = {<<"ab">>}]
e1 == [Item("e1", "cal", 5, "l5") EXCEPT !.component = "event", !.attached = TRUE,
           !.occurrences = {Instant(At(2024, 2, 12)), Instant(At(2024, 6, 1))}]
t1 == [Item("t1", "cal", 6, "l6") EXCEPT !.component = "task", !.status = "completed", !.priority = 5,
           !.categories = {<<"AB">>}, !.cut = At(2024, 3, 2), !.occurrences = {Instant(At(2024, 3, 3))}]
f1 == [Item("f1", "files", 7, "l7") EXCEPT !.words = [c \in {"title"} |-> {<<"ab">>}]]

WorldHeld == {m1, m1old, m2, m3, c1, e1, t1, f1}
MayLack ==
    ("m1" :> {"bodiless", "unindexed", "gone"}) @@ ("m1old" :> {"gone"}) @@ ("m2" :> {"absent", "bodiless"})
    @@ ("m3" :> {"absent"}) @@ ("c1" :> {"bodiless"}) @@ ("e1" :> {"bodiless", "unindexed"})
    @@ ("t1" :> {}) @@ ("f1" :> {"bodiless"})
Replies == {[role |-> "parent:", from |-> <<"mail", <<"l2">>>>, to |-> <<"mail", <<"l1">>>>]}
=============================================================================
