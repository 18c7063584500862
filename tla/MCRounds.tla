------------------------------ MODULE MCRounds ------------------------------
(* Small instances of Rounds: members either side of the floor of a scope. *)
EXTENDS Rounds

MCForever == 4
MCAll == Unbounded
MCRecent == [since |-> 2, until |-> MCForever]
MCOld == [since |-> 0, until |-> 3]

(* An old member, a recent one, and one with no date or a create's.        *)
MCDateUndated == <<1, 3, 0>>
MCDateCreate == <<1, 3, 3, 3>>
MCDateTwo == <<1, 3>>

MCOpenScopes == {MCAll, MCRecent}
MCClosedScopes == {MCAll, MCRecent, MCOld}

(* Connectors by their heads, bound to a scope or not, giving the          *)
(* checkpoint up front or last; then the ones that narrow, cap or fail,    *)
(* one of them listing everything on one page.                             *)
MCConnector(heads, scopeBound, upfront) ==
    [page |-> 2, heads |-> heads, scopeBound |-> scopeBound, upfront |-> upfront,
     narrows |-> FALSE, enumerates |-> FALSE, capped |-> FALSE, fails |-> FALSE]
MCDelta == MCConnector({"delta"}, FALSE, TRUE)
MCPlain == {MCConnector({}, TRUE, TRUE), MCConnector({"band"}, TRUE, FALSE),
            MCConnector({"delta"}, TRUE, TRUE)}
MCVaried == {MCDelta,
             [MCConnector({}, FALSE, FALSE) EXCEPT !.narrows = TRUE],
             [MCConnector({"band"}, TRUE, TRUE) EXCEPT !.narrows = TRUE, !.enumerates = TRUE],
             [MCConnector({}, TRUE, TRUE) EXCEPT !.page = 3, !.narrows = TRUE],
             [MCConnector({}, TRUE, TRUE) EXCEPT !.capped = TRUE],
             [MCConnector({"band"}, FALSE, TRUE) EXCEPT !.fails = TRUE]}
=============================================================================
