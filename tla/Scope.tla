------------------------------- MODULE Scope --------------------------------
(***************************************************************************)
(* A scope [since, until) on a member's date (src/src/collection.rs): what *)
(* a round lists and the only place its absence means anything.  Dates are *)
(* positive numbers, 0 is no date; an open floor is 0 and an open ceiling  *)
(* is Forever, above every date.                                           *)
(***************************************************************************)
EXTENDS Naturals

CONSTANT Forever

ASSUME ForeverAssumption == Forever \in Nat \ {0}

Undated == 0
Scope == [since : 0..(Forever - 1), until : 1..Forever]
Unbounded == [since |-> 0, until |-> Forever]

(* contains: a member with no date is in every scope.                      *)
Contains(scope, date) ==
    \/ date = Undated
    \/ scope.since <= date /\ date < scope.until

(* covers: the other scope lies inside, bounds included.                   *)
Covers(scope, other) ==
    /\ scope.since <= other.since
    /\ other.until <= scope.until

(* band: whether wanted reaches outside the scope on one side only and     *)
(* leaves no gap, the band it adds there, and the span the two cover.      *)
Below(scope, wanted) == wanted.since < scope.since
Above(scope, wanted) == wanted.until > scope.until

HasBand(scope, wanted) ==
    /\ ~Covers(scope, wanted)
    /\ \/ /\ Below(scope, wanted) /\ ~Above(scope, wanted)
          /\ wanted.until >= scope.since
       \/ /\ Above(scope, wanted) /\ ~Below(scope, wanted)
          /\ wanted.since <= scope.until

BandOf(scope, wanted) ==
    IF Below(scope, wanted)
    THEN [since |-> wanted.since, until |-> scope.since]
    ELSE [since |-> scope.until, until |-> wanted.until]

SpanOf(scope, wanted) ==
    IF Below(scope, wanted)
    THEN [since |-> wanted.since, until |-> scope.until]
    ELSE [since |-> scope.since, until |-> wanted.until]
=============================================================================
