--------------------------- MODULE Overlay_proofs ---------------------------
(***************************************************************************)
(* Theorems about Overlay.tla, for any store, queue, declarations, page    *)
(* limit and order of keys: its types, that a keyset scan misses no item   *)
(* (ScanMissesNothing), that a choice of performer holds once queued       *)
(* (QueuedChoiceHolds) and that what the drain applies can be pushed       *)
(* (AppliedIsSupported).                                                   *)
(***************************************************************************)
EXTENDS Overlay, Staging_proofs, SequenceTheorems

-----------------------------------------------------------------------------
(* Keys in link-id order.                                                  *)

(* The keys of a store are finitely many.                                  *)
LEMMA KeysFinite == IsFiniteSet(Keys)
<1>1. IsFiniteSet(0..MaxMint)
      BY MintAssumption, FS_Interval
<1> QED BY <1>1, LinksAssumption, FS_Product DEF Keys

(* A key with n keys of S before it has the first n of S before it.        *)
LEMMA FirstFull ==
    ASSUME NEW n \in Nat, NEW S \in SUBSET Keys, NEW k \in Keys,
           Cardinality({l \in S : Before(l, k)}) >= n
    PROVE  /\ IsFiniteSet(First(n, S)) /\ Cardinality(First(n, S)) >= n
           /\ \A l \in First(n, S) : Before(l, k)
<1> DEFINE pred(x) == {l \in S : Before(l, x)}
           F == First(n, S)
<1>1. IsFiniteSet(S) /\ F \subseteq S /\ IsFiniteSet(F)
  <2>1. IsFiniteSet(S)
        BY KeysFinite, FS_Subset
  <2>2. F \subseteq S
        BY DEF First
  <2> QED BY <2>1, <2>2, FS_Subset
<1>2. \A x : pred(x) \subseteq S /\ IsFiniteSet(pred(x)) /\ Cardinality(pred(x)) \in Nat
  <2> SUFFICES ASSUME NEW x PROVE pred(x) \subseteq S /\ IsFiniteSet(pred(x))
                                  /\ Cardinality(pred(x)) \in Nat
      OBVIOUS
  <2>1. pred(x) \subseteq S
        OBVIOUS
  <2> HIDE DEF pred
  <2> QED BY <1>1, <2>1, FS_Subset, FS_CardinalityType
<1>3. \A x \in S : x \in F <=> Cardinality(pred(x)) < n
      BY DEF First
<1>4. \A x \in Keys : Rank[x] \in Nat
      BY RankAssumption DEF Keys
<1>5. ASSUME NEW l \in F
      PROVE  Before(l, k)
  <2> SUFFICES ASSUME ~Before(l, k) PROVE FALSE
      OBVIOUS
  <2>1. l \in S /\ Cardinality(pred(l)) < n
        BY <1>1, <1>3
  <2>2. pred(k) \subseteq pred(l)
        BY <1>4, <2>1 DEF Before
  <2>3. Cardinality(pred(k)) <= Cardinality(pred(l))
    <3> HIDE DEF pred
    <3> QED BY <1>2, <2>2, FS_Subset
  <2> QED BY <1>2, <2>1, <2>3
<1>6. ASSUME ~(Cardinality(F) >= n)
      PROVE  FALSE
  <2>1. Cardinality(F) \in Nat /\ Cardinality(F) < n
        BY <1>1, <1>6, FS_CardinalityType
  <2>2. PICK u \in pred(k) : u \notin F
    <3>1. ~(pred(k) \subseteq F)
      <4> SUFFICES ASSUME pred(k) \subseteq F PROVE FALSE
          OBVIOUS
      <4>1. Cardinality(pred(k)) <= Cardinality(F)
        <5> HIDE DEF pred, F
        <5> QED BY <1>1, FS_Subset
      <4> QED BY <1>2, <2>1, <4>1
    <3> QED BY <3>1
  <2> DEFINE U == pred(k) \ F
             R == {Rank[x] : x \in U}
  <2>3. R \in SUBSET Nat /\ R # {}
        BY <1>2, <1>4, <2>2
  <2>4. PICK r \in R : \A o \in R : r <= o
    <3> HIDE DEF R
    <3> QED BY <2>3, Least
  <2>5. PICK v \in U : r = Rank[v]
        OBVIOUS
  <2>6. v \in S /\ v \notin F /\ Before(v, k)
        OBVIOUS
  <2>7. pred(v) \subseteq F
    <3> SUFFICES ASSUME NEW x \in S, Before(x, v), x \notin F PROVE FALSE
        OBVIOUS
    <3>1. Before(x, k)
          BY <1>4, <2>6 DEF Before
    <3>2. x \in U /\ Rank[x] \in R
          BY <3>1
    <3> QED BY <1>4, <2>4, <2>5, <2>6, <3>2 DEF Before
  <2>8. Cardinality(pred(v)) <= Cardinality(F)
    <3> HIDE DEF pred, F
    <3> QED BY <1>1, <2>7, FS_Subset
  <2>9. ~(Cardinality(pred(v)) < n)
    <3> HIDE DEF pred, F
    <3> QED BY <1>3, <2>6
  <2> HIDE DEF pred, F
  <2> QED BY <1>2, <2>1, <2>8, <2>9
<1> QED BY <1>1, <1>5, <1>6

-----------------------------------------------------------------------------
(* The fold of the pending rows of a key.                                  *)

(* One step of the fold.                                                   *)
FoldStep(x, a, c, k) == IF Edits(a, c, k) THEN FoldOne(x, a) ELSE x

(* The fold of the first n rows is one step over that of n - 1.            *)
Unfolds(its, q, from, c, k) ==
    /\ Folds(its, q, from, c, k)[0] =
           [item |-> Committed(its, <<from, k>>), standing |-> Standing(its, <<c, k>>)]
    /\ \A n \in 1..Len(q) :
           Folds(its, q, from, c, k)[n] =
               FoldStep(Folds(its, q, from, c, k)[n - 1], q[n], c, k)

(* The recursion of Folds has a solution: by induction, for every prefix.  *)
LEMMA FoldsIs ==
    ASSUME NEW its, NEW q, Len(q) \in Nat, NEW from, NEW c, NEW k
    PROVE  Unfolds(its, q, from, c, k)
<1> DEFINE base == [item |-> Committed(its, <<from, k>>), standing |-> Standing(its, <<c, k>>)]
           step(x, n) == FoldStep(x, q[n], c, k)
           is(g, n) == g = [i \in 0..n |-> IF i = 0 THEN base ELSE step(g[i - 1], i)]
           bad == {n \in Nat : ~\E g : is(g, n)}
<1>1. bad = {}
  <2> HIDE DEF base, step
  <2> SUFFICES ASSUME bad # {} PROVE FALSE
      OBVIOUS
  <2>1. PICK n \in bad : \A m \in bad : n <= m
    <3>1. bad \in SUBSET Nat
          OBVIOUS
    <3> HIDE DEF bad
    <3> QED BY <3>1, Least
  <2>2. n # 0
    <3> DEFINE g == [i \in 0..0 |-> base]
    <3>1. is(g, 0)
          OBVIOUS
    <3> QED BY <2>1, <3>1
  <2>3. n - 1 \in Nat /\ n - 1 \notin bad
    <3>1. n \in Nat
          BY <2>1
    <3> HIDE DEF bad
    <3> QED BY <2>1, <2>2, <3>1
  <2>4. PICK g : is(g, n - 1)
        BY <2>3
  <2> DEFINE h == [i \in 0..n |-> IF i = n THEN step(g[n - 1], n) ELSE g[i]]
  <2>5. ASSUME NEW i \in 0..n
        PROVE  h[i] = IF i = 0 THEN base ELSE step(h[i - 1], i)
    <3>1. n \in Nat
          BY <2>1
    <3>2. CASE i = n
      <4>1. h[i] = step(g[n - 1], n) /\ i # 0
            BY <2>2, <3>2
      <4>2. h[i - 1] = g[n - 1]
            BY <2>2, <3>1, <3>2
      <4> QED BY <3>2, <4>1, <4>2
    <3>3. CASE i # n
      <4>1. i \in 0..(n - 1) /\ h[i] = g[i]
            BY <3>1, <3>3
      <4>2. i # 0 => h[i - 1] = g[i - 1]
            BY <3>1, <3>3
      <4>3. g[i] = IF i = 0 THEN base ELSE step(g[i - 1], i)
            BY <2>4, <4>1
      <4> QED BY <4>1, <4>2, <4>3
    <3> QED BY <3>2, <3>3
  <2>6. is(h, n)
        BY <2>5
  <2> QED BY <2>1, <2>6
<1>2. \E g : is(g, Len(q))
      BY <1>1
<1> DEFINE f == Folds(its, q, from, c, k)
<1>3. is(f, Len(q))
  <2>1. f = CHOOSE g : is(g, Len(q))
        BY DEF Folds, FoldStep
  <2> HIDE DEF is, f
  <2> QED BY <1>2, <2>1
<1> HIDE DEF f, base, step
<1>4. f[0] = base /\ \A n \in 1..Len(q) : f[n] = step(f[n - 1], n)
      BY <1>3
<1> QED BY <1>4 DEF f, base, step, Unfolds

(* What a request states, by its kind.                                     *)
LEMMA RequestIs ==
    ASSUME NEW a \in Requests
    PROVE  /\ a.kind \in {"add", "remove", "set-flags", "update", "copy", "move"} =>
                /\ a.at \in Places /\ a.body \in Objects /\ a.flags \in Flags
                /\ a.supersedes \in Places \cup {NoPlace}
                /\ ~IsIntent(a)
           /\ a.kind = "set-performer" =>
                /\ a.cap \in Capabilities /\ a.source \in Sources \cup {NoSource}
                /\ ~IsIntent(a)
           /\ a.kind \notin {"add", "remove", "set-flags", "update", "copy", "move",
                             "set-performer"} => IsIntent(a)
<1>1. CASE a.kind = "set-performer"
      BY <1>1, RequestsAssumption DEF Capabilities, IsIntent, IntentKinds, CollectionIntents
<1>2. CASE a.kind \in {"add", "remove", "set-flags", "update", "copy", "move"}
      BY <1>2, RequestsAssumption DEF IsIntent, IntentKinds, CollectionIntents
<1>3. CASE a.kind \notin {"add", "remove", "set-flags", "update", "copy", "move",
                          "set-performer"}
      BY <1>3, RequestsAssumption
<1> QED BY <1>1, <1>2, <1>3

(* What the fold is shown of an item.                                      *)
Folding == [item : Shown \cup {NoItem}, standing : Objects]

(* One step keeps its type; it brings no item back, and a removing row     *)
(* takes the one there is.                                                 *)
LEMMA FoldStepIs ==
    ASSUME NEW f \in Folding, NEW a \in Requests, NEW c, NEW k
    PROVE  /\ FoldStep(f, a, c, k) \in Folding
           /\ f.item = NoItem => FoldStep(f, a, c, k).item = NoItem
           /\ Edits(a, c, k) /\ Removing(a) => FoldStep(f, a, c, k).item = NoItem
<1>1. CASE ~Edits(a, c, k)
      BY <1>1 DEF FoldStep
<1>2. CASE Edits(a, c, k) /\ f.item = NoItem
      BY <1>2 DEF FoldStep, FoldOne
<1>3. CASE Edits(a, c, k) /\ f.item # NoItem
  <2>1. /\ a.kind \in {"add", "remove", "set-flags", "update", "move"}
        /\ a.body \in Objects /\ a.flags \in Flags
    <3>1. a.kind \in {"add", "remove", "set-flags", "update", "move"}
          BY <1>3 DEF Edits
    <3> QED BY <3>1, RequestIs
  <2>2. f.item \in Shown /\ f.standing \in Objects
        BY <1>3 DEF Folding
  <2>3. CASE Removing(a)
    <3>1. FoldStep(f, a, c, k) = [f EXCEPT !.item = NoItem]
      <4>1. a.kind # "set-flags" /\ a.kind # "update"
            BY <2>3 DEF Removing
      <4> QED BY <1>3, <2>3, <4>1 DEF FoldStep, FoldOne
    <3> QED BY <1>3, <2>3, <3>1 DEF Folding
  <2>4. CASE a.kind = "set-flags" /\ ~Removing(a)
    <3> DEFINE item == [f.item EXCEPT !.flags = a.flags]
    <3>1. item \in Shown
          BY <2>1, <2>2 DEF Shown
    <3>2. FoldStep(f, a, c, k) = [f EXCEPT !.item = item]
      <4>1. ~Removing(a)
            BY <2>4 DEF Removing
      <4>2. FoldOne(f, a) = [f EXCEPT !.item.flags = a.flags]
            BY <1>3, <2>4, <4>1 DEF FoldOne
      <4> QED BY <1>3, <4>2 DEF FoldStep, Folding
    <3> HIDE DEF item
    <3> QED BY <1>3, <2>4, <3>1, <3>2, NoneAssumption DEF Folding
  <2>5. CASE a.kind = "update" /\ ~Removing(a)
    <3> DEFINE item == [f.item EXCEPT !.object = a.body]
    <3>1. item \in Shown
          BY <2>1, <2>2 DEF Shown
    <3>2. FoldStep(f, a, c, k) \in {f, [item |-> item, standing |-> NoBody]}
      <4>1. ~Removing(a)
            BY <2>5 DEF Removing
      <4> QED BY <1>3, <2>5, <4>1 DEF FoldOne, FoldStep
    <3> HIDE DEF item
    <3> QED BY <1>3, <2>5, <3>1, <3>2, NoneAssumption DEF Folding, Objects
  <2> QED BY <2>1, <2>3, <2>4, <2>5 DEF Removing
<1> QED BY <1>1, <1>2, <1>3

(* A key that folds to an item is live where it is read, and no pending    *)
(* row removes it.                                                         *)
LEMMA FoldedIs ==
    ASSUME NEW its \in Held, NEW q \in Seq(Requests), NEW from \in Collections,
           NEW c \in Collections, NEW k \in Keys, Folded(its, q, from, c, k) # NoItem
    PROVE  Live(its[<<from, k>>]) /\ k \notin Removed(q, c)
<1> DEFINE f == Folds(its, q, from, c, k)
           base == [item |-> Committed(its, <<from, k>>), standing |-> Standing(its, <<c, k>>)]
           removes(n) == \E i \in 1..n : Edits(q[i], c, k) /\ Removing(q[i])
           bad == {n \in 0..Len(q) : ~(/\ f[n] \in Folding
                                       /\ base.item = NoItem => f[n].item = NoItem
                                       /\ removes(n) => f[n].item = NoItem)}
<1>1. Len(q) \in Nat /\ DOMAIN q = 1..Len(q) /\ \A i \in 1..Len(q) : q[i] \in Requests
      OBVIOUS
<1>2. f[0] = base /\ \A n \in 1..Len(q) : f[n] = FoldStep(f[n - 1], q[n], c, k)
  <2>0. Len(q) \in Nat
        BY <1>1
  <2>1. Unfolds(its, q, from, c, k)
        BY <2>0, FoldsIs
  <2> QED BY <2>1 DEF Unfolds
<1>3. base \in Folding
  <2>1. <<c, k>> \in Places /\ <<from, k>> \in Places
        BY DEF Places, Keys
  <2>2. its[<<c, k>>] \in Items \cup {NoItem} /\ its[<<from, k>>] \in Items \cup {NoItem}
        BY <2>1 DEF Held
  <2>3. /\ Live(its[<<c, k>>]) => its[<<c, k>>] \in Items
        /\ Live(its[<<from, k>>]) => its[<<from, k>>] \in Items
        BY <2>2 DEF Live, InState
  <2>4. Committed(its, <<from, k>>) \in Shown \cup {NoItem}
        BY <2>3 DEF Committed, Shown, Items
  <2>5. Standing(its, <<c, k>>) \in Objects
        BY <2>3 DEF Standing, Items, Objects
  <2> QED BY <2>4, <2>5 DEF Folding
<1>4. base.item # NoItem => Live(its[<<from, k>>])
      BY DEF Committed
<1> HIDE DEF f, base
<1>5. bad = {}
  <2> SUFFICES ASSUME bad # {} PROVE FALSE
      OBVIOUS
  <2>1. PICK n \in bad : \A m \in bad : n <= m
    <3>1. bad \in SUBSET Nat
          OBVIOUS
    <3> HIDE DEF bad
    <3> QED BY <3>1, Least
  <2>2. n # 0
        BY <1>2, <1>3, <2>1
  <2>3. n \in 1..Len(q) /\ n - 1 \in 0..Len(q) /\ n - 1 \notin bad
        BY <1>1, <2>1, <2>2
  <2>4. /\ f[n - 1] \in Folding
        /\ base.item = NoItem => f[n - 1].item = NoItem
        /\ removes(n - 1) => f[n - 1].item = NoItem
        BY <2>3
  <2>5. removes(n) => removes(n - 1) \/ (Edits(q[n], c, k) /\ Removing(q[n]))
        BY <1>1, <2>3
  <2>6. f[n] = FoldStep(f[n - 1], q[n], c, k) /\ q[n] \in Requests
        BY <1>1, <1>2, <2>3
  <2>7. /\ f[n] \in Folding
        /\ f[n - 1].item = NoItem => f[n].item = NoItem
        /\ Edits(q[n], c, k) /\ Removing(q[n]) => f[n].item = NoItem
        BY <2>4, <2>6, FoldStepIs
  <2> HIDE DEF removes
  <2> QED BY <2>1, <2>4, <2>5, <2>7
<1>6. /\ base.item = NoItem => f[Len(q)].item = NoItem
      /\ removes(Len(q)) => f[Len(q)].item = NoItem
      BY <1>1, <1>5
<1>7. f[Len(q)].item # NoItem
      BY DEF Folded, f
<1> QED BY <1>1, <1>4, <1>6, <1>7 DEF Removed

(* The last of some positions of a queue.                                  *)
LEMMA LatestIs ==
    ASSUME NEW n \in Nat, NEW S \in SUBSET (1..n), S # {}
    PROVE  /\ Latest(S) \in S /\ \A j \in S : j <= Latest(S)
           /\ \A i \in S : (\A j \in S : j <= i) => Latest(S) = i
<1> DEFINE T == {n - i : i \in S}
<1>1. T \in SUBSET Nat /\ T # {}
  <2>1. \A i \in S : i \in Nat /\ n - i \in Nat
        OBVIOUS
  <2>2. T \subseteq Nat
        BY <2>1
  <2>3. T # {}
        OBVIOUS
  <2> QED BY <2>2, <2>3
<1>2. PICK t \in T : \A u \in T : t <= u
  <2> HIDE DEF T
  <2> QED BY <1>1, Least
<1>3. PICK i \in S : t = n - i
      OBVIOUS
<1>4. \A j \in S : j <= i
  <2> SUFFICES ASSUME NEW j \in S PROVE j <= i
      OBVIOUS
  <2>1. n - j \in T /\ j \in Nat /\ i \in Nat
        OBVIOUS
  <2>2. n - i <= n - j
        BY <1>2, <1>3, <2>1
  <2> QED BY <2>1, <2>2
<1>5. Latest(S) \in S /\ \A j \in S : j <= Latest(S)
      BY <1>4 DEF Latest
<1>6. ASSUME NEW k \in S, \A j \in S : j <= k
      PROVE  Latest(S) = k
  <2>1. Latest(S) <= k /\ k <= Latest(S)
        BY <1>5, <1>6
  <2>2. k \in Nat /\ Latest(S) \in Nat
    <3>1. \A j \in S : j \in Nat
          OBVIOUS
    <3> QED BY <1>5, <3>1
  <2> QED BY <2>1, <2>2
<1> QED BY <1>5, <1>6

(* A key in view is live where it is read, which is the collection or one  *)
(* a pending row brings it in from, and no pending row removes it.         *)
LEMMA InViewIs ==
    ASSUME NEW its \in Held, NEW q \in Seq(Requests), NEW c \in Collections,
           NEW k \in InView(its, q, c)
    PROVE  /\ k \in Keys /\ k \notin Removed(q, c)
           /\ Live(its[<<ReadIn(its, q, c, k), k>>])
           /\ ReadIn(its, q, c, k) # c => <<k, ReadIn(its, q, c, k)>> \in Arriving(q, c)
<1> DEFINE f == ReadIn(its, q, c, k)
           A == Arrivals(q, c, k)
<1>1. k \in Keys /\ Folded(its, q, f, c, k) # NoItem
      BY DEF InView, View
<1>2. f \in Collections
  <2>1. CASE f = c
        BY <2>1
  <2>2. CASE f # c
    <3>1. A # {} /\ f = q[Latest(A)].at[1]
          BY <2>2 DEF ReadIn, ArrivesFrom
    <3>2. A \in SUBSET (1..Len(q)) /\ Len(q) \in Nat
          BY DEF Arrivals
    <3>3. Latest(A) \in A
      <4> HIDE DEF A
      <4> QED BY <3>1, <3>2, LatestIs
    <3>4. q[Latest(A)] \in Requests /\ q[Latest(A)].kind \in {"move", "copy"}
      <4> HIDE DEF f
      <4> QED BY <3>2, <3>3 DEF Arrivals
    <3>5. q[Latest(A)].at \in Places
      <4> HIDE DEF A
      <4> QED BY <3>4, RequestIs
    <3> QED BY <3>1, <3>5 DEF Places
  <2> QED BY <2>1, <2>2
<1>3. f # c => <<k, f>> \in Arriving(q, c)
      BY <1>1 DEF ReadIn, Arriving
<1> HIDE DEF f
<1>4. Live(its[<<f, k>>]) /\ k \notin Removed(q, c)
      BY <1>1, <1>2, FoldedIs
<1> QED BY <1>1, <1>3, <1>4 DEF f

-----------------------------------------------------------------------------
(* A page of the overlaid scan.                                            *)

(* A live key past the cursor that no row was to remove is among the rows  *)
(* read, or as many as a page asks for are before it: reading past the     *)
(* limit by the pending removals leaves enough of them.                    *)
LEMMA RowsReach ==
    ASSUME NEW c, NEW after \in Nat, NEW gone \in SUBSET Keys,
           NEW k \in Keys, k \notin gone, Live(items[<<c, k>>]), Rank[k] > after
    PROVE  LET page == Fetch(c, after, Reach(gone)) \ gone
           IN  k \in page \/ Cardinality({l \in page : Before(l, k)}) >= Limit
<1> DEFINE R == Cardinality(gone)
           L == {l \in Keys : Live(items[<<c, l>>]) /\ Rank[l] > after}
           T == Fetch(c, after, Reach(gone))
           page == T \ gone
<1>1. /\ Limit \in Nat /\ T = First(Limit + R, L) /\ T \subseteq L /\ L \in SUBSET Keys
      BY LimitAssumption DEF Fetch, First, Reach
<1>2. IsFiniteSet(gone) /\ R \in Nat
      BY KeysFinite, FS_Subset, FS_CardinalityType
<1> SUFFICES ASSUME k \notin page
             PROVE  Cardinality({l \in page : Before(l, k)}) >= Limit
    OBVIOUS
<1>3. k \in L /\ k \notin T
      OBVIOUS
<1>4. Cardinality({l \in L : Before(l, k)}) >= Limit + R
  <2> DEFINE P == {l \in L : Before(l, k)}
  <2>1. P \subseteq Keys
        OBVIOUS
  <2>2. ~(Cardinality(P) < Limit + R)
    <3> HIDE DEF L, R
    <3> QED BY <1>1, <1>3 DEF First
  <2> HIDE DEF P
  <2>3. Cardinality(P) \in Nat
        BY <2>1, KeysFinite, FS_Subset, FS_CardinalityType
  <2> HIDE DEF R
  <2> QED BY <1>1, <1>2, <2>2, <2>3 DEF P
<1>5. /\ IsFiniteSet(T) /\ Cardinality(T) >= Limit + R
      /\ \A l \in T : Before(l, k)
  <2> DEFINE n == Limit + R
  <2>1. n \in Nat
        BY <1>1, <1>2
  <2>2. Cardinality({l \in L : Before(l, k)}) >= n /\ T = First(n, L)
        BY <1>1, <1>4
  <2> HIDE DEF L, T, n
  <2>3. /\ IsFiniteSet(First(n, L)) /\ Cardinality(First(n, L)) >= n
        /\ \A l \in First(n, L) : Before(l, k)
        BY <1>1, <2>1, <2>2, FirstFull
  <2> QED BY <2>2, <2>3 DEF n
<1>6. {l \in page : Before(l, k)} = page
  <2> HIDE DEF T
  <2> QED BY <1>5
<1>7. Cardinality(page) >= Limit
  <2> DEFINE D == T \cap gone
  <2>1. page \subseteq T /\ D \subseteq gone /\ T = page \cup D /\ page \cap D = {}
        OBVIOUS
  <2> HIDE DEF page, T, D, R
  <2>2. IsFiniteSet(D) /\ Cardinality(D) <= Cardinality(gone) /\ Cardinality(D) \in Nat
        BY <1>2, <2>1, FS_Subset, FS_CardinalityType
  <2>3. /\ IsFiniteSet(page) /\ Cardinality(page) \in Nat /\ Cardinality(T) \in Nat
        BY <1>5, <2>1, FS_Subset, FS_CardinalityType
  <2>4. Cardinality(T) = Cardinality(page) + Cardinality(D)
    <3>1. Cardinality(page \cap D) = 0
          BY <2>1, FS_EmptySet
    <3>2. Cardinality(page \cup D) =
            Cardinality(page) + Cardinality(D) - Cardinality(page \cap D)
          BY <2>2, <2>3, FS_Union
    <3> QED BY <2>1, <2>2, <2>3, <3>1, <3>2
  <2> QED BY <1>1, <1>2, <1>5, <2>2, <2>3, <2>4 DEF R
<1> HIDE DEF page
<1> QED BY <1>6, <1>7 DEF page

(* One key of a page is the last.                                          *)
LEMMA LastKey ==
    ASSUME NEW S \in SUBSET Keys, S # {}
    PROVE  \E k \in S : \A l \in S : Rank[l] <= Rank[k]
<1> DEFINE above(k) == {l \in S : Rank[l] >= Rank[k]}
           family == {above(k) : k \in S}
<1>1. IsFiniteSet(S)
      BY KeysFinite, FS_Subset
<1>2. family \subseteq FiniteSubsetsOf(S) /\ family # {}
  <2>1. \A k \in S : above(k) \in SUBSET S
        OBVIOUS
  <2>2. \A k \in S : above(k) \in FiniteSubsetsOf(S)
        BY <1>1, <2>1, FS_FiniteSubsetsOfFinite
  <2> QED BY <2>2
<1>3. PICK T \in family : \A U \in family : ~(<<U, T>> \in StrictSubsetOrdering(S))
      BY <1>1, <1>2, FS_StrictSubsetOrderingWellFounded, WFMin
<1>4. PICK k \in S : T = above(k)
      OBVIOUS
<1>5. \A l \in S : Rank[l] \in Nat
      BY RankAssumption DEF Keys
<1>6. ASSUME NEW l \in S, Rank[k] < Rank[l]
      PROVE  FALSE
  <2>1. above(l) \subseteq T /\ k \in T /\ k \notin above(l)
        BY <1>4, <1>5, <1>6
  <2>2. T \in SUBSET S /\ above(l) \in SUBSET S
        BY <1>4
  <2>3. <<above(l), T>> \in StrictSubsetOrdering(S)
        BY <2>1, <2>2 DEF StrictSubsetOrdering
  <2> QED BY <1>3, <2>3
<1> QED BY <1>5, <1>6

(* The cursor after a page: that of its last key, or the one before.       *)
LEMMA CursorIs ==
    ASSUME NEW page \in SUBSET Keys, NEW after \in Nat
    PROVE  LET last == {Rank[k] : k \in page} \cup {after}
               r    == CHOOSE r \in last : \A o \in last : o <= r
           IN  r \in last /\ r \in Nat
<1> DEFINE last == {Rank[k] : k \in page} \cup {after}
<1>1. \A k \in page : Rank[k] \in Nat
      BY RankAssumption DEF Keys
<1>2. \E r \in last : \A o \in last : o <= r
  <2>1. CASE page = {}
        BY <2>1
  <2>2. CASE page # {}
    <3>1. PICK k \in page : \A l \in page : Rank[l] <= Rank[k]
          BY <2>2, LastKey
    <3> DEFINE r == IF Rank[k] >= after THEN Rank[k] ELSE after
    <3>2. r \in last /\ r \in Nat /\ Rank[k] <= r /\ after <= r
          BY <1>1
    <3>3. \A l \in page : Rank[l] <= r
      <4> HIDE DEF r
      <4> QED BY <1>1, <3>1, <3>2
    <3>4. \A o \in last : o <= r
      <4> HIDE DEF r
      <4> QED BY <3>2, <3>3
    <3> QED BY <3>2, <3>4
  <2> QED BY <2>1, <2>2
<1>3. last \subseteq Nat
      BY <1>1
<1> HIDE DEF last
<1>4. (CHOOSE r \in last : \A o \in last : o <= r) \in last
      BY <1>2
<1>5. (CHOOSE r \in last : \A o \in last : o <= r) \in Nat
      BY <1>3, <1>4
<1> QED BY <1>4, <1>5 DEF last

-----------------------------------------------------------------------------
(* The types.                                                              *)

(* A row drained leaves items of the type.                                 *)
LEMMA DrainItems ==
    ASSUME items \in Held, NEW a \in Requests, ~IsIntent(a), a.kind # "set-performer",
           Accepted(items, caps, queue, performer, a)
    PROVE  Applied(items, a) \in Held /\ Takes(items, a)
<1>1. Takes(items, a)
      BY DEF Accepted
<1>2. /\ a.at \in Places /\ a.body \in Objects /\ a.flags \in Flags
      /\ a.supersedes \in Places \cup {NoPlace}
      BY RequestIs
<1> QED BY <1>1, <1>2, AppliedItems

(* A sequence without one of its rows.                                     *)
LEMMA RemoveAtIs ==
    ASSUME NEW S, NEW q \in Seq(S), NEW i \in DOMAIN q
    PROVE  /\ RemoveAt(q, i) \in Seq(S) /\ Len(RemoveAt(q, i)) = Len(q) - 1
           /\ \A j \in 1..(Len(q) - 1) :
                RemoveAt(q, i)[j] = IF j < i THEN q[j] ELSE q[j + 1]
<1>1. i \in 1..Len(q) /\ Len(q) \in Nat
      OBVIOUS
<1> DEFINE left == SubSeq(q, 1, i - 1)
           right == SubSeq(q, i + 1, Len(q))
<1>2. /\ left \in Seq(S) /\ Len(left) = i - 1
      /\ \A j \in 1..(i - 1) : left[j] = q[j]
      BY <1>1
<1>3. /\ right \in Seq(S) /\ Len(right) = Len(q) - i
      /\ \A j \in 1..(Len(q) - i) : right[j] = q[i + j]
      BY <1>1
<1> HIDE DEF left, right
<1>4. /\ left \o right \in Seq(S) /\ Len(left \o right) = Len(q) - 1
      BY <1>1, <1>2, <1>3
<1>5. ASSUME NEW j \in 1..(Len(q) - 1)
      PROVE  (left \o right)[j] = IF j < i THEN q[j] ELSE q[j + 1]
  <2>1. CASE j < i
        BY <1>1, <1>2, <1>3, <2>1
  <2>2. CASE j >= i
    <3>1. (left \o right)[j] = right[j - (i - 1)]
          BY <1>1, <1>2, <1>3, <2>2
    <3>2. j - (i - 1) \in 1..(Len(q) - i) /\ i + (j - (i - 1)) = j + 1
          BY <1>1, <2>2
    <3> QED BY <1>3, <2>2, <3>1, <3>2
  <2>3. j < i \/ j >= i
        BY <1>1
  <2> QED BY <2>1, <2>2, <2>3
<1>6. RemoveAt(q, i) = left \o right
      BY DEF RemoveAt, left, right
<1> QED BY <1>4, <1>5, <1>6

(* A row that leaves the queue leaves what is kept of its attempts.        *)
LEMMA LeavesIs ==
    ASSUME TypeOK, NEW i \in DOMAIN queue, Leaves(i)
    PROVE  queue' \in Seq(Requests) /\ tried' \in Seq(BOOLEAN) /\ Len(tried') = Len(queue')
<1>1. /\ queue \in Seq(Requests) /\ tried \in Seq(BOOLEAN) /\ Len(tried) = Len(queue)
      /\ queue' = RemoveAt(queue, i) /\ tried' = RemoveAt(tried, i)
      BY DEF TypeOK, Leaves
<1>2. queue' \in Seq(Requests) /\ Len(queue') = Len(queue) - 1
      BY <1>1, RemoveAtIs
<1>3. i \in DOMAIN tried
      BY <1>1
<1>4. tried' \in Seq(BOOLEAN) /\ Len(tried') = Len(tried) - 1
      BY <1>1, <1>3, RemoveAtIs
<1> QED BY <1>1, <1>2, <1>4

(* What the row the drain is at leaves.                                    *)
LEMMA DrainIs ==
    ASSUME TypeOK, NEW i \in DOMAIN queue, DrainRow(i)
    PROVE  /\ queue[i] \in Requests /\ queue' = RemoveAt(queue, i) /\ Leaves(i)
           /\ items' \in Held /\ performer' \in [Capabilities -> Sources \cup {NoSource}]
           /\ UNCHANGED <<caps, spent>> /\ Watched
<1> DEFINE a == queue[i]
           applied == ~IsIntent(a) /\ Accepted(items, caps, queue, performer, a)
<1>1. a \in Requests
      BY DEF TypeOK
<1>2. /\ Leaves(i) /\ UNCHANGED <<caps, spent>> /\ Watched
      /\ items' = IF applied /\ a.kind # "set-performer" THEN Applied(items, a) ELSE items
      /\ performer' = IF applied /\ a.kind = "set-performer"
                      THEN [performer EXCEPT ![a.cap] = a.source] ELSE performer
      BY DEF DrainRow
<1>3. queue' = RemoveAt(queue, i)
      BY <1>2 DEF Leaves
<1>4. items \in Held /\ items' \in Held
      BY <1>1, <1>2, DrainItems DEF TypeOK, Held
<1>5. performer' \in [Capabilities -> Sources \cup {NoSource}]
  <2>1. performer \in [Capabilities -> Sources \cup {NoSource}]
        BY DEF TypeOK
  <2>2. a.kind = "set-performer" => a.cap \in Capabilities /\ a.source \in Sources \cup {NoSource}
        BY <1>1, RequestIs
  <2> QED BY <1>2, <2>1, <2>2
<1> QED BY <1>1, <1>2, <1>3, <1>4, <1>5

(* What the end of a page leaves of the scan.                              *)
LEMMA TurnPageIs ==
    ASSUME TypeOK, TurnPage
    PROVE  LET page == First(Limit, scan.page) IN
           /\ UNCHANGED <<items, queue, tried, caps, performer, spent>> /\ kept' = kept \ page
           /\ scan \in Scans /\ scan.left = {} /\ scan.reading = "arrivals"
           /\ scan' \in Scans /\ page \subseteq Keys /\ scan'.in = scan.in
           /\ scan'.after \in {Rank[k] : k \in page} \cup {scan.after}
           /\ scan'.reading \in {"none", "ended"}
           /\ scan'.reading = "ended" => Cardinality(page) < Limit
<1> DEFINE page == First(Limit, scan.page)
           last == {Rank[k] : k \in page} \cup {scan.after}
           after == CHOOSE r \in last : \A o \in last : o <= r
           reading == IF Cardinality(page) < Limit THEN "ended" ELSE "none"
<1>1. /\ scan \in Scans /\ scan.after \in Nat /\ scan.left = {}
      /\ scan.reading = "arrivals" /\ scan.page \in SUBSET Keys
      BY DEF TurnPage, Reading, TypeOK, Scans
<1>2. page \in SUBSET Keys
      BY <1>1 DEF First
<1>3. after \in last /\ after \in Nat
  <2> HIDE DEF page
  <2> QED BY <1>1, <1>2, CursorIs
<1>4. scan' = [scan EXCEPT !.reading = reading, !.after = after, !.gone = {}, !.page = {}]
      BY DEF TurnPage
<1>5. UNCHANGED <<items, queue, tried, caps, performer, spent>> /\ kept' = kept \ page
      BY DEF TurnPage, OnlyReads
<1>6. reading \in {"none", "ended"} /\ (reading = "ended" => Cardinality(page) < Limit)
      OBVIOUS
<1>7. /\ scan' \in Scans /\ scan'.in = scan.in /\ scan'.after = after
      /\ scan'.reading = reading
  <2> HIDE DEF page, after, reading
  <2> QED BY <1>1, <1>2, <1>3, <1>4, <1>6 DEF Scans
<1> HIDE DEF after, reading
<1> QED BY <1>1, <1>2, <1>3, <1>5, <1>6, <1>7

(* What the statements of a page before its end leave of the scan.         *)
LEMMA ReadIs ==
    ASSUME TypeOK
    PROVE  /\ ReadPending \/ ReadRows \/ (\E k \in Keys, from \in Collections : ReadArrival(k, from))
             => /\ UNCHANGED <<items, queue, tried, caps, performer, kept, spent>>
                /\ scan \in Scans /\ scan' \in Scans
                /\ scan'.in = scan.in /\ scan'.after = scan.after
                /\ scan'.reading \in {"rows", "arrivals"}
<1>1. scan # NoScan => scan \in Scans
      BY DEF TypeOK
<1>2. CASE ReadPending
  <2>1. Removed(queue, scan.in) \in SUBSET Keys
        BY DEF Removed
  <2>2. Arriving(queue, scan.in) \in SUBSET (Keys \X Collections)
    <3> SUFFICES ASSUME NEW k \in Keys, Arrivals(queue, scan.in, k) # {}
                 PROVE  ArrivesFrom(queue, scan.in, k) \in Collections
        BY DEF Arriving
    <3> DEFINE A == Arrivals(queue, scan.in, k)
    <3>1. A \in SUBSET (1..Len(queue)) /\ Len(queue) \in Nat /\ A # {}
          BY DEF Arrivals, TypeOK
    <3>2. Latest(A) \in A
      <4> HIDE DEF A
      <4> QED BY <3>1, LatestIs
    <3>3. queue[Latest(A)] \in Requests /\ queue[Latest(A)].kind \in {"move", "copy"}
      <4>1. queue \in Seq(Requests)
            BY DEF TypeOK
      <4>2. Latest(A) \in DOMAIN queue /\ queue[Latest(A)].kind \in {"move", "copy"}
            BY <3>2 DEF Arrivals
      <4> QED BY <4>1, <4>2
    <3>4. queue[Latest(A)].at \in Places
      <4> HIDE DEF A
      <4> QED BY <3>3, RequestIs
    <3> QED BY <3>4 DEF ArrivesFrom, Places
  <2> QED BY <1>1, <1>2, <2>1, <2>2 DEF ReadPending, Reading, OnlyReads, Scans
<1>3. CASE ReadRows
  <2> DEFINE page == Fetch(scan.in, scan.after, Reach(scan.gone)) \ scan.gone
  <2>1. page \in SUBSET Keys
        BY DEF Fetch, First
  <2>2. scan' = [scan EXCEPT !.reading = "arrivals", !.page = page]
        BY <1>3 DEF ReadRows
  <2> HIDE DEF page
  <2> QED BY <1>1, <1>3, <2>1, <2>2 DEF ReadRows, Reading, OnlyReads, Scans
<1>4. ASSUME NEW k \in Keys, NEW from \in Collections, ReadArrival(k, from)
      PROVE  /\ UNCHANGED <<items, queue, tried, caps, performer, kept, spent>>
             /\ scan \in Scans /\ scan' \in Scans
             /\ scan'.in = scan.in /\ scan'.after = scan.after
             /\ scan'.reading \in {"rows", "arrivals"}
      BY <1>1, <1>4 DEF ReadArrival, Reading, OnlyReads, Scans
<1> QED BY <1>2, <1>3, <1>4

(* What a step spends of a bound is counted.                               *)
LEMMA SpendIs ==
    ASSUME spent \in [append : Nat, change : Nat],
           Spend("append", MaxAppends) \/ Spend("change", MaxChanges)
    PROVE  spent' \in [append : Nat, change : Nat]
BY DEF Spend

(* What a step that only watches the scan leaves of it.                    *)
LEMMA WatchedType ==
    ASSUME TypeOK, Watched
    PROVE  scan' \in Scans \cup {NoScan} /\ kept' \subseteq Keys
BY DEF Watched, TypeOK

(* Every step keeps the types.                                             *)
LEMMA TypeStep ==
    ASSUME TypeOK, [Next]_vars
    PROVE  TypeOK'
<1> DEFINE Rows == InitRows \cup UNION {UNION Declarations[s] : s \in Sources}
<1>1. ASSUME NEW a \in Requests, AppendAction(a)
      PROVE  TypeOK'
  <2>1. /\ queue' = Append(queue, a) /\ tried' = Append(tried, FALSE)
        /\ UNCHANGED <<items, caps, performer>> /\ Watched /\ Spend("append", MaxAppends)
        BY <1>1 DEF AppendAction
  <2>2. queue' \in Seq(Requests) /\ tried' \in Seq(BOOLEAN) /\ Len(tried') = Len(queue')
        BY <2>1 DEF TypeOK
  <2> QED BY <2>1, <2>2, SpendIs, WatchedType DEF TypeOK
<1>2. ASSUME NEW i \in DOMAIN queue, DrainRow(i)
      PROVE  TypeOK'
  <2>1. /\ Leaves(i) /\ items' \in Held
        /\ performer' \in [Capabilities -> Sources \cup {NoSource}]
        /\ UNCHANGED <<caps, spent>> /\ Watched
        BY <1>2, DrainIs
  <2> QED BY <2>1, LeavesIs, WatchedType DEF TypeOK, Held
<1>3. ASSUME NEW i \in DOMAIN queue, FailRow(i)
      PROVE  TypeOK'
  <2>1. UNCHANGED <<items, caps, performer, spent>> /\ Watched
        BY <1>3 DEF FailRow
  <2>2. queue' \in Seq(Requests) /\ tried' \in Seq(BOOLEAN) /\ Len(tried') = Len(queue')
    <3>1. CASE Leaves(i)
          BY <3>1, LeavesIs
    <3>2. CASE tried' = [tried EXCEPT ![i] = TRUE] /\ UNCHANGED queue
      <4>1. tried \in Seq(BOOLEAN) /\ i \in 1..Len(tried)
            BY DEF TypeOK
      <4>2. tried' \in Seq(BOOLEAN) /\ Len(tried') = Len(tried)
            BY <3>2, <4>1, ExceptSeq
      <4> QED BY <3>2, <4>2 DEF TypeOK
    <3> QED BY <1>3, <3>1, <3>2 DEF FailRow
  <2> QED BY <2>1, <2>2, WatchedType DEF TypeOK
<1>4. CASE Acknowledge
  <2>1. PICK i \in DOMAIN queue : Leaves(i)
        BY <1>4 DEF Acknowledge
  <2>2. UNCHANGED <<items, caps, performer, spent>> /\ Watched
        BY <1>4 DEF Acknowledge
  <2> QED BY <2>1, <2>2, LeavesIs, WatchedType DEF TypeOK
<1>5. ASSUME NEW s \in Sources, Declare(s)
      PROVE  TypeOK'
  <2>1. PICK new \in Declarations[s] : caps' = Declaration(caps, s, new)
        BY <1>5 DEF Declare
  <2>2. UNCHANGED <<items, queue, tried, performer>> /\ Watched /\ Spend("change", MaxChanges)
        BY <1>5 DEF Declare
  <2>3. caps' \subseteq Rows
        BY <2>1 DEF TypeOK, Declaration
  <2> QED BY <2>2, <2>3, SpendIs, WatchedType DEF TypeOK
<1>6. ASSUME NEW p \in SyncPlaces, SyncWrite(p)
      PROVE  TypeOK'
  <2>1. items' \in SyncWritten(items, p) /\ p \in Places /\ items \in Held
        BY <1>6, StoreAssumption DEF SyncWrite, TypeOK, Held
  <2>2. items' \in Held
        BY <2>1, SyncedItems
  <2>3. UNCHANGED <<queue, tried, caps, performer>> /\ Watched /\ Spend("change", MaxChanges)
        BY <1>6 DEF SyncWrite
  <2> QED BY <2>2, <2>3, SpendIs, WatchedType DEF TypeOK, Held
<1>7. ASSUME NEW c \in Scanned, StartScan(c)
      PROVE  TypeOK'
  <2>1. scan' \in Scans
        BY <1>7 DEF StartScan, Scans
  <2>2. kept' \subseteq Keys
        BY <1>7 DEF StartScan, InView
  <2>3. UNCHANGED <<items, queue, tried, caps, performer, spent>>
        BY <1>7 DEF StartScan
  <2> QED BY <2>1, <2>2, <2>3 DEF TypeOK
<1>8. CASE \/ ReadPending \/ ReadRows
           \/ \E k \in Keys, from \in Collections : ReadArrival(k, from)
  <2>1. /\ UNCHANGED <<items, queue, tried, caps, performer, kept, spent>> /\ scan' \in Scans
        BY <1>8, ReadIs
  <2> QED BY <2>1 DEF TypeOK
<1>9. CASE TurnPage
  <2>1. /\ UNCHANGED <<items, queue, tried, caps, performer, spent>>
        /\ kept' \subseteq kept /\ scan' \in Scans
        BY <1>9, TurnPageIs
  <2> QED BY <2>1 DEF TypeOK
<1>10. CASE UNCHANGED vars
      BY <1>10 DEF vars, TypeOK
<1> QED BY <1>1, <1>2, <1>3, <1>4, <1>5, <1>6, <1>7, <1>8, <1>9, <1>10 DEF Next

(* The first states are of the type.                                       *)
LEMMA InitType == Init => TypeOK
<1> SUFFICES ASSUME Init PROVE TypeOK
    OBVIOUS
<1>1. performer \in [Capabilities -> Sources \cup {NoSource}]
      BY StoreAssumption DEF Init, Capabilities
<1>2. items \in [Places -> Items \cup {NoItem}]
      BY StoreAssumption DEF Init
<1>3. queue \in Seq(Requests) /\ tried \in Seq(BOOLEAN) /\ Len(tried) = Len(queue)
      BY DEF Init
<1> QED BY <1>1, <1>2, <1>3 DEF Init, TypeOK

(* The items, the queue, the declarations and the scan keep their types,   *)
(* whatever is appended, drained, declared and synced.                     *)
THEOREM TypeCorrect == Spec => []TypeOK
BY InitType, TypeStep, PTL DEF Spec

-----------------------------------------------------------------------------
(* A keyset scan.                                                          *)

(* Every key in the view throughout and on no page yet is in the view now  *)
(* and past the cursor.  While a page is read it is not to be removed: it  *)
(* is to be read where it arrives from, or among the rows, and once those  *)
(* are read it is found, or as many as a page asks for are before it.      *)
ToArrive(k) == <<k, ReadIn(items, queue, scan.in, k)>> \in scan.left

Found(k) == k \in scan.page \/ Cardinality({l \in scan.page : Before(l, k)}) >= Limit

ScanInv ==
    scan # NoScan =>
        /\ kept \subseteq InView(items, queue, scan.in)
        /\ \A k \in kept : Rank[k] > scan.after
        /\ scan.reading \in {"rows", "arrivals"} => kept \cap scan.gone = {}
        /\ scan.reading = "rows" =>
               \A k \in kept : ReadIn(items, queue, scan.in, k) # scan.in => ToArrive(k)
        /\ scan.reading = "arrivals" => \A k \in kept : ToArrive(k) \/ Found(k)
        /\ scan.reading = "ended" => kept = {}

(* A step that only watches the scan.                                      *)
LEMMA WatchedScan ==
    ASSUME ScanInv, Watched
    PROVE  ScanInv'
<1> SUFFICES ASSUME scan # NoScan PROVE ScanInv'
    BY DEF ScanInv, Watched
<1>1. UNCHANGED scan /\ kept' \subseteq kept /\ kept' \subseteq InView(items', queue', scan.in)
      /\ \A k \in kept' : Steady(k)
      BY DEF Watched
<1>2. scan.reading \in {"rows", "arrivals"} =>
        \A k \in kept' : ReadIn(items', queue', scan.in, k) = ReadIn(items, queue, scan.in, k)
      BY <1>1 DEF Steady
<1> QED BY <1>1, <1>2 DEF ScanInv, ToArrive, Found

(* Every step keeps the invariant of the scan.                             *)
LEMMA ScanStep ==
    ASSUME TypeOK, ScanInv, [Next]_vars
    PROVE  ScanInv'
<1>0. /\ items \in Held /\ queue \in Seq(Requests)
      /\ scan \in Scans => /\ scan # NoScan /\ scan.in \in Collections /\ scan.after \in Nat
                            /\ scan.gone \in SUBSET Keys /\ scan.page \in SUBSET Keys
      BY StoreAssumption, NoneAssumption DEF Scans, TypeOK, Held
<1>1. CASE Watched
      BY <1>1, WatchedScan
<1>2. ASSUME NEW c \in Scanned, StartScan(c)
      PROVE  ScanInv'
  <2>1. /\ scan'.in = c /\ scan'.after = 0 /\ scan'.reading = "none"
        /\ kept' = InView(items, queue, c) /\ UNCHANGED <<items, queue>>
        BY <1>2 DEF StartScan
  <2>2. kept' = InView(items', queue', scan'.in)
        BY <2>1
  <2>3. \A k \in kept' : Rank[k] > 0
        BY <2>1, RankAssumption DEF InView, Keys
  <2> QED BY <2>1, <2>2, <2>3 DEF ScanInv
<1>3. ASSUME \/ ReadPending \/ ReadRows
             \/ \E k \in Keys, from \in Collections : ReadArrival(k, from)
      PROVE  /\ UNCHANGED <<items, queue, kept>>
             /\ scan \in Scans /\ scan' \in Scans /\ scan' # NoScan
             /\ scan'.in = scan.in /\ scan'.after = scan.after
             /\ scan'.reading \in {"rows", "arrivals"}
             /\ kept' \subseteq InView(items', queue', scan'.in)
             /\ \A k \in kept' : Rank[k] > scan'.after
  <2>1. /\ UNCHANGED <<items, queue, kept>>
        /\ scan \in Scans /\ scan' \in Scans
        /\ scan'.in = scan.in /\ scan'.after = scan.after
        /\ scan'.reading \in {"rows", "arrivals"}
        BY <1>3, ReadIs
  <2> QED BY <1>0, <2>1, NoneAssumption DEF ScanInv
<1>4. ASSUME scan \in Scans, NEW k \in kept
      PROVE  /\ k \in Keys /\ Rank[k] > scan.after /\ k \notin Removed(queue, scan.in)
             /\ Live(items[<<ReadIn(items, queue, scan.in, k), k>>])
             /\ ReadIn(items, queue, scan.in, k) # scan.in =>
                  <<k, ReadIn(items, queue, scan.in, k)>> \in Arriving(queue, scan.in)
  <2>1. k \in InView(items, queue, scan.in) /\ Rank[k] > scan.after
        BY <1>0, <1>4 DEF ScanInv
  <2> QED BY <1>0, <1>4, <2>1, InViewIs
<1>5. CASE ReadPending
  <2>1. /\ scan'.reading = "rows" /\ scan'.gone = Removed(queue, scan.in)
        /\ scan'.left = Arriving(queue, scan.in)
        BY <1>3, <1>5 DEF ReadPending, Scans
  <2>2. kept' \cap scan'.gone = {}
        BY <1>3, <1>4, <1>5, <2>1
  <2>3. \A k \in kept' : ReadIn(items', queue', scan'.in, k) # scan'.in => ToArrive(k)'
        BY <1>3, <1>4, <1>5, <2>1 DEF ToArrive
  <2> QED BY <1>3, <1>5, <2>1, <2>2, <2>3 DEF ScanInv
<1>6. CASE ReadRows
  <2> DEFINE page == Fetch(scan.in, scan.after, Reach(scan.gone)) \ scan.gone
  <2>1. /\ scan.reading = "rows" /\ scan'.reading = "arrivals" /\ scan'.page = page
        /\ scan'.gone = scan.gone /\ scan'.left = scan.left
        BY <1>3, <1>6 DEF ReadRows, Reading, Scans
  <2>2. ASSUME NEW k \in kept
        PROVE  ToArrive(k)' \/ Found(k)'
    <3>1. CASE ReadIn(items, queue, scan.in, k) # scan.in
          BY <1>0, <1>3, <1>6, <2>1, <2>2, <3>1 DEF ScanInv, ToArrive
    <3>2. CASE ReadIn(items, queue, scan.in, k) = scan.in
      <4>1. /\ k \in Keys /\ Rank[k] > scan.after /\ Live(items[<<scan.in, k>>])
            /\ k \notin scan.gone
            BY <1>0, <1>3, <1>4, <1>6, <2>1, <3>2 DEF ScanInv
      <4>2. scan.after \in Nat /\ scan.gone \in SUBSET Keys
            BY <1>0, <1>3, <1>6
      <4>3. k \in page \/ Cardinality({l \in page : Before(l, k)}) >= Limit
            BY <4>1, <4>2, RowsReach
      <4> HIDE DEF page
      <4>4. Found(k)'
            BY <2>1, <4>3 DEF Found, Before
      <4> QED BY <4>4
    <3> QED BY <3>1, <3>2
  <2>3. kept' \cap scan'.gone = {}
        BY <1>0, <1>3, <1>6, <2>1 DEF ScanInv
  <2> QED BY <1>3, <1>6, <2>1, <2>2, <2>3 DEF ScanInv
<1>7. ASSUME NEW l \in Keys, NEW from \in Collections, ReadArrival(l, from)
      PROVE  ScanInv'
  <2> DEFINE found == /\ Live(items[<<from, l>>]) /\ l \notin scan.gone
                      /\ Rank[l] > scan.after
  <2>1. /\ scan.reading = "arrivals" /\ scan'.reading = "arrivals" /\ scan'.gone = scan.gone
        /\ scan'.left = scan.left \ {<<l, from>>}
        /\ scan'.page = IF found THEN scan.page \cup {l} ELSE scan.page
        BY <1>3, <1>7 DEF ReadArrival, Reading, Scans
  <2>2. ASSUME NEW k \in kept
        PROVE  ToArrive(k)' \/ Found(k)'
    <3>1. CASE ToArrive(k) /\ ~ToArrive(k)'
      <4>1. k = l /\ ReadIn(items, queue, scan.in, k) = from
            BY <1>3, <1>7, <2>1, <3>1 DEF ToArrive
      <4>2. found
            BY <1>0, <1>3, <1>4, <1>7, <2>1, <4>1 DEF ScanInv
      <4> QED BY <2>1, <4>1, <4>2 DEF Found
    <3>2. CASE Found(k)
      <4>1. CASE k \in scan.page
            BY <2>1, <4>1 DEF Found
      <4>2. CASE Cardinality({m \in scan.page : Before(m, k)}) >= Limit
        <5> DEFINE P == {m \in scan.page : Before(m, k)}
                   Q == {m \in scan'.page : Before(m, k)}
        <5>1. P \subseteq Q /\ Q \subseteq Keys /\ P \subseteq Keys
              BY <1>0, <1>3, <1>7, <2>1
        <5>2. Cardinality(P) >= Limit
              BY <4>2
        <5> HIDE DEF P, Q
        <5>3. Cardinality(P) <= Cardinality(Q) /\ Cardinality(P) \in Nat
              /\ Cardinality(Q) \in Nat
              BY <5>1, KeysFinite, FS_Subset, FS_CardinalityType
        <5>4. Cardinality(Q) >= Limit
              BY <5>2, <5>3, LimitAssumption
        <5> QED BY <5>4 DEF Q, Found, Before
      <4> QED BY <3>2, <4>1, <4>2 DEF Found
    <3>3. ToArrive(k) \/ Found(k)
          BY <1>0, <1>3, <1>7, <2>1 DEF ScanInv
    <3> QED BY <3>1, <3>2, <3>3
  <2>3. kept' \cap scan'.gone = {}
        BY <1>0, <1>3, <1>7, <2>1 DEF ScanInv
  <2> QED BY <1>3, <1>7, <2>1, <2>2, <2>3 DEF ScanInv
<1>8. CASE TurnPage
  <2> DEFINE page == First(Limit, scan.page)
  <2>1. /\ UNCHANGED <<items, queue>> /\ kept' = kept \ page
        /\ scan \in Scans /\ scan.left = {} /\ scan.reading = "arrivals"
        /\ scan' \in Scans /\ page \subseteq Keys /\ scan'.in = scan.in
        /\ scan'.after \in {Rank[k] : k \in page} \cup {scan.after}
        /\ scan'.reading \in {"none", "ended"}
        /\ scan'.reading = "ended" => Cardinality(page) < Limit
        BY <1>8, TurnPageIs
  <2>2. ASSUME NEW k \in kept'
        PROVE  Rank[k] > scan'.after /\ scan'.reading # "ended"
    <3>1. k \in kept /\ k \notin page
          BY <2>1
    <3>2. k \in Keys /\ Rank[k] > scan.after
          BY <1>4, <2>1, <3>1
    <3>3. Found(k)
          BY <1>0, <2>1, <3>1 DEF ScanInv, ToArrive
    <3>4. Cardinality({l \in scan.page : Before(l, k)}) >= Limit
      <4>1. Cardinality({l \in scan.page : Before(l, k)}) \in Nat
        <5> DEFINE P == {l \in scan.page : Before(l, k)}
        <5>1. P \subseteq Keys
              BY <1>0, <2>1
        <5> HIDE DEF P
        <5> QED BY <5>1, KeysFinite, FS_Subset, FS_CardinalityType DEF P
      <4>2. k \in scan.page => ~(Cardinality({l \in scan.page : Before(l, k)}) < Limit)
            BY <3>1 DEF First
      <4> QED BY <3>3, <4>1, <4>2, LimitAssumption DEF Found
    <3>5. /\ IsFiniteSet(page) /\ Cardinality(page) >= Limit
          /\ \A l \in page : Before(l, k)
      <4>1. Limit \in Nat /\ scan.page \in SUBSET Keys
            BY <1>0, <2>1, LimitAssumption
      <4> QED BY <3>2, <3>4, <4>1, FirstFull
    <3> HIDE DEF page
    <3>6. Rank[k] > scan'.after
          BY <2>1, <3>2, <3>5 DEF Before
    <3>7. ~(Cardinality(page) < Limit)
          BY <3>5, FS_CardinalityType, LimitAssumption
    <3> QED BY <2>1, <3>6, <3>7
  <2>3. kept' \subseteq InView(items', queue', scan'.in)
        BY <1>0, <2>1 DEF ScanInv
  <2> QED BY <2>1, <2>2, <2>3 DEF ScanInv
<1>9. CASE UNCHANGED vars
      BY <1>9 DEF vars, ScanInv, ToArrive, Found
<1>10. \/ Watched \/ \E c \in Scanned : StartScan(c)
       \/ ReadPending \/ ReadRows
       \/ \E k \in Keys, from \in Collections : ReadArrival(k, from)
       \/ TurnPage \/ UNCHANGED vars
      BY DEF Next, AppendAction, DrainRow, FailRow, Acknowledge, Declare, SyncWrite
<1> QED BY <1>1, <1>2, <1>5, <1>6, <1>7, <1>8, <1>9, <1>10

(* A scan sees every item that is in the view from its first page to the   *)
(* short one that ends it, for any limit and whatever is appended, drained *)
(* or synced between two statements of it, while no step in the middle of  *)
(* a page changes the collection the item is read in (overlaid reads past  *)
(* the limit by the pending removals).                                     *)
THEOREM ScanMissesNothing == Spec => []ScanComplete
<1>1. Init => TypeOK /\ ScanInv
      BY InitType DEF Init, ScanInv
<1>2. TypeOK /\ ScanInv /\ [Next]_vars => (TypeOK /\ ScanInv)'
      BY TypeStep, ScanStep
<1>3. ScanInv => ScanComplete
      BY DEF ScanInv, ScanComplete, Reading
<1> QED BY <1>1, <1>2, <1>3, PTL DEF Spec

-----------------------------------------------------------------------------
(* The choice of a performer.                                              *)

(* The rows of a queue choosing a performer of cap.                        *)
ChoicesFor(q, cap) == {i \in DOMAIN q : q[i].kind = "set-performer" /\ q[i].cap = cap}

(* Draining a choice leaves what every capability resolves to, the choice  *)
(* recorded or superseded by one still queued, unless the only other ones  *)
(* of its capability are older.                                            *)
LEMMA ChosenKept ==
    ASSUME NEW q \in Seq(Requests), NEW i \in DOMAIN q, q[i].kind = "set-performer",
           NEW perf \in [Capabilities -> Sources \cup {NoSource}],
           q[i].cap \in Capabilities, NEW cap \in Capabilities,
           \/ \A j \in ChoicesFor(q, q[i].cap) : j >= i
           \/ \E j \in ChoicesFor(q, q[i].cap) : j > i
    PROVE  Chosen(RemoveAt(q, i), [perf EXCEPT ![q[i].cap] = q[i].source], cap)
             = Chosen(q, perf, cap)
<1> DEFINE r == RemoveAt(q, i)
           C == ChoicesFor(q, cap)
           D == ChoicesFor(r, cap)
           after == [perf EXCEPT ![q[i].cap] = q[i].source]
           old(j) == IF j < i THEN j ELSE j + 1
           new(j) == IF j < i THEN j ELSE j - 1
<1>1. /\ Len(q) \in Nat /\ DOMAIN q = 1..Len(q) /\ i \in 1..Len(q)
      /\ r \in Seq(Requests) /\ Len(r) = Len(q) - 1 /\ DOMAIN r = 1..(Len(q) - 1)
      /\ \A j \in 1..(Len(q) - 1) : r[j] = q[old(j)]
  <2>1. /\ r \in Seq(Requests) /\ Len(r) = Len(q) - 1
        /\ \A j \in 1..(Len(q) - 1) : r[j] = IF j < i THEN q[j] ELSE q[j + 1]
        BY RemoveAtIs
  <2> QED BY <2>1
<1> HIDE DEF r
<1>2. /\ \A j \in D : old(j) \in C
      /\ \A j \in C : j # i => new(j) \in D /\ old(new(j)) = j
  <2>1. ASSUME NEW j \in D PROVE old(j) \in C
    <3>1. j \in 1..(Len(q) - 1) /\ r[j].kind = "set-performer" /\ r[j].cap = cap
          BY <1>1 DEF ChoicesFor
    <3>2. r[j] = q[old(j)] /\ old(j) \in DOMAIN q
          BY <1>1, <3>1
    <3> QED BY <3>1, <3>2 DEF ChoicesFor
  <2>2. ASSUME NEW j \in C, j # i PROVE new(j) \in D /\ old(new(j)) = j
    <3>1. j \in 1..Len(q) /\ q[j].kind = "set-performer" /\ q[j].cap = cap
          BY <1>1 DEF ChoicesFor
    <3>2. new(j) \in 1..(Len(q) - 1) /\ old(new(j)) = j
          BY <1>1, <2>2, <3>1
    <3>3. r[new(j)] = q[j]
      <4> HIDE DEF old, new
      <4> QED BY <1>1, <3>2
    <3> HIDE DEF old, new
    <3> QED BY <1>1, <3>1, <3>2, <3>3 DEF ChoicesFor
  <2> QED BY <2>1, <2>2
<1>3. C \in SUBSET (1..Len(q)) /\ D \in SUBSET (1..Len(q)) /\ D \in SUBSET (1..(Len(q) - 1))
      BY <1>1 DEF ChoicesFor
<1>4. /\ Chosen(q, perf, cap) = IF C = {} THEN perf[cap] ELSE q[Latest(C)].source
      /\ Chosen(r, after, cap) = IF D = {} THEN after[cap] ELSE r[Latest(D)].source
      BY DEF Chosen, ChoicesFor
<1>5. i \in C <=> q[i].cap = cap
      BY DEF ChoicesFor
<1>6. i \in C => (\A j \in C : j >= i) \/ (\E j \in C : j > i)
      BY <1>5
<1> HIDE DEF C, D
<1>7. CASE D = {}
  <2>1. C \subseteq {i}
        BY <1>2, <1>7
  <2>2. CASE i \in C
    <3>1. C = {i}
          BY <2>1, <2>2
    <3>2. Latest(C) = i
          BY <1>1, <1>3, <3>1, LatestIs
    <3> QED BY <1>4, <1>5, <1>7, <2>2, <3>2 DEF r
  <2>3. CASE i \notin C
    <3>1. C = {}
          BY <2>1, <2>3
    <3> QED BY <1>4, <1>5, <1>7, <2>3, <3>1 DEF r
  <2> QED BY <2>2, <2>3
<1>8. CASE D # {}
  <2> DEFINE d == Latest(D)
  <2>1. d \in D /\ (\A j \in D : j <= d) /\ d \in 1..(Len(q) - 1)
        BY <1>1, <1>3, <1>8, LatestIs
  <2> HIDE DEF d
  <2>2. old(d) \in C
        BY <1>2, <2>1
  <2>3. \A j \in C : j # i => j <= old(d)
    <3> SUFFICES ASSUME NEW j \in C, j # i PROVE j <= old(d)
        OBVIOUS
    <3>1. new(j) \in D /\ old(new(j)) = j /\ j \in 1..Len(q)
          BY <1>2, <1>3
    <3>2. new(j) <= d /\ new(j) \in Nat /\ d \in Nat /\ i \in Nat /\ j \in Nat
          BY <1>1, <1>3, <2>1, <3>1
    <3> QED BY <3>1, <3>2
  <2>4. i \in C => i <= old(d)
    <3> SUFFICES ASSUME i \in C, ~(i <= old(d)) PROVE FALSE
        OBVIOUS
    <3>1. d \in Nat /\ i \in Nat /\ old(d) < i /\ old(d) \in 1..Len(q)
          BY <1>1, <1>3, <2>1, <2>2
    <3>2. ~\A j \in C : j >= i
          BY <2>2, <3>1
    <3>3. PICK j \in C : j > i
          BY <1>6, <3>2
    <3>4. j # i /\ j \in Nat
          BY <1>1, <1>3, <3>3
    <3>5. j <= old(d)
          BY <2>3, <3>4
    <3> HIDE DEF old
    <3> QED BY <3>1, <3>3, <3>4, <3>5
  <2>5. Latest(C) = old(d)
    <3>1. \A j \in C : j <= old(d)
          BY <2>3, <2>4
    <3> HIDE DEF old
    <3> QED BY <1>1, <1>3, <2>2, <3>1, LatestIs
  <2>6. r[d] = q[old(d)] /\ C # {}
        BY <1>1, <2>1, <2>2
  <2> HIDE DEF old
  <2> QED BY <1>4, <1>8, <2>5, <2>6 DEF r, d
<1> QED BY <1>7, <1>8

(* A choice of performer holds from the moment it is queued: the step that *)
(* records it changes no resolution, but where the last one left queued is *)
(* an older one a failed attempt kept back (chosen in capability.rs, set_  *)
(* performer and drain in producer.rs).                                    *)
THEOREM QueuedChoiceHolds == Spec => ChoiceHolds
<1>1. ASSUME TypeOK, NEW i \in DOMAIN queue, queue[i].kind = "set-performer",
             TakesChoice(caps, queue[i]), ~Overtakes(i), DrainRow(i),
             NEW c \in Collections, NEW cap \in Capabilities
      PROVE  ResolvePerformer(caps, queue', performer', c, cap, NoSource)
               = ResolvePerformer(caps, queue, performer, c, cap, NoSource)
  <2> DEFINE a == queue[i]
  <2>1. /\ a \in Requests /\ queue' = RemoveAt(queue, i)
        /\ queue \in Seq(Requests) /\ performer \in [Capabilities -> Sources \cup {NoSource}]
        BY <1>1, DrainIs DEF TypeOK
  <2>2. ~IsIntent(a) /\ a.cap \in Capabilities
        BY <1>1, <2>1, RequestIs
  <2>3. performer' = [performer EXCEPT ![a.cap] = a.source]
        BY <1>1, <2>2 DEF DrainRow, Accepted
  <2>4. \/ \A j \in ChoicesFor(queue, a.cap) : j >= i
        \/ \E j \in ChoicesFor(queue, a.cap) : j > i
    <3>1. DOMAIN queue = 1..Len(queue) /\ Len(queue) \in Nat /\ i \in 1..Len(queue)
          BY <2>1
    <3>2. CASE \E j \in (i + 1)..Len(queue) : Chooses(j, queue[i].cap)
      <4>1. PICK j \in (i + 1)..Len(queue) : Chooses(j, queue[i].cap)
            BY <3>2
      <4>2. j \in DOMAIN queue /\ j > i
            BY <3>1
      <4> QED BY <4>1, <4>2 DEF Chooses, ChoicesFor
    <3>3. CASE ~\E j \in 1..(i - 1) : Chooses(j, queue[i].cap)
      <4> SUFFICES ASSUME NEW j \in ChoicesFor(queue, a.cap), ~(j >= i) PROVE FALSE
          OBVIOUS
      <4>1. j \in 1..(i - 1) /\ Chooses(j, queue[i].cap)
            BY <3>1 DEF ChoicesFor, Chooses
      <4> QED BY <3>3, <4>1
    <3> QED BY <1>1, <3>2, <3>3 DEF Overtakes
  <2>5. Chosen(queue', performer', cap) = Chosen(queue, performer, cap)
        BY <1>1, <2>1, <2>2, <2>3, <2>4, ChosenKept
  <2> QED BY <2>5 DEF ResolvePerformer
<1>2. TypeOK => [\A i \in DOMAIN queue :
                   (/\ queue[i].kind = "set-performer" /\ TakesChoice(caps, queue[i])
                    /\ ~Overtakes(i) /\ DrainRow(i)) =>
                   \A c \in Collections, cap \in Capabilities :
                     ResolvePerformer(caps, queue', performer', c, cap, NoSource)
                         = ResolvePerformer(caps, queue, performer, c, cap, NoSource)]_vars
      BY <1>1
<1> QED BY <1>2, TypeCorrect, PTL DEF ChoiceHolds

-----------------------------------------------------------------------------
(* What the drain applies can be pushed.                                   *)

(* Every move and copy asked for is between collections of one kind.       *)
KindsAgree ==
    \A a \in Requests : Relocates(a) =>
        a.at[1] \in Declared /\ Domain(a.at[1]) = Domain(a.to)

(* Fewer sources are asked for less.                                       *)
LEMMA CheckLess ==
    ASSUME NEW rows, NEW c, NEW S, NEW T \in SUBSET S, NEW needed, NEW less \in SUBSET needed,
           Check(rows, c, S, needed)
    PROVE  Check(rows, c, T, less)
BY DEF Check

(* A place holds an item of the type, or none.                             *)
LEMMA HeldIs ==
    ASSUME NEW its \in Held, NEW p \in Places
    PROVE  /\ its[p] \in Items \cup {NoItem}
           /\ Live(its[p]) => /\ its[p] \in Items /\ its[p] # NoItem
                              /\ its[p].state \in {"created", "bound", "unbound"}
           /\ p[1] \in Collections /\ p = <<p[1], p[2]>>
BY DEF Held, Live, InState, Places

(* A landing leaves a live item of the flags stated there, and no other    *)
(* place touched.                                                          *)
LEMMA LandIs ==
    ASSUME NEW its \in Held, NEW p \in Places, NEW object \in Objects, NEW flags \in Flags
    PROVE  /\ Land(its, p, object, flags) \in Held
           /\ \A q \in Places : q # p => Land(its, p, object, flags)[q] = its[q]
           /\ Live(Land(its, p, object, flags)[p])
           /\ Land(its, p, object, flags)[p].flags = flags
           /\ Land(its, p, object, flags)[p].object = LandedBody(its, p, object)
           /\ Land(its, p, object, flags)[p].state = "created"
<1> DEFINE row == [state |-> "created", object |-> LandedBody(its, p, object), flags |-> flags,
                   conflict |-> NoBody]
<1>1. Land(its, p, object, flags)[p] = row
      BY DEF Land, Held
<1>2. Land(its, p, object, flags) \in Held
      BY LandItems
<1>3. row # NoItem
  <2>1. row \in Items \cup {NoItem}
        BY <1>1, <1>2, HeldIs
  <2>2. LandedBody(its, p, object) \in Objects
        BY HeldIs DEF LandedBody, InState, Items
  <2>3. row \in Items
        BY <2>2 DEF Items, Objects
  <2> HIDE DEF row
  <2> QED BY <2>3, RowFacts
<1>4. \A q \in Places : q # p => Land(its, p, object, flags)[q] = its[q]
      BY LandItems
<1>5. Live(Land(its, p, object, flags)[p])
      BY <1>1, <1>3 DEF Live, InState
<1> QED BY <1>1, <1>2, <1>4, <1>5

(* A body lands in the collection it is sent to, at its key or at one no   *)
(* row holds.                                                              *)
LEMMA LandingIs ==
    ASSUME NEW its \in Held, NEW p \in Places, NEW object
    PROVE  /\ Landing(its, p, object) \in Places /\ Landing(its, p, object)[1] = p[1]
           /\ Landing(its, p, object) # p => its[Landing(its, p, object)] = NoItem
<1> DEFINE S == MintFree(its, p)
           least == CHOOSE n \in S : \A m \in S : n <= m
<1>1. p[2][2] \in Nat /\ S \subseteq Nat
      BY MintAssumption DEF Places, MintFree
<1>2. ASSUME S # {}
      PROVE  its[Minted(p, least)] = NoItem
  <2>1. \E n \in S : \A m \in S : n <= m
    <3> HIDE DEF S
    <3> QED BY <1>1, <1>2, Least
  <2>2. least \in S
    <3> HIDE DEF S
    <3> QED BY <2>1
  <2> HIDE DEF least
  <2> QED BY <2>2 DEF MintFree
<1>3. Landing(its, p, object) \in Places
      BY LandingPlace
<1>4. \A n : Minted(p, n)[1] = p[1]
      BY DEF Minted
<1>5. CASE OtherMessage(its, p, object) /\ S # {}
  <2>1. Landing(its, p, object) = Minted(p, least)
        BY <1>5 DEF Landing
  <2> HIDE DEF least
  <2> QED BY <1>2, <1>3, <1>4, <1>5, <2>1
<1>6. CASE ~(OtherMessage(its, p, object) /\ S # {})
      BY <1>3, <1>6 DEF Landing
<1> QED BY <1>5, <1>6

(* A remove leaves no live item, and no other place touched.               *)
LEMMA RemoveIs ==
    ASSUME NEW its \in Held, NEW p \in Places, Live(its[p])
    PROVE  /\ ~Live(RemoveItem(its, p)[p])
           /\ \A q \in Places : q # p => RemoveItem(its, p)[q] = its[q]
<1>1. its[p] \in Items /\ its[p] # NoItem /\ its[p].state \in {"created", "bound", "unbound"}
      BY HeldIs
<1>2. CASE its[p].state = "bound"
  <2> DEFINE item == [its[p] EXCEPT !.state = "tombstone", !.conflict = NoBody]
  <2>1. item.state = "tombstone"
        BY <1>1 DEF Items
  <2>2. RemoveItem(its, p) = [its EXCEPT ![p] = item]
        BY <1>2 DEF RemoveItem, Held
  <2> HIDE DEF item
  <2> QED BY <2>1, <2>2 DEF Held, Live, InState
<1>3. CASE its[p].state = "created"
  <2> DEFINE item == [its[p] EXCEPT !.state = "retained", !.conflict = NoBody]
  <2>1. item.state = "retained"
        BY <1>1 DEF Items
  <2>2. RemoveItem(its, p) = Retired(its, p)
        BY <1>3 DEF RemoveItem
  <2>3. Retired(its, p) = [its EXCEPT ![p] = IF HeldElsewhere(its, p, its[p].object)
                                             THEN NoItem ELSE item]
        BY DEF Retired, Held
  <2> HIDE DEF item
  <2> QED BY <2>1, <2>2, <2>3 DEF Held, Live, InState
<1>4. CASE its[p].state = "unbound"
  <2> DEFINE item == [its[p] EXCEPT !.state = "retained"]
  <2>1. item.state = "retained"
        BY <1>1 DEF Items
  <2>2. RemoveItem(its, p) = [its EXCEPT ![p] = item]
        BY <1>4 DEF RemoveItem, Held
  <2> HIDE DEF item
  <2> QED BY <2>1, <2>2 DEF Held, Live, InState
<1> QED BY <1>1, <1>2, <1>3, <1>4

(* A place the drain changes, of a collection a source syncs, that is not  *)
(* on this device alone; and what its source must support there.           *)
Concerns(p) ==
    /\ items'[p] # items[p] /\ Synced(items, p[1])
    /\ HasBinding(items[p]) \/ ~Live(items[p])

Supported(a, p) == Check(caps, p[1], {SourceOf[p[1]]}, Owed(a, p))

(* Nothing is asked of a source where an action leaves nothing to push.    *)
LEMMA OwesNothing ==
    ASSUME NEW a, NEW p, Owed(a, p) = {}
    PROVE  Supported(a, p)
BY DEF Supported, Check

(* What the gate asked before the drain applied an action.                 *)
LEMMA GateIs ==
    ASSUME NEW a \in Requests, ~IsIntent(a), a.kind # "set-performer",
           Gate(caps, queue, performer, items, a)
    PROVE  /\ GateByKind(caps, items, a)
           /\ (a.kind = "add" /\ a.supersedes # NoPlace) =>
                  GateByKind(caps, items, RemoveOf(a.supersedes))
BY DEF Gate, GateAction

(* A bound item that is removed: its holder supports the remove.           *)
LEMMA RemoveSupported ==
    ASSUME NEW a, a.kind \in {"add", "remove"}, NEW b, b.kind = "remove", NEW p \in Places,
           b.at = p, GateByKind(caps, items, b), Concerns(p),
           Live(items[p]), ~Live(items'[p])
    PROVE  Supported(a, p)
<1>1. CASE p[1] \notin Declared
  <2>1. Owed(a, p) = {}
        BY <1>1 DEF Owed
  <2> QED BY <2>1, OwesNothing
<1>2. CASE p[1] \in Declared
  <2>1. AtItem(items, p) = {SourceOf[p[1]]}
        BY DEF Concerns, AtItem
  <2>2. Check(caps, p[1], AtItem(items, p), {<<Domain(p[1]), "remove">>})
    <3> DEFINE needed == Required(p[1], b.kind, FlagsOf(items, b.at), b.flags)
    <3>1. needed = {<<Domain(p[1]), "remove">>}
          BY <1>2 DEF Required
    <3>2. Check(caps, b.at[1], AtItem(items, b.at), needed)
          BY DEF GateByKind
    <3> HIDE DEF needed
    <3> QED BY <3>1, <3>2
  <2>3. Owed(a, p) = {<<Domain(p[1]), "remove">>}
    <3>1. a.kind # "move"
          OBVIOUS
    <3> QED BY <1>2, <3>1 DEF Owed
  <2> QED BY <2>1, <2>2, <2>3 DEF Supported
<1> QED BY <1>1, <1>2

(* What an add lands, and removes of the item it supersedes.               *)
LEMMA AddSupported ==
    ASSUME items \in Held, NEW a \in Requests, a.kind = "add", Takes(items, a),
           Gate(caps, queue, performer, items, a), items' = Applied(items, a),
           NEW p \in Places, Concerns(p)
    PROVE  Supported(a, p)
<1> DEFINE t == Landing(items, a.at, a.body)
           its == Land(items, t, a.body, a.flags)
<1>1. /\ a.at \in Places /\ a.body \in Objects /\ a.flags \in Flags /\ ~IsIntent(a)
      /\ a.supersedes \in Places \cup {NoPlace}
      BY RequestIs
<1>2. t \in Places /\ t[1] = a.at[1] /\ ~Live(items[t])
  <2>1. ~Live(items[a.at])
        BY DEF Takes
  <2>2. t \in Places /\ t[1] = a.at[1] /\ (t # a.at => items[t] = NoItem)
        BY <1>1, LandingIs
  <2> HIDE DEF t
  <2> QED BY <2>1, <2>2 DEF Live, InState
<1>3. /\ its \in Held /\ \A q \in Places : q # t => its[q] = items[q]
      /\ Live(its[t]) /\ its[t].flags = a.flags
  <2> HIDE DEF t
  <2> QED BY <1>1, <1>2, LandIs
<1>4. items' = Supersede(its, a)
      BY DEF Applied
<1>5. /\ GateByKind(caps, items, a)
      /\ a.supersedes # NoPlace => GateByKind(caps, items, RemoveOf(a.supersedes))
      BY <1>1, GateIs
<1>6. ~Relocates(a)
      BY DEF Relocates
<1> HIDE DEF t, its
<1>7. ASSUME p = t, items'[t] = its[t]
      PROVE  Supported(a, p)
  <2>1. CASE p[1] \notin Declared
    <3>1. Owed(a, p) = {}
          BY <2>1 DEF Owed
    <3> QED BY <3>1, OwesNothing
  <2>2. CASE p[1] \in Declared
    <3>1. Owed(a, p) = {<<Domain(p[1]), "add">>} \cup FlagChanges(p[1], {}, a.flags)
          BY <1>2, <1>3, <1>6, <1>7, <2>2 DEF Owed
    <3>2. Required(p[1], "add", {}, a.flags)
            = {<<Domain(p[1]), "add">>} \cup FlagChanges(p[1], {}, a.flags)
          BY <2>2 DEF Required
    <3>3. Check(caps, p[1], AtCollection(items, p[1]), Required(p[1], "add", {}, a.flags))
          BY <1>2, <1>5, <1>7 DEF GateByKind
    <3>4. AtCollection(items, p[1]) = {SourceOf[p[1]]}
          BY DEF AtCollection, Concerns
    <3> QED BY <3>1, <3>2, <3>3, <3>4 DEF Supported
  <2> QED BY <2>1, <2>2
<1>8. CASE a.supersedes = NoPlace \/ a.supersedes = a.at \/ ~Live(its[a.supersedes])
  <2>1. items' = its
        BY <1>4, <1>8 DEF Supersede
  <2>2. p = t
        BY <1>3, <2>1 DEF Concerns
  <2> QED BY <1>7, <2>1, <2>2
<1>9. CASE a.supersedes # NoPlace /\ a.supersedes # a.at /\ Live(its[a.supersedes])
  <2> DEFINE s == a.supersedes
  <2>1. s \in Places /\ items' = RemoveItem(its, s)
        BY <1>1, <1>4, <1>9 DEF Supersede
  <2>2. ~Live(items'[s]) /\ \A q \in Places : q # s => items'[q] = its[q]
        BY <1>3, <1>9, <2>1, RemoveIs
  <2>3. CASE p = s /\ s = t
    <3>1. Owed(a, p) = {}
          BY <1>2, <2>2, <2>3 DEF Owed
    <3> QED BY <3>1, OwesNothing
  <2>4. CASE p = s /\ s # t
    <3>1. Live(items[p]) /\ ~Live(items'[p])
          BY <1>3, <1>9, <2>2, <2>4
    <3>2. /\ GateByKind(caps, items, RemoveOf(p)) /\ RemoveOf(p).kind = "remove"
          /\ RemoveOf(p).at = p
          BY <1>5, <1>9, <2>4 DEF RemoveOf, Action
    <3> QED BY <3>1, <3>2, RemoveSupported
  <2>5. CASE p # s
    <3>1. items'[p] = its[p] /\ p = t
          BY <1>3, <2>2, <2>5 DEF Concerns
    <3> QED BY <1>7, <3>1
  <2> QED BY <2>3, <2>4, <2>5
<1> QED BY <1>8, <1>9

(* What an edit in place owes: the flags it flips, or its new body.        *)
LEMMA EditSupported ==
    ASSUME items \in Held, NEW a \in Requests, a.kind \in {"set-flags", "update"},
           Takes(items, a), Gate(caps, queue, performer, items, a), items' = Applied(items, a),
           NEW p \in Places, Concerns(p)
    PROVE  Supported(a, p)
<1>1. /\ a.at \in Places /\ a.body \in Objects /\ a.flags \in Flags /\ ~IsIntent(a)
      BY RequestIs
<1>2. Live(items[a.at]) /\ items[a.at] \in Items /\ ~Relocates(a)
  <2>1. Live(items[a.at]) /\ ~Relocates(a)
        BY DEF Takes, Relocates
  <2> QED BY <1>1, <2>1, HeldIs
<1> DEFINE row == IF a.kind = "set-flags" THEN [items[a.at] EXCEPT !.flags = a.flags]
                  ELSE [items[a.at] EXCEPT !.object = a.body, !.conflict = NoBody]
<1>3. items' = [items EXCEPT ![a.at] = row]
  <2>1. CASE a.kind = "set-flags"
        BY <2>1 DEF Applied, Held
  <2>2. CASE a.kind = "update"
        BY <2>2 DEF Applied, Held
  <2> QED BY <2>1, <2>2
<1>4. /\ row.state = items[a.at].state /\ row \in Items
      /\ a.kind = "set-flags" => row.flags = a.flags /\ row.object = items[a.at].object
      /\ a.kind = "update" => row.flags = items[a.at].flags
      BY <1>1, <1>2 DEF Items, Objects
<1> HIDE DEF row
<1>5. p = a.at /\ items'[p] = row
      BY <1>1, <1>3 DEF Concerns, Held
<1>6. Live(items'[p])
      BY <1>2, <1>4, <1>5, RowFacts DEF Live, InState
<1>7. AtItem(items, p) = {SourceOf[p[1]]}
      BY <1>2, <1>5 DEF Concerns, AtItem
<1>8. Check(caps, p[1], {SourceOf[p[1]]},
            Required(p[1], a.kind, items[p].flags, a.flags))
  <2>1. GateByKind(caps, items, a)
        BY <1>1, GateIs
  <2>2. Check(caps, a.at[1], AtItem(items, a.at),
              Required(a.at[1], a.kind, FlagsOf(items, a.at), a.flags))
        BY <2>1 DEF GateByKind
  <2>3. FlagsOf(items, a.at) = items[a.at].flags
        BY <1>2 DEF FlagsOf
  <2> QED BY <1>5, <1>7, <2>2, <2>3
<1>9. CASE p[1] \notin Declared
  <2>1. Owed(a, p) = {}
        BY <1>9 DEF Owed
  <2> QED BY <2>1, OwesNothing
<1>10. CASE p[1] \in Declared /\ a.kind = "set-flags"
  <2>1. Owed(a, p) = FlagChanges(p[1], items[p].flags, a.flags)
        BY <1>2, <1>4, <1>5, <1>6, <1>10 DEF Owed
  <2>2. Required(p[1], a.kind, items[p].flags, a.flags)
          = FlagChanges(p[1], items[p].flags, a.flags)
        BY <1>10 DEF Required
  <2> QED BY <1>8, <2>1, <2>2 DEF Supported
<1>11. CASE p[1] \in Declared /\ a.kind = "update"
  <2>1. FlagChanges(p[1], items[p].flags, items[p].flags) = {}
        BY DEF FlagChanges
  <2>2. Owed(a, p) \subseteq IF p[1] \notin Messages THEN {<<Domain(p[1]), "update">>} ELSE {}
    <3>1. Owed(a, p) = FlagChanges(p[1], items[p].flags, items'[p].flags) \cup
                       (IF items[p].object # items'[p].object /\ p[1] \notin Messages
                        THEN {<<Domain(p[1]), "update">>} ELSE {})
          BY <1>2, <1>5, <1>6, <1>11 DEF Owed
    <3>2. items'[p].flags = items[p].flags
          BY <1>4, <1>5, <1>11
    <3> QED BY <2>1, <3>1, <3>2
  <2>3. CASE p[1] \in Messages
    <3>1. Owed(a, p) = {}
          BY <2>2, <2>3
    <3> QED BY <3>1, OwesNothing
  <2>4. CASE p[1] \notin Messages
    <3>1. Required(p[1], a.kind, items[p].flags, a.flags) = {<<Domain(p[1]), "update">>}
          BY <1>11, <2>4 DEF Required
    <3> DEFINE needed == Required(p[1], a.kind, items[p].flags, a.flags)
               S == {SourceOf[p[1]]}
    <3>2. Owed(a, p) \in SUBSET needed /\ S \in SUBSET S
          BY <2>2, <2>4, <3>1
    <3>3. Check(caps, p[1], S, needed)
          BY <1>8
    <3> HIDE DEF needed, S
    <3>4. Check(caps, p[1], S, Owed(a, p))
          BY <3>2, <3>3, CheckLess
    <3> QED BY <3>4 DEF Supported, S
  <2> QED BY <2>3, <2>4
<1> QED BY <1>9, <1>10, <1>11

(* What a move or a copy lands, and what a move leaves behind.             *)
LEMMA RelocateSupported ==
    ASSUME KindsAgree, items \in Held, NEW a \in Requests, a.kind \in {"move", "copy"},
           Takes(items, a), Gate(caps, queue, performer, items, a), items' = Applied(items, a),
           NEW p \in Places, Concerns(p)
    PROVE  Supported(a, p)
<1> DEFINE t == Target(items, a)
           its == Copied(items, a)
           src == items[a.at]
<1>1. /\ a.at \in Places /\ ~IsIntent(a) /\ Relocates(a) /\ a.at[1] \in Declared
      /\ Domain(a.at[1]) = Domain(a.to) /\ a.to \in Declared
      BY RequestIs DEF Relocates, KindsAgree, Takes
<1>2. Live(src) /\ src \in Items /\ src.state \in {"created", "bound"} /\ HasBinding(src)
  <2>1. Live(src) /\ src.state # "unbound"
        BY DEF Takes, OnDevice
  <2>2. src \in Items /\ src # NoItem /\ src.state \in {"created", "bound", "unbound"}
        BY <1>1, <2>1, HeldIs
  <2> QED BY <2>1, <2>2 DEF HasBinding, InState
<1>3. t \in Places /\ t[1] = a.to
  <2> DEFINE d == Claimed(items, a.to, a.at[2])
  <2>1. d \in Places
        BY <1>1, ClaimedPlace, DeclaredAssumption
  <2>2. d[1] = a.to
        BY DEF Claimed, Minted
  <2>3. t = Landing(items, d, src.object)
        BY DEF Target
  <2> HIDE DEF d
  <2> QED BY <2>1, <2>2, <2>3, LandingIs
<1>4. /\ its \in Held /\ \A q \in Places : q # t => its[q] = items[q]
      /\ Live(its[t]) /\ its[t].flags = src.flags /\ its[t].state = "created"
      /\ its[t].object = LandedBody(items, t, src.object)
  <2>1. src.object \in Objects /\ src.flags \in Flags
        BY <1>2 DEF Items
  <2>2. its = Land(items, t, src.object, src.flags)
        BY DEF Copied
  <2> HIDE DEF t, its, src
  <2> QED BY <1>3, <2>1, <2>2, LandIs
<1>5. AtItem(items, a.at) = {SourceOf[a.at[1]]}
      BY <1>2 DEF AtItem
<1>6. FlagsOf(items, a.at) = src.flags
      BY <1>2 DEF FlagsOf
<1>7. /\ Check(caps, a.at[1], {SourceOf[a.at[1]]},
               Required(a.at[1], a.kind, src.flags, a.flags))
      /\ Check(caps, a.to, AtCollection(items, a.to) \ {SourceOf[a.at[1]]},
               Required(a.at[1], "add", {}, src.flags))
  <2>1. GateByKind(caps, items, a)
        BY <1>1, GateIs
  <2> HIDE DEF src
  <2> QED BY <1>5, <1>6, <2>1 DEF GateByKind
<1> HIDE DEF t, its, src
<1>8. ASSUME p = t, p # a.at, items'[p] = its[t]
      PROVE  Supported(a, p)
  <2>1. CASE SourceOf[a.at[1]] = SourceOf[p[1]]
    <3>1. Owed(a, p) = {}
          BY <1>1, <1>4, <1>8, <2>1 DEF Owed
    <3> QED BY <3>1, OwesNothing
  <2>2. CASE SourceOf[a.at[1]] # SourceOf[p[1]]
    <3>1. Owed(a, p) = {<<Domain(p[1]), "add">>} \cup FlagChanges(p[1], {}, src.flags)
          BY <1>1, <1>3, <1>4, <1>8, <2>2 DEF Owed
    <3>2. Required(a.at[1], "add", {}, src.flags)
            = {<<Domain(a.at[1]), "add">>} \cup FlagChanges(a.at[1], {}, src.flags)
          BY <1>1 DEF Required
    <3>3. a.to \in Messages <=> a.at[1] \in Messages
          BY <1>1, KindAssumption DEF Domain
    <3>4. Owed(a, p) = Required(a.at[1], "add", {}, src.flags)
      <4>1. p[1] = a.to
            BY <1>3, <1>8
      <4>2. FlagChanges(a.to, {}, src.flags) = FlagChanges(a.at[1], {}, src.flags)
            BY <3>3 DEF FlagChanges
      <4> QED BY <1>1, <3>1, <3>2, <4>1, <4>2
    <3>5. AtCollection(items, a.to) \ {SourceOf[a.at[1]]} = {SourceOf[p[1]]}
      <4>1. p[1] = a.to
            BY <1>3, <1>8
      <4> QED BY <2>2, <4>1 DEF AtCollection, Concerns
    <3> QED BY <1>3, <1>7, <1>8, <3>4, <3>5 DEF Supported
  <2> QED BY <2>1, <2>2
<1>9. CASE a.kind = "copy"
  <2>1. items' = its
        BY <1>9 DEF Applied, its
  <2>2. p = t
        BY <1>4, <2>1 DEF Concerns
  <2>3. CASE p # a.at
        BY <1>8, <2>1, <2>2, <2>3
  <2>4. CASE p = a.at
    <3>1. Live(items[p]) /\ items[p] = src /\ Live(items'[p])
          /\ items'[p].flags = items[p].flags
          BY <1>2, <1>4, <2>1, <2>2, <2>4 DEF src
    <3>2. items'[p].object = items[p].object
      <4>1. items'[p].object = LandedBody(items, p, src.object)
            BY <1>4, <2>1, <2>2
      <4> QED BY <3>1, <4>1 DEF LandedBody
    <3>3. FlagChanges(p[1], items[p].flags, items[p].flags) = {}
          BY DEF FlagChanges
    <3>4. Owed(a, p) = {}
          BY <2>4, <3>1, <3>2, <3>3 DEF Owed
    <3> QED BY <3>4, OwesNothing
  <2> QED BY <2>3, <2>4
<1>10. CASE a.kind = "move"
  <2> DEFINE row == [its[a.at] EXCEPT !.state = IF @ = "bound" THEN "tombstone"
                                                ELSE "withdrawn"]
  <2>1. items' = [its EXCEPT ![a.at] = row]
        BY <1>4, <1>10 DEF Applied, Held, its
  <2>2. row.state \in {"tombstone", "withdrawn"}
    <3>1. its[a.at] \in Items
      <4>1. CASE a.at = t
            BY <1>1, <1>4, <4>1, HeldIs
      <4>2. CASE a.at # t
            BY <1>1, <1>2, <1>4, <4>2 DEF src
      <4> QED BY <4>1, <4>2
    <3> QED BY <3>1 DEF Items
  <2> HIDE DEF row
  <2>3. /\ items'[a.at] = row /\ \A q \in Places : q # a.at => items'[q] = its[q]
        BY <1>1, <1>4, <2>1 DEF Held
  <2>4. ~Live(items'[a.at])
        BY <2>2, <2>3 DEF Live, InState
  <2>5. CASE p = a.at
    <3>1. Owed(a, p) = {<<Domain(p[1]), "move">>}
          BY <1>1, <1>2, <1>10, <2>4, <2>5 DEF Owed, src
    <3>2. Required(a.at[1], a.kind, src.flags, a.flags) = {<<Domain(a.at[1]), "move">>}
          BY <1>1, <1>10 DEF Required
    <3> QED BY <1>7, <2>5, <3>1, <3>2 DEF Supported
  <2>6. CASE p # a.at
    <3>1. items'[p] = its[p] /\ p = t
          BY <1>4, <2>3, <2>6 DEF Concerns
    <3> QED BY <1>8, <2>6, <3>1
  <2> QED BY <2>5, <2>6
<1> QED BY <1>9, <1>10

(* Every place a drained row changes owes its source only what it declares *)
(* to support there at that moment, whatever was declared when the row was *)
(* appended (apply_queued), while no move or copy asks for another kind.   *)
THEOREM AppliedIsSupported == KindsAgree /\ Spec => PushesSupported
<1>1. ASSUME KindsAgree, TypeOK, NEW i \in DOMAIN queue, DrainRow(i),
             NEW p \in Places, Concerns(p)
      PROVE  Supported(queue[i], p)
  <2> DEFINE a == queue[i]
             applied == ~IsIntent(a) /\ Accepted(items, caps, queue, performer, a)
  <2>1. a \in Requests /\ items \in Held
        BY <1>1, DrainIs DEF TypeOK, Held
  <2>2. items' = IF applied /\ a.kind # "set-performer" THEN Applied(items, a) ELSE items
        BY <1>1 DEF DrainRow
  <2>3. applied /\ a.kind # "set-performer" /\ items' = Applied(items, a)
        BY <1>1, <2>2 DEF Concerns
  <2>4. Gate(caps, queue, performer, items, a) /\ Takes(items, a) /\ ~IsIntent(a)
        BY <2>3 DEF Accepted
  <2>5. a.kind \in {"add", "remove", "set-flags", "update", "copy", "move"}
        BY <2>1, <2>3, <2>4, RequestIs
  <2> HIDE DEF a
  <2>6. CASE a.kind = "add"
        BY <1>1, <2>1, <2>3, <2>4, <2>6, AddSupported DEF a
  <2>7. CASE a.kind = "remove"
    <3>1. a.at \in Places
          BY <2>1, <2>7, RequestIs
    <3>2. Live(items[a.at]) /\ items' = RemoveItem(items, a.at)
          BY <1>1, <2>3, <2>7 DEF Applied, Concerns
    <3>3. p = a.at /\ ~Live(items'[p])
          BY <1>1, <2>1, <3>1, <3>2, RemoveIs DEF Concerns
    <3>4. GateByKind(caps, items, a)
          BY <2>1, <2>3, <2>4, GateIs
    <3> QED BY <1>1, <2>7, <3>2, <3>3, <3>4, RemoveSupported DEF a
  <2>8. CASE a.kind \in {"set-flags", "update"}
        BY <1>1, <2>1, <2>3, <2>4, <2>8, EditSupported DEF a
  <2>9. CASE a.kind \in {"move", "copy"}
        BY <1>1, <2>1, <2>3, <2>4, <2>9, RelocateSupported DEF a
  <2> QED BY <2>5, <2>6, <2>7, <2>8, <2>9
<1> SUFFICES ASSUME KindsAgree PROVE Spec => PushesSupported
    OBVIOUS
<1>2. TypeOK => [\A i \in DOMAIN queue : DrainRow(i) =>
        \A p \in Places : (items'[p] # items[p] /\ Synced(items, p[1])
                           /\ (HasBinding(items[p]) \/ ~Live(items[p]))) =>
            Check(caps, p[1], {SourceOf[p[1]]}, Owed(queue[i], p))]_vars
      BY <1>1 DEF Concerns, Supported
<1> QED BY <1>2, TypeCorrect, PTL DEF PushesSupported
=============================================================================
