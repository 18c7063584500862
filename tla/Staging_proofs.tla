--------------------------- MODULE Staging_proofs ---------------------------
(***************************************************************************)
(* What the operators of Staging.tla leave of the items, whatever the      *)
(* action: items again, and every item a server holds still on it.  Queue_ *)
(* proofs.tla and Overlay_proofs.tla rest on these lemmas.                 *)
(***************************************************************************)
EXTENDS Staging, FiniteSetTheorems, WellFoundedInduction, TLAPS

(* The items of a store.                                                   *)
Held == [Places -> Items \cup {NoItem}]

(* Of the numbers a key may be minted with, one is the least.              *)
LEMMA LeastNumber ==
    ASSUME NEW S \in SUBSET Nat, IsFiniteSet(S), S # {}
    PROVE  \E n \in S : \A m \in S : n <= m
<1> DEFINE upTo(n) == {m \in S : m <= n}
           family == {upTo(n) : n \in S}
<1>1. family \subseteq FiniteSubsetsOf(S) /\ family # {}
  <2>1. \A n \in S : upTo(n) \in SUBSET S
        OBVIOUS
  <2>2. \A n \in S : upTo(n) \in FiniteSubsetsOf(S)
        BY <2>1, FS_FiniteSubsetsOfFinite
  <2> QED BY <2>2
<1>2. PICK T \in family : \A U \in family : ~(<<U, T>> \in StrictSubsetOrdering(S))
      BY <1>1, FS_StrictSubsetOrderingWellFounded, WFMin
<1>3. PICK n \in S : T = upTo(n)
      OBVIOUS
<1>4. ASSUME NEW m \in S, m < n
      PROVE  FALSE
  <2>1. /\ \A k \in S : k <= m => k <= n
        /\ n <= n /\ ~(n <= m)
        BY <1>4
  <2>4. upTo(m) \subseteq T /\ n \in T /\ n \notin upTo(m)
        BY <1>3, <2>1
  <2>2. T \in SUBSET S /\ upTo(m) \in SUBSET S
        BY <1>3
  <2>3. <<upTo(m), T>> \in StrictSubsetOrdering(S)
        BY <2>4, <2>2 DEF StrictSubsetOrdering
  <2> QED BY <1>2, <2>3
<1> QED BY <1>4

(* Of any numbers one is the least.                                        *)
LEMMA Least ==
    ASSUME NEW S \in SUBSET Nat, S # {}
    PROVE  \E n \in S : \A m \in S : n <= m
<1>1. PICK k \in S : TRUE
      OBVIOUS
<1> DEFINE T == {m \in S : m <= k}
<1>2. T \in SUBSET Nat /\ k \in T /\ k \in Nat
  <2>1. k \in Nat /\ k <= k
        BY <1>1
  <2>2. T \subseteq Nat
        OBVIOUS
  <2> QED BY <1>1, <2>1, <2>2
<1>5. T \subseteq 0..k
      BY <1>2
<1>3. IsFiniteSet(T)
  <2> HIDE DEF T
  <2>1. IsFiniteSet(0..k)
        BY <1>2, FS_Interval
  <2> QED BY <1>5, <2>1, FS_Subset
<1>4. PICK n \in T : \A m \in T : n <= m
  <2> HIDE DEF T
  <2> QED BY <1>2, <1>3, LeastNumber
<1> QED BY <1>1, <1>4

(* A body lands at a place the store knows.                                *)
LEMMA LandingPlace ==
    ASSUME NEW its \in Held, NEW p \in Places, NEW object
    PROVE  Landing(its, p, object) \in Places
<1> DEFINE S == MintFree(its, p)
<1>1. PICK c \in Collections, l \in Links, k \in 0..MaxMint : p = <<c, <<l, k>>>>
      BY DEF Places
<1>2. S \subseteq 0..MaxMint
      BY <1>1, MintAssumption DEF MintFree
<1>3. ASSUME S # {}
      PROVE  (CHOOSE n \in S : \A m \in S : n <= m) \in 0..MaxMint
  <2>1. IsFiniteSet(0..MaxMint) /\ 0..MaxMint \subseteq Nat
        BY MintAssumption, FS_Interval
  <2>2. \E n \in S : \A m \in S : n <= m
    <3> HIDE DEF S
    <3> QED BY <1>2, <1>3, <2>1, LeastNumber, FS_Subset
  <2>3. (CHOOSE n \in S : \A m \in S : n <= m) \in S
    <3> HIDE DEF S
    <3> QED BY <2>2
  <2> QED BY <1>2, <2>3
<1>4. \A n \in 0..MaxMint : Minted(p, n) \in Places
      BY <1>1 DEF Minted, Places
<1> QED BY <1>3, <1>4 DEF Landing

(* A key Claimed names is of a place the store knows.                      *)
LEMMA ClaimedPlace ==
    ASSUME NEW its, NEW to \in Collections, NEW p \in Places
    PROVE  Claimed(its, to, p[2]) \in Places
<1>1. PICK c \in Collections, l \in Links, k \in 0..MaxMint : p = <<c, <<l, k>>>>
      BY DEF Places
<1>2. \A n \in 0..MaxMint : Minted(<<to, p[2]>>, n) \in Places
      BY <1>1 DEF Minted, Places
<1>3. 0 \in 0..MaxMint /\ 1 \in 0..MaxMint /\ 2 \in 0..MaxMint
      BY MintAssumption
<1> QED BY <1>2, <1>3 DEF Claimed

(* The state of a row is one of six; no row is NoItem.                     *)
LEMMA RowFacts ==
    ASSUME NEW item \in Items
    PROVE  /\ item # NoItem
           /\ item = [state |-> item.state, object |-> item.object,
                      flags |-> item.flags, conflict |-> item.conflict]
           /\ \A s \in {"created", "bound", "unbound", "tombstone", "withdrawn", "retained"} :
                [item EXCEPT !.state = s] \in Items /\ [item EXCEPT !.state = s].state = s
           /\ \A o \in Objects : /\ [item EXCEPT !.object = o] \in Items
                                 /\ [item EXCEPT !.object = o].state = item.state
                                 /\ [item EXCEPT !.conflict = o] \in Items
                                 /\ [item EXCEPT !.conflict = o].state = item.state
           /\ \A f \in Flags : /\ [item EXCEPT !.flags = f] \in Items
                               /\ [item EXCEPT !.flags = f].state = item.state
BY NoItemAssumption DEF Items, Objects

(* A retirement leaves rows of the type.                                   *)
LEMMA RetiredItems ==
    ASSUME NEW its \in Held, NEW p \in Places, its[p] # NoItem
    PROVE  /\ Retired(its, p) \in Held
           /\ \A q \in Places : q # p => Retired(its, p)[q] = its[q]
<1> DEFINE item == [its[p] EXCEPT !.state = "retained", !.conflict = NoBody]
<1>1. its[p] \in Items
      BY DEF Held
<1>2. item \in Items
      BY <1>1 DEF Items, Objects
<1>3. Retired(its, p) = [its EXCEPT ![p] = IF HeldElsewhere(its, p, its[p].object)
                                           THEN NoItem ELSE item]
      BY DEF Retired, Held
<1> HIDE DEF item
<1> QED BY <1>2, <1>3 DEF Held

(* A landing leaves rows of the type.                                      *)
LEMMA LandItems ==
    ASSUME NEW its \in Held, NEW p \in Places, NEW object \in Objects, NEW flags \in Flags
    PROVE  /\ Land(its, p, object, flags) \in Held
           /\ \A q \in Places : q # p => Land(its, p, object, flags)[q] = its[q]
<1>1. InState(its[p], {"created", "withdrawn", "unbound"}) \/ InState(its[p], {"retained"})
        => its[p].object \in Objects
      BY DEF InState, Held, Items
<1>2. LandedBody(its, p, object) \in Objects
      BY <1>1 DEF LandedBody
<1>3. [state |-> "created", object |-> LandedBody(its, p, object),
       flags |-> flags, conflict |-> NoBody] \in Items
      BY <1>2 DEF Items, Objects
<1> QED BY <1>3 DEF Land, Held

(* A removal leaves rows of the type.                                      *)
LEMMA RemoveItems ==
    ASSUME NEW its \in Held, NEW p \in Places, Live(its[p])
    PROVE  /\ RemoveItem(its, p) \in Held
           /\ \A q \in Places : OnServer(its[q]) => OnServer(RemoveItem(its, p)[q])
<1>1. its[p] \in Items /\ its[p] # NoItem /\ its[p].state \in {"created", "bound", "unbound"}
      BY DEF Live, InState, Held
<1>2. CASE its[p].state = "bound"
  <2> DEFINE item == [its[p] EXCEPT !.state = "tombstone", !.conflict = NoBody]
  <2>1. item \in Items /\ item.state = "tombstone" /\ item # NoItem
        BY <1>1, NoItemAssumption DEF Items, Objects
  <2>2. RemoveItem(its, p) = [its EXCEPT ![p] = item]
        BY <1>2 DEF RemoveItem, Held
  <2> HIDE DEF item
  <2> QED BY <2>1, <2>2 DEF Held, OnServer, InState
<1>3. CASE its[p].state = "created"
  <2>1. RemoveItem(its, p) = Retired(its, p)
        BY <1>3 DEF RemoveItem
  <2> QED BY <1>1, <1>3, <2>1, RetiredItems DEF OnServer, InState
<1>4. CASE its[p].state = "unbound"
  <2> DEFINE item == [its[p] EXCEPT !.state = "retained"]
  <2>1. item \in Items
        BY <1>1, RowFacts
  <2>2. RemoveItem(its, p) = [its EXCEPT ![p] = item]
        BY <1>4 DEF RemoveItem, Held
  <2> HIDE DEF item
  <2> QED BY <1>1, <1>4, <2>1, <2>2 DEF Held, OnServer, InState
<1> QED BY <1>1, <1>2, <1>3, <1>4

(* A copy lands at a place of the collection it names.                     *)
LEMMA CopyTarget ==
    ASSUME NEW rows \in Held, NEW a, a.at \in Places, a.to \in Declared, Live(rows[a.at])
    PROVE  /\ Target(rows, a) \in Places /\ Copied(rows, a) \in Held
           /\ \A q \in Places : q # Target(rows, a) => Copied(rows, a)[q] = rows[q]
           /\ Copied(rows, a)[Target(rows, a)].state = "created"
           /\ Copied(rows, a)[Target(rows, a)] \in Items
<1>1. rows[a.at] \in Items
      BY DEF Live, InState, Held
<1>2. Target(rows, a) \in Places
      BY ClaimedPlace, LandingPlace, DeclaredAssumption DEF Target
<1>3. rows[a.at].object \in Objects /\ rows[a.at].flags \in Flags
      BY <1>1 DEF Items
<1>4. Copied(rows, a) \in Held
      BY <1>2, <1>3, LandItems DEF Copied
<1>5. \A q \in Places : q # Target(rows, a) => Copied(rows, a)[q] = rows[q]
      BY <1>2, <1>3, LandItems DEF Copied
<1>6. /\ Copied(rows, a)[Target(rows, a)].state = "created"
      /\ Copied(rows, a)[Target(rows, a)] # NoItem
  <2>1. LandedBody(rows, Target(rows, a), rows[a.at].object) \in Objects
        BY <1>2, <1>3 DEF LandedBody, InState, Held, Items
  <2> DEFINE r == [state |-> "created",
                   object |-> LandedBody(rows, Target(rows, a), rows[a.at].object),
                   flags |-> rows[a.at].flags, conflict |-> NoBody]
  <2>2. r \in Items /\ r.state = "created"
        BY <1>3, <2>1 DEF Items, Objects
  <2>3. Copied(rows, a)[Target(rows, a)] = r
        BY <1>2 DEF Copied, Land, Held
  <2> HIDE DEF r
  <2> QED BY <2>2, <2>3, RowFacts
<1> QED BY <1>2, <1>4, <1>5, <1>6 DEF Held

(* The items an action leaves: a row landed is never over one the server   *)
(* holds, and what is removed there keeps its tombstone.                   *)
LEMMA AppliedItems ==
    ASSUME NEW rows \in Held, NEW a, Takes(rows, a),
           a.at \in Places, a.body \in Objects, a.flags \in Flags,
           a.supersedes \in Places \cup {NoPlace}
    PROVE  /\ Applied(rows, a) \in Held
           /\ \A q \in Places : OnServer(rows[q]) => OnServer(Applied(rows, a)[q])
<1>1. CASE a.kind = "add"
  <2> DEFINE t == Landing(rows, a.at, a.body)
             its == Land(rows, t, a.body, a.flags)
  <2>1. t \in Places /\ ~OnServer(rows[t])
        BY <1>1, LandingPlace DEF Takes, Rebind, OnServer
  <2>2. its \in Held /\ \A q \in Places : q # t => its[q] = rows[q]
        BY <2>1, LandItems
  <2>3. \A q \in Places : OnServer(rows[q]) => OnServer(its[q])
        BY <2>1, <2>2
  <2>4. Applied(rows, a) = Supersede(its, a)
        BY <1>1 DEF Applied
  <2> HIDE DEF its
  <2>5. CASE a.supersedes = NoPlace \/ a.supersedes = a.at \/ ~Live(its[a.supersedes])
        BY <2>2, <2>3, <2>4, <2>5 DEF Supersede
  <2>6. CASE /\ a.supersedes # NoPlace /\ a.supersedes # a.at
             /\ Live(its[a.supersedes])
    <3>1. Supersede(its, a) = RemoveItem(its, a.supersedes)
          BY <2>6 DEF Supersede
    <3> QED BY <2>2, <2>3, <2>4, <2>6, <3>1, RemoveItems
  <2> QED BY <2>5, <2>6
<1>2. CASE a.kind = "remove"
  <2>1. CASE Live(rows[a.at])
        BY <1>2, <2>1, RemoveItems DEF Applied
  <2>2. CASE ~Live(rows[a.at])
        BY <1>2, <2>2 DEF Applied
  <2> QED BY <2>1, <2>2
<1>3. CASE a.kind = "set-flags"
  <2> DEFINE item == [rows[a.at] EXCEPT !.flags = a.flags]
  <2>1. rows[a.at] \in Items
        BY <1>3 DEF Takes, Live, InState, Held
  <2>2. item \in Items /\ item # NoItem /\ item.state = rows[a.at].state
        BY <2>1, NoItemAssumption DEF Items, Objects
  <2>3. Applied(rows, a) = [rows EXCEPT ![a.at] = item]
        BY <1>3 DEF Applied, Held
  <2> HIDE DEF item
  <2> QED BY <2>2, <2>3 DEF Held, OnServer, InState
<1>4. CASE a.kind = "update"
  <2> DEFINE item == [rows[a.at] EXCEPT !.object = a.body, !.conflict = NoBody]
  <2>1. rows[a.at] \in Items
        BY <1>4 DEF Takes, Live, InState, Held
  <2>2. item \in Items /\ item # NoItem /\ item.state = rows[a.at].state
        BY <2>1, NoItemAssumption DEF Items, Objects
  <2>3. Applied(rows, a) = [rows EXCEPT ![a.at] = item]
        BY <1>4 DEF Applied, Held
  <2> HIDE DEF item
  <2> QED BY <2>2, <2>3 DEF Held, OnServer, InState
<1>5. CASE a.kind = "copy"
  <2>1. /\ a.to \in Declared /\ Live(rows[a.at])
        /\ ~OnServer(rows[Target(rows, a)])
        BY <1>5 DEF Takes, Rebind, OnServer
  <2>2. Applied(rows, a) = Copied(rows, a)
        BY <1>5 DEF Applied
  <2> QED BY <2>1, <2>2, CopyTarget
<1>6. CASE a.kind = "move"
  <2> DEFINE its == Copied(rows, a)
             item == [its[a.at] EXCEPT !.state = IF @ = "bound" THEN "tombstone"
                                                 ELSE "withdrawn"]
  <2>1. /\ a.to \in Declared /\ Live(rows[a.at])
        /\ ~OnServer(rows[Target(rows, a)])
        BY <1>6 DEF Takes, Rebind, OnServer
  <2>2. /\ its \in Held
        /\ \A q \in Places : q # Target(rows, a) => its[q] = rows[q]
        BY <2>1, CopyTarget
  <2>3. its[a.at] \in Items
    <3>1. CASE a.at = Target(rows, a)
      <4>1. its[Target(rows, a)] \in Items
            BY <2>1, CopyTarget
      <4> QED BY <3>1, <4>1
    <3>2. CASE a.at # Target(rows, a)
          BY <2>1, <2>2, <3>2 DEF Live, InState, Held
    <3> QED BY <3>1, <3>2
  <2>4. /\ item \in Items /\ item # NoItem
        /\ its[a.at].state = "bound" => item.state = "tombstone"
    <3> HIDE DEF its
    <3> QED BY <2>3, NoItemAssumption DEF Items, Objects
  <2>5. rows[a.at].state \in {"created", "bound"}
        BY <1>6, <2>1 DEF Takes, OnDevice, Live, InState
  <2>6. OnServer(rows[a.at]) => item.state = "tombstone"
        BY <2>1, <2>2, <2>4, <2>5 DEF OnServer, InState
  <2>7. Applied(rows, a) = [its EXCEPT ![a.at] = item]
        BY <1>6, <2>2 DEF Applied, Held
  <2> HIDE DEF item, its
  <2> QED BY <2>1, <2>2, <2>4, <2>6, <2>7 DEF Held, OnServer, InState
<1> QED BY <1>1, <1>2, <1>3, <1>4, <1>5, <1>6 DEF Takes

(* A sync leaves rows of the type.                                         *)
LEMMA SyncedItems ==
    ASSUME NEW rows \in Held, NEW p \in Places, NEW its \in SyncWritten(rows, p)
    PROVE  its \in Held
<1>1. CASE rows[p] = NoItem \/ InState(rows[p], {"retained"})
  <2>1. PICK b \in Bodies, f \in Flags :
          its = [rows EXCEPT ![p] = [state |-> "bound", object |-> b, flags |-> f,
                                      conflict |-> NoBody]]
        BY <1>1 DEF SyncWritten, InState
  <2> QED BY <2>1 DEF Held, Items, Objects
<1>2. CASE ~(rows[p] = NoItem \/ InState(rows[p], {"retained"}))
  <2>1. rows[p] \in Items /\ rows[p] # NoItem
        BY <1>2 DEF Held
  <2>2. CASE rows[p].state = "created"
    <3>1. its = [rows EXCEPT ![p] = [rows[p] EXCEPT !.state = "bound"]]
          BY <2>1, <2>2 DEF SyncWritten, InState, Held
    <3> QED BY <2>1, <3>1 DEF Held, Items
  <2>3. CASE rows[p].state \in {"tombstone", "withdrawn"}
        BY <2>1, <2>3, RetiredItems DEF SyncWritten, InState
  <2>4. CASE rows[p].state = "bound"
    <3>1. \/ its = Retired(rows, p)
          \/ \E b \in Bodies : its = [rows EXCEPT ![p].object = b, ![p].conflict = NoBody]
          \/ \E b \in Bodies : its = [rows EXCEPT ![p].conflict = b]
      <4>1. its \in {Retired(rows, p)}
                   \cup {[rows EXCEPT ![p].object = b, ![p].conflict = NoBody] : b \in Bodies}
                   \cup {[rows EXCEPT ![p].conflict = b] : b \in Bodies \ {rows[p].object}}
        <5>1. /\ ~InState(rows[p], {"created"}) /\ ~InState(rows[p], {"tombstone", "withdrawn"})
              /\ InState(rows[p], {"bound"})
              /\ ~(rows[p] = NoItem \/ InState(rows[p], {"retained"}))
              BY <2>1, <2>4 DEF InState
        <5> QED BY <5>1 DEF SyncWritten
      <4> QED BY <4>1
    <3>2. ASSUME NEW b \in Bodies,
                 its = [rows EXCEPT ![p].object = b, ![p].conflict = NoBody]
          PROVE  its \in Held
      <4>1. its = [rows EXCEPT ![p] = [rows[p] EXCEPT !.object = b, !.conflict = NoBody]]
            BY <3>2 DEF Held
      <4> QED BY <2>1, <4>1 DEF Held, Items, Objects
    <3>3. ASSUME NEW b \in Bodies, its = [rows EXCEPT ![p].conflict = b]
          PROVE  its \in Held
      <4>1. its = [rows EXCEPT ![p] = [rows[p] EXCEPT !.conflict = b]]
            BY <3>3 DEF Held
      <4> QED BY <2>1, <4>1 DEF Held, Items, Objects
    <3> QED BY <2>1, <3>1, <3>2, <3>3, RetiredItems
  <2> QED BY <1>2, <2>1, <2>2, <2>3, <2>4 DEF SyncWritten, InState, Items
<1> QED BY <1>1, <1>2
=============================================================================
