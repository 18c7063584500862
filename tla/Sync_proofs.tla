---------------------------- MODULE Sync_proofs ----------------------------
(***************************************************************************)
(* Theorems about Sync.tla, for a kind whose content may be rewritten:     *)
(* every number of sources, identities, members, people's and clients'     *)
(* actions, crashes, refusals and lost answers, every chunk size, every    *)
(* policy and every set of rights.                                         *)
(*                                                                         *)
(*   PushesOnlyOverRead  a push replaces no body the store has not read;   *)
(*   CleanRowsAgree      a clean row of the only source, its member not    *)
(*                       moved since the checkpoint, agrees with it;       *)
(*   EditsStayOwed       no edit no server was given reads as synced.      *)
(*                                                                         *)
(* All three follow from Inv.  It judges every binding of the store, every *)
(* row the run has still to merge and every push it owes against the       *)
(* servers: a base was true of its member once (Grounded), a binding whose *)
(* member has not changed since the checkpoint is at its revision          *)
(* (Tracked), and the store that the staged writes would leave has both    *)
(* properties too (V).  The parts: what folding a batch does to a binding, *)
(* what a merge stages, how the servers move under both, then each action. *)
(***************************************************************************)
EXTENDS Sync, FiniteSetTheorems, WellFoundedInduction, TLAPS

-----------------------------------------------------------------------------
(* The types of the store and of a batch being folded.                     *)

Rows == Placements(Handles, SyncKeys)
Bounds == Bindings(Handles) \cup {NoBinding}
Rowed == HubItems(Handles)
Stores == [Keys -> Rowed \cup {NoItem}]
Batches == [items : Stores, released : [Keys -> Bounds],
            overruling : SUBSET Handles, settling : SUBSET Handles, kept : SUBSET Nat]

(* What source s binds key k by, retained rows not being loaded.           *)
View(I, s, k) == IF Loaded(I, k) THEN I[k].sources[s] ELSE NoBinding

(* A binding holds what a row says, as far as the hub may not have taught  *)
(* an unrevised base another body.                                         *)
Matches(b, p) ==
    /\ b.handle = p.handle
    /\ b.conflictRevision = p.conflictRevision
    /\ b.conflictRevision # NoRev => b.conflictObject = p.conflictObject
    /\ b.base = NoBase <=> p.base = NoBase
    /\ b.base # NoBase =>
         /\ b.base.revision = p.base.revision
         /\ (b.base.revision # NoRev \/ (Mutable /\ p.base.object = NoBody)) =>
              b.base.object = p.base.object

(* Only the body moved.                                                    *)
BodyOnly(i, j) == /\ j \in Rowed /\ j.sources = i.sources
                  /\ j.deleted = i.deleted /\ j.retained = i.retained

(* Settling or recording a divergence moves only the body.                 *)
LEMMA SettledBodyOnly ==
    ASSUME NEW item \in Rowed, NEW b \in Nat
    PROVE  BodyOnly(item, Settled(item, b)) /\ BodyOnly(item, Diverged(item, b))
           /\ BodyOnly(item, [item EXCEPT !.object = b])
BY DEF BodyOnly, Rowed, HubItems, Settled, Diverged, NoBody

(* Folding content moves only the body.                                    *)
LEMMA FoldContentBodyOnly ==
    ASSUME NEW item \in Rowed, NEW s \in Sources, NEW p \in Rows
    PROVE  /\ BodyOnly(item, FoldContent(item, s, p).item)
           /\ FoldContent(item, s, p).lost \subseteq Nat
<1>1. p.object \in Nat /\ item.object \in Nat /\ item.conflictObject \in Nat
      BY DEF Rows, Placements, Rowed, HubItems
<1>2. BodyOnly(item, item)
      BY DEF BodyOnly
<1>3. ASSUME NEW b \in Nat
      PROVE  /\ BodyOnly(item, Fill(item, b).item) /\ Fill(item, b).lost \subseteq Nat
             /\ BodyOnly(item, CrossConflict(item, b).item)
             /\ CrossConflict(item, b).lost \subseteq Nat
      BY <1>1, SettledBodyOnly DEF Fill, CrossConflict, Verdict, NoBody
<1> QED BY <1>1, <1>2, <1>3, SettledBodyOnly DEF FoldContent, Verdict

(* The binding a row makes.                                                *)
LEMMA BindingMade ==
    ASSUME NEW p \in Rows, NEW shared \in Nat
    PROVE  /\ BindingOf(p, shared) \in Bindings(Handles)
           /\ BindingOf(p, shared).handle = p.handle
           /\ BindingOf(p, shared).base = p.base
           /\ BindingOf(p, shared).conflictRevision = p.conflictRevision
           /\ p.conflictRevision # NoRev => BindingOf(p, shared).conflictObject = p.conflictObject
           /\ Matches(BindingOf(p, shared), p)
<1>1. p.conflictObject \in Nat /\ p.conflictRevision \in Nat /\ p.handle \in Handles
      /\ p.base \in Bases \cup {NoBase}
      BY DEF Rows, Placements
<1>2. /\ BindingOf(p, shared) \in Bindings(Handles)
      /\ BindingOf(p, shared).handle = p.handle
      /\ BindingOf(p, shared).base = p.base
      /\ BindingOf(p, shared).conflictRevision = p.conflictRevision
      /\ p.conflictRevision # NoRev => BindingOf(p, shared).conflictObject = p.conflictObject
      BY <1>1 DEF BindingOf, Bindings, NoBody, NoRev
<1> QED BY <1>2 DEF Matches

(* Only a base without a revision adopts the shared body.                  *)
LEMMA ReboundMatches ==
    ASSUME NEW item \in Rowed, NEW p \in Rows, NEW shared \in Nat
    PROVE  /\ Rebound(item, p, shared) \in Bindings(Handles)
           /\ Matches(Rebound(item, p, shared), p)
<1> DEFINE b == BindingOf(p, shared)
<1>1. b \in Bindings(Handles) /\ Matches(b, p) /\ item.object \in Nat
      BY BindingMade DEF Rowed, HubItems
<1> HIDE DEF b
<1>2. ASSUME b.base # NoBase, b.base.revision = NoRev, p.base.object # NoBody
      PROVE  LET c == [b EXCEPT !.base.object = item.object]
             IN  c \in Bindings(Handles) /\ Matches(c, p)
  <2> DEFINE c == [b EXCEPT !.base.object = item.object]
  <2>1. b.base \in Bases
        BY <1>1, <1>2 DEF Bindings
  <2>2. /\ c \in Bindings(Handles) /\ c.handle = b.handle
        /\ c.conflictRevision = b.conflictRevision /\ c.conflictObject = b.conflictObject
        /\ c.base \in Bases /\ c.base.revision = b.base.revision
        BY <1>1, <2>1 DEF Bindings, Bases
  <2>3. c.base # NoBase
        BY <2>2, AbsentAssumption
  <2>4. c \in Bindings(Handles) /\ Matches(c, p)
    <3> HIDE DEF c
    <3> QED BY <1>1, <1>2, <2>2, <2>3 DEF Matches
  <2> QED BY <2>4
<1>3. b.base = p.base
      BY BindingMade DEF b
<1> QED BY <1>1, <1>2, <1>3 DEF Rebound, b

(* What binding a folded body leaves.                                      *)
LEMMA BoundEffect ==
    ASSUME NEW item \in Rowed, NEW s \in Sources, NEW p \in Rows, NEW before \in Nat,
           NEW lost
    PROVE  LET v == Bound([item |-> item, lost |-> lost], s, p, before)
           IN  /\ v.item \in Rowed /\ v.lost = lost
               /\ v.item.deleted = item.deleted /\ v.item.retained = item.retained
               /\ \A t \in Sources : t # s => v.item.sources[t] = item.sources[t]
               /\ Matches(v.item.sources[s], p)
               /\ v.item.sources[s] \in Bindings(Handles)
<1> DEFINE shared == IF p.object # NoBody /\ ~item.conflicted THEN item.object ELSE before
           r == Rebound(item, p, shared)
           v == Bound([item |-> item, lost |-> lost], s, p, before)
<1>1. shared \in Nat
      BY DEF Rowed, HubItems
<1>2. r \in Bindings(Handles) /\ Matches(r, p)
      BY <1>1, ReboundMatches
<1>3. v = [item |-> [item EXCEPT !.sources[s] = r], lost |-> lost]
      BY DEF Bound
<1> HIDE DEF r
<1>4. [item EXCEPT !.sources[s] = r] \in Rowed
      BY <1>2 DEF Rowed, HubItems
<1> QED BY <1>2, <1>3, <1>4 DEF v, Rowed, HubItems

(* The item a row folds into: loaded, the other sources as they were.      *)
LEMMA EntryEffect ==
    ASSUME NEW batch \in Batches, NEW s \in Sources, NEW p \in Rows
    PROVE  LET e == Entry(batch, s, p)
           IN  /\ e \in Rowed /\ ~e.retained
               /\ \A t \in Sources : t # s => e.sources[t] = View(batch.items, t, p.link)
<1> DEFINE k == p.link
           new == [flags |-> p.flags, object |-> p.object, deleted |-> FALSE,
                   conflicted |-> FALSE, conflictObject |-> NoBody,
                   retained |-> FALSE, sources |-> Unbound]
           held == IF Loaded(batch.items, k) THEN batch.items[k] ELSE new
<1>1. k \in Keys /\ p.flags \in FlagSets /\ p.object \in Nat
      BY KeysAssumption DEF Rows, Placements
<1>2. new \in Rowed
      BY <1>1 DEF Rowed, HubItems, NoBody, Unbound
<1>3. batch.items[k] \in Rowed \cup {NoItem} /\ batch.released[k] \in Bounds
      BY <1>1 DEF Batches, Stores
<1>4. held \in Rowed /\ ~held.retained
      BY <1>2, <1>3 DEF Loaded
<1>5. \A t \in Sources : held.sources[t] = View(batch.items, t, k)
      BY DEF View, Unbound
<1>6. Entry(batch, s, p) = IF Binds(held, s) THEN held
                           ELSE [held EXCEPT !.sources[s] = batch.released[k]]
      BY DEF Entry
<1> HIDE DEF held
<1> QED BY <1>3, <1>4, <1>5, <1>6 DEF Rowed, HubItems, Bounds, Binds

-----------------------------------------------------------------------------
(* What a write leaves of the bindings.                                    *)

(* From I to J, only what source s binds key k by moved.                   *)
Within(I, J, s, k) ==
    /\ J \in Stores
    /\ \A j \in Keys : j # k => J[j] = I[j]
    /\ \A t \in Sources : t # s => View(J, t, k) = View(I, t, k)
    /\ I[k] # NoItem => J[k] # NoItem
    /\ Loaded(I, k) => Loaded(J, k)

(* Source s is left binding the row q.                                     *)
Placed(I, J, s, q) ==
    /\ Within(I, J, s, q.link)
    /\ Loaded(J, q.link)
    /\ View(J, s, q.link) \in Bindings(Handles)
    /\ Matches(View(J, s, q.link), q)
    /\ J[q.link].deleted <=> q.status = "Tombstone"
    /\ J[q.link].deleted => ~J[q.link].conflicted

(* Source s is left without a binding of k.                                *)
Removed(I, J, s, k) == Within(I, J, s, k) /\ View(J, s, k) = NoBinding

(* The item an upsert leaves.                                              *)
LEMMA FoldedItem ==
    ASSUME NEW batch \in Batches, NEW s \in Sources, NEW p \in Rows,
           NEW o \in BOOLEAN, NEW g \in BOOLEAN
    PROVE  LET e == Entry(batch, s, p)
               v == IF p.status = "Tombstone" THEN FoldTombstone(e, s, p)
                    ELSE FoldLive(e, s, p, o, g)
           IN  /\ v.item \in Rowed /\ ~v.item.retained /\ v.lost \subseteq Nat
               /\ v.item.deleted <=> p.status = "Tombstone"
               /\ v.item.deleted => ~v.item.conflicted
               /\ \A t \in Sources : t # s => v.item.sources[t] = View(batch.items, t, p.link)
               /\ v.item.sources[s] \in Bindings(Handles)
               /\ Matches(v.item.sources[s], p)
<1> DEFINE e == Entry(batch, s, p)
<1>1. /\ e \in Rowed /\ ~e.retained
      /\ \A t \in Sources : t # s => e.sources[t] = View(batch.items, t, p.link)
      BY EntryEffect
<1>2. p.flags \in FlagSets /\ p.object \in Nat
      BY DEF Rows, Placements
<1> DEFINE before == IF Binds(e, s) THEN e.sources[s].shared ELSE NoBody
<1>3. before \in Nat
      BY <1>1 DEF Rowed, HubItems, Bindings, Binds, NoBody
<1> HIDE DEF e
<1>4. CASE p.status = "Tombstone"
  <2> DEFINE b == BindingOf(p, before)
             w == WithFlags(e, p.flags)
             i == [w EXCEPT !.deleted = TRUE, !.conflicted = FALSE,
                            !.conflictObject = NoBody, !.sources[s] = b]
  <2>1. b \in Bindings(Handles) /\ Matches(b, p)
        BY <1>3, BindingMade
  <2>2. w \in Rowed /\ w.sources = e.sources /\ w.retained = e.retained
        BY <1>1, <1>2 DEF WithFlags, Rowed, HubItems
  <2>3. FoldTombstone(e, s, p) = [item |-> i, lost |-> {}]
        BY DEF FoldTombstone, Verdict
  <2> HIDE DEF b, w
  <2>4. /\ i \in Rowed /\ i.deleted /\ ~i.conflicted /\ i.retained = w.retained
        /\ i.sources = [w.sources EXCEPT ![s] = b]
        BY <2>1, <2>2 DEF Rowed, HubItems, NoBody
  <2>5. i.sources[s] = b /\ \A t \in Sources : t # s => i.sources[t] = w.sources[t]
        BY <2>2, <2>4 DEF Rowed, HubItems
  <2> HIDE DEF i
  <2> DEFINE v == FoldTombstone(e, s, p)
  <2>6. v.item = i /\ v.lost = {}
        BY <2>3
  <2> HIDE DEF v
  <2>7. /\ v.item \in Rowed /\ ~v.item.retained /\ v.lost \subseteq Nat /\ v.item.deleted
        /\ ~v.item.conflicted
        /\ \A t \in Sources : t # s => v.item.sources[t] = View(batch.items, t, p.link)
        /\ v.item.sources[s] \in Bindings(Handles)
        /\ Matches(v.item.sources[s], p)
    <3>1. v.item \in Rowed /\ v.lost \subseteq Nat
          BY <2>4, <2>6
    <3>2. ~v.item.retained
          BY <1>1, <2>2, <2>4, <2>6
    <3>3. v.item.deleted /\ ~v.item.conflicted
          BY <2>4, <2>6
    <3>4. \A t \in Sources : t # s => v.item.sources[t] = View(batch.items, t, p.link)
          BY <1>1, <2>2, <2>5, <2>6
    <3>5. v.item.sources[s] \in Bindings(Handles) /\ Matches(v.item.sources[s], p)
          BY <2>1, <2>5, <2>6
    <3> QED BY <3>1, <3>2, <3>3, <3>4, <3>5
  <2> QED BY <1>4, <2>7 DEF e, v
<1>5. CASE p.status # "Tombstone"
  <2> DEFINE u == Undeleted(e, p)
             c == IF g /\ e.conflicted /\ p.object # NoBody
                  THEN Verdict(Settled(u, p.object), {})
                  ELSE FoldContent(u, s, p)
             d == IF o THEN Overruling(c, p) ELSE c
  <2>1. /\ u \in Rowed /\ u.sources = e.sources /\ u.retained = e.retained /\ ~u.deleted
        BY <1>1, <1>2 DEF Undeleted, WithFlags, Rowed, HubItems
  <2> HIDE DEF u
  <2>2. /\ c = [item |-> c.item, lost |-> c.lost]
        /\ BodyOnly(u, c.item) /\ c.lost \subseteq Nat
    <3>1. FoldContent(u, s, p) = [item |-> FoldContent(u, s, p).item,
                                  lost |-> FoldContent(u, s, p).lost]
          BY DEF FoldContent, Verdict, Fill, CrossConflict
    <3>2. /\ BodyOnly(u, FoldContent(u, s, p).item)
          /\ FoldContent(u, s, p).lost \subseteq Nat
          BY <2>1, FoldContentBodyOnly
    <3>3. BodyOnly(u, Settled(u, p.object))
          BY <1>2, <2>1, SettledBodyOnly
    <3> QED BY <3>1, <3>2, <3>3 DEF Verdict
  <2> HIDE DEF c
  <2>3. /\ d = [item |-> d.item, lost |-> d.lost]
        /\ BodyOnly(u, d.item) /\ d.lost \subseteq Nat
    <3>1. c.item \in Rowed
          BY <2>2 DEF BodyOnly
    <3>2. BodyOnly(c.item, Settled(c.item, p.object))
          BY <1>2, <3>1, SettledBodyOnly
    <3>3. BodyOnly(u, Settled(c.item, p.object))
          BY <2>2, <3>2 DEF BodyOnly
    <3> HIDE DEF Settled
    <3>4. Overruling(c, p) = IF c.item.conflicted /\ p.object # NoBody /\ p.object = c.item.object
                             THEN [item |-> Settled(c.item, p.object), lost |-> c.lost]
                             ELSE c
          BY <2>2 DEF Overruling
    <3> QED BY <2>2, <3>3, <3>4
  <2>4. FoldLive(e, s, p, o, g) = Bound(d, s, p, before)
        BY DEF FoldLive, u, c
  <2> HIDE DEF d, before
  <2> DEFINE v == Bound([item |-> d.item, lost |-> d.lost], s, p, before)
  <2>5. d.item \in Rowed
        BY <2>3 DEF BodyOnly
  <2>6. /\ v.item \in Rowed /\ v.lost = d.lost
        /\ v.item.deleted = d.item.deleted /\ v.item.retained = d.item.retained
        /\ \A t \in Sources : t # s => v.item.sources[t] = d.item.sources[t]
        /\ Matches(v.item.sources[s], p)
        /\ v.item.sources[s] \in Bindings(Handles)
        BY <1>3, <2>5, BoundEffect
  <2>7. v = FoldLive(e, s, p, o, g)
        BY <2>3, <2>4
  <2> HIDE DEF v
  <2>8. v.item.sources = v.item.sources /\ v.item.retained = e.retained /\ ~v.item.deleted
        /\ d.item.sources = e.sources
        BY <2>1, <2>3, <2>6 DEF BodyOnly
  <2> QED BY <1>1, <1>5, <2>3, <2>6, <2>7, <2>8 DEF e
<1> QED BY <1>4, <1>5

(* An upsert leaves its row bound, and its batch one to go on with.        *)
LEMMA UpsertEffect ==
    ASSUME NEW batch \in Batches, NEW s \in Sources, NEW p \in Rows
    PROVE  /\ AbsorbUpsert(batch, s, p) \in Batches
           /\ Placed(batch.items, AbsorbUpsert(batch, s, p).items, s, p)
<1> DEFINE e == Entry(batch, s, p)
           o == p.handle \in batch.overruling
           g == p.handle \in batch.settling
           v == IF p.status = "Tombstone" THEN FoldTombstone(e, s, p)
                ELSE FoldLive(e, s, p, o, g)
           k == p.link
           J == [batch.items EXCEPT ![k] = v.item]
           new == AbsorbUpsert(batch, s, p)
<1>1. k \in Keys
      BY KeysAssumption DEF Rows, Placements
<1>2. /\ v.item \in Rowed /\ ~v.item.retained /\ v.lost \subseteq Nat
      /\ v.item.deleted <=> p.status = "Tombstone"
      /\ v.item.deleted => ~v.item.conflicted
      /\ \A t \in Sources : t # s => v.item.sources[t] = View(batch.items, t, k)
      /\ v.item.sources[s] \in Bindings(Handles)
      /\ Matches(v.item.sources[s], p)
  <2>1. o \in BOOLEAN /\ g \in BOOLEAN
        OBVIOUS
  <2> HIDE DEF o, g
  <2> QED BY <2>1, FoldedItem
<1>3. /\ batch.items \in Stores /\ batch.released \in [Keys -> Bounds]
      /\ batch.overruling \in SUBSET Handles /\ batch.settling \in SUBSET Handles
      /\ batch.kept \in SUBSET Nat
      BY DEF Batches
<1>4. v.item # NoItem
      BY <1>2, AbsentAssumption DEF Rowed
<1>5. Overruled(batch, s, p) \subseteq Nat
  <2>1. batch.items[k] \in Rowed \cup {NoItem}
        BY <1>1, <1>3 DEF Stores
  <2>2. Loaded(batch.items, k) => batch.items[k] \in Rowed
        BY <2>1 DEF Loaded
  <2> QED BY <2>2 DEF Overruled, Rowed, HubItems, Bindings, Binds, NoBody
<1>6. new = Folded(batch, s, p, v)
      BY DEF AbsorbUpsert
<1> HIDE DEF v
<1>7. /\ new.items = J
      /\ new.released = [batch.released EXCEPT ![k] = NoBinding]
      /\ new.overruling = batch.overruling \ {p.handle}
      /\ new.settling = batch.settling \ {p.handle}
      /\ new.kept = batch.kept \cup v.lost \cup Overruled(batch, s, p)
      /\ new = [items |-> new.items, released |-> new.released, overruling |-> new.overruling,
                settling |-> new.settling, kept |-> new.kept]
      BY <1>6 DEF Folded, Batches
<1>8. /\ J \in Stores /\ J[k] = v.item
      /\ \A j \in Keys : j # k => J[j] = batch.items[j]
      BY <1>1, <1>2, <1>3 DEF Stores
<1>9. new \in Batches
  <2>1. /\ new.items \in Stores /\ new.released \in [Keys -> Bounds]
        /\ new.overruling \in SUBSET Handles /\ new.settling \in SUBSET Handles
        /\ new.kept \in SUBSET Nat
        BY <1>2, <1>3, <1>5, <1>7, <1>8 DEF Bounds
  <2> HIDE DEF new
  <2> QED BY <1>7, <2>1 DEF Batches
<1> HIDE DEF J
<1>10. Loaded(J, k)
       BY <1>2, <1>4, <1>8 DEF Loaded
<1>11. \A t \in Sources : View(J, t, k) = v.item.sources[t]
       BY <1>8, <1>10 DEF View
<1>12. Within(batch.items, J, s, k)
       BY <1>2, <1>4, <1>8, <1>10, <1>11 DEF Within
<1>13. Placed(batch.items, J, s, p)
  <2>1. (J[k].deleted <=> p.status = "Tombstone") /\ (J[k].deleted => ~J[k].conflicted)
        BY <1>2, <1>8
  <2>2. View(J, s, k) \in Bindings(Handles) /\ Matches(View(J, s, k), p)
        BY <1>2, <1>11
  <2> QED BY <1>10, <1>12, <2>1, <2>2 DEF Placed
<1> QED BY <1>7, <1>9, <1>13

(* Key k is bound by source s under handle h.                              *)
Under(I, s, k, h) == View(I, s, k) # NoBinding /\ View(I, s, k).handle = h

(* A drop unbinds what its handle binds and nothing else.                  *)
LEMMA DropEffect ==
    ASSUME NEW batch \in Batches, NEW s \in Sources, NEW h, NEW reason
    PROVE  LET new == AbsorbDrop(batch, s, h, reason)
           IN  /\ new \in Batches
               /\ \A k \in Keys :
                    IF Under(batch.items, s, k, h)
                    THEN /\ View(new.items, s, k) = NoBinding
                         /\ \A t \in Sources : t # s =>
                              View(new.items, t, k) = View(batch.items, t, k)
                         /\ new.items[k] # NoItem /\ Loaded(new.items, k)
                    ELSE new.items[k] = batch.items[k]
<1> DEFINE I == batch.items
           here == {k \in Keys : Loaded(I, k) /\ Binds(I[k], s) /\ I[k].sources[s].handle = h}
           x(k) == Unbind(I[k], s, reason)
           J == [k \in Keys |-> IF k \in here THEN x(k) ELSE I[k]]
           r == [k \in Keys |-> IF k \in here /\ reason # "Deleted" THEN I[k].sources[s]
                                ELSE batch.released[k]]
           new == AbsorbDrop(batch, s, h, reason)
<1>1. /\ batch.items \in Stores /\ batch.released \in [Keys -> Bounds]
      /\ batch.overruling \in SUBSET Handles /\ batch.settling \in SUBSET Handles
      /\ batch.kept \in SUBSET Nat
      BY DEF Batches
<1>2. new = [batch EXCEPT !.items = J, !.released = r]
      BY <1>1 DEF AbsorbDrop, Batches
<1>3. ASSUME NEW k \in here
      PROVE  /\ I[k] \in Rowed /\ ~I[k].retained
             /\ x(k) \in Rowed /\ x(k).retained = I[k].retained
             /\ x(k).sources = [I[k].sources EXCEPT ![s] = NoBinding]
             /\ x(k) # NoItem
  <2>1. I[k] \in Rowed /\ ~I[k].retained
        BY <1>1 DEF Loaded, Stores
  <2>2. /\ x(k) \in Rowed /\ x(k).retained = I[k].retained
        /\ x(k).sources = [I[k].sources EXCEPT ![s] = NoBinding]
    <3>1. (I[k].deleted \/ reason = "Deleted") \in BOOLEAN
          OBVIOUS
    <3> QED BY <2>1, <3>1 DEF Rowed, HubItems, Unbind
  <2> HIDE DEF x
  <2> QED BY <2>1, <2>2, AbsentAssumption DEF Rowed
<1>4. J \in Stores /\ r \in [Keys -> Bounds]
  <2>1. ASSUME NEW k \in here PROVE I[k].sources[s] \in Bounds
        BY <1>3 DEF Rowed, HubItems, Bounds
  <2>2. \A k \in Keys : I[k] \in Rowed \cup {NoItem} /\ batch.released[k] \in Bounds
        BY <1>1 DEF Stores
  <2> HIDE DEF here, x
  <2>3. \A k \in Keys : J[k] \in Rowed \cup {NoItem}
        BY <1>3, <2>2
  <2>4. \A k \in Keys : r[k] \in Bounds
        BY <2>1, <2>2
  <2> QED BY <2>3, <2>4 DEF Stores
<1>5. new.items = J /\ new \in Batches
  <2> HIDE DEF J, r
  <2> QED BY <1>2, <1>4 DEF Batches
<1>6. \A k \in Keys : k \in here <=> Under(I, s, k, h)
      BY DEF Under, View, Binds
<1>7. ASSUME NEW k \in Keys, Under(I, s, k, h)
      PROVE  /\ View(J, s, k) = NoBinding
             /\ \A t \in Sources : t # s => View(J, t, k) = View(I, t, k)
             /\ J[k] # NoItem /\ Loaded(J, k)
  <2>1. k \in here
        BY <1>6, <1>7
  <2>2. Loaded(I, k)
        BY <2>1
  <2> HIDE DEF here
  <2>3. J[k] = x(k)
        BY <2>1
  <2> HIDE DEF J, x
  <2>4. Loaded(J, k)
        BY <1>3, <2>1, <2>3 DEF Loaded
  <2>5. I[k].sources \in [Sources -> Bindings(Handles) \cup {NoBinding}]
        BY <1>3, <2>1 DEF Rowed, HubItems
  <2>6. J[k].sources = [I[k].sources EXCEPT ![s] = NoBinding] /\ J[k] # NoItem
        BY <1>3, <2>1, <2>3
  <2> QED BY <2>2, <2>4, <2>5, <2>6 DEF View
<1>8. ASSUME NEW k \in Keys, ~Under(I, s, k, h)
      PROVE  J[k] = I[k]
      BY <1>6, <1>8
<1> HIDE DEF J, new
<1> QED BY <1>5, <1>7, <1>8 DEF new

-----------------------------------------------------------------------------
(* Folding a batch, write by write.                                        *)

(* A nonempty set of naturals has a least one.                             *)
LEMMA LeastOf ==
    ASSUME NEW S \in SUBSET Nat, S # {}
    PROVE  \E n \in S : \A m \in S : n <= m
<1> DEFINE R == {x \in Nat \X Nat : x[1] < x[2]}
<1>1. IsWellFoundedOn(R, Nat)
  <2>1. R = OpToRel(<, Nat)
        BY DEF OpToRel
  <2> QED BY <2>1, NatLessThanWellFounded
<1>2. PICK n \in S : \A m \in S : ~(<<m, n>> \in R)
      BY <1>1, WFMin
<1>3. ASSUME NEW m \in S PROVE n <= m
  <2>1. m \in Nat /\ n \in Nat
        OBVIOUS
  <2>2. <<m, n>> \notin R
        BY <1>2
  <2>3. ~(m < n)
        BY <2>1, <2>2
  <2> QED BY <2>1, <2>3
<1> QED BY <1>3

(* The batches f goes through, folding wrs from batch.                     *)
Unfolds(batch, s, wrs, f) ==
    f = [n \in 0..Len(wrs) |-> IF n = 0 THEN batch ELSE Absorb(f[n - 1], s, wrs[n])]

(* The recursion of FoldFrom has a solution: by induction, for every       *)
(* prefix.                                                                 *)
LEMMA FoldFromUnfolds ==
    ASSUME NEW batch, NEW s, NEW wrs, Len(wrs) \in Nat
    PROVE  \E f : Unfolds(batch, s, wrs, f) /\ FoldFrom(batch, s, wrs) = f[Len(wrs)]
<1> DEFINE step(x, n) == Absorb(x, s, wrs[n])
           is(g, n) == g = [i \in 0..n |-> IF i = 0 THEN batch ELSE step(g[i - 1], i)]
           bad == {n \in Nat : ~\E g : is(g, n)}
<1>1. bad = {}
  <2> HIDE DEF step
  <2> SUFFICES ASSUME bad # {} PROVE FALSE
      OBVIOUS
  <2>1. PICK n \in bad : \A m \in bad : n <= m
    <3>1. bad \in SUBSET Nat
          OBVIOUS
    <3> HIDE DEF bad
    <3> QED BY <3>1, LeastOf
  <2>2. n # 0
    <3> DEFINE g == [i \in 0..0 |-> batch]
    <3>1. is(g, 0)
          OBVIOUS
    <3> QED BY <2>1, <3>1
  <2>3. n - 1 \in Nat /\ n - 1 \notin bad
        BY <2>1, <2>2
  <2>4. PICK g : is(g, n - 1)
        BY <2>3
  <2> DEFINE h == [i \in 0..n |-> IF i = n THEN step(g[n - 1], n) ELSE g[i]]
  <2>5. ASSUME NEW i \in 0..n
        PROVE  h[i] = IF i = 0 THEN batch ELSE step(h[i - 1], i)
    <3>1. n \in Nat
          BY <2>1
    <3>2. CASE i = n
      <4>1. h[i] = step(g[n - 1], n) /\ i # 0
            BY <2>2, <3>2
      <4>2. h[i - 1] = g[n - 1]
            BY <2>2, <3>1, <3>2
      <4> QED BY <3>2, <4>1, <4>2
    <3>3. CASE i # n
      <4>1. i \in 0..(n - 1) /\ h[i] = g[i]
            BY <3>1, <3>3
      <4>2. i # 0 => h[i - 1] = g[i - 1]
            BY <3>1, <3>3
      <4>3. g[i] = IF i = 0 THEN batch ELSE step(g[i - 1], i)
            BY <2>4, <4>1
      <4> QED BY <4>1, <4>2, <4>3
    <3> QED BY <3>2, <3>3
  <2>6. is(h, n)
        BY <2>5
  <2> QED BY <2>1, <2>6
<1>2. \E g : is(g, Len(wrs))
      BY <1>1
<1> DEFINE f == CHOOSE g : is(g, Len(wrs))
<1>3. is(f, Len(wrs))
  <2> HIDE DEF is
  <2> QED BY <1>2
<1>4. FoldFrom(batch, s, wrs) = f[Len(wrs)]
      BY DEF FoldFrom
<1>5. Unfolds(batch, s, wrs, f)
  <2> HIDE DEF f
  <2> QED BY <1>3 DEF Unfolds
<1> QED BY <1>4, <1>5

(* It has only one.                                                        *)
LEMMA UnfoldsOnce ==
    ASSUME NEW batch, NEW s, NEW wrs, Len(wrs) \in Nat, NEW f, NEW g,
           Unfolds(batch, s, wrs, f), Unfolds(batch, s, wrs, g)
    PROVE  \A n \in 0..Len(wrs) : f[n] = g[n]
<1> DEFINE step(x, n) == Absorb(x, s, wrs[n])
           bad == {n \in 0..Len(wrs) : f[n] # g[n]}
<1>1. /\ \A n \in 0..Len(wrs) : f[n] = IF n = 0 THEN batch ELSE step(f[n - 1], n)
      /\ \A n \in 0..Len(wrs) : g[n] = IF n = 0 THEN batch ELSE step(g[n - 1], n)
      BY DEF Unfolds
<1> HIDE DEF step
<1> SUFFICES ASSUME bad # {} PROVE FALSE
    OBVIOUS
<1>2. PICK n \in bad : \A m \in bad : n <= m
  <2>1. bad \in SUBSET Nat
        OBVIOUS
  <2> HIDE DEF bad
  <2> QED BY <2>1, LeastOf
<1>3. n \in 0..Len(wrs) /\ n # 0
      BY <1>1
<1>4. n - 1 \in 0..Len(wrs) /\ n - 1 \notin bad
      BY <1>2, <1>3
<1>5. f[n - 1] = g[n - 1]
      BY <1>4
<1> QED BY <1>1, <1>3, <1>5

(* A batch is folded in parts.                                             *)
LEMMA FoldFromConcat ==
    ASSUME NEW T, NEW batch, NEW s, NEW wrs \in Seq(T), NEW more \in Seq(T)
    PROVE  FoldFrom(batch, s, wrs \o more) = FoldFrom(FoldFrom(batch, s, wrs), s, more)
<1> DEFINE all == wrs \o more
           a == Len(wrs)
           b == Len(more)
<1>1. /\ all \in Seq(T) /\ Len(all) = a + b /\ a \in Nat /\ b \in Nat
      /\ \A i \in 1..a : all[i] = wrs[i]
      /\ \A i \in 1..b : all[a + i] = more[i]
      OBVIOUS
<1>2. PICK f : Unfolds(batch, s, all, f) /\ FoldFrom(batch, s, all) = f[a + b]
  <2>1. Len(all) \in Nat /\ Len(all) = a + b
        BY <1>1
  <2> HIDE DEF all, a, b
  <2>2. \E f : Unfolds(batch, s, all, f) /\ FoldFrom(batch, s, all) = f[Len(all)]
        BY <2>1, FoldFromUnfolds
  <2> QED BY <2>1, <2>2
<1>3. PICK g : Unfolds(batch, s, wrs, g) /\ FoldFrom(batch, s, wrs) = g[a]
      BY <1>1, FoldFromUnfolds
<1>4. PICK h : Unfolds(g[a], s, more, h) /\ FoldFrom(g[a], s, more) = h[b]
      BY <1>1, FoldFromUnfolds
<1> HIDE DEF all, a, b
<1>5. \A n \in 0..(a + b) : f[n] = IF n = 0 THEN batch ELSE Absorb(f[n - 1], s, all[n])
      BY <1>1, <1>2 DEF Unfolds
<1>6. \A n \in 0..a : f[n] = g[n]
  <2> DEFINE x == [n \in 0..a |-> f[n]]
  <2>1. ASSUME NEW n \in 0..a
        PROVE  x[n] = IF n = 0 THEN batch ELSE Absorb(x[n - 1], s, wrs[n])
    <3>1. n \in 0..(a + b) /\ x[n] = f[n]
          BY <1>1
    <3>2. n # 0 => n \in 1..a /\ n - 1 \in 0..a
          BY <1>1
    <3>3. n # 0 => x[n - 1] = f[n - 1] /\ all[n] = wrs[n]
          BY <1>1, <3>2
    <3> QED BY <1>5, <3>1, <3>3
  <2>2. Unfolds(batch, s, wrs, x)
        BY <2>1 DEF Unfolds, a
  <2>3. \A n \in 0..a : x[n] = g[n]
        BY <1>1, <1>3, <2>2, UnfoldsOnce DEF a
  <2> QED BY <2>3
<1>7. \A n \in 0..b : f[a + n] = h[n]
  <2> DEFINE x == [n \in 0..b |-> f[a + n]]
  <2>1. ASSUME NEW n \in 0..b
        PROVE  x[n] = IF n = 0 THEN g[a] ELSE Absorb(x[n - 1], s, more[n])
    <3>1. a + n \in 0..(a + b) /\ x[n] = f[a + n]
          BY <1>1
    <3>2. n # 0 => n \in 1..b /\ n - 1 \in 0..b /\ a + n # 0 /\ (a + n) - 1 = a + (n - 1)
          BY <1>1
    <3>3. n # 0 => x[n - 1] = f[(a + n) - 1] /\ all[a + n] = more[n]
          BY <1>1, <3>2
    <3>4. n = 0 => x[n] = g[a]
          BY <1>1, <1>6, <3>1
    <3> QED BY <1>5, <3>1, <3>2, <3>3, <3>4
  <2>2. Unfolds(g[a], s, more, x)
        BY <2>1 DEF Unfolds, b
  <2>3. \A n \in 0..b : x[n] = h[n]
        BY <1>1, <1>4, <2>2, UnfoldsOnce DEF b
  <2> QED BY <2>3
<1>8. b \in 0..b
      BY <1>1
<1> QED BY <1>2, <1>3, <1>4, <1>7, <1>8 DEF all

(* Nothing, one write, and one write more.                                 *)
LEMMA FoldFromOne ==
    ASSUME NEW batch, NEW s, NEW op
    PROVE  FoldFrom(batch, s, << >>) = batch /\ FoldFrom(batch, s, <<op>>) = Absorb(batch, s, op)
<1>1. Len(<< >>) = 0 /\ Len(<<op>>) = 1
      OBVIOUS
<1>2. FoldFrom(batch, s, << >>) = batch
  <2>1. PICK f : Unfolds(batch, s, << >>, f) /\ FoldFrom(batch, s, << >>) = f[0]
        BY <1>1, FoldFromUnfolds
  <2> QED BY <1>1, <2>1 DEF Unfolds
<1>3. FoldFrom(batch, s, <<op>>) = Absorb(batch, s, op)
  <2>1. PICK f : Unfolds(batch, s, <<op>>, f) /\ FoldFrom(batch, s, <<op>>) = f[1]
        BY <1>1, FoldFromUnfolds
  <2>2. f[0] = batch /\ f[1] = Absorb(f[0], s, op)
        BY <1>1, <2>1 DEF Unfolds
  <2> QED BY <2>1, <2>2
<1> QED BY <1>2, <1>3

(* Folding one write more.                                                 *)
LEMMA FoldFromAppend ==
    ASSUME NEW T, NEW batch, NEW s, NEW wrs \in Seq(T), NEW op \in T
    PROVE  FoldFrom(batch, s, wrs \o <<op>>) = Absorb(FoldFrom(batch, s, wrs), s, op)
<1> DEFINE one == <<op>>
<1>1. one \in Seq(T)
      OBVIOUS
<1>2. \A b : FoldFrom(b, s, one) = Absorb(b, s, op)
      BY FoldFromOne
<1> HIDE DEF one
<1>3. FoldFrom(batch, s, wrs \o one) = FoldFrom(FoldFrom(batch, s, wrs), s, one)
      BY <1>1, FoldFromConcat
<1> QED BY <1>2, <1>3 DEF one

-----------------------------------------------------------------------------
(* Rewriting one row.                                                      *)

Reasons == {"Deleted", "Superseded"}
Writes == {Upsert(p) : p \in Rows} \cup {Drop(h, r) : h \in Handles, r \in Reasons}
          \cup {Overrule(h) : h \in Handles} \cup {Settle(h) : h \in Handles}

(* Every write leaves a batch to go on with.                               *)
LEMMA AbsorbType ==
    ASSUME NEW batch \in Batches, NEW s \in Sources, NEW op \in Writes
    PROVE  /\ Absorb(batch, s, op) \in Batches
           /\ op.op \in {"Overrule", "Settle"} => Absorb(batch, s, op).items = batch.items
           /\ op.op = "Upsert" => /\ op.row \in Rows /\ op = Upsert(op.row)
                                  /\ Placed(batch.items, Absorb(batch, s, op).items, s, op.row)
<1>1. CASE \E p \in Rows : op = Upsert(p)
  <2>1. PICK p \in Rows : op = Upsert(p)
        BY <1>1
  <2>2. op.op = "Upsert" /\ op.row = p
        BY <2>1 DEF Upsert
  <2>3. Absorb(batch, s, op) = AbsorbUpsert(batch, s, p)
        BY <2>2 DEF Absorb
  <2> QED BY <2>1, <2>2, <2>3, UpsertEffect
<1>2. CASE \E h \in Handles, r \in Reasons : op = Drop(h, r)
  <2>1. PICK h \in Handles, r \in Reasons : op = Drop(h, r)
        BY <1>2
  <2>2. op.op = "Drop" /\ op.handle = h /\ op.reason = r
        BY <2>1 DEF Drop
  <2>3. Absorb(batch, s, op) = AbsorbDrop(batch, s, h, r)
        BY <2>2 DEF Absorb
  <2>4. AbsorbDrop(batch, s, h, r) \in Batches
        BY DropEffect
  <2> QED BY <2>2, <2>3, <2>4
<1>3. CASE \E h \in Handles : op = Overrule(h)
  <2>1. PICK h \in Handles : op = Overrule(h)
        BY <1>3
  <2>2. op.op = "Overrule" /\ op.handle = h
        BY <2>1 DEF Overrule
  <2>3. Absorb(batch, s, op) = [batch EXCEPT !.overruling = @ \cup {h}]
        BY <2>2 DEF Absorb
  <2> QED BY <2>2, <2>3 DEF Batches
<1>4. CASE \E h \in Handles : op = Settle(h)
  <2>1. PICK h \in Handles : op = Settle(h)
        BY <1>4
  <2>2. op.op = "Settle" /\ op.handle = h
        BY <2>1 DEF Settle
  <2>3. Absorb(batch, s, op) = [batch EXCEPT !.settling = @ \cup {h}]
        BY <2>2 DEF Absorb
  <2> QED BY <2>2, <2>3 DEF Batches
<1> QED BY <1>1, <1>2, <1>3, <1>4 DEF Writes

(* Writes that only rewrite the row p, and leave it q.                     *)
Chain(ws, p, q) ==
    /\ ws \in Seq(Writes)
    /\ \A i \in 1..Len(ws) :
         /\ ws[i].op \in {"Upsert", "Overrule", "Settle"}
         /\ ws[i].op = "Upsert" => ws[i].row.link = p.link /\ ws[i].row.handle = p.handle
    /\ IF ws = << >> THEN q = p ELSE ws[Len(ws)] = Upsert(q)

(* What moves only one binding, twice.                                     *)
LEMMA WithinTwice ==
    ASSUME NEW I, NEW J, NEW K, NEW s \in Sources, NEW k \in Keys,
           Within(I, J, s, k), Within(J, K, s, k)
    PROVE  Within(I, K, s, k)
BY DEF Within

(* A chain moves the one binding, and leaves it the last row.              *)
LEMMA ChainEffect ==
    ASSUME NEW batch \in Batches, NEW s \in Sources, NEW p \in Rows, NEW q, NEW ws,
           Chain(ws, p, q)
    PROVE  LET new == FoldFrom(batch, s, ws)
           IN  /\ new \in Batches
               /\ q \in Rows /\ q.link = p.link /\ q.handle = p.handle
               /\ ws = << >> => new = batch /\ q = p
               /\ ws # << >> => Placed(batch.items, new.items, s, q)
<1> DEFINE k == p.link
<1>1. k \in Keys /\ ws \in Seq(Writes) /\ Len(ws) \in Nat
      BY KeysAssumption DEF Chain, Rows, Placements
<1>2. PICK f : Unfolds(batch, s, ws, f) /\ FoldFrom(batch, s, ws) = f[Len(ws)]
      BY <1>1, FoldFromUnfolds
<1>3. \A n \in 0..Len(ws) : f[n] = IF n = 0 THEN batch ELSE Absorb(f[n - 1], s, ws[n])
      BY <1>2 DEF Unfolds
<1>4. \A n \in 1..Len(ws) : ws[n] \in Writes
      BY <1>1
<1> DEFINE good(n) == f[n] \in Batches /\ Within(batch.items, f[n].items, s, k)
           bad == {n \in 0..Len(ws) : ~good(n)}
<1>5. ASSUME NEW n \in 1..Len(ws), good(n - 1)
      PROVE  good(n) /\ (ws[n].op = "Upsert" => Placed(batch.items, f[n].items, s, ws[n].row))
  <2>1. n \in 0..Len(ws) /\ n # 0
        BY <1>1
  <2>2. f[n] = Absorb(f[n - 1], s, ws[n])
        BY <1>3, <2>1
  <2>3. ws[n] \in Writes /\ ws[n].op \in {"Upsert", "Overrule", "Settle"}
        /\ (ws[n].op = "Upsert" => ws[n].row.link = k)
        BY <1>4 DEF Chain
  <2>4. CASE ws[n].op \in {"Overrule", "Settle"}
    <3>1. f[n] \in Batches /\ f[n].items = f[n - 1].items
          BY <1>5, <2>2, <2>3, <2>4, AbsorbType
    <3> QED BY <1>5, <2>4, <3>1
  <2>5. CASE ws[n].op = "Upsert"
    <3>1. f[n] \in Batches /\ Placed(f[n - 1].items, f[n].items, s, ws[n].row)
          BY <1>5, <2>2, <2>3, <2>5, AbsorbType
    <3>2. Within(f[n - 1].items, f[n].items, s, k)
          BY <2>3, <2>5, <3>1 DEF Placed
    <3>3. Within(batch.items, f[n].items, s, k)
          BY <1>1, <1>5, <3>2, WithinTwice
    <3> QED BY <2>3, <2>5, <3>1, <3>3 DEF Placed
  <2> QED BY <2>3, <2>4, <2>5
<1>6. bad = {}
  <2> SUFFICES ASSUME bad # {} PROVE FALSE
      OBVIOUS
  <2>1. PICK n \in bad : \A m \in bad : n <= m
    <3>1. bad \in SUBSET Nat
          OBVIOUS
    <3> HIDE DEF bad
    <3> QED BY <3>1, LeastOf
  <2>2. good(0)
    <3>1. f[0] = batch
          BY <1>1, <1>3
    <3>2. batch.items \in Stores
          BY DEF Batches
    <3> QED BY <3>1, <3>2 DEF Within
  <2>3. n \in 1..Len(ws)
        BY <2>1, <2>2
  <2>4. n - 1 \in 0..Len(ws) /\ n - 1 \notin bad
        BY <2>1, <2>3
  <2>5. good(n - 1)
        BY <2>4
  <2> HIDE DEF good
  <2> QED BY <1>5, <2>1, <2>3, <2>5
<1>7. CASE ws = << >>
      BY <1>2, <1>3, <1>7 DEF Chain
<1>8. CASE ws # << >>
  <2>1. Len(ws) \in 1..Len(ws) /\ Len(ws) - 1 \in 0..Len(ws)
        BY <1>1, <1>8
  <2>2. ws[Len(ws)] = Upsert(q)
        BY <1>8 DEF Chain
  <2>3. ws[Len(ws)].op = "Upsert" /\ ws[Len(ws)].row = q
        BY <2>2 DEF Upsert
  <2>4. q \in Rows
        BY <1>4, <2>1, <2>3, AbsorbType
  <2>5. q.link = p.link /\ q.handle = p.handle
        BY <2>1, <2>3 DEF Chain
  <2>6. good(Len(ws) - 1)
        BY <1>6, <2>1
  <2> HIDE DEF good
  <2>7. good(Len(ws)) /\ Placed(batch.items, f[Len(ws)].items, s, q)
        BY <1>5, <2>1, <2>3, <2>6
  <2> QED BY <1>2, <1>8, <2>4, <2>5, <2>7 DEF good
<1> QED BY <1>7, <1>8

(* A chain goes on from where another ends.                                *)
LEMMA ChainConcat ==
    ASSUME NEW v, NEW w, NEW p, NEW q, NEW r, Chain(v, p, q), Chain(w, q, r),
           q.link = p.link, q.handle = p.handle
    PROVE  Chain(v \o w, p, r)
<1>1. v \in Seq(Writes) /\ w \in Seq(Writes)
      BY DEF Chain
<1>2. /\ v \o w \in Seq(Writes) /\ Len(v \o w) = Len(v) + Len(w)
      /\ Len(v) \in Nat /\ Len(w) \in Nat
      /\ \A i \in 1..Len(v) : (v \o w)[i] = v[i]
      /\ \A i \in 1..Len(w) : (v \o w)[Len(v) + i] = w[i]
      BY <1>1
<1> DEFINE u == v \o w
           fine(x) == /\ x.op \in {"Upsert", "Overrule", "Settle"}
                      /\ x.op = "Upsert" => x.row.link = p.link /\ x.row.handle = p.handle
<1>3. /\ \A i \in 1..Len(v) : fine(v[i])
      /\ \A i \in 1..Len(w) : fine(w[i])
      BY DEF Chain
<1> HIDE DEF u, fine
<1>4. ASSUME NEW i \in 1..Len(u)
      PROVE  fine(u[i])
  <2>1. CASE i \in 1..Len(v)
        BY <1>2, <1>3, <2>1 DEF u
  <2>2. CASE i \notin 1..Len(v)
    <3>1. i - Len(v) \in 1..Len(w) /\ i = Len(v) + (i - Len(v))
          BY <1>2, <2>2 DEF u
    <3> QED BY <1>2, <1>3, <3>1 DEF u
  <2> QED BY <2>1, <2>2
<1>5. IF u = << >> THEN r = p ELSE u[Len(u)] = Upsert(r)
  <2>1. CASE w = << >>
    <3>1. u = v
          BY <1>1, <2>1 DEF u
    <3> QED BY <2>1, <3>1 DEF Chain
  <2>2. CASE w # << >>
    <3>1. Len(w) \in 1..Len(w) /\ Len(w) > 0
          BY <1>1, <2>2
    <3>2. u[Len(u)] = w[Len(w)] /\ u # << >>
          BY <1>2, <3>1 DEF u
    <3> QED BY <2>2, <3>2 DEF Chain
  <2> QED BY <2>1, <2>2
<1> QED BY <1>2, <1>4, <1>5 DEF Chain, u, fine

(* A handle that binds at most one key is dropped from that key alone.     *)
LEMMA DropOne ==
    ASSUME NEW batch \in Batches, NEW s \in Sources, NEW h \in Handles, NEW reason \in Reasons,
           NEW k \in Keys, \A j \in Keys : Under(batch.items, s, j, h) => j = k
    PROVE  LET new == FoldFrom(batch, s, <<Drop(h, reason)>>)
           IN  /\ new \in Batches
               /\ Within(batch.items, new.items, s, k)
               /\ (Under(batch.items, s, k, h) \/ View(batch.items, s, k) = NoBinding)
                    => Removed(batch.items, new.items, s, k)
<1> DEFINE I == batch.items
           new == AbsorbDrop(batch, s, h, reason)
<1>1. FoldFrom(batch, s, <<Drop(h, reason)>>) = new
  <2> DEFINE op == Drop(h, reason)
  <2>1. op.op = "Drop" /\ op.handle = h /\ op.reason = reason
        BY DEF Drop
  <2> HIDE DEF op
  <2>2. Absorb(batch, s, op) = new
        BY <2>1 DEF Absorb
  <2>3. FoldFrom(batch, s, <<op>>) = Absorb(batch, s, op)
        BY FoldFromOne
  <2> QED BY <2>2, <2>3 DEF op
<1>2. /\ new \in Batches
      /\ \A j \in Keys :
           IF Under(I, s, j, h)
           THEN /\ View(new.items, s, j) = NoBinding
                /\ \A t \in Sources : t # s => View(new.items, t, j) = View(I, t, j)
                /\ new.items[j] # NoItem /\ Loaded(new.items, j)
           ELSE new.items[j] = I[j]
      BY DropEffect
<1>3. new.items \in Stores
      BY <1>2 DEF Batches
<1> HIDE DEF new
<1>4. \A j \in Keys : j # k => new.items[j] = I[j]
      BY <1>2
<1>5. CASE Under(I, s, k, h)
  <2>1. Within(I, new.items, s, k) /\ View(new.items, s, k) = NoBinding
        BY <1>2, <1>3, <1>4, <1>5 DEF Within
  <2> QED BY <1>1, <1>2, <2>1 DEF Removed
<1>6. CASE ~Under(I, s, k, h)
  <2>1. new.items[k] = I[k]
        BY <1>2, <1>6
  <2>2. \A t \in Sources : View(new.items, t, k) = View(I, t, k)
        BY <2>1 DEF View, Loaded
  <2>3. Within(I, new.items, s, k)
    BY <1>3, <1>4, <2>1, <2>2 DEF Within, Loaded
  <2> QED BY <1>1, <1>2, <1>6, <2>2, <2>3 DEF Removed
<1> QED BY <1>5, <1>6

(* Dropped under one handle, the row is placed under another.              *)
LEMMA DropPlaced ==
    ASSUME NEW batch \in Batches, NEW s \in Sources, NEW h \in Handles, NEW reason \in Reasons,
           NEW p \in Rows, NEW q, NEW ws, Chain(ws, p, q), ws # << >>,
           \A j \in Keys : Under(batch.items, s, j, h) => j = p.link
    PROVE  LET new == FoldFrom(batch, s, <<Drop(h, reason)>> \o ws)
           IN  new \in Batches /\ Placed(batch.items, new.items, s, q)
               /\ q \in Rows /\ q.link = p.link /\ q.handle = p.handle
<1> DEFINE one == <<Drop(h, reason)>>
           mid == FoldFrom(batch, s, one)
           new == FoldFrom(mid, s, ws)
<1>1. p.link \in Keys
      BY KeysAssumption DEF Rows, Placements
<1>2. mid \in Batches /\ Within(batch.items, mid.items, s, p.link)
      BY <1>1, DropOne
<1>3. one \in Seq(Writes) /\ ws \in Seq(Writes)
      BY DEF Chain, Writes
<1>4. FoldFrom(batch, s, one \o ws) = new
  <2> HIDE DEF one
  <2> QED BY <1>3, FoldFromConcat
<1> HIDE DEF mid, one
<1>5. new \in Batches /\ Placed(mid.items, new.items, s, q)
      /\ q \in Rows /\ q.link = p.link /\ q.handle = p.handle
      BY <1>2, ChainEffect
<1> HIDE DEF new
<1>6. Within(mid.items, new.items, s, p.link)
      BY <1>5 DEF Placed
<1>7. Within(batch.items, new.items, s, p.link)
      BY <1>1, <1>2, <1>6, WithinTwice
<1>8. Placed(batch.items, new.items, s, q)
      BY <1>5, <1>7 DEF Placed
<1> QED BY <1>4, <1>5, <1>8 DEF one

-----------------------------------------------------------------------------
(* Saving a folded batch.                                                  *)

Saved(W, J) ==
    /\ J \in Stores
    /\ \A k \in Keys : J[k] # NoItem => W[k] # NoItem
    /\ \A s \in Sources, k \in Keys :
         /\ View(J, s, k) = NoBinding <=> View(W, s, k) = NoBinding
         /\ View(W, s, k) # NoBinding =>
              /\ View(J, s, k) \in Bindings(Handles)
              /\ Matches(View(J, s, k), View(W, s, k))
              /\ J[k].deleted = W[k].deleted /\ J[k].conflicted = W[k].conflicted

(* A binding matches itself, and what it is a match of.                    *)
LEMMA MatchesTwice ==
    ASSUME NEW a, NEW b, NEW c
    PROVE  /\ Matches(a, a)
           /\ Matches(a, b) /\ Matches(b, c) => Matches(a, c)
BY DEF Matches

(* A retained row coming back lends its body to the item and to the bases  *)
(* without a revision.                                                     *)
LEMMA RevivedEffect ==
    ASSUME NEW item \in Rowed, NEW old \in Rowed
    PROVE  LET r == Revived(item, old)
           IN  /\ r \in Rowed /\ r.deleted = item.deleted /\ r.retained = item.retained
               /\ r.conflicted = item.conflicted
               /\ \A s \in Sources :
                    /\ r.sources[s] = NoBinding <=> item.sources[s] = NoBinding
                    /\ item.sources[s] # NoBinding => Matches(r.sources[s], item.sources[s])
<1> DEFINE x == item.sources
           lent(b) == [b EXCEPT !.base.object = old.object]
           lends(b) == /\ b # NoBinding /\ b.base # NoBase
                       /\ b.base.revision = NoRev /\ b.base.object = NoBody
           y == [s \in Sources |-> IF lends(x[s]) THEN lent(x[s]) ELSE x[s]]
           r == [item EXCEPT !.object = old.object, !.sources = y]
<1>1. old.object \in Nat /\ x \in [Sources -> Bindings(Handles) \cup {NoBinding}]
      BY DEF Rowed, HubItems
<1>2. ASSUME NEW b \in Bindings(Handles), lends(b), ~Mutable
      PROVE  lent(b) \in Bindings(Handles) /\ lent(b) # NoBinding /\ Matches(lent(b), b)
  <2>1. b.base \in Bases
        BY <1>2 DEF Bindings
  <2>2. /\ lent(b) \in Bindings(Handles) /\ lent(b).handle = b.handle
        /\ lent(b).conflictRevision = b.conflictRevision
        /\ lent(b).conflictObject = b.conflictObject
        /\ lent(b).base \in Bases /\ lent(b).base.revision = b.base.revision
        BY <1>1, <2>1 DEF Bindings, Bases
  <2>3. lent(b) # NoBinding /\ lent(b).base # NoBase
        BY <2>2, AbsentAssumption
  <2>4. b.base # NoBase /\ b.base.revision = NoRev
        BY <1>2
  <2> HIDE DEF lent, lends
  <2> QED BY <1>2, <2>2, <2>3, <2>4 DEF Matches
<1>3. ~Mutable => y \in [Sources -> Bindings(Handles) \cup {NoBinding}]
  <2> HIDE DEF lent
  <2>1. \A s \in Sources : lends(x[s]) => x[s] \in Bindings(Handles)
        BY <1>1
  <2> HIDE DEF lends
  <2> QED BY <1>1, <1>2, <2>1
<1>4. ASSUME ~Mutable, NEW s \in Sources
      PROVE  /\ y[s] = NoBinding <=> x[s] = NoBinding
             /\ x[s] # NoBinding => Matches(y[s], x[s])
  <2>1. lends(x[s]) => x[s] \in Bindings(Handles) /\ x[s] # NoBinding
        BY <1>1
  <2> HIDE DEF lends, lent
  <2> QED BY <1>2, <1>4, <2>1, MatchesTwice
<1>5. Revived(item, old) = IF Mutable \/ item.object # NoBody \/ old.object = NoBody THEN item ELSE r
      BY DEF Revived
<1> HIDE DEF y
<1>6. ~Mutable => /\ r \in Rowed /\ r.deleted = item.deleted /\ r.retained = item.retained
                  /\ r.conflicted = item.conflicted /\ r.sources = y
      BY <1>1, <1>3 DEF Rowed, HubItems
<1> HIDE DEF r
<1>7. CASE Mutable \/ item.object # NoBody \/ old.object = NoBody
      BY <1>5, <1>7, MatchesTwice
<1>8. CASE ~(Mutable \/ item.object # NoBody \/ old.object = NoBody)
      BY <1>4, <1>5, <1>6, <1>8
<1> QED BY <1>7, <1>8

(* Saving keeps every binding, as far as an unrevised base may tell.       *)
LEMMA SaveEffect ==
    ASSUME NEW old \in Stores, NEW new \in Stores
    PROVE  /\ Saved(new, Save(old, new))
           /\ \A k \in Keys : old[k] # NoItem /\ new[k] # NoItem => Save(old, new)[k] # NoItem
<1> DEFINE J == Save(old, new)
           empty(k) == [new[k] EXCEPT !.deleted = TRUE, !.retained = TRUE]
<1>1. ASSUME NEW k \in Keys
      PROVE  /\ J[k] \in Rowed \cup {NoItem}
             /\ J[k] # NoItem => new[k] # NoItem
             /\ old[k] # NoItem /\ new[k] # NoItem => J[k] # NoItem
             /\ \A s \in Sources :
                  /\ View(J, s, k) = NoBinding <=> View(new, s, k) = NoBinding
                  /\ View(new, s, k) # NoBinding =>
                       /\ Matches(View(J, s, k), View(new, s, k))
                       /\ J[k].deleted = new[k].deleted /\ J[k].conflicted = new[k].conflicted
  <2>1. old[k] \in Rowed \cup {NoItem} /\ new[k] \in Rowed \cup {NoItem}
        BY DEF Stores
  <2>2. CASE new[k] = NoItem
    <3>1. J[k] = NoItem
          BY <2>2 DEF Save
    <3> QED BY <2>2, <3>1 DEF View, Loaded
  <2>3. CASE new[k] # NoItem /\ ~Unheld(new[k]) /\ ~Comeback(old, new, k)
    <3>1. J[k] = new[k]
          BY <2>3 DEF Save
    <3>2. \A s \in Sources : View(J, s, k) = View(new, s, k)
          BY <3>1 DEF View, Loaded
    <3> QED BY <2>1, <2>3, <3>1, <3>2, MatchesTwice
  <2>4. CASE new[k] # NoItem /\ ~Unheld(new[k]) /\ Comeback(old, new, k)
    <3> DEFINE r == Revived(new[k], old[k])
    <3>1. J[k] = r
          BY <2>4 DEF Save
    <3>2. new[k] \in Rowed /\ old[k] \in Rowed
          BY <2>1, <2>4 DEF Comeback
    <3>3. /\ r \in Rowed /\ r.deleted = new[k].deleted /\ r.retained = new[k].retained
          /\ r.conflicted = new[k].conflicted
          /\ \A s \in Sources :
               /\ r.sources[s] = NoBinding <=> new[k].sources[s] = NoBinding
               /\ new[k].sources[s] # NoBinding => Matches(r.sources[s], new[k].sources[s])
          BY <3>2, RevivedEffect
    <3>4. r # NoItem
          BY <3>3, AbsentAssumption DEF Rowed
    <3> HIDE DEF r, J
    <3>5. Loaded(J, k) <=> Loaded(new, k)
          BY <2>4, <3>1, <3>3, <3>4 DEF Loaded
    <3>6. \A s \in Sources : /\ View(J, s, k) = IF Loaded(new, k) THEN r.sources[s] ELSE NoBinding
                             /\ View(new, s, k) = IF Loaded(new, k) THEN new[k].sources[s]
                                                  ELSE NoBinding
          BY <3>1, <3>5 DEF View
    <3> QED BY <2>4, <3>1, <3>3, <3>4, <3>6
  <2>5. CASE new[k] # NoItem /\ Unheld(new[k]) /\ (Loaded(old, k) \/ new[k].retained)
    <3>1. J[k] = empty(k)
          BY <2>5 DEF Save
    <3>2. new[k] \in Rowed
          BY <2>1, <2>5
    <3>3. empty(k) \in Rowed /\ empty(k).retained
          BY <3>2 DEF Rowed, HubItems
    <3>4. empty(k) # NoItem
          BY <3>3, AbsentAssumption DEF Rowed
    <3> HIDE DEF empty, J
    <3>5. \A s \in Sources : View(J, s, k) = NoBinding
          BY <3>1, <3>3 DEF View, Loaded
    <3>6. \A s \in Sources : View(new, s, k) = NoBinding
          BY <2>5 DEF View, Unheld, Binds
    <3> QED BY <2>5, <3>1, <3>3, <3>4, <3>5, <3>6
  <2>6. CASE new[k] # NoItem /\ Unheld(new[k]) /\ ~(Loaded(old, k) \/ new[k].retained)
    <3>1. J[k] = old[k]
          BY <2>6 DEF Save
    <3>5. \A s \in Sources : View(J, s, k) = NoBinding
          BY <2>6, <3>1 DEF View, Loaded
    <3>6. \A s \in Sources : View(new, s, k) = NoBinding
          BY <2>6 DEF View, Unheld, Binds
    <3> QED BY <2>1, <2>6, <3>1, <3>5, <3>6
  <2> QED BY <2>2, <2>3, <2>4, <2>5, <2>6
<1>2. J \in Stores
  <2>1. J = [k \in Keys |-> J[k]]
        BY DEF Save
  <2> HIDE DEF J
  <2> QED BY <1>1, <2>1 DEF Stores
<1> HIDE DEF J
<1>3. \A s \in Sources, k \in Keys : View(J, s, k) # NoBinding => View(J, s, k) \in Bindings(Handles)
      BY <1>2 DEF View, Loaded, Stores, Rowed, HubItems
<1> QED BY <1>1, <1>2, <1>3 DEF Saved, J

-----------------------------------------------------------------------------
(* The bodies a batch puts in the store.                                   *)

Has(item, B) == item.object \in B /\ item.conflictObject \in B
Bodied(I, B) == \A k \in Keys : I[k] # NoItem => Has(I[k], B)
Wrote(ws, B) == \A i \in 1..Len(ws) : ws[i].op = "Upsert" => ws[i].row.object \in B

(* Folding content puts no body in the item that was not there or written. *)
LEMMA FoldContentHas ==
    ASSUME NEW item \in Rowed, NEW s \in Sources, NEW p \in Rows, NEW B,
           NoBody \in B, p.object \in B, Has(item, B)
    PROVE  Has(FoldContent(item, s, p).item, B)
<1>1. ASSUME NEW b \in B
      PROVE  /\ Has(Settled(item, b), B) /\ Has(Diverged(item, b), B)
             /\ Has([item EXCEPT !.object = b], B)
      BY DEF Has, Settled, Diverged, Rowed, HubItems
<1>2. ASSUME NEW b \in B
      PROVE  Has(Fill(item, b).item, B) /\ Has(CrossConflict(item, b).item, B)
  <2>1. item.object \in B /\ item.conflictObject \in B
        BY DEF Has
  <2> QED BY <1>1, <2>1 DEF Fill, CrossConflict, Verdict
<1> QED BY <1>1, <1>2 DEF FoldContent, Verdict

(* Nor does an upsert.                                                     *)
LEMMA UpsertHas ==
    ASSUME NEW batch \in Batches, NEW s \in Sources, NEW p \in Rows, NEW B,
           NoBody \in B, p.object \in B, Bodied(batch.items, B)
    PROVE  Bodied(AbsorbUpsert(batch, s, p).items, B)
<1> DEFINE e == Entry(batch, s, p)
           o == p.handle \in batch.overruling
           g == p.handle \in batch.settling
           v == IF p.status = "Tombstone" THEN FoldTombstone(e, s, p)
                ELSE FoldLive(e, s, p, o, g)
<1>1. p.link \in Keys /\ p.flags \in FlagSets /\ p.object \in Nat
      BY KeysAssumption DEF Rows, Placements
<1>2. e \in Rowed
      BY EntryEffect
<1>3. Has(e, B)
  <2> DEFINE new == [flags |-> p.flags, object |-> p.object, deleted |-> FALSE,
                     conflicted |-> FALSE, conflictObject |-> NoBody,
                     retained |-> FALSE, sources |-> Unbound]
             held == IF Loaded(batch.items, p.link) THEN batch.items[p.link] ELSE new
  <2>1. Has(new, B)
        BY DEF Has
  <2>2. Loaded(batch.items, p.link) => Has(batch.items[p.link], B)
        BY <1>1 DEF Bodied, Loaded
  <2>3. Has(held, B)
        BY <2>1, <2>2
  <2>4. new \in Rowed
        BY <1>1 DEF Rowed, HubItems, NoBody, Unbound
  <2>5. held \in Rowed
    <3>1. batch.items[p.link] \in Rowed \cup {NoItem}
          BY <1>1 DEF Batches, Stores
    <3> QED BY <2>4, <3>1 DEF Loaded
  <2>6. e = IF Binds(held, s) THEN held ELSE [held EXCEPT !.sources[s] = batch.released[p.link]]
        BY DEF Entry
  <2> HIDE DEF held, e
  <2> QED BY <2>3, <2>5, <2>6 DEF Has, Rowed, HubItems
<1> HIDE DEF e
<1>4. ASSUME p.status = "Tombstone"
      PROVE  Has(v.item, B)
  <2> DEFINE w == WithFlags(e, p.flags)
  <2>1. w \in Rowed /\ Has(w, B)
        BY <1>1, <1>2, <1>3 DEF WithFlags, Rowed, HubItems, Has
  <2> HIDE DEF w
  <2>2. \A b : LET i == [w EXCEPT !.deleted = TRUE, !.conflicted = FALSE,
                                  !.conflictObject = NoBody, !.sources[s] = b]
               IN  i.object = w.object /\ i.conflictObject = NoBody
        BY <2>1 DEF Rowed, HubItems
  <2> QED BY <1>4, <2>1, <2>2 DEF FoldTombstone, Verdict, Has, w
<1>5. ASSUME p.status # "Tombstone"
      PROVE  Has(v.item, B)
  <2> DEFINE u == Undeleted(e, p)
             c == IF g /\ e.conflicted /\ p.object # NoBody
                  THEN Verdict(Settled(u, p.object), {})
                  ELSE FoldContent(u, s, p)
             d == IF o THEN Overruling(c, p) ELSE c
             before == IF Binds(e, s) THEN e.sources[s].shared ELSE NoBody
  <2>1. u \in Rowed /\ Has(u, B)
        BY <1>1, <1>2, <1>3 DEF Undeleted, WithFlags, Rowed, HubItems, Has
  <2> HIDE DEF u
  <2>2. /\ c = [item |-> c.item, lost |-> c.lost] /\ Has(c.item, B) /\ c.item \in Rowed
    <3>1. FoldContent(u, s, p) = [item |-> FoldContent(u, s, p).item,
                                  lost |-> FoldContent(u, s, p).lost]
          BY DEF FoldContent, Verdict, Fill, CrossConflict
    <3>2. FoldContent(u, s, p).item \in Rowed /\ Has(FoldContent(u, s, p).item, B)
          BY <2>1, FoldContentBodyOnly, FoldContentHas DEF BodyOnly
    <3>3. Settled(u, p.object) \in Rowed /\ Has(Settled(u, p.object), B)
          BY <1>1, <2>1 DEF Settled, Has, Rowed, HubItems, NoBody
    <3> QED BY <3>1, <3>2, <3>3 DEF Verdict
  <2> HIDE DEF c
  <2>3. /\ d = [item |-> d.item, lost |-> d.lost] /\ Has(d.item, B) /\ d.item \in Rowed
    <3>1. Settled(c.item, p.object) \in Rowed /\ Has(Settled(c.item, p.object), B)
          BY <1>1, <2>2 DEF Settled, Has, Rowed, HubItems, NoBody
    <3> HIDE DEF Settled
    <3>2. Overruling(c, p) = IF c.item.conflicted /\ p.object # NoBody /\ p.object = c.item.object
                             THEN [item |-> Settled(c.item, p.object), lost |-> c.lost]
                             ELSE c
          BY <2>2 DEF Overruling
    <3> QED BY <2>2, <3>1, <3>2
  <2>4. v = Bound(d, s, p, before)
        BY <1>5 DEF FoldLive, u, c
  <2> HIDE DEF d
  <2>5. \E r : v.item = [d.item EXCEPT !.sources[s] = r]
        BY <2>3, <2>4 DEF Bound
  <2> QED BY <2>3, <2>5 DEF Has, Rowed, HubItems
<1>6. AbsorbUpsert(batch, s, p).items = [batch.items EXCEPT ![p.link] = v.item]
      BY DEF AbsorbUpsert, Folded, Batches, e
<1> HIDE DEF v
<1>7. batch.items \in Stores
      BY DEF Batches
<1> QED BY <1>4, <1>5, <1>6, <1>7 DEF Bodied, Stores

(* Nor does any write.                                                     *)
LEMMA AbsorbHas ==
    ASSUME NEW batch \in Batches, NEW s \in Sources, NEW op \in Writes, NEW B,
           NoBody \in B, op.op = "Upsert" => op.row.object \in B, Bodied(batch.items, B)
    PROVE  Bodied(Absorb(batch, s, op).items, B)
<1>1. CASE \E p \in Rows : op = Upsert(p)
  <2>1. PICK p \in Rows : op = Upsert(p)
        BY <1>1
  <2>2. op.op = "Upsert" /\ op.row = p
        BY <2>1 DEF Upsert
  <2>3. Absorb(batch, s, op) = AbsorbUpsert(batch, s, p)
        BY <2>2 DEF Absorb
  <2> QED BY <2>2, <2>3, UpsertHas
<1>2. CASE \E h \in Handles, r \in Reasons : op = Drop(h, r)
  <2>1. PICK h \in Handles, r \in Reasons : op = Drop(h, r)
        BY <1>2
  <2>2. op.op = "Drop" /\ op.handle = h /\ op.reason = r
        BY <2>1 DEF Drop
  <2> DEFINE new == AbsorbDrop(batch, s, h, r)
  <2>3. Absorb(batch, s, op) = new
        BY <2>2 DEF Absorb
  <2>4. ASSUME NEW k \in Keys, new.items[k] # NoItem
        PROVE  Has(new.items[k], B)
    <3>1. new.items[k] = batch.items[k]
          \/ (batch.items[k] # NoItem /\ new.items[k] = Unbind(batch.items[k], s, r))
          BY DEF AbsorbDrop, Batches, Loaded
    <3>2. batch.items[k] \in Rowed \cup {NoItem}
          BY DEF Batches, Stores
    <3>3. batch.items[k] # NoItem => Has(batch.items[k], B)
          BY DEF Bodied
    <3> HIDE DEF new
    <3>4. batch.items[k] # NoItem => Has(Unbind(batch.items[k], s, r), B)
          BY <3>2, <3>3 DEF Has, Unbind, Rowed, HubItems
    <3> QED BY <2>4, <3>1, <3>3, <3>4
  <2> QED BY <2>3, <2>4 DEF Bodied
<1>3. CASE op.op \in {"Overrule", "Settle"}
      BY <1>3, AbsorbType
<1> QED BY <1>1, <1>2, <1>3 DEF Writes, Overrule, Settle

(* Nor does a batch.                                                       *)
LEMMA FoldHas ==
    ASSUME NEW batch \in Batches, NEW s \in Sources, NEW ws \in Seq(Writes), NEW B,
           NoBody \in B, Wrote(ws, B), Bodied(batch.items, B)
    PROVE  FoldFrom(batch, s, ws) \in Batches /\ Bodied(FoldFrom(batch, s, ws).items, B)
<1>1. Len(ws) \in Nat
      OBVIOUS
<1>2. PICK f : Unfolds(batch, s, ws, f) /\ FoldFrom(batch, s, ws) = f[Len(ws)]
      BY <1>1, FoldFromUnfolds
<1>3. \A n \in 0..Len(ws) : f[n] = IF n = 0 THEN batch ELSE Absorb(f[n - 1], s, ws[n])
      BY <1>2 DEF Unfolds
<1> DEFINE good(n) == f[n] \in Batches /\ Bodied(f[n].items, B)
           bad == {n \in 0..Len(ws) : ~good(n)}
<1> SUFFICES ASSUME bad # {} PROVE FALSE
    BY <1>1, <1>2
<1>4. PICK n \in bad : \A m \in bad : n <= m
  <2>1. bad \in SUBSET Nat
        OBVIOUS
  <2> HIDE DEF bad
  <2> QED BY <2>1, LeastOf
<1>5. good(0)
      BY <1>1, <1>3
<1>6. n \in 1..Len(ws)
      BY <1>4, <1>5
<1>7. n - 1 \in 0..Len(ws) /\ n - 1 \notin bad
      BY <1>4, <1>6
<1>8. good(n - 1)
      BY <1>7
<1>9. ws[n] \in Writes /\ f[n] = Absorb(f[n - 1], s, ws[n])
      /\ (ws[n].op = "Upsert" => ws[n].row.object \in B)
      BY <1>3, <1>6 DEF Wrote
<1>10. good(n)
  <2> DEFINE x == f[n - 1]
  <2>1. x \in Batches /\ Bodied(x.items, B)
        BY <1>8
  <2> HIDE DEF x
  <2>2. Absorb(x, s, ws[n]) \in Batches /\ Bodied(Absorb(x, s, ws[n]).items, B)
        BY <1>9, <2>1, AbsorbType, AbsorbHas
  <2> QED BY <1>9, <2>2 DEF x
<1> QED BY <1>4, <1>10

(* Nor does saving it, where content is mutable.                           *)
LEMMA SaveHas ==
    ASSUME NEW old \in Stores, NEW new \in Stores, NEW B, Mutable,
           Bodied(old, B), Bodied(new, B)
    PROVE  Bodied(Save(old, new), B)
<1>1. ASSUME NEW k \in Keys, Save(old, new)[k] # NoItem
      PROVE  Has(Save(old, new)[k], B)
  <2>1. new[k] \in Rowed \cup {NoItem}
        BY DEF Stores
  <2>2. new[k] # NoItem => /\ Has(new[k], B)
                           /\ Has([new[k] EXCEPT !.deleted = TRUE, !.retained = TRUE], B)
        BY <2>1 DEF Bodied, Has, Rowed, HubItems
  <2>3. old[k] # NoItem => Has(old[k], B)
        BY DEF Bodied
  <2>4. Save(old, new)[k] \in {NoItem, new[k], old[k],
                               [new[k] EXCEPT !.deleted = TRUE, !.retained = TRUE]}
        /\ (Save(old, new)[k] # NoItem => new[k] # NoItem)
        BY DEF Save, Revived
  <2> QED BY <1>1, <2>2, <2>3, <2>4
<1> QED BY <1>1 DEF Bodied

-----------------------------------------------------------------------------
(* The inductive invariant.                                                *)

(* What a row is judged against: the servers, the bodies some server was   *)
(* given (or nobody owes one), and the bodies written so far.              *)
Seen(members, last, debt) ==
    [srv |-> members, given |-> (0..last) \ debt, written |-> 0..last]
World == Seen(srv, body, owed)

Exact == ~BesideOthers
Reporting == Mutable /\ ReportsRevision

(* What a row says of its server was true once: the member it names is its *)
(* source's and states its identity, no revision is ahead of the member's, *)
(* and a body told at the member's revision is the member's.               *)
Told(w, x) ==
    Reporting => /\ x.base # NoBase => /\ x.base.object \in w.given
                                       /\ x.base.revision = NoRev => x.base.object = NoBody
                 /\ x.conflictRevision # NoRev => x.conflictObject \in w.given
Grounded(w, x, s, k) ==
    /\ x.base = NoBase => x.handle = k /\ x.conflictRevision = NoRev
    /\ x.base # NoBase =>
         LET m == w.srv[x.handle[2]]
         IN  /\ IsReal(x.handle)
             /\ m # NoMember /\ m.source = s /\ m.link = k[1]
             /\ x.base.revision <= m.revision
             /\ x.conflictRevision <= m.revision
             /\ (Mutable /\ x.base.revision = m.revision) => x.base.object \in {NoBody, m.body}
             /\ (Mutable /\ x.conflictRevision = m.revision) =>
                  x.conflictObject \in {NoBody, m.body}
    /\ Told(w, x)

(* What a row says of its server is true now.                              *)
Known(w, x) ==
    LET m == w.srv[x.handle[2]]
    IN  /\ m.live
        /\ Mutable => x.base.revision # NoRev \/ x.conflictRevision # NoRev
        /\ Exact => m.revision = IF x.conflictRevision # NoRev THEN x.conflictRevision
                                 ELSE x.base.revision

(* The members of the servers, numbered as they came.                      *)
Members == [live : BOOLEAN, source : Sources, link : Links, revision : Nat,
            body : Nat, flags : SUBSET Flags]
ServersOK(w) ==
    /\ w.srv \in [Numbers -> Members \cup {NoMember}]
    /\ \A n \in Numbers : w.srv[n] # NoMember =>
         IF Mutable THEN w.srv[n].revision # NoRev /\ w.srv[n].body \in w.given \ {NoBody}
         ELSE w.srv[n].revision = NoRev
    /\ \A m, n \in Numbers : m < n /\ w.srv[m] = NoMember => w.srv[n] = NoMember
    /\ NoBody \in w.given /\ w.given \subseteq w.written

(* A minted key is its member's: while the member lives, the source that   *)
(* holds it binds the key by it.                                           *)
MintOK(I, w, k) ==
    (k[2] # 0 /\ I[k] # NoItem) =>
        /\ w.srv[k[2]] # NoMember /\ w.srv[k[2]].link = k[1]
        /\ w.srv[k[2]].live => Under(I, w.srv[k[2]].source, k, Real(k[2]))

StoreOK(I, w) ==
    /\ I \in Stores
    /\ \A k \in Keys \ SyncKeys : I[k] = NoItem
    /\ \A s \in Sources, k \in Keys :
         View(I, s, k) # NoBinding => Grounded(w, View(I, s, k), s, k)
    /\ \A s \in Sources, j \in Keys, k \in Keys :
         View(I, s, j) # NoBinding /\ Under(I, s, k, View(I, s, j).handle) => j = k
    /\ \A k \in SyncKeys : MintOK(I, w, k)
    /\ Exact => \A s \in Sources, k \in Keys :
         (View(I, s, k) # NoBinding /\ I[k].deleted) =>
             View(I, s, k).conflictRevision = NoRev
    /\ Mutable => Bodied(I, w.written)

(* Every based binding of s but those a set of members leaves out is known.*)
Tracked(I, w, s, except) ==
    \A k \in Keys :
        LET b == View(I, s, k)
        IN  (b # NoBinding /\ b.base # NoBase) => b.handle[2] \in except \/ Known(w, b)

(* What a listing stated of member n, as long as nobody touched it since.  *)
ItemTrue(w, since, item, n) ==
    /\ item \in Items
    /\ item.revision <= w.srv[n].revision
    /\ Mutable => item.revision # NoRev /\ item.body \in w.given
    /\ (Mutable /\ item.revision = w.srv[n].revision) => item.body \in {NoBody, w.srv[n].body}
    /\ n \notin since => w.srv[n].live /\ (Exact => item.revision = w.srv[n].revision)

RowOK(w, s, p) ==
    /\ p \in Rows
    /\ Grounded(w, p, s, p.link)
    /\ Exact => (p.status # "Conflict" => p.conflictRevision = NoRev)
    /\ Mutable => p.object \in w.written

(* What is bound and what a row says agree; a create may not be bound yet. *)
Agree(b, p) == IF b = NoBinding THEN p.base = NoBase ELSE Matches(b, p)

(* A candidate of a run of source s, whose writes so far make the store W. *)
CandOK(w, since, s, W, c) ==
    LET p == c.row
        n == p.handle[2]
    IN  /\ RowOK(w, s, p)
        /\ c.fresh \in BOOLEAN
        /\ c.seen \in {"listed", "gone", "create"}
        /\ c.seen = "listed" => p.base # NoBase /\ ItemTrue(w, since, c.item, n)
        /\ c.seen = "gone" => p.base # NoBase /\ ~w.srv[n].live
        /\ c.seen = "create" => p.base = NoBase
        /\ ~c.fresh => /\ c.first = << >>
                       /\ W[p.link] # NoItem
                       /\ Agree(View(W, s, p.link), p)
        /\ c.fresh => /\ c.seen = "listed"
                      /\ p.link[2] \in {0, n}
                      /\ (Mutable /\ p.object # NoBody /\ p.object # p.base.object) =>
                           p.base.object = NoBody
                      /\ \A k \in Keys : ~Under(W, s, k, p.handle)
                      /\ c.first \in {<< >>, <<Drop(p.link, "Superseded")>>}

(* A push the run owes.                                                    *)
PushOK(w, s, W, x) ==
    LET p == x.row
        b == View(W, s, p.link)
    IN  /\ RowOK(w, s, p)
        /\ x.change.kind \in {"Add", "Update", "Remove", "SetFlags"}
        /\ x.change.kind = "Add" =>
             /\ p.base = NoBase /\ x.change.link = p.link /\ x.change.object = p.object
             /\ x.change.flags = p.flags
             /\ p.object # NoBody
             /\ W[p.link] # NoItem
             /\ b # NoBinding => b.base = NoBase
        /\ x.change.kind # "Add" => p.base # NoBase /\ b # NoBinding /\ Matches(b, p)
        /\ x.change.kind = "SetFlags" =>
             x.change.add \subseteq Flags /\ x.change.remove \subseteq Flags
        /\ x.change.kind = "Update" =>
             /\ x.change.object = p.object /\ p.object # NoBody
             /\ x.change.ifMatch = p.base.revision
             /\ Exact => p.conflictRevision = NoRev
             /\ Mutable => p.base.revision # NoRev /\ p.base.object # NoBody

(* The members whose based rows are still to merge.                        *)
Numbered(todo) == {c.row.handle[2] : c \in {d \in todo : d.row.base # NoBase}}

RunOK(w, W, ch, r) ==
    /\ r = [source |-> r.source, since |-> r.since, writes |-> r.writes, pushes |-> r.pushes,
            answered |-> r.answered, todo |-> r.todo]
    /\ r.source \in Sources /\ r.since \subseteq ch[r.source]
    /\ r.writes \in Seq(Writes)
    /\ \A c \in r.todo : CandOK(w, r.since, r.source, W, c)
    /\ \A c, d \in r.todo : c # d => c.row.link # d.row.link /\ c.row.handle # d.row.handle
    /\ \E T : r.pushes \in Seq(T)
    /\ \A i \in 1..Len(r.pushes) :
         /\ PushOK(w, r.source, W, r.pushes[i])
         /\ \A c \in r.todo : c.row.link # r.pushes[i].row.link
         /\ \A j \in 1..Len(r.pushes) : i # j => r.pushes[i].row.link # r.pushes[j].row.link
    /\ Tracked(W, w, r.source, r.since \cup Numbered(r.todo))

(* What the store I says of a row the run has yet to merge or to push: the *)
(* writes staged in between are not in it.                                 *)
CandBacked(s, I, c) == ~c.fresh => I[c.row.link] # NoItem /\ Agree(View(I, s, c.row.link), c.row)
PushBacked(s, I, x) ==
    LET p == x.row
        i == View(I, s, p.link)
    IN  /\ x.change.kind = "Add" => I[p.link] # NoItem
        /\ (Mutable /\ x.change.kind = "Update") =>
             /\ i # NoBinding /\ i.handle = p.handle /\ i.base # NoBase
             /\ i.base.object = p.base.object
Backed(I, r) ==
    /\ \A c \in r.todo : CandBacked(r.source, I, c)
    /\ \A i \in 1..Len(r.pushes) : PushBacked(r.source, I, r.pushes[i])

(* A store as the servers justify it.                                      *)
Sound(I, w, ch) == StoreOK(I, w) /\ \A s \in Sources : Tracked(I, w, s, ch[s])

(* The store the run's writes so far would leave.                          *)
V == Fold(items, run.source, run.writes).items

Inv == /\ ServersOK(World) /\ changed \in [Sources -> SUBSET Numbers]
       /\ body \in Nat /\ owed \subseteq Nat
       /\ Mutable => owed \subseteq 1..body
       /\ Sound(items, World, changed)
       /\ ~Idle => /\ Sound(V, World, changed)
                   /\ RunOK(World, V, changed, run)
                   /\ Backed(items, run)

-----------------------------------------------------------------------------
(* Merging one row (Placement.tla), step by step.                          *)

(* Chains the merge stages.                                                *)
LEMMA Chains ==
    ASSUME NEW p, NEW q \in Rows, q.link = p.link, q.handle = p.handle
    PROVE  /\ Chain(<<Upsert(q)>>, p, q)
           /\ Chain(<< >>, q, q)
           /\ \A r \in Rows : (r.link = p.link /\ r.handle = p.handle) =>
                /\ Chain(<<Upsert(r), Overrule(p.handle), Upsert(q)>>, p, q)
                /\ Chain(<<Upsert(r), Upsert(q)>>, p, q)
<1>1. p.handle \in Handles
      BY DEF Rows, Placements
<1>2. /\ Overrule(p.handle) \in Writes /\ Overrule(p.handle).op = "Overrule"
      /\ \A r \in Rows : Upsert(r) \in Writes /\ Upsert(r).op = "Upsert" /\ Upsert(r).row = r
      BY <1>1 DEF Writes, Upsert, Overrule
<1>3. Chain(<< >>, q, q)
      BY DEF Chain
<1> DEFINE u == Upsert(q)
           o == Overrule(p.handle)
<1> HIDE DEF u, o
<1>4. Chain(<<Upsert(q)>>, p, q)
  <2>1. <<u>> \in Seq(Writes) /\ Len(<<u>>) = 1 /\ <<u>> # << >> /\ <<u>>[1] = u
        BY <1>2 DEF u
  <2>2. \A i \in 1..1 : i = 1
        OBVIOUS
  <2> QED BY <1>2, <2>1, <2>2 DEF Chain, u
<1>5. ASSUME NEW r \in Rows, r.link = p.link, r.handle = p.handle
      PROVE  /\ Chain(<<Upsert(r), Overrule(p.handle), Upsert(q)>>, p, q)
             /\ Chain(<<Upsert(r), Upsert(q)>>, p, q)
  <2> DEFINE x == Upsert(r)
             ws == <<x, o, u>>
             vs == <<x, u>>
  <2>1. x \in Writes /\ o \in Writes /\ u \in Writes
        BY <1>2 DEF o, u
  <2>2. x.op = "Upsert" /\ x.row = r /\ o.op = "Overrule" /\ u.op = "Upsert" /\ u.row = q
        BY <1>2 DEF o, u
  <2> HIDE DEF x
  <2>3. ws \in Seq(Writes) /\ Len(ws) = 3 /\ ws # << >> /\ ws[1] = x /\ ws[2] = o /\ ws[3] = u
        BY <2>1
  <2>4. vs \in Seq(Writes) /\ Len(vs) = 2 /\ vs # << >> /\ vs[1] = x /\ vs[2] = u
        BY <2>1
  <2>5. (\A i \in 1..3 : i = 1 \/ i = 2 \/ i = 3) /\ (\A i \in 1..2 : i = 1 \/ i = 2)
        OBVIOUS
  <2> HIDE DEF ws, vs
  <2>6. Chain(ws, p, q)
    <3>1. \A i \in 1..Len(ws) : ws[i] = x \/ ws[i] = o \/ ws[i] = u
          BY <2>3, <2>5
    <3> QED BY <1>5, <2>2, <2>3, <3>1 DEF Chain, u
  <2>7. Chain(vs, p, q)
    <3>1. \A i \in 1..Len(vs) : vs[i] = x \/ vs[i] = u
          BY <2>4, <2>5
    <3> QED BY <1>5, <2>2, <2>4, <3>1 DEF Chain, u
  <2> QED BY <2>6, <2>7 DEF ws, vs, x, o, u
<1> QED BY <1>3, <1>4, <1>5

(* A based row has a base, and is not mistaken for a pending create.       *)
LEMMA Based ==
    ASSUME NEW p \in Rows
    PROVE  /\ p.handle \in Handles /\ p.link \in SyncKeys /\ p.object \in Nat
           /\ p.flags \in FlagSets /\ p.status \in Statuses
           /\ p.conflictRevision \in Nat /\ p.conflictObject \in Nat
           /\ p.base # NoBase => /\ p.base \in Bases /\ p.base.flags \in FlagSets
                                 /\ p.base.revision \in Nat /\ p.base.object \in Nat
BY DEF Rows, Placements, Bases

(* A row that has been reconciled with its source once.                    *)
BasedRows == [handle : Handles, link : SyncKeys, object : Nat, flags : FlagSets,
              status : Statuses, conflictRevision : Nat, conflictObject : Nat,
              base : [flags : FlagSets, revision : Nat, object : Nat]]

(* They are the rows with a base.                                          *)
LEMMA BasedRowsAre == \A p : p \in BasedRows <=> p \in Rows /\ p.base # NoBase
<1>1. ASSUME NEW p \in BasedRows PROVE p \in Rows /\ p.base # NoBase
  <2>1. p.base \in Bases
        BY DEF Bases, BasedRows
  <2>2. p \in Rows
        BY DEF Rows, Placements, Bases, BasedRows
  <2> QED BY <2>1, <2>2, AbsentAssumption
<1>2. ASSUME NEW p \in Rows, p.base # NoBase PROVE p \in BasedRows
      BY <1>2 DEF Rows, Placements, Bases, BasedRows
<1> QED BY <1>1, <1>2

(* The row p with other columns.                                           *)
Recast(q, p, object, flags, status, cr, co, baseFlags, revision, baseObject) ==
    /\ q \in BasedRows /\ q.handle = p.handle /\ q.link = p.link
    /\ q.object = object /\ q.flags = flags /\ q.status = status
    /\ q.conflictRevision = cr /\ q.conflictObject = co
    /\ q.base.flags = baseFlags /\ q.base.revision = revision /\ q.base.object = baseObject

(* What the merge makes of a row, column by column.                        *)
LEMMA ContentRows ==
    ASSUME NEW p \in BasedRows, NEW item \in Items
    PROVE  /\ Recast(TakeListed(p, item), p, item.body, p.flags, p.status, p.conflictRevision,
                     p.conflictObject, p.base.flags, item.revision, item.body)
           /\ Recast(MarkConflict(p, item), p, p.object, p.flags, "Conflict", item.revision,
                     item.body, p.base.flags, p.base.revision, p.base.object)
           /\ Recast(Revive(p, item), p, item.body, item.flags, "Clean", NoRev, NoBody,
                     item.flags, item.revision, item.body)
           /\ Recast(KeepObserved(p, item).row, p, p.object, p.flags, "Dirty", NoRev, NoBody,
                     p.base.flags, item.revision, item.body)
           /\ Recast([p EXCEPT !.conflictRevision = item.revision, !.conflictObject = item.body],
                     p, p.object, p.flags, p.status, item.revision, item.body,
                     p.base.flags, p.base.revision, p.base.object)
<1>3. item.revision \in Nat /\ item.flags \in FlagSets /\ item.body \in Nat
      BY DEF Items
<1>6. Recast(TakeListed(p, item), p, item.body, p.flags, p.status, p.conflictRevision,
             p.conflictObject, p.base.flags, item.revision, item.body)
      BY <1>3 DEF TakeListed, BasedRows, Recast
<1>7. Recast(MarkConflict(p, item), p, p.object, p.flags, "Conflict", item.revision,
             item.body, p.base.flags, p.base.revision, p.base.object)
      BY <1>3 DEF MarkConflict, Statuses, BasedRows, Recast
<1>8. Recast(Revive(p, item), p, item.body, item.flags, "Clean", NoRev, NoBody,
             item.flags, item.revision, item.body)
      BY <1>3 DEF Revive, TakeListed, Statuses, NoRev, NoBody, BasedRows, Recast
<1>9. Recast(KeepObserved(p, item).row, p, p.object, p.flags, "Dirty", NoRev, NoBody,
             p.base.flags, item.revision, item.body)
  <2> DEFINE q == [p EXCEPT !.status = "Dirty", !.conflictRevision = NoRev,
                            !.conflictObject = NoBody, !.base.revision = item.revision,
                            !.base.object = item.body]
  <2>1. KeepObserved(p, item).row = q
        BY DEF KeepObserved, Outcome
  <2>2. Recast(q, p, p.object, p.flags, "Dirty", NoRev, NoBody,
               p.base.flags, item.revision, item.body)
        BY <1>3 DEF Statuses, NoRev, NoBody, BasedRows, Recast
  <2> QED BY <2>1, <2>2
<1>10. Recast([p EXCEPT !.conflictRevision = item.revision, !.conflictObject = item.body],
              p, p.object, p.flags, p.status, item.revision, item.body,
              p.base.flags, p.base.revision, p.base.object)
      BY <1>3 DEF BasedRows, Recast
<1> QED BY <1>6, <1>7, <1>8, <1>9, <1>10

(* What the flag axis and a settled push make of a row, column by column.  *)
LEMMA FlagRows ==
    ASSUME NEW p \in BasedRows, NEW flags \in FlagSets, NEW status \in Statuses,
           NEW revision \in Nat
    PROVE  /\ Recast([p EXCEPT !.status = status], p, p.object, p.flags, status,
                     p.conflictRevision, p.conflictObject,
                     p.base.flags, p.base.revision, p.base.object)
           /\ Recast([p EXCEPT !.flags = flags], p, p.object, flags, p.status,
                     p.conflictRevision, p.conflictObject,
                     p.base.flags, p.base.revision, p.base.object)
           /\ Recast(Rebase(p, flags), p, p.object, p.flags,
                     IF p.status = "Conflict" \/ ContentPending(p) THEN p.status ELSE "Clean",
                     p.conflictRevision, p.conflictObject,
                     flags, p.base.revision, p.base.object)
           /\ Recast(RebaseContent(p, revision), p, p.object, p.flags,
                     IF p.status = "Tombstone" THEN "Tombstone"
                     ELSE IF p.flags = p.base.flags THEN "Clean" ELSE "Dirty",
                     p.conflictRevision, p.conflictObject,
                     p.base.flags, revision, p.object)
<1>1. Recast([p EXCEPT !.status = status], p, p.object, p.flags, status,
             p.conflictRevision, p.conflictObject,
             p.base.flags, p.base.revision, p.base.object)
      BY DEF BasedRows, Recast
<1>2. Recast([p EXCEPT !.flags = flags], p, p.object, flags, p.status,
             p.conflictRevision, p.conflictObject,
             p.base.flags, p.base.revision, p.base.object)
      BY DEF BasedRows, Recast
<1>3. Recast(Rebase(p, flags), p, p.object, p.flags,
             IF p.status = "Conflict" \/ ContentPending(p) THEN p.status ELSE "Clean",
             p.conflictRevision, p.conflictObject,
             flags, p.base.revision, p.base.object)
  <2> DEFINE st == IF p.status = "Conflict" \/ ContentPending(p) THEN p.status ELSE "Clean"
  <2>1. st \in Statuses
        BY DEF Statuses, BasedRows
  <2>2. Rebase(p, flags) = [p EXCEPT !.base.flags = flags, !.status = st]
        BY DEF Rebase
  <2> HIDE DEF st
  <2>3. Recast(Rebase(p, flags), p, p.object, p.flags, st, p.conflictRevision,
               p.conflictObject, flags, p.base.revision, p.base.object)
        BY <2>1, <2>2 DEF BasedRows, Recast
  <2> QED BY <2>3 DEF st
<1>4. Recast(RebaseContent(p, revision), p, p.object, p.flags,
             IF p.status = "Tombstone" THEN "Tombstone"
             ELSE IF p.flags = p.base.flags THEN "Clean" ELSE "Dirty",
             p.conflictRevision, p.conflictObject,
             p.base.flags, revision, p.object)
  <2> DEFINE st == IF p.status = "Tombstone" THEN "Tombstone"
                   ELSE IF p.flags = p.base.flags THEN "Clean" ELSE "Dirty"
  <2>1. st \in Statuses
        BY DEF Statuses, BasedRows
  <2> DEFINE b == p.object
             q == [p EXCEPT !.status = st, !.base.revision = revision, !.base.object = b]
  <2>2. RebaseContent(p, revision) = q
        BY DEF RebaseContent
  <2>3. b \in Nat
        BY DEF BasedRows
  <2> HIDE DEF st, b
  <2>4. Recast(q, p, p.object, p.flags, st, p.conflictRevision,
               p.conflictObject, p.base.flags, revision, b)
        BY <2>1, <2>3 DEF BasedRows, Recast
  <2> QED BY <2>2, <2>4 DEF st, b
<1> QED BY <1>1, <1>2, <1>3, <1>4

-----------------------------------------------------------------------------
(* The flag axis moves markers alone.                                      *)

Flagged(p, q) ==
    /\ q \in BasedRows /\ q.handle = p.handle /\ q.link = p.link /\ q.object = p.object
    /\ q.conflictRevision = p.conflictRevision /\ q.conflictObject = p.conflictObject
    /\ q.base.revision = p.base.revision /\ q.base.object = p.base.object
    /\ p.status = "Conflict" => q.status = "Conflict"

Marks(change) == /\ change.kind = "SetFlags"
                 /\ change.add \subseteq Flags /\ change.remove \subseteq Flags

(* No write of ws overrules anything.                                      *)
Mild(ws) == \A i \in 1..Len(ws) : ws[i].op # "Overrule"

(* A merge of markers is a set of markers, and a delta one to push.        *)
LEMMA FlagTypes ==
    /\ \A base, local, remote \in FlagSets : MergeFlags(base, local, remote) \in FlagSets
    /\ \A merged, held \in FlagSets :
         FlagDelta(merged, held) = NoChange \/ Marks(FlagDelta(merged, held))
<1>1. ASSUME NEW base \in FlagSets, NEW local \in FlagSets, NEW remote \in FlagSets
      PROVE  MergeFlags(base, local, remote) \in FlagSets
      BY DEF FlagSets, MergeFlags
<1>2. ASSUME NEW merged \in FlagSets, NEW held \in FlagSets
      PROVE  FlagDelta(merged, held) = NoChange \/ Marks(FlagDelta(merged, held))
  <2> DEFINE h == IF held = Unknown THEN {} ELSE held
  <2>1. h \subseteq Flags
        BY DEF FlagSets
  <2>2. merged # Unknown => merged \subseteq Flags
        BY DEF FlagSets
  <2> QED BY <2>1, <2>2 DEF FlagDelta, FlagsChange, Marks
<1> QED BY <1>1, <1>2

(* One write of a row, and none.                                           *)
LEMMA OneWrite ==
    ASSUME NEW q
    PROVE  /\ Mild(<<Upsert(q)>>) /\ Mild(<< >>)
           /\ \A B : q.object \in B => Wrote(<<Upsert(q)>>, B)
           /\ \A B : Wrote(<< >>, B)
           /\ <<Upsert(q)>> # << >>
<1> DEFINE u == Upsert(q)
<1>1. u.op = "Upsert" /\ u.row = q
      BY DEF Upsert
<1> HIDE DEF u
<1>2. Len(<<u>>) = 1 /\ <<u>>[1] = u /\ Len(<< >>) = 0 /\ <<u>> # << >>
      OBVIOUS
<1>3. \A i \in 1..1 : i = 1
      OBVIOUS
<1> QED BY <1>1, <1>2, <1>3 DEF Mild, Wrote, u

(* Reconciling the flags of a row stages writes of that row alone, and     *)
(* derives at most a flag push.                                            *)
LEMMA FlagAxis ==
    ASSUME NEW p \in BasedRows, NEW item \in Items, NEW mayPush \in BOOLEAN
    PROVE  LET out == ReconcileFlags(p, item, mayPush)
           IN  /\ Chain(out.writes, p, out.row) /\ Flagged(p, out.row)
               /\ Mild(out.writes)
               /\ \A B : p.object \in B => Wrote(out.writes, B)
               /\ out.change = NoChange \/ (mayPush /\ Marks(out.change))
               /\ out = Outcome(out.row, out.writes, out.change)
<1> DEFINE out == ReconcileFlags(p, item, mayPush)
           merged == MergeFlags(p.base.flags, p.flags, item.flags)
           pull == merged # p.flags
           updated == [p EXCEPT !.flags = merged]
           held == IF item.flags = Unknown THEN p.base.flags ELSE item.flags
           delta == FlagDelta(merged, held)
           pulled == IF pull THEN <<Upsert(updated)>> ELSE << >>
           Good(o) == /\ Chain(o.writes, p, o.row) /\ Flagged(p, o.row)
                      /\ Mild(o.writes)
                      /\ \A B : p.object \in B => Wrote(o.writes, B)
<1>1. p.base.flags \in FlagSets /\ p.flags \in FlagSets /\ item.flags \in FlagSets
      /\ p.status \in Statuses
      BY DEF BasedRows, Items
<1>2. merged \in FlagSets /\ held \in FlagSets
      BY <1>1, FlagTypes
<1>3. delta = NoChange \/ Marks(delta)
      BY <1>2, FlagTypes
<1>4. updated \in BasedRows /\ Flagged(p, updated) /\ updated.status = p.status
      /\ (ContentPending(updated) <=> ContentPending(p))
      /\ (~pull => updated = p)
  <2>1. Recast(updated, p, p.object, merged, p.status, p.conflictRevision, p.conflictObject,
               p.base.flags, p.base.revision, p.base.object)
    <3> HIDE DEF merged
    <3> QED BY <1>1, <1>2, FlagRows
  <2>2. ~pull => updated = p
    <3> HIDE DEF merged
    <3> QED BY DEF BasedRows
  <2> HIDE DEF updated
  <2> QED BY <2>1, <2>2 DEF Recast, Flagged, ContentPending, StagedEdit
<1> HIDE DEF merged, held, delta, updated
<1>5. ASSUME NEW r \in BasedRows, Flagged(p, r)
      PROVE  Flagged(p, Rebase(r, merged))
  <2>1. Recast(Rebase(r, merged), r, r.object, r.flags,
               IF r.status = "Conflict" \/ ContentPending(r) THEN r.status ELSE "Clean",
               r.conflictRevision, r.conflictObject,
               merged, r.base.revision, r.base.object)
        BY <1>1, <1>2, FlagRows
  <2> QED BY <1>5, <2>1 DEF Recast, Flagged
<1>6. ASSUME NEW q, Flagged(p, q), NEW c
      PROVE  Good(Outcome(q, <<Upsert(q)>>, c))
  <2>1. q \in Rows /\ q.link = p.link /\ q.handle = p.handle /\ q.object = p.object
        BY <1>6, BasedRowsAre DEF Flagged
  <2>2. Chain(<<Upsert(q)>>, p, q)
        BY <2>1, Chains
  <2>3. Mild(<<Upsert(q)>>) /\ \A B : p.object \in B => Wrote(<<Upsert(q)>>, B)
        BY <2>1, OneWrite
  <2> DEFINE ws == <<Upsert(q)>>
  <2> HIDE DEF ws
  <2>4. Outcome(q, ws, c).writes = ws /\ Outcome(q, ws, c).row = q
        BY DEF Outcome
  <2> QED BY <1>6, <2>2, <2>3, <2>4 DEF ws
<1>7. ASSUME NEW c
      PROVE  Good(Outcome(p, << >>, c))
  <2>1. p \in Rows
        BY BasedRowsAre
  <2>2. Chain(<< >>, p, p)
        BY <2>1, Chains
  <2>3. Flagged(p, p)
        BY DEF Flagged
  <2> QED BY <2>2, <2>3, OneWrite DEF Outcome
<1>8. \A c : Good(Outcome(updated, pulled, c))
  <2>1. CASE pull
        BY <1>4, <1>6, <2>1
  <2>2. CASE ~pull
        BY <1>4, <1>7, <2>2
  <2> QED BY <2>1, <2>2
<1>9. Flagged(p, p)
      BY DEF Flagged
<1>10. PullFlags(p, merged) = Rebase(updated, merged)
      BY DEF PullFlags, updated
<1> DEFINE settled == p.status = "Dirty" /\ ~ContentPending(p)
           push == merged # item.flags
<1>11. out = IF ~push
             THEN IF pull THEN Rewritten(Rebase(updated, merged))
                  ELSE IF p.flags # p.base.flags \/ settled
                  THEN Rewritten(Rebase(p, merged)) ELSE Untouched(p)
             ELSE IF ~mayPush \/ "flags" \notin Rights
             THEN Outcome(updated, pulled, NoChange)
             ELSE IF delta # NoChange THEN Outcome(updated, pulled, delta)
             ELSE IF pull THEN Rewritten(updated)
             ELSE Rewritten(Rebase(updated, merged))
      BY <1>10 DEF ReconcileFlags, merged, held, delta, updated
<1> HIDE DEF out, pull, settled, push, pulled, Good
<1>12. Good(Rewritten(Rebase(updated, merged))) /\ Good(Rewritten(Rebase(p, merged)))
       /\ Good(Rewritten(updated)) /\ Good(Untouched(p))
      BY <1>4, <1>5, <1>6, <1>7, <1>9 DEF Rewritten, Untouched
<1>13. Good(out)
      BY <1>8, <1>11, <1>12
<1>14. out.change = NoChange \/ (mayPush /\ Marks(out.change))
      BY <1>3, <1>11 DEF Rewritten, Untouched, Outcome
<1>15. out = Outcome(out.row, out.writes, out.change)
      BY <1>11 DEF Rewritten, Untouched, Outcome
<1> QED BY <1>13, <1>14, <1>15 DEF out, Good

-----------------------------------------------------------------------------
(* The content axis takes what a listing stated and nothing else.          *)

(* Protocol handles and keys are apart.                                    *)
LEMMA HandleKinds ==
    /\ \A h \in Handles : IsReal(h) => h[2] \in Numbers /\ h = Real(h[2])
    /\ \A k \in SyncKeys : /\ ~IsReal(k) /\ k \in Handles /\ k \in Keys
                           /\ k[1] \in Links /\ k[2] \in Numbers \cup {0}
                           /\ k = <<k[1], k[2]>>
    /\ \A n \in Numbers : Real(n) \in Handles /\ IsReal(Real(n)) /\ Real(n)[2] = n
    /\ \A n \in Numbers : n \in Nat /\ n # 0
<1>1. ASSUME NEW k \in SyncKeys
      PROVE  /\ ~IsReal(k) /\ k \in Handles /\ k \in Keys
             /\ k[1] \in Links /\ k[2] \in Numbers \cup {0} /\ k = <<k[1], k[2]>>
  <2>1. CASE \E l \in Links : k = Hint(l)
    <3>1. PICK l \in Links : k = Hint(l)
          BY <2>1
    <3>2. l # 0
          BY LinksAssumption
    <3> QED BY <3>1, <3>2, KeysAssumption DEF Hint, IsReal, Handles
  <2>2. CASE \E l \in Links, n \in Numbers : k = Minted(l, n)
    <3>1. PICK l \in Links, n \in Numbers : k = Minted(l, n)
          BY <2>2
    <3>2. l # 0
          BY LinksAssumption
    <3> QED BY <3>1, <3>2, KeysAssumption DEF Minted, IsReal, Handles
  <2> QED BY <2>1, <2>2 DEF SyncKeys
<1>2. \A n \in Numbers : Real(n) \in Handles /\ IsReal(Real(n)) /\ Real(n)[2] = n
      BY DEF Real, Handles, IsReal
<1>3. ASSUME NEW h \in Handles, IsReal(h)
      PROVE  h[2] \in Numbers /\ h = Real(h[2])
  <2>1. h \notin SyncKeys
        BY <1>1, <1>3
  <2>2. PICK n \in Numbers : h = Real(n)
        BY <2>1 DEF Handles
  <2> QED BY <1>2, <2>2
<1>4. \A n \in Numbers : n \in Nat /\ n # 0
      BY BoundsAssumption DEF Numbers
<1> QED BY <1>1, <1>2, <1>3, <1>4

(* What a row that has been reconciled is grounded in.                     *)
LEMMA Anchored ==
    ASSUME NEW w, NEW s, NEW p, NEW k, ServersOK(w), p.handle \in Handles,
           Grounded(w, p, s, k), p.base # NoBase
    PROVE  LET n == p.handle[2]
               m == w.srv[n]
           IN  /\ IsReal(p.handle) /\ n \in Numbers /\ p.handle = Real(n)
               /\ m \in Members /\ m # NoMember /\ m.source = s /\ m.link = k[1]
               /\ m.revision \in Nat
               /\ Mutable => m.revision # NoRev /\ m.body \in w.given /\ m.body # NoBody
               /\ ~Mutable => m.revision = NoRev
               /\ p.base.revision <= m.revision /\ p.conflictRevision <= m.revision
               /\ (Mutable /\ p.base.revision = m.revision) => p.base.object \in {NoBody, m.body}
               /\ (Mutable /\ p.conflictRevision = m.revision) =>
                    p.conflictObject \in {NoBody, m.body}
               /\ Told(w, p)
<1> DEFINE n == p.handle[2]
           m == w.srv[n]
<1>1. /\ IsReal(p.handle) /\ m # NoMember /\ m.source = s /\ m.link = k[1]
      /\ p.base.revision <= m.revision /\ p.conflictRevision <= m.revision
      /\ (Mutable /\ p.base.revision = m.revision) => p.base.object \in {NoBody, m.body}
      /\ (Mutable /\ p.conflictRevision = m.revision) => p.conflictObject \in {NoBody, m.body}
      /\ Told(w, p)
      BY DEF Grounded
<1>2. n \in Numbers /\ p.handle = Real(n)
      BY <1>1, HandleKinds
<1>3. m \in Members
      BY <1>1, <1>2 DEF ServersOK
<1>4. m.revision \in Nat
      BY <1>3 DEF Members
<1>5. IF Mutable THEN m.revision # NoRev /\ m.body \in w.given \ {NoBody} ELSE m.revision = NoRev
      BY <1>1, <1>2 DEF ServersOK
<1> QED BY <1>1, <1>2, <1>3, <1>4, <1>5

(* A row whose base and divergence are its own or the listing's.           *)
From(p, item, q) ==
    /\ q \in BasedRows /\ q.handle = p.handle /\ q.link = p.link
    /\ q.object \in {p.object, item.body}
    /\ \/ q.base.revision = p.base.revision /\ q.base.object = p.base.object
       \/ q.base.revision = item.revision /\ q.base.object = item.body
    /\ \/ q.conflictRevision = p.conflictRevision /\ q.conflictObject = p.conflictObject
       \/ q.conflictRevision = item.revision /\ q.conflictObject = item.body
       \/ q.conflictRevision = NoRev
    /\ Exact => (q.status # "Conflict" => q.conflictRevision = NoRev)

(* The row is at the revision the listing stated.                          *)
Follows(q, item) ==
    IF q.conflictRevision # NoRev THEN Exact => item.revision \in {NoRev, q.conflictRevision}
    ELSE item.revision \in {NoRev, q.base.revision}

(* Such a row is as good as the one it comes from.                         *)
LEMMA RowFrom ==
    ASSUME NEW w, NEW since, NEW s \in Sources, NEW p \in BasedRows, NEW item, NEW q,
           ServersOK(w), RowOK(w, s, p), ItemTrue(w, since, item, p.handle[2]),
           From(p, item, q)
    PROVE  /\ RowOK(w, s, q)
           /\ Follows(q, item) /\ p.handle[2] \notin since => Known(w, q)
<1> DEFINE m == w.srv[p.handle[2]]
<1>1. p.base # NoBase /\ q.base # NoBase /\ q \in Rows /\ p.handle \in Handles
      /\ q.base.revision \in Nat /\ q.conflictRevision \in Nat
      /\ q.handle = p.handle /\ q.link = p.link
      BY BasedRowsAre DEF BasedRows, From
<1>2. Grounded(w, p, s, p.link)
      BY DEF RowOK
<1>3. /\ item.revision <= m.revision /\ item.revision \in Nat
      /\ Mutable => item.revision # NoRev /\ item.body \in w.given
      /\ (Mutable /\ item.revision = m.revision) => item.body \in {NoBody, m.body}
      /\ p.handle[2] \notin since => m.live /\ (Exact => item.revision = m.revision)
      BY DEF ItemTrue, Items
<1>4. /\ IsReal(p.handle) /\ m # NoMember /\ m.source = s /\ m.link = p.link[1]
      /\ m.revision \in Nat
      /\ Mutable => m.revision # NoRev
      /\ p.base.revision <= m.revision /\ p.conflictRevision <= m.revision
      /\ (Mutable /\ p.base.revision = m.revision) => p.base.object \in {NoBody, m.body}
      /\ (Mutable /\ p.conflictRevision = m.revision) => p.conflictObject \in {NoBody, m.body}
      /\ Told(w, p)
      BY <1>1, <1>2, Anchored
<1>6. /\ q.base.revision <= m.revision /\ q.conflictRevision <= m.revision
      /\ (Mutable /\ q.base.revision = m.revision) => q.base.object \in {NoBody, m.body}
      /\ (Mutable /\ q.conflictRevision = m.revision) => q.conflictObject \in {NoBody, m.body}
      BY <1>3, <1>4 DEF NoRev, From
<1>7. Told(w, q)
      BY <1>1, <1>3, <1>4 DEF Told, Reporting, From
<1>8. Mutable => q.object \in w.written
  <2>1. w.given \subseteq w.written
        BY DEF ServersOK
  <2> QED BY <1>3, <2>1 DEF RowOK, From
<1>9. Grounded(w, q, s, q.link)
      BY <1>1, <1>4, <1>6, <1>7 DEF Grounded
<1>10. RowOK(w, s, q)
      BY <1>1, <1>8, <1>9 DEF RowOK, From
<1>11. ASSUME Follows(q, item), p.handle[2] \notin since
       PROVE  Known(w, q)
      BY <1>1, <1>3, <1>4, <1>6, <1>11 DEF Known, Follows, NoRev
<1> QED BY <1>10, <1>11

(* The update a merge derives from the row it leaves; where it overruled   *)
(* nothing, the base is the one it found.                                  *)
Edits(p, out) ==
    LET q == out.row
    IN  /\ out.change.kind = "Update"
        /\ out.change.object = q.object /\ q.object # NoBody
        /\ out.change.ifMatch = q.base.revision
        /\ Exact => q.conflictRevision = NoRev
        /\ Mutable => q.base.revision # NoRev /\ q.base.object # NoBody
        /\ Mild(out.writes) => /\ StagedEdit(p)
                               /\ q.base.revision = p.base.revision
                               /\ q.base.object = p.base.object

(* What merging the row p with what a listing stated leaves.               *)
Merges(p, item, out) ==
    /\ Chain(out.writes, p, out.row) /\ From(p, item, out.row) /\ Follows(out.row, item)
    /\ \A B : p.object \in B /\ item.body \in B => Wrote(out.writes, B)
    /\ out = Outcome(out.row, out.writes, out.change)

(* One rewriting of a row.                                                 *)
LEMMA RewrittenMerges ==
    ASSUME NEW p \in BasedRows, NEW item, NEW q, From(p, item, q), Follows(q, item)
    PROVE  Merges(p, item, Rewritten(q)) /\ Rewritten(q).change = NoChange
<1>1. q \in Rows /\ q.link = p.link /\ q.handle = p.handle
      BY BasedRowsAre DEF From
<1>2. Chain(<<Upsert(q)>>, p, q)
      BY <1>1, Chains
<1>3. \A B : p.object \in B /\ item.body \in B => Wrote(<<Upsert(q)>>, B)
      BY OneWrite DEF From
<1> DEFINE ws == <<Upsert(q)>>
<1> HIDE DEF ws
<1>4. Rewritten(q) = Outcome(q, ws, NoChange)
      BY DEF Rewritten, ws
<1>5. /\ Outcome(q, ws, NoChange).row = q /\ Outcome(q, ws, NoChange).writes = ws
      /\ Outcome(q, ws, NoChange).change = NoChange
      BY DEF Outcome
<1> QED BY <1>2, <1>3, <1>4, <1>5 DEF Merges, ws

(* Writes nothing for a row.                                               *)
LEMMA UntouchedMerges ==
    ASSUME NEW p \in BasedRows, NEW item, NEW c, Follows(p, item),
           Exact => (p.status # "Conflict" => p.conflictRevision = NoRev)
    PROVE  Merges(p, item, Outcome(p, << >>, c)) /\ Outcome(p, << >>, c).change = c
<1>1. p \in Rows
      BY BasedRowsAre
<1>2. Chain(<< >>, p, p)
      BY <1>1, Chains
<1>3. From(p, item, p)
      BY DEF From
<1>4. /\ Outcome(p, << >>, c).row = p /\ Outcome(p, << >>, c).writes = << >>
      /\ Outcome(p, << >>, c).change = c
      BY DEF Outcome
<1> QED BY <1>2, <1>3, <1>4, OneWrite DEF Merges

(* Keeping what is pushed over.                                            *)
LEMMA KeepMerges ==
    ASSUME NEW p \in BasedRows, NEW item \in Items,
           Mutable => item.revision # NoRev, p.object # NoBody, item.body # NoBody
    PROVE  LET out == KeepObserved(p, item)
           IN  Merges(p, item, out) /\ Edits(p, out)
<1> DEFINE out == KeepObserved(p, item)
           q == out.row
           r == MarkConflict(p, item)
           ws == <<Upsert(r), Overrule(p.handle), Upsert(q)>>
<1>1. Recast(q, p, p.object, p.flags, "Dirty", NoRev, NoBody,
             p.base.flags, item.revision, item.body)
      /\ Recast(r, p, p.object, p.flags, "Conflict", item.revision,
                item.body, p.base.flags, p.base.revision, p.base.object)
      BY ContentRows
<1>2. out = Outcome(q, ws, UpdateChange(q, item.revision))
      BY DEF KeepObserved, Outcome
<1> HIDE DEF q, r, out
<1>3. q \in Rows /\ q.link = p.link /\ q.handle = p.handle
      /\ r \in Rows /\ r.link = p.link /\ r.handle = p.handle
      BY <1>1, BasedRowsAre DEF Recast
<1>4. Chain(ws, p, q)
      BY <1>3, Chains
<1>5. From(p, item, q) /\ Follows(q, item)
      BY <1>1 DEF Recast, From, Follows
<1>6. /\ \A B : p.object \in B /\ item.body \in B => Wrote(ws, B)
      /\ ~Mild(ws)
  <2> DEFINE x == Upsert(r)
             y == Overrule(p.handle)
             z == Upsert(q)
  <2>1. x.op = "Upsert" /\ x.row = r /\ y.op = "Overrule" /\ z.op = "Upsert" /\ z.row = q
        BY DEF Upsert, Overrule
  <2>2. r.object = p.object /\ q.object = p.object
        BY <1>1 DEF Recast
  <2> HIDE DEF x, y, z
  <2> DEFINE v == <<x, y, z>>
  <2>3. Len(v) = 3 /\ v[1] = x /\ v[2] = y /\ v[3] = z
        OBVIOUS
  <2>4. (\A i \in 1..3 : i = 1 \/ i = 2 \/ i = 3) /\ 2 \in 1..3
        OBVIOUS
  <2> HIDE DEF v
  <2>5. ~Mild(v) /\ \A B : p.object \in B /\ item.body \in B => Wrote(v, B)
        BY <2>1, <2>2, <2>3, <2>4 DEF Mild, Wrote
  <2> QED BY <2>5 DEF v, x, y, z
<1> HIDE DEF ws
<1>7. out.row = q /\ out.writes = ws /\ out.change = UpdateChange(q, item.revision)
      /\ out = Outcome(q, ws, out.change)
      BY <1>2 DEF Outcome
<1>8. Merges(p, item, out)
      BY <1>4, <1>5, <1>6, <1>7 DEF Merges
<1>9. Edits(p, out)
      BY <1>1, <1>6, <1>7 DEF Edits, UpdateChange, Recast
<1> QED BY <1>8, <1>9 DEF out

(* Settling a divergence by policy.                                        *)
LEMMA ResolveMerges ==
    ASSUME NEW p \in BasedRows, NEW item \in Items, Mutable => item.revision # NoRev,
           p.object # NoBody, RemoteChanged(p, item), Exact => p.conflictRevision = NoRev
    PROVE  LET out == ResolveConflict(p, item)
           IN  Merges(p, item, out) /\ (out.change = NoChange \/ Edits(p, out))
<1>1. From(p, item, TakeListed(p, item)) /\ Follows(TakeListed(p, item), item)
  <2>1. Recast(TakeListed(p, item), p, item.body, p.flags, p.status, p.conflictRevision,
               p.conflictObject, p.base.flags, item.revision, item.body)
        BY ContentRows
  <2> QED BY <2>1 DEF Recast, From, Follows
<1>2. From(p, item, MarkConflict(p, item)) /\ Follows(MarkConflict(p, item), item)
  <2>1. Recast(MarkConflict(p, item), p, p.object, p.flags, "Conflict", item.revision,
               item.body, p.base.flags, p.base.revision, p.base.object)
        BY ContentRows
  <2> QED BY <2>1 DEF Recast, From, Follows, RemoteChanged
<1> QED BY <1>1, <1>2, RewrittenMerges, KeepMerges DEF ResolveConflict

(* The content axis.                                                       *)
LEMMA ContentMerges ==
    ASSUME NEW p \in BasedRows, NEW item \in Items, Mutable => item.revision # NoRev,
           Exact => (p.status # "Conflict" => p.conflictRevision = NoRev)
    PROVE  LET out == ReconcileContent(p, item)
           IN  Merges(p, item, out) /\ (out.change = NoChange \/ Edits(p, out))
<1>1. From(p, item, TakeListed(p, item)) /\ (p.status # "Conflict" => Follows(TakeListed(p, item), item))
  <2>1. Recast(TakeListed(p, item), p, item.body, p.flags, p.status, p.conflictRevision,
               p.conflictObject, p.base.flags, item.revision, item.body)
        BY ContentRows
  <2> QED BY <2>1 DEF Recast, From, Follows
<1>2. /\ From(p, item, MarkConflict(p, item))
      /\ RemoteChanged(p, item) => Follows(MarkConflict(p, item), item)
  <2>1. Recast(MarkConflict(p, item), p, p.object, p.flags, "Conflict", item.revision,
               item.body, p.base.flags, p.base.revision, p.base.object)
        BY ContentRows
  <2> QED BY <2>1 DEF Recast, From, Follows, RemoteChanged
<1> DEFINE moved == [p EXCEPT !.conflictRevision = item.revision, !.conflictObject = item.body]
<1>3. p.status = "Conflict" /\ item.revision # NoRev => From(p, item, moved) /\ Follows(moved, item)
  <2>1. Recast(moved, p, p.object, p.flags, p.status, item.revision, item.body,
               p.base.flags, p.base.revision, p.base.object)
        BY ContentRows
  <2> HIDE DEF moved
  <2> QED BY <2>1 DEF Recast, From, Follows
<1> HIDE DEF moved
<1>4. CASE p.status = "Conflict"
  <2>1. ReconcileContent(p, item) = ReconcileConflicted(p, item)
        BY <1>4 DEF ReconcileContent
  <2>2. CASE p.conflictRevision = NoRev /\ RemoteChanged(p, item)
    <3>1. ReconcileConflicted(p, item) = Rewritten(MarkConflict(p, item))
          BY <2>2 DEF ReconcileConflicted
    <3> QED BY <1>2, <2>1, <2>2, <3>1, RewrittenMerges
  <2>3. CASE p.conflictRevision # NoRev /\ item.revision # NoRev
             /\ item.revision # p.conflictRevision
    <3>1. ReconcileConflicted(p, item) = Rewritten(moved)
          BY <2>3 DEF ReconcileConflicted, moved
    <3> QED BY <1>3, <1>4, <2>1, <2>3, <3>1, RewrittenMerges
  <2>4. CASE /\ ~(p.conflictRevision = NoRev /\ RemoteChanged(p, item))
             /\ ~(p.conflictRevision # NoRev /\ item.revision # NoRev
                  /\ item.revision # p.conflictRevision)
    <3>1. ReconcileConflicted(p, item) = Outcome(p, << >>, NoChange)
          BY <2>4 DEF ReconcileConflicted, Untouched
    <3>2. Follows(p, item)
          BY <2>4 DEF Follows, RemoteChanged
    <3> QED BY <1>4, <2>1, <3>1, <3>2, UntouchedMerges
  <2> QED BY <2>2, <2>3, <2>4
<1>5. CASE p.status # "Conflict" /\ ~ContentPending(p)
  <2>1. CASE RemoteChanged(p, item)
    <3>1. ReconcileContent(p, item) = Rewritten(TakeListed(p, item))
          BY <1>5, <2>1 DEF ReconcileContent
    <3> QED BY <1>1, <1>5, <3>1, RewrittenMerges
  <2>2. CASE ~RemoteChanged(p, item)
    <3>1. ReconcileContent(p, item) = Outcome(p, << >>, NoChange)
          BY <1>5, <2>2 DEF ReconcileContent, Untouched
    <3>2. Follows(p, item)
          BY <1>5, <2>2 DEF Follows, RemoteChanged
    <3> QED BY <1>5, <3>1, <3>2, UntouchedMerges
  <2> QED BY <2>1, <2>2
<1>6. CASE p.status # "Conflict" /\ ContentPending(p) /\ ~RemoteChanged(p, item)
  <2>1. Follows(p, item)
        BY <1>6 DEF Follows, RemoteChanged
  <2>2. CASE "content" \notin Rights \/ AwaitsBase(p)
    <3>1. ReconcileContent(p, item) = Outcome(p, << >>, NoChange)
          BY <1>6, <2>2 DEF ReconcileContent, Untouched
    <3> QED BY <1>6, <2>1, <3>1, UntouchedMerges
  <2>3. CASE ~("content" \notin Rights \/ AwaitsBase(p))
    <3> DEFINE c == UpdateChange(p, p.base.revision)
               out == Outcome(p, << >>, c)
    <3>1. ReconcileContent(p, item) = out
          BY <1>6, <2>3 DEF ReconcileContent
    <3>2. Merges(p, item, out)
          BY <1>6, <2>1, UntouchedMerges
    <3>3. out.row = p /\ out.change = c
          BY DEF Outcome
    <3>4. p.object # NoBody /\ StagedEdit(p) /\ ~AwaitsBase(p)
          BY <1>6, <2>3 DEF ContentPending, StagedEdit
    <3>5. Mutable => p.base.revision # NoRev /\ p.base.object # NoBody
          BY <1>6, <3>4 DEF AwaitsBase, RemoteChanged
    <3>6. c.kind = "Update" /\ c.object = p.object /\ c.ifMatch = p.base.revision
          BY DEF UpdateChange
    <3> HIDE DEF out, c
    <3>7. Edits(p, out)
          BY <1>6, <3>3, <3>4, <3>5, <3>6 DEF Edits
    <3> QED BY <3>1, <3>2, <3>7
  <2> QED BY <2>2, <2>3
<1>7. CASE p.status # "Conflict" /\ ContentPending(p) /\ RemoteChanged(p, item)
  <2>1. CASE item.body = p.object
    <3>1. ReconcileContent(p, item) = Rewritten(RebaseContent(p, item.revision))
          BY <1>7, <2>1 DEF ReconcileContent
    <3>2. Recast(RebaseContent(p, item.revision), p, p.object, p.flags,
                 IF p.status = "Tombstone" THEN "Tombstone"
                 ELSE IF p.flags = p.base.flags THEN "Clean" ELSE "Dirty",
                 p.conflictRevision, p.conflictObject,
                 p.base.flags, item.revision, p.object)
      <4>1. item.revision \in Nat /\ p.flags \in FlagSets /\ p.status \in Statuses
            BY DEF Items, BasedRows
      <4> QED BY <4>1, FlagRows
    <3>3. From(p, item, RebaseContent(p, item.revision))
          /\ Follows(RebaseContent(p, item.revision), item)
          BY <1>7, <2>1, <3>2 DEF Recast, From, Follows
    <3> QED BY <3>1, <3>3, RewrittenMerges
  <2>2. CASE item.body # p.object
    <3>1. ReconcileContent(p, item) = ResolveConflict(p, item)
          BY <1>7, <2>2 DEF ReconcileContent
    <3>2. p.object # NoBody
          BY <1>7 DEF ContentPending, StagedEdit
    <3> QED BY <1>7, <3>1, <3>2, ResolveMerges
  <2> QED BY <2>1, <2>2
<1> QED BY <1>4, <1>5, <1>6, <1>7

-----------------------------------------------------------------------------
(* A row and what a listing stated of its member, both axes.               *)

(* The change a merge derives.                                             *)
Derives(p, out) == \/ out.change = NoChange \/ Marks(out.change) \/ Edits(p, out)
                   \/ out.change.kind = "Remove"

(* The flag axis goes on from the row the content axis left.               *)
LEMMA FlagsMerge ==
    ASSUME NEW p \in BasedRows, NEW item \in Items, NEW content, Merges(p, item, content),
           content.change = NoChange \/ Edits(p, content)
    PROVE  LET out == ThenFlags(content, item)
           IN  Merges(p, item, out) /\ Derives(p, out)
<1> DEFINE r == content.row
           may == content.change = NoChange
           flags == ReconcileFlags(r, item, may)
           q == flags.row
           ws == content.writes \o flags.writes
           c == IF may THEN flags.change ELSE content.change
<1>1. ThenFlags(content, item) = Outcome(q, ws, c)
      BY DEF ThenFlags
<1>2. Chain(content.writes, p, r) /\ From(p, item, r) /\ Follows(r, item) /\ r \in BasedRows
      /\ r.link = p.link /\ r.handle = p.handle
      BY DEF Merges, From
<1>3. may \in BOOLEAN
      OBVIOUS
<1> HIDE DEF r, may
<1>4. /\ Chain(flags.writes, r, q) /\ Flagged(r, q) /\ Mild(flags.writes)
      /\ \A B : r.object \in B => Wrote(flags.writes, B)
      /\ flags.change = NoChange \/ (may /\ Marks(flags.change))
      BY <1>2, <1>3, FlagAxis
<1> HIDE DEF flags, q
<1>5. Chain(ws, p, q)
      BY <1>2, <1>4, ChainConcat DEF q
<1>6. From(p, item, q) /\ Follows(q, item)
  <2>1. Follows(q, item)
        BY <1>2, <1>4 DEF Flagged, Follows
  <2>2. q.object \in {p.object, item.body} /\ q \in BasedRows /\ q.handle = p.handle
        /\ q.link = p.link
        BY <1>2, <1>4 DEF Flagged, From
  <2>3. \/ q.base.revision = p.base.revision /\ q.base.object = p.base.object
        \/ q.base.revision = item.revision /\ q.base.object = item.body
        BY <1>2, <1>4 DEF Flagged, From
  <2>4. \/ q.conflictRevision = p.conflictRevision /\ q.conflictObject = p.conflictObject
        \/ q.conflictRevision = item.revision /\ q.conflictObject = item.body
        \/ q.conflictRevision = NoRev
        BY <1>2, <1>4 DEF Flagged, From
  <2>5. Exact => (q.status # "Conflict" => q.conflictRevision = NoRev)
        BY <1>2, <1>4 DEF Flagged, From
  <2> QED BY <2>1, <2>2, <2>3, <2>4, <2>5 DEF From
<1>7. content.writes \in Seq(Writes) /\ flags.writes \in Seq(Writes)
      BY <1>2, <1>4 DEF Chain
<1>8. /\ Len(ws) = Len(content.writes) + Len(flags.writes)
      /\ Len(content.writes) \in Nat /\ Len(flags.writes) \in Nat
      /\ \A i \in 1..Len(content.writes) : ws[i] = content.writes[i]
      /\ \A i \in 1..Len(ws) : i \notin 1..Len(content.writes) =>
           /\ i - Len(content.writes) \in 1..Len(flags.writes)
           /\ ws[i] = flags.writes[i - Len(content.writes)]
  <2> DEFINE v == content.writes
             u == flags.writes
  <2>1. v \in Seq(Writes) /\ u \in Seq(Writes)
        BY <1>7
  <2> HIDE DEF v, u
  <2>2. /\ Len(v \o u) = Len(v) + Len(u) /\ Len(v) \in Nat /\ Len(u) \in Nat
        /\ \A i \in 1..Len(v) : (v \o u)[i] = v[i]
        /\ \A i \in 1..Len(u) : (v \o u)[Len(v) + i] = u[i]
        BY <2>1
  <2>3. ASSUME NEW i \in 1..Len(v \o u), i \notin 1..Len(v)
        PROVE  i - Len(v) \in 1..Len(u) /\ (v \o u)[i] = u[i - Len(v)]
    <3>1. i - Len(v) \in 1..Len(u) /\ Len(v) + (i - Len(v)) = i
          BY <2>2, <2>3
    <3> QED BY <2>2, <3>1
  <2> QED BY <2>2, <2>3 DEF v, u
<1> HIDE DEF ws
<1>9. ASSUME NEW B, p.object \in B, item.body \in B
      PROVE  Wrote(ws, B)
  <2>1. r.object \in B
        BY <1>2, <1>9 DEF From
  <2>2. Wrote(content.writes, B) /\ Wrote(flags.writes, B)
        BY <1>4, <1>9, <2>1 DEF Merges
  <2>3. ASSUME NEW i \in 1..Len(ws), ws[i].op = "Upsert"
        PROVE  ws[i].row.object \in B
    <3>1. CASE i \in 1..Len(content.writes)
          BY <1>8, <2>2, <2>3, <3>1 DEF Wrote
    <3>2. CASE i \notin 1..Len(content.writes)
          BY <1>8, <2>2, <2>3, <3>2 DEF Wrote
    <3> QED BY <3>1, <3>2
  <2> QED BY <2>3 DEF Wrote
<1>10. Mild(ws) => Mild(content.writes)
  <2> SUFFICES ASSUME Mild(ws), NEW i \in 1..Len(content.writes)
               PROVE  content.writes[i].op # "Overrule"
      BY DEF Mild
  <2> DEFINE a == Len(content.writes)
             b == Len(flags.writes)
  <2>1. a \in Nat /\ b \in Nat /\ Len(ws) = a + b /\ i \in 1..a
        BY <1>8
  <2> HIDE DEF a, b
  <2>2. i \in 1..Len(ws)
        BY <2>1
  <2> QED BY <1>8, <2>2 DEF Mild
<1> HIDE DEF c
<1> DEFINE out == Outcome(q, ws, c)
<1>11. out.row = q /\ out.writes = ws /\ out.change = c
      BY DEF Outcome
<1> HIDE DEF out
<1>12. Merges(p, item, out)
      BY <1>5, <1>6, <1>9, <1>11 DEF Merges, out
<1>13. ASSUME may PROVE Derives(p, out)
      BY <1>4, <1>11, <1>13 DEF Derives, c
<1>14. ASSUME ~may PROVE Derives(p, out)
  <2>1. Edits(p, content) /\ c = content.change
        BY <1>14 DEF may, c
  <2>2. /\ q.object = r.object /\ q.base.revision = r.base.revision
        /\ q.base.object = r.base.object /\ q.conflictRevision = r.conflictRevision
        BY <1>4 DEF Flagged
  <2>3. Edits(p, out)
        BY <1>10, <1>11, <2>1, <2>2 DEF Edits, r
  <2> QED BY <2>3 DEF Derives
<1> QED BY <1>1, <1>12, <1>13, <1>14 DEF out, ws, c

(* A tombstone the listing still names.                                    *)
LEMMA TombstoneMerges ==
    ASSUME NEW p \in BasedRows, NEW item \in Items, Mutable => item.revision # NoRev,
           p.status = "Tombstone", Exact => p.conflictRevision = NoRev
    PROVE  LET out == MergeTombstone(p, item)
           IN  Merges(p, item, out) /\ Derives(p, out)
<1>1. CASE RemoteChanged(p, item) /\ StagedEdit(p)
  <2> DEFINE r == [p EXCEPT !.status = "Dirty"]
             content == ResolveConflict(r, item)
  <2>1. Recast(r, p, p.object, p.flags, "Dirty", p.conflictRevision, p.conflictObject,
               p.base.flags, p.base.revision, p.base.object)
    <3>1. "Dirty" \in Statuses /\ p.flags \in FlagSets /\ 0 \in Nat
          BY DEF Statuses, BasedRows
    <3> QED BY <3>1, FlagRows
  <2>2. MergeTombstone(p, item) = ThenFlags(content, item)
        BY <1>1 DEF MergeTombstone
  <2> HIDE DEF r
  <2>3. r \in BasedRows /\ r.object # NoBody /\ RemoteChanged(r, item)
        /\ (Exact => r.conflictRevision = NoRev)
        BY <1>1, <2>1 DEF Recast, RemoteChanged, StagedEdit
  <2>4. Merges(r, item, content) /\ (content.change = NoChange \/ Edits(r, content))
        BY <2>3, ResolveMerges
  <2>5. content.writes # << >>
        BY DEF ResolveConflict, Rewritten, KeepObserved, Outcome
  <2> HIDE DEF content
  <2>6. Chain(content.writes, p, content.row)
        BY <2>1, <2>4, <2>5 DEF Chain, Merges, Recast
  <2>7. From(p, item, content.row)
        BY <2>1, <2>4 DEF From, Merges, Recast
  <2>8. Merges(p, item, content)
        BY <2>1, <2>4, <2>6, <2>7 DEF Merges, Recast
  <2>9. Edits(r, content) => Edits(p, content)
        BY <2>1 DEF Edits, Recast, StagedEdit
  <2> QED BY <2>2, <2>4, <2>8, <2>9, FlagsMerge
<1>2. CASE RemoteChanged(p, item) /\ ~StagedEdit(p)
  <2>1. MergeTombstone(p, item) = Rewritten(Revive(p, item))
        BY <1>2 DEF MergeTombstone
  <2>2. Recast(Revive(p, item), p, item.body, item.flags, "Clean", NoRev, NoBody,
               item.flags, item.revision, item.body)
        BY ContentRows
  <2>3. From(p, item, Revive(p, item)) /\ Follows(Revive(p, item), item)
        BY <2>2 DEF From, Follows, Recast
  <2> QED BY <2>1, <2>3, RewrittenMerges DEF Derives
<1>3. CASE ~RemoteChanged(p, item)
  <2>1. Follows(p, item)
        BY <1>3 DEF Follows, RemoteChanged
  <2>2. CASE "remove" \in Rights
    <3> DEFINE c == RemoveChange(p)
               out == Outcome(p, << >>, c)
    <3>1. MergeTombstone(p, item) = out
          BY <1>3, <2>2 DEF MergeTombstone
    <3>2. Merges(p, item, out) /\ out.change = c
          BY <2>1, UntouchedMerges
    <3>3. c.kind = "Remove"
          BY DEF RemoveChange
    <3> HIDE DEF out, c
    <3> QED BY <3>1, <3>2, <3>3 DEF Derives
  <2>3. CASE "remove" \notin Rights /\ BesideOthers
    <3>1. MergeTombstone(p, item) = Outcome(p, << >>, NoChange)
          BY <1>3, <2>3 DEF MergeTombstone, RefuseDelete, Untouched
    <3> QED BY <2>1, <3>1, UntouchedMerges DEF Derives
  <2>4. CASE "remove" \notin Rights /\ ~BesideOthers
    <3> DEFINE st == IF p.conflictRevision # NoRev THEN "Conflict"
                     ELSE IF StagedEdit(p) THEN "Dirty" ELSE "Clean"
               q == [p EXCEPT !.status = st]
    <3>1. MergeTombstone(p, item) = Rewritten(q)
          BY <1>3, <2>4 DEF MergeTombstone, RefuseDelete
    <3>2. st \in Statuses /\ p.flags \in FlagSets /\ 0 \in Nat
          BY DEF Statuses, BasedRows
    <3> HIDE DEF st
    <3>3. Recast(q, p, p.object, p.flags, st, p.conflictRevision, p.conflictObject,
                 p.base.flags, p.base.revision, p.base.object)
          BY <3>2, FlagRows
    <3> HIDE DEF q
    <3>4. From(p, item, q) /\ Follows(q, item)
          BY <2>1, <3>3 DEF From, Follows, Recast
    <3> QED BY <3>1, <3>4, RewrittenMerges DEF Derives, q
  <2> QED BY <2>2, <2>3, <2>4
<1> QED BY <1>1, <1>2, <1>3

(* A listed row.                                                           *)
LEMMA ListedMerges ==
    ASSUME NEW p \in BasedRows, NEW item \in Items, Mutable => item.revision # NoRev,
           Exact => (p.status # "Conflict" => p.conflictRevision = NoRev)
    PROVE  LET out == MergeListed(p, item)
           IN  Merges(p, item, out) /\ Derives(p, out)
<1>1. CASE p.status = "Tombstone"
      BY <1>1, TombstoneMerges DEF MergeListed
<1>2. CASE p.status # "Tombstone"
  <2> DEFINE content == ReconcileContent(p, item)
  <2>1. Merges(p, item, content) /\ (content.change = NoChange \/ Edits(p, content))
        BY ContentMerges
  <2>2. MergeListed(p, item) = ThenFlags(content, item)
        BY <1>2 DEF MergeListed, MergePresent
  <2> HIDE DEF content
  <2> QED BY <2>1, <2>2, FlagsMerge
<1> QED BY <1>1, <1>2

-----------------------------------------------------------------------------
(* What a write may do to a store the servers justify.                     *)

(* Beside no others, there is one source.                                  *)
LEMMA OneSource == ASSUME Exact PROVE \A s, t \in Sources : s = t
<1> SUFFICES ASSUME NEW s \in Sources, NEW t \in Sources, s # t PROVE FALSE
    OBVIOUS
<1>1. {s, t} \subseteq Sources /\ {s, t} = {s} \cup {t} /\ t \notin {s}
      OBVIOUS
<1>2. IsFiniteSet({s}) /\ Cardinality({s}) = 1
      BY FS_Singleton
<1>3. IsFiniteSet({s, t}) /\ Cardinality({s, t}) = 2
      BY <1>1, <1>2, FS_AddElement
<1>4. Cardinality({s, t}) <= Cardinality(Sources) /\ Cardinality(Sources) \in Nat
      BY <1>1, BesideMatches, FS_Subset, FS_CardinalityType
<1>5. Cardinality(Sources) > 1
      BY <1>3, <1>4
<1> QED BY <1>5, BesideMatches, Zenon DEF Exact

(* A binding that holds what a row says is grounded as the row is.         *)
LEMMA GroundedMatches ==
    ASSUME NEW w, NEW s, NEW k, NEW b, NEW p, ServersOK(w), p.handle \in Handles,
           Grounded(w, p, s, k), Matches(b, p)
    PROVE  Grounded(w, b, s, k) /\ (Known(w, p) /\ p.base # NoBase => Known(w, b))
<1>1. CASE p.base = NoBase
  <2>1. b.base = NoBase /\ b.handle = p.handle /\ b.conflictRevision = p.conflictRevision
        BY <1>1 DEF Matches
  <2> QED BY <1>1, <2>1 DEF Grounded, Told
<1>2. CASE p.base # NoBase
  <2> DEFINE m == w.srv[p.handle[2]]
  <2>1. /\ IsReal(p.handle) /\ m # NoMember /\ m.source = s /\ m.link = k[1]
        /\ Mutable => m.revision # NoRev
        /\ p.base.revision <= m.revision /\ p.conflictRevision <= m.revision
        /\ (Mutable /\ p.base.revision = m.revision) => p.base.object \in {NoBody, m.body}
        /\ (Mutable /\ p.conflictRevision = m.revision) => p.conflictObject \in {NoBody, m.body}
        /\ Told(w, p)
        BY <1>2, Anchored
  <2>2. /\ b.handle = p.handle /\ b.conflictRevision = p.conflictRevision
        /\ b.conflictRevision # NoRev => b.conflictObject = p.conflictObject
        /\ b.base # NoBase /\ b.base.revision = p.base.revision
        /\ (b.base.revision # NoRev \/ (Mutable /\ p.base.object = NoBody)) =>
             b.base.object = p.base.object
        BY <1>2 DEF Matches
  <2>3. Told(w, b)
        BY <1>2, <2>1, <2>2 DEF Told, Reporting
  <2>4. Grounded(w, b, s, k)
        BY <2>1, <2>2, <2>3 DEF Grounded
  <2>5. Known(w, p) => Known(w, b)
        BY <2>2 DEF Known
  <2> QED BY <2>4, <2>5
<1> QED BY <1>1, <1>2

(* The minted key of a row stays its member's.                             *)
Mints(I, w, s, q) ==
    q.link[2] # 0 =>
        \/ q.handle = Real(q.link[2])
        \/ /\ I[q.link] # NoItem
           /\ Under(I, s, q.link, Real(q.link[2])) => ~w.srv[q.link[2]].live

(* A binding of a store is typed.                                          *)
LEMMA ViewType ==
    ASSUME NEW I \in Stores, NEW s \in Sources, NEW k \in Keys
    PROVE  /\ View(I, s, k) \in Bounds
           /\ View(I, s, k) # NoBinding =>
                /\ View(I, s, k) \in Bindings(Handles) /\ View(I, s, k).handle \in Handles
                /\ View(I, s, k).base \in Bases \cup {NoBase}
                /\ Loaded(I, k) /\ I[k] \in Rowed /\ I[k] # NoItem
<1>1. I[k] \in Rowed \cup {NoItem}
      BY DEF Stores
<1>2. Loaded(I, k) => I[k] \in Rowed /\ I[k] # NoItem /\ I[k].sources[s] \in Bounds
      BY <1>1 DEF Loaded, Rowed, HubItems, Bounds
<1>3. View(I, s, k) \in Bounds
      BY <1>2 DEF View, Bounds
<1> QED BY <1>2, <1>3 DEF View, Bounds, Bindings

(* A store that differs in one key, as that key's bindings and minting go. *)
LEMMA StoreMoved ==
    ASSUME NEW w, NEW I, NEW J, NEW s \in Sources, NEW key \in SyncKeys,
           ServersOK(w), StoreOK(I, w), Within(I, J, s, key),
           View(J, s, key) # NoBinding =>
             /\ Grounded(w, View(J, s, key), s, key)
             /\ \A k \in Keys : Under(I, s, k, View(J, s, key).handle) => k = key
             /\ Exact => (J[key].deleted => View(J, s, key).conflictRevision = NoRev),
           MintOK(J, w, key), Mutable => Bodied(J, w.written)
    PROVE  /\ StoreOK(J, w)
           /\ \A t \in Sources : \A except :
                /\ Tracked(I, w, t, except)
                /\ (t = s /\ View(J, s, key) # NoBinding /\ View(J, s, key).base # NoBase) =>
                     View(J, s, key).handle[2] \in except \/ Known(w, View(J, s, key))
                => Tracked(J, w, t, except)
<1>1. key \in Keys
      BY HandleKinds
<1>2. /\ J \in Stores
      /\ \A k \in Keys : k # key => J[k] = I[k]
      /\ \A t \in Sources : t # s => View(J, t, key) = View(I, t, key)
      BY DEF Within
<1>3. \A t \in Sources, k \in Keys : (k # key \/ t # s) => View(J, t, k) = View(I, t, k)
  <2>1. \A t \in Sources, k \in Keys : k # key => View(J, t, k) = View(I, t, k)
        BY <1>2 DEF View, Loaded
  <2> QED BY <1>2, <2>1
<1>4. \A k \in Keys \ SyncKeys : J[k] = NoItem
      BY <1>1, <1>2 DEF StoreOK
<1>5. \A t \in Sources, k \in Keys : View(J, t, k) # NoBinding => Grounded(w, View(J, t, k), t, k)
      BY <1>3 DEF StoreOK
<1>6. ASSUME NEW t \in Sources, NEW j \in Keys, NEW k \in Keys,
             View(J, t, j) # NoBinding, Under(J, t, k, View(J, t, j).handle)
      PROVE  j = k
  <2>1. CASE t # s \/ (j # key /\ k # key)
    <3>1. View(J, t, j) = View(I, t, j) /\ View(J, t, k) = View(I, t, k)
          BY <1>3, <2>1
    <3> QED BY <1>6, <3>1 DEF StoreOK, Under
  <2>2. CASE t = s /\ j = key /\ k # key
    <3>1. View(J, t, k) = View(I, t, k)
          BY <1>3, <2>2
    <3>2. Under(I, s, k, View(J, s, key).handle)
          BY <1>6, <2>2, <3>1 DEF Under
    <3> QED BY <1>6, <2>2, <3>2
  <2>3. CASE t = s /\ k = key /\ j # key
    <3>1. View(J, t, j) = View(I, t, j)
          BY <1>3, <2>3
    <3>2. Under(I, s, j, View(J, s, key).handle)
          BY <1>6, <2>3, <3>1 DEF Under
    <3>3. View(J, s, key) # NoBinding
          BY <1>6, <2>3 DEF Under
    <3> QED BY <2>3, <3>2, <3>3
  <2> QED BY <2>1, <2>2, <2>3
<1>7. ASSUME NEW k \in SyncKeys PROVE MintOK(J, w, k)
  <2>1. CASE k = key
        BY <2>1
  <2>2. CASE k # key
    <3>1. k \in Keys /\ k[2] \in Numbers \cup {0}
          BY HandleKinds
    <3>2. J[k] = I[k] /\ \A t \in Sources : View(J, t, k) = View(I, t, k)
          BY <1>2, <1>3, <2>2, <3>1
    <3>3. MintOK(I, w, k)
          BY DEF StoreOK
    <3>4. k[2] # 0 /\ w.srv[k[2]] # NoMember => w.srv[k[2]].source \in Sources
          BY <3>1 DEF ServersOK, Members
    <3> QED BY <3>2, <3>3, <3>4 DEF MintOK, Under
  <2> QED BY <2>1, <2>2
<1>8. ASSUME Exact, NEW t \in Sources, NEW k \in Keys,
             View(J, t, k) # NoBinding, J[k].deleted
      PROVE  View(J, t, k).conflictRevision = NoRev
  <2>1. t = s
        BY <1>8, OneSource
  <2>2. CASE k = key
        BY <1>8, <2>1, <2>2
  <2>3. CASE k # key
    <3>1. J[k] = I[k] /\ View(J, t, k) = View(I, t, k)
          BY <1>2, <1>3, <2>3
    <3> QED BY <1>8, <3>1 DEF StoreOK
  <2> QED BY <2>2, <2>3
<1>9. StoreOK(J, w)
      BY <1>2, <1>4, <1>5, <1>6, <1>7, <1>8 DEF StoreOK
<1>10. ASSUME NEW t \in Sources, NEW except, Tracked(I, w, t, except),
              (t = s /\ View(J, s, key) # NoBinding /\ View(J, s, key).base # NoBase) =>
                  View(J, s, key).handle[2] \in except \/ Known(w, View(J, s, key))
       PROVE  Tracked(J, w, t, except)
      BY <1>3, <1>10 DEF Tracked
<1> QED BY <1>9, <1>10

(* A row placed.                                                           *)
LEMMA StorePlaced ==
    ASSUME NEW w, NEW I, NEW J, NEW s \in Sources, NEW q,
           ServersOK(w), StoreOK(I, w), Placed(I, J, s, q), RowOK(w, s, q),
           \A k \in Keys : Under(I, s, k, q.handle) => k = q.link,
           Mints(I, w, s, q), Mutable => Bodied(J, w.written)
    PROVE  /\ StoreOK(J, w)
           /\ \A t \in Sources : \A except :
                /\ Tracked(I, w, t, except)
                /\ (t = s /\ q.base # NoBase) => q.handle[2] \in except \/ Known(w, q)
                => Tracked(J, w, t, except)
<1> DEFINE k == q.link
           b == View(J, s, k)
<1>1. q \in Rows /\ q.link \in SyncKeys /\ q.handle \in Handles /\ k \in Keys
      BY Based, KeysAssumption DEF RowOK
<1>2. /\ Within(I, J, s, k) /\ Loaded(J, k) /\ b \in Bindings(Handles)
      /\ Matches(b, q) /\ (J[k].deleted <=> q.status = "Tombstone")
      BY DEF Placed
<1>3. b # NoBinding /\ b.handle = q.handle /\ b.conflictRevision = q.conflictRevision
      /\ (b.base = NoBase <=> q.base = NoBase)
      BY <1>2, AbsentAssumption DEF Matches
<1>4. Grounded(w, b, s, k) /\ (Known(w, q) /\ q.base # NoBase => Known(w, b))
      BY <1>1, <1>2, GroundedMatches DEF RowOK
<1>5. Exact => (J[k].deleted => b.conflictRevision = NoRev)
      BY <1>2, <1>3 DEF RowOK
<1>6. MintOK(J, w, k)
  <2> SUFFICES ASSUME k[2] # 0
               PROVE  /\ w.srv[k[2]] # NoMember /\ w.srv[k[2]].link = k[1]
                      /\ w.srv[k[2]].live => Under(J, w.srv[k[2]].source, k, Real(k[2]))
      BY DEF MintOK
  <2>1. k[2] \in Numbers /\ ~IsReal(k)
        BY <1>1, HandleKinds
  <2>2. CASE q.handle = Real(k[2])
    <3>1. IsReal(q.handle) /\ q.handle[2] = k[2]
          BY <2>1, <2>2, HandleKinds
    <3>2. q.base # NoBase
          BY <2>1, <3>1 DEF RowOK, Grounded
    <3>3. w.srv[k[2]] # NoMember /\ w.srv[k[2]].link = k[1] /\ w.srv[k[2]].source = s
          BY <3>1, <3>2 DEF RowOK, Grounded
    <3> QED BY <1>3, <2>2, <3>3 DEF Under
  <2>3. CASE /\ I[k] # NoItem
             /\ Under(I, s, k, Real(k[2])) => ~w.srv[k[2]].live
    <3>1. MintOK(I, w, k)
          BY <1>1 DEF StoreOK
    <3>2. /\ w.srv[k[2]] # NoMember /\ w.srv[k[2]].link = k[1]
          /\ w.srv[k[2]].live => Under(I, w.srv[k[2]].source, k, Real(k[2]))
          BY <2>3, <3>1 DEF MintOK
    <3>3. w.srv[k[2]].source \in Sources
          BY <2>1, <3>2 DEF ServersOK, Members
    <3>4. \A t \in Sources : t # s => View(J, t, k) = View(I, t, k)
          BY <1>2 DEF Within
    <3> QED BY <2>3, <3>2, <3>3, <3>4 DEF Under
  <2> QED BY <2>2, <2>3 DEF Mints
<1>7. \A j \in Keys : Under(I, s, j, b.handle) => j = k
      BY <1>3
<1> HIDE DEF b
<1>8. /\ StoreOK(J, w)
      /\ \A t \in Sources : \A except :
           /\ Tracked(I, w, t, except)
           /\ (t = s /\ b # NoBinding /\ b.base # NoBase) => b.handle[2] \in except \/ Known(w, b)
           => Tracked(J, w, t, except)
      BY <1>1, <1>2, <1>3, <1>4, <1>5, <1>6, <1>7, StoreMoved DEF b
<1> QED BY <1>3, <1>4, <1>8

(* A binding released.                                                     *)
LEMMA StoreRemoved ==
    ASSUME NEW w, NEW I, NEW J, NEW s \in Sources, NEW k \in SyncKeys,
           ServersOK(w), StoreOK(I, w), Removed(I, J, s, k), I[k] # NoItem,
           (k[2] # 0 /\ Under(I, s, k, Real(k[2]))) => ~w.srv[k[2]].live,
           Mutable => Bodied(J, w.written)
    PROVE  /\ StoreOK(J, w)
           /\ \A t \in Sources : \A except : Tracked(I, w, t, except) => Tracked(J, w, t, except)
<1>1. Within(I, J, s, k) /\ View(J, s, k) = NoBinding /\ k \in Keys
      BY HandleKinds DEF Removed
<1>2. MintOK(J, w, k)
  <2> SUFFICES ASSUME k[2] # 0
               PROVE  /\ w.srv[k[2]] # NoMember /\ w.srv[k[2]].link = k[1]
                      /\ w.srv[k[2]].live => Under(J, w.srv[k[2]].source, k, Real(k[2]))
      BY DEF MintOK
  <2>1. k[2] \in Numbers
        BY HandleKinds
  <2>2. MintOK(I, w, k)
        BY DEF StoreOK
  <2>3. /\ w.srv[k[2]] # NoMember /\ w.srv[k[2]].link = k[1]
        /\ w.srv[k[2]].live => Under(I, w.srv[k[2]].source, k, Real(k[2]))
        BY <2>2 DEF MintOK
  <2>4. w.srv[k[2]].source \in Sources
        BY <2>1, <2>3 DEF ServersOK, Members
  <2>5. \A t \in Sources : t # s => View(J, t, k) = View(I, t, k)
        BY <1>1 DEF Within
  <2> QED BY <2>3, <2>4, <2>5 DEF Under
<1> QED BY <1>1, <1>2, StoreMoved

(* A batch saved.                                                          *)
LEMMA StoreSaved ==
    ASSUME NEW w, NEW I, NEW J, ServersOK(w), StoreOK(I, w), Saved(I, J),
           Mutable => Bodied(J, w.written)
    PROVE  /\ StoreOK(J, w)
           /\ \A t \in Sources : \A except : Tracked(I, w, t, except) => Tracked(J, w, t, except)
<1>1. /\ J \in Stores /\ I \in Stores
      /\ \A k \in Keys : J[k] # NoItem => I[k] # NoItem
      BY DEF Saved, StoreOK
<1>2. ASSUME NEW s \in Sources, NEW k \in Keys
      PROVE  /\ View(J, s, k) = NoBinding <=> View(I, s, k) = NoBinding
             /\ View(I, s, k) # NoBinding =>
                  /\ Matches(View(J, s, k), View(I, s, k))
                  /\ View(J, s, k).handle = View(I, s, k).handle
                  /\ View(I, s, k).handle \in Handles
                  /\ Grounded(w, View(I, s, k), s, k)
                  /\ J[k].deleted = I[k].deleted
                  /\ Grounded(w, View(J, s, k), s, k)
                  /\ (Known(w, View(I, s, k)) /\ View(I, s, k).base # NoBase
                        => Known(w, View(J, s, k)))
  <2>1. /\ View(J, s, k) = NoBinding <=> View(I, s, k) = NoBinding
        /\ View(I, s, k) # NoBinding => /\ Matches(View(J, s, k), View(I, s, k))
                                        /\ J[k].deleted = I[k].deleted
        BY DEF Saved
  <2>2. View(I, s, k) # NoBinding => View(I, s, k).handle \in Handles
        BY <1>1, ViewType
  <2>3. View(I, s, k) # NoBinding => Grounded(w, View(I, s, k), s, k)
        BY DEF StoreOK
  <2> DEFINE a == View(I, s, k)
             b == View(J, s, k)
  <2> HIDE DEF a, b
  <2>4. a # NoBinding => /\ Grounded(w, b, s, k)
                         /\ (Known(w, a) /\ a.base # NoBase => Known(w, b))
                         /\ b.handle = a.handle
        BY <2>1, <2>2, <2>3, GroundedMatches DEF a, b, Matches
  <2> QED BY <2>1, <2>2, <2>3, <2>4 DEF a, b
<1>3. \A k \in Keys \ SyncKeys : J[k] = NoItem
      BY <1>1 DEF StoreOK
<1>4. \A s \in Sources, k \in Keys : View(J, s, k) # NoBinding => Grounded(w, View(J, s, k), s, k)
      BY <1>2
<1>5. ASSUME NEW s \in Sources, NEW j \in Keys, NEW k \in Keys,
             View(J, s, j) # NoBinding, Under(J, s, k, View(J, s, j).handle)
      PROVE  j = k
  <2>1. View(I, s, j) # NoBinding /\ View(J, s, j).handle = View(I, s, j).handle
        BY <1>2, <1>5
  <2>2. View(I, s, k) # NoBinding /\ View(J, s, k).handle = View(I, s, k).handle
        BY <1>2, <1>5 DEF Under
  <2>3. Under(I, s, k, View(I, s, j).handle)
        BY <1>5, <2>1, <2>2 DEF Under
  <2> QED BY <2>1, <2>3 DEF StoreOK
<1>6. ASSUME NEW k \in SyncKeys PROVE MintOK(J, w, k)
  <2>1. k \in Keys /\ k[2] \in Numbers \cup {0}
        BY HandleKinds
  <2>2. MintOK(I, w, k)
        BY DEF StoreOK
  <2>3. k[2] # 0 /\ w.srv[k[2]] # NoMember => w.srv[k[2]].source \in Sources
        BY <2>1 DEF ServersOK, Members
  <2>4. \A s \in Sources : \A h : Under(I, s, k, h) => Under(J, s, k, h)
        BY <1>2, <2>1 DEF Under
  <2> QED BY <1>1, <2>1, <2>2, <2>3, <2>4 DEF MintOK
<1>7. ASSUME Exact, NEW s \in Sources, NEW k \in Keys,
             View(J, s, k) # NoBinding, J[k].deleted
      PROVE  View(J, s, k).conflictRevision = NoRev
  <2>1. View(I, s, k) # NoBinding /\ I[k].deleted /\ Matches(View(J, s, k), View(I, s, k))
        BY <1>2, <1>7
  <2>2. View(I, s, k).conflictRevision = NoRev
        BY <1>7, <2>1 DEF StoreOK
  <2> QED BY <2>1, <2>2 DEF Matches
<1>8. StoreOK(J, w)
      BY <1>1, <1>3, <1>4, <1>5, <1>6, <1>7 DEF StoreOK
<1>9. ASSUME NEW t \in Sources, NEW except, Tracked(I, w, t, except), NEW k \in Keys,
             View(J, t, k) # NoBinding, View(J, t, k).base # NoBase
      PROVE  View(J, t, k).handle[2] \in except \/ Known(w, View(J, t, k))
  <2>1. View(I, t, k) # NoBinding /\ Matches(View(J, t, k), View(I, t, k))
        BY <1>2, <1>9
  <2>2. View(I, t, k).base # NoBase
        BY <1>9, <2>1 DEF Matches
  <2>3. View(I, t, k).handle[2] \in except \/ Known(w, View(I, t, k))
        BY <1>9, <2>1, <2>2 DEF Tracked
  <2> QED BY <1>2, <2>1, <2>2, <2>3
<1> QED BY <1>8, <1>9 DEF Tracked

-----------------------------------------------------------------------------
(* What the servers and the people may do around a store.                  *)

(* Members come and are never forgotten, revisions only rise, a revision   *)
(* has one body, and what is gone stays gone.                              *)
Evolves(w, v) ==
    /\ ServersOK(w) /\ ServersOK(v)
    /\ \A n \in Numbers : w.srv[n] # NoMember =>
         /\ v.srv[n] # NoMember
         /\ v.srv[n].source = w.srv[n].source /\ v.srv[n].link = w.srv[n].link
         /\ w.srv[n].revision <= v.srv[n].revision
         /\ (Mutable /\ v.srv[n].revision = w.srv[n].revision) => v.srv[n].body = w.srv[n].body
         /\ v.srv[n].live => w.srv[n].live
    /\ Mutable => w.given \subseteq v.given
    /\ w.written \subseteq v.written

(* The members of s that moved are all among these.                        *)
Moved(w, v, s, ns) ==
    \A n \in Numbers :
        (w.srv[n] # NoMember /\ w.srv[n].source = s /\ v.srv[n] # w.srv[n]) => n \in ns

(* What was grounded stays so, and known as long as its member is as it was*)
LEMMA GroundedEvolves ==
    ASSUME NEW w, NEW v, NEW x, NEW s, NEW k, Evolves(w, v), x.handle \in Handles,
           x.conflictRevision \in Nat, x.base # NoBase => x.base.revision \in Nat,
           Grounded(w, x, s, k)
    PROVE  /\ Grounded(v, x, s, k)
           /\ \A ns : (/\ Moved(w, v, s, ns) /\ x.base # NoBase /\ x.handle[2] \notin ns
                       /\ Known(w, x)) => Known(v, x)
<1>1. ServersOK(w) /\ ServersOK(v) /\ (Mutable => w.given \subseteq v.given)
      BY DEF Evolves
<1>2. Told(w, x) => Told(v, x)
      BY <1>1 DEF Told, Reporting
<1>3. CASE x.base = NoBase
      BY <1>2, <1>3 DEF Grounded
<1>4. CASE x.base # NoBase
  <2> DEFINE n == x.handle[2]
             m == w.srv[n]
             o == v.srv[n]
  <2>1. /\ IsReal(x.handle) /\ n \in Numbers /\ m # NoMember /\ m.source = s /\ m.link = k[1]
        /\ m.revision \in Nat
        /\ x.base.revision <= m.revision /\ x.conflictRevision <= m.revision
        /\ (Mutable /\ x.base.revision = m.revision) => x.base.object \in {NoBody, m.body}
        /\ (Mutable /\ x.conflictRevision = m.revision) => x.conflictObject \in {NoBody, m.body}
        /\ Told(w, x)
        BY <1>1, <1>4, Anchored
  <2>2. /\ o # NoMember /\ o.source = m.source /\ o.link = m.link
        /\ m.revision <= o.revision
        /\ (Mutable /\ o.revision = m.revision) => o.body = m.body
        BY <2>1 DEF Evolves
  <2>3. o.revision \in Nat
        BY <1>1, <2>1, <2>2 DEF ServersOK, Members
  <2>4. /\ x.base.revision <= o.revision /\ x.conflictRevision <= o.revision
        /\ (x.base.revision = o.revision => m.revision = o.revision)
        /\ (x.conflictRevision = o.revision => m.revision = o.revision)
        BY <1>4, <2>1, <2>2, <2>3
  <2>5. Grounded(v, x, s, k)
        BY <1>2, <1>4, <2>1, <2>2, <2>4 DEF Grounded
  <2>6. ASSUME NEW ns, Moved(w, v, s, ns), n \notin ns, Known(w, x)
        PROVE  Known(v, x)
    <3>1. o = m
          BY <2>1, <2>6 DEF Moved
    <3> QED BY <2>6, <3>1 DEF Known
  <2> QED BY <2>5, <2>6
<1> QED BY <1>3, <1>4

(* A store stays justified.                                                *)
LEMMA StoreEvolves ==
    ASSUME NEW w, NEW v, NEW I, Evolves(w, v), StoreOK(I, w)
    PROVE  /\ StoreOK(I, v)
           /\ \A s \in Sources : \A a, b :
                Tracked(I, w, s, a) /\ a \subseteq b /\ Moved(w, v, s, b) => Tracked(I, v, s, b)
<1>1. I \in Stores
      BY DEF StoreOK
<1>2. ASSUME NEW s \in Sources, NEW k \in Keys, View(I, s, k) # NoBinding
      PROVE  LET x == View(I, s, k)
             IN  /\ Grounded(v, x, s, k)
                 /\ \A ns : (/\ Moved(w, v, s, ns) /\ x.base # NoBase /\ x.handle[2] \notin ns
                             /\ Known(w, x)) => Known(v, x)
  <2> DEFINE x == View(I, s, k)
  <2>1. x \in Bindings(Handles)
        BY <1>1, <1>2, ViewType
  <2>2. x.handle \in Handles /\ x.conflictRevision \in Nat
        /\ (x.base # NoBase => x.base.revision \in Nat)
        BY <2>1 DEF Bindings, Bases
  <2>3. Grounded(w, x, s, k)
        BY <1>2 DEF StoreOK
  <2> HIDE DEF x
  <2> QED BY <2>2, <2>3, GroundedEvolves DEF x
<1>3. ASSUME NEW k \in SyncKeys PROVE MintOK(I, v, k)
  <2>1. k[2] \in Numbers \cup {0}
        BY HandleKinds
  <2>2. MintOK(I, w, k)
        BY DEF StoreOK
  <2> SUFFICES ASSUME k[2] # 0, I[k] # NoItem
               PROVE  /\ v.srv[k[2]] # NoMember /\ v.srv[k[2]].link = k[1]
                      /\ v.srv[k[2]].live => Under(I, v.srv[k[2]].source, k, Real(k[2]))
      BY DEF MintOK
  <2>3. /\ w.srv[k[2]] # NoMember /\ w.srv[k[2]].link = k[1]
        /\ w.srv[k[2]].live => Under(I, w.srv[k[2]].source, k, Real(k[2]))
        BY <2>2 DEF MintOK
  <2>4. /\ v.srv[k[2]] # NoMember /\ v.srv[k[2]].link = w.srv[k[2]].link
        /\ v.srv[k[2]].source = w.srv[k[2]].source
        /\ v.srv[k[2]].live => w.srv[k[2]].live
        BY <2>1, <2>3 DEF Evolves
  <2> QED BY <2>3, <2>4
<1>4. Mutable => Bodied(I, v.written)
  <2>1. w.written \subseteq v.written
        BY DEF Evolves
  <2> QED BY <2>1 DEF StoreOK, Bodied, Has
<1>5. StoreOK(I, v)
      BY <1>2, <1>3, <1>4 DEF StoreOK
<1>6. ASSUME NEW s \in Sources, NEW a, NEW b, Tracked(I, w, s, a), a \subseteq b,
             Moved(w, v, s, b), NEW k \in Keys, View(I, s, k) # NoBinding,
             View(I, s, k).base # NoBase
      PROVE  View(I, s, k).handle[2] \in b \/ Known(v, View(I, s, k))
  <2>1. View(I, s, k).handle[2] \in a \/ Known(w, View(I, s, k))
        BY <1>6 DEF Tracked
  <2> QED BY <1>2, <1>6, <2>1
<1> QED BY <1>5, <1>6 DEF Tracked

(* So do a row and what a listing stated of it.                            *)
LEMMA RowEvolves ==
    ASSUME NEW w, NEW v, NEW s, NEW p, Evolves(w, v), RowOK(w, s, p)
    PROVE  /\ RowOK(v, s, p)
           /\ \A item, a, b :
                (/\ p.base # NoBase /\ ItemTrue(w, a, item, p.handle[2])
                 /\ a \subseteq b /\ Moved(w, v, s, b)) => ItemTrue(v, b, item, p.handle[2])
           /\ p.base # NoBase => (v.srv[p.handle[2]].live => w.srv[p.handle[2]].live)
<1>1. p \in Rows /\ Grounded(w, p, s, p.link) /\ p.handle \in Handles
      /\ p.conflictRevision \in Nat /\ (p.base # NoBase => p.base.revision \in Nat)
      BY Based DEF RowOK
<1>2. Grounded(v, p, s, p.link)
      BY <1>1, GroundedEvolves
<1>3. w.written \subseteq v.written /\ ServersOK(w) /\ ServersOK(v)
      /\ (Mutable => w.given \subseteq v.given)
      BY DEF Evolves
<1>4. RowOK(v, s, p)
      BY <1>1, <1>2, <1>3 DEF RowOK
<1> DEFINE n == p.handle[2]
<1>5. ASSUME p.base # NoBase
      PROVE  /\ n \in Numbers /\ w.srv[n] # NoMember /\ w.srv[n].source = s
             /\ w.srv[n].revision \in Nat /\ v.srv[n].revision \in Nat
             /\ w.srv[n].revision <= v.srv[n].revision
             /\ (Mutable /\ v.srv[n].revision = w.srv[n].revision) =>
                  v.srv[n].body = w.srv[n].body
             /\ v.srv[n].live => w.srv[n].live
  <2>1. n \in Numbers /\ w.srv[n] # NoMember /\ w.srv[n].source = s /\ w.srv[n].revision \in Nat
        BY <1>1, <1>3, <1>5, Anchored
  <2>2. v.srv[n].revision \in Nat
        BY <1>1, <1>2, <1>3, <1>5, Anchored
  <2> QED BY <2>1, <2>2 DEF Evolves
<1>6. ASSUME NEW item, NEW a, NEW b, p.base # NoBase, ItemTrue(w, a, item, n),
             a \subseteq b, Moved(w, v, s, b)
      PROVE  ItemTrue(v, b, item, n)
  <2>1. item.revision \in Nat
        BY <1>6 DEF ItemTrue, Items
  <2>2. n \notin b => v.srv[n] = w.srv[n]
        BY <1>5, <1>6 DEF Moved
  <2>3. /\ item \in Items /\ item.revision <= w.srv[n].revision
        /\ Mutable => item.revision # NoRev /\ item.body \in w.given
        /\ (Mutable /\ item.revision = w.srv[n].revision) => item.body \in {NoBody, w.srv[n].body}
        /\ n \notin a => w.srv[n].live /\ (Exact => item.revision = w.srv[n].revision)
        BY <1>6 DEF ItemTrue
  <2>4. item.revision <= v.srv[n].revision
        /\ (item.revision = v.srv[n].revision => v.srv[n].revision = w.srv[n].revision)
        BY <1>5, <1>6, <2>1, <2>3
  <2> QED BY <1>3, <1>5, <1>6, <2>2, <2>3, <2>4 DEF ItemTrue
<1> QED BY <1>4, <1>5, <1>6

(* So does a run, past whose checkpoint the moved members are.             *)
LEMMA RunEvolves ==
    ASSUME NEW w, NEW v, NEW W, NEW ch, NEW cg, NEW r, NEW since, Evolves(w, v),
           RunOK(w, W, ch, r), StoreOK(W, w),
           r.since \subseteq since, since \subseteq cg[r.source],
           Moved(w, v, r.source, since)
    PROVE  RunOK(v, W, cg, [r EXCEPT !.since = since])
<1> DEFINE q == [r EXCEPT !.since = since]
<1>1. /\ q = [source |-> q.source, since |-> q.since, writes |-> q.writes, pushes |-> q.pushes,
              answered |-> q.answered, todo |-> q.todo]
      /\ q.source = r.source /\ q.since = since /\ q.writes = r.writes /\ q.pushes = r.pushes
      /\ q.todo = r.todo
      BY DEF RunOK
<1> HIDE DEF q
<1>2. r.source \in Sources
      BY DEF RunOK
<1>3. ASSUME NEW c \in r.todo
      PROVE  CandOK(v, since, r.source, W, c)
  <2>1. CandOK(w, r.since, r.source, W, c)
        BY DEF RunOK
  <2>2. RowOK(w, r.source, c.row)
        BY <2>1 DEF CandOK
  <2>3. /\ RowOK(v, r.source, c.row)
        /\ (/\ c.row.base # NoBase /\ ItemTrue(w, r.since, c.item, c.row.handle[2]))
             => ItemTrue(v, since, c.item, c.row.handle[2])
        /\ c.row.base # NoBase => (v.srv[c.row.handle[2]].live => w.srv[c.row.handle[2]].live)
        BY <2>2, RowEvolves
  <2> QED BY <2>1, <2>3 DEF CandOK
<1>4. ASSUME NEW i \in 1..Len(r.pushes)
      PROVE  PushOK(v, r.source, W, r.pushes[i])
  <2>1. PushOK(w, r.source, W, r.pushes[i])
        BY DEF RunOK
  <2>2. RowOK(v, r.source, r.pushes[i].row)
        BY <2>1, RowEvolves DEF PushOK
  <2> QED BY <2>1, <2>2 DEF PushOK
<1>5. Tracked(W, v, r.source, since \cup Numbered(r.todo))
  <2>1. Tracked(W, w, r.source, r.since \cup Numbered(r.todo))
        BY DEF RunOK
  <2>2. r.since \cup Numbered(r.todo) \subseteq since \cup Numbered(r.todo)
        OBVIOUS
  <2>3. Moved(w, v, r.source, since \cup Numbered(r.todo))
        BY DEF Moved
  <2> QED BY <1>2, <2>1, <2>2, <2>3, StoreEvolves
<1> QED BY <1>1, <1>3, <1>4, <1>5 DEF RunOK, q

-----------------------------------------------------------------------------
(* What merging one candidate does to the store.                           *)

(* Two sequences, one after the other.                                     *)
LEMMA Concat ==
    ASSUME NEW T, NEW v \in Seq(T), NEW u \in Seq(T)
    PROVE  /\ v \o u \in Seq(T) /\ Len(v \o u) = Len(v) + Len(u)
           /\ Len(v) \in Nat /\ Len(u) \in Nat
           /\ \A i \in 1..Len(v) : i \in 1..Len(v \o u) /\ (v \o u)[i] = v[i]
           /\ \A i \in 1..Len(u) : /\ Len(v) + i \in 1..Len(v \o u)
                                   /\ (v \o u)[Len(v) + i] = u[i]
           /\ \A i \in 1..Len(v \o u) :
                \/ i \in 1..Len(v) /\ (v \o u)[i] = v[i]
                \/ i - Len(v) \in 1..Len(u) /\ (v \o u)[i] = u[i - Len(v)]
<1>1. /\ v \o u \in Seq(T) /\ Len(v \o u) = Len(v) + Len(u)
      /\ Len(v) \in Nat /\ Len(u) \in Nat
      OBVIOUS
<1>2. \A i \in 1..Len(v) : i \in 1..Len(v \o u) /\ (v \o u)[i] = v[i]
      BY <1>1
<1>3. \A i \in 1..Len(u) : Len(v) + i \in 1..Len(v \o u) /\ (v \o u)[Len(v) + i] = u[i]
      BY <1>1
<1>4. ASSUME NEW i \in 1..Len(v \o u)
      PROVE  \/ i \in 1..Len(v) /\ (v \o u)[i] = v[i]
             \/ i - Len(v) \in 1..Len(u) /\ (v \o u)[i] = u[i - Len(v)]
  <2>1. CASE i \in 1..Len(v)
        BY <1>2, <2>1
  <2>2. CASE i \notin 1..Len(v)
    <3>1. i - Len(v) \in 1..Len(u) /\ Len(v) + (i - Len(v)) = i
          BY <1>1, <2>2
    <3> QED BY <1>3, <3>1
  <2> QED BY <2>1, <2>2
<1> QED BY <1>1, <1>2, <1>3, <1>4

(* Two sequences of one element each.                                      *)
LEMMA Pair == ASSUME NEW x, NEW y PROVE <<x>> \o <<y>> = <<x, y>>
<1> DEFINE a == <<x>>
           b == <<y>>
           T == {x, y}
<1>1. a \in Seq(T) /\ b \in Seq(T) /\ Len(a) = 1 /\ Len(b) = 1 /\ a[1] = x /\ b[1] = y
      OBVIOUS
<1>2. \A c \in Seq(T) : Len(c) = 2 /\ c[1] = x /\ c[2] = y => c = <<x, y>>
      OBVIOUS
<1> HIDE DEF a, b, T
<1>3. /\ a \o b \in Seq(T) /\ Len(a \o b) = Len(a) + Len(b)
      /\ \A i \in 1..Len(a) : (a \o b)[i] = a[i]
      /\ \A i \in 1..Len(b) : (a \o b)[Len(a) + i] = b[i]
  <2>1. a \in Seq(T) /\ b \in Seq(T)
        BY <1>1
  <2> QED BY <2>1, Concat
<1>4. 1 \in 1..1 /\ 1 + 1 = 2
      OBVIOUS
<1>5. Len(a \o b) = 2 /\ (a \o b)[1] = x /\ (a \o b)[2] = y
      BY <1>1, <1>3, <1>4
<1> QED BY <1>2, <1>3, <1>5 DEF a, b

(* Folding a batch, write by write.                                        *)
LEMMA FoldType ==
    ASSUME NEW I \in Stores, NEW s \in Sources
    PROVE  /\ Batch(I) \in Batches /\ Batch(I).items = I
           /\ \A ws \in Seq(Writes) : Fold(I, s, ws) \in Batches
           /\ Fold(I, s, << >>).items = I
           /\ \A ws, us \in Seq(Writes) : Fold(I, s, ws \o us) = FoldFrom(Fold(I, s, ws), s, us)
           /\ \A F \in Batches, ws \in Seq(Writes) : FoldFrom(F, s, ws) \in Batches
<1>1. Batch(I) \in Batches /\ Batch(I).items = I
      BY DEF Batch, Batches, Bounds
<1>2. ASSUME NEW F \in Batches, NEW ws \in Seq(Writes)
      PROVE  FoldFrom(F, s, ws) \in Batches
  <2>1. NoBody \in Nat
        BY DEF NoBody
  <2>2. Bodied(F.items, Nat)
        BY DEF Bodied, Has, Batches, Stores, Rowed, HubItems
  <2>3. ASSUME NEW i \in 1..Len(ws), ws[i].op = "Upsert"
        PROVE  ws[i].row.object \in Nat
    <3>1. ws[i] \in Writes
          OBVIOUS
    <3>2. ws[i].row \in Rows
          BY <2>3, <3>1, AbsorbType
    <3> QED BY <3>2, Based
  <2>4. Wrote(ws, Nat)
        BY <2>3 DEF Wrote
  <2> QED BY <2>1, <2>2, <2>4, FoldHas
<1>3. Fold(I, s, << >>).items = I
      BY <1>1, FoldFromOne DEF Fold
<1>4. \A ws, us \in Seq(Writes) : Fold(I, s, ws \o us) = FoldFrom(Fold(I, s, ws), s, us)
      BY FoldFromConcat DEF Fold
<1> QED BY <1>1, <1>2, <1>3, <1>4 DEF Fold

(* Merging the row p moved at most its own binding, and left it q, unbound *)
(* or as it was.                                                           *)
Effect(w, s, since, W, J, p, q) ==
    \/ /\ J = W /\ q = p /\ Agree(View(W, s, p.link), p)
       /\ p.base # NoBase => p.handle[2] \in since \/ Known(w, p)
    \/ /\ Placed(W, J, s, q) /\ RowOK(w, s, q)
       /\ q.link = p.link /\ q.handle \in {p.handle, p.link}
       /\ \A k \in Keys : Under(W, s, k, q.handle) => k = q.link
       /\ Mints(W, w, s, q)
       /\ q.base # NoBase => q.handle = p.handle /\ (p.handle[2] \in since \/ Known(w, q))
    \/ /\ Removed(W, J, s, p.link) /\ W[p.link] # NoItem /\ q.link = p.link
       /\ (p.link[2] # 0 /\ Under(W, s, p.link, Real(p.link[2]))) => ~w.srv[p.link[2]].live

(* The push a merge leaves, in the store its writes make.                  *)
Owes(w, s, J, out) ==
    out.change = NoChange \/ PushOK(w, s, J, [change |-> out.change, row |-> out.row])

(* A create, and an update that overruled nothing, was derived from a row  *)
(* the store had.                                                          *)
Standing(c, out) ==
    /\ out.writes \in Seq(Writes)
    /\ out.change.kind = "Add" => ~c.fresh
    /\ (Mutable /\ out.change.kind = "Update" /\ Mild(out.writes)) =>
         /\ ~c.fresh /\ c.row.base # NoBase /\ c.row.base.revision # NoRev
         /\ out.row.handle = c.row.handle /\ out.row.link = c.row.link
         /\ out.row.base.object = c.row.base.object

(* The row of a candidate binds no key but its own.                        *)
LEMMA CandBinds ==
    ASSUME NEW w, NEW since, NEW s \in Sources, NEW W, NEW c, StoreOK(W, w),
           CandOK(w, since, s, W, c)
    PROVE  \A k \in Keys : Under(W, s, k, c.row.handle) => k = c.row.link
<1> DEFINE p == c.row
<1>1. RowOK(w, s, p) /\ p \in Rows /\ p.link \in SyncKeys /\ p.link \in Keys
      BY HandleKinds, Based DEF CandOK, RowOK
<1>2. CASE c.fresh
      BY <1>2 DEF CandOK
<1>3. CASE ~c.fresh /\ View(W, s, p.link) # NoBinding
  <2>1. View(W, s, p.link).handle = p.handle
        BY <1>3 DEF CandOK, Agree, Matches
  <2> QED BY <1>1, <1>3, <2>1 DEF StoreOK
<1>4. CASE ~c.fresh /\ View(W, s, p.link) = NoBinding
  <2>1. p.base = NoBase
        BY <1>4 DEF CandOK, Agree
  <2>2. p.handle = p.link
        BY <1>1, <2>1 DEF RowOK, Grounded
  <2>3. ASSUME NEW k \in Keys, Under(W, s, k, p.link)
        PROVE  k = p.link
    <3>1. Grounded(w, View(W, s, k), s, k) /\ View(W, s, k).handle = p.link
          BY <2>3 DEF StoreOK, Under
    <3>2. ~IsReal(p.link)
          BY <1>1, HandleKinds
    <3> QED BY <3>1, <3>2 DEF Grounded
  <2> QED BY <2>2, <2>3
<1>5. c.fresh \in BOOLEAN
      BY DEF CandOK
<1> QED BY <1>2, <1>3, <1>4, <1>5

(* A listed candidate.                                                     *)
LEMMA ListedEffect ==
    ASSUME NEW w, NEW since, NEW s \in Sources, NEW F \in Batches, NEW c, ServersOK(w),
           StoreOK(F.items, w), CandOK(w, since, s, F.items, c), c.seen = "listed"
    PROVE  LET out == Merge(c)
               ws  == WritesOf(c, out)
               J   == FoldFrom(F, s, ws).items
           IN  /\ ws \in Seq(Writes) /\ (Mutable => Wrote(ws, w.written))
               /\ Effect(w, s, since, F.items, J, c.row, out.row)
               /\ Owes(w, s, J, out) /\ Standing(c, out)
<1> DEFINE p == c.row
           n == p.handle[2]
           W == F.items
           out == Merge(c)
           q == out.row
           us == IF c.fresh /\ out.writes = << >> THEN <<Upsert(p)>> ELSE out.writes
           ws == WritesOf(c, out)
           J == FoldFrom(F, s, ws).items
<1>1. /\ RowOK(w, s, p) /\ p.base # NoBase /\ ItemTrue(w, since, c.item, n)
      /\ c.fresh \in BOOLEAN
      BY DEF CandOK
<1>2. p \in BasedRows /\ p \in Rows /\ p.link \in SyncKeys /\ p.link \in Keys /\ p.handle \in Handles
      BY <1>1, BasedRowsAre, Based, HandleKinds DEF RowOK
<1>3. c.item \in Items /\ (Mutable => c.item.revision # NoRev /\ c.item.body \in w.given)
      BY <1>1 DEF ItemTrue
<1>4. out = MergeListed(p, c.item)
      BY DEF Merge
<1>5. Exact => (p.status # "Conflict" => p.conflictRevision = NoRev)
      BY <1>1 DEF RowOK
<1> HIDE DEF out
<1>6. Merges(p, c.item, out) /\ Derives(p, out)
      BY <1>2, <1>3, <1>4, <1>5, ListedMerges
<1>7. /\ Chain(out.writes, p, q) /\ From(p, c.item, q) /\ Follows(q, c.item)
      /\ \A B : p.object \in B /\ c.item.body \in B => Wrote(out.writes, B)
      BY <1>6 DEF Merges
<1>8. q \in BasedRows /\ q.handle = p.handle /\ q.link = p.link /\ q \in Rows /\ q.base # NoBase
      BY <1>7, BasedRowsAre DEF From
<1>9. RowOK(w, s, q) /\ (n \in since \/ Known(w, q))
      BY <1>1, <1>2, <1>7, RowFrom
<1>10. /\ Chain(us, p, q) /\ us \in Seq(Writes)
       /\ c.fresh => us # << >>
       /\ ~c.fresh => us = out.writes
       /\ Mutable => Wrote(us, w.written)
  <2>1. Mutable => p.object \in w.written /\ c.item.body \in w.written
        BY <1>1, <1>3 DEF RowOK, ServersOK
  <2>2. CASE c.fresh /\ out.writes = << >>
    <3>1. us = <<Upsert(p)>> /\ q = p
          BY <1>7, <2>2 DEF Chain
    <3>2. Chain(<<Upsert(p)>>, p, p) /\ <<Upsert(p)>> # << >>
          /\ (Mutable => Wrote(<<Upsert(p)>>, w.written))
          BY <1>2, <2>1, Chains, OneWrite
    <3> HIDE DEF us
    <3> QED BY <2>2, <3>1, <3>2 DEF Chain
  <2>3. CASE ~(c.fresh /\ out.writes = << >>)
    <3>1. us = out.writes
          BY <2>3
    <3> HIDE DEF us
    <3> QED BY <1>7, <2>1, <2>3, <3>1 DEF Chain
  <2> QED BY <2>2, <2>3
<1>11. ws = c.first \o us
      BY DEF WritesOf
<1> HIDE DEF us, ws
<1>12. /\ ws \in Seq(Writes) /\ (Mutable => Wrote(ws, w.written))
       /\ us = << >> => J = W /\ q = p /\ ~c.fresh
       /\ us # << >> => Placed(W, J, s, q)
  <2>1. CASE c.first = << >>
    <3>1. ws = us
          BY <1>10, <1>11, <2>1
    <3>2. /\ us = << >> => FoldFrom(F, s, us) = F /\ q = p
          /\ us # << >> => Placed(W, FoldFrom(F, s, us).items, s, q)
          BY <1>2, <1>10, ChainEffect
    <3> QED BY <1>10, <3>1, <3>2
  <2>2. CASE c.first = <<Drop(p.link, "Superseded")>> /\ c.fresh
    <3> DEFINE d == Drop(p.link, "Superseded")
               one == <<d>>
    <3>1. p.link \in Handles /\ ~IsReal(p.link)
          BY <1>2, HandleKinds
    <3>2. "Superseded" \in Reasons
          BY DEF Reasons
    <3>3. d \in Writes /\ d.op = "Drop"
          BY <3>1, <3>2 DEF Writes, Drop
    <3>4. \A j \in Keys : Under(W, s, j, p.link) => j = p.link
          BY <3>1 DEF StoreOK, Under, Grounded
    <3>5. us # << >>
          BY <1>10, <2>2
    <3>6. Placed(W, FoldFrom(F, s, one \o us).items, s, q)
          BY <1>2, <1>10, <3>1, <3>2, <3>4, <3>5, DropPlaced
    <3> HIDE DEF d
    <3>7. one \in Seq(Writes) /\ Len(one) = 1 /\ one[1] = d
          BY <3>3
    <3> HIDE DEF one
    <3>8. one \o us \in Seq(Writes) /\ Len(one \o us) = 1 + Len(us) /\ Len(us) \in Nat
          /\ (one \o us)[1] = d /\ \A i \in 1..Len(us) : (one \o us)[1 + i] = us[i]
      <4>1. /\ one \o us \in Seq(Writes) /\ Len(one \o us) = Len(one) + Len(us)
            /\ Len(us) \in Nat
            /\ \A i \in 1..Len(one) : (one \o us)[i] = one[i]
            /\ \A i \in 1..Len(us) : (one \o us)[Len(one) + i] = us[i]
        <5>1. us \in Seq(Writes) /\ one \in Seq(Writes)
              BY <1>10, <3>7
        <5> QED BY <5>1, Concat
      <4>2. 1 \in 1..1
            OBVIOUS
      <4> QED BY <3>7, <4>1, <4>2
    <3>9. ASSUME Mutable, NEW i \in 1..Len(one \o us), (one \o us)[i].op = "Upsert"
          PROVE  (one \o us)[i].row.object \in w.written
      <4>1. i # 1
            BY <3>3, <3>8, <3>9
      <4>2. i - 1 \in 1..Len(us) /\ 1 + (i - 1) = i
            BY <3>8, <3>9, <4>1
      <4> QED BY <1>10, <3>8, <3>9, <4>2 DEF Wrote
    <3>10. Mutable => Wrote(one \o us, w.written)
          BY <3>9 DEF Wrote
    <3>11. ws = one \o us
          BY <1>11, <2>2 DEF one, d
    <3> QED BY <3>5, <3>6, <3>8, <3>10, <3>11
  <2>3. c.first = << >> \/ (c.first = <<Drop(p.link, "Superseded")>> /\ c.fresh)
        BY DEF CandOK
  <2> QED BY <2>1, <2>2, <2>3
<1> HIDE DEF J
<1>13. \A k \in Keys : Under(W, s, k, p.handle) => k = p.link
      BY CandBinds
<1>14. Mints(W, w, s, q)
  <2>1. CASE c.fresh
    <3>1. p.link[2] \in {0, n} /\ p.handle = Real(n)
      <4>1. Grounded(w, p, s, p.link)
            BY <1>1 DEF RowOK
      <4>2. p.handle = Real(n)
            BY <1>1, <1>2, <4>1, Anchored
      <4> QED BY <2>1, <4>2 DEF CandOK
    <3> QED BY <1>8, <3>1 DEF Mints
  <2>2. CASE ~c.fresh
    <3>1. W[p.link] # NoItem /\ Agree(View(W, s, p.link), p)
          BY <2>2 DEF CandOK
    <3>2. Under(W, s, p.link, Real(p.link[2])) => p.handle = Real(p.link[2])
          BY <1>1, <3>1 DEF Agree, Matches, Under
    <3> QED BY <1>8, <3>1, <3>2 DEF Mints
  <2> QED BY <1>1, <2>1, <2>2
<1>15. Effect(w, s, since, W, J, p, q)
  <2>1. ~c.fresh => Agree(View(W, s, p.link), p)
        BY DEF CandOK
  <2> QED BY <1>8, <1>9, <1>12, <1>13, <1>14, <2>1 DEF Effect
<1>16. View(J, s, q.link) # NoBinding /\ Matches(View(J, s, q.link), q)
  <2>1. CASE us # << >>
    <3>1. Placed(W, J, s, q)
          BY <1>12, <2>1
    <3> QED BY <3>1, AbsentAssumption DEF Placed
  <2>2. CASE us = << >>
    <3>1. J = W /\ q = p /\ ~c.fresh
          BY <1>12, <2>2
    <3>2. Agree(View(W, s, p.link), p)
          BY <3>1 DEF CandOK
    <3> QED BY <1>1, <3>1, <3>2 DEF Agree
  <2> QED BY <2>1, <2>2
<1>17. Owes(w, s, J, out)
  <2> DEFINE x == [change |-> out.change, row |-> q]
  <2>1. x.change = out.change /\ x.row = q
        OBVIOUS
  <2> HIDE DEF x
  <2>2. CASE Marks(out.change)
        BY <1>8, <1>9, <1>16, <2>1, <2>2 DEF Owes, PushOK, Marks, x
  <2>3. CASE Edits(p, out)
        BY <1>8, <1>9, <1>16, <2>1, <2>3 DEF Owes, PushOK, Edits, x
  <2>4. CASE out.change.kind = "Remove"
        BY <1>8, <1>9, <1>16, <2>1, <2>4 DEF Owes, PushOK, x
  <2> QED BY <1>6, <2>2, <2>3, <2>4 DEF Derives, Owes
<1>18. Standing(c, out)
  <2> SUFFICES ASSUME Mutable, out.change.kind = "Update", Mild(out.writes)
               PROVE  /\ ~c.fresh /\ p.base.revision # NoRev
                      /\ q.base.object = p.base.object
    <3>1. out.change.kind # "Add"
          BY <1>6 DEF Derives, NoChange, Marks, Edits
    <3> QED BY <1>1, <1>7, <1>8, <3>1 DEF Standing, Chain
  <2>1. Edits(p, out)
        BY <1>6 DEF Derives, NoChange, Marks
  <2>2. /\ p.object # NoBody /\ p.object # p.base.object
        /\ q.base.revision = p.base.revision /\ q.base.object = p.base.object
        /\ q.base.revision # NoRev /\ q.base.object # NoBody
        BY <2>1 DEF Edits, StagedEdit
  <2>3. ~c.fresh
        BY <2>2 DEF CandOK
  <2> QED BY <2>2, <2>3
<1> QED BY <1>12, <1>15, <1>17, <1>18 DEF J, ws, out

(* The pending create a body whose remote side went becomes.               *)
LEMMA Resurrected ==
    ASSUME NEW w, NEW s, NEW p, RowOK(w, s, p)
    PROVE  LET q == Resurrect(p).row
           IN  /\ RowOK(w, s, q) /\ q.link = p.link /\ q.handle = p.link /\ q.base = NoBase
               /\ q.object = p.object /\ q.status = "Created"
               /\ Resurrect(p) = Outcome(q, <<Drop(p.handle, "Superseded"), Upsert(q)>>, NoChange)
<1> DEFINE q == [p EXCEPT !.handle = p.link, !.status = "Created", !.conflictRevision = NoRev,
                          !.conflictObject = NoBody, !.base = NoBase]
<1>1. Resurrect(p) = Outcome(q, <<Drop(p.handle, "Superseded"), Upsert(q)>>, NoChange)
      BY DEF Resurrect
<1>2. p \in Rows /\ p.link \in SyncKeys /\ p.link \in Handles
      BY Based, HandleKinds DEF RowOK
<1>3. /\ q \in Rows /\ q.link = p.link /\ q.handle = p.link /\ q.base = NoBase
      /\ q.object = p.object /\ q.status = "Created" /\ q.conflictRevision = NoRev
      BY <1>2 DEF Rows, Placements, Statuses, NoRev, NoBody
<1> HIDE DEF q
<1>4. Grounded(w, q, s, q.link)
      BY <1>3 DEF Grounded, Told
<1>5. RowOK(w, s, q)
      BY <1>3, <1>4 DEF RowOK
<1>6. Resurrect(p).row = q
      BY <1>1 DEF Outcome
<1> QED BY <1>1, <1>3, <1>5, <1>6

(* A candidate that is not listed.                                         *)
LEMMA UnlistedEffect ==
    ASSUME NEW w, NEW since, NEW s \in Sources, NEW F \in Batches, NEW c, ServersOK(w),
           StoreOK(F.items, w), CandOK(w, since, s, F.items, c), c.seen # "listed"
    PROVE  LET out == Merge(c)
               ws  == WritesOf(c, out)
               J   == FoldFrom(F, s, ws).items
           IN  /\ ws \in Seq(Writes) /\ (Mutable => Wrote(ws, w.written))
               /\ Effect(w, s, since, F.items, J, c.row, out.row)
               /\ Owes(w, s, J, out) /\ Standing(c, out)
<1> DEFINE p == c.row
           W == F.items
           out == Merge(c)
           ws == WritesOf(c, out)
           J == FoldFrom(F, s, ws).items
<1>1. /\ RowOK(w, s, p) /\ c.fresh \in BOOLEAN /\ ~c.fresh /\ c.first = << >>
      /\ W[p.link] # NoItem /\ Agree(View(W, s, p.link), p)
      /\ c.seen \in {"gone", "create"}
      BY DEF CandOK
<1>2. p \in Rows /\ p.link \in SyncKeys /\ p.link \in Keys /\ p.handle \in Handles
      /\ p.link \in Handles /\ ~IsReal(p.link) /\ (Mutable => p.object \in w.written)
      BY <1>1, Based, HandleKinds DEF RowOK
<1>3. \A k \in Keys : Under(W, s, k, p.handle) => k = p.link
      BY CandBinds
<1>4. \A k \in Keys : Under(W, s, k, p.link) => k = p.link
      BY <1>2 DEF StoreOK, Under, Grounded
<1>5. "Deleted" \in Reasons /\ "Superseded" \in Reasons
      BY DEF Reasons
<1>6. out.writes \in Seq(Writes) => ws = out.writes
  <2> DEFINE o == out.writes
  <2>1. ws = << >> \o o
        BY <1>1 DEF WritesOf
  <2> HIDE DEF o, ws
  <2>2. o \in Seq(Writes) => << >> \o o = o
        OBVIOUS
  <2> QED BY <2>1, <2>2 DEF o
<1>7. ASSUME Under(W, s, p.link, p.handle) \/ View(W, s, p.link) = NoBinding,
             out = Outcome(p, <<Drop(p.handle, "Deleted")>>, NoChange),
             (p.link[2] # 0 /\ Under(W, s, p.link, Real(p.link[2]))) => ~w.srv[p.link[2]].live
      PROVE  /\ ws \in Seq(Writes) /\ (Mutable => Wrote(ws, w.written))
             /\ Effect(w, s, since, W, J, p, out.row)
             /\ Owes(w, s, J, out) /\ Standing(c, out)
  <2> DEFINE d == Drop(p.handle, "Deleted")
             us == <<d>>
  <2>1. Removed(W, FoldFrom(F, s, us).items, s, p.link)
        BY <1>2, <1>3, <1>5, <1>7, DropOne
  <2>2. d \in Writes /\ d.op = "Drop"
        BY <1>2, <1>5 DEF Writes, Drop
  <2>3. out = Outcome(p, us, NoChange)
        BY <1>7
  <2> HIDE DEF d
  <2>4. us \in Seq(Writes) /\ Len(us) = 1 /\ us[1] = d
        BY <2>2
  <2>5. \A i \in 1..1 : i = 1
        OBVIOUS
  <2>6. Wrote(us, w.written)
        BY <2>2, <2>4, <2>5 DEF Wrote
  <2> HIDE DEF us
  <2>7. out.writes = us /\ out.change = NoChange /\ out.row = p
        BY <2>3 DEF Outcome
  <2> HIDE DEF out, ws
  <2>8. ws = us
        BY <1>6, <2>4, <2>7
  <2>9. Effect(w, s, since, W, J, p, out.row)
        BY <1>1, <1>7, <2>1, <2>7, <2>8 DEF Effect
  <2> QED BY <1>1, <2>4, <2>6, <2>7, <2>8, <2>9 DEF Owes, Standing, NoChange
<1>8. CASE c.seen = "gone"
  <2>1. p.base # NoBase /\ ~w.srv[p.handle[2]].live /\ out = MergeVanished(p)
        BY <1>8 DEF CandOK, Merge
  <2>2. Under(W, s, p.link, p.handle)
        BY <1>1, <2>1 DEF Agree, Matches, Under
  <2>3. (p.link[2] # 0 /\ Under(W, s, p.link, Real(p.link[2]))) => ~w.srv[p.link[2]].live
    <3>1. Under(W, s, p.link, Real(p.link[2])) => p.handle = Real(p.link[2])
          BY <2>2 DEF Under
    <3> QED BY <2>1, <3>1 DEF Real
  <2>4. CASE out = Outcome(p, <<Drop(p.handle, "Deleted")>>, NoChange)
        BY <1>7, <2>2, <2>3, <2>4
  <2>5. CASE out = Resurrect(p)
    <3> DEFINE q == Resurrect(p).row
               d == Drop(p.handle, "Superseded")
               u == <<Upsert(q)>>
               us == <<d>> \o u
    <3>1. /\ RowOK(w, s, q) /\ q.link = p.link /\ q.handle = p.link /\ q.base = NoBase
          /\ q.object = p.object
          /\ out = Outcome(q, <<Drop(p.handle, "Superseded"), Upsert(q)>>, NoChange)
          BY <1>1, <2>5, Resurrected
    <3>2. q \in Rows
          BY <3>1 DEF RowOK
    <3> HIDE DEF q
    <3>3. Chain(u, q, q) /\ u # << >> /\ (Mutable => Wrote(u, w.written))
          BY <1>2, <3>1, <3>2, Chains, OneWrite
    <3>4. \A j \in Keys : Under(W, s, j, p.handle) => j = q.link
          BY <1>3, <3>1
    <3>5. Placed(W, FoldFrom(F, s, us).items, s, q)
      <4> HIDE DEF u
      <4> QED BY <1>2, <1>5, <3>2, <3>3, <3>4, DropPlaced
    <3>6. d \in Writes /\ d.op = "Drop" /\ Upsert(q) \in Writes
          BY <1>2, <1>5, <3>2 DEF Writes, Drop
    <3>7. us = <<d, Upsert(q)>>
      BY Pair
    <3>8. us \in Seq(Writes) /\ (Mutable => Wrote(us, w.written))
      <4> DEFINE y == Upsert(q)
                 vs == <<d, y>>
      <4>1. d \in Writes /\ y \in Writes /\ d.op = "Drop" /\ y.row = q
            BY <3>6 DEF Upsert
      <4>2. us = vs
            BY <3>7
      <4> HIDE DEF d, y
      <4>3. vs \in Seq(Writes) /\ Len(vs) = 2 /\ vs[1] = d /\ vs[2] = y
            BY <4>1
      <4>4. \A i \in 1..2 : i = 1 \/ i = 2
            OBVIOUS
      <4> HIDE DEF vs, us
      <4> QED BY <1>2, <3>1, <4>1, <4>2, <4>3, <4>4 DEF Wrote
    <3>9. out.writes = us /\ out.change = NoChange /\ out.row = q
      <4>1. out = Outcome(q, us, NoChange)
            BY <3>1, <3>7
      <4> HIDE DEF us
      <4> QED BY <4>1 DEF Outcome
    <3> HIDE DEF us, out, ws
    <3>10. ws = us
          BY <1>6, <3>8, <3>9
    <3>11. Mints(W, w, s, q)
          BY <1>1, <2>3, <3>1 DEF Mints
    <3>12. Effect(w, s, since, W, J, p, out.row)
          BY <1>4, <3>1, <3>5, <3>9, <3>10, <3>11 DEF Effect
    <3> QED BY <3>8, <3>9, <3>10, <3>12 DEF Owes, Standing, NoChange, out, ws
  <2> QED BY <2>1, <2>4, <2>5 DEF MergeVanished
<1>9. CASE c.seen = "create"
  <2>1. p.base = NoBase /\ out = MergeCreate(p)
        BY <1>9 DEF CandOK, Merge
  <2>2. p.handle = p.link
        BY <1>1, <2>1 DEF RowOK, Grounded
  <2>3. View(W, s, p.link) # NoBinding => /\ View(W, s, p.link).handle = p.link
                                          /\ View(W, s, p.link).base = NoBase
        BY <1>1, <2>1, <2>2 DEF Agree, Matches
  <2>4. CASE out = Outcome(p, <<Drop(p.handle, "Deleted")>>, NoChange)
    <3>1. Under(W, s, p.link, p.handle) \/ View(W, s, p.link) = NoBinding
          BY <2>2, <2>3 DEF Under
    <3>2. ~Under(W, s, p.link, Real(p.link[2]))
          BY <1>2, <2>3 DEF Under, Real, IsReal
    <3> QED BY <1>7, <2>4, <3>1, <3>2
  <2>5. ASSUME NEW change, out = Outcome(p, << >>, change),
               change = NoChange \/ (change = AddChange(p) /\ p.object # NoBody)
        PROVE  /\ ws \in Seq(Writes) /\ (Mutable => Wrote(ws, w.written))
               /\ Effect(w, s, since, W, J, p, out.row)
               /\ Owes(w, s, J, out) /\ Standing(c, out)
    <3>1. out.writes = << >> /\ out.row = p /\ out.change = change
          BY <2>5 DEF Outcome
    <3> HIDE DEF out, ws
    <3>2. << >> \in Seq(Writes)
          OBVIOUS
    <3>3. ws = << >>
          BY <1>6, <3>1, <3>2
    <3>4. J = W
          BY <3>3, FoldFromOne
    <3> HIDE DEF J
    <3>5. Effect(w, s, since, W, J, p, out.row)
          BY <1>1, <2>1, <3>1, <3>4 DEF Effect
    <3>6. Owes(w, s, J, out)
      <4> DEFINE x == [change |-> out.change, row |-> out.row]
      <4>1. x.change = change /\ x.row = p
            BY <3>1
      <4> HIDE DEF x
      <4>2. change = AddChange(p) => /\ change.kind = "Add" /\ change.link = p.link
                                     /\ change.object = p.object /\ change.flags = p.flags
            BY DEF AddChange
      <4>3. change = AddChange(p) => PushOK(w, s, J, x)
            BY <1>1, <2>1, <2>3, <2>5, <3>4, <4>1, <4>2 DEF PushOK, AddChange, NoChange
      <4> QED BY <2>5, <3>1, <4>3 DEF Owes, x
    <3>7. Standing(c, out)
      <4>1. out.change.kind \in {"Add", "None"}
            BY <2>5, <3>1 DEF AddChange, NoChange
      <4>2. out.writes \in Seq(Writes)
            BY <3>1, <3>2
      <4> QED BY <1>1, <4>1, <4>2 DEF Standing
    <3> QED BY <3>2, <3>3, <3>5, <3>6, <3>7, OneWrite
  <2>6. \/ out = Outcome(p, <<Drop(p.handle, "Deleted")>>, NoChange)
        \/ out = Outcome(p, << >>, NoChange)
        \/ out = Outcome(p, << >>, AddChange(p)) /\ p.object # NoBody
        BY <2>1 DEF MergeCreate, Untouched
  <2> QED BY <2>4, <2>5, <2>6
<1> QED BY <1>1, <1>8, <1>9

(* Merging a candidate leaves the store justified, and owes nothing more   *)
(* of its member.                                                          *)
LEMMA EffectKeeps ==
    ASSUME NEW w, NEW s \in Sources, NEW since, NEW W, NEW J, NEW p, NEW q,
           ServersOK(w), StoreOK(W, w), RowOK(w, s, p), Effect(w, s, since, W, J, p, q),
           \A k \in Keys : Under(W, s, k, p.handle) => k = p.link,
           Mutable => Bodied(J, w.written)
    PROVE  /\ StoreOK(J, w) /\ Within(W, J, s, p.link)
           /\ \A t \in Sources : \A ex : Tracked(W, w, t, ex) /\ (t = s => since \subseteq ex)
                                       => Tracked(J, w, t, ex)
           /\ \A ex : (/\ p.base # NoBase /\ since \subseteq ex
                       /\ Tracked(W, w, s, ex \cup {p.handle[2]})) => Tracked(J, w, s, ex)
           /\ \A k \in Keys : \A h : Under(J, s, k, h) /\ IsReal(h) /\ h # p.handle
                                   => Under(W, s, k, h)
<1> DEFINE n == p.handle[2]
           key == p.link
           b == View(J, s, key)
<1>1. p \in Rows /\ key \in SyncKeys /\ key \in Keys /\ p.handle \in Handles /\ ~IsReal(key)
      BY Based, HandleKinds DEF RowOK
<1>2. StoreOK(J, w) /\ Within(W, J, s, key)
      /\ (b # NoBinding /\ b.base # NoBase => /\ b.handle = p.handle
                                              /\ n \in since \/ Known(w, b))
      /\ \A t \in Sources : \A ex : Tracked(W, w, t, ex) /\ (t = s => since \subseteq ex)
                                  => Tracked(J, w, t, ex)
  <2>1. CASE /\ J = W /\ q = p /\ Agree(View(W, s, key), p)
             /\ p.base # NoBase => n \in since \/ Known(w, p)
    <3>1. Within(W, J, s, key)
          BY <2>1 DEF Within, StoreOK
    <3>2. b # NoBinding => Matches(b, p)
          BY <2>1 DEF Agree
    <3>3. b # NoBinding /\ b.base # NoBase => p.base # NoBase /\ b.handle = p.handle
          BY <3>2 DEF Matches
    <3> HIDE DEF b
    <3>4. b # NoBinding /\ p.base # NoBase /\ Known(w, p) => Known(w, b)
          BY <1>1, <3>2, GroundedMatches DEF RowOK
    <3> QED BY <2>1, <3>1, <3>3, <3>4 DEF b
  <2>2. CASE /\ Placed(W, J, s, q) /\ RowOK(w, s, q)
             /\ q.link = p.link /\ q.handle \in {p.handle, p.link}
             /\ \A k \in Keys : Under(W, s, k, q.handle) => k = q.link
             /\ Mints(W, w, s, q)
             /\ q.base # NoBase => q.handle = p.handle /\ (n \in since \/ Known(w, q))
    <3>1. /\ StoreOK(J, w)
          /\ \A t \in Sources : \A ex :
               /\ Tracked(W, w, t, ex)
               /\ (t = s /\ q.base # NoBase) => q.handle[2] \in ex \/ Known(w, q)
               => Tracked(J, w, t, ex)
          BY <2>2, StorePlaced
    <3>2. Within(W, J, s, key) /\ Matches(b, q)
          BY <2>2 DEF Placed
    <3>3. b.base # NoBase => q.base # NoBase /\ b.handle = q.handle
          BY <3>2 DEF Matches
    <3> HIDE DEF b
    <3>4. q.handle \in Handles
          BY <2>2, Based DEF RowOK
    <3>5. q.base # NoBase /\ Known(w, q) => Known(w, b)
          BY <2>2, <3>2, <3>4, GroundedMatches DEF RowOK
    <3> QED BY <2>2, <3>1, <3>2, <3>3, <3>5 DEF b
  <2>3. CASE /\ Removed(W, J, s, key) /\ W[key] # NoItem
             /\ (key[2] # 0 /\ Under(W, s, key, Real(key[2]))) => ~w.srv[key[2]].live
    <3>1. /\ StoreOK(J, w)
          /\ \A t \in Sources : \A ex : Tracked(W, w, t, ex) => Tracked(J, w, t, ex)
          BY <1>1, <2>3, StoreRemoved
    <3> QED BY <2>3, <3>1 DEF Removed
  <2> QED BY <2>1, <2>2, <2>3 DEF Effect
<1>3. \A t \in Sources, k \in Keys : (k # key \/ t # s) => View(J, t, k) = View(W, t, k)
  <2>1. \A t \in Sources, k \in Keys : k # key => View(J, t, k) = View(W, t, k)
        BY <1>2 DEF Within, View, Loaded
  <2> QED BY <1>2, <2>1 DEF Within
<1>4. ASSUME NEW ex, p.base # NoBase, since \subseteq ex, Tracked(W, w, s, ex \cup {n}),
             NEW k \in Keys, View(J, s, k) # NoBinding, View(J, s, k).base # NoBase
      PROVE  View(J, s, k).handle[2] \in ex \/ Known(w, View(J, s, k))
  <2>1. CASE k = key
        BY <1>2, <1>4, <2>1
  <2>2. CASE k # key
    <3> DEFINE x == View(W, s, k)
    <3>1. View(J, s, k) = x
          BY <1>3, <2>2
    <3>2. x.handle[2] \in ex \cup {n} \/ Known(w, x)
          BY <1>4, <3>1 DEF Tracked
    <3>3. x.handle[2] # n
      <4>1. x.handle \in Handles
            BY <1>4, <3>1, ViewType DEF StoreOK
      <4>2. Grounded(w, x, s, k)
            BY <1>4, <3>1 DEF StoreOK
      <4>3. x.handle = Real(x.handle[2])
            BY <1>4, <3>1, <4>1, <4>2, Anchored
      <4>4. p.handle = Real(n)
            BY <1>1, <1>4, Anchored DEF RowOK
      <4>5. x.handle # p.handle
            BY <1>4, <2>2, <3>1 DEF Under
      <4> QED BY <4>3, <4>4, <4>5
    <3> QED BY <3>1, <3>2, <3>3
  <2> QED BY <2>1, <2>2
<1>5. ASSUME NEW k \in Keys, NEW h, Under(J, s, k, h), IsReal(h), h # p.handle
      PROVE  Under(W, s, k, h)
  <2>1. CASE k # key
        BY <1>3, <1>5, <2>1 DEF Under
  <2>2. CASE k = key
    <3>1. b # NoBinding /\ b.handle = h
          BY <1>5, <2>2 DEF Under
    <3>2. b.base # NoBase
      <4>1. Grounded(w, b, s, key)
            BY <1>1, <1>2, <3>1 DEF StoreOK
      <4> QED BY <1>1, <1>5, <3>1, <4>1 DEF Grounded
    <3> QED BY <1>2, <1>5, <3>1, <3>2
  <2> QED BY <2>1, <2>2
<1> QED BY <1>2, <1>4, <1>5 DEF Tracked

-----------------------------------------------------------------------------
(* What a run's steps leave of the run and its store.                      *)

(* Rows the store has for everything that is not fresh: a batch saved over *)
(* it loses none of them.                                                  *)
Rooted(I, r) ==
    /\ \A c \in r.todo : ~c.fresh => I[c.row.link] # NoItem
    /\ \A i \in 1..Len(r.pushes) :
         r.pushes[i].change.kind = "Add" => I[r.pushes[i].row.link] # NoItem

(* Appending to a sequence at most one element.                            *)
LEMMA AppendOne ==
    ASSUME NEW T, NEW a \in Seq(T), NEW b, NEW x, b = << >> \/ b = <<x>>
    PROVE  /\ a \o b \in Seq(T \cup {x})
           /\ \A i \in 1..Len(a \o b) :
                \/ i \in 1..Len(a) /\ (a \o b)[i] = a[i]
                \/ i = Len(a) + 1 /\ b = <<x>> /\ (a \o b)[i] = x
<1>1. b \in Seq(T \cup {x}) /\ a \in Seq(T \cup {x})
  <2>1. Len(a) \in Nat /\ a \in [1..Len(a) -> T \cup {x}]
        OBVIOUS
  <2>2. a \in Seq(T \cup {x})
        BY <2>1
  <2>3. << >> \in Seq(T \cup {x}) /\ <<x>> \in Seq(T \cup {x})
        OBVIOUS
  <2> QED BY <2>2, <2>3
<1>2. /\ b = << >> => Len(b) = 0
      /\ b = <<x>> => Len(b) = 1 /\ b[1] = x
      OBVIOUS
<1> DEFINE u == a \o b
           la == Len(a)
<1>3. /\ u \in Seq(T \cup {x})
      /\ \A i \in 1..Len(u) : \/ i \in 1..la /\ u[i] = a[i]
                              \/ i - la \in 1..Len(b) /\ u[i] = b[i - la]
      /\ Len(u) \in Nat
      BY <1>1, Concat
<1>4. la \in Nat
      OBVIOUS
<1> HIDE DEF u, la
<1>5. ASSUME NEW i \in 1..Len(u)
      PROVE  \/ i \in 1..la /\ u[i] = a[i]
             \/ i = la + 1 /\ b = <<x>> /\ u[i] = x
  <2>1. CASE i \in 1..la /\ u[i] = a[i]
        BY <2>1
  <2>2. CASE i - la \in 1..Len(b) /\ u[i] = b[i - la]
    <3>1. Len(b) = 1 /\ b = <<x>> /\ b[1] = x
      <4>1. b # << >>
            BY <1>2, <2>2
      <4> QED BY <1>2, <4>1
    <3>2. i - la = 1 /\ i = la + 1
          BY <1>3, <1>4, <2>2, <3>1
    <3> QED BY <2>2, <3>1, <3>2
  <2> QED BY <1>3, <2>1, <2>2
<1> QED BY <1>3, <1>5 DEF u, la

(* What is left of the other candidates and pushes when a store moved only *)
(* one key of them.                                                        *)
LEMMA OthersKept ==
    ASSUME NEW w, NEW s \in Sources, NEW since, NEW W, NEW J, NEW key \in SyncKeys,
           Within(W, J, s, key)
    PROVE  /\ \A c : (/\ CandOK(w, since, s, W, c) /\ c.row.link # key
                      /\ \A k \in Keys : Under(J, s, k, c.row.handle) /\ c.fresh
                                           => Under(W, s, k, c.row.handle))
                       => CandOK(w, since, s, J, c)
           /\ \A x : PushOK(w, s, W, x) /\ x.row.link # key => PushOK(w, s, J, x)
<1>1. \A k \in Keys : k # key => J[k] = W[k] /\ View(J, s, k) = View(W, s, k)
      BY DEF Within, View, Loaded
<1>2. ASSUME NEW c, CandOK(w, since, s, W, c), c.row.link # key,
             \A k \in Keys : Under(J, s, k, c.row.handle) /\ c.fresh
                               => Under(W, s, k, c.row.handle)
      PROVE  CandOK(w, since, s, J, c)
  <2>1. c.row.link \in Keys
        BY <1>2, Based, HandleKinds DEF CandOK, RowOK
  <2>2. J[c.row.link] = W[c.row.link] /\ View(J, s, c.row.link) = View(W, s, c.row.link)
        BY <1>1, <1>2, <2>1
  <2> QED BY <1>2, <2>2 DEF CandOK
<1>3. ASSUME NEW x, PushOK(w, s, W, x), x.row.link # key
      PROVE  PushOK(w, s, J, x)
  <2>1. x.row.link \in Keys
        BY <1>3, Based, HandleKinds DEF PushOK, RowOK
  <2>2. J[x.row.link] = W[x.row.link] /\ View(J, s, x.row.link) = View(W, s, x.row.link)
        BY <1>1, <1>3, <2>1
  <2> QED BY <1>3, <2>2 DEF PushOK
<1> QED BY <1>2, <1>3

(* Merging one candidate.                                                  *)
LEMMA MergeKeeps ==
    ASSUME NEW w, NEW ch, NEW r, NEW F \in Batches, NEW c \in r.todo, ServersOK(w),
           Sound(F.items, w, ch), RunOK(w, F.items, ch, r)
    PROVE  LET ws  == WritesOf(c, Merge(c))
               J   == FoldFrom(F, r.source, ws).items
               q   == [r EXCEPT !.todo = @ \ {c}, !.writes = @ \o ws,
                                !.pushes = @ \o PushesOf(Merge(c))]
           IN  /\ ws \in Seq(Writes) /\ FoldFrom(F, r.source, ws) \in Batches
               /\ Sound(J, w, ch) /\ RunOK(w, J, ch, q)
               /\ \A I : Backed(I, r) => /\ Rooted(I, q)
                                         /\ Mild(Merge(c).writes) => Backed(I, q)
               /\ Merge(c).writes \in Seq(Writes)
<1> DEFINE s == r.source
           since == r.since
           W == F.items
           p == c.row
           out == Merge(c)
           ws == WritesOf(c, out)
           G == FoldFrom(F, s, ws)
           J == G.items
           q == [r EXCEPT !.todo = @ \ {c}, !.writes = @ \o ws, !.pushes = @ \o PushesOf(out)]
           x == [change |-> out.change, row |-> out.row]
<1>1. /\ s \in Sources /\ since \subseteq ch[s] /\ r.writes \in Seq(Writes)
      /\ CandOK(w, since, s, W, c) /\ StoreOK(W, w)
      /\ \A t \in Sources : Tracked(W, w, t, ch[t])
      /\ Tracked(W, w, s, since \cup Numbered(r.todo))
      BY DEF RunOK, Sound
<1>2. /\ ws \in Seq(Writes) /\ (Mutable => Wrote(ws, w.written))
      /\ Effect(w, s, since, W, J, p, out.row)
      /\ Owes(w, s, J, out) /\ Standing(c, out)
  <2>1. CASE c.seen = "listed"
        BY <1>1, <2>1, ListedEffect
  <2>2. CASE c.seen # "listed"
        BY <1>1, <2>2, UnlistedEffect
  <2> QED BY <2>1, <2>2
<1>3. q.source = s /\ q.since = since /\ q.todo = r.todo \ {c} /\ q.writes = r.writes \o ws
      /\ q.pushes = r.pushes \o PushesOf(out)
      /\ q = [source |-> q.source, since |-> q.since, writes |-> q.writes, pushes |-> q.pushes,
              answered |-> q.answered, todo |-> q.todo]
  <2> DEFINE a == r.todo \ {c}
             b == r.writes \o ws
             d == r.pushes \o PushesOf(out)
  <2>1. r = [source |-> r.source, since |-> r.since, writes |-> r.writes, pushes |-> r.pushes,
             answered |-> r.answered, todo |-> r.todo]
        BY DEF RunOK
  <2>2. q = [r EXCEPT !.todo = a, !.writes = b, !.pushes = d]
        OBVIOUS
  <2> HIDE DEF a, b, d, q
  <2>3. q = [source |-> r.source, since |-> r.since, writes |-> b, pushes |-> d,
             answered |-> r.answered, todo |-> a]
        BY <2>1, <2>2
  <2> QED BY <2>3 DEF a, b, d
<1>4. PushesOf(out) = << >> \/ (PushesOf(out) = <<x>> /\ out.change # NoChange)
      BY DEF PushesOf
<1>5. x.change = out.change /\ x.row = out.row
      OBVIOUS
<1>6. W \in Stores
      BY DEF Batches
<1>7. G \in Batches /\ (Mutable => Bodied(J, w.written))
  <2>1. G \in Batches
        BY <1>1, <1>2, <1>6, FoldType
  <2>2. ASSUME Mutable PROVE Bodied(J, w.written)
    <3>1. NoBody \in w.written
          BY DEF ServersOK
    <3>2. Bodied(W, w.written)
          BY <1>1, <2>2 DEF StoreOK
    <3> QED BY <1>1, <1>2, <2>2, <3>1, <3>2, FoldHas
  <2> QED BY <2>1, <2>2
<1> HIDE DEF out, ws, G, q, x
<1>8. /\ RowOK(w, s, p) /\ p.link \in SyncKeys /\ p.link \in Keys /\ p.handle \in Handles
      /\ \A k \in Keys : Under(W, s, k, p.handle) => k = p.link
  <2>1. RowOK(w, s, p)
        BY <1>1 DEF CandOK
  <2>2. p.link \in SyncKeys /\ p.link \in Keys /\ p.handle \in Handles
        BY <2>1, Based, HandleKinds DEF RowOK
  <2>3. \A k \in Keys : Under(W, s, k, p.handle) => k = p.link
        BY <1>1, CandBinds
  <2> QED BY <2>1, <2>2, <2>3
<1>9. /\ StoreOK(J, w) /\ Within(W, J, s, p.link)
      /\ \A t \in Sources : \A ex : Tracked(W, w, t, ex) /\ (t = s => since \subseteq ex)
                                  => Tracked(J, w, t, ex)
      /\ \A ex : (/\ p.base # NoBase /\ since \subseteq ex
                  /\ Tracked(W, w, s, ex \cup {p.handle[2]})) => Tracked(J, w, s, ex)
      /\ \A k \in Keys : \A h : Under(J, s, k, h) /\ IsReal(h) /\ h # p.handle
                              => Under(W, s, k, h)
      BY <1>1, <1>2, <1>7, <1>8, EffectKeeps
<1>10. Sound(J, w, ch)
  <2>1. ASSUME NEW t \in Sources PROVE Tracked(J, w, t, ch[t])
        BY <1>1, <1>9
  <2> QED BY <1>9, <2>1 DEF Sound
<1>11. ASSUME NEW d \in q.todo PROVE CandOK(w, since, s, J, d)
  <2>1. d \in r.todo /\ d # c
        BY <1>3
  <2>2. CandOK(w, since, s, W, d) /\ d.row.link # p.link /\ d.row.handle # p.handle
        BY <2>1 DEF RunOK
  <2>3. d.fresh => IsReal(d.row.handle)
    <3>1. d.fresh => d.row.base # NoBase
          BY <2>2 DEF CandOK
    <3> QED BY <2>2, <3>1 DEF CandOK, RowOK, Grounded
  <2>4. \A k \in Keys : Under(J, s, k, d.row.handle) /\ d.fresh => Under(W, s, k, d.row.handle)
        BY <1>9, <2>2, <2>3
  <2> QED BY <1>1, <1>8, <1>9, <2>2, <2>4, OthersKept
<1>12. PICK T : r.pushes \in Seq(T)
      BY DEF RunOK
<1>13. /\ q.pushes \in Seq(T \cup {x})
       /\ \A i \in 1..Len(q.pushes) :
            \/ i \in 1..Len(r.pushes) /\ q.pushes[i] = r.pushes[i]
            \/ i = Len(r.pushes) + 1 /\ out.change # NoChange /\ q.pushes[i] = x
  <2> DEFINE a == r.pushes
             b == PushesOf(out)
  <2>1. a \in Seq(T) /\ (b = << >> \/ b = <<x>>) /\ q.pushes = a \o b
        /\ (b = <<x>> => out.change # NoChange)
    <3>1. <<x>> # << >>
          OBVIOUS
    <3> QED BY <1>3, <1>4, <1>12, <3>1
  <2> HIDE DEF a, b
  <2>2. /\ a \o b \in Seq(T \cup {x})
        /\ \A i \in 1..Len(a \o b) : \/ i \in 1..Len(a) /\ (a \o b)[i] = a[i]
                                     \/ i = Len(a) + 1 /\ b = <<x>> /\ (a \o b)[i] = x
        BY <2>1, AppendOne
  <2> QED BY <2>1, <2>2 DEF a
<1>14. out.row.link = p.link
      BY <1>2 DEF Effect
<1>15. ASSUME NEW i \in 1..Len(q.pushes)
       PROVE  /\ PushOK(w, s, J, q.pushes[i])
              /\ \A d \in q.todo : d.row.link # q.pushes[i].row.link
              /\ \A j \in 1..Len(q.pushes) : i # j => q.pushes[i].row.link # q.pushes[j].row.link
  <2>1. ASSUME NEW j \in 1..Len(r.pushes)
        PROVE  /\ PushOK(w, s, J, r.pushes[j]) /\ r.pushes[j].row.link # p.link
               /\ \A d \in q.todo : d.row.link # r.pushes[j].row.link
    <3>1. PushOK(w, s, W, r.pushes[j]) /\ \A d \in r.todo : d.row.link # r.pushes[j].row.link
          BY DEF RunOK
    <3>2. r.pushes[j].row.link # p.link /\ \A d \in q.todo : d.row.link # r.pushes[j].row.link
          BY <1>3, <3>1
    <3>3. \A y : PushOK(w, s, W, y) /\ y.row.link # p.link => PushOK(w, s, J, y)
          BY <1>1, <1>8, <1>9, OthersKept
    <3> QED BY <3>1, <3>2, <3>3
  <2>2. \A d \in q.todo : d.row.link # p.link
        BY <1>3 DEF RunOK
  <2>3. out.change # NoChange => PushOK(w, s, J, x)
        BY <1>2 DEF Owes, x
  <2>4. \A j, k \in 1..Len(r.pushes) : j # k => r.pushes[j].row.link # r.pushes[k].row.link
        BY DEF RunOK
  <2> QED BY <1>5, <1>13, <1>14, <2>1, <2>2, <2>3, <2>4
<1>16. Tracked(J, w, s, since \cup Numbered(q.todo))
  <2> DEFINE ex == since \cup Numbered(q.todo)
             n == p.handle[2]
  <2>1. CASE p.base # NoBase
    <3>1. since \cup Numbered(r.todo) \subseteq ex \cup {n}
          BY <1>3 DEF Numbered
    <3>2. Tracked(W, w, s, ex \cup {n})
          BY <1>1, <3>1 DEF Tracked
    <3> QED BY <1>9, <2>1, <3>2
  <2>2. CASE p.base = NoBase
    <3>1. since \cup Numbered(r.todo) \subseteq ex
          BY <1>3, <2>2 DEF Numbered
    <3>2. Tracked(W, w, s, ex)
          BY <1>1, <3>1 DEF Tracked
    <3> QED BY <1>1, <1>9, <3>2
  <2> QED BY <2>1, <2>2
<1>17. RunOK(w, J, ch, q)
  <2>1. q.writes \in Seq(Writes)
        BY <1>1, <1>2, <1>3, Concat
  <2>2. \A d, e \in q.todo : d # e => d.row.link # e.row.link /\ d.row.handle # e.row.handle
        BY <1>3 DEF RunOK
  <2> QED BY <1>1, <1>3, <1>11, <1>13, <1>15, <1>16, <2>1, <2>2 DEF RunOK
<1>18. ASSUME NEW I, Backed(I, r)
       PROVE  Rooted(I, q) /\ (Mild(out.writes) => Backed(I, q))
  <2>1. \A d \in q.todo : CandBacked(s, I, d)
        BY <1>3, <1>18 DEF Backed
  <2>2. \A i \in 1..Len(r.pushes) : PushBacked(s, I, r.pushes[i])
        BY <1>18 DEF Backed
  <2>3. CandBacked(s, I, c)
        BY <1>18 DEF Backed
  <2>4. out.change.kind = "Add" => I[p.link] # NoItem
    <3>1. out.change.kind = "Add" => ~c.fresh
          BY <1>2 DEF Standing
    <3> QED BY <2>3, <3>1 DEF CandBacked
  <2>5. Mild(out.writes) => PushBacked(s, I, x)
    <3> SUFFICES ASSUME Mild(out.writes), Mutable, out.change.kind = "Update"
                 PROVE  LET i == View(I, s, out.row.link)
                        IN  /\ i # NoBinding /\ i.handle = out.row.handle /\ i.base # NoBase
                            /\ i.base.object = out.row.base.object
        BY <1>5, <1>14, <2>4 DEF PushBacked
    <3>1. /\ ~c.fresh /\ p.base # NoBase /\ p.base.revision # NoRev
          /\ out.row.handle = p.handle /\ out.row.link = p.link
          /\ out.row.base.object = p.base.object
          BY <1>2 DEF Standing
    <3>2. Agree(View(I, s, p.link), p)
          BY <2>3, <3>1 DEF CandBacked
    <3> QED BY <3>1, <3>2 DEF Agree, Matches
  <2>6. \A i \in 1..Len(q.pushes) :
          /\ q.pushes[i].change.kind = "Add" => I[q.pushes[i].row.link] # NoItem
          /\ Mild(out.writes) => PushBacked(s, I, q.pushes[i])
        BY <1>5, <1>13, <1>14, <2>2, <2>4, <2>5 DEF PushBacked
  <2> QED BY <1>3, <2>1, <2>6 DEF Rooted, Backed, CandBacked
<1>19. out.writes \in Seq(Writes)
      BY <1>2 DEF Standing
<1> QED BY <1>2, <1>7, <1>10, <1>17, <1>18, <1>19 DEF q, J, G, ws, out

(* Saving what a run's writes made of the store.                           *)
LEMMA CommitKeeps ==
    ASSUME NEW w, NEW ch, NEW r, NEW I \in Stores, NEW W, ServersOK(w), Sound(W, w, ch),
           RunOK(w, W, ch, r), Rooted(I, r), Mutable => Bodied(I, w.written)
    PROVE  LET J == Save(I, W) IN Sound(J, w, ch) /\ RunOK(w, J, ch, r) /\ Backed(J, r)
<1> DEFINE J == Save(I, W)
           s == r.source
<1>1. StoreOK(W, w) /\ W \in Stores /\ s \in Sources
      BY DEF Sound, StoreOK, RunOK
<1>2. Saved(W, J) /\ \A k \in Keys : I[k] # NoItem /\ W[k] # NoItem => J[k] # NoItem
      BY <1>1, SaveEffect
<1>3. Mutable => Bodied(J, w.written)
      BY <1>1, SaveHas DEF StoreOK
<1> HIDE DEF J
<1>4. /\ StoreOK(J, w)
      /\ \A t \in Sources : \A except : Tracked(W, w, t, except) => Tracked(J, w, t, except)
      BY <1>1, <1>2, <1>3, StoreSaved
<1>5. Sound(J, w, ch)
      BY <1>4 DEF Sound
<1>6. ASSUME NEW k \in Keys
      PROVE  /\ View(J, s, k) = NoBinding <=> View(W, s, k) = NoBinding
             /\ View(W, s, k) # NoBinding => Matches(View(J, s, k), View(W, s, k))
             /\ \A p : Agree(View(W, s, k), p) => Agree(View(J, s, k), p)
             /\ \A h : Under(J, s, k, h) => Under(W, s, k, h)
  <2>1. /\ View(J, s, k) = NoBinding <=> View(W, s, k) = NoBinding
        /\ View(W, s, k) # NoBinding => Matches(View(J, s, k), View(W, s, k))
        BY <1>1, <1>2 DEF Saved
  <2> DEFINE a == View(J, s, k)
             b == View(W, s, k)
  <2>2. a = NoBinding <=> b = NoBinding
        BY <2>1
  <2>3. b # NoBinding => Matches(a, b)
        BY <2>1
  <2>4. \A h : Under(J, s, k, h) => Under(W, s, k, h)
        BY <2>2, <2>3 DEF Under, Matches
  <2> HIDE DEF a, b
  <2>5. \A p : Agree(b, p) => Agree(a, p)
    <3>1. ASSUME NEW p, Agree(b, p) PROVE Agree(a, p)
      <4>1. CASE b = NoBinding
            BY <2>2, <3>1, <4>1 DEF Agree
      <4>2. CASE b # NoBinding
            BY <2>2, <2>3, <3>1, <4>2, MatchesTwice DEF Agree
      <4> QED BY <4>1, <4>2
    <3> QED BY <3>1
  <2> QED BY <2>1, <2>4, <2>5 DEF a, b
<1>7. ASSUME NEW c \in r.todo
      PROVE  CandOK(w, r.since, s, J, c) /\ CandBacked(s, J, c)
  <2>1. CandOK(w, r.since, s, W, c) /\ (~c.fresh => I[c.row.link] # NoItem)
        BY DEF RunOK, Rooted
  <2>2. c.row.link \in Keys
        BY <2>1, Based, HandleKinds DEF CandOK, RowOK
  <2>3. ~c.fresh => /\ c.first = << >> /\ J[c.row.link] # NoItem
                    /\ Agree(View(J, s, c.row.link), c.row)
        BY <1>2, <1>6, <2>1, <2>2 DEF CandOK
  <2>4. c.fresh => \A k \in Keys : ~Under(J, s, k, c.row.handle)
        BY <1>6, <2>1 DEF CandOK
  <2> QED BY <2>1, <2>3, <2>4 DEF CandOK, CandBacked
<1>8. ASSUME NEW i \in 1..Len(r.pushes)
      PROVE  PushOK(w, s, J, r.pushes[i]) /\ PushBacked(s, J, r.pushes[i])
  <2> DEFINE x == r.pushes[i]
             p == x.row
             a == View(J, s, p.link)
             b == View(W, s, p.link)
  <2>1. PushOK(w, s, W, x) /\ (x.change.kind = "Add" => I[p.link] # NoItem)
        BY DEF RunOK, Rooted
  <2>2. p.link \in Keys
        BY <2>1, Based, HandleKinds DEF PushOK, RowOK
  <2>3. /\ a = NoBinding <=> b = NoBinding
        /\ b # NoBinding => Matches(a, b)
        BY <1>6, <2>2
  <2> HIDE DEF a, b, x
  <2>4. x.change.kind = "Add" => /\ J[p.link] # NoItem
                                 /\ a # NoBinding => a.base = NoBase
        BY <1>2, <2>1, <2>2, <2>3 DEF PushOK, Matches, b
  <2>5. x.change.kind # "Add" => a # NoBinding /\ Matches(a, p)
        BY <2>1, <2>3, MatchesTwice DEF PushOK, b
  <2>6. PushOK(w, s, J, x)
        BY <2>1, <2>4, <2>5 DEF PushOK, a
  <2>7. (Mutable /\ x.change.kind = "Update") =>
             /\ a # NoBinding /\ a.handle = p.handle /\ a.base # NoBase
             /\ a.base.object = p.base.object
        BY <2>1, <2>5 DEF PushOK, Matches
  <2> QED BY <2>4, <2>6, <2>7 DEF PushBacked, a, x
<1>9. Tracked(J, w, s, r.since \cup Numbered(r.todo))
      BY <1>1, <1>4 DEF RunOK
<1>10. RunOK(w, J, ch, r)
      BY <1>7, <1>8, <1>9 DEF RunOK
<1>11. Backed(J, r)
      BY <1>7, <1>8 DEF Backed
<1> QED BY <1>5, <1>10, <1>11 DEF J

(* What a run has answered and staged so far is not what makes it sound.   *)
LEMMA RunRestaged ==
    ASSUME NEW w, NEW W, NEW ch, NEW r, NEW ws \in Seq(Writes), RunOK(w, W, ch, r)
    PROVE  /\ RunOK(w, W, ch, [r EXCEPT !.writes = ws])
           /\ \A a : RunOK(w, W, ch, [r EXCEPT !.writes = ws, !.answered = a])
           /\ \A I : Backed(I, r) => /\ Backed(I, [r EXCEPT !.writes = ws])
                                     /\ \A a : Backed(I, [r EXCEPT !.writes = ws, !.answered = a])
<1>1. r = [source |-> r.source, since |-> r.since, writes |-> r.writes, pushes |-> r.pushes,
           answered |-> r.answered, todo |-> r.todo]
      BY DEF RunOK
<1>2. ASSUME NEW q, NEW b, q = [source |-> r.source, since |-> r.since, writes |-> ws,
                                pushes |-> r.pushes, answered |-> b, todo |-> r.todo]
      PROVE  RunOK(w, W, ch, q) /\ \A I : Backed(I, r) => Backed(I, q)
  <2>1. /\ q.source = r.source /\ q.since = r.since /\ q.writes = ws /\ q.pushes = r.pushes
        /\ q.answered = b /\ q.todo = r.todo
        BY <1>2
  <2>2. q = [source |-> q.source, since |-> q.since, writes |-> q.writes, pushes |-> q.pushes,
             answered |-> q.answered, todo |-> q.todo]
        BY <1>2, <2>1
  <2>3. RunOK(w, W, ch, q)
        BY <2>1, <2>2 DEF RunOK
  <2> QED BY <2>1, <2>3 DEF Backed
<1> DEFINE q == [r EXCEPT !.writes = ws]
<1>3. q = [source |-> r.source, since |-> r.since, writes |-> ws,
           pushes |-> r.pushes, answered |-> r.answered, todo |-> r.todo]
      BY <1>1
<1>4. ASSUME NEW a
      PROVE  [r EXCEPT !.writes = ws, !.answered = a]
               = [source |-> r.source, since |-> r.since, writes |-> ws,
                  pushes |-> r.pushes, answered |-> a, todo |-> r.todo]
  <2> DEFINE z == [r EXCEPT !.writes = ws, !.answered = a]
  <2>1. z = [r EXCEPT !.writes = ws, !.answered = a]
        OBVIOUS
  <2> HIDE DEF z
  <2>2. z = [source |-> r.source, since |-> r.since, writes |-> ws,
             pushes |-> r.pushes, answered |-> a, todo |-> r.todo]
        BY <1>1, <2>1
  <2> QED BY <2>2 DEF z
<1> HIDE DEF q
<1>5. RunOK(w, W, ch, q) /\ \A I : Backed(I, r) => Backed(I, q)
      BY <1>2, <1>3
<1>6. ASSUME NEW a
      PROVE  /\ RunOK(w, W, ch, [r EXCEPT !.writes = ws, !.answered = a])
             /\ \A I : Backed(I, r) => Backed(I, [r EXCEPT !.writes = ws, !.answered = a])
  <2> DEFINE z == [r EXCEPT !.writes = ws, !.answered = a]
  <2>1. z = [source |-> r.source, since |-> r.since, writes |-> ws,
             pushes |-> r.pushes, answered |-> a, todo |-> r.todo]
        BY <1>4
  <2> HIDE DEF z
  <2>2. RunOK(w, W, ch, z) /\ \A I : Backed(I, r) => Backed(I, z)
        BY <1>2, <2>1
  <2> QED BY <2>2 DEF z
<1> QED BY <1>5, <1>6 DEF q

(* Fewer bodies are owed, or more are written, of the same members.        *)
LEMMA SeenGrows ==
    ASSUME NEW members, NEW last \in Nat, NEW now \in Nat, NEW debt, NEW due, last <= now,
           Mutable => (due \cap (0..last)) \subseteq debt, NoBody \notin due,
           ServersOK(Seen(members, last, debt))
    PROVE  LET w == Seen(members, last, debt)
               v == Seen(members, now, due)
           IN  ServersOK(v) /\ Evolves(w, v) /\ \A s, ns : Moved(w, v, s, ns)
<1> DEFINE w == Seen(members, last, debt)
           v == Seen(members, now, due)
<1>1. w.srv = members /\ v.srv = members
      BY DEF Seen
<1>2. /\ w.given = (0..last) \ debt /\ w.written = 0..last
      /\ v.given = (0..now) \ due /\ v.written = 0..now
      BY DEF Seen
<1>3. 0..last \subseteq 0..now
      OBVIOUS
<1>4. Mutable => w.given \subseteq v.given
      BY <1>2, <1>3
<1>5. NoBody \in v.given /\ v.given \subseteq v.written /\ w.written \subseteq v.written
      BY <1>2, <1>3 DEF NoBody
<1> HIDE DEF w, v
<1>6. /\ members \in [Numbers -> Members \cup {NoMember}]
      /\ \A n \in Numbers : members[n] # NoMember =>
           IF Mutable THEN members[n].revision # NoRev /\ members[n].body \in w.given \ {NoBody}
           ELSE members[n].revision = NoRev
      /\ \A m, n \in Numbers : m < n /\ members[m] = NoMember => members[n] = NoMember
      BY <1>1 DEF ServersOK, w
<1>7. ServersOK(v)
      BY <1>1, <1>4, <1>5, <1>6 DEF ServersOK
<1>8. \A n \in Numbers : members[n] # NoMember => members[n].revision \in Nat
      BY <1>6 DEF Members
<1>9. Evolves(w, v)
      BY <1>1, <1>4, <1>5, <1>7, <1>8 DEF Evolves, w
<1>10. \A s, ns : Moved(w, v, s, ns)
      BY <1>1 DEF Moved
<1> QED BY <1>7, <1>9, <1>10 DEF w, v

(* A run's writes reach the store.                                         *)
LEMMA Saving ==
    ASSUME Inv, NEW W, NEW r, Sound(W, World, changed), RunOK(World, W, changed, r),
           Rooted(items, r), items' = Save(items, W), owed' \subseteq owed,
           srv' = srv, body' = body
    PROVE  /\ ServersOK(World') /\ body' \in Nat /\ owed' \subseteq Nat
           /\ Mutable => owed' \subseteq 1..body'
           /\ Sound(items', World', changed)
           /\ RunOK(World', items', changed, r) /\ Backed(items', r)
<1> DEFINE w == World
           v == World'
           J == items'
<1>1. /\ ServersOK(w) /\ body \in Nat /\ owed \subseteq Nat
      /\ Mutable => owed \subseteq 1..body
      /\ Sound(items, w, changed)
      BY DEF Inv
<1>2. ServersOK(v) /\ Evolves(w, v) /\ \A s, ns : Moved(w, v, s, ns)
  <2>1. NoBody \notin owed'
    <3>1. NoBody \in w.given
          BY <1>1 DEF ServersOK
    <3> QED BY <3>1 DEF World, Seen
  <2>2. w = Seen(srv, body, owed) /\ v = Seen(srv, body, owed')
        BY DEF World
  <2> QED BY <1>1, <2>1, <2>2, SeenGrows
<1>3. items \in Stores /\ (Mutable => Bodied(items, w.written))
      BY <1>1 DEF Sound, StoreOK
<1>4. Sound(J, w, changed) /\ RunOK(w, J, changed, r) /\ Backed(J, r)
      BY <1>1, <1>3, CommitKeeps
<1> HIDE DEF w, v, J
<1>5. Sound(J, v, changed)
  <2>1. /\ StoreOK(J, v)
        /\ \A s \in Sources : \A a, b :
                Tracked(J, w, s, a) /\ a \subseteq b /\ Moved(w, v, s, b) => Tracked(J, v, s, b)
        BY <1>2, <1>4, StoreEvolves DEF Sound
  <2> QED BY <1>2, <1>4, <2>1 DEF Sound
<1>6. RunOK(v, J, changed, r)
  <2>1. RunOK(v, J, changed, [r EXCEPT !.since = r.since])
        BY <1>2, <1>4, RunEvolves DEF Sound, RunOK
  <2>2. [r EXCEPT !.since = r.since] = r
        BY <1>4 DEF RunOK
  <2> QED BY <2>1, <2>2
<1> QED BY <1>1, <1>2, <1>4, <1>5, <1>6 DEF v, J

-----------------------------------------------------------------------------
(* The steps of a run.                                                     *)

(* A run is one.                                                           *)
LEMMA RunIs ==
    ASSUME NEW w, NEW W, NEW ch, NEW r, RunOK(w, W, ch, r) PROVE r # NoRun
<1>1. r = [source |-> r.source, since |-> r.since, writes |-> r.writes, pushes |-> r.pushes,
           answered |-> r.answered, todo |-> r.todo]
      BY DEF RunOK
<1>2. DOMAIN r = {"source", "since", "writes", "pushes", "answered", "todo"}
      BY <1>1
<1>3. DOMAIN NoRun = {"source"}
      BY DEF NoRun
<1> QED BY <1>2, <1>3

(* A batch committed or refused keeps the invariant.                       *)
LEMMA CommitInv ==
    ASSUME Inv, ~Idle, NEW batch \in Seq(Writes), NEW r, NEW next,
           Commit(batch, next), r.source = run.source,
           Sound(Fold(items, run.source, batch).items, World, changed),
           RunOK(World, Fold(items, run.source, batch).items, changed, r),
           Rooted(items, r), srv' = srv, body' = body, changed' = changed,
           next = NoRun \/ next = [r EXCEPT !.writes = << >>]
             \/ next = [r EXCEPT !.writes = << >>, !.answered = 0]
    PROVE  Inv'
<1> DEFINE s == run.source
           W == Fold(items, s, batch).items
<1>1. CASE Refused(items, s, batch)
  <2>1. run' = NoRun /\ items' = items /\ owed' = owed
        BY <1>1 DEF Commit, store
  <2>2. Idle'
        BY <2>1 DEF Idle
  <2>3. World' = World
        BY <2>1 DEF World
  <2> QED BY <2>1, <2>2, <2>3 DEF Inv
<1>2. CASE ~Refused(items, s, batch)
  <2>1. items' = Save(items, W) /\ run' = next /\ owed' \subseteq owed
    <3>1. Write(items, kept, s, batch).items = Save(items, W)
          BY DEF Write, Written
    <3>2. /\ Stored(Write(items, kept, s, batch)) /\ run' = next
          /\ owed' = owed \ Forfeited(items')
          BY <1>2 DEF Commit
    <3> HIDE DEF W
    <3> QED BY <3>1, <3>2 DEF Stored
  <2> HIDE DEF W
  <2>2. /\ ServersOK(World') /\ body' \in Nat /\ owed' \subseteq Nat
        /\ Mutable => owed' \subseteq 1..body'
        /\ Sound(items', World', changed)
        /\ RunOK(World', items', changed, r) /\ Backed(items', r)
        BY <2>1, Saving DEF W
  <2>3. changed' \in [Sources -> SUBSET Numbers]
        BY DEF Inv
  <2>4. CASE next = NoRun
    <3>1. Idle'
          BY <2>1, <2>4 DEF Idle
    <3> QED BY <2>2, <2>3, <3>1 DEF Inv
  <2>5. CASE next = [r EXCEPT !.writes = << >>] \/ next = [r EXCEPT !.writes = << >>, !.answered = 0]
    <3>1. << >> \in Seq(Writes)
          OBVIOUS
    <3>2. RunOK(World', items', changed, next) /\ Backed(items', next)
      <4> DEFINE e == << >>
      <4>1. e \in Seq(Writes)
            BY <3>1
      <4> HIDE DEF e
      <4>2. \/ next = [r EXCEPT !.writes = e]
            \/ next = [r EXCEPT !.writes = e, !.answered = 0]
            BY <2>5 DEF e
      <4>3. /\ RunOK(World', items', changed, [r EXCEPT !.writes = e])
            /\ RunOK(World', items', changed, [r EXCEPT !.writes = e, !.answered = 0])
            /\ Backed(items', [r EXCEPT !.writes = e])
            /\ Backed(items', [r EXCEPT !.writes = e, !.answered = 0])
            BY <2>2, <4>1, RunRestaged
      <4> QED BY <4>2, <4>3
    <3>3. next.writes = << >> /\ next.source = s
          BY <2>2, <2>5 DEF RunOK
    <3>4. V' = items'
      <4>1. items' \in Stores /\ s \in Sources
            BY <2>2 DEF Sound, StoreOK, RunOK
      <4>2. V' = Fold(items', s, << >>).items
            BY <2>1, <3>3 DEF V
      <4> QED BY <4>1, <4>2, FoldType
    <3> QED BY <2>1, <2>2, <2>3, <3>2, <3>4 DEF Inv
  <2> QED BY <2>4, <2>5
<1> QED BY <1>1, <1>2

(* MergeStep keeps the invariant: merged writes make another sound store.  *)
LEMMA MergeStepInv == ASSUME Inv, MergeStep PROVE Inv'
<1>1. PICK c \in run.todo : Advanced(c, Merged(c))
      BY DEF MergeStep
<1>2. ~Idle /\ srv' = srv /\ changed' = changed /\ body' = body
      BY DEF MergeStep, servers
<1> DEFINE s == run.source
           F == Fold(items, s, run.writes)
           ws == WritesOf(c, Merge(c))
           q == [run EXCEPT !.todo = @ \ {c}, !.writes = @ \o ws,
                            !.pushes = @ \o PushesOf(Merge(c))]
           flush == \E i \in DOMAIN Merge(c).writes : Merge(c).writes[i].op = "Overrule"
<1>3. /\ Sound(V, World, changed) /\ RunOK(World, V, changed, run) /\ Backed(items, run)
      /\ ServersOK(World) /\ Sound(items, World, changed)
      BY <1>2 DEF Inv
<1>4. items \in Stores /\ s \in Sources /\ run.writes \in Seq(Writes)
      BY <1>3 DEF Sound, StoreOK, RunOK
<1>5. F \in Batches /\ F.items = V
      BY <1>4, FoldType DEF V
<1>6. Staged(q, flush)
  <2>1. Merged(c).writes = ws /\ Merged(c).pushes = PushesOf(Merge(c))
        /\ Merged(c).flush = flush
        BY DEF Merged, Step
  <2> QED BY <1>1, <2>1 DEF Advanced
<1> HIDE DEF F, ws, q, flush
<1>7. LET J == FoldFrom(F, s, ws).items
      IN  /\ ws \in Seq(Writes) /\ FoldFrom(F, s, ws) \in Batches
          /\ Sound(J, World, changed) /\ RunOK(World, J, changed, q)
          /\ \A I : Backed(I, run) => /\ Rooted(I, q)
                                      /\ Mild(Merge(c).writes) => Backed(I, q)
          /\ Merge(c).writes \in Seq(Writes)
      BY <1>3, <1>5, MergeKeeps DEF ws, q
<1>8. q.writes = run.writes \o ws /\ q.source = s
      BY <1>3 DEF q, RunOK
<1>9. q.writes \in Seq(Writes) /\ Fold(items, s, q.writes) = FoldFrom(F, s, ws)
  <2>1. run.writes \o ws \in Seq(Writes)
        BY <1>4, <1>7, Concat
  <2> QED BY <1>4, <1>7, <1>8, <2>1, FoldType DEF F
<1>10. /\ Sound(Fold(items, s, q.writes).items, World, changed)
       /\ RunOK(World, Fold(items, s, q.writes).items, changed, q)
       /\ Rooted(items, q) /\ (Mild(Merge(c).writes) => Backed(items, q))
      BY <1>3, <1>7, <1>9
<1>11. CASE Len(q.writes) >= WriteChunk \/ flush
  <2>1. Commit(q.writes, [q EXCEPT !.writes = << >>])
        BY <1>6, <1>11 DEF Staged
  <2> QED BY <1>2, <1>8, <1>9, <1>10, <2>1, CommitInv
<1>12. CASE ~(Len(q.writes) >= WriteChunk \/ flush)
  <2>1. run' = q /\ items' = items /\ owed' = owed
        BY <1>6, <1>12 DEF Staged, store
  <2>2. Mild(Merge(c).writes)
    <3>1. ~flush
          BY <1>12
    <3>2. DOMAIN Merge(c).writes = 1..Len(Merge(c).writes)
          BY <1>7
    <3> QED BY <3>1, <3>2 DEF flush, Mild
  <2>3. World' = World /\ V' = Fold(items, s, q.writes).items
        BY <1>2, <1>8, <2>1 DEF World, V
  <2> QED BY <1>2, <1>10, <2>1, <2>2, <2>3 DEF Inv
<1> QED BY <1>11, <1>12

-----------------------------------------------------------------------------
(* What a server takes.                                                    *)

(* A member a server may come to hold under number n.                      *)
Admits(members, given, n, member) ==
    /\ member \in Members /\ member # NoMember
    /\ IF Mutable THEN member.revision # NoRev /\ member.body \in given \ {NoBody}
       ELSE member.revision = NoRev
    /\ IF members[n] = NoMember THEN \A m \in Numbers : m < n => members[m] # NoMember
       ELSE /\ member.source = members[n].source /\ member.link = members[n].link
            /\ members[n].revision <= member.revision
            /\ (Mutable /\ member.revision = members[n].revision) =>
                 member.body = members[n].body
            /\ member.live => members[n].live

(* One member touched, as the bodies written and owed move.                *)
LEMMA SeenTouched ==
    ASSUME NEW members, NEW last \in Nat, NEW now \in Nat, NEW debt, NEW due, last <= now,
           Mutable => (due \cap (0..last)) \subseteq debt, NoBody \notin due,
           ServersOK(Seen(members, last, debt)), NEW n \in Numbers, NEW member,
           Admits(members, (0..now) \ due, n, member)
    PROVE  LET w == Seen(members, last, debt)
               v == Seen([members EXCEPT ![n] = member], now, due)
           IN  /\ ServersOK(v) /\ Evolves(w, v)
               /\ \A s, ns : (n \in ns \/ s # member.source) => Moved(w, v, s, ns)
<1> DEFINE w == Seen(members, last, debt)
           v == Seen([members EXCEPT ![n] = member], now, due)
           given == (0..now) \ due
<1>1. /\ members \in [Numbers -> Members \cup {NoMember}]
      /\ \A m \in Numbers : members[m] # NoMember =>
           IF Mutable THEN members[m].revision # NoRev /\ members[m].body \in w.given \ {NoBody}
           ELSE members[m].revision = NoRev
      /\ \A m, k \in Numbers : m < k /\ members[m] = NoMember => members[k] = NoMember
      BY DEF ServersOK, Seen
<1>2. w.srv = members /\ v.srv = [members EXCEPT ![n] = member]
      BY DEF Seen
<1>3. /\ w.given = (0..last) \ debt /\ w.written = 0..last
      /\ v.given = given /\ v.written = 0..now
      BY DEF Seen
<1> HIDE DEF w, v
<1>4. 0..last \subseteq 0..now
      OBVIOUS
<1>5. Mutable => w.given \subseteq v.given
      BY <1>3, <1>4
<1>6. NoBody \in v.given /\ v.given \subseteq v.written /\ w.written \subseteq v.written
      BY <1>3, <1>4 DEF NoBody
<1> HIDE DEF given
<1>7. v.srv[n] = member /\ \A m \in Numbers : m # n => v.srv[m] = members[m]
      BY <1>1, <1>2
<1>8. v.srv \in [Numbers -> Members \cup {NoMember}]
      BY <1>1, <1>2 DEF Admits
<1>9. ASSUME NEW m \in Numbers, v.srv[m] # NoMember
      PROVE  IF Mutable THEN v.srv[m].revision # NoRev /\ v.srv[m].body \in v.given \ {NoBody}
             ELSE v.srv[m].revision = NoRev
      BY <1>1, <1>3, <1>5, <1>7, <1>9 DEF Admits, given
<1>10. ASSUME NEW m \in Numbers, NEW k \in Numbers, m < k, v.srv[m] = NoMember
       PROVE  v.srv[k] = NoMember
      BY <1>1, <1>7, <1>10 DEF Admits
<1>11. ServersOK(v)
      BY <1>6, <1>8, <1>9, <1>10 DEF ServersOK
<1>12. ASSUME NEW m \in Numbers, members[m] # NoMember
       PROVE  /\ v.srv[m] # NoMember
              /\ v.srv[m].source = members[m].source /\ v.srv[m].link = members[m].link
              /\ members[m].revision <= v.srv[m].revision
              /\ (Mutable /\ v.srv[m].revision = members[m].revision) =>
                   v.srv[m].body = members[m].body
              /\ v.srv[m].live => members[m].live
  <2>1. CASE m = n
        BY <1>7, <1>12, <2>1 DEF Admits
  <2>2. CASE m # n
    <3>1. v.srv[m] = members[m]
          BY <1>7, <2>2
    <3>2. members[m].revision \in Nat
          BY <1>1, <1>12 DEF Members
    <3> QED BY <1>12, <3>1, <3>2
  <2> QED BY <2>1, <2>2
<1>13. Evolves(w, v)
      BY <1>2, <1>5, <1>6, <1>11, <1>12 DEF Evolves, w
<1>14. ASSUME NEW s, NEW ns, n \in ns \/ s # member.source
       PROVE  Moved(w, v, s, ns)
      BY <1>2, <1>7, <1>14 DEF Moved, Admits
<1> QED BY <1>11, <1>13, <1>14 DEF w, v

(* A server's step keeps the store sound, and the run with it.             *)
LEMMA ServerKeeps ==
    ASSUME Inv, NEW n \in Numbers, NEW member, member.source \in Sources,
           Evolves(World, World'),
           \A s, ns : (n \in ns \/ s # member.source) => Moved(World, World', s, ns),
           Touch(n, member)
    PROVE  /\ ServersOK(World') /\ changed' \in [Sources -> SUBSET Numbers]
           /\ Sound(items, World', changed')
           /\ ~Idle => /\ Sound(V, World', changed')
                       /\ RunOK(World', V, changed', Past(run, n, member.source))
<1> DEFINE w == World
           v == World'
           s == member.source
<1>1. /\ ServersOK(v) /\ changed \in [Sources -> SUBSET Numbers]
      /\ Sound(items, w, changed)
      /\ ~Idle => Sound(V, w, changed) /\ RunOK(w, V, changed, run)
      BY DEF Inv, Evolves
<1>2. changed' = [changed EXCEPT ![s] = @ \cup {n}]
      BY DEF Touch
<1> HIDE DEF w, v
<1>3. /\ changed' \in [Sources -> SUBSET Numbers]
      /\ \A t \in Sources : changed[t] \subseteq changed'[t]
      /\ n \in changed'[s]
      BY <1>1, <1>2
<1>4. \A t \in Sources : Moved(w, v, t, changed'[t])
      BY <1>3 DEF w, v
<1>5. ASSUME NEW I, Sound(I, w, changed) PROVE Sound(I, v, changed')
  <2>1. /\ StoreOK(I, v)
        /\ \A t \in Sources : \A a, b :
                Tracked(I, w, t, a) /\ a \subseteq b /\ Moved(w, v, t, b) => Tracked(I, v, t, b)
        BY <1>5, StoreEvolves DEF Sound, w, v
  <2> QED BY <1>3, <1>4, <1>5, <2>1 DEF Sound
<1>6. ASSUME ~Idle PROVE RunOK(v, V, changed', Past(run, n, s))
  <2>1. RunOK(w, V, changed, run) /\ StoreOK(V, w) /\ run.source \in Sources
        /\ run.since \subseteq changed[run.source]
        BY <1>1, <1>6 DEF Sound, RunOK
  <2>2. CASE run.source = s
    <3> DEFINE since == run.since \cup {n}
    <3>1. run.since \subseteq since /\ since \subseteq changed'[run.source]
          BY <1>3, <2>1, <2>2
    <3>2. Moved(w, v, run.source, since)
          BY DEF w, v
    <3>3. Past(run, n, s) = [run EXCEPT !.since = since]
          BY <1>6, <2>2 DEF Past, Idle
    <3> HIDE DEF since
    <3> QED BY <2>1, <3>1, <3>2, <3>3, RunEvolves DEF w, v
  <2>3. CASE run.source # s
    <3>1. run.since \subseteq changed'[run.source]
          BY <1>3, <2>1
    <3>2. Moved(w, v, run.source, run.since)
          BY <2>3 DEF w, v
    <3>3. RunOK(v, V, changed', [run EXCEPT !.since = run.since])
          BY <2>1, <3>1, <3>2, RunEvolves DEF w, v
    <3>4. [run EXCEPT !.since = run.since] = run
          BY <2>1 DEF RunOK
    <3> QED BY <2>3, <3>3, <3>4 DEF Past
  <2> QED BY <2>2, <2>3
<1> QED BY <1>1, <1>3, <1>5, <1>6 DEF w, v

(* A member is not the absence of one.                                     *)
LEMMA MembersReal == \A m \in Members : m # NoMember
<1>1. ASSUME NEW m \in Members PROVE m # NoMember
  <2>1. DOMAIN m = {"live", "source", "link", "revision", "body", "flags"}
        BY DEF Members
  <2>2. DOMAIN NoMember = {"live"}
        BY DEF NoMember
  <2> QED BY <2>1, <2>2
<1> QED BY <1>1

(* The next number is the first no member has.                             *)
LEMMA NextNumber ==
    ASSUME ServersOK(World), NEW n \in Numbers, n = Cardinality(Used) + 1
    PROVE  srv[n] = NoMember /\ \A m \in Numbers : m < n => srv[m] # NoMember
<1>1. \A m, k \in Numbers : m < k /\ srv[m] = NoMember => srv[k] = NoMember
      BY DEF ServersOK, World, Seen
<1>2. n \in Nat /\ Numbers = 1..MaxHandle /\ MaxHandle \in Nat
      BY BoundsAssumption DEF Numbers
<1>3. /\ IsFiniteSet(Used) /\ Cardinality(Used) \in Nat
      /\ \A a, b \in Nat : /\ IsFiniteSet(a..b)
                           /\ a <= b => Cardinality(a..b) = b - a + 1
                           /\ a > b => Cardinality(a..b) = 0
  <2>1. ASSUME NEW a \in Nat, NEW b \in Nat
        PROVE  /\ IsFiniteSet(a..b)
               /\ a <= b => Cardinality(a..b) = b - a + 1
               /\ a > b => Cardinality(a..b) = 0
    <3>1. a \in Int /\ b \in Int
          OBVIOUS
    <3>2. IsFiniteSet(a..b) /\ Cardinality(a..b) = IF a > b THEN 0 ELSE b - a + 1
          BY <3>1, FS_Interval
    <3> QED BY <3>2
  <2>2. IsFiniteSet(Numbers)
        BY <1>2, <2>1
  <2>3. IsFiniteSet(Used)
        BY <2>2, FS_Subset DEF Used
  <2> QED BY <2>1, <2>3, FS_CardinalityType
<1>4. srv[n] = NoMember
  <2> SUFFICES ASSUME srv[n] # NoMember PROVE FALSE
      OBVIOUS
  <2>1. ASSUME NEW m \in 1..n PROVE m \in Used
    <3>1. m \in Numbers /\ (m = n \/ m < n)
          BY <1>2
    <3> QED BY <1>1, <3>1 DEF Used
  <2>2. Cardinality(1..n) <= Cardinality(Used)
        BY <1>3, <2>1, FS_Subset
  <2>3. Cardinality(1..n) = n
    <3>1. 1 <= n
          BY <1>2
    <3> QED BY <1>2, <1>3, <3>1
  <2> QED BY <1>2, <1>3, <2>2, <2>3
<1>5. ASSUME NEW m \in Numbers, m < n, srv[m] = NoMember PROVE FALSE
  <2>1. m \in Nat /\ m >= 1 /\ m - 1 \in Nat
        BY <1>2
  <2>2. Used \subseteq 1..(m - 1)
        BY <1>1, <1>2, <1>5, <2>1 DEF Used
  <2>3. Cardinality(Used) <= Cardinality(1..(m - 1))
        BY <1>3, <2>1, <2>2, FS_Subset
  <2>4. Cardinality(1..(m - 1)) = m - 1
    <3>1. CASE m = 1
      <4>1. 1 > m - 1
            BY <3>1
      <4> QED BY <1>3, <2>1, <3>1, <4>1
    <3>2. CASE m # 1
      <4>1. 1 <= m - 1
            BY <2>1, <3>2
      <4>2. Cardinality(1..(m - 1)) = (m - 1) - 1 + 1
            BY <1>3, <2>1, <4>1
      <4> QED BY <2>1, <4>2
    <3> QED BY <3>1, <3>2
  <2> QED BY <1>2, <1>3, <1>5, <2>1, <2>3, <2>4
<1> QED BY <1>4, <1>5

-----------------------------------------------------------------------------
(* The other clients.                                                      *)

(* What a client touches keeps the invariant.                              *)
LEMMA ClientTouches ==
    ASSUME Inv, NEW n \in Numbers, NEW member, Touch(n, member),
           Admits(srv, (0..body') \ owed', n, member),
           run' = Past(run, n, member.source), items' = items,
           body' \in Nat, body <= body', owed' \subseteq owed
    PROVE  Inv'
<1>1. member.source \in Sources
      BY DEF Admits, Members
<1>2. /\ body \in Nat /\ owed \subseteq Nat /\ NoBody \notin owed
      /\ Mutable => owed \subseteq 1..body
      /\ ServersOK(Seen(srv, body, owed)) /\ World = Seen(srv, body, owed)
  <2>1. ServersOK(World) /\ body \in Nat /\ owed \subseteq Nat
        /\ (Mutable => owed \subseteq 1..body)
        BY DEF Inv
  <2>2. NoBody \in World.given
        BY <2>1 DEF ServersOK
  <2> QED BY <2>1, <2>2 DEF World, Seen
<1>3. /\ Evolves(World, World')
      /\ \A s, ns : (n \in ns \/ s # member.source) => Moved(World, World', s, ns)
  <2>1. World' = Seen([srv EXCEPT ![n] = member], body', owed')
        BY DEF World, Touch
  <2> QED BY <1>2, <2>1, SeenTouched
<1>4. /\ ServersOK(World') /\ changed' \in [Sources -> SUBSET Numbers]
      /\ Sound(items, World', changed')
      /\ ~Idle => /\ Sound(V, World', changed')
                  /\ RunOK(World', V, changed', run')
      BY <1>1, <1>3, ServerKeeps
<1>5. owed' \subseteq Nat /\ (Mutable => owed' \subseteq 1..body')
  <2>1. 1..body \subseteq 1..body'
        BY <1>2
  <2> QED BY <1>2, <2>1
<1>6. ASSUME Idle PROVE Idle'
      BY <1>6 DEF Idle, Past
<1>7. ASSUME ~Idle
      PROVE  V' = V /\ Backed(items, run')
  <2>1. RunOK(World, V, changed, run) /\ Backed(items, run)
        BY <1>7 DEF Inv
  <2>2. /\ run'.source = run.source /\ run'.writes = run.writes /\ run'.todo = run.todo
        /\ run'.pushes = run.pushes
        BY <2>1 DEF RunOK, Past
  <2> QED BY <2>1, <2>2 DEF V, Backed
<1> QED BY <1>4, <1>5, <1>6, <1>7 DEF Inv

(* Another client's create, edit, flagging or delete keeps the invariant.  *)
LEMMA ClientInv == ASSUME Inv, Client PROVE Inv'
<1>1. /\ body \in Nat /\ owed \subseteq Nat /\ (Mutable => owed \subseteq 1..body)
      /\ ServersOK(World)
      BY DEF Inv
<1>2. /\ srv \in [Numbers -> Members \cup {NoMember}]
      /\ \A n \in Numbers : srv[n] # NoMember =>
           IF Mutable THEN /\ srv[n].revision # NoRev /\ srv[n].body \in (0..body) \ owed
                           /\ srv[n].body # NoBody
           ELSE srv[n].revision = NoRev
      BY <1>1 DEF ServersOK, World, Seen
<1>3. ASSUME NEW s \in Sources, NEW l \in Links, ClientCreates(s, l)
      PROVE  Inv'
  <2> DEFINE member == Member(s, l, NewRevision, NewBody(l), {})
  <2>1. PICK n \in Numbers : /\ n = Cardinality(Used) + 1
                             /\ Touch(n, member) /\ run' = Past(run, n, s)
        BY <1>3 DEF ClientCreates
  <2>2. /\ body' = IF Mutable THEN body + 1 ELSE body
        /\ owed' = owed \ {NewBody(l)} /\ items' = items
        BY <1>3 DEF ClientCreates, store
  <2>3. /\ member.live = TRUE /\ member.source = s /\ member.link = l
        /\ member.revision = NewRevision /\ member.body = NewBody(l)
        BY DEF Member
  <2>4. NewRevision \in Nat /\ NewBody(l) \in Nat /\ {} \in SUBSET Flags
    <3>1. l \in Nat
          BY LinksAssumption
    <3> QED BY <1>1, <3>1 DEF NewRevision, NewBody, NoRev
  <2>5. member \in Members
        BY <2>4 DEF Member, Members
  <2> HIDE DEF member
  <2>6. srv[n] = NoMember /\ \A m \in Numbers : m < n => srv[m] # NoMember
        BY <1>1, <2>1, NextNumber
  <2>7. IF Mutable THEN NewRevision # NoRev /\ NewBody(l) \in ((0..body') \ owed') \ {NoBody}
        ELSE NewRevision = NoRev
        BY <1>1, <2>2 DEF NewRevision, NewBody, NoRev, NoBody
  <2>8. Admits(srv, (0..body') \ owed', n, member)
        BY <2>3, <2>5, <2>6, <2>7, MembersReal DEF Admits
  <2>9. body' \in Nat /\ body <= body' /\ owed' \subseteq owed
        BY <1>1, <2>2
  <2> QED BY <2>1, <2>2, <2>3, <2>8, <2>9, ClientTouches
<1>4. ASSUME NEW n \in Numbers, ClientEdits(n) PROVE Inv'
  <2> DEFINE member == [srv[n] EXCEPT !.body = body + 1, !.revision = @ + 1]
  <2>1. /\ Mutable /\ srv[n].live /\ Touch(n, member) /\ run' = Past(run, n, srv[n].source)
        /\ body' = body + 1 /\ items' = items /\ owed' = owed
        BY <1>4 DEF ClientEdits, store
  <2>2. srv[n] \in Members /\ srv[n] # NoMember
        BY <1>2, <2>1 DEF NoMember
  <2>3. /\ member \in Members /\ member.source = srv[n].source /\ member.link = srv[n].link
        /\ member.revision = srv[n].revision + 1 /\ member.body = body + 1
        /\ member.live = srv[n].live /\ srv[n].revision \in Nat
    <3>1. srv[n].revision \in Nat /\ body + 1 \in Nat
          BY <1>1, <2>2 DEF Members
    <3> DEFINE b == body + 1
               rev == srv[n].revision + 1
               m == srv[n]
    <3>2. b \in Nat /\ rev \in Nat /\ m \in Members
          BY <2>2, <3>1
    <3>3. member = [m EXCEPT !.body = b, !.revision = rev]
          OBVIOUS
    <3> HIDE DEF b, rev, member, m
    <3>4. /\ member \in Members /\ member.source = m.source /\ member.link = m.link
          /\ member.revision = rev /\ member.body = b /\ member.live = m.live
          BY <3>2, <3>3 DEF Members
    <3> QED BY <3>1, <3>4 DEF b, rev, m
  <2> HIDE DEF member
  <2>4. body + 1 \in ((0..body') \ owed') \ {NoBody}
        BY <1>1, <2>1 DEF NoBody
  <2>5. /\ srv[n].revision <= srv[n].revision + 1 /\ srv[n].revision + 1 # srv[n].revision
        /\ srv[n].revision + 1 # NoRev
        BY <2>3 DEF NoRev
  <2>6. Admits(srv, (0..body') \ owed', n, member)
        BY <2>1, <2>2, <2>3, <2>4, <2>5, MembersReal DEF Admits
  <2>7. body' \in Nat /\ body <= body' /\ owed' \subseteq owed
        BY <1>1, <2>1
  <2> QED BY <2>1, <2>3, <2>6, <2>7, ClientTouches
<1>5. ASSUME NEW n \in Numbers, NEW member \in Members, srv[n].live, Touch(n, member),
             run' = Past(run, n, srv[n].source),
             body' = body, items' = items, owed' = owed,
             /\ member.source = srv[n].source /\ member.link = srv[n].link
             /\ member.revision = srv[n].revision /\ member.body = srv[n].body
      PROVE  Inv'
  <2>1. srv[n] \in Members /\ srv[n] # NoMember /\ srv[n].revision \in Nat
        BY <1>2, <1>5 DEF NoMember, Members
  <2>2. Admits(srv, (0..body') \ owed', n, member)
        BY <1>2, <1>5, <2>1, MembersReal DEF Admits
  <2>3. body' \in Nat /\ body <= body' /\ owed' \subseteq owed
        BY <1>1, <1>5
  <2> QED BY <1>5, <2>2, <2>3, ClientTouches
<1>6. ASSUME NEW n \in Numbers, NEW flags \in SUBSET Flags, ClientFlags(n, flags) PROVE Inv'
  <2> DEFINE member == [srv[n] EXCEPT !.flags = flags]
  <2>1. /\ srv[n].live /\ Touch(n, member) /\ run' = Past(run, n, srv[n].source)
        /\ body' = body /\ items' = items /\ owed' = owed
        BY <1>6 DEF ClientFlags, store
  <2>2. srv[n] \in Members
        BY <1>2, <2>1 DEF NoMember
  <2>3. /\ member \in Members /\ member.source = srv[n].source /\ member.link = srv[n].link
        /\ member.revision = srv[n].revision /\ member.body = srv[n].body
        BY <2>2 DEF Members
  <2> HIDE DEF member
  <2> QED BY <1>5, <2>1, <2>3
<1>7. ASSUME NEW n \in Numbers, ClientDeletes(n) PROVE Inv'
  <2> DEFINE member == [srv[n] EXCEPT !.live = FALSE]
  <2>1. /\ srv[n].live /\ Touch(n, member) /\ run' = Past(run, n, srv[n].source)
        /\ body' = body /\ items' = items /\ owed' = owed
        BY <1>7 DEF ClientDeletes, store
  <2>2. srv[n] \in Members
        BY <1>2, <2>1 DEF NoMember
  <2>3. /\ member \in Members /\ member.source = srv[n].source /\ member.link = srv[n].link
        /\ member.revision = srv[n].revision /\ member.body = srv[n].body
        BY <2>2 DEF Members
  <2> HIDE DEF member
  <2> QED BY <1>5, <2>1, <2>3
<1> QED BY <1>3, <1>4, <1>6, <1>7 DEF Client

-----------------------------------------------------------------------------
(* What a push leaves.                                                     *)

(* All but the first.                                                      *)
LEMMA TailOf ==
    ASSUME NEW T, NEW a \in Seq(T), a # << >>
    PROVE  /\ Tail(a) \in Seq(T) /\ 1 \in 1..Len(a) /\ Head(a) = a[1]
           /\ \A i \in 1..Len(Tail(a)) : i + 1 \in 1..Len(a) /\ i + 1 # 1 /\ Tail(a)[i] = a[i + 1]
<1>1. Len(a) \in Nat /\ Len(a) # 0 /\ Tail(a) \in Seq(T) /\ Len(Tail(a)) = Len(a) - 1
      /\ Head(a) = a[1]
      OBVIOUS
<1>2. \A i \in 1..Len(Tail(a)) : i + 1 \in 1..Len(a) /\ i + 1 # 1
      BY <1>1
<1>3. \A i \in 1..Len(Tail(a)) : Tail(a)[i] = a[i + 1]
      BY <1>1
<1>4. 1 \in 1..Len(a)
      BY <1>1
<1> QED BY <1>1, <1>2, <1>3, <1>4

(* The writes an answer stages may move the binding of its row.            *)
Settles(w, s, since, W, J, key) ==
    /\ StoreOK(J, w) /\ Within(W, J, s, key)
    /\ \A t \in Sources : \A ex : Tracked(W, w, t, ex) /\ (t = s => since \subseteq ex)
                                => Tracked(J, w, t, ex)

(* An answer settled into the batch.                                       *)
LEMMA SettleKeeps ==
    ASSUME NEW w, NEW ch, NEW r, NEW F \in Batches, NEW answer, ServersOK(w),
           Sound(F.items, w, ch), RunOK(w, F.items, ch, r), r.pushes # << >>, r.todo = {},
           SettlePush(Head(r.pushes), answer) \in Seq(Writes),
           Settles(w, r.source, r.since, F.items,
                   FoldFrom(F, r.source, SettlePush(Head(r.pushes), answer)).items,
                   Head(r.pushes).row.link)
    PROVE  LET ws == SettlePush(Head(r.pushes), answer)
               J  == FoldFrom(F, r.source, ws).items
               q  == Answered(r, answer)
           IN  /\ Sound(J, w, ch) /\ RunOK(w, J, ch, q)
               /\ q.source = r.source /\ q.writes = r.writes \o ws
               /\ \A I : Backed(I, r) => Backed(I, q)
<1> DEFINE s == r.source
           since == r.since
           W == F.items
           x == Head(r.pushes)
           key == x.row.link
           ws == SettlePush(x, answer)
           J == FoldFrom(F, s, ws).items
           q == Answered(r, answer)
           tail == Tail(r.pushes)
           now == r.answered + 1
           all == r.writes \o ws
<1>1. /\ s \in Sources /\ since \subseteq ch[s] /\ r.writes \in Seq(Writes)
      /\ StoreOK(W, w) /\ \A t \in Sources : Tracked(W, w, t, ch[t])
      /\ Tracked(W, w, s, since \cup Numbered(r.todo))
      BY DEF RunOK, Sound
<1>2. /\ StoreOK(J, w) /\ Within(W, J, s, key)
      /\ \A t \in Sources : \A ex : Tracked(W, w, t, ex) /\ (t = s => since \subseteq ex)
                                  => Tracked(J, w, t, ex)
      BY DEF Settles
<1>3. q = [r EXCEPT !.pushes = tail, !.answered = now, !.writes = all]
      BY DEF Answered
<1>4. all \in Seq(Writes)
      BY <1>1, Concat
<1>5. PICK T : r.pushes \in Seq(T)
      BY DEF RunOK
<1>6. /\ tail \in Seq(T) /\ 1 \in 1..Len(r.pushes) /\ x = r.pushes[1]
      /\ \A i \in 1..Len(tail) : i + 1 \in 1..Len(r.pushes) /\ i + 1 # 1
                                 /\ tail[i] = r.pushes[i + 1]
      BY <1>5, TailOf
<1> HIDE DEF J, ws, q, tail, now, all
<1>7. /\ q.source = s /\ q.since = since /\ q.writes = all /\ q.pushes = tail
      /\ q.answered = now /\ q.todo = r.todo
      /\ q = [source |-> q.source, since |-> q.since, writes |-> q.writes, pushes |-> q.pushes,
              answered |-> q.answered, todo |-> q.todo]
  <2>1. r = [source |-> r.source, since |-> r.since, writes |-> r.writes, pushes |-> r.pushes,
             answered |-> r.answered, todo |-> r.todo]
        BY DEF RunOK
  <2>2. q = [source |-> r.source, since |-> r.since, writes |-> all, pushes |-> tail,
             answered |-> now, todo |-> r.todo]
        BY <1>3, <2>1
  <2> QED BY <2>2
<1>8. Sound(J, w, ch)
  <2>1. ASSUME NEW t \in Sources PROVE Tracked(J, w, t, ch[t])
        BY <1>1, <1>2
  <2> QED BY <1>2, <2>1 DEF Sound
<1>9. ASSUME NEW i \in 1..Len(tail)
      PROVE  /\ PushOK(w, s, J, tail[i])
             /\ \A j \in 1..Len(tail) : i # j => tail[i].row.link # tail[j].row.link
  <2>1. /\ PushOK(w, s, W, r.pushes[i + 1]) /\ r.pushes[i + 1].row.link # key
        /\ \A j \in 1..Len(tail) : i # j =>
             r.pushes[i + 1].row.link # r.pushes[j + 1].row.link
    <3>1. \A j \in 1..Len(tail) : j \in Int
          OBVIOUS
    <3>2. \A j \in 1..Len(tail) : i # j => i + 1 # j + 1
          BY <3>1
    <3> QED BY <1>6, <3>2 DEF RunOK
  <2>2. key \in SyncKeys
    <3>1. PushOK(w, s, W, x)
          BY <1>6 DEF RunOK
    <3> QED BY <3>1, Based DEF PushOK, RowOK
  <2>3. \A y : PushOK(w, s, W, y) /\ y.row.link # key => PushOK(w, s, J, y)
        BY <1>1, <1>2, <2>2, OthersKept
  <2> QED BY <1>6, <2>1, <2>3
<1>10. Tracked(J, w, s, since \cup Numbered(q.todo))
      BY <1>1, <1>2, <1>7
<1>11. RunOK(w, J, ch, q)
  <2>1. q.todo = {}
        BY <1>7
  <2> QED BY <1>1, <1>4, <1>6, <1>7, <1>9, <1>10, <2>1 DEF RunOK
<1>12. ASSUME NEW I, Backed(I, r) PROVE Backed(I, q)
  <2>1. \A i \in 1..Len(tail) : PushBacked(s, I, tail[i])
        BY <1>6, <1>12 DEF Backed
  <2> QED BY <1>7, <2>1 DEF Backed
<1> QED BY <1>7, <1>8, <1>11, <1>12 DEF J, ws, q, all

(* Whatever moved the servers, an answer keeps the invariant.              *)
LEMMA AnswerInv ==
    ASSUME Inv, Pushing, NEW r, NEW answer,
           RunOK(World', V, changed', r), Sound(V, World', changed'),
           Sound(items, World', changed'), ServersOK(World'),
           changed' \in [Sources -> SUBSET Numbers], body' = body, owed' \subseteq owed,
           r.source = run.source, r.pushes = run.pushes, r.todo = run.todo,
           r.writes = run.writes,
           run' = Answered(r, answer), items' = items,
           SettlePush(Current, answer) \in Seq(Writes),
           Settles(World', run.source, r.since, V,
                   FoldFrom(Fold(items, run.source, run.writes), run.source,
                            SettlePush(Current, answer)).items,
                   Current.row.link)
    PROVE  Inv'
<1> DEFINE s == run.source
           F == Fold(items, s, run.writes)
           ws == SettlePush(Current, answer)
           J == FoldFrom(F, s, ws).items
<1>1. ~Idle /\ run.todo = {} /\ run.pushes # << >> /\ Current = Head(r.pushes)
      BY DEF Pushing, Current
<1>2. /\ RunOK(World, V, changed, run) /\ Backed(items, run) /\ items \in Stores
      /\ s \in Sources /\ run.writes \in Seq(Writes)
  <2>1. RunOK(World, V, changed, run) /\ Backed(items, run) /\ Sound(items, World, changed)
        BY <1>1 DEF Inv
  <2> QED BY <2>1 DEF RunOK, Sound, StoreOK
<1>3. F \in Batches /\ F.items = V
      BY <1>2, FoldType DEF V
<1>4. Fold(items, s, run.writes \o ws) = FoldFrom(F, s, ws)
      BY <1>2, FoldType
<1> HIDE DEF F, ws
<1>5. /\ Sound(J, World', changed') /\ RunOK(World', J, changed', run')
      /\ run'.source = s /\ run'.writes = run.writes \o ws
      /\ \A I : Backed(I, r) => Backed(I, run')
  <2> DEFINE us == SettlePush(Head(r.pushes), answer)
             q == Answered(r, answer)
             K == FoldFrom(F, r.source, us).items
  <2>1. us = ws /\ K = J /\ q = run'
        BY <1>1 DEF ws
  <2>2. us \in Seq(Writes)
        BY <1>1
  <2>3. Settles(World', r.source, r.since, F.items, K, Head(r.pushes).row.link)
        BY <1>1, <1>3 DEF F, ws
  <2>4. /\ Sound(K, World', changed') /\ RunOK(World', K, changed', q)
        /\ q.source = r.source /\ q.writes = r.writes \o us
        /\ \A I : Backed(I, r) => Backed(I, q)
    <3>1. r.pushes # << >> /\ r.todo = {} /\ RunOK(World', F.items, changed', r)
          /\ Sound(F.items, World', changed')
          BY <1>1, <1>3
    <3> QED BY <1>3, <2>2, <2>3, <3>1, SettleKeeps
  <2> HIDE DEF us, q, K
  <2> QED BY <2>1, <2>4
<1>6. V' = J
      BY <1>4, <1>5 DEF V
<1>7. Backed(items, run')
  <2>1. Backed(items, r)
        BY <1>2 DEF Backed
  <2> QED BY <1>5, <2>1
<1>8. body' \in Nat /\ owed' \subseteq Nat /\ (Mutable => owed' \subseteq 1..body')
      BY DEF Inv
<1> QED BY <1>5, <1>6, <1>7, <1>8 DEF Inv

(* Nothing is settled of a change that was refused or went unanswered.     *)
LEMMA Unsettled ==
    ASSUME NEW w, NEW s \in Sources, NEW since, NEW F \in Batches, NEW x, NEW answer, NEW key,
           StoreOK(F.items, w), answer.outcome # "accepted"
    PROVE  /\ SettlePush(x, answer) \in Seq(Writes)
           /\ Settles(w, s, since, F.items, FoldFrom(F, s, SettlePush(x, answer)).items, key)
<1>1. SettlePush(x, answer) = << >>
      BY DEF SettlePush
<1>2. FoldFrom(F, s, << >>) = F
      BY FoldFromOne
<1>3. Settles(w, s, since, F.items, F.items, key)
      BY DEF Settles, Within, StoreOK
<1>4. << >> \in Seq(Writes)
      OBVIOUS
<1> QED BY <1>1, <1>2, <1>3, <1>4

(* The push under way, and the batch so far.                               *)
LEMMA PushNow ==
    ASSUME Inv, Pushing
    PROVE  /\ ~Idle /\ run # NoRun /\ run.todo = {} /\ run.source \in Sources
           /\ PushOK(World, run.source, V, Current) /\ PushBacked(run.source, items, Current)
           /\ RunOK(World, V, changed, run) /\ Sound(V, World, changed) /\ StoreOK(V, World)
           /\ Fold(items, run.source, run.writes) \in Batches
           /\ Fold(items, run.source, run.writes).items = V
           /\ ServersOK(World)
<1>1. ~Idle /\ run # NoRun /\ run.todo = {} /\ run.pushes # << >>
      BY DEF Pushing, Idle
<1>2. /\ RunOK(World, V, changed, run) /\ Backed(items, run) /\ Sound(items, World, changed)
      /\ Sound(V, World, changed) /\ ServersOK(World)
      BY <1>1 DEF Inv
<1>3. items \in Stores /\ run.source \in Sources /\ run.writes \in Seq(Writes)
      BY <1>2 DEF Sound, StoreOK, RunOK
<1>4. PICK T : run.pushes \in Seq(T)
      BY <1>2 DEF RunOK
<1>5. 1 \in 1..Len(run.pushes) /\ Current = run.pushes[1]
      BY <1>1, <1>4, TailOf DEF Current
<1>6. PushOK(World, run.source, V, Current) /\ PushBacked(run.source, items, Current)
      BY <1>2, <1>5 DEF RunOK, Backed
<1>7. /\ Fold(items, run.source, run.writes) \in Batches
      /\ Fold(items, run.source, run.writes).items = V
      BY <1>3, FoldType DEF V
<1>8. StoreOK(V, World)
      BY <1>2 DEF Sound
<1> QED BY <1>1, <1>2, <1>3, <1>6, <1>7, <1>8

(* A refused push keeps the invariant.                                     *)
LEMMA PushRejectedInv == ASSUME Inv, PushRejected PROVE Inv'
<1>1. /\ Pushing /\ run' = Answered(run, Rejected) /\ items' = items /\ srv' = srv
      /\ changed' = changed /\ body' = body /\ owed' = owed
      BY DEF PushRejected, store, servers
<1> DEFINE F == Fold(items, run.source, run.writes)
<1>2. /\ ~Idle /\ run.source \in Sources /\ F \in Batches /\ F.items = V
      /\ RunOK(World, V, changed, run) /\ Sound(V, World, changed) /\ StoreOK(V, World)
      BY <1>1, PushNow
<1>3. World' = World
      BY <1>1 DEF World
<1>4. Rejected.outcome # "accepted"
      BY DEF Rejected, Answer
<1> HIDE DEF F
<1>5. /\ SettlePush(Current, Rejected) \in Seq(Writes)
      /\ Settles(World', run.source, run.since, V,
                 FoldFrom(F, run.source, SettlePush(Current, Rejected)).items, Current.row.link)
  <2>1. /\ SettlePush(Current, Rejected) \in Seq(Writes)
        /\ Settles(World', run.source, run.since, F.items,
                   FoldFrom(F, run.source, SettlePush(Current, Rejected)).items,
                   Current.row.link)
        BY <1>2, <1>3, <1>4, Unsettled
  <2> QED BY <1>2, <2>1
<1>6. /\ RunOK(World', V, changed', run) /\ Sound(V, World', changed')
      /\ Sound(items, World', changed') /\ ServersOK(World')
      /\ changed' \in [Sources -> SUBSET Numbers]
      BY <1>1, <1>2, <1>3 DEF Inv
<1> QED BY <1>1, <1>5, <1>6, AnswerInv DEF F

(* The servers and the run once a server took a change.                    *)
LEMMA TakenWorld ==
    ASSUME Inv, Pushing, NEW n \in Numbers, NEW member, Touch(n, member),
           Admits(srv, (0..body) \ owed', n, member), member.source = run.source,
           body' = body, owed' \subseteq owed
    PROVE  /\ ServersOK(World') /\ changed' \in [Sources -> SUBSET Numbers]
           /\ Evolves(World, World') /\ World'.srv = [srv EXCEPT ![n] = member]
           /\ Sound(items, World', changed') /\ Sound(V, World', changed')
           /\ RunOK(World', V, changed', [run EXCEPT !.since = @ \cup {n}])
           /\ \A answer : Past(Answered(run, answer), n, member.source)
                            = Answered([run EXCEPT !.since = @ \cup {n}], answer)
<1>1. /\ ~Idle /\ run # NoRun /\ run.source \in Sources /\ RunOK(World, V, changed, run)
      /\ ServersOK(World)
      BY PushNow
<1>2. body \in Nat /\ NoBody \notin owed' /\ World = Seen(srv, body, owed)
  <2>1. NoBody \in World.given /\ body \in Nat
        BY <1>1 DEF ServersOK, Inv
  <2> QED BY <2>1 DEF World, Seen
<1>3. World' = Seen([srv EXCEPT ![n] = member], body, owed')
      BY DEF World, Touch
<1>4. /\ Evolves(World, World') /\ ServersOK(World')
      /\ \A s, ns : (n \in ns \/ s # member.source) => Moved(World, World', s, ns)
  <2>1. body <= body /\ (owed' \cap (0..body)) \subseteq owed
        BY <1>2
  <2>2. ServersOK(Seen(srv, body, owed))
        BY <1>1, <1>2
  <2> QED BY <1>2, <1>3, <2>1, <2>2, SeenTouched
<1>5. /\ changed' \in [Sources -> SUBSET Numbers]
      /\ Sound(items, World', changed') /\ Sound(V, World', changed')
      /\ RunOK(World', V, changed', Past(run, n, member.source))
      BY <1>1, <1>4, ServerKeeps
<1>6. Past(run, n, member.source) = [run EXCEPT !.since = @ \cup {n}]
      BY <1>1 DEF Past
<1>7. ASSUME NEW answer
      PROVE  Past(Answered(run, answer), n, member.source)
               = Answered([run EXCEPT !.since = @ \cup {n}], answer)
  <2> DEFINE since == run.since \cup {n}
             ws == run.writes \o SettlePush(Head(run.pushes), answer)
             tail == Tail(run.pushes)
             now == run.answered + 1
             a == Answered(run, answer)
             q == [run EXCEPT !.since = since]
             b == Answered(q, answer)
             z == [source |-> run.source, since |-> since, writes |-> ws, pushes |-> tail,
                   answered |-> now, todo |-> run.todo]
  <2>1. run = [source |-> run.source, since |-> run.since, writes |-> run.writes,
               pushes |-> run.pushes, answered |-> run.answered, todo |-> run.todo]
        BY <1>1 DEF RunOK
  <2>2. a = [run EXCEPT !.pushes = tail, !.answered = now, !.writes = ws]
        BY DEF Answered
  <2> HIDE DEF since, ws, tail, now, a, q
  <2>3. a = [source |-> run.source, since |-> run.since, writes |-> ws, pushes |-> tail,
             answered |-> now, todo |-> run.todo]
        BY <2>1, <2>2
  <2>4. a.source = run.source /\ a.since = run.since /\ a # NoRun
    <3>1. DOMAIN a = {"source", "since", "writes", "pushes", "answered", "todo"}
          BY <2>3
    <3>2. DOMAIN NoRun = {"source"}
          BY DEF NoRun
    <3> QED BY <2>3, <3>1, <3>2
  <2>5. Past(a, n, member.source) = [a EXCEPT !.since = since]
        BY <2>4 DEF Past, since
  <2>6. [a EXCEPT !.since = since] = z
        BY <2>3
  <2>7. q = [source |-> run.source, since |-> since, writes |-> run.writes,
               pushes |-> run.pushes, answered |-> run.answered, todo |-> run.todo]
        BY <2>1 DEF q
  <2>8. /\ q.pushes = run.pushes /\ q.writes = run.writes /\ q.answered = run.answered
        BY <2>7
  <2>9. b = [q EXCEPT !.pushes = tail, !.answered = now, !.writes = ws]
        BY <2>8 DEF Answered, tail, now, ws
  <2> HIDE DEF b
  <2>10. b = z
        BY <2>7, <2>9
  <2> QED BY <2>5, <2>6, <2>10 DEF a, b, q, since
<1>8. World'.srv = [srv EXCEPT ![n] = member]
      BY <1>3 DEF Seen
<1> QED BY <1>4, <1>5, <1>6, <1>7, <1>8

(* A row placed under a handle that binds no other key settles its push.   *)
LEMMA PlacedSettles ==
    ASSUME NEW w, NEW s \in Sources, NEW since, NEW F \in Batches, NEW q, NEW ws \in Seq(Writes),
           ServersOK(w), StoreOK(F.items, w), RowOK(w, s, q),
           Placed(F.items, FoldFrom(F, s, ws).items, s, q),
           \A k \in Keys : Under(F.items, s, k, q.handle) => k = q.link,
           Mints(F.items, w, s, q), Mutable => Wrote(ws, w.written),
           q.base # NoBase => q.handle[2] \in since
    PROVE  Settles(w, s, since, F.items, FoldFrom(F, s, ws).items, q.link)
<1> DEFINE J == FoldFrom(F, s, ws).items
<1>1. Mutable => Bodied(J, w.written)
  <2>1. NoBody \in w.written
        BY DEF ServersOK
  <2>2. Mutable => Bodied(F.items, w.written)
        BY DEF StoreOK
  <2> QED BY <2>1, <2>2, FoldHas
<1> HIDE DEF J
<1>2. /\ StoreOK(J, w)
      /\ \A t \in Sources : \A except :
           /\ Tracked(F.items, w, t, except)
           /\ (t = s /\ q.base # NoBase) => q.handle[2] \in except \/ Known(w, q)
           => Tracked(J, w, t, except)
      BY <1>1, StorePlaced DEF J
<1>3. Within(F.items, J, s, q.link)
      BY DEF Placed, J
<1> QED BY <1>2, <1>3 DEF Settles, J

(* Rewriting the row of a push settles it.                                 *)
LEMMA UpsertSettles ==
    ASSUME NEW w, NEW s \in Sources, NEW since, NEW F \in Batches, NEW p, NEW q,
           ServersOK(w), StoreOK(F.items, w), RowOK(w, s, q),
           View(F.items, s, p.link) # NoBinding, Matches(View(F.items, s, p.link), p),
           q.link = p.link, q.handle = p.handle, q.handle[2] \in since
    PROVE  /\ <<Upsert(q)>> \in Seq(Writes)
           /\ Settles(w, s, since, F.items, FoldFrom(F, s, <<Upsert(q)>>).items, p.link)
<1> DEFINE ws == <<Upsert(q)>>
           W == F.items
           b == View(W, s, p.link)
<1>1. q \in Rows /\ q.link \in SyncKeys /\ q.link \in Keys /\ W \in Stores
      BY Based, HandleKinds DEF RowOK, StoreOK
<1>2. Chain(ws, q, q) /\ ws # << >>
      BY <1>1, Chains, OneWrite
<1>3. ws \in Seq(Writes)
      BY <1>2 DEF Chain
<1>4. Mutable => Wrote(ws, w.written)
      BY OneWrite DEF RowOK
<1> HIDE DEF ws
<1>5. Placed(W, FoldFrom(F, s, ws).items, s, q)
      BY <1>1, <1>2, ChainEffect
<1>6. b # NoBinding /\ b.handle = q.handle /\ W[q.link] # NoItem
      BY <1>1, ViewType DEF Matches
<1>7. \A k \in Keys : Under(W, s, k, q.handle) => k = q.link
      BY <1>1, <1>6 DEF StoreOK
<1>8. Mints(W, w, s, q)
      BY <1>6 DEF Mints, Under
<1> QED BY <1>3, <1>4, <1>5, <1>7, <1>8, PlacedSettles DEF ws

(* A change taken and answered, or taken and its answer lost.              *)
LEMMA TakeInv ==
    ASSUME Inv, Pushing, NEW n \in Numbers, NEW member, NEW assigned, NEW rev,
           Take(n, member, assigned, rev), owed' \subseteq owed,
           Admits(srv, (0..body) \ owed', n, member), member.source = run.source,
           \A r \in Reported(rev) :
             LET ws == SettlePush(Current, Answer("accepted", assigned, r))
                 F  == Fold(items, run.source, run.writes)
             IN  /\ ws \in Seq(Writes)
                 /\ Settles(World', run.source, run.since \cup {n}, V,
                            FoldFrom(F, run.source, ws).items, Current.row.link)
    PROVE  Inv'
<1>1. /\ Touch(n, member) /\ items' = items /\ body' = body
      /\ \/ \E r \in Reported(rev) :
              run' = Past(Answered(run, Answer("accepted", assigned, r)), n, member.source)
         \/ run' = Past(Answered(run, NoAnswer), n, member.source)
      BY DEF Take, store
<1> DEFINE q == [run EXCEPT !.since = @ \cup {n}]
           F == Fold(items, run.source, run.writes)
<1>2. /\ ServersOK(World') /\ changed' \in [Sources -> SUBSET Numbers]
      /\ Sound(items, World', changed') /\ Sound(V, World', changed')
      /\ RunOK(World', V, changed', q)
      /\ \A answer : Past(Answered(run, answer), n, member.source) = Answered(q, answer)
      BY <1>1, TakenWorld
<1>3. /\ run.source \in Sources /\ F \in Batches /\ F.items = V /\ RunOK(World, V, changed, run)
      BY PushNow
<1>4. /\ q.source = run.source /\ q.pushes = run.pushes /\ q.todo = run.todo
      /\ q.writes = run.writes /\ q.since = run.since \cup {n}
      BY <1>3 DEF RunOK
<1> HIDE DEF q, F
<1>5. ASSUME NEW answer, run' = Past(Answered(run, answer), n, member.source),
             SettlePush(Current, answer) \in Seq(Writes),
             Settles(World', run.source, run.since \cup {n}, V,
                     FoldFrom(F, run.source, SettlePush(Current, answer)).items,
                     Current.row.link)
      PROVE  Inv'
  <2>1. run' = Answered(q, answer)
        BY <1>2, <1>5
  <2>2. Settles(World', run.source, q.since, V,
                FoldFrom(F, run.source, SettlePush(Current, answer)).items, Current.row.link)
        BY <1>4, <1>5
  <2> QED BY <1>1, <1>2, <1>4, <1>5, <2>1, <2>2, AnswerInv DEF F
<1>6. CASE run' = Past(Answered(run, NoAnswer), n, member.source)
  <2>1. NoAnswer.outcome # "accepted"
        BY DEF NoAnswer, Answer
  <2>2. StoreOK(F.items, World')
        BY <1>2, <1>3 DEF Sound
  <2>3. /\ SettlePush(Current, NoAnswer) \in Seq(Writes)
        /\ Settles(World', run.source, run.since \cup {n}, F.items,
                   FoldFrom(F, run.source, SettlePush(Current, NoAnswer)).items,
                   Current.row.link)
        BY <1>3, <2>1, <2>2, Unsettled
  <2> QED BY <1>3, <1>5, <1>6, <2>3
<1>7. CASE \E r \in Reported(rev) :
             run' = Past(Answered(run, Answer("accepted", assigned, r)), n, member.source)
  <2>1. PICK r \in Reported(rev) :
             run' = Past(Answered(run, Answer("accepted", assigned, r)), n, member.source)
        BY <1>7
  <2> DEFINE answer == Answer("accepted", assigned, r)
  <2>2. /\ SettlePush(Current, answer) \in Seq(Writes)
        /\ Settles(World', run.source, run.since \cup {n}, V,
                   FoldFrom(F, run.source, SettlePush(Current, answer)).items,
                   Current.row.link)
        BY DEF F
  <2> HIDE DEF answer
  <2> QED BY <1>5, <2>1, <2>2 DEF answer
<1> QED BY <1>1, <1>6, <1>7

(* Only flags moved.                                                       *)
LEMMA RowFlagged ==
    ASSUME NEW w, NEW s, NEW p, NEW q, RowOK(w, s, p), p.base # NoBase, Flagged(p, q)
    PROVE  RowOK(w, s, q) /\ q.base # NoBase
<1>1. /\ q \in Rows /\ q.base # NoBase /\ q.handle = p.handle /\ q.link = p.link
      /\ q.object = p.object /\ q.conflictRevision = p.conflictRevision
      /\ q.conflictObject = p.conflictObject
      /\ q.base.revision = p.base.revision /\ q.base.object = p.base.object
      /\ p.status = "Conflict" => q.status = "Conflict"
      BY BasedRowsAre DEF Flagged
<1>2. Told(w, q)
      BY <1>1 DEF RowOK, Grounded, Told
<1>3. Grounded(w, q, s, q.link)
      BY <1>1, <1>2 DEF RowOK, Grounded
<1> QED BY <1>1, <1>3 DEF RowOK

(* The member a push names.                                                *)
LEMMA PushMember ==
    ASSUME Inv, Pushing, Current.change.kind # "Add"
    PROVE  LET p == Current.row
               n == p.handle[2]
               m == srv[n]
           IN  /\ RowOK(World, run.source, p) /\ p \in BasedRows /\ p.base # NoBase
               /\ p.handle = Real(n) /\ n \in Numbers /\ m \in Members /\ m # NoMember
               /\ m.source = run.source /\ m.revision \in Nat
               /\ IF Mutable THEN m.revision # NoRev /\ m.body \in (0..body) \ owed
                                  /\ m.body # NoBody
                  ELSE m.revision = NoRev
               /\ View(V, run.source, p.link) # NoBinding
               /\ Matches(View(V, run.source, p.link), p)
               /\ p.link \in SyncKeys /\ p.handle \in Handles
               /\ (Mutable /\ p.base.revision = m.revision) => p.base.object \in {NoBody, m.body}
<1> DEFINE p == Current.row
           n == p.handle[2]
           m == srv[n]
<1>1. /\ PushOK(World, run.source, V, Current) /\ ServersOK(World)
      BY PushNow
<1>2. RowOK(World, run.source, p) /\ p.base # NoBase
      /\ View(V, run.source, p.link) # NoBinding /\ Matches(View(V, run.source, p.link), p)
      BY <1>1 DEF PushOK
<1>3. p \in BasedRows /\ p.link \in SyncKeys /\ p.handle \in Handles
      BY <1>2, BasedRowsAre, Based DEF RowOK
<1>4. World.srv = srv /\ World.given = (0..body) \ owed
      BY DEF World, Seen
<1>5. /\ n \in Numbers /\ p.handle = Real(n)
      /\ m \in Members /\ m # NoMember /\ m.source = run.source /\ m.revision \in Nat
      /\ Mutable => m.revision # NoRev /\ m.body \in World.given /\ m.body # NoBody
      /\ ~Mutable => m.revision = NoRev
      /\ (Mutable /\ p.base.revision = m.revision) => p.base.object \in {NoBody, m.body}
  <2>1. Grounded(World, p, run.source, p.link)
        BY <1>2 DEF RowOK
  <2> QED BY <1>1, <1>2, <1>3, <1>4, <2>1, Anchored
<1> QED BY <1>2, <1>3, <1>4, <1>5

(* A flag push keeps the invariant.                                        *)
LEMMA PushFlagsInv == ASSUME Inv, PushFlags PROVE Inv'
<1> DEFINE s == run.source
           p == Current.row
           n == p.handle[2]
           m == srv[n]
           c == Current.change
           flags == (m.flags \cup c.add) \ c.remove
           member == [m EXCEPT !.flags = flags]
           q == Rebase(p, p.flags)
           F == Fold(items, s, run.writes)
<1>1. /\ Pushing /\ c.kind = "SetFlags" /\ m.live /\ Take(n, member, 0, NoRev) /\ owed' = owed
      BY DEF PushFlags
<1>2. /\ RowOK(World, s, p) /\ p \in BasedRows /\ p.base # NoBase
      /\ n \in Numbers /\ m \in Members /\ m # NoMember /\ m.source = s /\ m.revision \in Nat
      /\ IF Mutable THEN m.revision # NoRev /\ m.body \in (0..body) \ owed /\ m.body # NoBody
         ELSE m.revision = NoRev
      /\ View(V, s, p.link) # NoBinding /\ Matches(View(V, s, p.link), p)
      BY <1>1, PushMember
<1>3. /\ s \in Sources /\ F \in Batches /\ F.items = V /\ PushOK(World, s, V, Current)
      BY <1>1, PushNow
<1>4. flags \in SUBSET Flags
      BY <1>1, <1>2, <1>3 DEF PushOK, Members
<1>5. Touch(n, member) /\ body' = body
      BY <1>1 DEF Take
<1> HIDE DEF flags
<1>6. /\ member \in Members /\ member.source = s /\ member.link = m.link
      /\ member.revision = m.revision /\ member.body = m.body /\ member.live = m.live
      BY <1>2, <1>4 DEF Members
<1> HIDE DEF member
<1>7. Admits(srv, (0..body) \ owed', n, member)
      BY <1>1, <1>2, <1>6, MembersReal DEF Admits
<1>8. /\ ServersOK(World') /\ Evolves(World, World') /\ Sound(V, World', changed')
      BY <1>1, <1>2, <1>5, <1>6, <1>7, TakenWorld
<1>9. Flagged(p, q)
  <2>1. p.flags \in FlagSets
        BY <1>2 DEF BasedRows
  <2>2. Recast(q, p, p.object, p.flags,
               IF p.status = "Conflict" \/ ContentPending(p) THEN p.status ELSE "Clean",
               p.conflictRevision, p.conflictObject,
               p.flags, p.base.revision, p.base.object)
        BY <1>2, <2>1, FlagRows DEF Statuses
  <2> HIDE DEF q
  <2> QED BY <2>2 DEF Recast, Flagged
<1>10. RowOK(World', s, p)
      BY <1>2, <1>8, RowEvolves
<1> HIDE DEF q, F
<1>11. RowOK(World', s, q) /\ q.link = p.link /\ q.handle = p.handle
      BY <1>2, <1>9, <1>10, RowFlagged DEF Flagged
<1>12. /\ <<Upsert(q)>> \in Seq(Writes)
       /\ Settles(World', s, run.since \cup {n}, V, FoldFrom(F, s, <<Upsert(q)>>).items, p.link)
  <2>1. StoreOK(F.items, World')
        BY <1>3, <1>8 DEF Sound
  <2>2. /\ <<Upsert(q)>> \in Seq(Writes)
        /\ Settles(World', s, run.since \cup {n}, F.items,
                   FoldFrom(F, s, <<Upsert(q)>>).items, p.link)
        BY <1>2, <1>3, <1>8, <1>11, <2>1, UpsertSettles
  <2> QED BY <1>3, <2>2
<1>13. \A r : SettlePush(Current, Answer("accepted", 0, r)) = <<Upsert(q)>>
      BY <1>1 DEF SettlePush, Answer, q
<1>14. ASSUME NEW r \in Reported(NoRev)
       PROVE  LET ws == SettlePush(Current, Answer("accepted", 0, r))
              IN  /\ ws \in Seq(Writes)
                  /\ Settles(World', run.source, run.since \cup {n}, V,
                             FoldFrom(F, run.source, ws).items, Current.row.link)
      BY <1>12, <1>13
<1>15. member.source = run.source /\ owed' \subseteq owed
      BY <1>1, <1>6
<1> QED BY <1>1, <1>2, <1>7, <1>14, <1>15, TakeInv DEF F

(* A content push keeps the invariant: what it settles on is what the      *)
(* server now holds.                                                       *)
LEMMA PushUpdateInv == ASSUME Inv, PushUpdate PROVE Inv'
<1> DEFINE s == run.source
           p == Current.row
           n == p.handle[2]
           m == srv[n]
           b == Current.change.object
           rev == IF Mutable THEN m.revision + 1 ELSE NoRev
           member == [m EXCEPT !.body = b, !.revision = rev]
           F == Fold(items, s, run.writes)
<1>1. /\ Pushing /\ Current.change.kind = "Update" /\ Take(n, member, 0, rev) /\ owed' = owed \ {b}
      BY DEF PushUpdate
<1>2. /\ RowOK(World, s, p) /\ p \in BasedRows /\ p.base # NoBase
      /\ n \in Numbers /\ m \in Members /\ m # NoMember /\ m.source = s /\ m.revision \in Nat
      /\ IF Mutable THEN m.revision # NoRev /\ m.body \in (0..body) \ owed /\ m.body # NoBody
         ELSE m.revision = NoRev
      /\ View(V, s, p.link) # NoBinding /\ Matches(View(V, s, p.link), p)
      /\ p.handle \in Handles
      BY <1>1, PushMember
<1>3. /\ s \in Sources /\ F \in Batches /\ F.items = V /\ PushOK(World, s, V, Current)
      BY <1>1, PushNow
<1>4. b = p.object /\ b \in Nat /\ b # NoBody /\ (Mutable => b \in 0..body)
      /\ (Exact => p.conflictRevision = NoRev)
  <2>1. b = p.object /\ b # NoBody /\ (Exact => p.conflictRevision = NoRev)
        BY <1>1, <1>3 DEF PushOK
  <2>2. World.written = 0..body
        BY DEF World, Seen
  <2> QED BY <1>2, <2>1, <2>2 DEF RowOK, BasedRows
<1>5. Touch(n, member) /\ body' = body
      BY <1>1 DEF Take
<1>6. rev \in Nat /\ (Mutable => rev = m.revision + 1) /\ (~Mutable => rev = NoRev)
      BY <1>2 DEF NoRev
<1> HIDE DEF rev, b
<1>7. /\ member \in Members /\ member.source = s /\ member.link = m.link
      /\ member.revision = rev /\ member.body = b /\ member.live = m.live
  <2> DEFINE o == m
  <2>1. o \in Members /\ o.source = s /\ member = [o EXCEPT !.body = b, !.revision = rev]
        BY <1>2
  <2> HIDE DEF o, member
  <2>2. /\ member \in Members /\ member.source = o.source /\ member.link = o.link
        /\ member.revision = rev /\ member.body = b /\ member.live = o.live
        BY <1>4, <1>6, <2>1 DEF Members
  <2> QED BY <2>1, <2>2 DEF o
<1> HIDE DEF member
<1>8. Admits(srv, (0..body) \ owed', n, member)
  <2>1. Mutable => rev # NoRev /\ b \in ((0..body) \ owed') \ {NoBody}
        BY <1>1, <1>2, <1>4, <1>6 DEF NoRev
  <2>2. m.revision <= rev /\ (Mutable => rev # m.revision)
        BY <1>2, <1>6 DEF NoRev
  <2> QED BY <1>2, <1>6, <1>7, <2>1, <2>2, MembersReal DEF Admits
<1>9. /\ ServersOK(World') /\ Evolves(World, World') /\ Sound(V, World', changed')
      /\ World'.srv = [srv EXCEPT ![n] = member]
  <2>1. owed' \subseteq owed
        BY <1>1
  <2> QED BY <1>1, <1>2, <1>5, <1>7, <1>8, <2>1, TakenWorld
<1>10. World'.srv[n] = member
  <2>1. srv \in [Numbers -> Members \cup {NoMember}]
    <3>1. ServersOK(World)
          BY DEF Inv
    <3> QED BY <3>1 DEF ServersOK, World, Seen
  <2> QED BY <1>2, <1>9, <2>1
<1>11. RowOK(World', s, p)
      BY <1>2, <1>9, RowEvolves
<1> HIDE DEF F
<1>12. ASSUME NEW r \in Reported(rev)
       PROVE  LET ws == SettlePush(Current, Answer("accepted", 0, r))
              IN  /\ ws \in Seq(Writes)
                  /\ Settles(World', run.source, run.since \cup {n}, V,
                             FoldFrom(F, run.source, ws).items, Current.row.link)
  <2> DEFINE q == RebaseContent(p, r)
  <2>1. r \in {rev, NoRev} /\ (Reporting => r = rev) /\ r \in Nat
        BY <1>6 DEF Reported, Reporting, NoRev
  <2>2. \E st : Recast(q, p, p.object, p.flags, st, p.conflictRevision, p.conflictObject,
                       p.base.flags, r, p.object)
    <3>1. p.flags \in FlagSets /\ "Clean" \in Statuses
          BY <1>2 DEF BasedRows, Statuses
    <3> QED BY <1>2, <2>1, <3>1, FlagRows
  <2> HIDE DEF q
  <2>3. /\ q \in Rows /\ q.base # NoBase /\ q.handle = p.handle /\ q.link = p.link
        /\ q.object = p.object /\ q.conflictRevision = p.conflictRevision
        /\ q.conflictObject = p.conflictObject
        /\ q.base.revision = r /\ q.base.object = p.object
        BY <2>2, BasedRowsAre DEF Recast
  <2>4. Grounded(World', p, s, p.link) /\ p \in Rows
        BY <1>11 DEF RowOK
  <2>5. /\ IsReal(p.handle) /\ member # NoMember /\ member.source = s /\ member.link = p.link[1]
        /\ p.conflictRevision <= member.revision
        /\ (Mutable /\ p.conflictRevision = member.revision) =>
             p.conflictObject \in {NoBody, member.body}
        /\ Told(World', p)
        /\ Mutable => member.revision # NoRev /\ member.body \in World'.given
    <3> DEFINE v == World'
    <3>1. ServersOK(v) /\ Grounded(v, p, s, p.link) /\ p.handle \in Handles /\ p.base # NoBase
          /\ v.srv[p.handle[2]] = member
          BY <1>2, <1>9, <1>10, <2>4
    <3> HIDE DEF v
    <3> QED BY <3>1, Anchored DEF v
  <2>6. r <= member.revision
        BY <1>6, <1>7, <2>1 DEF NoRev
  <2>7. Told(World', q)
    <3>1. Reporting => r # NoRev /\ p.object \in World'.given
          BY <1>4, <1>7, <2>1, <2>5 DEF Reporting
    <3> QED BY <2>3, <2>5, <3>1 DEF Told
  <2>8. Grounded(World', q, s, q.link)
        BY <1>4, <1>7, <1>10, <2>3, <2>5, <2>6, <2>7 DEF Grounded
  <2>9. RowOK(World', s, q)
        BY <1>4, <1>11, <2>3, <2>8 DEF RowOK
  <2>10. SettlePush(Current, Answer("accepted", 0, r)) = <<Upsert(q)>>
        BY <1>1 DEF SettlePush, Answer, q
  <2>11. StoreOK(F.items, World') /\ F \in Batches /\ F.items = V
        BY <1>3, <1>9 DEF Sound, F
  <2>12. /\ <<Upsert(q)>> \in Seq(Writes)
        /\ Settles(World', s, run.since \cup {n}, F.items,
                   FoldFrom(F, s, <<Upsert(q)>>).items, p.link)
        BY <1>2, <1>3, <1>9, <2>3, <2>9, <2>11, UpsertSettles
  <2> QED BY <2>10, <2>11, <2>12
<1>13. member.source = run.source /\ owed' \subseteq owed
      BY <1>1, <1>7
<1> QED BY <1>1, <1>2, <1>8, <1>12, <1>13, TakeInv DEF F

(* Dropping the row of a push whose member is gone settles it.             *)
LEMMA DropSettles ==
    ASSUME NEW w, NEW s \in Sources, NEW since, NEW F \in Batches, NEW p,
           ServersOK(w), StoreOK(F.items, w), p.link \in SyncKeys, p.handle \in Handles,
           View(F.items, s, p.link) # NoBinding, Matches(View(F.items, s, p.link), p),
           p.handle = Real(p.handle[2]), p.handle[2] \in Numbers, ~w.srv[p.handle[2]].live
    PROVE  /\ <<Drop(p.handle, "Deleted")>> \in Seq(Writes)
           /\ Settles(w, s, since, F.items, FoldFrom(F, s, <<Drop(p.handle, "Deleted")>>).items,
                      p.link)
<1> DEFINE ws == <<Drop(p.handle, "Deleted")>>
           W == F.items
           J == FoldFrom(F, s, ws).items
           k == p.link
<1>1. k \in Keys /\ k[2] \in Numbers \cup {0} /\ W \in Stores /\ "Deleted" \in Reasons
      BY HandleKinds DEF StoreOK, Reasons
<1>2. Under(W, s, k, p.handle) /\ W[k] # NoItem
      BY <1>1, ViewType DEF Under, Matches
<1>3. \A j \in Keys : Under(W, s, j, p.handle) => j = k
      BY <1>1, <1>2 DEF StoreOK, Under
<1>4. Removed(W, J, s, k)
      BY <1>1, <1>2, <1>3, DropOne
<1>5. ws \in Seq(Writes) /\ Wrote(ws, w.written)
  <2> DEFINE d == Drop(p.handle, "Deleted")
  <2>1. d \in Writes /\ d.op = "Drop"
        BY <1>1 DEF Writes, Drop
  <2> HIDE DEF d
  <2>2. <<d>> \in Seq(Writes) /\ Len(<<d>>) = 1 /\ <<d>>[1] = d
        BY <2>1
  <2>3. \A i \in 1..1 : i = 1
        OBVIOUS
  <2>4. Wrote(<<d>>, w.written)
        BY <2>1, <2>2, <2>3 DEF Wrote
  <2> QED BY <2>2, <2>4 DEF d
<1> HIDE DEF ws
<1>6. Mutable => Bodied(J, w.written)
  <2>1. NoBody \in w.written
        BY DEF ServersOK
  <2>2. Mutable => Bodied(W, w.written)
        BY DEF StoreOK
  <2> QED BY <1>5, <2>1, <2>2, FoldHas
<1> HIDE DEF J
<1>7. (k[2] # 0 /\ Under(W, s, k, Real(k[2]))) => ~w.srv[k[2]].live
  <2>1. Under(W, s, k, Real(k[2])) => Real(k[2]) = Real(p.handle[2])
        BY <1>2 DEF Under
  <2>2. Under(W, s, k, Real(k[2])) => k[2] = p.handle[2]
        BY <2>1 DEF Real
  <2> QED BY <2>2
<1>8. /\ StoreOK(J, w)
      /\ \A t \in Sources : \A except : Tracked(W, w, t, except) => Tracked(J, w, t, except)
      BY <1>2, <1>4, <1>6, <1>7, StoreRemoved
<1> QED BY <1>4, <1>5, <1>8 DEF Settles, Removed, J, ws

(* A delete keeps the invariant, whether or not its target was there.      *)
LEMMA PushRemoveInv == ASSUME Inv, PushRemove PROVE Inv'
<1> DEFINE s == run.source
           p == Current.row
           n == p.handle[2]
           m == srv[n]
           member == [m EXCEPT !.live = FALSE]
           F == Fold(items, s, run.writes)
           ws == <<Drop(p.handle, "Deleted")>>
<1>1. /\ Pushing /\ Current.change.kind = "Remove" /\ owed' = owed
      /\ IF m.live THEN Take(n, member, 0, NoRev)
         ELSE /\ run' = Answered(run, Answer("accepted", 0, NoRev)) /\ items' = items
              /\ srv' = srv /\ changed' = changed /\ body' = body
      BY DEF PushRemove, store, servers
<1>2. /\ RowOK(World, s, p) /\ p \in BasedRows /\ p.base # NoBase
      /\ n \in Numbers /\ m \in Members /\ m # NoMember /\ m.source = s /\ m.revision \in Nat
      /\ IF Mutable THEN m.revision # NoRev /\ m.body \in (0..body) \ owed /\ m.body # NoBody
         ELSE m.revision = NoRev
      /\ View(V, s, p.link) # NoBinding /\ Matches(View(V, s, p.link), p)
      /\ p.link \in SyncKeys /\ p.handle \in Handles /\ p.handle = Real(n)
      BY <1>1, PushMember
<1>3. /\ ~Idle /\ s \in Sources /\ F \in Batches /\ F.items = V /\ ServersOK(World)
      /\ RunOK(World, V, changed, run) /\ Sound(V, World, changed) /\ StoreOK(V, World)
      BY <1>1, PushNow
<1>4. \A r : SettlePush(Current, Answer("accepted", 0, r)) = ws
      BY <1>1 DEF SettlePush, Answer
<1> HIDE DEF F
<1>5. CASE m.live
  <2>1. Touch(n, member) /\ body' = body /\ Take(n, member, 0, NoRev)
        BY <1>1, <1>5 DEF Take
  <2>2. /\ member \in Members /\ member.source = s /\ member.link = m.link
        /\ member.revision = m.revision /\ member.body = m.body /\ ~member.live
        BY <1>2 DEF Members
  <2> HIDE DEF member, ws
  <2>3. Admits(srv, (0..body) \ owed', n, member)
        BY <1>1, <1>2, <2>2, MembersReal DEF Admits
  <2>4. /\ ServersOK(World') /\ Sound(V, World', changed')
        /\ World'.srv = [srv EXCEPT ![n] = member]
        BY <1>1, <1>2, <2>1, <2>2, <2>3, TakenWorld
  <2>5. ~World'.srv[n].live
    <3>1. srv \in [Numbers -> Members \cup {NoMember}]
          BY <1>3 DEF ServersOK, World, Seen
    <3> QED BY <1>2, <2>2, <2>4, <3>1
  <2>6. ws \in Seq(Writes)
        /\ Settles(World', s, run.since \cup {n}, V, FoldFrom(F, s, ws).items, p.link)
    <3>1. StoreOK(F.items, World')
          BY <1>3, <2>4 DEF Sound
    <3>2. ws \in Seq(Writes)
          /\ Settles(World', s, run.since \cup {n}, F.items, FoldFrom(F, s, ws).items, p.link)
      <4> DEFINE v == World'
      <4>1. /\ ServersOK(v) /\ StoreOK(F.items, v) /\ ~v.srv[p.handle[2]].live
            /\ View(F.items, s, p.link) # NoBinding /\ Matches(View(F.items, s, p.link), p)
            BY <1>2, <1>3, <2>4, <2>5, <3>1
      <4> HIDE DEF v
      <4> QED BY <1>2, <1>3, <4>1, DropSettles DEF v, ws
    <3> QED BY <1>3, <3>2
  <2>7. ASSUME NEW r \in Reported(NoRev)
        PROVE  LET us == SettlePush(Current, Answer("accepted", 0, r))
               IN  /\ us \in Seq(Writes)
                   /\ Settles(World', run.source, run.since \cup {n}, V,
                              FoldFrom(F, run.source, us).items, Current.row.link)
        BY <1>4, <2>6
  <2>8. member.source = run.source /\ owed' \subseteq owed
        BY <1>1, <2>2
  <2> QED BY <1>1, <1>2, <2>1, <2>3, <2>7, <2>8, TakeInv DEF F
<1>6. CASE ~m.live
  <2> DEFINE answer == Answer("accepted", 0, NoRev)
  <2>1. /\ run' = Answered(run, answer) /\ items' = items
        /\ srv' = srv /\ changed' = changed /\ body' = body
        BY <1>1, <1>6
  <2>2. World' = World
        BY <1>1, <2>1 DEF World
  <2>3. ~World.srv[n].live
        BY <1>6 DEF World, Seen
  <2> HIDE DEF ws
  <2>4. ws \in Seq(Writes) /\ Settles(World, s, run.since, V, FoldFrom(F, s, ws).items, p.link)
    <3> DEFINE v == World
    <3>1. /\ ServersOK(v) /\ StoreOK(F.items, v) /\ ~v.srv[p.handle[2]].live
          /\ View(F.items, s, p.link) # NoBinding /\ Matches(View(F.items, s, p.link), p)
          BY <1>2, <1>3, <2>3
    <3> HIDE DEF v
    <3>2. ws \in Seq(Writes)
          /\ Settles(v, s, run.since, F.items, FoldFrom(F, s, ws).items, p.link)
          BY <1>2, <1>3, <3>1, DropSettles DEF ws
    <3> QED BY <1>3, <3>2 DEF v
  <2>5. SettlePush(Current, answer) = ws
        BY <1>4
  <2> HIDE DEF answer
  <2>6. /\ SettlePush(Current, answer) \in Seq(Writes)
        /\ Settles(World', run.source, run.since, V,
                   FoldFrom(F, run.source, SettlePush(Current, answer)).items,
                   Current.row.link)
        BY <2>2, <2>4, <2>5
  <2>7. /\ RunOK(World', V, changed', run) /\ Sound(V, World', changed')
        /\ Sound(items, World', changed') /\ ServersOK(World')
        /\ changed' \in [Sources -> SUBSET Numbers]
        BY <1>3, <2>1, <2>2 DEF Inv
  <2>8. owed' \subseteq owed
        BY <1>1
  <2> QED BY <1>1, <2>1, <2>6, <2>7, <2>8, AnswerInv DEF F
<1> QED BY <1>5, <1>6

(* A row moved to another handle, as writes.                               *)
LEMMA MoveWrites ==
    ASSUME NEW h \in Handles, NEW q \in Rows
    PROVE  LET us == <<Drop(h, "Superseded"), Upsert(q)>>
           IN  /\ us = <<Drop(h, "Superseded")>> \o <<Upsert(q)>> /\ us \in Seq(Writes)
               /\ \A B : q.object \in B => Wrote(us, B)
<1> DEFINE d == Drop(h, "Superseded")
           y == Upsert(q)
           us == <<d, y>>
<1>1. "Superseded" \in Reasons
      BY DEF Reasons
<1>2. d \in Writes /\ y \in Writes /\ d.op = "Drop" /\ y.row = q
      BY <1>1 DEF Writes, Drop, Upsert
<1>3. us = <<d>> \o <<y>>
      BY Pair
<1> HIDE DEF d, y
<1>4. us \in Seq(Writes) /\ Len(us) = 2 /\ us[1] = d /\ us[2] = y
      BY <1>2
<1>5. \A i \in 1..2 : i = 1 \/ i = 2
      OBVIOUS
<1> HIDE DEF us
<1>6. \A B : q.object \in B => Wrote(us, B)
      BY <1>2, <1>4, <1>5 DEF Wrote
<1> QED BY <1>3, <1>4, <1>6 DEF us, d, y

(* The row a create becomes once the server assigned it a number.          *)
LEMMA CreatePlaced ==
    ASSUME NEW w, NEW s \in Sources, NEW p, NEW n \in Numbers, NEW r \in Nat, NEW m, ServersOK(w),
           RowOK(w, s, p), p.base = NoBase, m = w.srv[n], m # NoMember, m.source = s,
           m.link = p.link[1], m.body = p.object, m.revision \in Nat, r <= m.revision,
           Mutable => m.revision # NoRev, Reporting => r = m.revision
    PROVE  \E q \in Rows :
             /\ RowOK(w, s, q) /\ q.link = p.link /\ q.handle = Real(n) /\ q.base # NoBase
             /\ q.object = p.object
             /\ RekeyCreate(p, n, r) = <<Drop(p.handle, "Superseded"), Upsert(q)>>
<1> DEFINE base == [flags |-> p.flags, revision |-> r, object |-> p.object]
           q == [p EXCEPT !.handle = Real(n), !.status = "Clean", !.base = base]
<1>1. RekeyCreate(p, n, r) = <<Drop(p.handle, "Superseded"), Upsert(q)>>
      BY DEF RekeyCreate
<1>2. p \in Rows /\ Real(n) \in Handles /\ IsReal(Real(n)) /\ Real(n)[2] = n
      /\ (Mutable => p.object \in w.written) /\ p.conflictRevision = NoRev
      BY HandleKinds DEF RowOK, Grounded
<1>3. base \in Bases /\ base.revision = r /\ base.object = p.object
      BY <1>2, Based DEF Bases
<1>4. base # NoBase
      BY <1>3, AbsentAssumption
<1> HIDE DEF base
<1>5. /\ q \in Rows /\ q.handle = Real(n) /\ q.link = p.link /\ q.object = p.object
      /\ q.base = base /\ q.conflictRevision = p.conflictRevision /\ q.status = "Clean"
      BY <1>2, <1>3 DEF Rows, Placements, Statuses
<1> HIDE DEF q
<1>6. IF Mutable THEN m.body \in w.given ELSE m.revision = NoRev
      BY DEF ServersOK
<1>7. Told(w, q)
      BY <1>2, <1>3, <1>5, <1>6 DEF Told, Reporting
<1>8. Grounded(w, q, s, q.link)
      BY <1>2, <1>3, <1>4, <1>5, <1>6, <1>7 DEF Grounded, NoRev
<1>9. RowOK(w, s, q)
      BY <1>2, <1>5, <1>8 DEF RowOK
<1> QED BY <1>1, <1>4, <1>5, <1>9 DEF q

(* A create accepted is settled under its number, which bound nothing.     *)
LEMMA CreateSettles ==
    ASSUME NEW w, NEW v, NEW s \in Sources, NEW since, NEW F \in Batches, NEW p, NEW q \in Rows,
           NEW n \in Numbers, ServersOK(w), w.srv[n] = NoMember, StoreOK(F.items, w),
           ServersOK(v), StoreOK(F.items, v), RowOK(w, s, p), p.base = NoBase,
           F.items[p.link] # NoItem,
           View(F.items, s, p.link) # NoBinding => View(F.items, s, p.link).base = NoBase,
           RowOK(v, s, q), q.link = p.link, q.handle = Real(n), n \in since
    PROVE  LET ws == <<Drop(p.handle, "Superseded"), Upsert(q)>>
           IN  /\ ws \in Seq(Writes)
               /\ Settles(v, s, since, F.items, FoldFrom(F, s, ws).items, p.link)
<1> DEFINE ws == <<Drop(p.handle, "Superseded"), Upsert(q)>>
           u == <<Upsert(q)>>
           W == F.items
<1>1. p \in Rows /\ p.link \in SyncKeys /\ p.link \in Keys /\ p.handle \in Handles
      /\ p.handle = p.link /\ ~IsReal(p.link) /\ W \in Stores
      BY Based, HandleKinds DEF RowOK, Grounded, StoreOK
<1>2. /\ ws = <<Drop(p.handle, "Superseded")>> \o u /\ ws \in Seq(Writes)
      /\ \A B : q.object \in B => Wrote(ws, B)
      BY <1>1, MoveWrites
<1>3. Chain(u, q, q) /\ u # << >>
      BY Chains, OneWrite
<1>4. \A k \in Keys : Under(W, s, k, p.handle) => k = q.link
      BY <1>1 DEF StoreOK, Under, Grounded
<1>5. \A k \in Keys : ~Under(W, s, k, Real(n))
  <2> SUFFICES ASSUME NEW k \in Keys, Under(W, s, k, Real(n)) PROVE FALSE
      OBVIOUS
  <2> DEFINE b == View(W, s, k)
  <2>1. b # NoBinding /\ b.handle = Real(n) /\ Grounded(w, b, s, k) /\ W[k] # NoItem
        BY <1>1, ViewType DEF StoreOK, Under
  <2>2. k \in SyncKeys
        BY <2>1 DEF StoreOK
  <2>3. ~IsReal(k) /\ IsReal(Real(n)) /\ Real(n)[2] = n
        BY <2>2, HandleKinds
  <2> HIDE DEF b
  <2> QED BY <2>1, <2>3 DEF Grounded
<1>6. Mints(W, v, s, q)
  <2>1. ~Under(W, s, p.link, Real(p.link[2]))
    <3> SUFFICES ASSUME Under(W, s, p.link, Real(p.link[2])) PROVE FALSE
        OBVIOUS
    <3>1. /\ View(W, s, p.link).handle = Real(p.link[2]) /\ View(W, s, p.link).base = NoBase
          /\ Grounded(w, View(W, s, p.link), s, p.link)
          BY <1>1 DEF StoreOK, Under
    <3>2. p.link = Real(p.link[2])
          BY <3>1 DEF Grounded
    <3> QED BY <1>1, <3>2 DEF Real, IsReal
  <2> QED BY <2>1 DEF Mints
<1>7. "Superseded" \in Reasons
      BY DEF Reasons
<1> HIDE DEF u
<1>8. Placed(W, FoldFrom(F, s, <<Drop(p.handle, "Superseded")>> \o u).items, s, q)
      BY <1>1, <1>3, <1>4, <1>7, DropPlaced
<1> HIDE DEF ws
<1>9. Placed(W, FoldFrom(F, s, ws).items, s, q)
      BY <1>2, <1>8
<1>10. Mutable => Wrote(ws, v.written)
      BY <1>2 DEF RowOK
<1>11. q.handle[2] \in since
      BY HandleKinds
<1>12. \A k \in Keys : Under(W, s, k, q.handle) => k = q.link
      BY <1>5
<1>13. Settles(v, s, since, W, FoldFrom(F, s, ws).items, q.link)
      BY <1>2, <1>6, <1>9, <1>10, <1>11, <1>12, PlacedSettles
<1> QED BY <1>2, <1>13 DEF ws

(* A create keeps the invariant: its number was nobody's.                  *)
LEMMA PushAddInv == ASSUME Inv, PushAdd PROVE Inv'
<1> DEFINE s == run.source
           p == Current.row
           c == Current.change
           f == IF c.flags = Unknown THEN {} ELSE c.flags
           F == Fold(items, s, run.writes)
<1>1. Pushing /\ c.kind = "Add" /\ owed' = owed \ {c.object}
      BY DEF PushAdd
<1>2. PICK n \in Numbers : /\ n = Cardinality(Used) + 1
                           /\ Take(n, Member(s, c.link[1], NewRevision, c.object, f),
                                   n, NewRevision)
      BY DEF PushAdd
<1> DEFINE member == Member(s, c.link[1], NewRevision, c.object, f)
<1>3. /\ s \in Sources /\ F \in Batches /\ F.items = V /\ PushOK(World, s, V, Current)
      /\ ServersOK(World) /\ StoreOK(V, World)
      BY <1>1, PushNow
<1>4. /\ RowOK(World, s, p) /\ p.base = NoBase /\ c.link = p.link /\ c.object = p.object
      /\ c.flags = p.flags /\ p.object # NoBody /\ V[p.link] # NoItem
      /\ View(V, s, p.link) # NoBinding => View(V, s, p.link).base = NoBase
      BY <1>1, <1>3 DEF PushOK
<1>5. /\ p \in Rows /\ p.link[1] \in Links /\ p.flags \in FlagSets /\ p.object \in Nat
      /\ Mutable => p.object \in 0..body
  <2>1. World.written = 0..body
        BY DEF World, Seen
  <2> QED BY <1>4, <2>1, Based, HandleKinds DEF RowOK
<1>6. srv[n] = NoMember /\ \A m \in Numbers : m < n => srv[m] # NoMember
      BY <1>2, <1>3, NextNumber
<1>7. f \in SUBSET Flags
      BY <1>4, <1>5 DEF FlagSets
<1>8. NewRevision \in Nat /\ IF Mutable THEN NewRevision # NoRev ELSE NewRevision = NoRev
      BY DEF NewRevision, NoRev
<1> HIDE DEF f
<1>9. /\ member \in Members /\ member.source = s /\ member.link = p.link[1]
      /\ member.revision = NewRevision /\ member.body = p.object /\ member.live
      BY <1>3, <1>4, <1>5, <1>7, <1>8 DEF Member, Members
<1>10. Touch(n, member) /\ body' = body /\ Take(n, member, n, NewRevision)
      BY <1>2 DEF Take
<1> HIDE DEF member
<1>11. Admits(srv, (0..body) \ owed', n, member)
  <2>1. Mutable => p.object \in ((0..body) \ owed') \ {NoBody}
        BY <1>1, <1>4, <1>5
  <2> QED BY <1>6, <1>8, <1>9, <2>1, MembersReal DEF Admits
<1>12. owed' \subseteq owed /\ member.source = run.source
      BY <1>1, <1>9
<1>13. /\ ServersOK(World') /\ Evolves(World, World') /\ Sound(V, World', changed')
       /\ World'.srv = [srv EXCEPT ![n] = member]
      BY <1>1, <1>10, <1>11, <1>12, TakenWorld
<1>14. World'.srv[n] = member /\ World.srv[n] = NoMember
  <2>1. srv \in [Numbers -> Members \cup {NoMember}] /\ World.srv = srv
        BY <1>3 DEF ServersOK, World, Seen
  <2> QED BY <1>6, <1>13, <2>1
<1>15. RowOK(World', s, p)
      BY <1>4, <1>13, RowEvolves
<1> HIDE DEF F
<1>16. ASSUME NEW r \in Reported(NewRevision)
       PROVE  LET ws == SettlePush(Current, Answer("accepted", n, r))
              IN  /\ ws \in Seq(Writes)
                  /\ Settles(World', run.source, run.since \cup {n}, V,
                             FoldFrom(F, run.source, ws).items, Current.row.link)
  <2> DEFINE v == World'
             w == World
  <2>1. r \in Nat /\ r <= member.revision /\ (Reporting => r = member.revision)
        BY <1>8, <1>9 DEF Reported, Reporting, NoRev
  <2>2. /\ ServersOK(v) /\ RowOK(v, s, p) /\ member = v.srv[n] /\ member # NoMember
        /\ StoreOK(F.items, v) /\ ServersOK(w) /\ w.srv[n] = NoMember /\ StoreOK(F.items, w)
        /\ RowOK(w, s, p)
        BY <1>3, <1>4, <1>9, <1>13, <1>14, <1>15, MembersReal DEF Sound
  <2> HIDE DEF v, w
  <2>3. PICK q \in Rows :
             /\ RowOK(v, s, q) /\ q.link = p.link /\ q.handle = Real(n) /\ q.base # NoBase
             /\ q.object = p.object
             /\ RekeyCreate(p, n, r) = <<Drop(p.handle, "Superseded"), Upsert(q)>>
        BY <1>3, <1>4, <1>8, <1>9, <2>1, <2>2, CreatePlaced
  <2>4. SettlePush(Current, Answer("accepted", n, r)) = RekeyCreate(p, n, r)
        BY <1>1 DEF SettlePush, Answer
  <2> DEFINE ws == <<Drop(p.handle, "Superseded"), Upsert(q)>>
             since == run.since \cup {n}
  <2>5. n \in since
        OBVIOUS
  <2> HIDE DEF since
  <2>6. ws \in Seq(Writes) /\ Settles(v, s, since, F.items, FoldFrom(F, s, ws).items, p.link)
        BY <1>3, <1>4, <2>2, <2>3, <2>5, CreateSettles
  <2> HIDE DEF ws
  <2>7. SettlePush(Current, Answer("accepted", n, r)) = ws
        BY <2>3, <2>4 DEF ws
  <2> QED BY <1>3, <2>6, <2>7 DEF v, since
<1> QED BY <1>1, <1>10, <1>11, <1>12, <1>16, TakeInv DEF F

(* Any push keeps the invariant.                                           *)
LEMMA PushInv == ASSUME Inv, Push PROVE Inv'
BY PushUpdateInv, PushFlagsInv, PushRemoveInv, PushAddInv, PushRejectedInv DEF Push

(* Recording a chunk keeps the invariant; the last one moves the checkpoint*)
(* to the listing's, past which only what moved since is.                  *)
LEMMA RecordInv == ASSUME Inv, Record PROVE Inv'
<1> DEFINE s == run.source
           last == run.pushes = << >> /\ ~Refused(items, s, run.writes)
           next == IF run.pushes = << >> THEN NoRun
                   ELSE [run EXCEPT !.writes = << >>, !.answered = 0]
<1>1. /\ ~Idle /\ run.todo = {} /\ Commit(run.writes, next)
      /\ changed' = IF last THEN [changed EXCEPT ![s] = run.since] ELSE changed
      /\ srv' = srv /\ body' = body
      BY DEF Record
<1>2. /\ Sound(V, World, changed) /\ RunOK(World, V, changed, run) /\ Backed(items, run)
      /\ Sound(items, World, changed) /\ changed \in [Sources -> SUBSET Numbers]
      BY <1>1 DEF Inv
<1>3. s \in Sources /\ run.since \subseteq changed[s] /\ run.writes \in Seq(Writes)
      BY <1>2 DEF RunOK
<1>4. Rooted(items, run)
      BY <1>2 DEF Rooted, Backed, CandBacked, PushBacked
<1>5. V = Fold(items, s, run.writes).items
      BY DEF V
<1>6. CASE ~last
  <2>1. changed' = changed
        BY <1>1, <1>6
  <2>2. next = NoRun \/ next = [run EXCEPT !.writes = << >>, !.answered = 0]
        OBVIOUS
  <2> HIDE DEF next
  <2> QED BY <1>1, <1>2, <1>3, <1>4, <1>5, <2>1, <2>2, CommitInv
<1>7. CASE last
  <2>1. items' = Save(items, V) /\ run' = NoRun /\ owed' \subseteq owed
    <3> DEFINE new == Write(items, kept, s, run.writes)
    <3>1. new.items = Save(items, V)
          BY <1>5 DEF Write, Written
    <3>2. Stored(new) /\ run' = NoRun /\ owed' = owed \ Forfeited(items')
          BY <1>1, <1>7 DEF Commit
    <3> HIDE DEF new
    <3> QED BY <3>1, <3>2 DEF Stored
  <2>2. /\ ServersOK(World') /\ body' \in Nat /\ owed' \subseteq Nat
        /\ Mutable => owed' \subseteq 1..body'
        /\ Sound(items', World', changed)
        /\ RunOK(World', items', changed, run)
        BY <1>1, <1>2, <1>4, <2>1, Saving
  <2>3. Tracked(items', World', s, run.since)
    <3>1. Tracked(items', World', s, run.since \cup Numbered(run.todo))
          BY <2>2 DEF RunOK
    <3>2. Numbered(run.todo) = {}
          BY <1>1 DEF Numbered
    <3>3. run.since \cup Numbered(run.todo) = run.since
          BY <3>2
    <3> QED BY <3>1, <3>3
  <2>4. changed' = [changed EXCEPT ![s] = run.since]
        BY <1>1, <1>7
  <2>5. /\ changed' \in [Sources -> SUBSET Numbers]
        /\ \A t \in Sources : changed'[t] = IF t = s THEN run.since ELSE changed[t]
    <3>1. run.since \in SUBSET Numbers
          BY <1>2, <1>3
    <3> QED BY <1>2, <1>3, <2>4, <3>1
  <2>6. Sound(items', World', changed')
    <3>1. StoreOK(items', World') /\ \A t \in Sources : Tracked(items', World', t, changed[t])
          BY <2>2 DEF Sound
    <3>2. \A t \in Sources : Tracked(items', World', t, changed'[t])
          BY <2>3, <2>5, <3>1
    <3> QED BY <3>1, <3>2 DEF Sound
  <2>7. Idle'
        BY <2>1 DEF Idle
  <2> QED BY <2>2, <2>5, <2>6, <2>7 DEF Inv
<1> QED BY <1>6, <1>7

(* A crash keeps the invariant: it drops the run and nothing else.         *)
LEMMA CrashInv == ASSUME Inv, Crash PROVE Inv'
<1>1. /\ run' = NoRun /\ items' = items /\ srv' = srv /\ changed' = changed /\ body' = body
      /\ owed' = owed
      BY DEF Crash, store, servers
<1>2. Idle' /\ World' = World
      BY <1>1 DEF Idle, World
<1> QED BY <1>1, <1>2 DEF Inv

-----------------------------------------------------------------------------
(* What a source loads.                                                    *)

(* The row of a key: the binding's, or the copy offered.                   *)
LEMMA ProjectRow ==
    ASSUME NEW w, NEW I, NEW s \in Sources, NEW p \in Project(I, s), StoreOK(I, w)
    PROVE  LET k == p.link
               b == View(I, s, k)
           IN  /\ k \in Keys /\ Loaded(I, k) /\ I[k] \in Rowed /\ b \in Bounds
               /\ IF b # NoBinding THEN p = BoundPlacement(I[k], k, b)
                  ELSE p = Shared(I[k], k, k, "Created") /\ Offered(I[k], s)
<1>1. CASE \E k \in Keys : /\ Loaded(I, k) /\ Binds(I[k], s)
                           /\ p = BoundPlacement(I[k], k, I[k].sources[s])
  <2>1. PICK k \in Keys : /\ Loaded(I, k) /\ Binds(I[k], s)
                          /\ p = BoundPlacement(I[k], k, I[k].sources[s])
        BY <1>1
  <2>2. p.link = k
        BY <2>1 DEF BoundPlacement, Shared
  <2>3. View(I, s, k) = I[k].sources[s] /\ View(I, s, k) # NoBinding
        BY <2>1 DEF View, Binds
  <2>4. I[k] \in Rowed /\ View(I, s, k) \in Bounds
        BY <2>3, ViewType DEF StoreOK
  <2> QED BY <2>1, <2>2, <2>3, <2>4
<1>2. CASE \E k \in Keys : /\ Loaded(I, k) /\ Offered(I[k], s)
                           /\ p = Shared(I[k], k, k, "Created")
  <2>1. PICK k \in Keys : /\ Loaded(I, k) /\ Offered(I[k], s)
                          /\ p = Shared(I[k], k, k, "Created")
        BY <1>2
  <2>2. p.link = k
        BY <2>1 DEF Shared
  <2>3. View(I, s, k) = NoBinding
        BY <2>1 DEF View, Offered, Binds
  <2>4. I[k] \in Rowed
    <3>1. I \in Stores
          BY DEF StoreOK
    <3> QED BY <2>1, <3>1 DEF Stores, Loaded
  <2> QED BY <2>1, <2>2, <2>3, <2>4 DEF Bounds
<1> QED BY <1>1, <1>2 DEF Project

(* The columns of a loaded row.                                            *)
LEMMA ProjectColumns ==
    ASSUME NEW item \in Rowed, NEW k, NEW b
    PROVE  LET p == BoundPlacement(item, k, b)
               q == Shared(item, k, k, "Created")
           IN  /\ p = [handle |-> b.handle, link |-> k, object |-> item.object,
                       flags |-> item.flags, status |-> BoundStatus(item, b),
                       conflictRevision |-> b.conflictRevision,
                       conflictObject |-> b.conflictObject, base |-> b.base]
               /\ q = [handle |-> k, link |-> k, object |-> item.object,
                       flags |-> item.flags, status |-> "Created",
                       conflictRevision |-> NoRev, conflictObject |-> NoBody, base |-> NoBase]
<1> DEFINE st == BoundStatus(item, b)
           r == Shared(item, k, b.handle, st)
           cr == b.conflictRevision
           co == b.conflictObject
           ba == b.base
           p == BoundPlacement(item, k, b)
           h == b.handle
<1>1. r = [handle |-> h, link |-> k, object |-> item.object, flags |-> item.flags,
           status |-> st, conflictRevision |-> NoRev, conflictObject |-> NoBody, base |-> NoBase]
      BY DEF Shared
<1>2. p = [r EXCEPT !.conflictRevision = cr, !.conflictObject = co, !.base = ba]
      BY DEF BoundPlacement
<1> HIDE DEF st, r, cr, co, ba, p, h
<1>3. p = [handle |-> h, link |-> k, object |-> item.object, flags |-> item.flags,
           status |-> st, conflictRevision |-> cr, conflictObject |-> co, base |-> ba]
      BY <1>1, <1>2
<1> QED BY <1>3 DEF Shared, st, cr, co, ba, p, h

(* What a source loads is what it binds, as the servers justify it.        *)
LEMMA Projected ==
    ASSUME NEW w, NEW I, NEW s \in Sources, NEW p \in Project(I, s), StoreOK(I, w)
    PROVE  /\ RowOK(w, s, p) /\ I[p.link] # NoItem /\ p.object = I[p.link].object
           /\ Agree(View(I, s, p.link), p)
           /\ \A k \in Keys : Under(I, s, k, p.handle) => k = p.link
           /\ p.base = NoBase => p.status \in {"Created", "Conflict", "Tombstone"}
           /\ p.base # NoBase => p.status # "Created"
           /\ \A ex : Tracked(I, w, s, ex) /\ p.base # NoBase =>
                        p.handle[2] \in ex \/ Known(w, p)
           /\ \A q : q.link = p.link /\ q.handle = p.handle => Mints(I, w, s, q)
<1> DEFINE k == p.link
           b == View(I, s, k)
<1>1. /\ k \in Keys /\ Loaded(I, k) /\ I[k] \in Rowed /\ b \in Bounds
      /\ IF b # NoBinding THEN p = BoundPlacement(I[k], k, b)
         ELSE p = Shared(I[k], k, k, "Created") /\ Offered(I[k], s)
      BY ProjectRow
<1>2. I[k] # NoItem /\ k \in SyncKeys
      BY <1>1 DEF Loaded, StoreOK
<1>3. k \in Handles /\ ~IsReal(k)
      BY <1>2, HandleKinds
<1>4. I[k].object \in Nat /\ I[k].flags \in FlagSets
      BY <1>1 DEF Rowed, HubItems
<1>5. Mutable => I[k].object \in w.written
      BY <1>1, <1>2 DEF StoreOK, Bodied, Has
<1>6. /\ \A j \in Keys : Under(I, s, j, k) => j = k
      /\ \A j \in Keys : b # NoBinding /\ Under(I, s, j, b.handle) => j = k
  <2>1. \A j \in Keys : Under(I, s, j, k) => j = k
        BY <1>3 DEF StoreOK, Under, Grounded
  <2>2. \A j \in Keys : b # NoBinding /\ Under(I, s, j, b.handle) => j = k
        BY <1>1 DEF StoreOK
  <2> QED BY <2>1, <2>2
<1>7. CASE b # NoBinding
  <2>1. b \in Bindings(Handles) /\ Grounded(w, b, s, k)
        BY <1>1, <1>7 DEF Bounds, StoreOK
  <2>2. /\ b.handle \in Handles /\ b.conflictRevision \in Nat /\ b.conflictObject \in Nat
        /\ b.base \in Bases \cup {NoBase}
        BY <2>1 DEF Bindings
  <2>3. p = [handle |-> b.handle, link |-> k, object |-> I[k].object,
             flags |-> I[k].flags, status |-> BoundStatus(I[k], b),
             conflictRevision |-> b.conflictRevision,
             conflictObject |-> b.conflictObject, base |-> b.base]
        BY <1>1, <1>7, ProjectColumns
  <2>4. BoundStatus(I[k], b) \in Statuses
        BY DEF BoundStatus, Statuses
  <2>5. /\ p.handle = b.handle /\ p.object = I[k].object /\ p.flags = I[k].flags
        /\ p.status = BoundStatus(I[k], b) /\ p.conflictRevision = b.conflictRevision
        /\ p.conflictObject = b.conflictObject /\ p.base = b.base
        BY <2>3
  <2>6. p \in Rows
        BY <1>2, <1>4, <2>2, <2>3, <2>4 DEF Rows, Placements
  <2> HIDE DEF b
  <2>7. Told(w, p)
        BY <2>1, <2>5 DEF Grounded, Told
  <2>8. Grounded(w, p, s, k)
        BY <2>1, <2>5, <2>7 DEF Grounded
  <2>9. Exact => (p.status # "Conflict" => p.conflictRevision = NoRev)
    <3>1. Exact /\ I[k].deleted => b.conflictRevision = NoRev
          BY <1>1, <1>7 DEF StoreOK, b
    <3> QED BY <2>5, <3>1 DEF BoundStatus
  <2>10. RowOK(w, s, p)
        BY <1>5, <2>5, <2>6, <2>8, <2>9 DEF RowOK
  <2>11. Matches(b, p)
        BY <2>5 DEF Matches
  <2>12. (p.base = NoBase => p.status \in {"Created", "Conflict", "Tombstone"})
         /\ (p.base # NoBase => p.status # "Created")
        BY <2>5 DEF BoundStatus
  <2>13. ASSUME NEW ex, Tracked(I, w, s, ex), p.base # NoBase
         PROVE  p.handle[2] \in ex \/ Known(w, p)
    <3>1. b.handle[2] \in ex \/ Known(w, b)
          BY <1>1, <1>7, <2>5, <2>13 DEF Tracked, b
    <3> QED BY <2>5, <3>1 DEF Known
  <2>14. ASSUME NEW q, q.link = p.link, q.handle = p.handle
         PROVE  Mints(I, w, s, q)
        BY <1>2, <2>5, <2>14 DEF Mints, Under, b
  <2>15. \A j \in Keys : Under(I, s, j, p.handle) => j = k
        BY <1>6, <1>7, <2>5
  <2> QED BY <1>2, <1>7, <2>5, <2>10, <2>11, <2>12, <2>13, <2>14, <2>15 DEF Agree, b
<1>8. CASE b = NoBinding
  <2>1. p = [handle |-> k, link |-> k, object |-> I[k].object,
             flags |-> I[k].flags, status |-> "Created",
             conflictRevision |-> NoRev, conflictObject |-> NoBody, base |-> NoBase]
        BY <1>1, <1>8, ProjectColumns
  <2>2. /\ p.handle = k /\ p.object = I[k].object /\ p.status = "Created"
        /\ p.conflictRevision = NoRev /\ p.base = NoBase
        BY <2>1
  <2>3. p \in Rows
        BY <1>2, <1>3, <1>4, <2>1 DEF Rows, Placements, Statuses, NoRev, NoBody
  <2>4. Grounded(w, p, s, k)
        BY <2>2 DEF Grounded, Told
  <2>5. RowOK(w, s, p)
        BY <1>5, <2>2, <2>3, <2>4 DEF RowOK
  <2>6. ASSUME NEW q, q.link = p.link, q.handle = p.handle
        PROVE  Mints(I, w, s, q)
        BY <1>2, <1>8, <2>6 DEF Mints, Under
  <2> QED BY <1>2, <1>6, <1>8, <2>2, <2>5, <2>6 DEF Agree
<1> QED BY <1>7, <1>8

-----------------------------------------------------------------------------
(* What a person does.                                                     *)

(* What a person owes the servers moves nothing of them.                   *)
LEMMA Acted ==
    ASSUME Inv, srv' = srv, body' \in Nat, body <= body', NoBody \notin owed',
           Mutable => (owed' \cap (0..body)) \subseteq owed
    PROVE  /\ ServersOK(World') /\ Evolves(World, World') /\ Sound(items, World', changed)
           /\ items \in Stores
<1> DEFINE w == World
           v == World'
<1>1. ServersOK(w) /\ body \in Nat /\ Sound(items, w, changed)
      BY DEF Inv
<1>2. w = Seen(srv, body, owed) /\ v = Seen(srv, body', owed')
      BY DEF World
<1>3. ServersOK(v) /\ Evolves(w, v) /\ \A s, ns : Moved(w, v, s, ns)
      BY <1>1, <1>2, SeenGrows
<1> HIDE DEF w, v
<1>4. /\ StoreOK(items, v)
      /\ \A s \in Sources : \A a, b :
              Tracked(items, w, s, a) /\ a \subseteq b /\ Moved(w, v, s, b)
                => Tracked(items, v, s, b)
      BY <1>1, <1>3, StoreEvolves DEF Sound
<1>5. Sound(items, v, changed)
      BY <1>1, <1>3, <1>4 DEF Sound
<1> QED BY <1>3, <1>4, <1>5 DEF w, v, StoreOK

(* A batch staged while no run is under way.                               *)
LEMMA StagedInv ==
    ASSUME Inv, Idle', srv' = srv, changed' = changed, body' \in Nat, body <= body',
           owed' \subseteq Nat, NoBody \notin owed',
           Mutable => owed' \subseteq 1..body' /\ (owed' \cap (0..body)) \subseteq owed,
           NEW W, items' = Save(items, W), Sound(W, World', changed)
    PROVE  Inv'
<1> DEFINE v == World'
           J == items'
<1>1. ServersOK(v) /\ Sound(items, v, changed) /\ items \in Stores
      BY Acted
<1>2. Sound(W, v, changed) /\ W \in Stores
      BY DEF Sound, StoreOK
<1>3. J = Save(items, W)
      OBVIOUS
<1> HIDE DEF v, J
<1>4. Saved(W, J)
      BY <1>1, <1>2, <1>3, SaveEffect
<1>5. Mutable => Bodied(J, v.written)
      BY <1>1, <1>2, <1>3, SaveHas DEF Sound, StoreOK
<1>6. Sound(J, v, changed)
  <2>1. /\ StoreOK(J, v)
        /\ \A t \in Sources : \A except : Tracked(W, v, t, except) => Tracked(J, v, t, except)
        BY <1>1, <1>2, <1>4, <1>5, StoreSaved DEF Sound
  <2> QED BY <1>2, <2>1 DEF Sound
<1>7. changed' \in [Sources -> SUBSET Numbers]
      BY DEF Inv
<1> QED BY <1>1, <1>6, <1>7 DEF Inv, v, J

(* A row rewritten.                                                        *)
LEMMA RowStaged ==
    ASSUME NEW w, NEW ch, NEW s \in Sources, NEW G \in Batches, NEW q, NEW ws,
           ServersOK(w), Sound(G.items, w, ch), Chain(ws, q, q), ws # << >>, RowOK(w, s, q),
           \A k \in Keys : Under(G.items, s, k, q.handle) => k = q.link,
           Mints(G.items, w, s, q), Mutable => Wrote(ws, w.written),
           q.base # NoBase => q.handle[2] \in ch[s] \/ Known(w, q)
    PROVE  LET H == FoldFrom(G, s, ws)
           IN  H \in Batches /\ Placed(G.items, H.items, s, q) /\ Sound(H.items, w, ch)
<1> DEFINE H == FoldFrom(G, s, ws)
           I == G.items
           J == H.items
<1>1. q \in Rows /\ ws \in Seq(Writes) /\ StoreOK(I, w)
      BY DEF RowOK, Chain, Sound
<1>2. H \in Batches /\ Placed(I, J, s, q)
      BY <1>1, ChainEffect
<1>3. Mutable => Bodied(J, w.written)
  <2>1. NoBody \in w.written
        BY DEF ServersOK
  <2>2. Mutable => Bodied(I, w.written)
        BY <1>1 DEF StoreOK
  <2> QED BY <1>1, <2>1, <2>2, FoldHas
<1> HIDE DEF H
<1>4. /\ StoreOK(J, w)
      /\ \A t \in Sources : \A except :
           /\ Tracked(I, w, t, except)
           /\ (t = s /\ q.base # NoBase) => q.handle[2] \in except \/ Known(w, q)
           => Tracked(J, w, t, except)
      BY <1>1, <1>2, <1>3, StorePlaced
<1>5. Sound(J, w, ch)
      BY <1>4 DEF Sound
<1> QED BY <1>2, <1>5 DEF H

(* A person's batch is one.                                                *)
LEMMA StageIs ==
    ASSUME NEW s, NEW batch, Stage(s, batch)
    PROVE  /\ Idle /\ Idle' /\ srv' = srv /\ changed' = changed
           /\ items' = Save(items, Fold(items, s, batch).items)
<1> DEFINE new == Write(items, kept, s, batch)
<1>1. new.items = Save(items, Fold(items, s, batch).items)
      BY DEF Write, Written
<1>2. Idle /\ run' = run /\ srv' = srv /\ changed' = changed /\ Stored(new)
      BY DEF Stage, servers
<1> HIDE DEF new
<1> QED BY <1>1, <1>2 DEF Stored, Idle

(* Adding an item keeps the invariant.                                     *)
LEMMA AddItemInv ==
    ASSUME Inv, NEW s \in Sources, NEW l \in Links, AddItem(s, l) PROVE Inv'
<1> DEFINE k == Hint(l)
           b == NewBody(l)
           q == [handle |-> k, link |-> k, object |-> b, flags |-> {},
                 status |-> "Created", conflictRevision |-> NoRev,
                 conflictObject |-> NoBody, base |-> NoBase]
           ws == <<Upsert(q)>>
           G == Batch(items)
<1>1. /\ Stage(s, ws) /\ body' = IF Mutable THEN b ELSE body
      /\ \E older : owed' = (owed \ older) \cup ({b} \ {srv[n].body : n \in Used})
      BY DEF AddItem
<1>2. body \in Nat /\ owed \subseteq Nat /\ (Mutable => owed \subseteq 1..body)
      /\ NoBody \notin owed
  <2>1. NoBody \in World.given
        BY DEF Inv, ServersOK
  <2> QED BY <2>1 DEF Inv, World, Seen
<1>3. b \in Nat /\ b # NoBody
      BY <1>2, LinksAssumption DEF NewBody, NoBody
<1>4. Mutable => b = body + 1
      BY DEF NewBody
<1> HIDE DEF b
<1>5. body' \in Nat /\ body <= body' /\ (Mutable => body' = b)
      BY <1>1, <1>2, <1>3, <1>4
<1>6. /\ owed' \subseteq Nat /\ NoBody \notin owed'
      /\ Mutable => owed' \subseteq 1..body' /\ (owed' \cap (0..body)) \subseteq owed
  <2>1. owed' \subseteq owed \cup {b}
        BY <1>1
  <2>2. Mutable => b \in 1..body' /\ b \notin 0..body /\ 1..body \subseteq 1..body'
        BY <1>2, <1>4, <1>5
  <2> QED BY <1>2, <1>3, <2>1, <2>2
<1>7. /\ Idle' /\ srv' = srv /\ changed' = changed
      /\ items' = Save(items, Fold(items, s, ws).items)
  <2> HIDE DEF ws
  <2> QED BY <1>1, StageIs
<1>8. ServersOK(World') /\ Sound(items, World', changed) /\ items \in Stores
      BY <1>5, <1>6, <1>7, Acted
<1>9. k \in SyncKeys /\ k[2] = 0
      BY DEF SyncKeys, Hint
<1>10. k \in Handles /\ ~IsReal(k)
      BY <1>9, HandleKinds
<1>11. /\ q \in Rows /\ q.handle = k /\ q.link = k /\ q.object = b /\ q.base = NoBase
       /\ q.conflictRevision = NoRev
  <2>1. {} \in FlagSets
        BY DEF FlagSets
  <2> QED BY <1>3, <1>9, <1>10, <2>1 DEF Rows, Placements, Statuses, NoRev, NoBody
<1> HIDE DEF q, k
<1> DEFINE w == World'
<1>12. Mutable => b \in w.written
  <2>1. w.written = 0..body'
        BY DEF World, Seen
  <2> QED BY <1>3, <1>5, <2>1
<1>13. ServersOK(w) /\ Sound(items, w, changed)
      BY <1>8
<1> HIDE DEF w
<1>14. Grounded(w, q, s, q.link)
      BY <1>11 DEF Grounded, Told
<1>15. RowOK(w, s, q)
      BY <1>11, <1>12, <1>14 DEF RowOK
<1>16. Chain(ws, q, q) /\ ws # << >> /\ (Mutable => Wrote(ws, w.written))
      BY <1>11, <1>12, Chains, OneWrite
<1> HIDE DEF ws
<1>17. G \in Batches /\ G.items = items /\ Fold(items, s, ws) = FoldFrom(G, s, ws)
      BY <1>8, FoldType DEF Fold
<1> HIDE DEF G
<1>18. \A j \in Keys : Under(items, s, j, q.handle) => j = q.link
  <2>1. StoreOK(items, w)
        BY <1>13 DEF Sound
  <2> QED BY <1>10, <1>11, <2>1 DEF StoreOK, Under, Grounded
<1>19. Mints(items, w, s, q)
      BY <1>9, <1>11 DEF Mints
<1>20. Sound(FoldFrom(G, s, ws).items, w, changed)
      BY <1>11, <1>13, <1>15, <1>16, <1>17, <1>18, <1>19, RowStaged
<1>21. Sound(Fold(items, s, ws).items, World', changed)
      BY <1>17, <1>20 DEF w
<1> QED BY <1>5, <1>6, <1>7, <1>21, StagedInv

(* A row whose base and divergence stay is as good as it was.              *)
LEMMA Restated ==
    ASSUME NEW w, NEW s, NEW p, NEW q \in Rows, RowOK(w, s, p),
           q.handle = p.handle, q.link = p.link, q.base = p.base,
           q.conflictRevision = p.conflictRevision, q.conflictObject = p.conflictObject,
           Exact => (q.status # "Conflict" => q.conflictRevision = NoRev),
           Mutable => q.object \in w.written
    PROVE  RowOK(w, s, q) /\ (Known(w, p) => Known(w, q))
<1>1. Told(w, q)
      BY DEF RowOK, Grounded, Told
<1>2. Grounded(w, q, s, q.link)
      BY <1>1 DEF RowOK, Grounded
<1> QED BY <1>2 DEF RowOK, Known

(* The base adopts what the conflict recorded, which is as true.           *)
LEMMA Adopted ==
    ASSUME NEW w, NEW s, NEW p, ServersOK(w), RowOK(w, s, p)
    PROVE  LET a == Adopt(p)
           IN  /\ RowOK(w, s, a) /\ a \in Rows /\ a.handle = p.handle /\ a.link = p.link
               /\ a.object = p.object /\ a.conflictRevision = NoRev
               /\ a.base = NoBase <=> p.base = NoBase
               /\ Known(w, p) /\ p.base # NoBase => Known(w, a)
<1> DEFINE a == Adopt(p)
<1>1. p \in Rows /\ Grounded(w, p, s, p.link)
      BY DEF RowOK
<1>2. CASE p.conflictRevision = NoRev
  <2>1. a = p
        BY <1>2 DEF Adopt
  <2> QED BY <1>1, <1>2, <2>1
<1>3. CASE p.conflictRevision # NoRev
  <2>1. p.base # NoBase
        BY <1>1, <1>3 DEF Grounded
  <2> DEFINE base == [flags |-> p.base.flags, revision |-> p.conflictRevision,
                      object |-> p.conflictObject]
  <2>2. a = [p EXCEPT !.conflictRevision = NoRev, !.conflictObject = NoBody, !.base = base]
        BY <1>3, <2>1 DEF Adopt
  <2>3. /\ base \in Bases /\ base.revision = p.conflictRevision
        /\ base.object = p.conflictObject
        BY <1>1, <2>1, Based DEF Bases
  <2>4. base # NoBase
        BY <2>3, AbsentAssumption
  <2> HIDE DEF base, a
  <2>5. /\ a \in Rows /\ a.handle = p.handle /\ a.link = p.link /\ a.object = p.object
        /\ a.conflictRevision = NoRev /\ a.base = base
        BY <1>1, <2>2, <2>3 DEF Rows, Placements, NoRev, NoBody
  <2>6. p.handle \in Handles
        BY <1>1, Based
  <2> DEFINE m == w.srv[p.handle[2]]
  <2>7. /\ IsReal(p.handle) /\ m # NoMember /\ m.source = s /\ m.link = p.link[1]
        /\ m.revision \in Nat
        /\ Mutable => m.revision # NoRev
        /\ p.conflictRevision <= m.revision
        /\ (Mutable /\ p.conflictRevision = m.revision) => p.conflictObject \in {NoBody, m.body}
        /\ Told(w, p)
        BY <1>1, <2>1, <2>6, Anchored
  <2>8. Told(w, a)
        BY <1>3, <2>3, <2>5, <2>7 DEF Told
  <2>9. Grounded(w, a, s, a.link)
        BY <2>3, <2>4, <2>5, <2>7, <2>8 DEF Grounded, NoRev
  <2>10. RowOK(w, s, a)
        BY <2>5, <2>9 DEF RowOK
  <2>11. Known(w, p) => Known(w, a)
        BY <1>3, <2>3, <2>5 DEF Known
  <2> QED BY <2>1, <2>4, <2>5, <2>10, <2>11 DEF a
<1> QED BY <1>2, <1>3

(* A person rewrites a row, past what only licenses it.                    *)
LEMMA RewriteInv ==
    ASSUME Inv, NEW s \in Sources, NEW p \in Project(items, s), NEW pre \in Seq(Writes), NEW q,
           Idle', srv' = srv, changed' = changed, body' \in Nat, body <= body',
           owed' \subseteq Nat, NoBody \notin owed',
           Mutable => owed' \subseteq 1..body' /\ (owed' \cap (0..body)) \subseteq owed,
           FoldFrom(Batch(items), s, pre).items = items, NEW ws, Chain(ws, q, q), ws # << >>,
           q.link = p.link, q.handle = p.handle, RowOK(World', s, q),
           Mutable => Wrote(ws, World'.written),
           q.base # NoBase => q.handle[2] \in changed[s] \/ Known(World', q),
           items' = Save(items, Fold(items, s, pre \o ws).items)
    PROVE  Inv'
<1> DEFINE w == World'
           G == FoldFrom(Batch(items), s, pre)
<1>1. ServersOK(w) /\ Sound(items, w, changed) /\ items \in Stores
      BY Acted
<1>2. RowOK(w, s, q) /\ (Mutable => Wrote(ws, w.written))
      /\ (q.base # NoBase => q.handle[2] \in changed[s] \/ Known(w, q))
      OBVIOUS
<1> HIDE DEF w
<1>3. /\ \A k \in Keys : Under(items, s, k, q.handle) => k = q.link
      /\ Mints(items, w, s, q)
      BY <1>1, Projected DEF Sound
<1>4. G \in Batches /\ G.items = items /\ Fold(items, s, pre \o ws) = FoldFrom(G, s, ws)
  <2>1. ws \in Seq(Writes)
        BY DEF Chain
  <2> QED BY <1>1, <2>1, FoldType DEF Fold
<1> HIDE DEF G
<1>5. Sound(FoldFrom(G, s, ws).items, w, changed)
      BY <1>1, <1>2, <1>3, <1>4, RowStaged
<1>6. Sound(Fold(items, s, pre \o ws).items, World', changed)
      BY <1>4, <1>5 DEF w
<1> QED BY <1>6, StagedInv

(* Nothing before, or a licence.                                           *)
LEMMA Licences ==
    ASSUME NEW s \in Sources, NEW I \in Stores, NEW h \in Handles, NEW a, NEW b,
           a \in {<< >>, <<Overrule(h)>>}, b \in {<< >>, <<Settle(h)>>}
    PROVE  a \o b \in Seq(Writes) /\ FoldFrom(Batch(I), s, a \o b).items = I
<1> DEFINE o == Overrule(h)
           g == Settle(h)
<1>1. o \in Writes /\ g \in Writes /\ o.op = "Overrule" /\ g.op = "Settle"
      BY DEF Writes, Overrule, Settle
<1>2. a \in {<< >>, <<o>>} /\ b \in {<< >>, <<g>>}
      OBVIOUS
<1> HIDE DEF o, g
<1>3. a \in Seq(Writes) /\ b \in Seq(Writes)
  <2>1. << >> \in Seq(Writes) /\ <<o>> \in Seq(Writes) /\ <<g>> \in Seq(Writes)
        BY <1>1
  <2> QED BY <1>2, <2>1
<1>4. Batch(I) \in Batches /\ Batch(I).items = I
      BY FoldType
<1>5. ASSUME NEW F \in Batches, NEW op \in Writes, op.op \in {"Overrule", "Settle"}
      PROVE  /\ FoldFrom(F, s, <<op>>) \in Batches /\ FoldFrom(F, s, <<op>>).items = F.items
             /\ FoldFrom(F, s, << >>) = F
      BY <1>5, AbsorbType, FoldFromOne
<1>6. FoldFrom(Batch(I), s, a) \in Batches /\ FoldFrom(Batch(I), s, a).items = I
      BY <1>1, <1>2, <1>4, <1>5
<1>7. FoldFrom(FoldFrom(Batch(I), s, a), s, b).items = I
      BY <1>1, <1>2, <1>5, <1>6
<1>8. a \o b \in Seq(Writes)
      BY <1>3, Concat
<1>9. FoldFrom(Batch(I), s, a \o b) = FoldFrom(FoldFrom(Batch(I), s, a), s, b)
      BY <1>3, FoldFromConcat
<1> QED BY <1>7, <1>8, <1>9

(* Setting flags keeps the invariant.                                      *)
LEMMA SetFlagsInv ==
    ASSUME Inv, NEW s \in Sources, NEW p \in Project(items, s), NEW flags \in SUBSET Flags,
           SetFlags(s, p, flags)
    PROVE  Inv'
<1> DEFINE st == IF p.status = "Clean" THEN "Dirty" ELSE p.status
           q == [p EXCEPT !.flags = flags, !.status = st]
           ws == <<Upsert(q)>>
           pre == << >>
<1>1. Stage(s, ws) /\ body' = body /\ owed' = owed
      BY DEF SetFlags
<1>2. /\ Idle' /\ srv' = srv /\ changed' = changed
      /\ items' = Save(items, Fold(items, s, ws).items)
  <2> HIDE DEF ws
  <2> QED BY <1>1, StageIs
<1>3. World' = World
      BY <1>1, <1>2 DEF World
<1>4. /\ ServersOK(World) /\ body \in Nat /\ owed \subseteq Nat /\ (Mutable => owed \subseteq 1..body)
      /\ NoBody \notin owed /\ StoreOK(items, World) /\ Tracked(items, World, s, changed[s])
  <2>1. NoBody \in World.given
        BY DEF Inv, ServersOK
  <2> QED BY <2>1 DEF Inv, World, Seen, Sound
<1>5. /\ RowOK(World, s, p) /\ p \in Rows
      /\ p.base # NoBase => p.handle[2] \in changed[s] \/ Known(World, p)
      BY <1>4, Projected DEF RowOK
<1>6. st \in Statuses /\ flags \in FlagSets
      BY <1>5, Based DEF Statuses, FlagSets
<1>7. st # "Conflict" => p.status # "Conflict"
      OBVIOUS
<1> HIDE DEF st
<1>8. /\ q \in Rows /\ q.handle = p.handle /\ q.link = p.link /\ q.base = p.base
      /\ q.conflictRevision = p.conflictRevision /\ q.conflictObject = p.conflictObject
      /\ q.object = p.object /\ q.status = st
      BY <1>5, <1>6 DEF Rows, Placements
<1> HIDE DEF q
<1>9. RowOK(World, s, q) /\ (Known(World, p) => Known(World, q))
  <2>1. Exact => (q.status # "Conflict" => q.conflictRevision = NoRev)
        BY <1>5, <1>7, <1>8 DEF RowOK
  <2>2. Mutable => q.object \in World.written
        BY <1>5, <1>8 DEF RowOK
  <2> QED BY <1>5, <1>8, <2>1, <2>2, Restated
<1>10. Chain(ws, q, q) /\ ws # << >> /\ (Mutable => Wrote(ws, World.written))
      BY <1>8, <1>9, Chains, OneWrite DEF RowOK
<1>11. pre \in Seq(Writes) /\ FoldFrom(Batch(items), s, pre).items = items /\ pre \o ws = ws
  <2>1. ws \in Seq(Writes)
        BY <1>10 DEF Chain
  <2>2. Batch(items).items = items
        BY DEF Batch
  <2> HIDE DEF ws
  <2>3. << >> \o ws = ws /\ << >> \in Seq(Writes)
        BY <2>1
  <2>4. FoldFrom(Batch(items), s, << >>) = Batch(items)
        BY FoldFromOne
  <2> QED BY <2>2, <2>3, <2>4
<1> HIDE DEF ws, pre
<1>12. /\ body <= body' /\ body' \in Nat /\ owed' \subseteq Nat /\ NoBody \notin owed'
       /\ Mutable => owed' \subseteq 1..body' /\ (owed' \cap (0..body)) \subseteq owed
      BY <1>1, <1>4
<1>13. RowOK(World', s, q) /\ (Mutable => Wrote(ws, World'.written))
       /\ (q.base # NoBase => q.handle[2] \in changed[s] \/ Known(World', q))
      BY <1>3, <1>5, <1>8, <1>9, <1>10
<1>14. items' = Save(items, Fold(items, s, pre \o ws).items)
      BY <1>2, <1>11
<1> QED BY <1>2, <1>8, <1>10, <1>11, <1>12, <1>13, <1>14, RewriteInv

(* Nothing before a batch.                                                 *)
LEMMA Unlicensed ==
    ASSUME NEW s, NEW I, NEW ws \in Seq(Writes)
    PROVE  /\ << >> \in Seq(Writes) /\ FoldFrom(Batch(I), s, << >>).items = I
           /\ << >> \o ws = ws /\ ws \o << >> = ws
<1>1. Batch(I).items = I
      BY DEF Batch
<1>2. FoldFrom(Batch(I), s, << >>) = Batch(I)
      BY FoldFromOne
<1> QED BY <1>1, <1>2

(* A row written and its binding dropped again.                            *)
LEMMA WithdrawnStaged ==
    ASSUME NEW w, NEW ch, NEW s \in Sources, NEW I \in Stores, NEW q,
           ServersOK(w), Sound(I, w, ch), RowOK(w, s, q), q.base = NoBase,
           \A k \in Keys : Under(I, s, k, q.handle) => k = q.link, Mints(I, w, s, q)
    PROVE  Sound(Fold(I, s, <<Upsert(q)>> \o <<Drop(q.handle, "Deleted")>>).items, w, ch)
<1> DEFINE u == <<Upsert(q)>>
           d == <<Drop(q.handle, "Deleted")>>
           G == Batch(I)
           H == FoldFrom(G, s, u)
           K == FoldFrom(H, s, d)
           k == q.link
<1>1. /\ q \in Rows /\ k \in SyncKeys /\ k \in Keys /\ q.handle = k /\ ~IsReal(k)
      /\ q.handle \in Handles /\ "Deleted" \in Reasons
      BY Based, HandleKinds DEF RowOK, Grounded, Reasons
<1>2. Chain(u, q, q) /\ u # << >> /\ (Mutable => Wrote(u, w.written)) /\ u \in Seq(Writes)
      BY <1>1, Chains, OneWrite DEF RowOK, Chain
<1>3. G \in Batches /\ G.items = I
      BY FoldType
<1>4. d \in Seq(Writes) /\ Wrote(d, w.written)
  <2> DEFINE x == Drop(q.handle, "Deleted")
  <2>1. x \in Writes /\ x.op = "Drop"
        BY <1>1 DEF Writes, Drop
  <2> HIDE DEF x
  <2>2. <<x>> \in Seq(Writes) /\ Len(<<x>>) = 1 /\ <<x>>[1] = x
        BY <2>1
  <2>3. \A i \in 1..1 : i = 1
        OBVIOUS
  <2>4. Wrote(<<x>>, w.written)
        BY <2>1, <2>2, <2>3 DEF Wrote
  <2> QED BY <2>2, <2>4 DEF x
<1>5. Fold(I, s, u \o d) = K
  <2> HIDE DEF u, d
  <2> QED BY <1>2, <1>4, FoldFromConcat DEF Fold
<1> HIDE DEF G, u
<1>6. H \in Batches /\ Placed(I, H.items, s, q) /\ Sound(H.items, w, ch)
      BY <1>2, <1>3, RowStaged
<1> HIDE DEF H
<1>7. /\ StoreOK(H.items, w) /\ H.items \in Stores
      /\ Loaded(H.items, k) /\ H.items[k] # NoItem
      /\ View(H.items, s, k) # NoBinding /\ View(H.items, s, k).handle = k
      BY <1>1, <1>6, AbsentAssumption DEF Sound, StoreOK, Placed, Loaded, Matches
<1>8. \A j \in Keys : Under(H.items, s, j, q.handle) => j = k
      BY <1>1, <1>7 DEF StoreOK, Under, Grounded
<1>9. Under(H.items, s, k, q.handle)
      BY <1>1, <1>7 DEF Under
<1>10. Removed(H.items, K.items, s, k)
      BY <1>1, <1>6, <1>8, <1>9, DropOne
<1> HIDE DEF d
<1>11. Mutable => Bodied(K.items, w.written)
  <2>1. NoBody \in w.written
        BY DEF ServersOK
  <2>2. Mutable => Bodied(H.items, w.written)
        BY <1>7 DEF StoreOK
  <2> QED BY <1>4, <1>6, <2>1, <2>2, FoldHas
<1> HIDE DEF K
<1>12. ~Under(H.items, s, k, Real(k[2]))
      BY <1>1, <1>7 DEF Under, Real, IsReal
<1>13. /\ StoreOK(K.items, w)
       /\ \A t \in Sources : \A except : Tracked(H.items, w, t, except) => Tracked(K.items, w, t, except)
      BY <1>1, <1>7, <1>10, <1>11, <1>12, StoreRemoved
<1>14. Sound(K.items, w, ch)
      BY <1>6, <1>13 DEF Sound
<1> QED BY <1>5, <1>14 DEF u, d

(* Removing an item keeps the invariant.                                   *)
LEMMA RemoveItemInv ==
    ASSUME Inv, NEW s \in Sources, NEW p \in Project(items, s), RemoveItem(s, p)
    PROVE  Inv'
<1> DEFINE a == Adopt(p)
           q == [a EXCEPT !.status = "Tombstone"]
           u == <<Upsert(q)>>
           d == IF q.base = NoBase THEN <<Drop(p.handle, "Deleted")>> ELSE << >>
<1>1. Stage(s, u \o d) /\ body' = body /\ owed' \subseteq owed
      BY DEF RemoveItem
<1>2. /\ Idle' /\ srv' = srv /\ changed' = changed
      /\ items' = Save(items, Fold(items, s, u \o d).items)
  <2> HIDE DEF u, d
  <2> QED BY <1>1, StageIs
<1>3. /\ body \in Nat /\ owed \subseteq Nat /\ (Mutable => owed \subseteq 1..body)
      /\ NoBody \notin owed
  <2>1. NoBody \in World.given
        BY DEF Inv, ServersOK
  <2> QED BY <2>1 DEF Inv, World, Seen
<1>4. /\ body <= body' /\ body' \in Nat /\ owed' \subseteq Nat /\ NoBody \notin owed'
      /\ Mutable => owed' \subseteq 1..body' /\ (owed' \cap (0..body)) \subseteq owed
  <2>1. body <= body' /\ body' \in Nat /\ 1..body' = 1..body
        BY <1>1, <1>3
  <2>2. owed' \subseteq Nat /\ NoBody \notin owed' /\ (owed' \cap (0..body)) \subseteq owed
        BY <1>1, <1>3
  <2>3. Mutable => owed' \subseteq 1..body
        BY <1>1, <1>3
  <2> QED BY <2>1, <2>2, <2>3
<1> DEFINE w == World'
<1>5. ServersOK(w) /\ Sound(items, w, changed) /\ items \in Stores
      BY <1>2, <1>4, Acted
<1> HIDE DEF w
<1>6. /\ RowOK(w, s, p) /\ p \in Rows
      /\ p.base # NoBase => p.handle[2] \in changed[s] \/ Known(w, p)
      /\ \A k \in Keys : Under(items, s, k, p.handle) => k = p.link
      /\ \A r : r.link = p.link /\ r.handle = p.handle => Mints(items, w, s, r)
      BY <1>5, Projected DEF Sound, RowOK
<1>7. /\ RowOK(w, s, a) /\ a \in Rows /\ a.handle = p.handle /\ a.link = p.link
      /\ a.object = p.object /\ a.conflictRevision = NoRev
      /\ a.base = NoBase <=> p.base = NoBase
      /\ Known(w, p) /\ p.base # NoBase => Known(w, a)
      BY <1>5, <1>6, Adopted
<1> HIDE DEF a
<1>8. /\ q \in Rows /\ q.handle = a.handle /\ q.link = a.link /\ q.base = a.base
      /\ q.conflictRevision = a.conflictRevision /\ q.conflictObject = a.conflictObject
      /\ q.object = a.object
      BY <1>7 DEF Rows, Placements, Statuses
<1> HIDE DEF q
<1>9. RowOK(w, s, q) /\ (Known(w, a) => Known(w, q))
  <2>1. Mutable => q.object \in w.written
        BY <1>7, <1>8 DEF RowOK
  <2> QED BY <1>7, <1>8, <2>1, Restated
<1>10. CASE q.base = NoBase
  <2>1. d = <<Drop(q.handle, "Deleted")>>
        BY <1>7, <1>8, <1>10
  <2>2. \A k \in Keys : Under(items, s, k, q.handle) => k = q.link
        BY <1>6, <1>7, <1>8
  <2>3. Mints(items, w, s, q)
        BY <1>6, <1>7, <1>8
  <2>4. Sound(Fold(items, s, u \o <<Drop(q.handle, "Deleted")>>).items, w, changed)
        BY <1>5, <1>9, <1>10, <2>2, <2>3, WithdrawnStaged
  <2> HIDE DEF u, d
  <2>5. Sound(Fold(items, s, u \o d).items, World', changed)
        BY <2>1, <2>4 DEF w
  <2> QED BY <1>2, <1>4, <2>5, StagedInv
<1>11. CASE q.base # NoBase
  <2>1. Chain(u, q, q) /\ u # << >> /\ (Mutable => Wrote(u, w.written)) /\ u \in Seq(Writes)
        BY <1>8, <1>9, Chains, OneWrite DEF RowOK, Chain
  <2> HIDE DEF u
  <2> DEFINE pre == << >>
  <2>2. pre \in Seq(Writes) /\ FoldFrom(Batch(items), s, pre).items = items
        /\ pre \o u = u /\ u \o pre = u
        BY <2>1, Unlicensed
  <2>3. d = pre
        BY <1>11
  <2> HIDE DEF d, pre
  <2>4. items' = Save(items, Fold(items, s, pre \o u).items)
        BY <1>2, <2>2, <2>3
  <2>5. q.link = p.link /\ q.handle = p.handle
        BY <1>7, <1>8
  <2>6. RowOK(World', s, q) /\ (Mutable => Wrote(u, World'.written))
        /\ (q.base # NoBase => q.handle[2] \in changed[s] \/ Known(World', q))
        BY <1>6, <1>7, <1>8, <1>9, <1>11, <2>1 DEF w
  <2> QED BY <1>2, <1>4, <2>1, <2>2, <2>4, <2>5, <2>6, RewriteInv
<1> QED BY <1>10, <1>11

(* Editing keeps the invariant, over a conflict or not.                    *)
LEMMA EditInv ==
    ASSUME Inv, NEW s \in Sources, NEW p \in Project(items, s), NEW b \in 1..(body + 1),
           NEW overrule \in BOOLEAN, Edit(s, p, b, overrule)
    PROVE  Inv'
<1> DEFINE settling == ~overrule /\ items[p.link].conflicted
           a == Adopt(p)
           st == IF a.status # "Created" /\ ((a.base = NoBase \/ a.base.object # b)
                                             \/ p.conflictRevision # NoRev)
                 THEN "Dirty" ELSE a.status
           q == [a EXCEPT !.object = b, !.status = st]
           ov == IF overrule THEN <<Overrule(p.handle)>> ELSE << >>
           se == IF settling THEN <<Settle(p.handle)>> ELSE << >>
           u == <<Upsert(q)>>
<1>1. /\ Mutable /\ Stage(s, ov \o se \o u) /\ body' = IF b = body + 1 THEN b ELSE body
      /\ owed' \subseteq owed \cup {b} /\ (b \in owed' => b = body + 1 \/ b \in owed)
  <2>1. Edited(p, b) = q
        BY DEF Edited
  <2>2. Stage(s, ov \o se \o <<Upsert(Edited(p, b))>>)
        BY DEF Edit
  <2>3. Mutable /\ body' = IF b = body + 1 THEN b ELSE body
        BY DEF Edit
  <2>4. \E left : left \subseteq owed
                  /\ owed' = IF b = body + 1 \/ b \in owed THEN left \cup {b} ELSE left
        BY DEF Edit
  <2> QED BY <2>1, <2>2, <2>3, <2>4
<1>2. body \in Nat /\ owed \subseteq Nat /\ owed \subseteq 1..body /\ NoBody \notin owed
  <2>1. NoBody \in World.given
        BY DEF Inv, ServersOK
  <2> QED BY <1>1, <2>1 DEF Inv, World, Seen
<1>3. b \in Nat /\ b # NoBody /\ b <= body + 1
      BY <1>2 DEF NoBody
<1>4. body' \in Nat /\ body <= body' /\ b <= body' /\ 1..body \subseteq 1..body'
      BY <1>1, <1>2, <1>3
<1>5. /\ owed' \subseteq Nat /\ NoBody \notin owed'
      /\ owed' \subseteq 1..body' /\ (owed' \cap (0..body)) \subseteq owed
  <2>1. owed' \subseteq Nat /\ NoBody \notin owed' /\ owed' \subseteq 1..body'
        BY <1>1, <1>2, <1>3, <1>4 DEF NoBody
  <2>2. b = body + 1 => b \notin 0..body
        BY <1>2
  <2> QED BY <1>1, <2>1, <2>2
<1>6. /\ Idle' /\ srv' = srv /\ changed' = changed
      /\ items' = Save(items, Fold(items, s, ov \o se \o u).items)
  <2> HIDE DEF u, ov, se
  <2> QED BY <1>1, StageIs
<1> DEFINE w == World'
<1>7. ServersOK(w) /\ Sound(items, w, changed) /\ items \in Stores
      BY <1>4, <1>5, <1>6, Acted
<1>8. w.written = 0..body'
      BY DEF World, Seen
<1> HIDE DEF w
<1>9. /\ RowOK(w, s, p) /\ p \in Rows /\ p.handle \in Handles
      /\ p.base # NoBase => p.handle[2] \in changed[s] \/ Known(w, p)
      BY <1>7, Projected, Based DEF Sound, RowOK
<1>10. /\ RowOK(w, s, a) /\ a \in Rows /\ a.handle = p.handle /\ a.link = p.link
       /\ a.conflictRevision = NoRev
       /\ a.base = NoBase <=> p.base = NoBase
       /\ Known(w, p) /\ p.base # NoBase => Known(w, a)
      BY <1>7, <1>9, Adopted
<1> HIDE DEF a
<1>11. st \in Statuses
      BY <1>10, Based DEF Statuses
<1> HIDE DEF st
<1>12. /\ q \in Rows /\ q.handle = a.handle /\ q.link = a.link /\ q.base = a.base
       /\ q.conflictRevision = a.conflictRevision /\ q.conflictObject = a.conflictObject
       /\ q.object = b
      BY <1>3, <1>10, <1>11 DEF Rows, Placements
<1> HIDE DEF q
<1>13. RowOK(w, s, q) /\ (Known(w, a) => Known(w, q)) /\ q.object \in w.written
  <2>1. q.object \in w.written
        BY <1>3, <1>4, <1>8, <1>12 DEF NoBody
  <2> QED BY <1>10, <1>12, <2>1, Restated
<1>14. Chain(u, q, q) /\ u # << >> /\ Wrote(u, w.written) /\ u \in Seq(Writes)
      BY <1>12, <1>13, Chains, OneWrite DEF Chain
<1>15. ov \o se \in Seq(Writes) /\ FoldFrom(Batch(items), s, ov \o se).items = items
  <2> DEFINE h == p.handle
  <2>1. /\ ov \in {<< >>, <<Overrule(h)>>} /\ se \in {<< >>, <<Settle(h)>>}
        /\ h \in Handles /\ items \in Stores
        BY <1>7, <1>9
  <2> HIDE DEF ov, se, h
  <2> QED BY <2>1, Licences
<1> HIDE DEF u, ov, se
<1>16. q.link = p.link /\ q.handle = p.handle
      BY <1>10, <1>12
<1>17. RowOK(World', s, q) /\ Wrote(u, World'.written)
       /\ (q.base # NoBase => q.handle[2] \in changed[s] \/ Known(World', q))
      BY <1>9, <1>10, <1>12, <1>13, <1>14 DEF w
<1> DEFINE pre == ov \o se
<1>18. items' = Save(items, Fold(items, s, pre \o u).items) /\ pre \in Seq(Writes)
       /\ FoldFrom(Batch(items), s, pre).items = items
      BY <1>6, <1>15
<1> HIDE DEF pre
<1> QED BY <1>4, <1>5, <1>6, <1>14, <1>16, <1>17, <1>18, RewriteInv

(* Whatever a person does keeps the invariant.                             *)
LEMMA MutateInv == ASSUME Inv, Mutate PROVE Inv'
BY AddItemInv, SetFlagsInv, RemoveItemInv, EditInv DEF Mutate

-----------------------------------------------------------------------------
(* Upgrade.                                                                *)

(* A divergence written down and settled in one batch.                     *)
LEMMA TwoWrites ==
    ASSUME NEW p, NEW q \in Rows, NEW r \in Rows, q.link = p.link, q.handle = p.handle,
           r.link = p.link, r.handle = p.handle
    PROVE  LET vs == <<Upsert(r), Upsert(q)>>
               ws == <<Upsert(r), Overrule(p.handle), Upsert(q)>>
           IN  /\ Chain(vs, q, q) /\ vs # << >> /\ Chain(ws, q, q) /\ ws # << >>
               /\ \A B : q.object \in B /\ r.object \in B => Wrote(vs, B) /\ Wrote(ws, B)
<1> DEFINE x == Upsert(r)
           y == Overrule(q.handle)
           z == Upsert(q)
           vs == <<x, z>>
           ws == <<x, y, z>>
<1>1. Chain(vs, q, q) /\ Chain(ws, q, q)
      BY Chains
<1>2. x.op = "Upsert" /\ x.row = r /\ y.op = "Overrule" /\ z.op = "Upsert" /\ z.row = q
      BY DEF Upsert, Overrule
<1> HIDE DEF x, y, z
<1>3. Len(vs) = 2 /\ vs[1] = x /\ vs[2] = z /\ Len(ws) = 3 /\ ws[1] = x /\ ws[2] = y /\ ws[3] = z
      OBVIOUS
<1>4. (\A i \in 1..3 : i = 1 \/ i = 2 \/ i = 3) /\ (\A i \in 1..2 : i = 1 \/ i = 2)
      OBVIOUS
<1>5. vs # << >> /\ ws # << >>
      OBVIOUS
<1> HIDE DEF vs, ws
<1>6. \A B : q.object \in B /\ r.object \in B => Wrote(vs, B) /\ Wrote(ws, B)
      BY <1>2, <1>3, <1>4 DEF Wrote
<1> QED BY <1>1, <1>5, <1>6 DEF x, y, z, vs, ws

(* The rows a fetch leaves, column by column.                              *)
LEMMA FetchedRows ==
    ASSUME NEW p \in BasedRows, NEW item \in Items, NEW object \in Nat,
           NEW st \in Statuses
    PROVE  LET based == [p EXCEPT !.base.revision = item.revision, !.base.object = item.body]
               cleared == [p EXCEPT !.status = "Dirty", !.conflictRevision = NoRev,
                                    !.conflictObject = NoBody]
           IN  /\ Recast(based, p, p.object, p.flags, p.status, p.conflictRevision,
                         p.conflictObject, p.base.flags, item.revision, item.body)
               /\ Recast([based EXCEPT !.object = item.body], p, item.body, p.flags, p.status,
                         p.conflictRevision, p.conflictObject, p.base.flags,
                         item.revision, item.body)
               /\ Recast([based EXCEPT !.status = "Clean", !.conflictRevision = NoRev,
                                       !.conflictObject = NoBody],
                         p, p.object, p.flags, "Clean", NoRev, NoBody, p.base.flags,
                         item.revision, item.body)
               /\ Recast(cleared, p, p.object, p.flags, "Dirty", NoRev, NoBody, p.base.flags,
                         p.base.revision, p.base.object)
               /\ Recast([cleared EXCEPT !.object = object, !.status = st,
                                         !.base.revision = item.revision,
                                         !.base.object = item.body],
                         p, object, p.flags, st, NoRev, NoBody, p.base.flags,
                         item.revision, item.body)
<1> DEFINE based == [p EXCEPT !.base.revision = item.revision, !.base.object = item.body]
           cleared == [p EXCEPT !.status = "Dirty", !.conflictRevision = NoRev,
                                !.conflictObject = NoBody]
<1>1. item.revision \in Nat /\ item.body \in Nat
      BY DEF Items
<1>2. Recast(based, p, p.object, p.flags, p.status, p.conflictRevision,
             p.conflictObject, p.base.flags, item.revision, item.body)
      BY <1>1 DEF BasedRows, Recast
<1>3. Recast(cleared, p, p.object, p.flags, "Dirty", NoRev, NoBody, p.base.flags,
             p.base.revision, p.base.object)
      BY DEF BasedRows, Recast, Statuses, NoRev, NoBody
<1> HIDE DEF based, cleared
<1>4. /\ Recast([based EXCEPT !.object = item.body], p, item.body, p.flags, p.status,
                p.conflictRevision, p.conflictObject, p.base.flags, item.revision, item.body)
      /\ Recast([based EXCEPT !.status = "Clean", !.conflictRevision = NoRev,
                              !.conflictObject = NoBody],
                p, p.object, p.flags, "Clean", NoRev, NoBody, p.base.flags,
                item.revision, item.body)
      BY <1>1, <1>2 DEF BasedRows, Recast, Statuses, NoRev, NoBody
<1>5. Recast([cleared EXCEPT !.object = object, !.status = st,
                             !.base.revision = item.revision, !.base.object = item.body],
             p, object, p.flags, st, NoRev, NoBody, p.base.flags, item.revision, item.body)
      BY <1>1, <1>3 DEF BasedRows, Recast
<1> QED BY <1>2, <1>3, <1>4, <1>5 DEF based, cleared

(* What a fetch writes, and the row it leaves.                             *)
Fetches(p, item, ws, q) ==
    /\ Chain(ws, q, q) /\ ws # << >> /\ From(p, item, q) /\ Follows(q, item)
    /\ \A B : p.object \in B /\ item.body \in B => Wrote(ws, B)

(* One write of a row the fetch leaves.                                    *)
LEMMA FetchedOnce ==
    ASSUME NEW p \in BasedRows, NEW item, NEW q, From(p, item, q), Follows(q, item)
    PROVE  Fetches(p, item, <<Upsert(q)>>, q)
<1>1. q \in Rows /\ q.object \in {p.object, item.body}
      BY BasedRowsAre DEF From
<1>2. Chain(<<Upsert(q)>>, q, q) /\ <<Upsert(q)>> # << >>
      BY <1>1, Chains, OneWrite
<1>3. \A B : p.object \in B /\ item.body \in B => Wrote(<<Upsert(q)>>, B)
      BY <1>1, OneWrite
<1> QED BY <1>2, <1>3 DEF Fetches

(* A fetch that settles a divergence leaves a row as good as the one it    *)
(* fetched for.                                                            *)
LEMMA SettleFetches ==
    ASSUME NEW p \in BasedRows, NEW item \in Items, p.status = "Conflict"
    PROVE  \E q : Fetches(p, item, SettleFetched(p, item.body, item.revision), q)
<1> DEFINE diverged == MarkConflict(p, item)
           cleared == [p EXCEPT !.status = "Dirty", !.conflictRevision = NoRev,
                                !.conflictObject = NoBody]
           object == IF Policy = "PreferRemote" THEN item.body ELSE p.object
           st == IF object = item.body /\ p.base.flags = p.flags THEN "Clean" ELSE "Dirty"
           final == [cleared EXCEPT !.object = object, !.status = st,
                                    !.base.revision = item.revision, !.base.object = item.body]
<1>1. SettleFetched(p, item.body, item.revision) =
          IF Policy = "PreferRemote" THEN <<Upsert(cleared), Upsert(final)>>
          ELSE IF Policy = "PreferLocal" /\ "content" \in Rights
          THEN <<Upsert(diverged), Overrule(p.handle), Upsert(final)>>
          ELSE <<Upsert(diverged)>>
      BY DEF SettleFetched, MarkConflict
<1>2. object \in Nat /\ st \in Statuses /\ object \in {p.object, item.body}
      BY DEF BasedRows, Items, Statuses
<1> HIDE DEF object, st
<1>3. /\ Recast(cleared, p, p.object, p.flags, "Dirty", NoRev, NoBody, p.base.flags,
                p.base.revision, p.base.object)
      /\ Recast(final, p, object, p.flags, st, NoRev, NoBody, p.base.flags,
                item.revision, item.body)
      BY <1>2, FetchedRows
<1>4. Recast(diverged, p, p.object, p.flags, "Conflict", item.revision,
             item.body, p.base.flags, p.base.revision, p.base.object)
      BY ContentRows
<1> HIDE DEF cleared, final, diverged
<1>5. From(p, item, final) /\ Follows(final, item)
      BY <1>2, <1>3 DEF Recast, From, Follows
<1>6. From(p, item, diverged) /\ Follows(diverged, item)
      BY <1>4 DEF Recast, From, Follows
<1>7. /\ final \in Rows /\ final.link = p.link /\ final.handle = p.handle
      /\ cleared \in Rows /\ cleared.link = p.link /\ cleared.handle = p.handle
      /\ diverged \in Rows /\ diverged.link = p.link /\ diverged.handle = p.handle
      /\ cleared.object = p.object /\ diverged.object = p.object /\ final.object = object
      BY <1>3, <1>4, BasedRowsAre DEF Recast
<1> DEFINE vs == <<Upsert(cleared), Upsert(final)>>
           ws == <<Upsert(diverged), Overrule(p.handle), Upsert(final)>>
<1>8. /\ Chain(vs, final, final) /\ vs # << >>
      /\ \A B : final.object \in B /\ cleared.object \in B => Wrote(vs, B)
      BY <1>7, TwoWrites
<1>9. /\ Chain(ws, final, final) /\ ws # << >>
      /\ \A B : final.object \in B /\ diverged.object \in B => Wrote(ws, B)
      BY <1>7, TwoWrites
<1> HIDE DEF vs, ws
<1>10. Fetches(p, item, vs, final)
      BY <1>2, <1>5, <1>7, <1>8 DEF Fetches
<1>11. Fetches(p, item, ws, final)
      BY <1>2, <1>5, <1>7, <1>9 DEF Fetches
<1>12. Fetches(p, item, <<Upsert(diverged)>>, diverged)
      BY <1>6, FetchedOnce
<1> QED BY <1>1, <1>10, <1>11, <1>12 DEF vs, ws

(* And so does any other fetch.                                            *)
LEMMA FetchFetches ==
    ASSUME NEW p \in BasedRows, NEW item \in Items,
           Exact => (p.status # "Conflict" => p.conflictRevision = NoRev)
    PROVE  \E q : Fetches(p, item, Fetched(p, item.body, item.revision), q)
<1> DEFINE based == [p EXCEPT !.base.revision = item.revision, !.base.object = item.body]
           taken == [based EXCEPT !.object = item.body]
           agreed == [based EXCEPT !.status = "Clean", !.conflictRevision = NoRev,
                                   !.conflictObject = NoBody]
           diverged == MarkConflict(p, item)
           fetch == Fetched(p, item.body, item.revision)
<1>1. /\ Recast(based, p, p.object, p.flags, p.status, p.conflictRevision,
                p.conflictObject, p.base.flags, item.revision, item.body)
      /\ Recast(taken, p, item.body, p.flags, p.status, p.conflictRevision, p.conflictObject,
                p.base.flags, item.revision, item.body)
      /\ Recast(agreed, p, p.object, p.flags, "Clean", NoRev, NoBody, p.base.flags,
                item.revision, item.body)
      BY FetchedRows DEF Statuses
<1>2. Recast(diverged, p, p.object, p.flags, "Conflict", item.revision,
             item.body, p.base.flags, p.base.revision, p.base.object)
      BY ContentRows
<1>3. fetch = IF p.status = "Conflict" /\ p.conflictRevision # NoRev
              THEN IF item.body = p.object THEN <<Upsert(agreed)>>
                   ELSE SettleFetched(p, item.body, item.revision)
              ELSE IF p.status = "Conflict" \/ ~StagedEdit(p) THEN <<Upsert(taken)>>
              ELSE IF RemoteChanged(p, [revision |-> item.revision])
              THEN <<Upsert(diverged)>> ELSE <<Upsert(based)>>
      BY DEF Fetched, MarkConflict
<1> HIDE DEF based, taken, agreed, diverged, fetch
<1>4. CASE p.status = "Conflict" /\ p.conflictRevision # NoRev /\ item.body = p.object
  <2>1. From(p, item, agreed) /\ Follows(agreed, item)
        BY <1>1, <1>4 DEF Recast, From, Follows
  <2>2. fetch = <<Upsert(agreed)>>
        BY <1>3, <1>4
  <2> QED BY <2>1, <2>2, FetchedOnce DEF fetch
<1>5. CASE p.status = "Conflict" /\ p.conflictRevision # NoRev /\ item.body # p.object
  <2>1. fetch = SettleFetched(p, item.body, item.revision)
        BY <1>3, <1>5
  <2> QED BY <1>5, <2>1, SettleFetches DEF fetch
<1> DEFINE other == ~(p.status = "Conflict" /\ p.conflictRevision # NoRev)
<1>6. other => /\ From(p, item, taken) /\ Follows(taken, item)
               /\ From(p, item, based) /\ Follows(based, item)
               /\ From(p, item, diverged) /\ Follows(diverged, item)
      BY <1>1, <1>2 DEF Recast, From, Follows
<1>7. other => fetch \in {<<Upsert(taken)>>, <<Upsert(diverged)>>, <<Upsert(based)>>}
      BY <1>3
<1>8. ASSUME other PROVE \E q : Fetches(p, item, fetch, q)
  <2>1. CASE fetch = <<Upsert(taken)>>
        BY <1>6, <1>8, <2>1, FetchedOnce
  <2>2. CASE fetch = <<Upsert(diverged)>>
        BY <1>6, <1>8, <2>2, FetchedOnce
  <2>3. CASE fetch = <<Upsert(based)>>
        BY <1>6, <1>8, <2>3, FetchedOnce
  <2> QED BY <1>7, <1>8, <2>1, <2>2, <2>3
<1> QED BY <1>4, <1>5, <1>8 DEF fetch

(* A fetch keeps the invariant.                                            *)
LEMMA UpgradeInv ==
    ASSUME Inv, NEW s \in Sources, NEW p \in Project(items, s), Upgrade(s, p)
    PROVE  Inv'
<1> DEFINE n == p.handle[2]
           m == srv[n]
           item == [revision |-> m.revision, flags |-> m.flags, body |-> m.body]
           ws == Fetched(p, m.body, m.revision)
           pre == << >>
           new == Write(items, kept, s, ws)
<1>1. /\ Idle /\ IsReal(p.handle) /\ m.live /\ Stored(new)
      /\ srv' = srv /\ changed' = changed /\ run' = run /\ body' = body /\ owed' = owed
      BY DEF Upgrade, servers
<1>2. Idle'
      BY <1>1 DEF Idle
<1>3. items' = Save(items, Fold(items, s, ws).items)
      BY <1>1 DEF Stored, Write, Written
<1> HIDE DEF new
<1>4. World' = World /\ World.srv = srv
      BY <1>1 DEF World, Seen
<1>5. /\ ServersOK(World) /\ body \in Nat /\ owed \subseteq Nat /\ (Mutable => owed \subseteq 1..body)
      /\ NoBody \notin owed /\ StoreOK(items, World) /\ Tracked(items, World, s, changed[s])
  <2>1. NoBody \in World.given
        BY DEF Inv, ServersOK
  <2> QED BY <2>1 DEF Inv, World, Seen, Sound
<1>6. /\ RowOK(World, s, p) /\ p \in Rows /\ Grounded(World, p, s, p.link)
      BY <1>5, Projected DEF RowOK
<1>7. p.base # NoBase /\ p \in BasedRows
  <2>1. p.link \in SyncKeys
        BY <1>6, Based
  <2>2. p.base # NoBase
        BY <1>1, <1>6, <2>1, HandleKinds DEF Grounded
  <2> QED BY <1>6, <2>2, BasedRowsAre
<1>8. n \in Numbers /\ m \in Members /\ m.revision \in Nat
      /\ (Mutable => m.revision # NoRev /\ m.body \in World.given)
  <2> DEFINE w == World
  <2>1. ServersOK(w) /\ p.handle \in Handles /\ Grounded(w, p, s, p.link) /\ p.base # NoBase
        BY <1>5, <1>6, <1>7, Based
  <2>2. w.srv = srv
        BY <1>4
  <2> HIDE DEF w
  <2>3. /\ n \in Numbers /\ w.srv[n] \in Members /\ w.srv[n].revision \in Nat
        /\ Mutable => w.srv[n].revision # NoRev /\ w.srv[n].body \in w.given
        BY <2>1, Anchored
  <2> QED BY <2>2, <2>3 DEF w
<1> DEFINE none == {}
<1>9. ItemTrue(World, none, item, n) /\ item \in Items /\ n \notin none
  <2>1. item \in Items
        BY <1>8 DEF Items, Members, FlagSets
  <2> QED BY <1>1, <1>4, <1>8, <2>1 DEF ItemTrue
<1> HIDE DEF none
<1>10. PICK q : Fetches(p, item, ws, q)
  <2>1. item.body = m.body /\ item.revision = m.revision
        OBVIOUS
  <2>2. Exact => (p.status # "Conflict" => p.conflictRevision = NoRev)
        BY <1>6 DEF RowOK
  <2> HIDE DEF item
  <2> QED BY <1>7, <1>9, <2>1, <2>2, FetchFetches
<1> HIDE DEF ws, item
<1>11. Chain(ws, q, q) /\ ws # << >> /\ From(p, item, q) /\ Follows(q, item)
       /\ q.link = p.link /\ q.handle = p.handle
      BY <1>10 DEF Fetches, From
<1>12. RowOK(World, s, q) /\ Known(World, q)
  <2> DEFINE w == World
  <2>1. ServersOK(w) /\ RowOK(w, s, p) /\ ItemTrue(w, none, item, p.handle[2])
        BY <1>5, <1>6, <1>9
  <2> HIDE DEF w
  <2>2. RowOK(w, s, q) /\ Known(w, q)
        BY <1>7, <1>9, <1>11, <2>1, RowFrom
  <2> QED BY <2>2 DEF w
<1>13. Mutable => Wrote(ws, World.written)
  <2>1. World.given \subseteq World.written
        BY <1>5 DEF ServersOK
  <2>2. Mutable => p.object \in World.written /\ item.body \in World.written
        BY <1>6, <1>9, <2>1 DEF RowOK, ItemTrue
  <2> QED BY <1>10, <2>2 DEF Fetches
<1>14. pre \in Seq(Writes) /\ FoldFrom(Batch(items), s, pre).items = items /\ pre \o ws = ws
  <2>1. ws \in Seq(Writes)
        BY <1>11 DEF Chain
  <2> QED BY <2>1, Unlicensed
<1> HIDE DEF pre
<1>15. /\ body <= body' /\ body' \in Nat /\ owed' \subseteq Nat /\ NoBody \notin owed'
       /\ Mutable => owed' \subseteq 1..body' /\ (owed' \cap (0..body)) \subseteq owed
      BY <1>1, <1>5
<1>16. RowOK(World', s, q) /\ (Mutable => Wrote(ws, World'.written))
       /\ (q.base # NoBase => q.handle[2] \in changed[s] \/ Known(World', q))
      BY <1>4, <1>12, <1>13
<1>17. items' = Save(items, Fold(items, s, pre \o ws).items)
      BY <1>3, <1>14
<1> QED BY <1>1, <1>2, <1>11, <1>14, <1>15, <1>16, <1>17, RewriteInv

-----------------------------------------------------------------------------
(* Listing.                                                                *)

(* Every binding is loaded.                                                *)
LEMMA LoadedRows ==
    ASSUME NEW w, NEW I, NEW s \in Sources, NEW k \in Keys, StoreOK(I, w),
           View(I, s, k) # NoBinding
    PROVE  \E p \in Project(I, s) : /\ p.link = k /\ p.handle = View(I, s, k).handle
                                    /\ p.base = View(I, s, k).base
                                    /\ p.conflictRevision = View(I, s, k).conflictRevision
<1> DEFINE b == View(I, s, k)
           p == BoundPlacement(I[k], k, b)
<1>1. Loaded(I, k) /\ b = I[k].sources[s] /\ Binds(I[k], s)
      BY DEF View, Binds
<1>2. p \in Project(I, s)
      BY <1>1 DEF Project
<1>3. I[k] \in Rowed
      BY ViewType DEF StoreOK
<1> HIDE DEF b
<1>4. p = [handle |-> b.handle, link |-> k, object |-> I[k].object,
           flags |-> I[k].flags, status |-> BoundStatus(I[k], b),
           conflictRevision |-> b.conflictRevision,
           conflictObject |-> b.conflictObject, base |-> b.base]
      BY <1>3, ProjectColumns
<1> HIDE DEF p
<1>5. p.link = k /\ p.handle = b.handle /\ p.base = b.base
      /\ p.conflictRevision = b.conflictRevision
      BY <1>4
<1> QED BY <1>2, <1>5 DEF b

(* A source loads one row a key and one a handle.                          *)
LEMMA LoadedApart ==
    ASSUME NEW w, NEW I, NEW s \in Sources, NEW p \in Project(I, s), NEW q \in Project(I, s),
           StoreOK(I, w), p.link = q.link \/ p.handle = q.handle
    PROVE  p = q
<1> DEFINE b == View(I, s, p.link)
           c == View(I, s, q.link)
<1>1. /\ p.link \in Keys /\ I[p.link] \in Rowed
      /\ IF b # NoBinding THEN p = BoundPlacement(I[p.link], p.link, b)
         ELSE p = Shared(I[p.link], p.link, p.link, "Created")
      BY ProjectRow
<1>2. /\ q.link \in Keys /\ I[q.link] \in Rowed
      /\ IF c # NoBinding THEN q = BoundPlacement(I[q.link], q.link, c)
         ELSE q = Shared(I[q.link], q.link, q.link, "Created")
      BY ProjectRow
<1>3. p.link = q.link => p = q
      BY <1>1, <1>2
<1>4. ASSUME p.handle = q.handle PROVE p.link = q.link
  <2>1. /\ b # NoBinding => p.handle = b.handle
        /\ b = NoBinding => p.handle = p.link
    <3>1. BoundPlacement(I[p.link], p.link, b).handle = b.handle
          BY <1>1, ProjectColumns
    <3>2. Shared(I[p.link], p.link, p.link, "Created").handle = p.link
          BY DEF Shared
    <3> HIDE DEF b
    <3> QED BY <1>1, <3>1, <3>2
  <2>2. /\ c # NoBinding => q.handle = c.handle
        /\ c = NoBinding => q.handle = q.link
    <3>1. BoundPlacement(I[q.link], q.link, c).handle = c.handle
          BY <1>2, ProjectColumns
    <3>2. Shared(I[q.link], q.link, q.link, "Created").handle = q.link
          BY DEF Shared
    <3> HIDE DEF c
    <3> QED BY <1>2, <3>1, <3>2
  <2>3. /\ \A k \in Keys : Under(I, s, k, p.handle) => k = p.link
        /\ \A k \in Keys : Under(I, s, k, q.handle) => k = q.link
        BY Projected
  <2> QED BY <1>1, <1>2, <1>4, <2>1, <2>2, <2>3 DEF Under
<1> QED BY <1>3, <1>4

(* What a page says of a member is true.                                   *)
LEMMA ListedTrue ==
    ASSUME NEW w, NEW s \in Sources, NEW n \in Live(s), NEW carried, NEW unread, NEW since,
           ServersOK(w), w.srv = srv
    PROVE  ItemTrue(w, since, Listed(n, carried, unread), n)
<1> DEFINE m == w.srv[n]
           item == Listed(n, carried, unread)
<1>1. n \in Numbers /\ m.live /\ m # NoMember
      BY DEF Live, NoMember
<1>2. m \in Members
      BY <1>1 DEF ServersOK
<1>3. /\ m.revision \in Nat /\ m.flags \in SUBSET Flags /\ m.body \in Nat
      /\ Mutable => m.revision # NoRev /\ m.body \in w.given
      BY <1>1, <1>2 DEF ServersOK, Members
<1>4. item.revision = m.revision /\ item.body \in {m.body, NoBody}
      BY DEF Listed
<1>5. item \in Items
      BY <1>3 DEF Listed, Items, FlagSets, NoBody
<1>6. NoBody \in w.given
      BY DEF ServersOK
<1> HIDE DEF item
<1> QED BY <1>1, <1>3, <1>4, <1>5, <1>6 DEF ItemTrue, item

(* What a listed member of a source is.                                    *)
LEMMA LiveMember ==
    ASSUME NEW w, NEW s \in Sources, NEW n \in Live(s), ServersOK(w), w.srv = srv
    PROVE  /\ n \in Numbers /\ w.srv[n].live /\ w.srv[n] # NoMember /\ w.srv[n] \in Members
           /\ w.srv[n].source = s /\ w.srv[n].link \in Links /\ w.srv[n].revision \in Nat
           /\ w.srv[n].body \in Nat
<1>1. n \in Numbers /\ w.srv[n].live /\ w.srv[n] # NoMember /\ w.srv[n].source = s
      BY DEF Live, NoMember
<1>2. w.srv[n] \in Members
      BY <1>1 DEF ServersOK
<1> QED BY <1>1, <1>2 DEF Members

(* A free minted key ends the claim.                                       *)
LEMMA ClaimIs ==
    ASSUME NEW l \in Links, NEW n \in Numbers, NEW taken \in SUBSET SyncKeys,
           Minted(l, n) \notin taken
    PROVE  Claim(l, n, taken) \in {Hint(l), Minted(l, n)} \ taken
<1> DEFINE mint(d) == Minted(l, n + d * MaxHandle)
<1>1. CASE Hint(l) \notin taken
      BY <1>1 DEF Claim
<1>2. CASE Hint(l) \in taken
  <2>1. IsFiniteSet(taken)
    <3>1. IsFiniteSet(0..MaxHandle)
          BY BoundsAssumption, FS_Interval
    <3>2. IsFiniteSet(Links \X (0..MaxHandle))
          BY <3>1, LinksAssumption, FS_Product
    <3>3. SyncKeys \subseteq Links \X (0..MaxHandle)
          BY BoundsAssumption DEF SyncKeys, Hint, Minted, Numbers
    <3>4. taken \in SUBSET (Links \X (0..MaxHandle))
          BY <3>3
    <3> QED BY <3>2, <3>4, FS_Subset
  <2>2. Cardinality(taken) \in Nat
        BY <2>1, FS_CardinalityType
  <2>3. n \in Nat /\ MaxHandle \in Nat
        BY BoundsAssumption DEF Numbers
  <2>4. mint(0) = Minted(l, n)
        BY <2>3
  <2> DEFINE free(d) == mint(d) \notin taken /\ \A e \in 0..(d - 1) : mint(e) \in taken
             range == 0..Cardinality(taken)
  <2>5. Claim(l, n, taken) = mint(CHOOSE d \in range : free(d))
        BY <1>2 DEF Claim
  <2>6. 0 \in range /\ free(0)
        BY <2>2, <2>4
  <2>7. ASSUME NEW d \in range, free(d) PROVE d = 0
    <3>1. d \in Nat
          BY <2>2
    <3>2. CASE d # 0
      <4>1. 0 \in 0..(d - 1)
            BY <3>1, <3>2
      <4>2. mint(0) \in taken
            BY <2>7, <4>1
      <4> QED BY <2>4, <4>2
    <3> QED BY <3>2
  <2> HIDE DEF free, range
  <2>8. (CHOOSE d \in range : free(d)) = 0
        BY <2>6, <2>7
  <2> HIDE DEF mint
  <2> QED BY <2>4, <2>5, <2>8
<1> QED BY <1>1, <1>2

(* A row naming makes: what the page says of member n is its base, or left *)
(* out of it.                                                              *)
Names(w, s, n, q) ==
    /\ RowOK(w, s, q) /\ q.base # NoBase /\ q.handle = Real(n)
    /\ q.link[1] = w.srv[n].link /\ q.link[2] \in {0, n}
    /\ (Mutable /\ q.object # NoBody /\ q.object # q.base.object) => q.base.object = NoBody

(* A row of member n whose base states nothing but what was listed.        *)
LEMMA NamedRow ==
    ASSUME NEW w, NEW s \in Sources, NEW n \in Live(s), NEW item, NEW since, NEW q \in Rows,
           ServersOK(w), w.srv = srv, ItemTrue(w, since, item, n),
           q.handle = Real(n), q.link[1] = w.srv[n].link, q.link[2] \in {0, n},
           q.base # NoBase, q.base.revision \in {NoRev, item.revision},
           Mutable => q.base.object \in {NoBody, item.body},
           Mutable /\ q.base.revision = NoRev => q.base.object = NoBody,
           q.conflictRevision \in {NoRev, item.revision}, q.conflictObject = NoBody,
           q.status # "Conflict" => q.conflictRevision = NoRev,
           Mutable => q.object \in w.written,
           (Mutable /\ q.object # NoBody /\ q.object # q.base.object) => q.base.object = NoBody
    PROVE  Names(w, s, n, q)
<1> DEFINE m == w.srv[n]
<1>1. n \in Numbers /\ m # NoMember /\ m.source = s /\ m.revision \in Nat
      BY LiveMember
<1>2. IsReal(q.handle) /\ q.handle[2] = n
      BY <1>1, HandleKinds
<1>3. /\ item.revision <= m.revision /\ item.revision \in Nat
      /\ Mutable => item.revision # NoRev /\ item.body \in w.given
      /\ (Mutable /\ item.revision = m.revision) => item.body \in {NoBody, m.body}
      /\ Mutable => m.revision # NoRev
      BY <1>1 DEF ItemTrue, Items, ServersOK
<1>4. NoBody \in w.given
      BY DEF ServersOK
<1>5. /\ q.base.revision <= m.revision /\ q.conflictRevision <= m.revision
      /\ (Mutable /\ q.base.revision = m.revision) => q.base.object \in {NoBody, m.body}
      /\ (Mutable /\ q.conflictRevision = m.revision) => q.conflictObject \in {NoBody, m.body}
      BY <1>1, <1>3 DEF NoRev
<1>6. Told(w, q)
      BY <1>3, <1>4 DEF Told, Reporting
<1>7. Grounded(w, q, s, q.link)
      BY <1>1, <1>2, <1>5, <1>6 DEF Grounded
<1> QED BY <1>7 DEF RowOK, Names

(* A create moved onto the member stating its identity.                    *)
LEMMA LandRow ==
    ASSUME NEW w, NEW s \in Sources, NEW n \in Live(s), NEW item, NEW since, NEW create,
           ServersOK(w), w.srv = srv, ItemTrue(w, since, item, n), RowOK(w, s, create),
           create.link = Hint(w.srv[n].link)
    PROVE  Names(w, s, n, Land(create, n, item)) /\ Land(create, n, item).link = create.link
<1> DEFINE mutable == item.revision # NoRev /\ create.object # NoBody
           diverged == mutable /\ item.body # NoBody /\ item.body # create.object
           unread == mutable /\ item.body = NoBody
           taken == IF ~diverged /\ item.body # NoBody THEN item.body ELSE create.object
           object == IF create.object = NoBody THEN taken ELSE create.object
           br == IF diverged THEN NoRev ELSE item.revision
           bo == IF diverged \/ unread THEN NoBody ELSE taken
           base == [flags |-> item.flags, revision |-> br, object |-> bo]
           st == IF unread THEN "Conflict"
                 ELSE IF base.flags = create.flags /\ base.object = object
                 THEN "Clean" ELSE "Dirty"
           cr == IF unread THEN item.revision ELSE NoRev
           h == Real(n)
           q == [create EXCEPT !.handle = h, !.object = object, !.base = base,
                               !.status = st, !.conflictRevision = cr,
                               !.conflictObject = NoBody]
<1>1. Land(create, n, item) = q
      BY DEF Land
<1>2. /\ item.revision \in Nat /\ item.body \in Nat /\ item.flags \in FlagSets
      /\ Mutable => item.revision # NoRev /\ item.body \in w.given
      BY DEF ItemTrue, Items
<1>3. create \in Rows /\ create.object \in Nat /\ (Mutable => create.object \in w.written)
      BY Based DEF RowOK
<1>4. w.given \subseteq w.written
      BY DEF ServersOK
<1>5. n \in Numbers /\ h \in Handles
      BY LiveMember, HandleKinds
<1>6. /\ object \in Nat /\ br \in Nat /\ bo \in Nat /\ cr \in Nat /\ st \in Statuses
      /\ br \in {NoRev, item.revision} /\ cr \in {NoRev, item.revision}
      /\ st # "Conflict" => cr = NoRev
      BY <1>2, <1>3 DEF NoRev, NoBody, Statuses
<1>7. Mutable => /\ bo \in {NoBody, item.body} /\ (br = NoRev => bo = NoBody)
                 /\ (object # NoBody /\ object # bo => bo = NoBody)
                 /\ object \in w.written
      BY <1>2, <1>3, <1>4
<1>8. base \in Bases /\ base # NoBase /\ base.revision = br /\ base.object = bo
  <2> HIDE DEF br, bo
  <2>1. base \in Bases
        BY <1>2, <1>6 DEF Bases
  <2> QED BY <2>1, AbsentAssumption
<1> HIDE DEF mutable, diverged, unread, taken, object, br, bo, base, st, cr, h
<1>9. /\ q \in Rows /\ q.handle = h /\ q.object = object /\ q.base = base /\ q.status = st
      /\ q.conflictRevision = cr /\ q.conflictObject = NoBody /\ q.link = create.link
      BY <1>3, <1>5, <1>6, <1>8 DEF Rows, Placements, NoBody
<1> HIDE DEF q
<1>10. q.link[1] = w.srv[n].link /\ q.link[2] \in {0, n}
      BY <1>9 DEF Hint
<1>11. q.handle = Real(n)
      BY <1>9 DEF h
<1>12. Names(w, s, n, q)
      BY <1>6, <1>7, <1>8, <1>9, <1>10, <1>11, NamedRow
<1> QED BY <1>1, <1>9, <1>12

(* A row named after what the page says.                                   *)
LEMMA NameRow ==
    ASSUME NEW w, NEW s \in Sources, NEW n \in Live(s), NEW item, NEW since, NEW key,
           ServersOK(w), w.srv = srv, ItemTrue(w, since, item, n),
           key \in {Hint(w.srv[n].link), Minted(w.srv[n].link, n)}
    PROVE  Names(w, s, n, Name(key, n, item)) /\ Name(key, n, item).link = key
<1> DEFINE q == Name(key, n, item)
<1>1. /\ item.revision \in Nat /\ item.body \in Nat /\ item.flags \in FlagSets
      /\ Mutable => item.revision # NoRev /\ item.body \in w.given
      BY DEF ItemTrue, Items
<1>2. n \in Numbers /\ w.srv[n].link \in Links /\ Real(n) \in Handles
      BY LiveMember, HandleKinds
<1>3. key \in SyncKeys /\ key[1] = w.srv[n].link /\ key[2] \in {0, n}
      BY <1>2 DEF SyncKeys, Hint, Minted
<1>4. /\ q.handle = Real(n) /\ q.object = item.body /\ q.status = "Clean" /\ q.link = key
      /\ q.conflictRevision = NoRev /\ q.conflictObject = NoBody
      /\ q.base.revision = item.revision /\ q.base.object = item.body
      BY DEF Name
<1>5. q \in Rows /\ q.base # NoBase
  <2>1. q.base \in Bases
        BY <1>1 DEF Bases, Name
  <2>2. q \in Rows
        BY <1>1, <1>2, <1>3 DEF Name, Rows, Placements, Bases, Statuses, NoRev, NoBody
  <2> QED BY <2>1, <2>2, AbsentAssumption
<1> HIDE DEF q
<1>6. w.given \subseteq w.written
      BY DEF ServersOK
<1>7. Names(w, s, n, q)
      BY <1>1, <1>3, <1>4, <1>5, <1>6, NamedRow
<1> QED BY <1>4, <1>7 DEF q

(* What naming makes of a member nobody bound is a candidate; it takes the *)
(* hint only when it is the first to state it, and a loaded key only by    *)
(* landing the create that held it.                                        *)
LEMMA NamedOK ==
    ASSUME NEW w, NEW I, NEW s \in Sources, NEW new \in SUBSET Live(s), NEW n \in new,
           NEW item, NEW since, ServersOK(w), w.srv = srv, StoreOK(I, w),
           ItemTrue(w, since, item, n), \A k \in Keys : ~Under(I, s, k, Real(n))
    PROVE  LET local == Project(I, s)
               c == NameMember(local, new, n, item)
               l == srv[n].link
           IN  /\ CandOK(w, since, s, I, c) /\ c.fresh /\ c.row.handle = Real(n)
               /\ c.row.base # NoBase
               /\ c.row.link \in {Hint(l), Minted(l, n)}
               /\ c.row.link = Hint(l) => IsFirst(n, new)
               /\ \A p \in local : p.link = c.row.link => p \in Landing(local, new, n)
<1> DEFINE local == Project(I, s)
           l == srv[n].link
           creates == Landing(local, new, n)
           create == CHOOSE p \in creates : TRUE
           c == NameMember(local, new, n, item)
<1>1. n \in Numbers /\ l \in Links /\ w.srv[n].live /\ w.srv[n].source = s
      BY LiveMember
<1>2. ASSUME NEW first, NEW q, Names(w, s, n, q),
             first \in {<< >>, <<Drop(q.link, "Superseded")>>}
      PROVE  LET d == Candidate(q, "listed", item, first, TRUE)
             IN  /\ CandOK(w, since, s, I, d) /\ d.fresh /\ d.row = q /\ q.handle = Real(n)
                 /\ q.base # NoBase
  <2> DEFINE d == Candidate(q, "listed", item, first, TRUE)
  <2>1. /\ d.row = q /\ d.seen = "listed" /\ d.item = item /\ d.first = first
        /\ d.fresh = TRUE
        BY DEF Candidate
  <2>2. q.handle = Real(n) /\ q.handle[2] = n /\ RowOK(w, s, q) /\ q.base # NoBase
        /\ q.link[2] \in {0, n}
        /\ ((Mutable /\ q.object # NoBody /\ q.object # q.base.object) => q.base.object = NoBody)
        BY <1>1, <1>2, HandleKinds DEF Names
  <2> HIDE DEF d
  <2>3. CandOK(w, since, s, I, d)
        BY <1>2, <2>1, <2>2 DEF CandOK
  <2> QED BY <2>1, <2>2, <2>3 DEF d
<1>3. CASE creates # {}
  <2>1. create \in creates
        BY <1>3
  <2> HIDE DEF create
  <2>2. /\ IsFirst(n, new) /\ create \in local /\ create.link = Hint(l)
        /\ create.base = NoBase
        BY <2>1 DEF Landing
  <2>3. RowOK(w, s, create)
        BY <2>2, Projected
  <2>4. create.handle = create.link
        BY <2>2, <2>3 DEF RowOK, Grounded
  <2> DEFINE q == Land(create, n, item)
             first == <<Drop(create.handle, "Superseded")>>
  <2>5. Names(w, s, n, q) /\ q.link = create.link
        BY <2>2, <2>3, LandRow
  <2>6. c = Candidate(q, "listed", item, first, TRUE)
        BY <1>3 DEF NameMember, create
  <2>7. first \in {<< >>, <<Drop(q.link, "Superseded")>>}
        BY <2>4, <2>5
  <2> HIDE DEF q, first
  <2>8. /\ CandOK(w, since, s, I, c) /\ c.fresh /\ c.row = q /\ q.handle = Real(n)
        /\ q.base # NoBase
    <3> DEFINE d == Candidate(q, "listed", item, first, TRUE)
    <3>1. Names(w, s, n, q)
          BY <2>5
    <3>2. /\ CandOK(w, since, s, I, d) /\ d.fresh /\ d.row = q /\ q.handle = Real(n)
          /\ q.base # NoBase
          BY <1>2, <2>7, <3>1
    <3> HIDE DEF d, c
    <3>3. c = d
          BY <2>6 DEF d
    <3> QED BY <3>2, <3>3
  <2> HIDE DEF c
  <2>9. \A p \in local : p.link = c.row.link => p \in creates
        BY <2>1, <2>2, <2>5, <2>8, LoadedApart
  <2> QED BY <2>2, <2>5, <2>8, <2>9 DEF c
<1>4. CASE creates = {}
  <2> DEFINE key == KeyFor(local, new, n)
             q == Name(key, n, item)
             claimed == {p.link : p \in local} \cup (IF IsFirst(n, new) THEN {} ELSE {Hint(l)})
  <2>1. c = Candidate(q, "listed", item, << >>, TRUE)
        BY <1>4 DEF NameMember
  <2>2. Hint(l) \in SyncKeys /\ Hint(l) # Minted(l, n)
        BY <1>1, HandleKinds DEF SyncKeys, Hint, Minted
  <2>3. claimed \in SUBSET SyncKeys
    <3>1. \A p \in local : p.link \in SyncKeys
          BY Projected, Based DEF RowOK
    <3> QED BY <2>2, <3>1
  <2>4. Minted(l, n) \notin claimed
    <3>1. ASSUME NEW p \in local, p.link = Minted(l, n) PROVE FALSE
      <4>1. I[p.link] # NoItem /\ p.link \in SyncKeys /\ p.link \in Keys
            BY Projected, Based, HandleKinds DEF RowOK
      <4>2. p.link[2] = n /\ n # 0
            BY <1>1, <3>1, HandleKinds DEF Minted
      <4>3. MintOK(I, w, p.link)
            BY <4>1 DEF StoreOK
      <4>4. Under(I, s, p.link, Real(n))
            BY <1>1, <4>1, <4>2, <4>3 DEF MintOK
      <4> QED BY <4>1, <4>4
    <3> QED BY <2>2, <3>1
  <2>5. key = Claim(l, n, claimed)
        BY DEF KeyFor
  <2> HIDE DEF claimed, key
  <2>6. key \in {Hint(l), Minted(l, n)} \ claimed
        BY <1>1, <2>3, <2>4, <2>5, ClaimIs
  <2>7. Names(w, s, n, q) /\ q.link = key
        BY <2>6, NameRow
  <2> DEFINE first == << >>
  <2>8. first \in {<< >>, <<Drop(q.link, "Superseded")>>}
        /\ c = Candidate(q, "listed", item, first, TRUE)
        BY <2>1
  <2> HIDE DEF q, first
  <2>9. /\ CandOK(w, since, s, I, c) /\ c.fresh /\ c.row = q /\ q.handle = Real(n)
        /\ q.base # NoBase
        BY <1>2, <2>7, <2>8
  <2> HIDE DEF c
  <2>10. (key = Hint(l) => IsFirst(n, new)) /\ (\A p \in local : p.link # key)
        BY <2>6 DEF claimed
  <2> QED BY <2>6, <2>7, <2>9, <2>10 DEF c
<1> QED BY <1>3, <1>4

(* What stands in for a member the page does not name is true of it while  *)
(* its row is known.                                                       *)
LEMMA UnlistedTrue ==
    ASSUME NEW w, NEW s \in Sources, NEW p, NEW since, ServersOK(w), RowOK(w, s, p),
           p.base # NoBase, Known(w, p)
    PROVE  ItemTrue(w, since, Unlisted(p), p.handle[2])
<1> DEFINE m == w.srv[p.handle[2]]
           item == Unlisted(p)
<1>1. /\ p \in Rows /\ p.handle \in Handles /\ Grounded(w, p, s, p.link)
      /\ p.base.revision \in Nat /\ p.base.flags \in FlagSets /\ p.conflictRevision \in Nat
      BY Based DEF RowOK
<1>2. /\ m.revision \in Nat /\ p.base.revision <= m.revision
      /\ p.conflictRevision <= m.revision
      BY <1>1, Anchored
<1>3. item \in Items /\ item.body = NoBody
      /\ item.revision = IF p.conflictRevision # NoRev THEN p.conflictRevision ELSE p.base.revision
      BY <1>1 DEF Unlisted, Items, NoBody
<1>4. NoBody \in w.given
      BY DEF ServersOK
<1>5. /\ m.live
      /\ Mutable => p.base.revision # NoRev \/ p.conflictRevision # NoRev
      /\ Exact => m.revision = IF p.conflictRevision # NoRev THEN p.conflictRevision
                               ELSE p.base.revision
      BY DEF Known
<1> HIDE DEF item
<1> QED BY <1>2, <1>3, <1>4, <1>5 DEF ItemTrue, item

(* A candidate that is a loaded row.                                       *)
LEMMA LoadedCand ==
    ASSUME NEW w, NEW I, NEW s \in Sources, NEW p \in Project(I, s), NEW seen, NEW item,
           NEW since, StoreOK(I, w),
           \/ seen = "listed" /\ p.base # NoBase /\ ItemTrue(w, since, item, p.handle[2])
           \/ seen = "gone" /\ p.base # NoBase /\ ~w.srv[p.handle[2]].live
           \/ seen = "create" /\ p.base = NoBase
    PROVE  LET c == Candidate(p, seen, item, << >>, FALSE)
           IN  c.row = p /\ CandOK(w, since, s, I, c) /\ ~c.fresh /\ CandBacked(s, I, c)
<1> DEFINE none == << >>
           c == Candidate(p, seen, item, none, FALSE)
<1>1. c.row = p /\ c.seen = seen /\ c.item = item /\ c.first = none /\ c.fresh = FALSE
      BY DEF Candidate
<1>2. RowOK(w, s, p) /\ I[p.link] # NoItem /\ Agree(View(I, s, p.link), p)
      BY Projected
<1> HIDE DEF c
<1>3. CandOK(w, since, s, I, c)
      BY <1>1, <1>2 DEF CandOK
<1>4. CandBacked(s, I, c)
      BY <1>1, <1>2 DEF CandBacked
<1> QED BY <1>1, <1>3, <1>4 DEF c

(* A page says what is true, lists members of its source and finds gone    *)
(* none of them.                                                           *)
PageOK(w, s, since, page, gone) ==
    /\ \A n \in DOMAIN page : ItemTrue(w, since, page[n], n)
    /\ \A h \in gone : IsReal(h) /\ h[2] \notin Live(s)
(* What it does not name of some rows is known.                            *)
Covered(w, rows, page, gone) ==
    \A p \in rows : p.base # NoBase =>
        p.handle[2] \in DOMAIN page \/ p.handle \in gone \/ Known(w, p)

(* The rows a page narrows to: one candidate a row, and none is missed     *)
(* that is not known already.                                              *)
LEMMA NarrowOK ==
    ASSUME NEW w, NEW I, NEW s \in Sources, NEW rows \in SUBSET Project(I, s), NEW page,
           NEW gone, NEW since, ServersOK(w), w.srv = srv, StoreOK(I, w),
           PageOK(w, s, since, page, gone), Covered(w, rows, page, gone)
    PROVE  LET todo == Narrow(rows, page, gone)
           IN  /\ \A c \in todo : /\ c.row \in rows /\ CandOK(w, since, s, I, c) /\ ~c.fresh
                                  /\ CandBacked(s, I, c)
               /\ \A c, d \in todo : c.row = d.row => c = d
               /\ \A p \in rows : p.base # NoBase =>
                      Known(w, p) \/ \E c \in todo : c.row = p
<1> DEFINE todo == Narrow(rows, page, gone)
           listed == {p \in rows : /\ IsReal(p.handle) /\ p.handle[2] \in DOMAIN page
                                   /\ p.handle \notin gone}
           missing == {p \in rows : p.handle \in gone}
           owing == {p \in rows : p.status # "Clean"} \ (listed \cup missing)
           A(p) == Candidate(p, "listed", page[p.handle[2]], << >>, FALSE)
           B(p) == Candidate(p, "gone", NoChange, << >>, FALSE)
           C(p) == Candidate(p, "listed", Unlisted(p), << >>, FALSE)
           D(p) == Candidate(p, "create", NoChange, << >>, FALSE)
<1>1. todo = {A(p) : p \in listed} \cup {B(p) : p \in missing}
             \cup {C(p) : p \in {q \in owing : q.base # NoBase}}
             \cup {D(p) : p \in {q \in owing : q.base = NoBase}}
      BY DEF Narrow
<1>2. \A p \in rows : A(p).row = p /\ B(p).row = p /\ C(p).row = p /\ D(p).row = p
      BY DEF Candidate
<1>3. ASSUME NEW p \in rows
      PROVE  /\ RowOK(w, s, p) /\ (p.base # NoBase <=> IsReal(p.handle))
  <2>1. RowOK(w, s, p)
        BY Projected
  <2>2. p.handle \in Handles /\ p.link \in SyncKeys /\ Grounded(w, p, s, p.link)
        BY <2>1, Based DEF RowOK
  <2>3. p.base = NoBase => ~IsReal(p.handle)
        BY <2>2, HandleKinds DEF Grounded
  <2>4. p.base # NoBase => IsReal(p.handle)
        BY <2>2 DEF Grounded
  <2> QED BY <2>1, <2>3, <2>4
<1> DEFINE ok(c) == CandOK(w, since, s, I, c) /\ ~c.fresh /\ CandBacked(s, I, c)
<1>4. ASSUME NEW p \in listed PROVE ok(A(p))
  <2>1. p \in Project(I, s) /\ p.base # NoBase /\ ItemTrue(w, since, page[p.handle[2]], p.handle[2])
        BY <1>3 DEF PageOK
  <2> QED BY <2>1, LoadedCand
<1>5. ASSUME NEW p \in missing PROVE ok(B(p))
  <2>1. p \in Project(I, s) /\ p.base # NoBase
        BY <1>3 DEF PageOK
  <2>2. ~w.srv[p.handle[2]].live
    <3>1. p.handle \in Handles /\ Grounded(w, p, s, p.link)
          BY <1>3, Based DEF RowOK
    <3>2. p.handle[2] \in Numbers /\ w.srv[p.handle[2]].source = s
          BY <2>1, <3>1, Anchored
    <3> QED BY <3>2 DEF Live, PageOK
  <2> QED BY <2>1, <2>2, LoadedCand
<1>6. ASSUME NEW p \in owing, p.base # NoBase PROVE ok(C(p))
  <2>1. p \in Project(I, s) /\ Known(w, p)
        BY <1>3, <1>6 DEF Covered
  <2>2. ItemTrue(w, since, Unlisted(p), p.handle[2])
        BY <1>3, <1>6, <2>1, UnlistedTrue
  <2> QED BY <1>6, <2>1, <2>2, LoadedCand
<1>7. ASSUME NEW p \in owing, p.base = NoBase PROVE ok(D(p))
      BY <1>7, LoadedCand
<1> HIDE DEF ok, A, B, C, D
<1>8. ASSUME NEW c \in todo
      PROVE  /\ c.row \in rows /\ ok(c)
             /\ \/ c.row \in listed /\ c = A(c.row)
                \/ c.row \in missing /\ c = B(c.row)
                \/ c.row \in owing /\ c.row.base # NoBase /\ c = C(c.row)
                \/ c.row \in owing /\ c.row.base = NoBase /\ c = D(c.row)
  <2>1. CASE \E p \in listed : c = A(p)
        BY <1>2, <1>4, <2>1
  <2>2. CASE \E p \in missing : c = B(p)
        BY <1>2, <1>5, <2>2
  <2>3. CASE \E p \in owing : p.base # NoBase /\ c = C(p)
        BY <1>2, <1>6, <2>3
  <2>4. CASE \E p \in owing : p.base = NoBase /\ c = D(p)
        BY <1>2, <1>7, <2>4
  <2> HIDE DEF todo, listed, missing, owing
  <2> QED BY <1>1, <2>1, <2>2, <2>3, <2>4
<1>9. \A c, d \in todo : c.row = d.row => c = d
  <2> HIDE DEF todo
  <2>1. listed \cap missing = {} /\ listed \cap owing = {} /\ missing \cap owing = {}
        OBVIOUS
  <2> HIDE DEF listed, missing, owing
  <2> QED BY <1>8, <2>1
<1>10. ASSUME NEW p \in rows, p.base # NoBase, ~Known(w, p)
       PROVE  \E c \in todo : c.row = p
  <2>1. p \in listed \/ p \in missing
        BY <1>3, <1>10 DEF Covered
  <2> HIDE DEF todo, listed, missing, owing
  <2>2. (p \in listed => A(p) \in todo) /\ (p \in missing => B(p) \in todo)
        BY <1>1
  <2> QED BY <1>2, <2>1, <2>2
<1> HIDE DEF todo
<1>11. \A c \in todo : c.row \in rows /\ CandOK(w, since, s, I, c) /\ ~c.fresh
                       /\ CandBacked(s, I, c)
      BY <1>8 DEF ok
<1>12. \A p \in rows : p.base # NoBase => Known(w, p) \/ \E c \in todo : c.row = p
      BY <1>10
<1> QED BY <1>9, <1>11, <1>12 DEF todo

(* The candidates of a page: each is one, no two share a key or a handle,  *)
(* and what none of them is about is known.                                *)
LEMMA ListCands ==
    ASSUME NEW w, NEW I, NEW s \in Sources, NEW page, NEW gone, NEW since,
           NEW new \in SUBSET DOMAIN page, DOMAIN page \subseteq Live(s),
           ServersOK(w), w.srv = srv, StoreOK(I, w),
           PageOK(w, s, since, page, gone), Covered(w, Project(I, s), page, gone),
           \A n \in new, k \in Keys : ~Under(I, s, k, Real(n))
    PROVE  LET local == Project(I, s)
               todo == Narrow(local \ Landed(local, new), page, gone)
                       \cup {NameMember(local, new, n, page[n]) : n \in new}
           IN  /\ \A c \in todo : CandOK(w, since, s, I, c) /\ CandBacked(s, I, c)
               /\ \A c, d \in todo : c # d => c.row.link # d.row.link
                                               /\ c.row.handle # d.row.handle
               /\ Tracked(I, w, s, Numbered(todo))
<1> DEFINE local == Project(I, s)
           rows == local \ Landed(local, new)
           narrow == Narrow(rows, page, gone)
           Nm(n) == NameMember(local, new, n, page[n])
           named == {Nm(n) : n \in new}
           todo == narrow \cup named
           cand(c) == CandOK(w, since, s, I, c) /\ CandBacked(s, I, c)
<1>1. rows \in SUBSET Project(I, s)
      OBVIOUS
<1>2. /\ \A c \in narrow : /\ c.row \in rows /\ CandOK(w, since, s, I, c) /\ ~c.fresh
                           /\ CandBacked(s, I, c)
      /\ \A c, d \in narrow : c.row = d.row => c = d
      /\ \A p \in rows : p.base # NoBase => Known(w, p) \/ \E c \in narrow : c.row = p
  <2>1. Covered(w, rows, page, gone)
        BY DEF Covered
  <2> HIDE DEF rows
  <2> QED BY <1>1, <2>1, NarrowOK
<1>3. ASSUME NEW n \in new
      PROVE  /\ CandOK(w, since, s, I, Nm(n)) /\ Nm(n).fresh /\ Nm(n).row.handle = Real(n)
             /\ Nm(n).row.base # NoBase
             /\ Nm(n).row.link \in {Hint(srv[n].link), Minted(srv[n].link, n)}
             /\ Nm(n).row.link = Hint(srv[n].link) => IsFirst(n, new)
             /\ \A p \in local : p.link = Nm(n).row.link => p \in Landing(local, new, n)
  <2>1. new \in SUBSET Live(s) /\ ItemTrue(w, since, page[n], n)
        /\ \A k \in Keys : ~Under(I, s, k, Real(n))
        BY DEF PageOK
  <2> QED BY <2>1, NamedOK
<1> HIDE DEF Nm
<1>4. ASSUME NEW c \in todo PROVE CandOK(w, since, s, I, c) /\ CandBacked(s, I, c)
  <2>1. CASE c \in narrow
        BY <1>2, <2>1
  <2>2. CASE c \in named
        BY <1>3, <2>2 DEF CandBacked
  <2> QED BY <2>1, <2>2
<1>5. ASSUME NEW c \in narrow, NEW d \in narrow, c # d
      PROVE  c.row.link # d.row.link /\ c.row.handle # d.row.handle
  <2>1. c.row \in local /\ d.row \in local /\ c.row # d.row
        BY <1>2, <1>5
  <2> QED BY <2>1, LoadedApart
<1>6. ASSUME NEW c \in narrow, NEW n \in new
      PROVE  c.row.link # Nm(n).row.link /\ c.row.handle # Nm(n).row.handle
  <2> DEFINE p == c.row
  <2>1. p \in local /\ p \notin Landed(local, new)
        BY <1>2
  <2> HIDE DEF p
  <2>2. p.link # Nm(n).row.link
        BY <1>3, <2>1 DEF Landed
  <2>3. p.handle # Real(n)
    <3>1. SUFFICES ASSUME p.handle = Real(n) PROVE FALSE
          OBVIOUS
    <3>2. n \in Numbers /\ RowOK(w, s, p)
          BY <2>1, Projected DEF Live
    <3>3. IsReal(p.handle) /\ p.link \in SyncKeys /\ p.link \in Keys /\ ~IsReal(p.link)
          BY <3>1, <3>2, HandleKinds, Based DEF RowOK
    <3>4. p.base # NoBase
          BY <3>2, <3>3 DEF RowOK, Grounded
    <3>5. Agree(View(I, s, p.link), p)
          BY <2>1, Projected
    <3>6. Under(I, s, p.link, p.handle)
          BY <3>4, <3>5 DEF Agree, Matches, Under
    <3> QED BY <3>1, <3>3, <3>6
  <2> QED BY <1>3, <2>2, <2>3 DEF p
<1>7. ASSUME NEW m \in new, NEW n \in new, m # n
      PROVE  Nm(m).row.link # Nm(n).row.link /\ Nm(m).row.handle # Nm(n).row.handle
  <2>1. m \in Numbers /\ n \in Numbers
        BY DEF Live
  <2>2. m \in Nat /\ n \in Nat /\ m # 0 /\ n # 0
        BY <2>1, HandleKinds
  <2>3. Real(m) # Real(n)
        BY <1>7 DEF Real
  <2>4. ASSUME Nm(m).row.link = Nm(n).row.link PROVE FALSE
    <3>1. srv[m].link = srv[n].link /\ IsFirst(m, new) /\ IsFirst(n, new)
          BY <1>3, <1>7, <2>2, <2>4 DEF Hint, Minted
    <3>2. m <= n /\ n <= m
          BY <3>1 DEF IsFirst
    <3> QED BY <1>7, <2>2, <3>2
  <2> QED BY <1>3, <2>3, <2>4
<1>8. ASSUME NEW c \in todo, NEW d \in todo, c # d
      PROVE  c.row.link # d.row.link /\ c.row.handle # d.row.handle
  <2> HIDE DEF narrow
  <2>1. CASE c \in narrow /\ d \in narrow
        BY <1>5, <1>8, <2>1
  <2>2. CASE c \in narrow /\ d \in named
        BY <1>6, <2>2
  <2>3. CASE c \in named /\ d \in narrow
        BY <1>6, <2>3
  <2>4. CASE c \in named /\ d \in named
        BY <1>7, <1>8, <2>4
  <2> QED BY <2>1, <2>2, <2>3, <2>4
<1>9. Tracked(I, w, s, Numbered(todo))
  <2>1. SUFFICES ASSUME NEW k \in Keys, View(I, s, k) # NoBinding, View(I, s, k).base # NoBase
                 PROVE  View(I, s, k).handle[2] \in Numbered(todo) \/ Known(w, View(I, s, k))
        BY DEF Tracked
  <2>2. PICK p \in local : /\ p.link = k /\ p.handle = View(I, s, k).handle
                           /\ p.base = View(I, s, k).base
                           /\ p.conflictRevision = View(I, s, k).conflictRevision
        BY <2>1, LoadedRows
  <2>3. p \in rows /\ p.base # NoBase
        BY <2>1, <2>2 DEF Landed, Landing
  <2>4. CASE Known(w, p)
        BY <2>2, <2>4 DEF Known
  <2>5. CASE \E c \in narrow : c.row = p
        BY <2>2, <2>3, <2>5 DEF Numbered
  <2> HIDE DEF rows, narrow
  <2> QED BY <1>2, <2>3, <2>4, <2>5
<1> HIDE DEF todo
<1>10. /\ \A c \in todo : CandOK(w, since, s, I, c) /\ CandBacked(s, I, c)
       /\ \A c, d \in todo : c # d => c.row.link # d.row.link /\ c.row.handle # d.row.handle
      BY <1>4, <1>8
<1> QED BY <1>9, <1>10 DEF todo, Nm

(* Listing keeps the invariant.                                            *)
LEMMA ListInv ==
    ASSUME Inv, NEW s \in Sources, NEW round \in BOOLEAN, NEW carried, NEW unread,
           List(s, round, carried, unread)
    PROVE  Inv'
<1> DEFINE local == Project(items, s)
           live == IF round THEN Live(s) ELSE Live(s) \cap changed[s]
           page == [n \in live |-> Listed(n, carried, unread)]
           bound == {p.handle : p \in {q \in local : IsReal(q.handle)}}
           gone == IF round THEN bound \ {Real(n) : n \in live}
                   ELSE {Real(n) : n \in changed[s] \ live}
           new == {n \in live : Real(n) \notin bound}
           todo == Narrow(local \ Landed(local, new), page, gone)
                   \cup {NameMember(local, new, n, page[n]) : n \in new}
           none == {}
           r == [source |-> s, since |-> none, writes |-> << >>, pushes |-> << >>,
                 answered |-> 0, todo |-> todo]
           w == World
<1>1. /\ run' = r /\ items' = items /\ srv' = srv /\ changed' = changed /\ body' = body
      /\ owed' = owed
      BY DEF List, store, servers
<1>2. World' = w /\ w.srv = srv
      BY <1>1 DEF World, Seen
<1>3. /\ ServersOK(w) /\ StoreOK(items, w) /\ Tracked(items, w, s, changed[s])
      /\ Sound(items, w, changed) /\ changed \in [Sources -> SUBSET Numbers]
      BY DEF Inv, Sound
<1> HIDE DEF w
<1>4. live \subseteq Live(s) /\ DOMAIN page = live /\ new \in SUBSET live
      OBVIOUS
<1>5. ASSUME NEW p \in local
      PROVE  /\ RowOK(w, s, p) /\ (IsReal(p.handle) <=> p.base # NoBase)
             /\ p.base # NoBase => p.handle[2] \in Numbers /\ p.handle = Real(p.handle[2])
  <2>1. RowOK(w, s, p)
        BY <1>3, Projected
  <2>2. p.handle \in Handles /\ p.link \in SyncKeys /\ Grounded(w, p, s, p.link)
        BY <2>1, Based DEF RowOK
  <2>3. p.base = NoBase => ~IsReal(p.handle)
        BY <2>2, HandleKinds DEF Grounded
  <2>4. p.base # NoBase => IsReal(p.handle)
        BY <2>2 DEF Grounded
  <2> QED BY <2>1, <2>2, <2>3, <2>4, HandleKinds
<1>6. PageOK(w, s, none, page, gone)
  <2>1. ASSUME NEW n \in live PROVE ItemTrue(w, none, page[n], n)
    <3>1. n \in Live(s) /\ page[n] = Listed(n, carried, unread)
          OBVIOUS
    <3> HIDE DEF page, live, none
    <3> QED BY <1>2, <1>3, <3>1, ListedTrue
  <2>2. ASSUME NEW h \in gone PROVE IsReal(h) /\ h[2] \notin Live(s)
    <3>1. CASE round
      <4>1. h \in bound /\ h \notin {Real(n) : n \in Live(s)}
            BY <3>1
      <4>2. PICK p \in local : IsReal(p.handle) /\ h = p.handle
            BY <4>1
      <4>3. h = Real(h[2])
            BY <1>5, <4>2
      <4> QED BY <4>1, <4>2, <4>3
    <3>2. CASE ~round
      <4>1. PICK n \in changed[s] : n \notin Live(s) /\ h = Real(n)
            BY <3>2
      <4>2. n \in Numbers
            BY <1>3
      <4> QED BY <4>1, <4>2, HandleKinds
    <3> QED BY <3>1, <3>2
  <2> HIDE DEF page, live, gone
  <2> QED BY <1>4, <2>1, <2>2 DEF PageOK
<1>7. Covered(w, local, page, gone)
  <2>1. ASSUME NEW p \in local, p.base # NoBase
        PROVE  p.handle[2] \in live \/ p.handle \in gone \/ Known(w, p)
    <3>1. IsReal(p.handle) /\ p.handle[2] \in Numbers /\ p.handle = Real(p.handle[2])
          BY <1>5, <2>1
    <3>2. CASE round
      <4>1. p.handle \in bound
            BY <3>1
      <4>2. p.handle[2] \notin live => p.handle \notin {Real(n) : n \in live}
            BY <3>1 DEF Real
      <4> QED BY <3>2, <4>1, <4>2
    <3>3. CASE ~round
      <4>1. p.handle[2] \in changed[s] \/ Known(w, p)
            BY <1>3, <2>1, Projected
      <4> QED BY <3>1, <3>3, <4>1
    <3> QED BY <3>2, <3>3
  <2> HIDE DEF page, live, gone
  <2> QED BY <1>4, <2>1 DEF Covered
<1>8. ASSUME NEW n \in new, NEW k \in Keys PROVE ~Under(items, s, k, Real(n))
  <2>1. SUFFICES ASSUME Under(items, s, k, Real(n)) PROVE FALSE
        OBVIOUS
  <2>2. PICK p \in local : p.handle = View(items, s, k).handle
        BY <1>3, <2>1, LoadedRows DEF Under
  <2>3. n \in Numbers
        BY DEF Live
  <2>4. p.handle = Real(n) /\ IsReal(p.handle)
        BY <2>1, <2>2, <2>3, HandleKinds DEF Under
  <2> QED BY <2>4
<1>9. /\ \A c \in todo : CandOK(w, none, s, items, c) /\ CandBacked(s, items, c)
      /\ \A c, d \in todo : c # d => c.row.link # d.row.link /\ c.row.handle # d.row.handle
      /\ Tracked(items, w, s, Numbered(todo))
  <2>1. new \in SUBSET DOMAIN page /\ DOMAIN page \subseteq Live(s)
        BY <1>4
  <2>2. \A n \in new, k \in Keys : ~Under(items, s, k, Real(n))
        BY <1>8
  <2> HIDE DEF page, gone, new, none, live, bound
  <2> QED BY <1>2, <1>3, <1>6, <1>7, <2>1, <2>2, ListCands
<1> HIDE DEF todo
<1>10. /\ r.source = s /\ r.since = none /\ r.writes = << >> /\ r.pushes = << >>
       /\ r.answered = 0 /\ r.todo = todo
       /\ r = [source |-> r.source, since |-> r.since, writes |-> r.writes,
               pushes |-> r.pushes, answered |-> r.answered, todo |-> r.todo]
      OBVIOUS
<1>11. /\ << >> \in Seq(Writes) /\ Len(r.pushes) = 0 /\ none \subseteq changed[s]
       /\ none \cup Numbered(todo) = Numbered(todo) /\ 1..0 = {}
      BY <1>10
<1> HIDE DEF r, none
<1>12. RunOK(w, items, changed, r)
      BY <1>9, <1>10, <1>11 DEF RunOK
<1>13. Backed(items, r)
      BY <1>9, <1>10, <1>11 DEF Backed
<1>14. V' = items
  <2>1. items \in Stores
        BY <1>3 DEF StoreOK
  <2>2. Fold(items, s, << >>).items = items
        BY <2>1, FoldType
  <2> QED BY <1>1, <1>10, <2>2 DEF V
<1>15. /\ body \in Nat /\ owed \subseteq Nat /\ (Mutable => owed \subseteq 1..body)
      BY DEF Inv
<1> QED BY <1>1, <1>2, <1>3, <1>12, <1>13, <1>14, <1>15 DEF Inv

-----------------------------------------------------------------------------
(* The invariant.                                                          *)

(* It holds at the start, for a kind whose content may be rewritten.       *)
LEMMA InitInv == ASSUME Init, Mutable PROVE Inv
<1> DEFINE w == World
<1>1. /\ items = [k \in Keys |-> NoItem] /\ srv = [n \in Numbers |-> NoMember]
      /\ changed = [s \in Sources |-> {}] /\ Idle /\ owed = {}
      BY DEF Init, Idle
<1>2. body \in Nat
      BY DEF Init
<1>3. w.srv = srv /\ w.given = 0..body /\ w.written = 0..body
      BY <1>1 DEF World, Seen
<1>4. NoBody \in 0..body
      BY <1>2 DEF NoBody
<1> HIDE DEF w
<1>5. ServersOK(w)
      BY <1>1, <1>3, <1>4 DEF ServersOK
<1>6. items \in Stores /\ (\A k \in Keys : items[k] = NoItem)
      /\ \A s \in Sources, k \in Keys : View(items, s, k) = NoBinding
      BY <1>1 DEF Stores, View, Loaded
<1>7. \A k \in SyncKeys : MintOK(items, w, k)
      BY <1>6, HandleKinds DEF MintOK
<1>8. StoreOK(items, w)
      BY <1>6, <1>7 DEF StoreOK, Bodied
<1>9. Sound(items, w, changed)
      BY <1>6, <1>8 DEF Sound, Tracked
<1>10. changed \in [Sources -> SUBSET Numbers]
      BY <1>1
<1>11. owed \subseteq Nat /\ owed \subseteq 1..body
      BY <1>1
<1> QED BY <1>1, <1>2, <1>5, <1>9, <1>10, <1>11 DEF Inv, w

(* Every step keeps it.                                                    *)
LEMMA NextInv == ASSUME Inv, [Next]_vars PROVE Inv'
<1>1. ASSUME NEW s \in Sources, Sync(s) PROVE Inv'
      BY <1>1, ListInv DEF Sync
<1>2. ASSUME UNCHANGED vars PROVE Inv'
  <2>1. /\ run' = run /\ items' = items /\ srv' = srv /\ changed' = changed /\ body' = body
        /\ owed' = owed
        BY <1>2 DEF vars
  <2>2. (Idle' <=> Idle) /\ World' = World /\ V' = V
        BY <2>1 DEF Idle, World, V
  <2> QED BY <2>1, <2>2 DEF Inv
<1> QED BY <1>1, <1>2, ClientInv, MutateInv, UpgradeInv, MergeStepInv, PushInv, RecordInv,
           CrashInv DEF Next

(* For every kind whose content may be rewritten, whatever the policies,   *)
(* the rights and the sources, the invariant holds in every state.         *)
THEOREM Invariant == ASSUME Mutable PROVE Spec => []Inv
<1>1. Init => Inv
      BY InitInv
<1>2. Inv /\ [Next]_vars => Inv'
      BY NextInv
<1> QED BY <1>1, <1>2, PTL DEF Spec

-----------------------------------------------------------------------------
(* What it gives.                                                          *)

(* A clean row has a base, whose body it holds when it holds one.          *)
LEMMA CleanRow ==
    ASSUME NEW w, NEW I, NEW s \in Sources, NEW p \in Project(I, s), StoreOK(I, w),
           p.status = "Clean"
    PROVE  p.base # NoBase /\ (p.object = NoBody \/ p.object = p.base.object)
<1> DEFINE k == p.link
           b == View(I, s, k)
<1>1. /\ k \in Keys /\ I[k] \in Rowed
      /\ IF b # NoBinding THEN p = BoundPlacement(I[k], k, b)
         ELSE p = Shared(I[k], k, k, "Created")
      BY ProjectRow
<1>2. b # NoBinding
      BY <1>1 DEF Shared
<1> HIDE DEF b
<1>3. p = [handle |-> b.handle, link |-> k, object |-> I[k].object,
           flags |-> I[k].flags, status |-> BoundStatus(I[k], b),
           conflictRevision |-> b.conflictRevision,
           conflictObject |-> b.conflictObject, base |-> b.base]
      BY <1>1, <1>2, ProjectColumns
<1>4. p.object = I[k].object /\ p.status = BoundStatus(I[k], b) /\ p.base = b.base
      BY <1>3
<1>5. InSync(I[k], b)
      BY <1>4 DEF BoundStatus
<1> QED BY <1>4, <1>5 DEF InSync

(* A clean row whose member has not moved since the checkpoint agrees with *)
(* the server, whatever crashed, was refused or went unanswered, when the  *)
(* collection is bound to one source.                                      *)
THEOREM CleanRowsAgree == ASSUME Mutable, ~BesideOthers PROVE Spec => []CleanAgrees
<1>1. ASSUME Inv PROVE CleanAgrees
  <2>1. SUFFICES ASSUME NEW s \in Sources, NEW p \in Project(items, s), Unmoved(s, p)
                 PROVE  LET m == srv[p.handle[2]]
                        IN  /\ m.live /\ p.base.revision = m.revision
                            /\ p.object \in {m.body, NoBody}
        BY DEF CleanAgrees
  <2> DEFINE w == World
             m == w.srv[p.handle[2]]
  <2>2. /\ ServersOK(w) /\ StoreOK(items, w) /\ Tracked(items, w, s, changed[s])
        /\ w.srv = srv
        BY <1>1 DEF Inv, Sound, World, Seen
  <2>3. p.status = "Clean" /\ p.handle[2] \notin changed[s]
        BY <2>1 DEF Unmoved
  <2> HIDE DEF w
  <2>4. p.base # NoBase /\ (p.object = NoBody \/ p.object = p.base.object)
        BY <2>2, <2>3, CleanRow
  <2>5. RowOK(w, s, p) /\ Known(w, p)
        BY <2>2, <2>3, <2>4, Projected
  <2>6. p.handle \in Handles /\ Grounded(w, p, s, p.link) /\ p.conflictRevision = NoRev
        BY <2>3, <2>5, Based DEF RowOK, Exact
  <2>7. m.live /\ m.revision = p.base.revision
        BY <2>5, <2>6 DEF Known, Exact
  <2>8. p.base.object \in {NoBody, m.body}
        BY <2>2, <2>4, <2>6, <2>7, Anchored
  <2> QED BY <2>2, <2>4, <2>7, <2>8
<1> QED BY <1>1, Invariant, PTL

(* An edit keeps owing its push, where an accepted push is told the        *)
(* revision it made, whatever the policies, the rights and the sources.    *)
THEOREM EditsStayOwed == ASSUME Mutable, ReportsRevision PROVE Spec => []EditsOwePush
<1>1. ASSUME Inv PROVE EditsOwePush
  <2>1. SUFFICES ASSUME NEW s \in Sources, NEW p \in Project(items, s), p.object \in owed,
                        p.status = "Clean"
                 PROVE  FALSE
        BY DEF EditsOwePush
  <2> DEFINE w == World
  <2>2. ServersOK(w) /\ StoreOK(items, w) /\ w.given = (0..body) \ owed
        BY <1>1 DEF Inv, Sound, World, Seen
  <2> HIDE DEF w
  <2>3. p.base # NoBase /\ (p.object = NoBody \/ p.object = p.base.object)
        BY <2>1, <2>2, CleanRow
  <2>4. RowOK(w, s, p)
        BY <2>2, Projected
  <2>5. p.base.object \in w.given
        BY <2>3, <2>4 DEF RowOK, Grounded, Told, Reporting
  <2>6. NoBody \in w.given
        BY <2>2 DEF ServersOK
  <2> QED BY <2>1, <2>2, <2>3, <2>5, <2>6
<1> QED BY <1>1, Invariant, PTL

(* A push replaces no body the store has not read, whatever the policies,  *)
(* the rights and the sources: when the server takes an update, the base   *)
(* of the binding it is pushed for names the body it replaces.             *)
THEOREM PushesOnlyOverRead == ASSUME Mutable PROVE Spec => UpdatesOnlyRead
<1>1. ASSUME Inv, PushUpdate, NEW n \in Numbers, srv'[n] # srv[n]
      PROVE  PushedOverBase(n)
  <2> DEFINE s == run.source
             x == Current
             p == x.row
             m == srv[p.handle[2]]
             i == View(items, s, p.link)
  <2>1. Pushing /\ x.change.kind = "Update" /\ ~Stale(p.handle[2], x.change.ifMatch)
        /\ \E member : Touch(p.handle[2], member)
        BY <1>1 DEF PushUpdate, Take
  <2>2. n = p.handle[2]
    <3>1. srv \in [Numbers -> Members \cup {NoMember}]
          BY <1>1 DEF Inv, ServersOK, World, Seen
    <3> QED BY <1>1, <2>1, <3>1 DEF Touch
  <2>3. /\ p.handle = Real(n) /\ p.link \in SyncKeys
        /\ (p.base.revision = m.revision => p.base.object \in {NoBody, m.body})
        BY <1>1, <2>1, <2>2, PushMember
  <2>4. /\ s \in Sources /\ PushOK(World, s, V, x) /\ PushBacked(s, items, x)
        BY <1>1, <2>1, PushNow
  <2>5. x.change.ifMatch = p.base.revision /\ p.base.revision # NoRev /\ p.base.object # NoBody
        BY <2>1, <2>4 DEF PushOK
  <2>6. p.base.object = m.body
        BY <2>1, <2>3, <2>5 DEF Stale
  <2>7. i # NoBinding /\ i.handle = p.handle /\ i.base.object = p.base.object
        BY <2>1, <2>4 DEF PushBacked
  <2>8. p.link \in Keys
        BY <2>3, HandleKinds
  <2>9. Loaded(items, p.link) /\ Binds(items[p.link], s) /\ i = items[p.link].sources[s]
        BY <2>7 DEF View, Binds
  <2> HIDE DEF s, x
  <2> QED BY <2>2, <2>3, <2>4, <2>6, <2>7, <2>8, <2>9 DEF PushedOverBase
<1>2. Inv /\ [Next]_vars =>
          [PushUpdate => \A n \in Numbers : srv'[n] # srv[n] => PushedOverBase(n)]_vars
      BY <1>1
<1> QED BY <1>2, Invariant, PTL DEF Spec, UpdatesOnlyRead
=============================================================================
