--------------------------------- MODULE Hub ---------------------------------
(***************************************************************************)
(* The multi-source hub of one collection (src/src/hub.rs) and the seam of *)
(* the store around it (src/src/client/write.rs): an item shared by every  *)
(* source, a binding of it per source, the projection a source loads and   *)
(* the fold of a write batch.                                              *)
(*                                                                         *)
(* Operators only.  Sync.tla keeps the items as its state and commits      *)
(* every batch through Write.  Public ids, summaries, refcounts and the    *)
(* attachment rows that ride the same transaction are left out; so are     *)
(* other collections, hence copies, moves and origins.                     *)
(***************************************************************************)
EXTENDS Placement, FiniteSets

CONSTANTS
    Sources,     \* the sources bound to the collection
    Keys,        \* the identities its items may be keyed by
    NoItem,      \* no row under a key
    NoBinding,   \* a source not binding an item
    HubConflict, \* the collection's cross-source policy (PimdirHubConflict)
    Mutable      \* whether the kind is other than message/rfc822

ASSUME HubConflictAssumption ==
    HubConflict \in {"Manual", "PreferIncoming", "PreferExisting"}
ASSUME MutableAssumption == Mutable \in BOOLEAN

Unbound == [s \in Sources |-> NoBinding]

Bindings(Handles) ==
    [handle : Handles, base : Bases \cup {NoBase}, conflictRevision : Nat,
     conflictObject : Nat, shared : Nat]

(* A row of the items table with its bindings; `retained` once no source   *)
(* holds it any more.                                                      *)
HubItems(Handles) ==
    [flags : FlagSets, object : Nat, deleted : BOOLEAN, conflicted : BOOLEAN,
     conflictObject : Nat, retained : BOOLEAN,
     sources : [Sources -> Bindings(Handles) \cup {NoBinding}]]

(* read_hub loads no retained row.                                         *)
Loaded(items, k) == items[k] # NoItem /\ ~items[k].retained
Binds(item, s) == item.sources[s] # NoBinding

-----------------------------------------------------------------------------
(* PimdirHub::project.                                                     *)

Shared(item, k, handle, status) ==
    [handle |-> handle, link |-> k, object |-> item.object, flags |-> item.flags,
     status |-> status, conflictRevision |-> NoRev, conflictObject |-> NoBody,
     base |-> NoBase]

InSync(item, b) ==
    /\ b.base # NoBase
    /\ b.base.flags = item.flags
    /\ item.object = NoBody \/ b.base.object = item.object

BoundStatus(item, b) ==
    IF item.deleted THEN "Tombstone"
    ELSE IF b.conflictRevision # NoRev \/ item.conflicted THEN "Conflict"
    ELSE IF b.base = NoBase THEN "Created"
    ELSE IF InSync(item, b) THEN "Clean" ELSE "Dirty"

(* bound_placement and tombstone_placement.                                *)
BoundPlacement(item, k, b) ==
    [Shared(item, k, b.handle, BoundStatus(item, b))
        EXCEPT !.conflictRevision = b.conflictRevision,
               !.conflictObject = b.conflictObject,
               !.base = b.base]

(* created_placement: the copy the hub offers a source lacking the item.   *)
Offered(item, s) == ~item.deleted /\ ~Binds(item, s) /\ item.object # NoBody

Project(items, s) ==
    {BoundPlacement(items[k], k, items[k].sources[s]) :
        k \in {j \in Keys : Loaded(items, j) /\ Binds(items[j], s)}}
    \cup
    {Shared(items[k], k, k, "Created") :
        k \in {j \in Keys : Loaded(items, j) /\ Offered(items[j], s)}}

-----------------------------------------------------------------------------
(* PimdirHub::absorb, one batch of one source.  The accumulator holds the  *)
(* items, the bindings licensed drops released, the handles an Overrule or *)
(* a Settle names, and the bodies set aside for the store to keep.         *)
Batch(items) ==
    [items |-> items, released |-> [k \in Keys |-> NoBinding],
     overruling |-> {}, settling |-> {}, kept |-> {}]

BindingOf(p, shared) ==
    [handle |-> p.handle, base |-> p.base, conflictRevision |-> p.conflictRevision,
     conflictObject |-> IF p.conflictRevision # NoRev THEN p.conflictObject ELSE NoBody,
     shared |-> shared]

(* The item an upsert folds into: the one loaded, else one opened on the   *)
(* upsert, the binding a drop of the same batch released standing in.      *)
Entry(batch, s, p) ==
    LET k    == p.link
        held == IF Loaded(batch.items, k) THEN batch.items[k]
                ELSE [flags |-> p.flags, object |-> p.object, deleted |-> FALSE,
                      conflicted |-> FALSE, conflictObject |-> NoBody,
                      retained |-> FALSE, sources |-> Unbound]
    IN  IF Binds(held, s) THEN held
        ELSE [held EXCEPT !.sources[s] = batch.released[k]]

(* keep_overruled: the diverging bodies an overruling write does not adopt *)
Overruled(batch, s, p) ==
    IF p.handle \notin batch.overruling \/ ~Loaded(batch.items, p.link) THEN {}
    ELSE LET item == batch.items[p.link]
             own  == IF Binds(item, s) THEN item.sources[s].conflictObject ELSE NoBody
             its  == IF item.conflicted THEN item.conflictObject ELSE NoBody
         IN  {own, its} \ {NoBody, p.object}

(* What folding a body in leaves: the item and the body a policy lost.     *)
Verdict(item, lost) == [item |-> item, lost |-> lost \ {NoBody}]
Settled(item, object) ==
    [item EXCEPT !.object = object, !.conflicted = FALSE, !.conflictObject = NoBody]
Diverged(item, incoming) ==
    [item EXCEPT !.conflicted = TRUE, !.conflictObject = incoming]

(* A body filling an item a pull emptied: the one that pull was waiting    *)
(* for.  A conflict recorded without it settles now that both are read.    *)
Fill(item, incoming) ==
    LET filled    == [item EXCEPT !.object = incoming]
        diverging == IF item.conflicted THEN item.conflictObject ELSE NoBody
    IN  IF diverging = NoBody \/ HubConflict = "Manual" THEN Verdict(filled, {})
        ELSE IF HubConflict = "PreferIncoming"
        THEN Verdict(Settled(item, diverging), {incoming})
        ELSE Verdict(Settled(item, incoming), {diverging})

(* Mutant: the policy settles on a side and forgets the other.             *)
MutantCrossConflict(item, incoming) ==
    IF incoming = NoBody \/ item.object = NoBody \/ HubConflict = "Manual"
    THEN Verdict(Diverged(item, incoming), {})
    ELSE Verdict(Settled(item, IF HubConflict = "PreferIncoming" THEN incoming
                               ELSE item.object), {})

(* Two sources changed the body: a divergence one side of which nobody     *)
(* read is recorded whatever the policy.                                   *)
CrossConflict(item, incoming) ==
    IF incoming = NoBody \/ item.object = NoBody \/ HubConflict = "Manual"
    THEN Verdict(Diverged(item, incoming), {})
    ELSE IF HubConflict = "PreferIncoming"
    THEN Verdict(Settled(item, incoming), {item.object})
    ELSE Verdict(Settled(item, item.object), {incoming})

(* Whether any base shows a revision: content someone may rewrite.         *)
Revised(item, p) ==
    \/ p.base # NoBase /\ p.base.revision # NoRev
    \/ \E t \in Sources : /\ Binds(item, t)
                          /\ item.sources[t].base # NoBase
                          /\ item.sources[t].base.revision # NoRev

BaseOf(b) == IF b = NoBinding THEN NoBase ELSE b.base
BaseObject(b) == IF BaseOf(b) = NoBase THEN NoBody ELSE BaseOf(b).object
(* The body the source and the item last agreed on.                        *)
Agreed(b) == IF b # NoBinding /\ b.shared # NoBody THEN b.shared ELSE BaseObject(b)
(* A row leaving its conflict.                                             *)
Resolving(b, p) ==
    b # NoBinding /\ b.conflictRevision # NoRev /\ p.status # "Conflict"
(* The base moved to another revision: the remote's body replaced this.    *)
Pulled(b, p) ==
    IF p.base = NoBase THEN BaseOf(b) # NoBase
    ELSE BaseOf(b) = NoBase \/ p.base.revision # BaseOf(b).revision

(* PimdirHub::reconcile_content: whether the source edited, the item moved *)
(* and the two disagree, read before the upsert applies.                   *)
FoldContent(item, s, p) ==
    LET b         == item.sources[s]
        isMutable == Revised(item, p)
        fills     == p.object # NoBody /\ item.object = NoBody /\ BaseObject(b) = NoBody
        edited    == /\ p.object # item.object
                     /\ p.object # BaseObject(b) \/ Resolving(b, p)
        moved     == item.object # Agreed(b)
        dropped   == /\ Pulled(b, p) /\ ~Resolving(b, p)
                     /\ item.object # BaseObject(b)
    IN  IF ~isMutable THEN Verdict(IF edited THEN Settled(item, p.object) ELSE item, {})
        ELSE IF fills THEN Fill(item, p.object)
        ELSE IF ~edited THEN Verdict(item, {})
        ELSE IF moved THEN CrossConflict(item, p.object)
        ELSE Verdict(Settled(item, p.object), IF dropped THEN {item.object} ELSE {})

(* Mutant: every base adopts the shared body.                              *)
MutantRebound(item, p, shared) ==
    LET b == BindingOf(p, shared)
    IN  IF b.base # NoBase THEN [b EXCEPT !.base.object = item.object] ELSE b

(* An immutable kind never owes a body: its base adopts the shared one.    *)
Rebound(item, p, shared) ==
    LET b == BindingOf(p, shared)
    IN  IF /\ b.base # NoBase
           /\ b.base.revision = NoRev
           /\ b.base.object # NoBody
           /\ item.object # NoBody
        THEN [b EXCEPT !.base.object = item.object] ELSE b

WithFlags(item, flags) == IF flags = Unknown THEN item ELSE [item EXCEPT !.flags = flags]

(* A tombstone keeps its binding and adopts no content; the removal        *)
(* settles the item's conflict.                                            *)
FoldTombstone(item, s, p) ==
    LET shared == IF Binds(item, s) THEN item.sources[s].shared ELSE NoBody
    IN  Verdict([WithFlags(item, p.flags) EXCEPT
                    !.deleted = TRUE, !.conflicted = FALSE, !.conflictObject = NoBody,
                    !.sources[s] = BindingOf(p, shared)], {})

(* An overruling write of the item's own body settles its conflict.        *)
Overruling(verdict, p) ==
    IF /\ verdict.item.conflicted
       /\ p.object # NoBody
       /\ p.object = verdict.item.object
    THEN [verdict EXCEPT !.item = Settled(@, p.object)] ELSE verdict

(* The agreement point moves only with a body the item settled on.         *)
Bound(verdict, s, p, before) ==
    LET shared == IF p.object # NoBody /\ ~verdict.item.conflicted
                  THEN verdict.item.object ELSE before
    IN  [verdict EXCEPT !.item.sources[s] = Rebound(verdict.item, p, shared)]

(* A live upsert clears the delete.                                        *)
Undeleted(item, p) == [WithFlags(item, p.flags) EXCEPT !.deleted = FALSE]
FoldLive(item, s, p, overruling, settling) ==
    LET content == IF settling /\ item.conflicted /\ p.object # NoBody
                   THEN Verdict(Settled(Undeleted(item, p), p.object), {})
                   ELSE FoldContent(Undeleted(item, p), s, p)
        before  == IF Binds(item, s) THEN item.sources[s].shared ELSE NoBody
    IN  Bound(IF overruling THEN Overruling(content, p) ELSE content, s, p, before)

Folded(batch, s, p, verdict) ==
    [batch EXCEPT !.items[p.link] = verdict.item,
                  !.released[p.link] = NoBinding,
                  !.overruling = @ \ {p.handle},
                  !.settling = @ \ {p.handle},
                  !.kept = @ \cup verdict.lost \cup Overruled(batch, s, p)]

AbsorbUpsert(batch, s, p) ==
    LET item == Entry(batch, s, p)
    IN  Folded(batch, s, p,
               IF p.status = "Tombstone" THEN FoldTombstone(item, s, p)
               ELSE FoldLive(item, s, p, p.handle \in batch.overruling,
                             p.handle \in batch.settling))

Unbind(item, s, reason) ==
    [item EXCEPT !.deleted = @ \/ reason = "Deleted", !.sources[s] = NoBinding]

(* A Deleted drop marks the item deleted, a licensed one keeps the binding *)
(* aside for the upsert that moves it.                                     *)
AbsorbDrop(batch, s, handle, reason) ==
    LET here == {k \in Keys : /\ Loaded(batch.items, k)
                              /\ Binds(batch.items[k], s)
                              /\ batch.items[k].sources[s].handle = handle}
    IN  [batch EXCEPT
           !.items = [k \in Keys |->
               IF k \in here THEN Unbind(@[k], s, reason) ELSE @[k]],
           !.released = [k \in Keys |->
               IF k \in here /\ reason # "Deleted" THEN batch.items[k].sources[s]
               ELSE @[k]]]

Absorb(batch, s, op) ==
    CASE op.op = "Upsert"   -> AbsorbUpsert(batch, s, op.row)
      [] op.op = "Drop"     -> AbsorbDrop(batch, s, op.handle, op.reason)
      [] op.op = "Overrule" -> [batch EXCEPT !.overruling = @ \cup {op.handle}]
      [] op.op = "Settle"   -> [batch EXCEPT !.settling = @ \cup {op.handle}]

-----------------------------------------------------------------------------
(* save_hub_diff and revive_item: an item left with no binding is          *)
(* retained, one never stored is not inserted, and a retained row coming   *)
(* back either lends its body (a message) or sets it aside.                *)
Unheld(item) == \A s \in Sources : ~Binds(item, s)

Revived(item, retained) ==
    IF Mutable \/ item.object # NoBody \/ retained.object = NoBody THEN item
    ELSE [item EXCEPT !.object = retained.object,
                      !.sources = [s \in Sources |->
                          IF /\ @[s] # NoBinding
                             /\ @[s].base # NoBase
                             /\ @[s].base.revision = NoRev
                             /\ @[s].base.object = NoBody
                          THEN [@[s] EXCEPT !.base.object = retained.object]
                          ELSE @[s]]]

Comeback(old, new, k) ==
    old[k] # NoItem /\ old[k].retained /\ new[k] # NoItem /\ ~new[k].retained

Save(old, new) ==
    [k \in Keys |->
        IF new[k] = NoItem THEN NoItem
        ELSE IF ~Unheld(new[k])
        THEN IF Comeback(old, new, k) THEN Revived(new[k], old[k]) ELSE new[k]
        ELSE IF Loaded(old, k) \/ new[k].retained
        THEN [new[k] EXCEPT !.deleted = TRUE, !.retained = TRUE]
        ELSE old[k]]

SetAside(old, new) ==
    IF ~Mutable THEN {}
    ELSE {old[k].object : k \in {j \in Keys : /\ Comeback(old, new, j)
                                              /\ ~Unheld(new[j])
                                              /\ new[j].object = NoBody}} \ {NoBody}

FoldFrom(batch, s, ops) ==
    LET fold[n \in 0..Len(ops)] ==
            IF n = 0 THEN batch ELSE Absorb(fold[n - 1], s, ops[n])
    IN  fold[Len(ops)]
Fold(items, s, ops) == FoldFrom(Batch(items), s, ops)

Licensed(ops) ==
    {ops[i].handle : i \in {j \in DOMAIN ops : /\ ops[j].op = "Drop"
                                              /\ ops[j].reason # "Deleted"}}

(* refuse_colliding_upserts and release_bindings: a source binds an        *)
(* identity once, and the binding moves to another handle only after a     *)
(* licensed drop of the one it leaves.                                     *)
Rebinds(items, new, s, ops) ==
    \/ \E i, j \in DOMAIN ops :
          /\ i < j /\ ops[i].op = "Upsert" /\ ops[j].op = "Upsert"
          /\ ops[i].row.link = ops[j].row.link
          /\ ops[i].row.handle # ops[j].row.handle
          /\ ~\E d \in i..j : /\ ops[d].op = "Drop" /\ ops[d].reason # "Deleted"
                              /\ ops[d].handle = ops[i].row.handle
    \/ \E k \in Keys : /\ Loaded(items, k) /\ Binds(items[k], s)
                       /\ new[k] # NoItem /\ Binds(new[k], s)
                       /\ new[k].sources[s].handle # items[k].sources[s].handle
                       /\ items[k].sources[s].handle \notin Licensed(ops)

(* refuse_unread_overrule: there is nothing to keep of a body nobody read. *)
UnreadOverrule(items, s, ops) ==
    \E i \in DOMAIN ops :
        /\ ops[i].op = "Overrule"
        /\ \E k \in Keys :
             LET item == items[k]
                 own  == {j \in 1..(i - 1) : /\ ops[j].op = "Upsert"
                                             /\ ops[j].row.handle = ops[i].handle}
                 last == IF own = {} THEN item.sources[s]
                         ELSE ops[CHOOSE j \in own : \A m \in own : m <= j].row
             IN  /\ Loaded(items, k) /\ Binds(item, s)
                 /\ item.sources[s].handle = ops[i].handle
                 /\ \/ last.conflictRevision # NoRev /\ last.conflictObject = NoBody
                    \/ item.conflicted /\ item.conflictObject = NoBody

(* PimdirSourceStore::write: one batch, applied whole or not at all.       *)
Refused(items, s, ops) ==
    \/ Rebinds(items, Fold(items, s, ops).items, s, ops)
    \/ UnreadOverrule(items, s, ops)

Written(items, kept, final) ==
    [items |-> Save(items, final.items),
     kept  |-> kept \cup final.kept \cup SetAside(items, final.items)]
Write(items, kept, s, ops) == Written(items, kept, Fold(items, s, ops))

-----------------------------------------------------------------------------
(* Every body a store still holds, live or retained.                       *)
HeldBodies(items, kept) ==
    LET rows  == {items[k] : k \in {j \in Keys : items[j] # NoItem}}
        bound == {x[1].sources[x[2]] : x \in {y \in rows \X Sources : Binds(y[1], y[2])}}
    IN  (kept \cup {r.object : r \in rows} \cup {r.conflictObject : r \in rows}
              \cup {b.conflictObject : b \in bound}) \ {NoBody}
=============================================================================
