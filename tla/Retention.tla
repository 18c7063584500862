----------------------------- MODULE Retention -----------------------------
(***************************************************************************)
(* What the store keeps and what it lets go of: the owner's collections,   *)
(* its retained rows and their purges, the release of old bodies, the      *)
(* items and files kept on the device, the references between items and    *)
(* the stand-ins of a message's attachments (src/src/client.rs,            *)
(* src/src/client/write.rs, src/src/client/attachments.rs), with the       *)
(* refcounts behind the collector and the triggers of                      *)
(* src/spec/migrations/storage/0001_init.sql.                              *)
(*                                                                         *)
(* Sync.tla and Hub.tla model what a sync decides; here a sync or a drain  *)
(* is the row it writes, and a write is the whole transaction: the diff,   *)
(* the revive or the retention, the pins, the references and the           *)
(* stand-ins.  What a source reads or a person edits is any body here: the *)
(* merge of it is the hub's, whatever the collection's policy, which may   *)
(* change between any two writes.  A message has one body and no revision, *)
(* so it never conflicts.  A link is filed in collections of its own kind  *)
(* alone, so a reference's end is its link.                                *)
(***************************************************************************)
EXTENDS Integers, Sequences, FiniteSets, Functions

CONSTANTS
    Collections,  \* every collection the store ever files
    KindOf,       \* collection -> "mail", "calendar" or "file"
    Links, LinkKind,
    Bare,         \* a minted link -> the identity it was minted over
    Sources, Bodies,
    ServerBody,   \* a message -> the body its servers hold
    TaskBodies,   \* the bodies of calendar items
    Carrying,     \* body -> the stand-ins its parts are keyed as
    Mid,          \* a calendar link -> the message its task was made from
    Old,          \* the messages dated before the owner's cutoff
    Ids, HomeId,  \* the ids collections go by, and each one's first
    Accounts, HomeAccount,
    AttachmentsId, \* account -> the id its attachments collection is given
    InitColls, InitSources,
    MaxWrites, MaxCare, MaxFiling, MaxRows,
    NoBody, NoClash, NoBase, NoBinding, NoRow, NoColl, NoTarget, NoVerb

ASSUME FiniteAssumption ==
    IsFiniteSet(Collections) /\ IsFiniteSet(Links) /\ IsFiniteSet(Sources)
ASSUME LinkAssumption == \A l \in Links : LinkKind[l] \in {"mail", "calendar", "file"}
ASSUME BareAssumption ==
    /\ DOMAIN Bare \subseteq Links
    /\ \A k \in DOMAIN Bare : Bare[k] \in Links \ DOMAIN Bare /\ LinkKind[Bare[k]] = LinkKind[k]
ASSUME BodyAssumption ==
    /\ NoBody \notin Bodies /\ TaskBodies \subseteq Bodies
    /\ NoClash \notin Bodies \cup {NoBody}
    /\ \A l \in Links : LinkKind[l] = "mail" => ServerBody[l] \in Bodies
ASSUME CarryingAssumption ==
    \A b \in Bodies : \A f \in Carrying[b] : f \in Links /\ LinkKind[f] = "file"
ASSUME MidAssumption == DOMAIN Mid \subseteq Links /\ \A e \in DOMAIN Mid : Mid[e] \in Links
ASSUME AccountAssumption == \A c \in Collections : HomeAccount[c] \in Accounts
ASSUME BoundAssumption == {MaxWrites, MaxCare, MaxFiling, MaxRows} \subseteq Nat

VARIABLES
    db,        \* the committed tables
    flight,    \* the verb between two of its chunks
    owed,      \* history: the places holding a change no server took
    bare,      \* history: the places a drain landed a message at with no body
    forgotten, \* history: the stand-ins someone removed by hand
    spent      \* what is used of each bound

vars == <<db, flight, owed, bare, forgotten, spent>>

Places == {p \in Collections \X Links : KindOf[p[1]] = LinkKind[p[2]]}

(* The rows of the tables.                                                 *)
Objects == Bodies \cup {NoBody}
Bases == [object : Objects, flags : BOOLEAN]
(* A conflict holds the diverging body, NoBody while nobody has read it.   *)
Clashes == Objects \cup {NoClash}
Bindings == [base : Bases \cup {NoBase}, shared : Objects, clash : Clashes]
Rows ==
    [state : {"live", "deleted", "retained"}, object : Objects, clash : Clashes,
     flags : BOOLEAN, bound : [Sources -> Bindings \cup {NoBinding}]]
References ==
    [from : Links, to : Links, role : {"source", "attachment", "related"}, user : BOOLEAN]
CollIds ==
    Ids \cup {HomeId[c] : c \in Collections} \cup {AttachmentsId[a] : a \in Accounts}
Colls == [id : CollIds, account : Accounts, role : BOOLEAN]
QueueRows ==
    [action : {"copy", "add"}, at : Places, target : CollIds \cup {NoTarget},
     meant : Collections \cup {NoColl}, object : Objects, parked : BOOLEAN]
Tables ==
    [items : [Places -> Rows \cup {NoRow}], refs : SUBSET References,
     count : [Bodies -> Int], stored : SUBSET Bodies,
     colls : [Collections -> Colls \cup {NoColl}], queue : Seq(QueueRows),
     sources : [Collections -> SUBSET Sources]]

ASSUME NoneAssumption ==
    /\ NoRow \notin Rows /\ NoBase \notin Bases /\ NoBinding \notin Bindings
    /\ NoColl \notin Colls \cup Collections
    /\ \A p \in Places, s \in Sources : NoVerb # [at |-> p, source |-> s]
ASSUME InitAssumption ==
    /\ InitColls \in [Collections -> Colls \cup {NoColl}]
    /\ \A c, d \in Collections :
         InitColls[c] # NoColl /\ InitColls[d] # NoColl /\ InitColls[c].id = InitColls[d].id
            => c = d
    /\ InitSources \in [Collections -> SUBSET Sources]
    /\ \A c \in Collections :
         InitSources[c] # {} => InitColls[c] # NoColl /\ KindOf[c] # "file"

Init ==
    /\ db = [items |-> [p \in Places |-> NoRow], refs |-> {},
             count |-> [b \in Bodies |-> 0], stored |-> {},
             colls |-> InitColls, queue |-> <<>>,
             sources |-> InitSources]
    /\ flight = NoVerb
    /\ owed = {} /\ bare = {} /\ forgotten = {}
    /\ spent = [write |-> 0, care |-> 0, filing |-> 0]

Spend(what, bound) == spent[what] < bound /\ spent' = [spent EXCEPT ![what] = @ + 1]

-----------------------------------------------------------------------------
(* Rows, and the pointers that pin a body.                                 *)

Unbound == [s \in Sources |-> NoBinding]
Row(object, flags, bound) ==
    [state |-> "live", object |-> object, clash |-> NoClash, flags |-> flags, bound |-> bound]
Binding(base, shared, clash) == [base |-> base, shared |-> shared, clash |-> clash]
Based(object, flags) == [object |-> object, flags |-> flags]

Held(row) == row # NoRow
Live(row) == Held(row) /\ row.state = "live"
Retained(row) == Held(row) /\ row.state = "retained"
Binders(row) == {s \in Sources : row.bound[s] # NoBinding}
BasedBy(row) == {s \in Binders(row) : row.bound[s].base # NoBase}

(* object_refs: the pointer columns of one item, and of its bindings.      *)
Own == {<<"item">>, <<"clash">>}
Columns == Own \cup ({"base", "shared", "diverging"} \X Sources)
PointsTo(row, column, b) ==
    /\ Held(row)
    /\ CASE column[1] = "item" -> row.object = b
         [] column[1] = "clash" -> row.clash = b
         [] column[1] = "base" -> column[2] \in BasedBy(row) /\ row.bound[column[2]].base.object = b
         [] column[1] = "shared" -> column[2] \in Binders(row) /\ row.bound[column[2]].shared = b
         [] column[1] = "diverging" -> column[2] \in Binders(row) /\ row.bound[column[2]].clash = b
Pins(row, b) == Cardinality({k \in Columns : PointsTo(row, k, b)})

(* recompute_refcounts: every pointer of every row, and the queued bodies. *)
Counted(d) ==
    [b \in Bodies |->
        Cardinality({x \in Places \X Columns : PointsTo(d.items[x[1]], x[2], b)})
        + Cardinality({i \in DOMAIN d.queue : d.queue[i].object = b})]
Recomputed(d) == [d EXCEPT !.count = Counted(d)]

(* adjust_refcounts, from the row a write read to the row it left.         *)
Adjusted(count, old, new) == [b \in Bodies |-> count[b] + Pins(new, b) - Pins(old, b)]
(* Mutant: the diverging body of a removed row stays pinned.               *)
MutantUnpinned(count, items, ps) ==
    [b \in Bodies |->
        count[b] - Cardinality({p \in ps : PointsTo(items[p], <<"item">>, b)})]

(* release_pins: the removed rows' own bodies, the diverging ones too; the *)
(* bindings hold none by then.                                             *)
Unpinned(count, items, ps) ==
    [b \in Bodies |->
        count[b] - Cardinality({x \in ps \X Own : PointsTo(items[x[1]], x[2], b)})]

-----------------------------------------------------------------------------
(* The triggers behind a removed row.                                      *)

HeldSomewhere(items, l) == \E p \in Places : p[2] = l /\ Held(items[p])
Names(r, l) == l \in {r.from, r.to}

(* item_reference_collects_files: a bodiless file no source binds goes     *)
(* once no reference names it.                                             *)
CollectFiles(d, gone) ==
    LET freed == {p \in Places :
                      /\ LinkKind[p[2]] = "file" /\ Held(d.items[p])
                      /\ \E r \in gone : Names(r, p[2])
                      /\ d.items[p].object = NoBody /\ Binders(d.items[p]) = {}
                      /\ \A r \in d.refs : ~Names(r, p[2])}
    IN  [d EXCEPT !.items = [p \in Places |-> IF p \in freed THEN NoRow ELSE @[p]]]

WithoutRefs(d, gone) == CollectFiles([d EXCEPT !.refs = @ \ gone], gone)

(* Mutant: a reference goes with any row of its end.                       *)
MutantWithout(d, ps) ==
    LET items == [p \in Places |-> IF p \in ps THEN NoRow ELSE d.items[p]]
    IN  WithoutRefs([d EXCEPT !.items = items],
                    {r \in d.refs : \E p \in ps : Names(r, p[2])})

(* items_drop_references: a reference goes with the last row of an end.    *)
Without(d, ps) ==
    LET items == [p \in Places |-> IF p \in ps THEN NoRow ELSE d.items[p]]
        last  == {p[2] : p \in {q \in ps : ~HeldSomewhere(items, q[2])}}
    IN  WithoutRefs([d EXCEPT !.items = items],
                    {r \in d.refs : \E l \in last : Names(r, l)})

-----------------------------------------------------------------------------
(* References.                                                             *)

Key(r) == <<r.from, r.to, r.role>>
Reference(from, to, role, user) == [from |-> from, to |-> to, role |-> role, user |-> user]

(* add_reference: nothing without both ends; a person's takes over a       *)
(* rule's, never the reverse.                                              *)
Referred(d, r) ==
    LET prior == {q \in d.refs : Key(q) = Key(r)}
    IN  IF ~HeldSomewhere(d.items, r.from) \/ ~HeldSomewhere(d.items, r.to) THEN d
        ELSE IF prior = {} THEN [d EXCEPT !.refs = @ \cup {r}]
        ELSE [d EXCEPT !.refs = (@ \ prior) \cup {[q EXCEPT !.user = @ \/ r.user] : q \in prior}]

(* add_reference of a rule, which leaves what a person or a rule named.    *)
Ruled(d, rules) ==
    [d EXCEPT !.refs = @ \cup {r \in rules :
        /\ HeldSomewhere(d.items, r.from) /\ HeldSomewhere(d.items, r.to)
        /\ \A q \in @ : Key(q) # Key(r)}]

(* link_references, of the rules whose ends are modelled: a task and the   *)
(* message it was made from, both live, from whichever end is written.     *)
Linked(d, l) ==
    LET live(m) == \E p \in Places : p[2] = m /\ Live(d.items[p])
        rules == {Reference(e, Mid[e], "source", FALSE) :
                      e \in {x \in DOMAIN Mid : l \in {x, Mid[x]} /\ live(x) /\ live(Mid[x])}}
    IN  Ruled(d, rules)

-----------------------------------------------------------------------------
(* Collections, and the attachments collection of an account.              *)

Filed(d) == {c \in Collections : d.colls[c] # NoColl}
Coll(id, account, role) == [id |-> id, account |-> account, role |-> role]
Created(d, c, id, account) == [d EXCEPT !.colls[c] = Coll(id, account, FALSE)]

(* set_collection_role, and collections_role_moves: the holder of the      *)
(* account and the kind loses the role in the same statement.              *)
RoleSet(d, c, role) ==
    [d EXCEPT !.colls = [x \in Collections |->
        IF x = c THEN [@[c] EXCEPT !.role = role]
        ELSE IF role /\ x \in Filed(d) /\ KindOf[x] = KindOf[c] /\ @[x].account = @[c].account
             THEN [@[x] EXCEPT !.role = FALSE]
        ELSE @[x]]]

Roled(d, account) ==
    {c \in Filed(d) : KindOf[c] = "file" /\ d.colls[c].role /\ d.colls[c].account = account}
Under(d, id) == {c \in Filed(d) : d.colls[c].id = id}

Spare(d) == {c \in Collections \ Filed(d) : KindOf[c] = "file"}

(* collection_of: the holder of the role, else the collection under the    *)
(* account's fixed id, declared here; none when another kind has taken it  *)
(* (or, of this model, once Collections has no other left).                *)
AttachmentsOf(d, account) ==
    IF Roled(d, account) # {} THEN [db |-> d, found |-> Roled(d, account)]
    ELSE LET id == AttachmentsId[account] IN
         CASE \E c \in Under(d, id) : KindOf[c] # "file" -> [db |-> d, found |-> {}]
           [] \E c \in Under(d, id) : KindOf[c] = "file" ->
                [db |-> RoleSet(d, CHOOSE c \in Under(d, id) : TRUE, TRUE),
                 found |-> Under(d, id)]
           [] Under(d, id) = {} /\ Spare(d) # {} ->
                LET c == CHOOSE c \in Spare(d) : TRUE
                IN  [db |-> RoleSet(Created(d, c, id, account), c, TRUE), found |-> {c}]
           [] OTHER -> [db |-> d, found |-> {}]

(* insert_file: a file with no body, bound by nothing.                     *)
InsertFile(d, c, l) == [d EXCEPT !.items[<<c, l>>] = Row(NoBody, FALSE, Unbound)]

(* record: the stand-ins of a message's parts the collection lacks, and    *)
(* the reference to each.                                                  *)
Recorded(d, account, l, body) ==
    LET at == AttachmentsOf(d, account)
        c  == CHOOSE c \in at.found : TRUE
        inserted == [at.db EXCEPT !.items = [p \in Places |->
            IF p[1] = c /\ p[2] \in Carrying[body] /\ ~Held(@[p])
            THEN Row(NoBody, FALSE, Unbound) ELSE @[p]]]
    IN  IF at.found = {} THEN d
        ELSE Ruled(inserted, {Reference(l, f, "attachment", FALSE) : f \in Carrying[body]})

-----------------------------------------------------------------------------
(* The write path.                                                         *)

AccountOf(d, c) == d.colls[c].account
(* lookup_objects: a row of the account holding the body under the link,   *)
(* retained or not.                                                        *)
HeldBody(d, p, body) ==
    \E q \in Places : /\ q[2] = p[2] /\ Held(d.items[q]) /\ d.items[q].object = body
                      /\ AccountOf(d, q[1]) = AccountOf(d, p[1])

(* gaining: a body entering the account is read for its parts, read before *)
(* the diff is saved.                                                      *)
Gaining(d, p, old, new) ==
    /\ KindOf[p[1]] = "mail" /\ new.object # NoBody /\ Live(new)
    /\ ~Held(old) \/ old.object # new.object
    /\ ~HeldBody(d, p, new.object)

(* held_elsewhere: the account holds the link live in another collection   *)
(* with the retiring body, or the retiring row has none.                   *)
HeldElsewhere(d, p, object) ==
    \E q \in Places : /\ q[2] = p[2] /\ q[1] # p[1] /\ Live(d.items[q])
                      /\ object = NoBody \/ d.items[q].object = object
                      /\ AccountOf(d, q[1]) = AccountOf(d, p[1])

(* purge_item: a retained row goes, its pin with it.                       *)
Purged(d, p) ==
    Without([d EXCEPT !.count = Unpinned(@, d.items, {p})], {p})

(* The last binding dropped: the row is retained, or purged as a move.     *)
Retired(d, p) ==
    LET kept == [d EXCEPT !.items[p].state = "retained"]
    IN  IF HeldElsewhere(kept, p, d.items[p].object) THEN Purged(kept, p) ELSE kept

(* revive_item: a placement carrying no body keeps a message's retained    *)
(* one, its bases taking it.                                               *)
Revived(p, held, new) ==
    IF new.object # NoBody \/ held.object = NoBody \/ KindOf[p[1]] # "mail" THEN new
    ELSE [new EXCEPT !.object = held.object,
                     !.bound = [s \in Sources |->
                        IF s \in BasedBy(new) /\ new.bound[s].base.object = NoBody
                        THEN [@[s] EXCEPT !.base.object = held.object] ELSE @[s]]]

(* apply and save_hub_diff: one item's diff, saved in one transaction.     *)
Saved(d, p, new) ==
    LET held == d.items[p]
        old  == IF Retained(held) THEN NoRow ELSE held
        row  == IF Retained(held) THEN Revived(p, held, new) ELSE new
        count == IF Retained(held) THEN Unpinned(d.count, d.items, {p}) ELSE d.count
        saved == [d EXCEPT !.items[p] = row, !.count = Adjusted(count, old, row)]
        linked == IF Held(old) THEN saved ELSE Linked(saved, p[2])
        retired == IF Held(old) /\ Binders(old) # {} /\ Binders(row) = {}
                   THEN Retired(linked, p) ELSE linked
    IN  IF Gaining(d, p, old, new) THEN Recorded(retired, AccountOf(d, p[1]), p[2], new.object)
        ELSE retired

(* keep_overruled: each body set aside becomes a retained row under a key  *)
(* minted over the item's, minted again over a held one.                   *)
Free(d, p) ==
    {k \in DOMAIN Bare : Bare[k] = p[2] /\ LinkKind[k] = KindOf[p[1]] /\ ~Held(d.items[<<p[1], k>>])}
Keys(d, p, bodies) == Injection(bodies, Free(d, p))
Kept(d, p, bodies) ==
    LET key == CHOOSE key \in Keys(d, p, bodies) : TRUE
        copy(b) == [Row(b, d.items[p].flags, Unbound) EXCEPT !.state = "retained"]
    IN  [d EXCEPT !.items = [q \in Places |->
                     IF \E b \in bodies : q = <<p[1], key[b]>>
                     THEN copy(CHOOSE b \in bodies : q = <<p[1], key[b]>>) ELSE @[q]],
                  !.count = [b \in Bodies |-> IF b \in bodies THEN @[b] + 1 ELSE @[b]]]

Stored(d, bodies) == [d EXCEPT !.stored = @ \cup (bodies \cap Bodies)]

-----------------------------------------------------------------------------
(* The hub's merge of one source's upsert into its item.                   *)

Mails == {p \in Places : LinkKind[p[2]] = "mail"}
Events == {p \in Places : LinkKind[p[2]] = "calendar"}
Policies == {"Manual", "PreferIncoming", "PreferExisting"}
Upsert(object, flags, base, clash, pulled) ==
    [object |-> object, flags |-> flags, base |-> base, clash |-> clash, pulled |-> pulled]

OwnOf(row, s) == IF s \in Binders(row) THEN row.bound[s] ELSE Binding(NoBase, NoBody, NoClash)
BaseBody(own) == IF own.base = NoBase THEN NoBody ELSE own.base.object
Conflicted(row) == row.clash # NoClash \/ \E s \in Binders(row) : row.bound[s].clash # NoClash

(* The item a write leaves, and the body its policy did not adopt.         *)
Verdict(row, lost) == [row |-> row, lost |-> lost]
Taken(row, body) == [row EXCEPT !.object = body, !.clash = NoClash]

(* A body filling an item a pull emptied, beside the conflict that waited  *)
(* for it.                                                                 *)
Filled(row, body, policy) ==
    IF row.clash \notin Bodies \/ policy = "Manual" THEN Verdict([row EXCEPT !.object = body], NoBody)
    ELSE IF policy = "PreferIncoming" THEN Verdict(Taken(row, row.clash), body)
    ELSE Verdict(Taken(row, body), row.clash)

(* The source and the item both moved.                                     *)
Crossed(row, body, policy) ==
    IF NoBody \in {body, row.object} \/ policy = "Manual"
    THEN Verdict([row EXCEPT !.clash = body], NoBody)
    ELSE IF policy = "PreferIncoming" THEN Verdict(Taken(row, body), row.object)
    ELSE Verdict(Taken(row, row.object), body)

(* reconcile_content, for a kind whose bodies change and for a message.    *)
Reconciled(row, own, up, mutable, policy) ==
    LET prev == BaseBody(own)
        agreed == IF own.shared # NoBody THEN own.shared ELSE prev
        resolving == own.clash # NoClash /\ up.clash = NoClash
        edited == up.object # prev \/ resolving
        moved == row.object # agreed
        changed == up.object # row.object
        dropped == IF up.pulled /\ ~resolving /\ row.object # prev THEN row.object ELSE NoBody
    IN  CASE ~mutable ->
               Verdict(IF edited /\ changed THEN Taken(row, up.object) ELSE row, NoBody)
          [] mutable /\ up.object # NoBody /\ row.object = NoBody /\ prev = NoBody ->
               Filled(row, up.object, policy)
          [] OTHER ->
               IF ~edited \/ ~changed THEN Verdict(row, NoBody)
               ELSE IF moved THEN Crossed(row, up.object, policy)
               ELSE Verdict(Taken(row, up.object), dropped)

(* absorb_upsert: an edit settles the item's conflict; an overruling one   *)
(* does when it restates the body; the agreement point moves with a body   *)
(* the item settled on.                                                    *)
Absorbed(row, s, up, made, mutable, policy) ==
    LET own == OwnOf(row, s)
        flagged == [row EXCEPT !.state = "live", !.flags = up.flags]
        verdict == IF made = "edit" /\ row.clash # NoClash
                   THEN Verdict(Taken(flagged, up.object), NoBody)
                   ELSE Reconciled(flagged, own, up, mutable, policy)
        item == IF made = "overrule" /\ up.object # NoBody /\ up.object = verdict.row.object
                THEN Taken(verdict.row, up.object) ELSE verdict.row
        shared == IF up.object # NoBody /\ item.clash = NoClash THEN item.object ELSE own.shared
    IN  Verdict([item EXCEPT !.bound[s] = Binding(up.base, shared, up.clash)], verdict.lost)

(* keep_overruled of the hub: the diverging bodies an overruling edit does *)
(* not adopt.                                                              *)
Overruled(row, s, up, made) ==
    IF made = "overrule" THEN {OwnOf(row, s).clash, row.clash} \ {NoClash, up.object} ELSE {}

-----------------------------------------------------------------------------
(* What a sync, an upgrade, an edit and a drain write.                     *)

Writes == Spend("write", MaxWrites)

(* The sources of a collection, by a checkpoint or a binding.              *)
Syncing(d, c) ==
    d.sources[c] \cup {s \in Sources :
        \E p \in Places : p[1] = c /\ Held(d.items[p]) /\ s \in Binders(d.items[p])}

(* What a row owes a server: a delete, a create, a flag, an edit or the    *)
(* resolution of a conflict.                                               *)
Owes(p, row) ==
    /\ Held(row) /\ Binders(row) # {}
    /\ \/ row.state = "deleted" \/ BasedBy(row) # Binders(row) \/ Conflicted(row)
       \/ \E s \in Binders(row) :
             \/ row.bound[s].base.flags # row.flags
             \/ p \in Events /\ row.object # NoBody
                   /\ row.bound[s].base.object \notin {NoBody, row.object}
Owing(p, row) == IF Owes(p, row) THEN owed \cup {p} ELSE owed \ {p}
Bodiless(row) == Held(row) /\ row.object = NoBody /\ BasedBy(row) = {}

(* The item an upsert meets in the hub, made when there is none.           *)
Item(p, up) ==
    IF Held(db.items[p]) /\ ~Retained(db.items[p]) THEN db.items[p]
    ELSE Row(up.object, up.flags, Unbound)
(* A kind whose bodies change shows it by a revision on some base.         *)
Merged(p, row, s, up, made, policy) ==
    Absorbed(row, s, up, made, p \in Events /\ (up.base # NoBase \/ BasedBy(row) # {}), policy)

(* One upsert written into the item, the bodies it displaces and the one a *)
(* revive sets aside kept; a key has to be left for each.                  *)
Write(d, p, row, s, up, made, policy) ==
    LET out == Merged(p, row, s, up, made, policy)
        saved == Saved(Stored(d, {up.object, up.clash, BaseBody(up)}), p, out.row)
        revived == IF Retained(d.items[p]) /\ p \in Events /\ up.object = NoBody
                   THEN {d.items[p].object} ELSE {}
        kept == (Overruled(row, s, up, made) \cup revived \cup {out.lost}) \ {NoBody}
    IN  /\ Keys(saved, p, kept) # {}
        /\ db' = Kept(saved, p, kept)
        /\ owed' = Owing(p, out.row)
        /\ bare' = IF ~Bodiless(db'.items[p]) THEN bare \ {p}
                   ELSE IF made = "landing" THEN bare \cup {p} ELSE bare
Sync(p, s, up, policy) ==
    /\ Writes
    /\ Write(db, p, Item(p, up), s, up, "sync", policy)
    /\ UNCHANGED <<flight, forgotten>>

(* A source opens its checkpoint over a collection.                        *)
StartSync(c, s) ==
    /\ Writes
    /\ c \in Filed(db) /\ KindOf[c] # "file" /\ s \notin db.sources[c]
    /\ db' = [db EXCEPT !.sources[c] = @ \cup {s}]
    /\ UNCHANGED <<flight, owed, bare, forgotten>>

(* A member a server lists joins its row, revives it or makes it, at Meta. *)
ListMember(p, s) ==
    LET row == db.items[p]
        flags == Held(row) /\ ~Retained(row) /\ row.flags
    IN  /\ p[1] \in Filed(db) /\ s \in db.sources[p[1]] /\ p[2] \notin DOMAIN Bare
        /\ Held(row) => s \notin Binders(row)
        /\ Sync(p, s, Upsert(NoBody, flags, Based(NoBody, flags), NoClash, TRUE), "Manual")

(* An upgrade opens over a message at Meta, and lands its body a chunk     *)
(* later.                                                                  *)
BeginUpgrade(p, s) ==
    /\ flight = NoVerb
    /\ Live(db.items[p]) /\ db.items[p].object = NoBody /\ s \in BasedBy(db.items[p])
    /\ flight' = [at |-> p, source |-> s]
    /\ UNCHANGED <<db, owed, bare, forgotten, spent>>
LandUpgrade ==
    LET p == flight.at
        s == flight.source
        row == db.items[p]
        body == ServerBody[p[2]]
        up == Upsert(body, row.flags, Based(body, row.bound[s].base.flags), NoClash, FALSE)
    IN  /\ flight # NoVerb
        /\ flight' = NoVerb
        /\ IF Live(row) /\ s \in BasedBy(row) THEN Write(db, p, row, s, up, "sync", "Manual")
           ELSE UNCHANGED <<db, owed, bare>>
        /\ UNCHANGED <<forgotten, spent>>

(* A flag change of the store.                                             *)
SetFlags(p, s) ==
    LET row == db.items[p]
        own == row.bound[s]
    IN  /\ Live(row) /\ s \in Binders(row)
        /\ Sync(p, s, Upsert(row.object, ~row.flags, own.base, own.clash, FALSE), "Manual")

(* An item a source is shown: bound by it, or bound by another and held    *)
(* with its body, which is offered as a create.                            *)
Seen(row, s) ==
    Live(row) /\ Binders(row) # {} /\ (s \in Binders(row) \/ row.object # NoBody)
(* origin_for_link: where the server has the body a create copies.         *)
Origins(p, s) ==
    {q \in Places :
        /\ q[1] # p[1] /\ q[2] \in {p[2]} \cup {Bare[k] : k \in {p[2]} \cap DOMAIN Bare}
        /\ Held(db.items[q]) /\ s \in BasedBy(db.items[q])
        /\ db.items[p].object \in {NoBody, db.items[q].bound[s].base.object}}
(* The push of a create, by its body or from its origin, or of the flags.  *)
Push(p, s) ==
    LET row == db.items[p]
        own == OwnOf(row, s)
        creates == /\ own.base = NoBase /\ own.clash = NoClash /\ row.clash = NoClash
                   /\ row.object # NoBody \/ Origins(p, s) # {}
        base == IF creates THEN Based(row.object, row.flags)
                ELSE [own.base EXCEPT !.flags = row.flags]
    IN  /\ s \in db.sources[p[1]] /\ Seen(row, s)
        /\ creates \/ (own.base # NoBase /\ own.base.flags # row.flags)
        /\ Sync(p, s, Upsert(row.object, row.flags, base, own.clash, FALSE), "Manual")

(* What a binding of the source is shown of the item.                      *)
Shown(row, s) == Held(row) /\ ~Retained(row) /\ s \in Binders(row)
Differs(row, s) == row.object \notin {NoBody, BaseBody(row.bound[s])}
Clashing(row, s) == Live(row) /\ {row.clash, row.bound[s].clash} # {NoClash}

(* A member gone from its server, or a pushed delete: the binding is       *)
(* dropped and the item deleted, retained with its last binding.           *)
Unbinds(p, row, s) ==
    LET left == [row EXCEPT !.state = "deleted", !.bound[s] = NoBinding]
    IN  db' = Saved(db, p, left) /\ owed' = Owing(p, left)
DropMember(p, s) ==
    LET row == db.items[p]
    IN  /\ Writes
        /\ Shown(row, s)
        /\ row.state = "deleted" \/ (s \in BasedBy(row) /\ ~Differs(row, s))
        /\ Unbinds(p, row, s)
        /\ UNCHANGED <<flight, bare, forgotten>>
(* A vanished member whose row holds another body is created again.        *)
Resurrect(p, s) ==
    LET row == db.items[p]
    IN  /\ Live(row) /\ Shown(row, s) /\ Differs(row, s)
        /\ s \in BasedBy(row) \/ row.bound[s].clash # NoClash
        /\ Sync(p, s, Upsert(row.object, row.flags, NoBase, NoClash, FALSE), "Manual")

(* The base a decision on a divergence leaves: the diverging body.         *)
BaseOf(row, own, body) ==
    Based(body, IF own.base = NoBase THEN row.flags ELSE own.base.flags)
Decided(row, own) == IF own.clash = NoClash THEN own.base ELSE BaseOf(row, own, own.clash)
(* A removal: a tombstone over its base; a create nothing took is          *)
(* withdrawn.                                                              *)
Remove(p, s) ==
    LET row == db.items[p]
        own == OwnOf(row, s)
        base == Decided(row, own)
        gone == [row EXCEPT !.state = "deleted", !.clash = NoClash,
                            !.bound[s] = Binding(base, own.shared, NoClash)]
    IN  /\ Writes
        /\ Seen(row, s)
        /\ IF base = NoBase THEN Unbinds(p, gone, s)
           ELSE db' = Saved(db, p, gone) /\ owed' = Owing(p, gone)
        /\ UNCHANGED <<flight, bare, forgotten>>

(* An event's body read from its server, or known to have changed there:   *)
(* it replaces the row's, a local edit's too where the source prefers the  *)
(* remote, and revives a tombstone.  A binding's conflict clears first; an *)
(* item's waits for the body this binding's base lacks.                    *)
Pull(p, s, b, policy) ==
    LET row == db.items[p]
        own == row.bound[s]
        clear == Upsert(row.object, row.flags, own.base, NoClash, FALSE)
        settles == Live(row) /\ own.clash = NoBody
        met == IF settles THEN Merged(p, row, s, clear, "sync", policy).row ELSE row
        up == Upsert(b, row.flags, BaseOf(row, own, b), NoClash, TRUE)
    IN  /\ Writes
        /\ Shown(row, s)
        /\ \/ s \in BasedBy(row) /\ own.clash = NoClash /\ ~Clashing(row, s)
           \/ s \in BasedBy(row) /\ row.state = "deleted" /\ ~Differs(row, s)
           \/ s \in BasedBy(row) /\ own.clash = NoClash /\ BaseBody(own) = NoBody /\ b # NoBody
           \/ settles /\ b \notin {NoBody, row.object}
        /\ Write(db, p, met, s, up, "sync", policy)
        /\ UNCHANGED <<flight, forgotten>>
(* The base learns the body the server holds, the row keeping its own: the *)
(* one it was edited over, the one pushed, or the row's own come back.     *)
Rebase(p, s, b) ==
    LET row == db.items[p]
        own == row.bound[s]
    IN  /\ Live(row) /\ Shown(row, s) /\ Differs(row, s)
        /\ \/ ~Clashing(row, s) /\ own.base # NoBase /\ (BaseBody(own) = NoBody \/ b = row.object)
           \/ own.clash = NoBody /\ b = row.object
        /\ Sync(p, s, Upsert(row.object, row.flags, BaseOf(row, own, b), NoClash, FALSE), "Manual")
(* mark_conflict: the server's body, read or not, beside the row's edit.   *)
Diverging(p, s, b) ==
    Upsert(db.items[p].object, db.items[p].flags, db.items[p].bound[s].base, b, FALSE)
Diverge(p, s, b) ==
    LET row == db.items[p]
    IN  /\ Shown(row, s)
        /\ Differs(row, s) \/ (s \in BasedBy(row) /\ Clashing(row, s))
        /\ Live(row) \/ s \in BasedBy(row)
        /\ Sync(p, s, Diverging(p, s, b), "Manual")
(* A person's edit, which names every diverging body it meets or overrules *)
(* them; none may be unread.                                               *)
Edit(p, s, b, made, policy) ==
    LET row == db.items[p]
        own == row.bound[s]
    IN  /\ Writes
        /\ Shown(row, s)
        /\ NoBody \notin {own.clash, row.clash}
        /\ made = "overrule" => Clashing(row, s)
        /\ Write(db, p, row, s, Upsert(b, row.flags, Decided(row, own), NoClash, FALSE), made, policy)
        /\ UNCHANGED <<flight, forgotten>>
(* keep_observed, and settle where the source prefers the local body: the  *)
(* server's is recorded as diverging, then overruled.                      *)
KeepLocal(p, s, b) ==
    LET row == db.items[p]
        marked == Merged(p, row, s, Diverging(p, s, b), "sync", "Manual").row
        up == Upsert(row.object, row.flags, Decided(marked, marked.bound[s]), NoClash, FALSE)
    IN  /\ Writes
        /\ Shown(row, s) /\ row.object # b /\ row.clash # NoBody
        /\ \/ s \in BasedBy(row) /\ Differs(row, s) /\ ~Clashing(row, s)
           \/ Live(row) /\ row.bound[s].clash = NoBody
        /\ Write(Stored(db, {b}), p, marked, s, up, "overrule", "Manual")
        /\ UNCHANGED <<flight, forgotten>>

-----------------------------------------------------------------------------
(* The producer queues a copy to a collection by its id, or an add with    *)
(* its body pinned or none; `meant` is the collection behind the id.       *)
Queued(d, row) == [d EXCEPT !.queue = Append(@, row),
                            !.count = [b \in Bodies |-> IF b = row.object THEN @[b] + 1 ELSE @[b]]]
Enqueue(p, to) ==
    /\ Writes
    /\ p[1] \in Filed(db) /\ to \in Filed(db) /\ KindOf[to] = "mail" /\ to # p[1]
    /\ Len(db.queue) < MaxRows
    /\ \/ /\ Live(db.items[p])
          /\ db' = Queued(db, [action |-> "copy", at |-> p, target |-> db.colls[to].id,
                               meant |-> to, object |-> NoBody, parked |-> FALSE])
       \/ /\ ~Held(db.items[p]) /\ p[2] \notin DOMAIN Bare
          /\ \E body \in {ServerBody[p[2]], NoBody} :
                db' = Queued(Stored(db, {body}),
                             [action |-> "add", at |-> p, target |-> NoTarget, meant |-> NoColl,
                              object |-> body, parked |-> FALSE])
    /\ UNCHANGED <<flight, owed, bare, forgotten>>

(* The drain: an applied row goes and lands a create of its source; a row  *)
(* that cannot apply is parked in place.                                   *)
Dequeued(d) ==
    [d EXCEPT !.queue = Tail(@),
              !.count = [b \in Bodies |-> IF b = d.queue[1].object THEN @[b] - 1 ELSE @[b]]]
Parks ==
    /\ db' = [db EXCEPT !.queue[1].parked = TRUE]
    /\ UNCHANGED <<owed, bare>>
(* The write refuses to take a binding off the member it names.            *)
Rebinds(row, s) == Held(row) /\ s \in BasedBy(row)
Lands(p, s, body, flags) ==
    LET up == Upsert(body, flags, NoBase, NoClash, FALSE)
    IN  IF Rebinds(db.items[p], s) THEN Parks
        ELSE Write(Dequeued(db), p, Item(p, up), s, up, "landing", "Manual")

(* claim: the key a copy takes in its target, minted where the identity is *)
(* shown there.                                                            *)
Claims(c, l, s) ==
    LET free == {k \in {l} \cup {k \in DOMAIN Bare : Bare[k] = l} : ~Seen(db.items[<<c, k>>], s)}
    IN  IF l \in free THEN {l} ELSE free
Pending(action) == db.queue # <<>> /\ ~db.queue[1].parked /\ db.queue[1].action = action
Copyable(row) == Live(row) /\ Binders(row) # {}
(* A copy; one whose target's id a collection of another kind has taken    *)
(* since is left out.                                                      *)
DrainCopy(s) ==
    LET a == db.queue[1]
        row == db.items[a.at]
        carries(c) == row.object # NoBody \/ (s \in BasedBy(row) /\ s \in Syncing(db, c))
        to == {c \in Under(db, a.target) : Copyable(row) /\ carries(c)}
    IN  /\ Pending("copy")
        /\ \A c \in Under(db, a.target) : KindOf[c] = "mail"
        /\ Copyable(row) => s \in Binders(row)
        /\ IF to = {} THEN Parks
           ELSE \E c \in to, k \in Links :
                   k \in Claims(c, a.at[2], s) /\ Lands(<<c, k>>, s, row.object, row.flags)
        /\ UNCHANGED <<flight, forgotten, spent>>
DrainAdd(s) ==
    LET a == db.queue[1]
    IN  /\ Pending("add")
        /\ Syncing(db, a.at[1]) # {} => s \in Syncing(db, a.at[1])
        /\ IF Live(db.items[a.at]) THEN Parks ELSE Lands(a.at, s, a.object, FALSE)
        /\ UNCHANGED <<flight, forgotten, spent>>
(* A parked row waits for a person, who cancels it.                        *)
Cancel ==
    /\ db.queue # <<>> /\ db.queue[1].parked
    /\ db' = Dequeued(db)
    /\ UNCHANGED <<flight, owed, bare, forgotten, spent>>

-----------------------------------------------------------------------------
(* The device's own items: put_item into a collection no source syncs, and *)
(* put_file of a bodiless file.                                            *)
PutItem(c, l, body) ==
    LET p == <<c, l>>
        row == db.items[p]
    IN  /\ Writes
        /\ c \in Filed(db) /\ KindOf[c] = "calendar" /\ Syncing(db, c) = {}
        /\ Held(row) => row.object # body
        /\ db' = Saved(Stored(db, {body}), p, Row(body, Live(row) /\ row.flags, Unbound))
        /\ UNCHANGED <<flight, owed, bare, forgotten>>
PutFile(c, l) ==
    /\ Writes
    /\ c \in Filed(db) /\ KindOf[c] = "file" /\ ~Held(db.items[<<c, l>>])
    /\ db' = InsertFile(db, c, l)
    /\ forgotten' = forgotten \cup {l}
    /\ UNCHANGED <<flight, owed, bare>>

(* A person's reference, and the removal of one.                           *)
AddReference(from, to) ==
    LET r == Reference(from, to, "related", TRUE)
    IN  /\ Spend("care", MaxCare)
        /\ from # to /\ Referred(db, r) # db
        /\ db' = Referred(db, r)
        /\ UNCHANGED <<flight, owed, bare, forgotten>>
RemoveReference(r) ==
    /\ Spend("care", MaxCare)
    /\ r \in db.refs
    /\ db' = WithoutRefs(db, {r})
    /\ forgotten' = forgotten \cup {r.to}
    /\ UNCHANGED <<flight, owed, bare>>

-----------------------------------------------------------------------------
(* Retention: the only deletes.                                            *)

Care == Spend("care", MaxCare)

(* delete_unbound: any row no source binds, its pin released.              *)
Unowned(d, p) == Held(d.items[p]) /\ Binders(d.items[p]) = {}
DeleteUnbound(p) ==
    /\ Care
    /\ Unowned(db, p)
    /\ db' = Purged(db, p)
    /\ forgotten' = forgotten \cup {p[2]}
    /\ UNCHANGED <<flight, owed, bare>>
(* purge, and purge_retained_before: the cutoff may fall between any two   *)
(* retentions.                                                             *)
Purge(ps) ==
    /\ Care
    /\ ps # {}
    /\ db' = Without([db EXCEPT !.count = Unpinned(@, db.items, ps)], ps)
    /\ UNCHANGED <<flight, owed, bare, forgotten>>

(* The collector: every body no pointer names.                             *)
Collected(d) == [d EXCEPT !.stored = {b \in @ : d.count[b] > 0}]
CollectGarbage ==
    /\ flight = NoVerb /\ Collected(db) # db
    /\ db' = Collected(db)
    /\ UNCHANGED <<flight, owed, bare, forgotten, spent>>
(* erase: a retained row or a live one no source binds, then the collector *)
(* whether or not a row went.                                              *)
Erase(p) ==
    /\ Care
    /\ flight = NoVerb
    /\ Held(db.items[p])
    /\ db' = Collected(IF Retained(db.items[p]) \/ (Live(db.items[p]) /\ Unowned(db, p))
                        THEN Purged(db, p) ELSE db)
    /\ forgotten' = IF Live(db.items[p]) /\ Unowned(db, p) THEN forgotten \cup {p[2]} ELSE forgotten
    /\ UNCHANGED <<flight, owed, bare>>

(* Mutant: flags are not compared with the bases.                          *)
MutantOwesNothing(d, p) ==
    LET row == d.items[p] IN
    /\ Live(row) /\ Binders(row) # {} /\ BasedBy(row) = Binders(row) /\ ~Conflicted(row)
    /\ ~\E r \in d.refs : r.user /\ Names(r, p[2])

(* collect_before: a live message every binding of which is based on its   *)
(* own flags, and that no person's reference names.                        *)
OwesNothing(d, p) ==
    LET row == d.items[p] IN
    /\ Live(row) /\ Binders(row) # {} /\ BasedBy(row) = Binders(row) /\ ~Conflicted(row)
    /\ \A s \in Binders(row) : row.bound[s].base.flags = row.flags
    /\ ~\E r \in d.refs : r.user /\ Names(r, p[2])
CollectBefore(c) ==
    LET ps == {p \in Mails : p[1] = c /\ p[2] \in Old /\ OwesNothing(db, p)}
    IN  /\ Care
        /\ flight = NoVerb /\ ps # {}
        /\ db' = Recomputed(Without(db, ps))
        /\ UNCHANGED <<flight, owed, bare, forgotten>>

(* release_before: a live message whose body every source of its           *)
(* collection has, and that nothing else needs.                            *)
Releasable(d, p) ==
    LET row == d.items[p] IN
    /\ Live(row) /\ row.object # NoBody /\ ~Conflicted(row)
    /\ Binders(row) # {} /\ BasedBy(row) = Binders(row)
    /\ \A s \in Binders(row) : row.bound[s].base.object \in {NoBody, row.object}
    /\ d.sources[p[1]] \subseteq Binders(row)
Released(row) ==
    LET letGo(b) == IF b = row.object THEN NoBody ELSE b
        freed(x) == Binding(IF x.base = NoBase THEN NoBase
                            ELSE Based(letGo(x.base.object), x.base.flags),
                            letGo(x.shared), x.clash)
    IN  [row EXCEPT !.object = NoBody,
                    !.bound = [s \in Sources |-> IF @[s] = NoBinding THEN NoBinding ELSE freed(@[s])]]
ReleaseBefore(cs) ==
    LET ps == {p \in Mails : p[1] \in cs /\ p[2] \in Old /\ Releasable(db, p)}
    IN  /\ Care
        /\ flight = NoVerb /\ ps # {}
        /\ db' = Recomputed([db EXCEPT !.items =
               [p \in Places |-> IF p \in ps THEN Released(@[p]) ELSE @[p]]])
        /\ UNCHANGED <<flight, owed, bare, forgotten>>

-----------------------------------------------------------------------------
(* The owner's collections.                                                *)

Filing == Spend("filing", MaxFiling)

EnsureCollection(c) ==
    /\ Filing
    /\ c \notin Filed(db) /\ Under(db, HomeId[c]) = {}
    /\ db' = Created(db, c, HomeId[c], HomeAccount[c])
    /\ UNCHANGED <<flight, owed, bare, forgotten>>

(* Mutant: the rename leaves the queued targets to the cascades.           *)
MutantRetargeted(queue, from, to) == queue

(* rename_queue_targets: the pending rows' targets follow; no cascade      *)
(* reaches them.                                                           *)
Retargeted(queue, from, to) ==
    [i \in DOMAIN queue |->
        IF ~queue[i].parked /\ queue[i].target = from
        THEN [queue[i] EXCEPT !.target = to] ELSE queue[i]]
RenameCollection(c, id) ==
    /\ Filing
    /\ c \in Filed(db) /\ Under(db, id) = {}
    /\ db' = [db EXCEPT !.queue = Retargeted(@, db.colls[c].id, id), !.colls[c].id = id]
    /\ UNCHANGED <<flight, owed, bare, forgotten>>

(* set_collection_role; set_collection_account, refused where the account  *)
(* has a holder of the role.                                               *)
SetCollectionRole(c, role) ==
    /\ Filing
    /\ c \in Filed(db) /\ KindOf[c] = "file" /\ db.colls[c].role # role
    /\ db' = RoleSet(db, c, role)
    /\ UNCHANGED <<flight, owed, bare, forgotten>>
SetCollectionAccount(c, account) ==
    /\ Filing
    /\ c \in Filed(db) /\ db.colls[c].account # account
    /\ KindOf[c] = "file" /\ db.colls[c].role => Roled(db, account) = {}
    /\ db' = [db EXCEPT !.colls[c].account = account]
    /\ UNCHANGED <<flight, owed, bare, forgotten>>

(* delete_collection: refused while a queue row is filed under it; the     *)
(* rows cascade, and the pins are recounted when it held any.              *)
HoldsObjects(d, c) ==
    \E p \in Places, k \in Columns, b \in Bodies : p[1] = c /\ PointsTo(d.items[p], k, b)
DeleteCollection(c) ==
    LET gone == {p \in Places : p[1] = c /\ Held(db.items[p])}
        left == [Without(db, gone) EXCEPT
                    !.colls[c] = NoColl, !.sources[c] = {},
                    !.queue = [i \in DOMAIN @ |->
                        IF @[i].meant = c THEN [@[i] EXCEPT !.meant = NoColl] ELSE @[i]]]
    IN  /\ Filing
        /\ c \in Filed(db)
        /\ \A i \in DOMAIN db.queue : db.queue[i].at[1] # c
        /\ db' = IF HoldsObjects(db, c) THEN Recomputed(left) ELSE left
        /\ owed' = owed \ gone
        /\ forgotten' = forgotten \cup {p[2] : p \in gone}
        /\ UNCHANGED <<flight, bare>>

-----------------------------------------------------------------------------
Next ==
    \/ \E c \in Collections, s \in Sources : StartSync(c, s)
    \/ \E p \in Mails \cup Events, s \in Sources :
          ListMember(p, s) \/ Push(p, s) \/ DropMember(p, s) \/ Resurrect(p, s) \/ Remove(p, s)
    \/ \E p \in Mails, s \in Sources : BeginUpgrade(p, s) \/ SetFlags(p, s)
    \/ LandUpgrade
    \/ \E p \in Events, s \in Sources, b \in TaskBodies \cup {NoBody} :
          Diverge(p, s, b) \/ \E policy \in Policies : Pull(p, s, b, policy)
    \/ \E p \in Events, s \in Sources, b \in TaskBodies :
          \/ Rebase(p, s, b) \/ KeepLocal(p, s, b)
          \/ \E policy \in Policies, made \in {"edit", "overrule"} : Edit(p, s, b, made, policy)
    \/ \E p \in Mails, c \in Collections : Enqueue(p, c)
    \/ \E s \in Sources : DrainCopy(s) \/ DrainAdd(s)
    \/ Cancel
    \/ \E p \in Places, b \in TaskBodies : LinkKind[p[2]] = "calendar" /\ PutItem(p[1], p[2], b)
    \/ \E p \in Places : LinkKind[p[2]] = "file" /\ PutFile(p[1], p[2])
    \/ \E l, m \in Links : AddReference(l, m)
    \/ \E r \in db.refs : RemoveReference(r)
    \/ \E p \in Places : DeleteUnbound(p) \/ Erase(p)
    \/ \E ps \in SUBSET {p \in Places : Retained(db.items[p])} : Purge(ps)
    \/ CollectGarbage
    \/ \E c \in Collections : CollectBefore(c) \/ EnsureCollection(c) \/ DeleteCollection(c)
    \/ \E cs \in SUBSET Filed(db) : ReleaseBefore(cs)
    \/ \E c \in Collections, id \in Ids : RenameCollection(c, id)
    \/ \E c \in Collections, role \in BOOLEAN : SetCollectionRole(c, role)
    \/ \E c \in Collections, a \in Accounts : SetCollectionAccount(c, a)

Spec == Init /\ [][Next]_vars

-----------------------------------------------------------------------------
(* The tables have the types of their columns.                             *)
TypeOK ==
    /\ db \in Tables
    /\ flight \in [at : Mails, source : Sources] \cup {NoVerb}
    /\ owed \subseteq Mails \cup Events /\ bare \subseteq Mails /\ forgotten \subseteq Links

(* The refcounts the writes, the conflicts, the revives, the moves, the    *)
(* copies kept, the purges and the drains adjust one by one, and the       *)
(* recounts of a collection, are at every commit what a count of every     *)
(* pointer gives, the diverging bodies' too, and no body a pointer names   *)
(* has been collected.                                                     *)
RefcountsExact ==
    /\ db.count = Counted(db)
    /\ \A p \in Places : Held(db.items[p]) =>
           \A k \in Columns, b \in Bodies : PointsTo(db.items[p], k, b) => b \in db.stored

(* A change no server took, a flag, an edit, a delete or a conflict to     *)
(* settle, or a create waiting for its push, stays in the store through    *)
(* every release, collection and purge; and a live message without its     *)
(* body can be fetched again, some binding of it being based, unless a     *)
(* drain landed it with none, as the copy of a message only its server has *)
(* the body of.                                                            *)
OwedKept ==
    /\ \A p \in owed : Held(db.items[p])
    /\ \A p \in Mails \ bare : Live(db.items[p]) /\ db.items[p].object = NoBody
                                   => BasedBy(db.items[p]) # {}

(* A pending copy goes to the collection it was queued for, whatever ids   *)
(* that collection and the others go by since, while it exists.            *)
TargetsFollow ==
    \A i \in DOMAIN db.queue :
        LET a == db.queue[i] IN
        ~a.parked /\ a.meant # NoColl => Under(db, a.target) = {a.meant}

(* Every reference names two items the store holds; and the parts of every *)
(* message body the store holds are filed and named, through moves,        *)
(* releases, revives and renames, until someone removes one by hand.       *)
AttachmentsNamed ==
    /\ \A r \in db.refs : HeldSomewhere(db.items, r.from) /\ HeldSomewhere(db.items, r.to)
    /\ \A p \in Mails : Held(db.items[p]) /\ db.items[p].object # NoBody =>
           \A f \in Carrying[db.items[p].object] \ forgotten :
               \E r \in db.refs : r.from = p[2] /\ r.to = f
    /\ \A p \in Places : LinkKind[p[2]] = "file" /\ Held(db.items[p]) /\ p[2] \notin forgotten
                             => \E r \in db.refs : Names(r, p[2])
=============================================================================
