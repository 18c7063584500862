-------------------------- MODULE Retention_proofs --------------------------
(***************************************************************************)
(* Theorems about Retention.tla, for any collections, links, sources and   *)
(* bodies and any number of writes, renames and clean-ups.                 *)
(*                                                                         *)
(* The module first says what each operator does to the tables (the        *)
(* ...Effect lemmas), then what a change of rows does to the pins counted  *)
(* over the whole store, then that each action keeps RetentionInv: the     *)
(* types, the wells of StoreInv, the count that recompute_refcounts would  *)
(* find, and what is owed to the servers.                                  *)
(***************************************************************************)
EXTENDS Retention, FiniteSetTheorems, SequenceTheorems, TLAPS

(* A row that pins nothing: none, or a bodiless one no source binds and    *)
(* nothing diverges from.  The stand-ins of attachments come and go as     *)
(* such.                                                                   *)
Blank(row) == Held(row) => row.object = NoBody /\ row.clash = NoClash /\ Binders(row) = {}

(* Nothing diverges from a file, which no source syncs.                    *)
FilesPlain(items) ==
    \A q \in Places : LinkKind[q[2]] = "file" /\ Held(items[q]) => items[q].clash = NoClash

(* What a write does beside the rows it is about: stand-ins at most.       *)
Beside(its, jts, S) ==
    \A q \in Places \ S :
       jts[q] = its[q] \/ (LinkKind[q[2]] = "file" /\ Blank(its[q]) /\ Blank(jts[q]))

(* A delete holds no row that was not held.                                *)
OnlyDrops(its, jts) == \A q \in Places : Held(jts[q]) => Held(its[q])

(* The fields an operator leaves alone.                                    *)
SameStore(d, e) == e.stored = d.stored /\ e.queue = d.queue /\ e.sources = d.sources

-----------------------------------------------------------------------------
(* What the operators do to the tables.                                    *)

(* Removing references takes with them bodiless stand-ins alone.           *)
LEMMA WithoutRefsEffect ==
    ASSUME NEW d \in Tables, FilesPlain(d.items), NEW gone
    PROVE  LET e == WithoutRefs(d, gone) IN
           /\ e \in Tables /\ SameStore(d, e) /\ e.count = d.count /\ e.colls = d.colls
           /\ e.refs = d.refs \ gone
           /\ \A q \in Places : \/ e.items[q] = d.items[q]
                                \/ /\ LinkKind[q[2]] = "file" /\ Blank(d.items[q])
                                   /\ e.items[q] = NoRow
                                   /\ \A r \in e.refs : ~Names(r, q[2])
<1> DEFINE c == [d EXCEPT !.refs = @ \ gone]
           freed == {p \in Places :
                      /\ LinkKind[p[2]] = "file" /\ Held(c.items[p])
                      /\ \E r \in gone : Names(r, p[2])
                      /\ c.items[p].object = NoBody /\ Binders(c.items[p]) = {}
                      /\ \A r \in c.refs : ~Names(r, p[2])}
           its == [p \in Places |-> IF p \in freed THEN NoRow ELSE c.items[p]]
           e == [c EXCEPT !.items = its]
<1>1. WithoutRefs(d, gone) = e
      BY DEF WithoutRefs, CollectFiles
<1>2. /\ c \in Tables /\ c.items = d.items /\ c.refs = d.refs \ gone
      /\ c.stored = d.stored /\ c.queue = d.queue /\ c.sources = d.sources
      /\ c.count = d.count /\ c.colls = d.colls
      BY DEF Tables
<1>3. its \in [Places -> Rows \cup {NoRow}]
      BY <1>2 DEF Tables
<1>4. /\ e \in Tables /\ e.items = its /\ e.refs = c.refs
      /\ e.stored = c.stored /\ e.queue = c.queue /\ e.sources = c.sources
      /\ e.count = c.count /\ e.colls = c.colls
  <2> HIDE DEF c, its
  <2> QED BY <1>2, <1>3 DEF Tables
<1>5. \A q \in Places : \/ its[q] = d.items[q]
                        \/ /\ LinkKind[q[2]] = "file" /\ Blank(d.items[q])
                           /\ its[q] = NoRow
                           /\ \A r \in c.refs : ~Names(r, q[2])
      BY <1>2 DEF Blank, FilesPlain
<1> HIDE DEF c, its, e
<1> QED BY <1>1, <1>2, <1>4, <1>5 DEF SameStore

(* Removing rows takes with them their references and stand-ins alone.     *)
LEMMA WithoutEffect ==
    ASSUME NEW d \in Tables, FilesPlain(d.items), NEW ps
    PROVE  LET e == Without(d, ps) IN
           /\ e \in Tables /\ SameStore(d, e) /\ e.count = d.count /\ e.colls = d.colls
           /\ e.refs \subseteq d.refs
           /\ \A q \in Places \cap ps : e.items[q] = NoRow
           /\ Beside(d.items, e.items, ps) /\ OnlyDrops(d.items, e.items)
           /\ \A q \in Places : LinkKind[q[2]] # "file" /\ q \notin ps => e.items[q] = d.items[q]
<1> DEFINE its == [p \in Places |-> IF p \in ps THEN NoRow ELSE d.items[p]]
           last == {p[2] : p \in {q \in ps : ~HeldSomewhere(its, q[2])}}
           c == [d EXCEPT !.items = its]
           gone == {r \in d.refs : \E l \in last : Names(r, l)}
           e == WithoutRefs(c, gone)
<1>1. Without(d, ps) = e
      BY DEF Without
<1>2. /\ c \in Tables /\ c.items = its /\ c.refs = d.refs
      /\ c.stored = d.stored /\ c.queue = d.queue /\ c.sources = d.sources
      /\ c.count = d.count /\ c.colls = d.colls
      BY DEF Tables
<1>3. /\ e \in Tables /\ SameStore(c, e) /\ e.count = c.count /\ e.colls = c.colls
      /\ e.refs = c.refs \ gone
      /\ \A q \in Places : \/ e.items[q] = c.items[q]
                           \/ /\ LinkKind[q[2]] = "file" /\ Blank(c.items[q])
                              /\ e.items[q] = NoRow
  <2>1. FilesPlain(c.items)
        BY <1>2 DEF FilesPlain, Held
  <2> HIDE DEF c, gone
  <2> QED BY <1>2, <2>1, WithoutRefsEffect
<1>4. \A q \in Places : c.items[q] = IF q \in ps THEN NoRow ELSE d.items[q]
      BY <1>2
<1>5. Blank(NoRow) /\ ~Held(NoRow)
      BY DEF Blank, Held
<1> HIDE DEF c, its, gone, e
<1> QED BY <1>1, <1>2, <1>3, <1>4, <1>5 DEF SameStore, Beside, OnlyDrops

(* The rules add references and nothing else.                              *)
LEMMA RuledEffect ==
    ASSUME NEW d \in Tables, NEW rules \in SUBSET References
    PROVE  LET e == Ruled(d, rules) IN
           /\ e \in Tables /\ SameStore(d, e) /\ e.count = d.count /\ e.colls = d.colls
           /\ e.items = d.items
           /\ d.refs \subseteq e.refs
           /\ \A r \in e.refs \ d.refs : HeldSomewhere(d.items, r.from)
                                         /\ HeldSomewhere(d.items, r.to)
<1> DEFINE more == {r \in rules :
        /\ HeldSomewhere(d.items, r.from) /\ HeldSomewhere(d.items, r.to)
        /\ \A q \in d.refs : Key(q) # Key(r)}
           e == [d EXCEPT !.refs = @ \cup more]
<1>1. Ruled(d, rules) = e
      BY DEF Ruled
<1>2. more \in SUBSET References
      OBVIOUS
<1>3. /\ e \in Tables /\ e.items = d.items /\ e.refs = d.refs \cup more
      /\ e.stored = d.stored /\ e.queue = d.queue /\ e.sources = d.sources
      /\ e.count = d.count /\ e.colls = d.colls
  <2> HIDE DEF more
  <2> QED BY <1>2 DEF Tables
<1>4. \A r \in more : HeldSomewhere(d.items, r.from) /\ HeldSomewhere(d.items, r.to)
      OBVIOUS
<1> HIDE DEF e, more
<1> QED BY <1>1, <1>3, <1>4 DEF SameStore

(* link_references changes the references alone.                           *)
LEMMA LinkedEffect ==
    ASSUME NEW d \in Tables, NEW l \in Links
    PROVE  LET e == Linked(d, l) IN
           /\ e \in Tables /\ SameStore(d, e) /\ e.count = d.count /\ e.colls = d.colls
           /\ e.items = d.items
           /\ d.refs \subseteq e.refs
           /\ \A r \in e.refs \ d.refs : HeldSomewhere(d.items, r.from)
                                         /\ HeldSomewhere(d.items, r.to)
<1> DEFINE live(m) == \E p \in Places : p[2] = m /\ Live(d.items[p])
           rules == {Reference(x, Mid[x], "source", FALSE) :
                      x \in {y \in DOMAIN Mid : l \in {y, Mid[y]} /\ live(y) /\ live(Mid[y])}}
<1>1. Linked(d, l) = Ruled(d, rules)
      BY DEF Linked
<1>2. rules \in SUBSET References
  <2>1. \A x \in DOMAIN Mid : x \in Links /\ Mid[x] \in Links
        BY MidAssumption
  <2>2. \A x \in DOMAIN Mid : Reference(x, Mid[x], "source", FALSE) \in References
        BY <2>1 DEF Reference, References
  <2> QED BY <2>2
<1> HIDE DEF rules
<1> QED BY <1>1, <1>2, RuledEffect

(* An id names one collection at most, and a step that only files new ones *)
(* or moves the role leaves every id where it was.                         *)
IdsUnique(d) == \A c, e \in Filed(d) : d.colls[c].id = d.colls[e].id => c = e
KeepsColls(d, e) ==
    /\ Filed(d) \subseteq Filed(e)
    /\ \A c \in Filed(d) : e.colls[c].id = d.colls[c].id

(* set_collection_role changes no id.                                      *)
LEMMA RoleSetEffect ==
    ASSUME NEW d \in Tables, NEW c \in Filed(d), NEW role \in BOOLEAN
    PROVE  LET e == RoleSet(d, c, role) IN
           /\ e \in Tables /\ SameStore(d, e) /\ e.count = d.count /\ e.refs = d.refs
           /\ e.items = d.items
           /\ Filed(e) = Filed(d) /\ KeepsColls(d, e)
<1> DEFINE colls == [x \in Collections |->
        IF x = c THEN [d.colls[c] EXCEPT !.role = role]
        ELSE IF role /\ x \in Filed(d) /\ KindOf[x] = KindOf[c]
                     /\ d.colls[x].account = d.colls[c].account
             THEN [d.colls[x] EXCEPT !.role = FALSE]
        ELSE d.colls[x]]
           e == [d EXCEPT !.colls = colls]
<1>1. RoleSet(d, c, role) = e
      BY DEF RoleSet
<1>2. \A x \in Filed(d) : x \in Collections /\ d.colls[x] \in Colls
      BY DEF Filed, Tables
<1>3. \A x \in Collections :
         IF x \in Filed(d)
         THEN /\ colls[x] \in Colls /\ colls[x].id = d.colls[x].id
              /\ colls[x].account = d.colls[x].account
         ELSE colls[x] = NoColl
      BY <1>2 DEF Filed, Colls
<1>4. colls \in [Collections -> Colls \cup {NoColl}]
      BY <1>3
<1>5. /\ e \in Tables /\ e.items = d.items /\ e.refs = d.refs /\ e.colls = colls
      /\ e.stored = d.stored /\ e.queue = d.queue /\ e.sources = d.sources
      /\ e.count = d.count
  <2> HIDE DEF colls
  <2> QED BY <1>4 DEF Tables
<1> HIDE DEF e, colls
<1>6. Filed(e) = Filed(d)
      BY <1>3, <1>5, NoneAssumption DEF Filed
<1> QED BY <1>1, <1>2, <1>3, <1>5, <1>6 DEF SameStore, KeepsColls

(* A collection declared under a free id leaves the ids unique.            *)
LEMMA CreatedEffect ==
    ASSUME NEW d \in Tables, NEW c \in Collections, c \notin Filed(d),
           NEW id \in CollIds, NEW account \in Accounts, Under(d, id) = {}
    PROVE  LET e == Created(d, c, id, account) IN
           /\ e \in Tables /\ SameStore(d, e) /\ e.count = d.count /\ e.refs = d.refs
           /\ e.items = d.items
           /\ Filed(e) = Filed(d) \cup {c} /\ KeepsColls(d, e)
           /\ IdsUnique(d) => IdsUnique(e)
<1> DEFINE r == Coll(id, account, FALSE)
           colls == [d.colls EXCEPT ![c] = r]
           e == [d EXCEPT !.colls = colls]
<1>1. Created(d, c, id, account) = e
      BY DEF Created, Tables
<1>2. r \in Colls /\ r.id = id
      BY DEF Coll, Colls
<1>3. /\ colls \in [Collections -> Colls \cup {NoColl}]
      /\ \A x \in Collections : colls[x] = IF x = c THEN r ELSE d.colls[x]
  <2> HIDE DEF r
  <2> QED BY <1>2 DEF Tables
<1>4. /\ e \in Tables /\ e.items = d.items /\ e.refs = d.refs /\ e.colls = colls
      /\ e.stored = d.stored /\ e.queue = d.queue /\ e.sources = d.sources
      /\ e.count = d.count
  <2> HIDE DEF colls
  <2> QED BY <1>3 DEF Tables
<1> HIDE DEF e, colls, r
<1>5. Filed(e) = Filed(d) \cup {c}
      BY <1>2, <1>3, <1>4, NoneAssumption DEF Filed
<1>6. KeepsColls(d, e)
      BY <1>3, <1>4, <1>5 DEF KeepsColls, Filed
<1>7. IdsUnique(d) => IdsUnique(e)
      BY <1>2, <1>3, <1>4, <1>5 DEF IdsUnique, Under, Filed
<1> QED BY <1>1, <1>4, <1>5, <1>6, <1>7 DEF SameStore

(* A step of the collections' table alone.                                 *)
FilesOnly(d, e) ==
    /\ e \in Tables /\ SameStore(d, e) /\ e.count = d.count
    /\ e.refs = d.refs /\ e.items = d.items
    /\ KeepsColls(d, e)
    /\ IdsUnique(d) => IdsUnique(e)

(* collection_of finds a file collection that is filed, or none.           *)
LEMMA AttachmentsOfEffect ==
    ASSUME NEW d \in Tables, NEW account \in Accounts, IdsUnique(d)
    PROVE  LET at == AttachmentsOf(d, account) IN
           /\ FilesOnly(d, at.db)
           /\ at.found \subseteq Filed(at.db)
           /\ \A c \in at.found : KindOf[c] = "file"
<1> DEFINE id == AttachmentsId[account]
           under == Under(d, id)
           at == AttachmentsOf(d, account)
           Found == /\ at.found \subseteq Filed(at.db)
                    /\ \A c \in at.found : KindOf[c] = "file"
<1>1. id \in CollIds
      BY DEF CollIds
<1>2. FilesOnly(d, d)
      BY DEF FilesOnly, SameStore, KeepsColls
<1>3. ASSUME NEW c \in Filed(d)
      PROVE  FilesOnly(d, RoleSet(d, c, TRUE))
  <2> DEFINE e == RoleSet(d, c, TRUE)
  <2>1. /\ e \in Tables /\ SameStore(d, e) /\ e.count = d.count /\ e.refs = d.refs
        /\ e.items = d.items
        /\ Filed(e) = Filed(d) /\ KeepsColls(d, e)
        BY RoleSetEffect
  <2> HIDE DEF e
  <2>2. IdsUnique(d) => IdsUnique(e)
        BY <2>1 DEF IdsUnique, KeepsColls
  <2>3. FilesOnly(d, e)
        BY <2>1, <2>2 DEF FilesOnly
  <2> QED BY <2>3 DEF e
<1>4. ASSUME NEW c \in Spare(d), under = {}
      PROVE  /\ FilesOnly(d, RoleSet(Created(d, c, id, account), c, TRUE))
             /\ c \in Filed(RoleSet(Created(d, c, id, account), c, TRUE))
  <2> DEFINE f == Created(d, c, id, account)
             e == RoleSet(f, c, TRUE)
  <2>1. c \in Collections /\ c \notin Filed(d)
        BY DEF Spare
  <2>2. /\ f \in Tables /\ SameStore(d, f) /\ f.count = d.count /\ f.refs = d.refs
        /\ f.items = d.items
        /\ Filed(f) = Filed(d) \cup {c} /\ KeepsColls(d, f)
        /\ IdsUnique(d) => IdsUnique(f)
    <3> HIDE DEF id
    <3> QED BY <1>1, <1>4, <2>1, CreatedEffect
  <2> HIDE DEF f
  <2>3. /\ e \in Tables /\ SameStore(f, e) /\ e.count = f.count /\ e.refs = f.refs
        /\ e.items = f.items
        /\ Filed(e) = Filed(f) /\ KeepsColls(f, e)
        BY <2>2, RoleSetEffect
  <2> HIDE DEF e
  <2>4. KeepsColls(d, e)
        BY <2>2, <2>3 DEF KeepsColls
  <2>5. IdsUnique(d) => IdsUnique(e)
        BY <2>2, <2>3 DEF IdsUnique, KeepsColls
  <2>6. FilesOnly(d, e)
        BY <2>1, <2>2, <2>3, <2>4, <2>5 DEF SameStore, FilesOnly
  <2> QED BY <2>2, <2>3, <2>6 DEF e, f
<1>5. Roled(d, account) \subseteq Filed(d) /\ \A c \in Roled(d, account) : KindOf[c] = "file"
      BY DEF Roled, Filed
<1>6. under \subseteq Filed(d) /\ under \subseteq Collections
      BY DEF Under, Filed
<1>7. at = IF Roled(d, account) # {} THEN [db |-> d, found |-> Roled(d, account)]
           ELSE CASE \E c \in under : KindOf[c] # "file" -> [db |-> d, found |-> {}]
                  [] \E c \in under : KindOf[c] = "file" ->
                       [db |-> RoleSet(d, CHOOSE c \in under : TRUE, TRUE), found |-> under]
                  [] under = {} /\ Spare(d) # {} ->
                       LET c == CHOOSE c \in Spare(d) : TRUE
                       IN  [db |-> RoleSet(Created(d, c, id, account), c, TRUE), found |-> {c}]
                  [] OTHER -> [db |-> d, found |-> {}]
      BY DEF AttachmentsOf
<1>13. \A c, e \in under : c = e
      BY DEF IdsUnique, Under
<1> HIDE DEF at, under, id
<1> SUFFICES FilesOnly(d, at.db) /\ Found
      BY DEF at
<1>8. CASE Roled(d, account) # {}
  <2>1. at = [db |-> d, found |-> Roled(d, account)]
        BY <1>7, <1>8
  <2> QED BY <1>2, <1>5, <2>1
<1>9. CASE Roled(d, account) = {} /\ (\E c \in under : KindOf[c] # "file")
                                  /\ ~(\E c \in under : KindOf[c] = "file")
  <2>1. at = [db |-> d, found |-> {}]
        BY <1>7, <1>9
  <2> QED BY <1>2, <2>1
<1>10. CASE /\ Roled(d, account) = {} /\ ~(\E c \in under : KindOf[c] # "file")
            /\ \E c \in under : KindOf[c] = "file"
  <2> DEFINE c == CHOOSE c \in under : TRUE
  <2>1. at = [db |-> RoleSet(d, c, TRUE), found |-> under]
        BY <1>7, <1>10
  <2>2. c \in Filed(d)
        BY <1>6, <1>10
  <2> HIDE DEF c
  <2>3. FilesOnly(d, RoleSet(d, c, TRUE))
        BY <1>3, <2>2
  <2>4. Filed(d) \subseteq Filed(RoleSet(d, c, TRUE))
        BY <2>3 DEF FilesOnly, KeepsColls
  <2> QED BY <1>6, <1>10, <2>1, <2>3, <2>4
<1>11. CASE /\ Roled(d, account) = {} /\ under = {} /\ Spare(d) # {}
  <2> DEFINE c == CHOOSE c \in Spare(d) : TRUE
  <2>1. at = [db |-> RoleSet(Created(d, c, id, account), c, TRUE), found |-> {c}]
        BY <1>7, <1>11
  <2>2. c \in Spare(d)
        BY <1>11
  <2> HIDE DEF c
  <2>3. /\ FilesOnly(d, RoleSet(Created(d, c, id, account), c, TRUE))
        /\ c \in Filed(RoleSet(Created(d, c, id, account), c, TRUE))
        BY <1>4, <1>11, <2>2
  <2>4. c \in Collections /\ KindOf[c] = "file"
        BY <2>2 DEF Spare
  <2> QED BY <2>1, <2>3, <2>4
<1>12. CASE /\ Roled(d, account) = {} /\ under = {} /\ Spare(d) = {}
  <2>1. at = [db |-> d, found |-> {}]
        BY <1>7, <1>12
  <2> QED BY <1>2, <2>1
<1> QED BY <1>8, <1>9, <1>10, <1>11, <1>12, <1>13

(* record adds stand-ins and references alone.                             *)
LEMMA RecordedEffect ==
    ASSUME NEW d \in Tables, NEW account \in Accounts, NEW l \in Links, NEW body \in Bodies,
           IdsUnique(d)
    PROVE  LET e == Recorded(d, account, l, body) IN
           /\ e \in Tables /\ SameStore(d, e) /\ e.count = d.count
           /\ KeepsColls(d, e)
           /\ IdsUnique(e)
           /\ d.refs \subseteq e.refs
           /\ \A q \in Places : \/ e.items[q] = d.items[q]
                                \/ /\ LinkKind[q[2]] = "file" /\ ~Held(d.items[q])
                                   /\ Held(e.items[q]) /\ Blank(e.items[q])
                                   /\ q[1] \in Filed(e)
           /\ \A r \in e.refs \ d.refs : HeldSomewhere(e.items, r.from)
                                         /\ HeldSomewhere(e.items, r.to)
<1> DEFINE at == AttachmentsOf(d, account)
           c == CHOOSE c \in at.found : TRUE
           row == Row(NoBody, FALSE, Unbound)
           its == [p \in Places |->
                     IF p[1] = c /\ p[2] \in Carrying[body] /\ ~Held(at.db.items[p])
                     THEN row ELSE at.db.items[p]]
           f == [at.db EXCEPT !.items = its]
           rules == {Reference(l, x, "attachment", FALSE) : x \in Carrying[body]}
           e == Ruled(f, rules)
<1>1. /\ at.db \in Tables /\ SameStore(d, at.db) /\ at.db.count = d.count
      /\ at.db.refs = d.refs /\ at.db.items = d.items
      /\ KeepsColls(d, at.db) /\ IdsUnique(at.db)
      /\ at.found \subseteq Filed(at.db)
      BY AttachmentsOfEffect DEF FilesOnly
<1>2. Recorded(d, account, l, body) = IF at.found = {} THEN d ELSE e
      BY DEF Recorded
<1>3. row \in Rows /\ Held(row) /\ Blank(row)
  <2>1. Unbound \in [Sources -> Bindings \cup {NoBinding}]
        BY DEF Unbound
  <2>2. row \in Rows
        BY <2>1 DEF Row, Rows, Objects, Clashes
  <2>3. row.object = NoBody /\ row.clash = NoClash /\ row.bound = Unbound
        BY DEF Row
  <2>4. Binders(row) = {}
        BY <2>3 DEF Binders, Unbound
  <2> QED BY <2>2, <2>3, <2>4, NoneAssumption DEF Held, Blank
<1>4. \A q \in Places : LinkKind[q[2]] # "file" => q[2] \notin Carrying[body]
      BY CarryingAssumption
<1> HIDE DEF at, row, c
<1>5. /\ its \in [Places -> Rows \cup {NoRow}]
      /\ \A q \in Places : \/ its[q] = d.items[q]
                           \/ /\ LinkKind[q[2]] = "file" /\ ~Held(d.items[q])
                              /\ Held(its[q]) /\ Blank(its[q]) /\ q[1] = c
      BY <1>1, <1>3, <1>4 DEF Tables
<1>6. /\ f \in Tables /\ f.items = its /\ f.refs = d.refs
      /\ SameStore(d, f) /\ f.count = d.count /\ f.colls = at.db.colls
  <2> HIDE DEF its
  <2> QED BY <1>1, <1>5 DEF Tables, SameStore
<1>7. rules \in SUBSET References
  <2>1. \A x \in Carrying[body] : x \in Links
        BY CarryingAssumption
  <2>2. \A x \in Carrying[body] : Reference(l, x, "attachment", FALSE) \in References
        BY <2>1 DEF Reference, References
  <2> QED BY <2>2
<1> HIDE DEF f, rules, its
<1>8. /\ e \in Tables /\ SameStore(f, e) /\ e.count = f.count /\ e.colls = f.colls
      /\ e.items = f.items /\ f.refs \subseteq e.refs
      /\ \A r \in e.refs \ f.refs : HeldSomewhere(f.items, r.from)
                                    /\ HeldSomewhere(f.items, r.to)
      BY <1>6, <1>7, RuledEffect
<1> HIDE DEF e
<1>9. CASE at.found = {}
      BY <1>2, <1>9 DEF SameStore, KeepsColls
<1>10. CASE at.found # {}
  <2>1. KeepsColls(d, e) /\ IdsUnique(e)
        BY <1>1, <1>6, <1>8 DEF KeepsColls, IdsUnique, Filed
  <2>2. c \in Filed(e)
        BY <1>1, <1>6, <1>8, <1>10 DEF c, Filed
  <2> QED BY <1>2, <1>5, <1>6, <1>8, <1>10, <2>1, <2>2 DEF SameStore
<1> QED BY <1>9, <1>10

-----------------------------------------------------------------------------
(* Counting pointers.                                                      *)

Pointed(items, S, b) == {x \in S \X Columns : PointsTo(items[x[1]], x[2], b)}
Queueing(queue, b) == {i \in DOMAIN queue : queue[i].object = b}

(* The count of a body, spelled out.                                       *)
LEMMA CountedIs ==
    \A d : \A b \in Bodies : Counted(d)[b] = Cardinality(Pointed(d.items, Places, b))
                                             + Cardinality(Queueing(d.queue, b))
BY DEF Counted, Pointed, Queueing

(* The places and the pointer columns are finitely many.                   *)
LEMMA FinitePlaces == IsFiniteSet(Places) /\ IsFiniteSet(Columns)
<1>1. IsFiniteSet(Collections \X Links)
      BY FiniteAssumption, FS_Product
<1>2. IsFiniteSet(Places)
      BY <1>1, FS_Subset DEF Places
<1>3. IsFiniteSet({"base", "shared", "diverging"})
  <2>1. /\ {"base", "shared"} = {"base"} \cup {"shared"}
        /\ {"base", "shared", "diverging"} = {"base", "shared"} \cup {"diverging"}
        OBVIOUS
  <2>2. IsFiniteSet({"base"})
        BY FS_Singleton
  <2>3. IsFiniteSet({"base", "shared"})
        BY <2>1, <2>2, FS_AddElement
  <2> QED BY <2>1, <2>3, FS_AddElement
<1>4. IsFiniteSet({"base", "shared", "diverging"} \X Sources)
      BY <1>3, FiniteAssumption, FS_Product
<1>5. IsFiniteSet(Own)
  <2>1. Own = {<<"item">>} \cup {<<"clash">>}
        BY DEF Own
  <2>2. IsFiniteSet({<<"item">>})
        BY FS_Singleton
  <2> QED BY <2>1, <2>2, FS_AddElement
<1>6. IsFiniteSet(Columns)
      BY <1>4, <1>5, FS_Union DEF Columns
<1> QED BY <1>2, <1>6

(* The pointers at a body are finitely many.                               *)
LEMMA FinitePointed ==
    ASSUME NEW items, NEW S \in SUBSET Places, NEW b
    PROVE  IsFiniteSet(Pointed(items, S, b)) /\ Cardinality(Pointed(items, S, b)) \in Nat
<1>1. IsFiniteSet(S)
      BY FinitePlaces, FS_Subset
<1>2. IsFiniteSet(S \X Columns)
      BY <1>1, FinitePlaces, FS_Product
<1>3. IsFiniteSet(Pointed(items, S, b))
      BY <1>2, FS_Subset DEF Pointed
<1> QED BY <1>3, FS_CardinalityType

(* A blank row points at no body.                                          *)
LEMMA BlankPoints ==
    ASSUME NEW row, Blank(row), NEW k \in Columns, NEW b \in Bodies
    PROVE  ~PointsTo(row, k, b)
<1>1. CASE k \in Own
  <2>1. k[1] \in {"item", "clash"}
        BY <1>1 DEF Own
  <2> QED BY <2>1, BodyAssumption DEF Blank, PointsTo
<1>2. CASE k \in {"base", "shared", "diverging"} \X Sources
  <2>1. k[1] \in {"base", "shared", "diverging"}
        BY <1>2
  <2> QED BY <2>1 DEF Blank, PointsTo, BasedBy
<1> QED BY <1>1, <1>2 DEF Columns

(* Rows that differ only in S, and in stand-ins elsewhere, differ in the   *)
(* pointers of S.                                                          *)
LEMMA CountBeside ==
    ASSUME NEW its, NEW jts, NEW S \in SUBSET Places, Beside(its, jts, S), NEW b \in Bodies
    PROVE  Cardinality(Pointed(jts, Places, b))
             = Cardinality(Pointed(its, Places, b)) + Cardinality(Pointed(jts, S, b))
               - Cardinality(Pointed(its, S, b))
<1> DEFINE T == Places \ S
<1>1. \A xts : /\ Pointed(xts, Places, b) = Pointed(xts, S, b) \cup Pointed(xts, T, b)
               /\ Pointed(xts, S, b) \cap Pointed(xts, T, b) = {}
      BY DEF Pointed
<1>2. Pointed(its, T, b) = Pointed(jts, T, b)
  <2>1. ASSUME NEW q \in T, NEW k \in Columns
        PROVE  PointsTo(its[q], k, b) <=> PointsTo(jts[q], k, b)
        BY BlankPoints DEF Beside
  <2> QED BY <2>1 DEF Pointed
<1>3. ASSUME NEW xts
      PROVE  Cardinality(Pointed(xts, Places, b))
               = Cardinality(Pointed(xts, S, b)) + Cardinality(Pointed(xts, T, b))
  <2>1. IsFiniteSet(Pointed(xts, S, b)) /\ IsFiniteSet(Pointed(xts, T, b))
        BY FinitePointed
  <2>2. Cardinality(Pointed(xts, S, b)) \in Nat /\ Cardinality(Pointed(xts, T, b)) \in Nat
        BY FinitePointed
  <2> DEFINE A == Pointed(xts, S, b)
             B == Pointed(xts, T, b)
  <2>3. A \cap B = {} /\ Pointed(xts, Places, b) = A \cup B
        BY <1>1
  <2> HIDE DEF A, B
  <2>4. Cardinality(A \cup B) = Cardinality(A) + Cardinality(B) - Cardinality(A \cap B)
        BY <2>1, FS_Union DEF A, B
  <2>5. Cardinality(A) \in Nat /\ Cardinality(B) \in Nat
        BY <2>2 DEF A, B
  <2>6. Cardinality(A \cup B) = Cardinality(A) + Cardinality(B)
    <3>1. Cardinality(A \cap B) = 0
          BY <2>3, FS_EmptySet
    <3> QED BY <2>4, <2>5, <3>1
  <2> QED BY <2>3, <2>6 DEF A, B
<1>4. /\ Cardinality(Pointed(its, S, b)) \in Nat /\ Cardinality(Pointed(its, T, b)) \in Nat
      /\ Cardinality(Pointed(jts, S, b)) \in Nat
      BY FinitePointed
<1>5. /\ Cardinality(Pointed(its, Places, b))
            = Cardinality(Pointed(its, S, b)) + Cardinality(Pointed(its, T, b))
      /\ Cardinality(Pointed(jts, Places, b))
            = Cardinality(Pointed(jts, S, b)) + Cardinality(Pointed(jts, T, b))
      BY <1>3
<1> HIDE DEF T
<1> QED BY <1>2, <1>4, <1>5

(* Replacing one row moves the count by the pins it gains and loses.       *)
LEMMA CountOne ==
    ASSUME NEW items, NEW p \in Places, NEW b
    PROVE  /\ Cardinality(Pointed(items, {p}, b)) = Pins(items[p], b)
           /\ Pins(items[p], b) \in Nat
<1> DEFINE K == {k \in Columns : PointsTo(items[p], k, b)}
<1>1. Pointed(items, {p}, b) = {p} \X K
      BY DEF Pointed
<1>2. IsFiniteSet(K) /\ Cardinality(K) \in Nat
      BY FinitePlaces, FS_Subset, FS_CardinalityType
<1>3. IsFiniteSet({p}) /\ Cardinality({p}) = 1
      BY FS_Singleton
<1>4. Cardinality({p} \X K) = Cardinality(K)
  <2> HIDE DEF K
  <2>1. Cardinality({p} \X K) = 1 * Cardinality(K)
        BY <1>2, <1>3, FS_Product
  <2> QED BY <1>2, <2>1
<1>5. Pins(items[p], b) = Cardinality(K)
      BY DEF Pins
<1> HIDE DEF K
<1> QED BY <1>1, <1>2, <1>4, <1>5

(* Rows no source binds pin their own columns' bodies alone: what          *)
(* release_pins takes off the counts is all they pinned.                   *)
LEMMA UnboundPointed ==
    ASSUME NEW items, NEW S \in SUBSET Places,
           \A q \in S : Held(items[q]) => Binders(items[q]) = {},
           NEW count \in [Bodies -> Int]
    PROVE  /\ Unpinned(count, items, S) \in [Bodies -> Int]
           /\ \A b \in Bodies : Unpinned(count, items, S)[b]
                                  = count[b] - Cardinality(Pointed(items, S, b))
<1>1. ASSUME NEW b \in Bodies
      PROVE  {x \in S \X Own : PointsTo(items[x[1]], x[2], b)} = Pointed(items, S, b)
  <2>1. ASSUME NEW q \in S, NEW k \in {"base", "shared", "diverging"} \X Sources
        PROVE  ~PointsTo(items[q], k, b)
    <3>1. k[1] \in {"base", "shared", "diverging"}
          OBVIOUS
    <3> QED BY <3>1 DEF PointsTo, BasedBy
  <2> QED BY <2>1 DEF Pointed, Columns
<1>2. \A b \in Bodies : Cardinality(Pointed(items, S, b)) \in Nat
      BY FinitePointed
<1> DEFINE C == [b \in Bodies |-> Cardinality(Pointed(items, S, b))]
<1>3. Unpinned(count, items, S) = [b \in Bodies |-> count[b] - C[b]]
      BY <1>1 DEF Unpinned
<1>4. C \in [Bodies -> Nat]
      BY <1>2
<1>5. \A b \in Bodies : C[b] = Cardinality(Pointed(items, S, b))
      OBVIOUS
<1> HIDE DEF C
<1> QED BY <1>3, <1>4, <1>5

(* A write of one row is exact when it moves the refcounts by the row's    *)
(* own pins.                                                               *)
LEMMA CountRow ==
    ASSUME NEW d \in Tables, NEW e \in Tables, NEW p \in Places,
           d.count = Counted(d), e.queue = d.queue,
           Beside(d.items, e.items, {p}),
           \A b \in Bodies : e.count[b] = d.count[b] + Pins(e.items[p], b) - Pins(d.items[p], b)
    PROVE  e.count = Counted(e)
<1>1. ASSUME NEW b \in Bodies
      PROVE  e.count[b] = Counted(e)[b]
  <2> DEFINE Q == Cardinality(Queueing(d.queue, b))
             D == Cardinality(Pointed(d.items, Places, b))
             E == Cardinality(Pointed(e.items, Places, b))
             Pd == Pins(d.items[p], b)
             Pe == Pins(e.items[p], b)
  <2>1. d.count[b] = D + Q /\ Counted(e)[b] = E + Q
        BY CountedIs
  <2>2. /\ Cardinality(Pointed(d.items, {p}, b)) = Pd /\ Pd \in Nat
        /\ Cardinality(Pointed(e.items, {p}, b)) = Pe /\ Pe \in Nat
        BY CountOne
  <2>3. E = D + Cardinality(Pointed(e.items, {p}, b)) - Cardinality(Pointed(d.items, {p}, b))
        BY CountBeside
  <2>4. D \in Nat /\ E \in Nat
        BY FinitePointed
  <2>5. d.count[b] \in Int
        BY DEF Tables
  <2>6. e.count[b] = d.count[b] + Pe - Pd
        OBVIOUS
  <2>7. d.queue \in Seq(QueueRows)
        BY DEF Tables
  <2>8. Q \in Nat
    <3>1. Queueing(d.queue, b) \in SUBSET (1 .. Len(d.queue))
          BY <2>7 DEF Queueing
    <3>2. IsFiniteSet(1 .. Len(d.queue))
          BY <2>7, FS_Interval
    <3> QED BY <3>1, <3>2, FS_Subset, FS_CardinalityType
  <2> HIDE DEF Q, D, E, Pd, Pe
  <2> QED BY <2>1, <2>2, <2>3, <2>4, <2>5, <2>6, <2>8
<1>2. /\ DOMAIN e.count = Bodies /\ e.count \in [Bodies -> Int]
      BY DEF Tables
<1>3. DOMAIN Counted(e) = Bodies /\ Counted(e) = [b \in Bodies |-> Counted(e)[b]]
      BY DEF Counted
<1> QED BY <1>1, <1>2, <1>3

(* release_pins and the delete that follows it.                            *)
LEMMA PurgedEffect ==
    ASSUME NEW d \in Tables, NEW p \in Places, Held(d.items[p]), Binders(d.items[p]) = {},
           d.count = Counted(d), FilesPlain(d.items)
    PROVE  LET e == Purged(d, p) IN
           /\ e \in Tables /\ SameStore(d, e) /\ e.colls = d.colls
           /\ e.refs \subseteq d.refs
           /\ e.items[p] = NoRow
           /\ Beside(d.items, e.items, {p}) /\ OnlyDrops(d.items, e.items)
           /\ \A q \in Places : LinkKind[q[2]] # "file" /\ q # p => e.items[q] = d.items[q]
           /\ e.count = Counted(e)
<1> DEFINE count == Unpinned(d.count, d.items, {p})
           c == [d EXCEPT !.count = count]
           e == Without(c, {p})
<1>1. Purged(d, p) = e
      BY DEF Purged
<1>2. /\ count \in [Bodies -> Int]
      /\ \A b \in Bodies : count[b] = d.count[b] - Pins(d.items[p], b)
  <2>1. d.count \in [Bodies -> Int]
        BY DEF Tables
  <2>2. \A b \in Bodies : Cardinality(Pointed(d.items, {p}, b)) = Pins(d.items[p], b)
        BY CountOne
  <2>3. {p} \in SUBSET Places /\ \A q \in {p} : Held(d.items[q]) => Binders(d.items[q]) = {}
        OBVIOUS
  <2>4. /\ Unpinned(d.count, d.items, {p}) \in [Bodies -> Int]
        /\ \A b \in Bodies : Unpinned(d.count, d.items, {p})[b]
                               = d.count[b] - Cardinality(Pointed(d.items, {p}, b))
        BY <2>1, <2>3, UnboundPointed
  <2> QED BY <2>2, <2>4
<1> HIDE DEF count
<1>3. /\ c \in Tables /\ c.items = d.items /\ c.refs = d.refs /\ c.colls = d.colls
      /\ SameStore(d, c) /\ c.count = count
      BY <1>2 DEF Tables, SameStore
<1> HIDE DEF c
<1>4. /\ e \in Tables /\ SameStore(c, e) /\ e.count = c.count /\ e.colls = c.colls
      /\ e.refs \subseteq c.refs
      /\ e.items[p] = NoRow
      /\ Beside(c.items, e.items, {p}) /\ OnlyDrops(c.items, e.items)
      /\ \A q \in Places : LinkKind[q[2]] # "file" /\ q # p => e.items[q] = c.items[q]
      BY <1>3, WithoutEffect
<1> HIDE DEF e
<1>5. \A b \in Bodies : Pins(e.items[p], b) = 0
  <2>1. \A b : {k \in Columns : PointsTo(NoRow, k, b)} = {}
        BY DEF PointsTo, Held
  <2> QED BY <1>4, <2>1, FS_EmptySet DEF Pins
<1>6. \A b \in Bodies : Pins(d.items[p], b) \in Nat
      BY CountOne
<1>7. \A b \in Bodies : e.count[b] = d.count[b] + Pins(e.items[p], b) - Pins(d.items[p], b)
  <2>1. \A b \in Bodies : d.count[b] \in Int
        BY DEF Tables
  <2> QED BY <1>2, <1>3, <1>4, <1>5, <1>6, <2>1
<1>8. e.queue = d.queue /\ SameStore(d, e)
      BY <1>3, <1>4 DEF SameStore
<1>9. e.count = Counted(e)
      BY <1>3, <1>4, <1>7, <1>8, CountRow
<1> QED BY <1>1, <1>3, <1>4, <1>8, <1>9

(* The columns of a row are its bodies and its bindings alone.             *)
LEMMA SameColumns ==
    ASSUME NEW row, NEW new, Held(row), Held(new),
           new.object = row.object, new.clash = row.clash, new.bound = row.bound
    PROVE  /\ Binders(new) = Binders(row) /\ BasedBy(new) = BasedBy(row)
           /\ \A k, b : PointsTo(new, k, b) <=> PointsTo(row, k, b)
           /\ \A b : Pins(new, b) = Pins(row, b)
<1>1. Binders(new) = Binders(row)
      BY DEF Binders
<1>2. BasedBy(new) = BasedBy(row)
      BY <1>1 DEF BasedBy
<1>3. \A k, b : PointsTo(new, k, b) <=> PointsTo(row, k, b)
      BY <1>1, <1>2 DEF PointsTo
<1> QED BY <1>1, <1>2, <1>3 DEF Pins

(* The last binding dropped retains the row or purges it with its pin.     *)
LEMMA RetiredEffect ==
    ASSUME NEW d \in Tables, NEW p \in Places, Held(d.items[p]), Binders(d.items[p]) = {},
           d.count = Counted(d), FilesPlain(d.items)
    PROVE  LET e == Retired(d, p) IN
           /\ e \in Tables /\ SameStore(d, e) /\ e.colls = d.colls
           /\ e.refs \subseteq d.refs
           /\ e.items[p] \in {NoRow, [d.items[p] EXCEPT !.state = "retained"]}
           /\ Beside(d.items, e.items, {p}) /\ OnlyDrops(d.items, e.items)
           /\ \A q \in Places : LinkKind[q[2]] # "file" /\ q # p => e.items[q] = d.items[q]
           /\ e.count = Counted(e)
<1> DEFINE row == d.items[p]
           gone == [row EXCEPT !.state = "retained"]
           its == [d.items EXCEPT ![p] = gone]
           k == [d EXCEPT !.items = its]
           e == Retired(d, p)
<1>1. e = IF HeldElsewhere(k, p, row.object) THEN Purged(k, p) ELSE k
      BY DEF Retired
<1>2. /\ gone \in Rows /\ gone.object = row.object /\ gone.bound = row.bound
      /\ gone.clash = row.clash /\ Held(gone)
  <2>1. row \in Rows
        BY DEF Tables, Held
  <2>2. /\ gone \in Rows /\ gone.object = row.object /\ gone.bound = row.bound
        /\ gone.clash = row.clash
        BY <2>1 DEF Rows
  <2> QED BY <2>2, NoneAssumption DEF Held
<1>3. Binders(gone) = {} /\ \A b : Pins(gone, b) = Pins(row, b)
      BY <1>2, SameColumns
<1> HIDE DEF gone
<1>4. /\ its \in [Places -> Rows \cup {NoRow}]
      /\ its[p] = gone /\ \A q \in Places : q # p => its[q] = d.items[q]
      BY <1>2 DEF Tables
<1> HIDE DEF its
<1>5. /\ k \in Tables /\ k.items = its /\ k.refs = d.refs /\ k.colls = d.colls
      /\ SameStore(d, k) /\ k.count = d.count
      BY <1>4 DEF Tables, SameStore
<1> HIDE DEF k
<1>6. Beside(d.items, k.items, {p}) /\ OnlyDrops(d.items, k.items)
      BY <1>4, <1>5 DEF Beside, OnlyDrops
<1>7. k.count = Counted(k)
  <2>1. \A b \in Bodies : k.count[b] = d.count[b] + Pins(k.items[p], b) - Pins(d.items[p], b)
    <3>1. \A b \in Bodies : d.count[b] \in Int
          BY DEF Tables
    <3>2. \A b \in Bodies : Pins(row, b) \in Nat
          BY CountOne
    <3> QED BY <1>3, <1>4, <1>5, <3>1, <3>2
  <2>2. k.queue = d.queue
        BY <1>5 DEF SameStore
  <2> QED BY <1>5, <1>6, <2>1, <2>2, CountRow
<1>8. CASE HeldElsewhere(k, p, row.object)
  <2> DEFINE f == Purged(k, p)
  <2>6. FilesPlain(k.items)
        BY <1>2, <1>4, <1>5 DEF FilesPlain
  <2>1. /\ f \in Tables /\ SameStore(k, f) /\ f.colls = k.colls
        /\ f.refs \subseteq k.refs
        /\ f.items[p] = NoRow
        /\ Beside(k.items, f.items, {p}) /\ OnlyDrops(k.items, f.items)
        /\ \A q \in Places : LinkKind[q[2]] # "file" /\ q # p => f.items[q] = k.items[q]
        /\ f.count = Counted(f)
        BY <1>2, <1>3, <1>4, <1>5, <1>7, <2>6, PurgedEffect
  <2> HIDE DEF f
  <2>2. Beside(d.items, f.items, {p}) /\ OnlyDrops(d.items, f.items)
        BY <1>4, <1>5, <1>6, <2>1 DEF Beside, OnlyDrops
  <2>3. SameStore(d, f)
        BY <1>5, <2>1 DEF SameStore
  <2>4. \A q \in Places : LinkKind[q[2]] # "file" /\ q # p => f.items[q] = d.items[q]
        BY <1>4, <1>5, <2>1
  <2>5. e = f
        BY <1>1, <1>8 DEF f
  <2> HIDE DEF e
  <2> QED BY <1>5, <2>1, <2>2, <2>3, <2>4, <2>5 DEF e
<1>9. CASE ~HeldElsewhere(k, p, row.object)
  <2>1. e = k
        BY <1>1, <1>9
  <2> HIDE DEF e
  <2>2. e.items[p] = [d.items[p] EXCEPT !.state = "retained"]
        BY <1>4, <1>5, <2>1 DEF gone
  <2> QED BY <1>4, <1>5, <1>6, <1>7, <2>1, <2>2 DEF e
<1> QED BY <1>8, <1>9


-----------------------------------------------------------------------------
(* The invariant of the tables, one conjunct for each thing a later write  *)
(* relies on: an id names one collection; a held row's collection is       *)
(* filed; a queued row is filed under a collection that is, and a pending  *)
(* copy names the id its target has now; a retained row is bound by        *)
(* nothing, and nothing diverges from a file; what a pointer names is      *)
(* stored; and the refcounts are exact.                                    *)
HeldFiled(d) == \A p \in Places : Held(d.items[p]) => p[1] \in Filed(d)
QueueRowWell(d, a) ==
    /\ LinkKind[a.at[2]] = "mail" /\ a.at[1] \in Filed(d)
    /\ a.meant # NoColl /\ ~a.parked => a.meant \in Filed(d) /\ d.colls[a.meant].id = a.target
QueueWell(d) == \A i \in DOMAIN d.queue : QueueRowWell(d, d.queue[i])
RowWell(p, row) ==
    /\ Retained(row) => Binders(row) = {}
    /\ LinkKind[p[2]] = "file" /\ Held(row) => row.clash = NoClash
AllStored(row, st) == \A k \in Columns, b \in Bodies : PointsTo(row, k, b) => b \in st
RowsWell(d) ==
    \A p \in Places : RowWell(p, d.items[p]) /\ AllStored(d.items[p], d.stored)
StoreInv(d) ==
    /\ d \in Tables /\ IdsUnique(d) /\ HeldFiled(d) /\ QueueWell(d)
    /\ RowsWell(d)
    /\ d.count = Counted(d)

(* A place owed a push holds a row that owes it; and a live message with   *)
(* neither body nor base is one a drain landed.                            *)
OwedInv == \A p \in owed : Owes(p, db.items[p])
BareInv == \A p \in Mails : Live(db.items[p]) /\ Bodiless(db.items[p]) => p \in bare
RetentionInv == TypeOK /\ StoreInv(db) /\ OwedInv /\ BareInv

(* Nothing diverges from the files of a store.                             *)
LEMMA StorePlain ==
    ASSUME NEW d, StoreInv(d)
    PROVE  FilesPlain(d.items)
BY DEF StoreInv, RowsWell, RowWell, FilesPlain

-----------------------------------------------------------------------------
(* Rows, column by column.                                                 *)

(* The bodies a row names.                                                 *)
StoredColumns(row, st) ==
    /\ row.object \in Bodies => row.object \in st
    /\ row.clash \in Bodies => row.clash \in st
    /\ \A s \in Binders(row) :
          /\ row.bound[s].shared \in Bodies => row.bound[s].shared \in st
          /\ row.bound[s].clash \in Bodies => row.bound[s].clash \in st
    /\ \A s \in BasedBy(row) : row.bound[s].base.object \in Bodies => row.bound[s].base.object \in st

(* The pointers of a row, column by column.                                *)
LEMMA StoredIs ==
    ASSUME NEW row \in Rows, NEW st
    PROVE  AllStored(row, st) <=> StoredColumns(row, st)
<1>1. Held(row)
      BY NoneAssumption DEF Held
<1>2. ASSUME NEW b
      PROVE  /\ PointsTo(row, <<"item">>, b) <=> row.object = b
             /\ PointsTo(row, <<"clash">>, b) <=> row.clash = b
             /\ \A s : PointsTo(row, <<"base", s>>, b)
                          <=> s \in BasedBy(row) /\ row.bound[s].base.object = b
             /\ \A s : PointsTo(row, <<"shared", s>>, b)
                          <=> s \in Binders(row) /\ row.bound[s].shared = b
             /\ \A s : PointsTo(row, <<"diverging", s>>, b)
                          <=> s \in Binders(row) /\ row.bound[s].clash = b
      BY <1>1 DEF PointsTo
<1>3. Binders(row) \subseteq Sources /\ BasedBy(row) \subseteq Sources
      BY DEF Binders, BasedBy
<1>4. \A k \in Columns : \/ k = <<"item">> \/ k = <<"clash">>
                         \/ \E s \in Sources : k \in {<<"base", s>>, <<"shared", s>>, <<"diverging", s>>}
      BY DEF Columns, Own
<1>5. /\ <<"item">> \in Columns /\ <<"clash">> \in Columns
      /\ \A s \in Sources : /\ <<"base", s>> \in Columns /\ <<"shared", s>> \in Columns
                            /\ <<"diverging", s>> \in Columns
      BY DEF Columns, Own
<1>6. ASSUME AllStored(row, st) PROVE StoredColumns(row, st)
  <2>1. \A b \in Bodies : /\ PointsTo(row, <<"item">>, b) => b \in st
                          /\ PointsTo(row, <<"clash">>, b) => b \in st
        BY <1>5, <1>6 DEF AllStored
  <2>2. \A b \in Bodies : \A s \in Sources : PointsTo(row, <<"base", s>>, b) => b \in st
        BY <1>5, <1>6 DEF AllStored
  <2>3. \A b \in Bodies : \A s \in Sources : PointsTo(row, <<"shared", s>>, b) => b \in st
        BY <1>5, <1>6 DEF AllStored
  <2>4. \A b \in Bodies : \A s \in Sources : PointsTo(row, <<"diverging", s>>, b) => b \in st
        BY <1>5, <1>6 DEF AllStored
  <2> QED BY <1>2, <1>3, <2>1, <2>2, <2>3, <2>4 DEF StoredColumns
<1>7. ASSUME StoredColumns(row, st) PROVE AllStored(row, st)
  <2> SUFFICES ASSUME NEW k \in Columns, NEW b \in Bodies, PointsTo(row, k, b)
               PROVE  b \in st
        BY DEF AllStored
  <2>1. CASE k = <<"item">> \/ k = <<"clash">>
        BY <1>2, <1>7, <2>1 DEF StoredColumns
  <2>2. ASSUME NEW s \in Sources, k = <<"base", s>>
        PROVE  b \in st
    <3>1. PointsTo(row, <<"base", s>>, b)
          BY <2>2
    <3>2. s \in BasedBy(row) /\ row.bound[s].base.object = b
          BY <1>2, <3>1
    <3> QED BY <1>7, <3>2 DEF StoredColumns
  <2>3. ASSUME NEW s \in Sources, k = <<"shared", s>>
        PROVE  b \in st
    <3>1. PointsTo(row, <<"shared", s>>, b)
          BY <2>3
    <3>2. s \in Binders(row) /\ row.bound[s].shared = b
          BY <1>2, <3>1
    <3> QED BY <1>7, <3>2 DEF StoredColumns
  <2>4. ASSUME NEW s \in Sources, k = <<"diverging", s>>
        PROVE  b \in st
    <3>1. PointsTo(row, <<"diverging", s>>, b)
          BY <2>4
    <3>2. s \in Binders(row) /\ row.bound[s].clash = b
          BY <1>2, <3>1
    <3> QED BY <1>7, <3>2 DEF StoredColumns
  <2> QED BY <1>4, <2>1, <2>2, <2>3, <2>4
<1> QED BY <1>6, <1>7

(* Two rows a server is owed the same by: a message's body is no part of   *)
(* it.                                                                     *)
Alike(row, new) ==
    /\ row.state = new.state /\ row.flags = new.flags /\ row.clash = new.clash
    /\ Binders(row) = Binders(new) /\ BasedBy(row) = BasedBy(new)
    /\ \A s \in Binders(new) : row.bound[s].clash = new.bound[s].clash
    /\ \A s \in BasedBy(new) : row.bound[s].base.flags = new.bound[s].base.flags

(* A message's row owes what one alike owes.                               *)
LEMMA AlikeOwes ==
    ASSUME NEW p \in Mails, NEW row \in Rows, NEW new \in Rows, Alike(row, new)
    PROVE  Owes(p, row) <=> Owes(p, new)
<1>1. p \notin Events
      BY DEF Mails, Events
<1>2. Held(row) /\ Held(new)
      BY NoneAssumption DEF Held
<1>3. Conflicted(row) <=> Conflicted(new)
      BY DEF Alike, Conflicted
<1>4. CASE BasedBy(new) # Binders(new)
      BY <1>2, <1>4 DEF Alike, Owes, BasedBy
<1>5. CASE BasedBy(new) = Binders(new)
      BY <1>1, <1>2, <1>3, <1>5 DEF Alike, Owes
<1> QED BY <1>4, <1>5

(* What the row of a revived place is.                                     *)
LEMMA RevivedRow ==
    ASSUME NEW p, NEW held \in Rows, NEW new \in Rows, NEW st,
           StoredColumns(held, st), StoredColumns(new, st)
    PROVE  LET row == Revived(p, held, new) IN
           /\ row \in Rows /\ Alike(row, new)
           /\ new.object # NoBody => row.object = new.object
           /\ StoredColumns(row, st)
           /\ KindOf[p[1]] # "mail" => row = new
<1> DEFINE row == Revived(p, held, new)
<1>1. CASE new.object # NoBody \/ held.object = NoBody \/ KindOf[p[1]] # "mail"
  <2>1. row = new
        BY <1>1 DEF Revived
  <2> QED BY <1>1, <2>1 DEF Alike
<1>2. CASE new.object = NoBody /\ held.object # NoBody /\ KindOf[p[1]] = "mail"
  <2> DEFINE bound == [s \in Sources |->
                        IF s \in BasedBy(new) /\ new.bound[s].base.object = NoBody
                        THEN [new.bound[s] EXCEPT !.base.object = held.object]
                        ELSE new.bound[s]]
             r == [new EXCEPT !.object = held.object, !.bound = bound]
  <2>1. row = r
        BY <1>2 DEF Revived
  <2>2. /\ \A s \in BasedBy(new) : /\ s \in Sources /\ new.bound[s] \in Bindings
                                   /\ new.bound[s].base \in Bases
        /\ BasedBy(new) \subseteq Binders(new) /\ Binders(new) \subseteq Sources
        BY DEF BasedBy, Binders, Rows, Bindings
  <2>3. held.object \in Objects
        BY DEF Rows
  <2>4. ASSUME NEW s \in BasedBy(new)
        PROVE  LET x == [new.bound[s] EXCEPT !.base.object = held.object] IN
               /\ x \in Bindings /\ x.base \in Bases
               /\ x.shared = new.bound[s].shared /\ x.clash = new.bound[s].clash
               /\ x.base.flags = new.bound[s].base.flags /\ x.base.object = held.object
        BY <2>2, <2>3 DEF Bindings, Bases
  <2>5. \A s \in Sources :
           /\ bound[s] \in Bindings \cup {NoBinding}
           /\ s \notin BasedBy(new) => bound[s] = new.bound[s]
           /\ s \in BasedBy(new) =>
                 /\ bound[s] \in Bindings /\ bound[s].base \in Bases
                 /\ bound[s].shared = new.bound[s].shared
                 /\ bound[s].clash = new.bound[s].clash
                 /\ bound[s].base.flags = new.bound[s].base.flags
                 /\ bound[s].base.object \in {held.object, new.bound[s].base.object}
        BY <2>2, <2>4 DEF Rows
  <2> HIDE DEF bound
  <2>6. /\ r.state = new.state /\ r.flags = new.flags /\ r.object = held.object
        /\ r.clash = new.clash /\ r.bound = bound
        BY DEF Rows
  <2>7. r \in Rows
    <3>1. bound \in [Sources -> Bindings \cup {NoBinding}]
      <4>1. bound = [s \in Sources |-> bound[s]]
            BY DEF bound
      <4> QED BY <2>5, <4>1
    <3> QED BY <2>3, <3>1 DEF Rows
  <2> HIDE DEF r
  <2>8. Binders(r) = Binders(new)
        BY <2>2, <2>5, <2>6, NoneAssumption DEF Binders
  <2>9. BasedBy(r) = BasedBy(new)
        BY <2>2, <2>5, <2>6, <2>8, NoneAssumption DEF BasedBy
  <2>10. StoredColumns(r, st)
        BY <2>2, <2>5, <2>6, <2>8, <2>9 DEF StoredColumns
  <2>11. Alike(r, new)
        BY <2>2, <2>5, <2>6, <2>8, <2>9 DEF Alike
  <2> QED BY <1>2, <2>1, <2>7, <2>10, <2>11
<1> QED BY <1>1, <1>2

(* apply and save_hub_diff: the row written at its place, retained or      *)
(* moved away once its last binding is dropped, and stand-ins beside it.   *)
Placed(d, p, new) == IF Retained(d.items[p]) THEN Revived(p, d.items[p], new) ELSE new
Retires(d, p, new) ==
    /\ Held(d.items[p]) /\ ~Retained(d.items[p])
    /\ Binders(d.items[p]) # {} /\ Binders(Placed(d, p, new)) = {}

(* What save_hub_diff leaves: the row, its pins, and stand-ins beside.     *)
LEMMA SavedEffect ==
    ASSUME NEW d, StoreInv(d), NEW p \in Places, LinkKind[p[2]] # "file", p[1] \in Filed(d),
           NEW new \in Rows, StoredColumns(new, d.stored)
    PROVE  LET e == Saved(d, p, new)
               row == Placed(d, p, new) IN
           /\ e \in Tables /\ SameStore(d, e) /\ KeepsColls(d, e) /\ IdsUnique(e)
           /\ e.count = Counted(e) /\ HeldFiled(e)
           /\ Beside(d.items, e.items, {p})
           /\ IF Retires(d, p, new)
              THEN e.items[p] \in {NoRow, [row EXCEPT !.state = "retained"]}
              ELSE e.items[p] = row
           /\ \A q \in Places : LinkKind[q[2]] # "file" /\ q # p => e.items[q] = d.items[q]
<1> DEFINE held == d.items[p]
           old  == IF Retained(held) THEN NoRow ELSE held
           row  == Placed(d, p, new)
           base == IF Retained(held) THEN Unpinned(d.count, d.items, {p}) ELSE d.count
           count == Adjusted(base, old, row)
           its == [d.items EXCEPT ![p] = row]
           saved == [d EXCEPT !.items = its, !.count = count]
           linked == IF Held(old) THEN saved ELSE Linked(saved, p[2])
           retires == Held(old) /\ Binders(old) # {} /\ Binders(row) = {}
           retired == IF retires THEN Retired(linked, p) ELSE linked
           gains == Gaining(d, p, old, new)
           account == AccountOf(d, p[1])
           e == IF gains THEN Recorded(retired, account, p[2], new.object) ELSE retired
<1>1. Saved(d, p, new) = e
      BY DEF Saved, Placed
<1>2. d \in Tables /\ IdsUnique(d) /\ HeldFiled(d) /\ RowsWell(d) /\ d.count = Counted(d)
      BY DEF StoreInv
<1>3. /\ row \in Rows /\ Held(row)
      /\ held \in Rows \cup {NoRow}
  <2>1. held \in Rows \cup {NoRow}
        BY <1>2 DEF Tables
  <2>2. CASE Retained(held)
    <3>1. held \in Rows /\ AllStored(held, d.stored)
          BY <1>2, <2>1, <2>2 DEF Retained, Held, RowsWell
    <3>3. StoredColumns(held, d.stored)
          BY <3>1, StoredIs
    <3> HIDE DEF held
    <3>2. Revived(p, held, new) \in Rows
          BY <3>1, <3>3, RevivedRow
    <3> USE DEF held
    <3> QED BY <2>1, <2>2, <3>2, NoneAssumption DEF Placed, Held
  <2> QED BY <2>1, <2>2, NoneAssumption DEF Placed, Held
<1>4. \A b \in Bodies : Pins(NoRow, b) = 0
  <2>1. \A b : {k \in Columns : PointsTo(NoRow, k, b)} = {}
        BY DEF PointsTo, Held
  <2> QED BY <2>1, FS_EmptySet DEF Pins
<1>5. \A b \in Bodies : d.count[b] \in Int /\ Pins(held, b) \in Nat
      BY <1>2, CountOne DEF Tables
<1>6. \A b \in Bodies : base[b] - Pins(old, b) = d.count[b] - Pins(held, b) /\ base[b] \in Int
                        /\ Pins(old, b) \in Nat
  <2>1. CASE Retained(held)
    <3>1. Held(held) /\ Binders(held) = {}
          BY <1>2, <2>1 DEF Retained, RowsWell, RowWell
    <3>2. \A b \in Bodies : Cardinality(Pointed(d.items, {p}, b)) = Pins(held, b)
          BY CountOne
    <3>3. \A b \in Bodies : base[b] = d.count[b] - Cardinality(Pointed(d.items, {p}, b))
      <4>1. d.count \in [Bodies -> Int]
            BY <1>2 DEF Tables
      <4>2. {p} \in SUBSET Places /\ \A q \in {p} : Held(d.items[q]) => Binders(d.items[q]) = {}
            BY <3>1
      <4>3. \A b \in Bodies : Unpinned(d.count, d.items, {p})[b]
                               = d.count[b] - Cardinality(Pointed(d.items, {p}, b))
            BY <4>1, <4>2, UnboundPointed
      <4> QED BY <2>1, <4>3
    <3>4. old = NoRow
          BY <2>1
    <3> HIDE DEF old, base, held
    <3> QED BY <1>4, <1>5, <3>2, <3>3, <3>4
  <2>2. CASE ~Retained(held)
    <3>1. old = held /\ base = d.count
          BY <2>2
    <3> HIDE DEF old, base, held
    <3> QED BY <1>5, <3>1
  <2> QED BY <2>1, <2>2
<1> HIDE DEF base
<1>7. /\ its \in [Places -> Rows \cup {NoRow}]
      /\ its[p] = row /\ \A q \in Places : q # p => its[q] = d.items[q]
  <2> HIDE DEF row
  <2> QED BY <1>2, <1>3 DEF Tables
<1>8. \A b \in Bodies : Pins(row, b) \in Nat
      BY <1>7, CountOne
<1>9. /\ count \in [Bodies -> Int]
      /\ \A b \in Bodies : count[b] = d.count[b] + Pins(row, b) - Pins(held, b)
  <2>1. \A b \in Bodies : count[b] = base[b] + Pins(row, b) - Pins(old, b)
        BY DEF Adjusted
  <2>2. count = [b \in Bodies |-> count[b]]
        BY DEF Adjusted
  <2> HIDE DEF count, row, old, held
  <2>3. \A b \in Bodies : count[b] = d.count[b] + Pins(row, b) - Pins(held, b)
        BY <1>5, <1>6, <1>8, <2>1
  <2>4. \A b \in Bodies : count[b] \in Int
        BY <1>5, <1>8, <2>3
  <2> QED BY <2>2, <2>3, <2>4
<1> HIDE DEF its, count, row, old
<1>10. /\ saved \in Tables /\ saved.items = its /\ saved.refs = d.refs /\ saved.colls = d.colls
       /\ SameStore(d, saved) /\ saved.count = count
       BY <1>2, <1>7, <1>9 DEF Tables, SameStore
<1> HIDE DEF saved
<1>11. Beside(d.items, saved.items, {p})
       BY <1>7, <1>10 DEF Beside
<1>12. saved.count = Counted(saved)
  <2>1. saved.queue = d.queue
        BY <1>10 DEF SameStore
  <2>2. \A b \in Bodies : saved.count[b] = d.count[b] + Pins(saved.items[p], b) - Pins(d.items[p], b)
        BY <1>7, <1>9, <1>10
  <2> QED BY <1>2, <1>10, <1>11, <2>1, <2>2, CountRow
<1>13. p[2] \in Links
       BY DEF Places
<1>14. /\ linked \in Tables /\ linked.items = its /\ linked.colls = d.colls
       /\ SameStore(d, linked) /\ linked.count = Counted(linked)
  <2>1. CASE Held(old)
        BY <1>10, <1>12, <2>1
  <2>2. CASE ~Held(old)
    <3> DEFINE f == Linked(saved, p[2])
    <3>1. /\ f \in Tables /\ SameStore(saved, f) /\ f.count = saved.count
          /\ f.colls = saved.colls /\ f.items = saved.items
          BY <1>10, <1>13, LinkedEffect
    <3>2. linked = f
          BY <2>2
    <3> HIDE DEF f, linked
    <3>3. SameStore(d, f)
          BY <1>10, <3>1 DEF SameStore
    <3>4. f.count = Counted(f)
          BY <1>10, <1>12, <3>1 DEF Counted, SameStore
    <3> QED BY <1>10, <3>1, <3>2, <3>3, <3>4
  <2> QED BY <2>1, <2>2
<1> HIDE DEF linked
<1>15. /\ retired \in Tables /\ retired.colls = d.colls
       /\ SameStore(d, retired) /\ retired.count = Counted(retired)
       /\ Beside(its, retired.items, {p}) /\ OnlyDrops(its, retired.items)
       /\ \A q \in Places : LinkKind[q[2]] # "file" /\ q # p => retired.items[q] = its[q]
       /\ IF retires THEN retired.items[p] \in {NoRow, [row EXCEPT !.state = "retained"]}
          ELSE retired.items[p] = row
  <2>1. CASE retires
    <3> DEFINE f == Retired(linked, p)
    <3>1. /\ f \in Tables /\ SameStore(linked, f) /\ f.colls = linked.colls
          /\ f.items[p] \in {NoRow, [linked.items[p] EXCEPT !.state = "retained"]}
          /\ Beside(linked.items, f.items, {p}) /\ OnlyDrops(linked.items, f.items)
          /\ \A q \in Places : LinkKind[q[2]] # "file" /\ q # p => f.items[q] = linked.items[q]
          /\ f.count = Counted(f)
      <4>1. FilesPlain(linked.items)
            BY <1>7, <1>14, StorePlain DEF FilesPlain
      <4> QED BY <1>3, <1>7, <1>14, <2>1, <4>1, RetiredEffect
    <3>2. retired = f
          BY <2>1
    <3> HIDE DEF f, retired, retires
    <3>3. SameStore(d, f)
          BY <1>14, <3>1 DEF SameStore
    <3> QED BY <1>7, <1>14, <2>1, <3>1, <3>2, <3>3
  <2>2. CASE ~retires
    <3>1. retired = linked
          BY <2>2
    <3> HIDE DEF retired, retires
    <3> QED BY <1>7, <1>14, <2>2, <3>1 DEF Beside, OnlyDrops
  <2> QED BY <2>1, <2>2
<1>16. retires <=> Retires(d, p, new)
       BY DEF Retires, old, row, Held, Retained
<1> HIDE DEF retired, retires
<1>17. IdsUnique(retired) /\ KeepsColls(d, retired) /\ Filed(retired) = Filed(d)
       BY <1>2, <1>15 DEF IdsUnique, KeepsColls, Filed
<1>18. Beside(d.items, retired.items, {p})
       BY <1>7, <1>15 DEF Beside
<1>19. HeldFiled(retired)
       BY <1>2, <1>7, <1>15, <1>17 DEF HeldFiled, OnlyDrops
<1>20. \A q \in Places : LinkKind[q[2]] # "file" /\ q # p => retired.items[q] = d.items[q]
       BY <1>7, <1>15
<1>21. CASE ~gains
  <2>1. e = retired
        BY <1>21
  <2> HIDE DEF e
  <2> QED BY <1>1, <1>15, <1>16, <1>17, <1>18, <1>19, <1>20, <2>1 DEF row
<1>22. CASE gains
  <2> DEFINE f == Recorded(retired, account, p[2], new.object)
  <2>1. account \in Accounts
        BY <1>2 DEF AccountOf, Filed, Tables, Colls
  <2>2. new.object \in Bodies
        BY <1>22 DEF Gaining, Rows, Objects
  <2>3. /\ f \in Tables /\ SameStore(retired, f) /\ f.count = retired.count
        /\ KeepsColls(retired, f) /\ IdsUnique(f)
        /\ \A q \in Places : \/ f.items[q] = retired.items[q]
                             \/ /\ LinkKind[q[2]] = "file" /\ ~Held(retired.items[q])
                                /\ Held(f.items[q]) /\ Blank(f.items[q])
                                /\ q[1] \in Filed(f)
    <3> HIDE DEF account
    <3> QED BY <1>13, <1>15, <1>17, <2>1, <2>2, RecordedEffect
  <2>4. e = f
        BY <1>22
  <2> HIDE DEF e, f
  <2>5. SameStore(d, f) /\ KeepsColls(d, f)
        BY <1>15, <1>17, <2>3 DEF SameStore, KeepsColls
  <2>6. Beside(d.items, f.items, {p}) /\ Beside(retired.items, f.items, {p})
        BY <1>18, <2>3 DEF Beside, Blank
  <2>7. f.items[p] = retired.items[p]
        BY <2>3
  <2>8. f.count = Counted(f)
    <3>1. \A b \in Bodies : Pins(retired.items[p], b) \in Nat
          BY CountOne
    <3>2. \A b \in Bodies : retired.count[b] \in Int
          BY <1>15 DEF Tables
    <3>3. \A b \in Bodies : f.count[b] = retired.count[b] + Pins(f.items[p], b)
                                         - Pins(retired.items[p], b)
          BY <2>3, <2>7, <3>1, <3>2
    <3>4. f.queue = retired.queue
          BY <2>3 DEF SameStore
    <3> QED BY <1>15, <2>3, <2>6, <3>3, <3>4, CountRow
  <2>9. HeldFiled(f)
        BY <1>19, <2>3 DEF HeldFiled, KeepsColls
  <2>10. \A q \in Places : LinkKind[q[2]] # "file" /\ q # p => f.items[q] = d.items[q]
        BY <1>20, <2>3
  <2> QED BY <1>1, <1>15, <1>16, <2>3, <2>4, <2>5, <2>6, <2>7, <2>8, <2>9, <2>10 DEF row
<1> QED BY <1>21, <1>22

-----------------------------------------------------------------------------
(* The invariant of the tables, kept by each kind of write.                *)

(* A blank row is well formed.                                             *)
LEMMA BlankWell ==
    ASSUME NEW p, NEW row, Blank(row), NEW st
    PROVE  RowWell(p, row) /\ AllStored(row, st)
BY BlankPoints DEF RowWell, AllStored, Blank, Retained, Live

(* A change of rows that keeps each well and the count keeps StoreInv.     *)
LEMMA StoreKept ==
    ASSUME NEW d, StoreInv(d), NEW e \in Tables,
           d.stored \subseteq e.stored, e.queue = d.queue,
           KeepsColls(d, e), IdsUnique(e), HeldFiled(e),
           NEW S \in SUBSET Places, Beside(d.items, e.items, S),
           \A p \in S : RowWell(p, e.items[p]) /\ AllStored(e.items[p], e.stored),
           e.count = Counted(e)
    PROVE  StoreInv(e)
<1>2. QueueWell(e)
  <2> SUFFICES ASSUME NEW i \in DOMAIN d.queue
               PROVE  QueueRowWell(e, d.queue[i])
        BY DEF QueueWell
  <2>1. QueueRowWell(d, d.queue[i])
        BY DEF StoreInv, QueueWell
  <2> QED BY <2>1 DEF QueueRowWell, KeepsColls
<1>3. RowsWell(e)
  <2> SUFFICES ASSUME NEW p \in Places
               PROVE  RowWell(p, e.items[p]) /\ AllStored(e.items[p], e.stored)
        BY DEF RowsWell
  <2>1. CASE p \in S
        BY <2>1
  <2>2. CASE e.items[p] = d.items[p]
        BY <2>2 DEF StoreInv, RowsWell, AllStored
  <2>3. CASE LinkKind[p[2]] = "file" /\ Blank(e.items[p])
        BY <2>3, BlankWell
  <2> QED BY <2>1, <2>2, <2>3 DEF Beside
<1> QED BY <1>2, <1>3 DEF StoreInv

(* What a write may file: a row live or deleted, every body it names       *)
(* stored.                                                                 *)
Writable(d, new) ==
    new \in Rows /\ new.state # "retained" /\ StoredColumns(new, d.stored)

(* The row a place holds.                                                  *)
LEMMA HeldRow ==
    ASSUME NEW d, StoreInv(d), NEW p \in Places, Held(d.items[p])
    PROVE  /\ d.items[p] \in Rows /\ p[1] \in Filed(d)
           /\ RowWell(p, d.items[p]) /\ StoredColumns(d.items[p], d.stored)
<1>1. d.items[p] \in Rows /\ AllStored(d.items[p], d.stored)
      BY DEF StoreInv, Tables, Held, RowsWell
<1> QED BY <1>1, StoredIs DEF StoreInv, HeldFiled, RowsWell

(* The row a write or a revive places is bound and based as the new one.   *)
LEMMA PlacedRow ==
    ASSUME NEW d, StoreInv(d), NEW p \in Places, NEW new, Writable(d, new)
    PROVE  LET row == Placed(d, p, new) IN
           /\ row \in Rows /\ Alike(row, new)
           /\ new.object # NoBody => row.object = new.object
           /\ StoredColumns(row, d.stored)
           /\ KindOf[p[1]] # "mail" => row = new
<1> DEFINE held == d.items[p]
           row == Placed(d, p, new)
<1>1. new \in Rows /\ StoredColumns(new, d.stored)
      BY DEF Writable
<1>2. CASE Retained(held)
  <2>1. held \in Rows /\ StoredColumns(held, d.stored)
        BY <1>2, HeldRow DEF Retained
  <2>2. row = Revived(p, held, new)
        BY <1>2 DEF Placed
  <2> HIDE DEF held, row
  <2>3. /\ row \in Rows /\ Alike(row, new)
        /\ new.object # NoBody => row.object = new.object
        /\ StoredColumns(row, d.stored)
        /\ KindOf[p[1]] # "mail" => row = new
        BY <1>1, <2>1, <2>2, RevivedRow
  <2> QED BY <2>3 DEF row
<1>3. CASE ~Retained(held)
  <2>1. row = new
        BY <1>3 DEF Placed
  <2> QED BY <1>1, <2>1 DEF Alike
<1> QED BY <1>2, <1>3

(* save_hub_diff keeps StoreInv for a well-formed row, and beside it       *)
(* changes files alone.                                                    *)
LEMMA SavedKeeps ==
    ASSUME NEW d, StoreInv(d), NEW p \in Places, LinkKind[p[2]] # "file", p[1] \in Filed(d),
           NEW new, Writable(d, new)
    PROVE  LET e == Saved(d, p, new) IN
           /\ StoreInv(e) /\ SameStore(d, e) /\ KeepsColls(d, e)
           /\ \A q \in Places : LinkKind[q[2]] # "file" /\ q # p => e.items[q] = d.items[q]
           /\ IF Retires(d, p, new)
              THEN ~Held(e.items[p]) \/ Retained(e.items[p])
              ELSE e.items[p] = Placed(d, p, new)
<1> DEFINE e == Saved(d, p, new)
           row == Placed(d, p, new)
           gone == [row EXCEPT !.state = "retained"]
<1>1. /\ e \in Tables /\ SameStore(d, e) /\ KeepsColls(d, e) /\ IdsUnique(e)
      /\ e.count = Counted(e) /\ HeldFiled(e)
      /\ Beside(d.items, e.items, {p})
      /\ IF Retires(d, p, new)
         THEN e.items[p] \in {NoRow, gone}
         ELSE e.items[p] = row
      /\ \A q \in Places : LinkKind[q[2]] # "file" /\ q # p => e.items[q] = d.items[q]
      BY SavedEffect DEF Writable
<1>2. /\ row \in Rows /\ AllStored(row, d.stored) /\ Held(row) /\ row.state # "retained"
  <2>1. row \in Rows /\ Alike(row, new) /\ StoredColumns(row, d.stored)
        BY PlacedRow
  <2> HIDE DEF row
  <2> QED BY <2>1, StoredIs, NoneAssumption DEF Writable, Held, Alike
<1> HIDE DEF e, row
<1>3. RowWell(p, NoRow) /\ AllStored(NoRow, d.stored)
      BY BlankWell DEF Blank, Held
<1>4. /\ gone \in Rows /\ gone.object = row.object /\ gone.bound = row.bound
      /\ gone.clash = row.clash /\ gone.state = "retained" /\ Held(gone)
  <2>1. /\ gone \in Rows /\ gone.object = row.object /\ gone.bound = row.bound
        /\ gone.clash = row.clash /\ gone.state = "retained"
        BY <1>2 DEF Rows
  <2> HIDE DEF gone
  <2> QED BY <2>1, NoneAssumption DEF Held
<1> HIDE DEF gone
<1>5. Retires(d, p, new) => RowWell(p, gone) /\ AllStored(gone, d.stored)
  <2>1. Binders(gone) = Binders(row) /\ \A k, b : PointsTo(gone, k, b) <=> PointsTo(row, k, b)
        BY <1>2, <1>4, SameColumns
  <2> QED BY <1>2, <1>4, <2>1 DEF Retires, RowWell, AllStored, row
<1>6. RowWell(p, e.items[p]) /\ AllStored(e.items[p], d.stored)
      BY <1>1, <1>2, <1>3, <1>4, <1>5 DEF RowWell, Retained
<1>7. StoreInv(e)
  <2>1. {p} \in SUBSET Places
        OBVIOUS
  <2> QED BY <1>1, <1>6, <2>1, StoreKept DEF SameStore
<1>8. Retires(d, p, new) => ~Held(e.items[p]) \/ Retained(e.items[p])
      BY <1>1, <1>4 DEF Held, Retained
<1> QED BY <1>1, <1>7, <1>8 DEF e, row

(* A body fetched or handed over is in the store before the row names it.  *)
LEMMA StoredKeeps ==
    ASSUME NEW d, StoreInv(d), NEW bodies
    PROVE  LET e == Stored(d, bodies) IN
           /\ StoreInv(e) /\ e.items = d.items /\ e.colls = d.colls /\ e.queue = d.queue
           /\ e.sources = d.sources /\ e.stored = d.stored \cup (bodies \cap Bodies)
           /\ Filed(e) = Filed(d)
<1> DEFINE e == Stored(d, bodies)
<1>1. /\ e \in Tables /\ e.items = d.items /\ e.colls = d.colls /\ e.queue = d.queue
      /\ e.sources = d.sources /\ e.stored = d.stored \cup (bodies \cap Bodies)
      /\ e.count = d.count
      BY DEF Stored, StoreInv, Tables
<1> HIDE DEF e
<1>2. /\ KeepsColls(d, e) /\ IdsUnique(e) /\ HeldFiled(e) /\ Filed(e) = Filed(d)
      BY <1>1 DEF KeepsColls, StoreInv, IdsUnique, HeldFiled, Filed
<1>3. e.count = Counted(e)
      BY <1>1 DEF StoreInv, Counted
<1>4. Beside(d.items, e.items, {})
      BY <1>1 DEF Beside
<1>5. StoreInv(e)
  <2>1. {} \in SUBSET Places
        OBVIOUS
  <2> QED BY <1>1, <1>2, <1>3, <1>4, <2>1, StoreKept
<1> QED BY <1>1, <1>2, <1>5 DEF e


-----------------------------------------------------------------------------
(* The hub's merge: it names only bodies the row or the upsert named.      *)

Upserts ==
    [object : Objects, flags : BOOLEAN, base : Bases \cup {NoBase}, clash : Clashes,
     pulled : BOOLEAN]

(* The row's own columns name stored bodies.                               *)
OwnStored(row, st) ==
    row.object \in st \cup {NoBody} /\ row.clash \in st \cup {NoBody, NoClash}

(* What a verdict may leave of a row, and set aside.                       *)
Fine(v, row, st) ==
    /\ v.row \in Rows /\ v.row.state = row.state /\ v.row.flags = row.flags
    /\ v.row.bound = row.bound
    /\ OwnStored(v.row, st)
    /\ v.lost \in st \cup {NoBody}

(* A row that takes a body, and its conflict with it.                      *)
LEMMA TakenRow ==
    ASSUME NEW row \in Rows, NEW body \in Objects
    PROVE  LET new == Taken(row, body) IN
           /\ new \in Rows /\ new.state = row.state /\ new.flags = row.flags
           /\ new.bound = row.bound /\ new.object = body /\ new.clash = NoClash
BY DEF Taken, Rows, Clashes

(* A row that takes a body, nothing set aside but what was stored.         *)
LEMMA TakenFine ==
    ASSUME NEW row \in Rows, NEW st \in SUBSET Bodies,
           NEW body \in st \cup {NoBody}, NEW lost \in st \cup {NoBody}
    PROVE  /\ Fine(Verdict(Taken(row, body), lost), row, st)
           /\ Verdict(Taken(row, body), lost).row.object = body
<1> DEFINE new == Taken(row, body)
<1>1. body \in Objects
      BY DEF Objects
<1>2. /\ new \in Rows /\ new.state = row.state /\ new.flags = row.flags
      /\ new.bound = row.bound /\ new.object = body /\ new.clash = NoClash
      BY <1>1, TakenRow
<1> HIDE DEF new
<1>3. Verdict(new, lost).row = new /\ Verdict(new, lost).lost = lost
      BY DEF Verdict
<1>4. Fine(Verdict(new, lost), row, st) /\ Verdict(new, lost).row.object = body
      BY <1>2, <1>3 DEF Fine, OwnStored
<1> QED BY <1>4 DEF new

(* A row left as it was.                                                   *)
LEMMA SameFine ==
    ASSUME NEW row \in Rows, NEW st \in SUBSET Bodies, OwnStored(row, st)
    PROVE  Fine(Verdict(row, NoBody), row, st) /\ Verdict(row, NoBody).row = row
<1>1. Verdict(row, NoBody).row = row /\ Verdict(row, NoBody).lost = NoBody
      BY DEF Verdict
<1> QED BY <1>1 DEF Fine

(* A body that fills an emptied item.                                      *)
LEMMA FilledFine ==
    ASSUME NEW row \in Rows, NEW st \in SUBSET Bodies, OwnStored(row, st),
           NEW body \in st \cup {NoBody}, NEW policy
    PROVE  Fine(Filled(row, body, policy), row, st)
<1>1. CASE row.clash \notin Bodies \/ policy = "Manual"
  <2> DEFINE new == [row EXCEPT !.object = body]
  <2>1. body \in Objects
        BY DEF Objects
  <2>2. /\ new \in Rows /\ new.state = row.state /\ new.flags = row.flags
        /\ new.bound = row.bound /\ new.object = body /\ new.clash = row.clash
        BY <2>1 DEF Rows
  <2>3. Filled(row, body, policy) = Verdict(new, NoBody)
        BY <1>1 DEF Filled
  <2> HIDE DEF new
  <2>4. Verdict(new, NoBody).row = new /\ Verdict(new, NoBody).lost = NoBody
        BY DEF Verdict
  <2>5. Fine(Verdict(new, NoBody), row, st)
        BY <2>2, <2>4 DEF Fine, OwnStored
  <2> QED BY <2>3, <2>5
<1>2. CASE row.clash \in Bodies /\ policy # "Manual"
  <2>1. row.clash \in st
        BY <1>2, BodyAssumption DEF OwnStored
  <2>2. CASE policy = "PreferIncoming"
    <3>1. Filled(row, body, policy) = Verdict(Taken(row, row.clash), body)
          BY <1>2, <2>2 DEF Filled
    <3> QED BY <2>1, <3>1, TakenFine
  <2>3. CASE policy # "PreferIncoming"
    <3>1. Filled(row, body, policy) = Verdict(Taken(row, body), row.clash)
          BY <1>2, <2>3 DEF Filled
    <3> QED BY <2>1, <3>1, TakenFine
  <2> QED BY <2>2, <2>3
<1> QED BY <1>1, <1>2

(* A source and the item that both moved.                                  *)
LEMMA CrossedFine ==
    ASSUME NEW row \in Rows, NEW st \in SUBSET Bodies, OwnStored(row, st),
           NEW body \in st \cup {NoBody}, NEW policy
    PROVE  Fine(Crossed(row, body, policy), row, st)
<1>1. CASE NoBody \in {body, row.object} \/ policy = "Manual"
  <2> DEFINE new == [row EXCEPT !.clash = body]
  <2>1. body \in Clashes
        BY DEF Objects, Clashes
  <2>2. /\ new \in Rows /\ new.state = row.state /\ new.flags = row.flags
        /\ new.bound = row.bound /\ new.object = row.object /\ new.clash = body
        BY <2>1 DEF Rows
  <2>3. Crossed(row, body, policy) = Verdict(new, NoBody)
        BY <1>1 DEF Crossed
  <2> HIDE DEF new
  <2>4. Verdict(new, NoBody).row = new /\ Verdict(new, NoBody).lost = NoBody
        BY DEF Verdict
  <2>5. Fine(Verdict(new, NoBody), row, st)
        BY <2>2, <2>4 DEF Fine, OwnStored
  <2> QED BY <2>3, <2>5
<1>2. CASE ~(NoBody \in {body, row.object} \/ policy = "Manual")
  <2>1. row.object \in st \cup {NoBody}
        BY DEF OwnStored
  <2>2. CASE policy = "PreferIncoming"
    <3>1. Crossed(row, body, policy) = Verdict(Taken(row, body), row.object)
          BY <1>2, <2>2 DEF Crossed
    <3> QED BY <2>1, <3>1, TakenFine
  <2>3. CASE policy # "PreferIncoming"
    <3>1. Crossed(row, body, policy) = Verdict(Taken(row, row.object), body)
          BY <1>2, <2>3 DEF Crossed
    <3> QED BY <2>1, <3>1, TakenFine
  <2> QED BY <2>2, <2>3
<1> QED BY <1>1, <1>2

(* reconcile_content; a message's row keeps its body or takes the          *)
(* upsert's.                                                               *)
LEMMA ReconciledFine ==
    ASSUME NEW row \in Rows, NEW st \in SUBSET Bodies, OwnStored(row, st), NEW own,
           NEW up, up.object \in st \cup {NoBody}, NEW mutable \in BOOLEAN, NEW policy
    PROVE  LET v == Reconciled(row, own, up, mutable, policy) IN
           /\ Fine(v, row, st)
           /\ ~mutable => v.row.object \in {row.object, up.object}
<1> DEFINE prev == BaseBody(own)
           agreed == IF own.shared # NoBody THEN own.shared ELSE prev
           resolving == own.clash # NoClash /\ up.clash = NoClash
           edited == up.object # prev \/ resolving
           moved == row.object # agreed
           changed == up.object # row.object
           dropped == IF up.pulled /\ ~resolving /\ row.object # prev THEN row.object ELSE NoBody
           fills == up.object # NoBody /\ row.object = NoBody /\ prev = NoBody
           v == Reconciled(row, own, up, mutable, policy)
<1>1. /\ ~mutable => v = Verdict(IF edited /\ changed THEN Taken(row, up.object) ELSE row, NoBody)
      /\ mutable /\ fills => v = Filled(row, up.object, policy)
      /\ mutable /\ ~fills =>
            v = IF ~edited \/ ~changed THEN Verdict(row, NoBody)
                ELSE IF moved THEN Crossed(row, up.object, policy)
                ELSE Verdict(Taken(row, up.object), dropped)
      BY DEF Reconciled
<1>2. dropped \in st \cup {NoBody}
      BY DEF OwnStored
<1>3. /\ Fine(Verdict(row, NoBody), row, st) /\ Verdict(row, NoBody).row = row
      BY SameFine
<1>4. \A lost \in st \cup {NoBody} :
         /\ Fine(Verdict(Taken(row, up.object), lost), row, st)
         /\ Verdict(Taken(row, up.object), lost).row.object = up.object
      BY TakenFine
<1>5. Fine(Filled(row, up.object, policy), row, st) /\ Fine(Crossed(row, up.object, policy), row, st)
      BY FilledFine, CrossedFine
<1> HIDE DEF v, edited, changed, moved, dropped, fills
<1>6. CASE ~mutable
  <2>1. CASE edited /\ changed
        BY <1>1, <1>4, <1>6, <2>1 DEF v
  <2>2. CASE ~(edited /\ changed)
        BY <1>1, <1>3, <1>6, <2>2 DEF v
  <2> QED BY <2>1, <2>2
<1>7. CASE mutable
      BY <1>1, <1>2, <1>3, <1>4, <1>5, <1>7 DEF v
<1> QED BY <1>6, <1>7

(* A row with one of its bindings replaced.                                *)
Rebound(row, s, x) == [row EXCEPT !.bound[s] = x]

(* The replacement changes that binding alone.                             *)
LEMMA BoundRow ==
    ASSUME NEW row \in Rows, NEW s \in Sources, NEW x \in Bindings,
           NEW new, new = Rebound(row, s, x)
    PROVE  /\ new \in Rows /\ new.state = row.state /\ new.object = row.object
           /\ new.flags = row.flags /\ new.clash = row.clash
           /\ Binders(new) = Binders(row) \cup {s}
           /\ BasedBy(new) = IF x.base = NoBase THEN BasedBy(row) \ {s} ELSE BasedBy(row) \cup {s}
           /\ new.bound[s] = x /\ \A t \in Sources : t # s => new.bound[t] = row.bound[t]
<1> DEFINE bound == [row.bound EXCEPT ![s] = x]
<1>1. /\ bound \in [Sources -> Bindings \cup {NoBinding}]
      /\ bound[s] = x /\ \A t \in Sources : t # s => bound[t] = row.bound[t]
      BY DEF Rows
<1>2. new = [row EXCEPT !.bound = bound]
      BY DEF Rows, Rebound
<1> HIDE DEF bound
<1>3. /\ new \in Rows /\ new.state = row.state /\ new.object = row.object
      /\ new.flags = row.flags /\ new.clash = row.clash /\ new.bound = bound
      BY <1>1, <1>2 DEF Rows
<1>4. Binders(new) = Binders(row) \cup {s}
      BY <1>1, <1>3, NoneAssumption DEF Binders
<1>5. BasedBy(new) = IF x.base = NoBase THEN BasedBy(row) \ {s} ELSE BasedBy(row) \cup {s}
      BY <1>1, <1>3, <1>4 DEF BasedBy, Binders
<1> QED BY <1>1, <1>3, <1>4, <1>5

(* What absorb_upsert leaves: the item live, bound to the source, and      *)
(* naming bodies that are stored.                                          *)
AbsorbedWell(out, row, s, up, st, mutable) ==
    /\ out.row \in Rows /\ out.row.state = "live"
    /\ Binders(out.row) = Binders(row) \cup {s}
    /\ BasedBy(out.row) = IF up.base = NoBase THEN BasedBy(row) \ {s}
                          ELSE BasedBy(row) \cup {s}
    /\ StoredColumns(out.row, st)
    /\ out.lost \in st \cup {NoBody}
    /\ ~mutable => out.row.object \in {row.object, up.object}

(* absorb_upsert, of stored bodies, leaves the item well.                  *)
LEMMA AbsorbedRow ==
    ASSUME NEW row \in Rows, NEW s \in Sources, NEW up \in Upserts, NEW st \in SUBSET Bodies,
           StoredColumns(row, st), {up.object, up.clash, BaseBody(up)} \cap Bodies \subseteq st,
           NEW made, NEW mutable \in BOOLEAN, NEW policy
    PROVE  AbsorbedWell(Absorbed(row, s, up, made, mutable, policy), row, s, up, st, mutable)
<1> DEFINE own == OwnOf(row, s)
           flagged == [row EXCEPT !.state = "live", !.flags = up.flags]
           verdict == IF made = "edit" /\ row.clash # NoClash
                      THEN Verdict(Taken(flagged, up.object), NoBody)
                      ELSE Reconciled(flagged, own, up, mutable, policy)
           item == IF made = "overrule" /\ up.object # NoBody /\ up.object = verdict.row.object
                   THEN Taken(verdict.row, up.object) ELSE verdict.row
           shared == IF up.object # NoBody /\ item.clash = NoClash THEN item.object ELSE own.shared
           x == Binding(up.base, shared, up.clash)
           new == [item EXCEPT !.bound[s] = x]
<1>1. Absorbed(row, s, up, made, mutable, policy) = Verdict(new, verdict.lost)
      BY DEF Absorbed
<1>2. /\ up.object \in Objects /\ up.flags \in BOOLEAN /\ up.base \in Bases \cup {NoBase}
      /\ up.clash \in Clashes
      BY DEF Upserts
<1>3. /\ flagged \in Rows /\ flagged.state = "live" /\ flagged.object = row.object
      /\ flagged.clash = row.clash /\ flagged.bound = row.bound
      BY <1>2 DEF Rows
<1> HIDE DEF flagged
<1>4. up.object \in st \cup {NoBody}
      BY <1>2 DEF Objects
<1>5. OwnStored(flagged, st)
  <2>1. row.object \in Bodies \cup {NoBody} /\ row.clash \in Bodies \cup {NoBody, NoClash}
        BY DEF Rows, Objects, Clashes
  <2> QED BY <1>3, <2>1 DEF OwnStored, StoredColumns
<1>6. own.shared \in st \cup {NoBody}
  <2>1. CASE s \in Binders(row)
    <3>1. row.bound[s] \in Bindings /\ own = row.bound[s]
          BY <2>1 DEF OwnOf, Binders, Rows
    <3>2. own.shared \in Bodies \cup {NoBody}
          BY <3>1 DEF Bindings, Objects
    <3> HIDE DEF own
    <3> QED BY <2>1, <3>1, <3>2 DEF StoredColumns
  <2>2. CASE s \notin Binders(row)
        BY <2>2 DEF OwnOf, Binding
  <2> QED BY <2>1, <2>2
<1> HIDE DEF own
<1>7. /\ Fine(verdict, flagged, st)
      /\ ~mutable => verdict.row.object \in {row.object, up.object}
  <2>1. CASE made = "edit" /\ row.clash # NoClash
    <3>1. /\ Fine(Verdict(Taken(flagged, up.object), NoBody), flagged, st)
          /\ Verdict(Taken(flagged, up.object), NoBody).row.object = up.object
          BY <1>3, <1>4, TakenFine
    <3> QED BY <2>1, <3>1
  <2>2. CASE ~(made = "edit" /\ row.clash # NoClash)
    <3>1. /\ Fine(Reconciled(flagged, own, up, mutable, policy), flagged, st)
          /\ ~mutable => Reconciled(flagged, own, up, mutable, policy).row.object
                            \in {flagged.object, up.object}
          BY <1>3, <1>4, <1>5, ReconciledFine
    <3> QED BY <1>3, <2>2, <3>1
  <2> QED BY <2>1, <2>2
<1> HIDE DEF verdict
<1>8. /\ item \in Rows /\ item.state = "live" /\ item.bound = row.bound
      /\ OwnStored(item, st)
      /\ item.object = verdict.row.object
  <2>1. CASE made = "overrule" /\ up.object # NoBody /\ up.object = verdict.row.object
    <3> DEFINE t == Taken(verdict.row, up.object)
    <3>1. verdict.row \in Rows
          BY <1>7 DEF Fine
    <3>2. /\ t \in Rows /\ t.state = verdict.row.state
          /\ t.bound = verdict.row.bound /\ t.object = up.object /\ t.clash = NoClash
          BY <1>2, <3>1, TakenRow
    <3>3. item = t
          BY <2>1
    <3> HIDE DEF t, item
    <3> QED BY <1>3, <1>4, <1>7, <2>1, <3>2, <3>3 DEF Fine, OwnStored
  <2>2. CASE ~(made = "overrule" /\ up.object # NoBody /\ up.object = verdict.row.object)
    <3>1. item = verdict.row
          BY <2>2
    <3> HIDE DEF item
    <3> QED BY <1>3, <1>7, <3>1 DEF Fine
  <2> QED BY <2>1, <2>2
<1> HIDE DEF item
<1>9. shared \in st \cup {NoBody} /\ shared \in Objects
      BY <1>6, <1>8 DEF OwnStored, Objects
<1> HIDE DEF shared
<1>10. x \in Bindings /\ x.base = up.base /\ x.shared = shared /\ x.clash = up.clash
      BY <1>2, <1>9 DEF Binding, Bindings
<1> HIDE DEF x
<1>11. /\ new \in Rows /\ new.state = item.state /\ new.object = item.object
       /\ new.flags = item.flags /\ new.clash = item.clash
       /\ Binders(new) = Binders(item) \cup {s}
       /\ BasedBy(new) = IF x.base = NoBase THEN BasedBy(item) \ {s} ELSE BasedBy(item) \cup {s}
       /\ new.bound[s] = x /\ \A t \in Sources : t # s => new.bound[t] = item.bound[t]
  <2>1. item \in Rows /\ x \in Bindings
        BY <1>8, <1>10
  <2>2. new = Rebound(item, s, x)
        BY DEF Rebound
  <2> HIDE DEF new
  <2> QED BY <2>1, <2>2, BoundRow
<1> HIDE DEF new
<1>12. Binders(item) = Binders(row) /\ BasedBy(item) = BasedBy(row)
  <2>1. Binders(item) = Binders(row)
        BY <1>8 DEF Binders
  <2> QED BY <1>8, <2>1 DEF BasedBy
<1>13. StoredColumns(new, st)
  <2>1. Binders(row) \subseteq Sources /\ BasedBy(row) \subseteq Sources
        /\ BasedBy(row) \subseteq Binders(row)
        BY DEF Binders, BasedBy
  <2>2. /\ new.object \in Bodies => new.object \in st
        /\ new.clash \in Bodies => new.clash \in st
        BY <1>8, <1>11, BodyAssumption DEF OwnStored
  <2>3. x.shared \in Bodies => x.shared \in st
        BY <1>9, <1>10, BodyAssumption
  <2>4. x.clash \in Bodies => x.clash \in st
        BY <1>10
  <2>5. x.base # NoBase /\ x.base.object \in Bodies => x.base.object \in st
        BY <1>10 DEF BaseBody
  <2>6. \A t \in Binders(new) :
          /\ new.bound[t].shared \in Bodies => new.bound[t].shared \in st
          /\ new.bound[t].clash \in Bodies => new.bound[t].clash \in st
        BY <1>8, <1>11, <1>12, <2>1, <2>3, <2>4 DEF StoredColumns
  <2>7. \A t \in BasedBy(new) : new.bound[t].base.object \in Bodies => new.bound[t].base.object \in st
        BY <1>8, <1>11, <1>12, <2>1, <2>5 DEF StoredColumns
  <2> QED BY <2>2, <2>6, <2>7 DEF StoredColumns
<1>14. verdict.lost \in st \cup {NoBody}
       BY <1>7 DEF Fine
<1>15. Verdict(new, verdict.lost).row = new /\ Verdict(new, verdict.lost).lost = verdict.lost
       BY DEF Verdict
<1> QED BY <1>1, <1>7, <1>8, <1>10, <1>11, <1>12, <1>13, <1>14, <1>15 DEF AbsorbedWell


-----------------------------------------------------------------------------
(* A write: one upsert merged, saved, and the bodies it sets aside kept.   *)

(* keep_overruled puts each body at a place nothing held, retained.        *)
LEMMA KeptEffect ==
    ASSUME NEW d, StoreInv(d), NEW p \in Places, LinkKind[p[2]] # "file", Held(d.items[p]),
           NEW bodies \in SUBSET d.stored, Keys(d, p, bodies) # {}
    PROVE  LET e == Kept(d, p, bodies) IN
           /\ StoreInv(e)
           /\ e.items[p] = d.items[p]
           /\ \A q \in Places : \/ e.items[q] = d.items[q]
                                \/ ~Held(d.items[q]) /\ Retained(e.items[q])
<1> DEFINE key == CHOOSE key \in Keys(d, p, bodies) : TRUE
           at(b) == <<p[1], key[b]>>
           copy(b) == [Row(b, d.items[p].flags, Unbound) EXCEPT !.state = "retained"]
           its == [q \in Places |-> IF \E b \in bodies : q = at(b)
                                    THEN copy(CHOOSE b \in bodies : q = at(b)) ELSE d.items[q]]
           count == [b \in Bodies |-> IF b \in bodies THEN d.count[b] + 1 ELSE d.count[b]]
           e == [d EXCEPT !.items = its, !.count = count]
<1>1. Kept(d, p, bodies) = e
      BY DEF Kept
<1>2. /\ d \in Tables /\ bodies \subseteq Bodies
      /\ \A b \in Bodies : d.count[b] \in Int
      /\ d.items \in [Places -> Rows \cup {NoRow}]
      BY DEF StoreInv, Tables
<1>3. /\ \A b \in bodies : key[b] \in Free(d, p)
      /\ \A b, c \in bodies : key[b] = key[c] => b = c
      BY DEF Keys, Injection, IsInjective
<1>4. p[1] \in Collections /\ p[1] \in Filed(d) /\ KindOf[p[1]] = LinkKind[p[2]] /\ p[2] \in Links
      BY HeldRow DEF Places
<1>5. \A k \in Free(d, p) : /\ <<p[1], k>> \in Places /\ ~Held(d.items[<<p[1], k>>])
                            /\ LinkKind[k] # "file"
      BY <1>4, BareAssumption DEF Free, Places
<1>6. \A b \in bodies : /\ at(b) \in Places /\ ~Held(d.items[at(b)]) /\ at(b) # p
                        /\ LinkKind[at(b)[2]] # "file" /\ at(b)[1] = p[1]
      BY <1>3, <1>5
<1>7. \A b, c \in bodies : at(b) = at(c) => b = c
      BY <1>3
<1>8. ASSUME NEW b \in bodies
      PROVE  LET c == copy(b) IN
             /\ c \in Rows /\ Held(c) /\ Retained(c) /\ Binders(c) = {}
             /\ c.object = b /\ c.clash = NoClash
  <2> DEFINE r == Row(b, d.items[p].flags, Unbound)
             c == [r EXCEPT !.state = "retained"]
  <2>1. d.items[p].flags \in BOOLEAN
        BY HeldRow DEF Rows
  <2>2. Unbound \in [Sources -> Bindings \cup {NoBinding}]
        BY DEF Unbound
  <2>3. r \in Rows /\ r.object = b /\ r.clash = NoClash /\ r.bound = Unbound
        BY <1>2, <2>1, <2>2 DEF Row, Rows, Objects, Clashes
  <2> HIDE DEF r
  <2>4. /\ c \in Rows /\ c.object = b /\ c.clash = NoClash /\ c.bound = Unbound
        /\ c.state = "retained"
        BY <2>3 DEF Rows
  <2> HIDE DEF c
  <2>5. Binders(c) = {}
        BY <2>4 DEF Binders, Unbound
  <2>6. Held(c) /\ Retained(c)
        BY <2>4, NoneAssumption DEF Held, Retained
  <2> QED BY <2>4, <2>5, <2>6 DEF c, r
<1> HIDE DEF copy, at
<1>9. /\ \A b \in bodies : its[at(b)] = copy(b)
      /\ \A q \in Places : (\A b \in bodies : q # at(b)) => its[q] = d.items[q]
  <2>1. ASSUME NEW b \in bodies
        PROVE  its[at(b)] = copy(b)
    <3>1. (CHOOSE c \in bodies : at(b) = at(c)) = b
          BY <1>7
    <3> QED BY <1>6, <3>1
  <2> QED BY <2>1
<1>10. its \in [Places -> Rows \cup {NoRow}]
  <2>1. \A q \in Places : its[q] \in Rows \cup {NoRow}
        BY <1>2, <1>8, <1>9
  <2>2. its = [q \in Places |-> its[q]]
        OBVIOUS
  <2> HIDE DEF its
  <2> QED BY <2>1, <2>2
<1> HIDE DEF its
<1>11. /\ count \in [Bodies -> Int]
       /\ \A b \in Bodies : count[b] = IF b \in bodies THEN d.count[b] + 1 ELSE d.count[b]
       BY <1>2
<1> HIDE DEF count
<1>12. /\ e \in Tables /\ e.items = its /\ e.count = count /\ e.colls = d.colls
       /\ e.stored = d.stored /\ e.queue = d.queue
       BY <1>2, <1>10, <1>11 DEF Tables
<1> HIDE DEF e
<1>13. \A q \in Places : \/ e.items[q] = d.items[q]
                         \/ \E b \in bodies : q = at(b) /\ e.items[q] = copy(b)
       BY <1>9, <1>12
<1>14. \A q \in Places : RowWell(q, e.items[q]) /\ AllStored(e.items[q], e.stored)
  <2> SUFFICES ASSUME NEW q \in Places
               PROVE  RowWell(q, e.items[q]) /\ AllStored(e.items[q], e.stored)
        OBVIOUS
  <2>1. CASE e.items[q] = d.items[q]
        BY <1>12, <2>1 DEF StoreInv, RowsWell
  <2>2. ASSUME NEW b \in bodies, q = at(b), e.items[q] = copy(b)
        PROVE  RowWell(q, e.items[q]) /\ AllStored(e.items[q], e.stored)
    <3> DEFINE c == copy(b)
    <3>1. /\ c \in Rows /\ Binders(c) = {} /\ c.object = b /\ c.clash = NoClash
          BY <1>8
    <3> HIDE DEF c
    <3>2. StoredColumns(c, e.stored)
          BY <1>12, <3>1, BodyAssumption DEF StoredColumns, BasedBy
    <3>3. AllStored(c, e.stored) /\ RowWell(q, c)
          BY <3>1, <3>2, StoredIs DEF RowWell
    <3> QED BY <2>2, <3>3 DEF c
  <2> QED BY <1>13, <2>1, <2>2
<1>15. e.count = Counted(e)
  <2>1. ASSUME NEW b \in Bodies
        PROVE  e.count[b] = Counted(e)[b]
    <3> DEFINE P == Pointed(d.items, Places, b)
               R == Pointed(e.items, Places, b)
               Q == Cardinality(Queueing(d.queue, b))
               x == <<at(b), <<"item">> >>
    <3>1. ASSUME NEW c \in bodies, NEW k \in Columns
          PROVE  PointsTo(copy(c), k, b) <=> (c = b /\ k = <<"item">>)
      <4> DEFINE r == copy(c)
      <4>1. Held(r) /\ Binders(r) = {} /\ r.object = c /\ r.clash = NoClash
            BY <1>8
      <4> HIDE DEF r
      <4>2. CASE k = <<"item">>
            BY <4>1, <4>2 DEF PointsTo, r
      <4>3. CASE k = <<"clash">>
            BY <4>1, <4>3, BodyAssumption DEF PointsTo, r
      <4>4. CASE k \in {"base", "shared", "diverging"} \X Sources
        <5>1. k[1] \in {"base", "shared", "diverging"} /\ k # <<"item">>
              BY <4>4
        <5> QED BY <4>1, <5>1 DEF PointsTo, BasedBy, r
      <4> QED BY <4>2, <4>3, <4>4 DEF Columns, Own
    <3>2. \A q \in Places : ~Held(d.items[q]) => \A k \in Columns : ~PointsTo(d.items[q], k, b)
          BY DEF PointsTo
    <3>3. <<"item">> \in Columns
          BY DEF Columns, Own
    <3>4. \A q \in Places, k \in Columns :
             PointsTo(e.items[q], k, b)
                <=> PointsTo(d.items[q], k, b) \/ (b \in bodies /\ q = at(b) /\ k = <<"item">>)
      <4> SUFFICES ASSUME NEW q \in Places, NEW k \in Columns
                   PROVE  PointsTo(e.items[q], k, b)
                <=> PointsTo(d.items[q], k, b) \/ (b \in bodies /\ q = at(b) /\ k = <<"item">>)
            OBVIOUS
      <4>1. CASE \A c \in bodies : q # at(c)
            BY <1>9, <1>12, <4>1
      <4>2. ASSUME NEW c \in bodies, q = at(c)
            PROVE  PointsTo(e.items[q], k, b)
                <=> PointsTo(d.items[q], k, b) \/ (b \in bodies /\ q = at(b) /\ k = <<"item">>)
        <5>1. e.items[q] = copy(c) /\ ~Held(d.items[q])
              BY <1>6, <1>9, <1>12, <4>2
        <5>2. ~PointsTo(d.items[q], k, b)
              BY <3>2, <5>1
        <5>3. PointsTo(copy(c), k, b) <=> (c = b /\ k = <<"item">>)
              BY <3>1
        <5> QED BY <1>7, <4>2, <5>1, <5>2, <5>3
      <4> QED BY <4>1, <4>2
    <3>5. b \in bodies => R = P \cup {x} /\ x \notin P
      <4> SUFFICES ASSUME b \in bodies PROVE R = P \cup {x} /\ x \notin P
            OBVIOUS
      <4>1. at(b) \in Places /\ ~Held(d.items[at(b)])
            BY <1>6
      <4>2. R = P \cup {x}
            BY <3>3, <3>4, <4>1 DEF Pointed
      <4>3. x \notin P
            BY <3>2, <3>3, <4>1 DEF Pointed
      <4> QED BY <4>2, <4>3
    <3>6. b \notin bodies => R = P
          BY <3>4 DEF Pointed
    <3>7. IsFiniteSet(P) /\ Cardinality(P) \in Nat
          BY FinitePointed
    <3>8. d.count[b] = Cardinality(P) + Q /\ Counted(e)[b] = Cardinality(R) + Q
          BY <1>12, CountedIs DEF StoreInv
    <3>9. d.count[b] \in Int /\ e.count[b] = IF b \in bodies THEN d.count[b] + 1 ELSE d.count[b]
          BY <1>2, <1>11, <1>12
    <3>10. Q \in Nat
      <4>1. d.queue \in Seq(QueueRows)
            BY <1>2 DEF Tables
      <4>2. Queueing(d.queue, b) \in SUBSET (1 .. Len(d.queue))
            BY <4>1 DEF Queueing
      <4>3. IsFiniteSet(1 .. Len(d.queue))
            BY <4>1, FS_Interval
      <4> QED BY <4>2, <4>3, FS_Subset, FS_CardinalityType
    <3> HIDE DEF P, R, Q, x
    <3>11. b \in bodies => Cardinality(R) = Cardinality(P) + 1
           BY <3>5, <3>7, FS_AddElement
    <3> QED BY <3>6, <3>7, <3>8, <3>9, <3>10, <3>11
  <2>2. e.count = [b \in Bodies |-> e.count[b]] /\ Counted(e) = [b \in Bodies |-> Counted(e)[b]]
        BY <1>12 DEF Tables, Counted
  <2> QED BY <2>1, <2>2
<1>16. /\ KeepsColls(d, e) /\ IdsUnique(e) /\ Filed(e) = Filed(d)
       BY <1>12 DEF KeepsColls, StoreInv, IdsUnique, Filed
<1>17. HeldFiled(e)
       BY <1>4, <1>6, <1>13, <1>16 DEF StoreInv, HeldFiled
<1>18. StoreInv(e)
  <2>1. Places \in SUBSET Places /\ Beside(d.items, e.items, Places)
        BY DEF Beside
  <2> QED BY <1>12, <1>14, <1>15, <1>16, <1>17, <2>1, StoreKept
<1>19. e.items[p] = d.items[p]
       BY <1>6, <1>13
<1>20. \A q \in Places : \/ e.items[q] = d.items[q]
                         \/ ~Held(d.items[q]) /\ Retained(e.items[q])
       BY <1>6, <1>8, <1>13
<1> QED BY <1>1, <1>18, <1>19, <1>20

(* A step of one row, other rows kept or made as retained copies.          *)
LEMMA RowStep ==
    ASSUME RetentionInv, StoreInv(db'), NEW p \in Mails \cup Events,
           \A q \in Mails \cup Events : q # p =>
              \/ db'.items[q] = db.items[q]
              \/ ~Held(db.items[q]) /\ (~Held(db'.items[q]) \/ Retained(db'.items[q])),
           NEW new, owed' = Owing(p, new), Owes(p, new) => Owes(p, db'.items[p]),
           \A q \in Mails : q # p /\ q \in bare => q \in bare',
           p \in Mails /\ Live(db'.items[p]) /\ Bodiless(db'.items[p]) => p \in bare',
           bare' \subseteq Mails, flight' \in [at : Mails, source : Sources] \cup {NoVerb},
           forgotten' \subseteq Links
    PROVE  RetentionInv'
<1>1. owed \subseteq Mails \cup Events /\ OwedInv /\ BareInv
      BY DEF RetentionInv, TypeOK
<1>2. owed' \subseteq owed \cup {p} /\ (p \in owed' => Owes(p, new))
      BY DEF Owing
<1>3. ASSUME NEW q \in owed' PROVE Owes(q, db'.items[q])
  <2>1. CASE q = p
        BY <1>2, <2>1
  <2>2. CASE q # p
    <3>1. q \in owed /\ q \in Mails \cup Events
          BY <1>1, <1>2, <2>2
    <3>2. Owes(q, db.items[q])
          BY <1>1, <3>1 DEF OwedInv
    <3>3. Held(db.items[q])
          BY <3>2 DEF Owes
    <3> QED BY <2>2, <3>1, <3>2, <3>3
  <2> QED BY <2>1, <2>2
<1>4. BareInv'
  <2> SUFFICES ASSUME NEW q \in Mails, Live(db'.items[q]), Bodiless(db'.items[q])
               PROVE  q \in bare'
        BY DEF BareInv
  <2>1. CASE q = p
        BY <2>1
  <2>2. CASE q # p
    <3>1. db'.items[q] = db.items[q]
          BY <2>2 DEF Live, Retained
    <3>2. q \in bare
          BY <1>1, <3>1 DEF BareInv
    <3> QED BY <2>2, <3>2
  <2> QED BY <2>1, <2>2
<1>5. OwedInv'
      BY <1>3 DEF OwedInv
<1>6. TypeOK'
      BY <1>1, <1>2 DEF TypeOK, StoreInv
<1> QED BY <1>4, <1>5, <1>6 DEF RetentionInv

(* What a write of a message leaves to fetch its body from: a base, or the *)
(* body, or what it had; a drain's landing is told apart.                  *)
Fetchable(p, row, s, up, made) ==
    \/ made = "landing" \/ up.base # NoBase
    \/ up.object # NoBody /\ row.object # NoBody
    \/ /\ row = db.items[p] /\ Live(row) /\ up.object = row.object
       /\ up.base = OwnOf(row, s).base

(* One upsert written keeps the invariant.                                 *)
LEMMA WriteStep ==
    ASSUME RetentionInv, NEW d, StoreInv(d), d.items = db.items,
           NEW p \in Mails \cup Events, p[1] \in Filed(d),
           NEW row \in Rows, NEW s \in Sources, NEW up \in Upserts, NEW made, NEW policy,
           StoredColumns(row, d.stored \cup ({up.object} \cap Bodies)),
           p \in Mails => Fetchable(p, row, s, up, made),
           p \in Events => made # "landing",
           Write(d, p, row, s, up, made, policy),
           flight' \in [at : Mails, source : Sources] \cup {NoVerb}, forgotten' \subseteq Links
    PROVE  RetentionInv'
<1> DEFINE bodies == {up.object, up.clash, BaseBody(up)}
           c == Stored(d, bodies)
           mutable == p \in Events /\ (up.base # NoBase \/ BasedBy(row) # {})
           out == Merged(p, row, s, up, made, policy)
           saved == Saved(c, p, out.row)
           revived == IF Retained(d.items[p]) /\ p \in Events /\ up.object = NoBody
                      THEN {d.items[p].object} ELSE {}
           kept == (Overruled(row, s, up, made) \cup revived \cup {out.lost}) \ {NoBody}
           e == Kept(saved, p, kept)
<1>1. /\ Keys(saved, p, kept) # {} /\ db' = e /\ owed' = Owing(p, out.row)
      /\ bare' = IF ~Bodiless(db'.items[p]) THEN bare \ {p}
                 ELSE IF made = "landing" THEN bare \cup {p} ELSE bare
      BY DEF Write
<1>2. p \in Places /\ LinkKind[p[2]] # "file" /\ (p \in Mails => p \notin Events)
      BY DEF Mails, Events
<1>3. /\ StoreInv(c) /\ c.items = d.items /\ Filed(c) = Filed(d)
      /\ c.stored = d.stored \cup (bodies \cap Bodies)
      BY StoredKeeps
<1>4. d.stored \subseteq Bodies /\ c.stored \subseteq Bodies
      BY <1>3 DEF StoreInv, Tables
<1> HIDE DEF c
<1>5. StoredColumns(row, c.stored) /\ bodies \cap Bodies \subseteq c.stored
      BY <1>3 DEF StoredColumns
<1>6. /\ out.row \in Rows /\ out.row.state = "live"
      /\ Binders(out.row) = Binders(row) \cup {s}
      /\ BasedBy(out.row) = IF up.base = NoBase THEN BasedBy(row) \ {s}
                            ELSE BasedBy(row) \cup {s}
      /\ StoredColumns(out.row, c.stored)
      /\ out.lost \in c.stored \cup {NoBody}
      /\ ~mutable => out.row.object \in {row.object, up.object}
  <2> DEFINE o == Absorbed(row, s, up, made, mutable, policy)
  <2>1. mutable \in BOOLEAN /\ out = o
        BY DEF Merged
  <2> HIDE DEF mutable, out
  <2>2. /\ o.row \in Rows /\ o.row.state = "live"
        /\ Binders(o.row) = Binders(row) \cup {s}
        /\ BasedBy(o.row) = IF up.base = NoBase THEN BasedBy(row) \ {s}
                            ELSE BasedBy(row) \cup {s}
        /\ StoredColumns(o.row, c.stored)
        /\ o.lost \in c.stored \cup {NoBody}
        /\ ~mutable => o.row.object \in {row.object, up.object}
    <3>1. c.stored \in SUBSET Bodies /\ {up.object, up.clash, BaseBody(up)} \cap Bodies \subseteq c.stored
          BY <1>4, <1>5
    <3>2. StoredColumns(row, c.stored) /\ mutable \in BOOLEAN
          BY <1>5, <2>1
    <3> HIDE DEF bodies
    <3>3. AbsorbedWell(o, row, s, up, c.stored, mutable)
          BY <3>1, <3>2, AbsorbedRow
    <3> HIDE DEF o
    <3> QED BY <3>3 DEF AbsorbedWell
  <2> QED BY <2>1, <2>2
<1> HIDE DEF out
<1>7. Writable(c, out.row)
      BY <1>6 DEF Writable
<1>8. /\ StoreInv(saved) /\ SameStore(c, saved)
      /\ \A q \in Places : LinkKind[q[2]] # "file" /\ q # p => saved.items[q] = c.items[q]
      /\ IF Retires(c, p, out.row)
         THEN ~Held(saved.items[p]) \/ Retained(saved.items[p])
         ELSE saved.items[p] = Placed(c, p, out.row)
      BY <1>2, <1>3, <1>7, SavedKeeps
<1> DEFINE placed == Placed(c, p, out.row)
<1>9. /\ placed \in Rows /\ Alike(placed, out.row)
      /\ out.row.object # NoBody => placed.object = out.row.object
      /\ KindOf[p[1]] # "mail" => placed = out.row
      BY <1>2, <1>3, <1>7, PlacedRow
<1>10. saved.items[p] = placed
  <2>1. Binders(placed) # {}
        BY <1>6, <1>9 DEF Alike
  <2> QED BY <1>8, <2>1 DEF Retires
<1> HIDE DEF placed
<1>11. Held(placed)
       BY <1>9, NoneAssumption DEF Held
<1>12. kept \in SUBSET saved.stored
  <2>1. saved.stored = c.stored
        BY <1>8 DEF SameStore
  <2>2. Overruled(row, s, up, made) \subseteq c.stored \cup {NoBody}
    <3>1. row.clash \in Bodies \cup {NoBody, NoClash}
          BY DEF Rows, Clashes, Objects
    <3>2. row.clash \in c.stored \cup {NoBody, NoClash}
          BY <1>5, <3>1 DEF StoredColumns
    <3>3. OwnOf(row, s).clash \in c.stored \cup {NoBody, NoClash}
      <4>1. CASE s \in Binders(row)
        <5>1. row.bound[s] \in Bindings /\ OwnOf(row, s) = row.bound[s]
              BY <4>1 DEF OwnOf, Binders, Rows
        <5>2. row.bound[s].clash \in Bodies \cup {NoBody, NoClash}
              BY <5>1 DEF Bindings, Clashes, Objects
        <5> QED BY <1>5, <4>1, <5>1, <5>2 DEF StoredColumns
      <4>2. CASE s \notin Binders(row)
            BY <4>2 DEF OwnOf, Binding
      <4> QED BY <4>1, <4>2
    <3> QED BY <3>2, <3>3 DEF Overruled
  <2>3. revived \subseteq c.stored \cup {NoBody}
    <3>1. CASE Retained(d.items[p])
      <4>1. Held(c.items[p])
            BY <1>3, <3>1 DEF Retained
      <4>2. c.items[p] \in Rows /\ StoredColumns(c.items[p], c.stored)
            BY <1>2, <1>3, <4>1, HeldRow
      <4> QED BY <1>3, <4>2 DEF StoredColumns, Rows, Objects
    <3>2. CASE ~Retained(d.items[p])
          BY <3>2
    <3> QED BY <3>1, <3>2
  <2> HIDE DEF revived
  <2> QED BY <1>6, <2>1, <2>2, <2>3
<1> HIDE DEF kept, saved
<1>13. /\ StoreInv(e) /\ e.items[p] = placed
       /\ \A q \in Places : \/ e.items[q] = saved.items[q]
                            \/ ~Held(saved.items[q]) /\ Retained(e.items[q])
  <2>1. Held(saved.items[p])
        BY <1>10, <1>11
  <2> QED BY <1>1, <1>2, <1>8, <1>10, <1>12, <2>1, KeptEffect
<1> HIDE DEF e
<1>14. \A q \in Mails \cup Events : q # p =>
          \/ db'.items[q] = db.items[q]
          \/ ~Held(db.items[q]) /\ (~Held(db'.items[q]) \/ Retained(db'.items[q]))
  <2>1. \A q \in Mails \cup Events : q \in Places /\ LinkKind[q[2]] # "file"
        BY DEF Mails, Events
  <2> QED BY <1>1, <1>3, <1>8, <1>13, <2>1
<1>15. Owes(p, out.row) => Owes(p, db'.items[p])
  <2>1. CASE p \in Mails
        BY <1>1, <1>6, <1>9, <1>13, <2>1, AlikeOwes
  <2>2. CASE p \in Events
    <3>1. KindOf[p[1]] # "mail"
          BY <2>2 DEF Events, Places
    <3> QED BY <1>1, <1>9, <1>13, <3>1
  <2> QED BY <2>1, <2>2
<1>16. p \in Mails /\ Live(db'.items[p]) /\ Bodiless(db'.items[p]) => p \in bare'
  <2> SUFFICES ASSUME p \in Mails, Bodiless(db'.items[p])
               PROVE  p \in bare'
        OBVIOUS
  <2>1. db'.items[p] = placed /\ placed.object = NoBody /\ BasedBy(out.row) = {}
        BY <1>1, <1>9, <1>13 DEF Bodiless, Alike
  <2>2. CASE made = "landing"
        BY <1>1, <2>2
  <2>3. CASE made # "landing"
    <3>1. bare' = bare
          BY <1>1, <2>3
    <3>2. out.row.object = NoBody /\ out.row.object \in {row.object, up.object}
          BY <1>2, <1>6, <1>9, <2>1
    <3>3. up.base = NoBase
          BY <1>6, <2>1
    <3>4. /\ row = db.items[p] /\ Live(row) /\ up.object = row.object
          /\ up.base = OwnOf(row, s).base
          BY <2>3, <3>2, <3>3 DEF Fetchable
    <3>5. s \notin BasedBy(row)
          BY <3>3, <3>4 DEF OwnOf, BasedBy
    <3>6. Bodiless(row)
          BY <1>6, <2>1, <3>2, <3>3, <3>4, <3>5 DEF Bodiless, Live
    <3> QED BY <3>1, <3>4, <3>6 DEF RetentionInv, BareInv
  <2> QED BY <2>2, <2>3
<1>17. /\ bare' \subseteq Mails
       /\ \A q \in Mails : q # p /\ q \in bare => q \in bare'
  <2>1. bare \subseteq Mails
        BY DEF RetentionInv, TypeOK
  <2> QED BY <1>1, <2>1
<1>18. StoreInv(db')
       BY <1>1, <1>13
<1> QED BY <1>1, <1>14, <1>15, <1>16, <1>17, <1>18, RowStep


-----------------------------------------------------------------------------
(* The syncs, the upgrades and the edits.                                  *)

(* A row as insert_item leaves it is well formed.                          *)
LEMMA NewRow ==
    ASSUME NEW object \in Objects, NEW flags \in BOOLEAN
    PROVE  LET row == Row(object, flags, Unbound) IN
           /\ row \in Rows /\ row.state = "live" /\ row.object = object /\ row.flags = flags
           /\ row.clash = NoClash /\ row.bound = Unbound
           /\ Binders(row) = {} /\ BasedBy(row) = {}
<1> DEFINE row == Row(object, flags, Unbound)
<1>1. Unbound \in [Sources -> Bindings \cup {NoBinding}]
      BY DEF Unbound
<1>2. row \in Rows
      BY <1>1 DEF Row, Rows, Clashes
<1>3. /\ row.state = "live" /\ row.object = object /\ row.flags = flags
      /\ row.clash = NoClash /\ row.bound = Unbound
      BY DEF Row
<1>4. Binders(row) = {} /\ BasedBy(row) = {}
      BY <1>3 DEF Binders, BasedBy, Unbound
<1> QED BY <1>2, <1>3, <1>4

(* The binding an upsert meets is of the type.                             *)
LEMMA OwnType ==
    ASSUME NEW row \in Rows, NEW s \in Sources
    PROVE  /\ OwnOf(row, s) \in Bindings
           /\ OwnOf(row, s).base \in Bases \cup {NoBase} /\ OwnOf(row, s).shared \in Objects
           /\ OwnOf(row, s).clash \in Clashes
           /\ s \in Binders(row) => OwnOf(row, s) = row.bound[s]
           /\ row.object \in Objects /\ row.flags \in BOOLEAN /\ row.clash \in Clashes
<1>1. OwnOf(row, s) \in Bindings
  <2>1. CASE s \in Binders(row)
        BY <2>1 DEF OwnOf, Binders, Rows
  <2>2. CASE s \notin Binders(row)
        BY <2>2 DEF OwnOf, Binding, Bindings, Objects, Clashes
  <2> QED BY <2>1, <2>2
<1>2. /\ OwnOf(row, s).base \in Bases \cup {NoBase} /\ OwnOf(row, s).shared \in Objects
      /\ OwnOf(row, s).clash \in Clashes
      BY <1>1 DEF Bindings
<1> QED BY <1>1, <1>2 DEF OwnOf, Rows

(* A base of the parts' types is one, and not the lack of one.             *)
LEMMA BasedType ==
    ASSUME NEW object \in Objects, NEW flags \in BOOLEAN
    PROVE  /\ Based(object, flags) \in Bases /\ Based(object, flags) # NoBase
           /\ Based(object, flags).object = object
<1>1. Based(object, flags) \in Bases /\ Based(object, flags).object = object
      BY DEF Based, Bases
<1> QED BY <1>1, NoneAssumption

(* The base a decision leaves is of the type.                              *)
LEMMA DecidedType ==
    ASSUME NEW row \in Rows, NEW own \in Bindings
    PROVE  /\ Decided(row, own) \in Bases \cup {NoBase}
           /\ \A body \in Objects : BaseOf(row, own, body) \in Bases /\ BaseOf(row, own, body) # NoBase
<1>1. /\ own.base \in Bases \cup {NoBase} /\ own.clash \in Objects \cup {NoClash}
      /\ row.flags \in BOOLEAN
      BY DEF Bindings, Rows, Clashes
<1>2. (IF own.base = NoBase THEN row.flags ELSE own.base.flags) \in BOOLEAN
      BY <1>1 DEF Bases
<1>3. \A body \in Objects : BaseOf(row, own, body) \in Bases /\ BaseOf(row, own, body) # NoBase
      BY <1>2, BasedType DEF BaseOf
<1>4. own.clash # NoClash => own.clash \in Objects
      BY <1>1
<1> QED BY <1>1, <1>3, <1>4 DEF Decided

(* The item an upsert meets is well formed.                                *)
LEMMA ItemRow ==
    ASSUME StoreInv(db), NEW p \in Places, NEW up \in Upserts
    PROVE  /\ Item(p, up) \in Rows
           /\ StoredColumns(Item(p, up), db.stored \cup ({up.object} \cap Bodies))
<1>1. up.object \in Objects /\ up.flags \in BOOLEAN
      BY DEF Upserts
<1>2. CASE Held(db.items[p]) /\ ~Retained(db.items[p])
  <2>1. db.items[p] \in Rows /\ StoredColumns(db.items[p], db.stored)
        BY <1>2, HeldRow
  <2> QED BY <1>2, <2>1 DEF Item, StoredColumns
<1>3. CASE ~(Held(db.items[p]) /\ ~Retained(db.items[p]))
  <2> DEFINE row == Row(up.object, up.flags, Unbound)
  <2>1. /\ row \in Rows /\ row.object = up.object /\ row.clash = NoClash
        /\ Binders(row) = {} /\ BasedBy(row) = {}
        BY <1>1, NewRow
  <2>2. Item(p, up) = row
        BY <1>3 DEF Item
  <2> HIDE DEF row
  <2>3. StoredColumns(row, db.stored \cup ({up.object} \cap Bodies))
        BY <2>1, BodyAssumption DEF StoredColumns
  <2> QED BY <2>1, <2>2, <2>3
<1> QED BY <1>2, <1>3

(* The upsert of a sync keeps the invariant.                               *)
LEMMA SyncStep ==
    ASSUME RetentionInv, NEW p \in Mails \cup Events, p[1] \in Filed(db), NEW s \in Sources,
           NEW up \in Upserts, NEW policy, Sync(p, s, up, policy),
           p \in Mails => Fetchable(p, Item(p, up), s, up, "sync")
    PROVE  RetentionInv'
<1>1. /\ StoreInv(db) /\ p \in Places
      /\ flight \in [at : Mails, source : Sources] \cup {NoVerb} /\ forgotten \subseteq Links
      BY DEF RetentionInv, TypeOK, Mails, Events
<1>2. /\ Write(db, p, Item(p, up), s, up, "sync", policy)
      /\ UNCHANGED <<flight, forgotten>>
      BY DEF Sync
<1>3. /\ Item(p, up) \in Rows
      /\ StoredColumns(Item(p, up), db.stored \cup ({up.object} \cap Bodies))
      BY <1>1, ItemRow
<1> DEFINE row == Item(p, up)
<1> HIDE DEF row
<1>4. /\ row \in Rows /\ StoredColumns(row, db.stored \cup ({up.object} \cap Bodies))
      /\ Write(db, p, row, s, up, "sync", policy)
      /\ p \in Mails => Fetchable(p, row, s, up, "sync")
      BY <1>2, <1>3 DEF row
<1>5. db.items = db.items /\ "sync" # "landing"
      OBVIOUS
<1>6. /\ flight' \in [at : Mails, source : Sources] \cup {NoVerb} /\ forgotten' \subseteq Links
      BY <1>1, <1>2
<1> QED BY <1>1, <1>4, <1>5, <1>6, WriteStep

(* What an action knows of a row that is shown.                            *)
LEMMA ShownRow ==
    ASSUME RetentionInv, NEW p \in Mails \cup Events, NEW s \in Sources,
           Held(db.items[p]), ~Retained(db.items[p])
    PROVE  LET row == db.items[p] IN
           /\ p \in Places /\ StoreInv(db) /\ p[1] \in Filed(db) /\ row \in Rows
           /\ StoredColumns(row, db.stored)
           /\ \A up : Item(p, up) = row
           /\ row.object \in Objects /\ row.flags \in BOOLEAN /\ row.clash \in Clashes
           /\ OwnOf(row, s) \in Bindings
           /\ OwnOf(row, s).base \in Bases \cup {NoBase} /\ OwnOf(row, s).clash \in Clashes
           /\ s \in Binders(row) => OwnOf(row, s) = row.bound[s]
<1>1. p \in Places /\ StoreInv(db)
      BY DEF Mails, Events, RetentionInv
<1>2. db.items[p] \in Rows /\ p[1] \in Filed(db) /\ StoredColumns(db.items[p], db.stored)
      BY <1>1, HeldRow
<1>3. \A up : Item(p, up) = db.items[p]
      BY DEF Item
<1>4. /\ OwnOf(db.items[p], s) \in Bindings
      /\ OwnOf(db.items[p], s).base \in Bases \cup {NoBase}
      /\ OwnOf(db.items[p], s).clash \in Clashes
      /\ s \in Binders(db.items[p]) => OwnOf(db.items[p], s) = db.items[p].bound[s]
      /\ db.items[p].object \in Objects /\ db.items[p].flags \in BOOLEAN
      /\ db.items[p].clash \in Clashes
      BY <1>2, OwnType
<1> QED BY <1>1, <1>2, <1>3, <1>4

(* A listed member is placed with its base.                                *)
LEMMA ListMemberStep ==
    ASSUME RetentionInv, NEW p \in Mails \cup Events, NEW s \in Sources, ListMember(p, s)
    PROVE  RetentionInv'
<1> DEFINE row == db.items[p]
           flags == Held(row) /\ ~Retained(row) /\ row.flags
           base == Based(NoBody, flags)
           up == Upsert(NoBody, flags, base, NoClash, TRUE)
<1>1. p[1] \in Filed(db) /\ Sync(p, s, up, "Manual")
      BY DEF ListMember
<1>2. flags \in BOOLEAN /\ NoBody \in Objects /\ NoClash \in Clashes
      BY DEF Objects, Clashes
<1> HIDE DEF flags
<1>3. base \in Bases /\ base # NoBase
      BY <1>2, BasedType
<1> HIDE DEF base
<1>4. up \in Upserts /\ up.base = base
      BY <1>2, <1>3 DEF Upsert, Upserts
<1> HIDE DEF up
<1>5. Fetchable(p, Item(p, up), s, up, "sync")
      BY <1>3, <1>4 DEF Fetchable
<1> QED BY <1>1, <1>4, <1>5, SyncStep

(* A flag edit is owed until a push.                                       *)
LEMMA SetFlagsStep ==
    ASSUME RetentionInv, NEW p \in Mails, NEW s \in Sources, SetFlags(p, s)
    PROVE  RetentionInv'
<1> DEFINE row == db.items[p]
           own == row.bound[s]
           up == Upsert(row.object, ~row.flags, own.base, own.clash, FALSE)
<1>1. Live(row) /\ s \in Binders(row) /\ Sync(p, s, up, "Manual") /\ p \in Mails \cup Events
      BY DEF SetFlags
<1>2. Held(row) /\ ~Retained(row)
      BY <1>1 DEF Live, Retained
<1>3. /\ p[1] \in Filed(db) /\ \A u : Item(p, u) = row
      /\ row.object \in Objects /\ own.base \in Bases \cup {NoBase} /\ own.clash \in Clashes
      /\ OwnOf(row, s) = own
      BY <1>1, <1>2, ShownRow
<1>4. (~row.flags) \in BOOLEAN
      OBVIOUS
<1> HIDE DEF row, own
<1>5. up \in Upserts /\ up.base = own.base /\ up.object = row.object
      BY <1>3, <1>4 DEF Upsert, Upserts
<1> HIDE DEF up
<1>6. Fetchable(p, Item(p, up), s, up, "sync")
      BY <1>1, <1>3, <1>5 DEF Fetchable, row
<1> QED BY <1>1, <1>3, <1>5, <1>6, SyncStep

(* A push settles the base.                                                *)
LEMMA PushStep ==
    ASSUME RetentionInv, NEW p \in Mails \cup Events, NEW s \in Sources, Push(p, s)
    PROVE  RetentionInv'
<1> DEFINE row == db.items[p]
           own == OwnOf(row, s)
           creates == /\ own.base = NoBase /\ own.clash = NoClash /\ row.clash = NoClash
                      /\ row.object # NoBody \/ Origins(p, s) # {}
           base == IF creates THEN Based(row.object, row.flags)
                   ELSE [own.base EXCEPT !.flags = row.flags]
           up == Upsert(row.object, row.flags, base, own.clash, FALSE)
<1>1. /\ Seen(row, s) /\ Sync(p, s, up, "Manual")
      /\ creates \/ own.base # NoBase
      BY DEF Push
<1>2. Held(row) /\ ~Retained(row)
      BY <1>1 DEF Seen, Live, Retained
<1>3. /\ p[1] \in Filed(db) /\ row.object \in Objects /\ row.flags \in BOOLEAN
      /\ own.base \in Bases \cup {NoBase} /\ own.clash \in Clashes
      BY <1>2, ShownRow
<1> HIDE DEF row, own, creates
<1>4. base \in Bases /\ base # NoBase
  <2>1. CASE creates
        BY <1>3, <2>1, BasedType
  <2>2. CASE ~creates
    <3>1. own.base \in Bases
          BY <1>1, <1>3, <2>2
    <3>2. [own.base EXCEPT !.flags = row.flags] \in Bases
          BY <1>3, <3>1 DEF Bases
    <3> QED BY <2>2, <3>2, NoneAssumption
  <2> QED BY <2>1, <2>2
<1> HIDE DEF base
<1>5. up \in Upserts /\ up.base = base
      BY <1>3, <1>4 DEF Upsert, Upserts
<1> HIDE DEF up
<1>6. Fetchable(p, Item(p, up), s, up, "sync")
      BY <1>4, <1>5 DEF Fetchable
<1> QED BY <1>1, <1>3, <1>5, <1>6, SyncStep

(* A vanished member's row is to be created again.                         *)
LEMMA ResurrectStep ==
    ASSUME RetentionInv, NEW p \in Mails \cup Events, NEW s \in Sources, Resurrect(p, s)
    PROVE  RetentionInv'
<1> DEFINE row == db.items[p]
           up == Upsert(row.object, row.flags, NoBase, NoClash, FALSE)
<1>1. Held(row) /\ ~Retained(row) /\ row.object # NoBody /\ Sync(p, s, up, "Manual")
      BY DEF Resurrect, Shown, Differs
<1>2. /\ p[1] \in Filed(db) /\ row.object \in Objects /\ row.flags \in BOOLEAN
      /\ \A u : Item(p, u) = row
      BY <1>1, ShownRow
<1> HIDE DEF row
<1>3. up \in Upserts /\ up.object = row.object
      BY <1>2 DEF Upsert, Upserts, Clashes
<1> HIDE DEF up
<1>4. Fetchable(p, Item(p, up), s, up, "sync")
      BY <1>1, <1>2, <1>3 DEF Fetchable
<1> QED BY <1>1, <1>2, <1>3, <1>4, SyncStep

(* A fetched body lands in the row and under its base.                     *)
LEMMA LandUpgradeStep ==
    ASSUME RetentionInv, LandUpgrade
    PROVE  RetentionInv'
<1> DEFINE p == flight.at
           s == flight.source
           row == db.items[p]
           body == ServerBody[p[2]]
           base == Based(body, row.bound[s].base.flags)
           up == Upsert(body, row.flags, base, NoClash, FALSE)
           lands == Live(row) /\ s \in BasedBy(row)
<1>1. /\ flight # NoVerb /\ flight' = NoVerb /\ forgotten' = forgotten
      /\ IF lands THEN Write(db, p, row, s, up, "sync", "Manual") ELSE UNCHANGED <<db, owed, bare>>
      BY DEF LandUpgrade
<1>2. /\ p \in Mails /\ s \in Sources /\ p[2] \in Links /\ LinkKind[p[2]] = "mail"
      /\ forgotten \subseteq Links
      BY <1>1 DEF RetentionInv, TypeOK, Mails, Places
<1>3. CASE ~lands
      BY <1>1, <1>3 DEF RetentionInv, TypeOK, OwedInv, BareInv
<1>4. CASE lands
  <2>1. Held(row) /\ ~Retained(row) /\ s \in Binders(row) /\ row.bound[s].base # NoBase
        BY <1>4 DEF Live, Retained, BasedBy
  <2>2. p \in Mails \cup Events /\ (p \in Events => "sync" # "landing")
        BY <1>2
  <2> HIDE DEF p, s
  <2>3. /\ p[1] \in Filed(db) /\ row \in Rows /\ StoredColumns(row, db.stored) /\ StoreInv(db)
        /\ row.flags \in BOOLEAN /\ row.bound[s].base \in Bases \cup {NoBase}
        BY <1>2, <2>1, <2>2, ShownRow
  <2>4. body \in Objects
        BY <1>2, BodyAssumption DEF Objects
  <2>5. row.bound[s].base.flags \in BOOLEAN
        BY <2>1, <2>3 DEF Bases
  <2> HIDE DEF row, body
  <2>6. base \in Bases /\ base # NoBase
        BY <2>4, <2>5, BasedType
  <2> HIDE DEF base
  <2>7. up \in Upserts /\ up.base = base
        BY <2>3, <2>4, <2>6 DEF Upsert, Upserts, Clashes
  <2> HIDE DEF up
  <2>8. /\ Fetchable(p, row, s, up, "sync")
        /\ StoredColumns(row, db.stored \cup ({up.object} \cap Bodies))
        BY <2>3, <2>6, <2>7 DEF Fetchable, StoredColumns
  <2>9. Write(db, p, row, s, up, "sync", "Manual")
        BY <1>1, <1>4 DEF p, s, row, up, base, body
  <2>10. flight' \in [at : Mails, source : Sources] \cup {NoVerb} /\ forgotten' \subseteq Links
        BY <1>1, <1>2
  <2>11. db.items = db.items
        OBVIOUS
  <2> QED BY <1>2, <2>2, <2>3, <2>7, <2>8, <2>9, <2>10, <2>11, WriteStep
<1> QED BY <1>3, <1>4

(* The bodies a binding names are stored with its row's.                   *)
LEMMA OwnBodies ==
    ASSUME NEW row \in Rows, NEW s \in Sources, NEW st, StoredColumns(row, st)
    PROVE  /\ BaseBody(OwnOf(row, s)) \in Bodies => BaseBody(OwnOf(row, s)) \in st
           /\ OwnOf(row, s).shared \in Bodies => OwnOf(row, s).shared \in st
           /\ OwnOf(row, s).clash \in Bodies => OwnOf(row, s).clash \in st
<1>1. CASE s \in Binders(row)
  <2>1. OwnOf(row, s) = row.bound[s]
        BY <1>1 DEF OwnOf
  <2>2. row.bound[s].base # NoBase => s \in BasedBy(row)
        BY <1>1 DEF BasedBy
  <2> QED BY <1>1, <2>1, <2>2, BodyAssumption DEF StoredColumns, BaseBody
<1>2. CASE s \notin Binders(row)
  <2>1. OwnOf(row, s) = Binding(NoBase, NoBody, NoClash)
        BY <1>2 DEF OwnOf
  <2>2. OwnOf(row, s).base = NoBase /\ OwnOf(row, s).shared = NoBody /\ OwnOf(row, s).clash = NoClash
        BY <2>1 DEF Binding
  <2> QED BY <2>2, BodyAssumption DEF BaseBody
<1> QED BY <1>1, <1>2

(* A merge of a stored body leaves a row of stored bodies.                 *)
LEMMA MergedRow ==
    ASSUME NEW p, NEW row \in Rows, NEW s \in Sources, NEW up \in Upserts, NEW st \in SUBSET Bodies,
           StoredColumns(row, st), {up.object, up.clash, BaseBody(up)} \cap Bodies \subseteq st,
           NEW made, NEW policy
    PROVE  LET new == Merged(p, row, s, up, made, policy).row IN
           new \in Rows /\ StoredColumns(new, st) /\ s \in Binders(new)
<1>1. PICK mutable \in BOOLEAN :
         Merged(p, row, s, up, made, policy) = Absorbed(row, s, up, made, mutable, policy)
      BY DEF Merged
<1> DEFINE o == Absorbed(row, s, up, made, mutable, policy)
<1>2. AbsorbedWell(o, row, s, up, st, mutable)
      BY AbsorbedRow
<1> HIDE DEF o
<1> QED BY <1>1, <1>2 DEF o, AbsorbedWell

(* More bodies stored leave a row's stored.                                *)
LEMMA StoredMore ==
    ASSUME NEW row, NEW st, NEW more, StoredColumns(row, st), st \subseteq more
    PROVE  StoredColumns(row, more)
BY DEF StoredColumns

(* A write of an event meets a row of stored bodies.                       *)
LEMMA EventStep ==
    ASSUME RetentionInv, NEW d, StoreInv(d), d.items = db.items, Filed(d) = Filed(db),
           NEW p \in Events, p[1] \in Filed(db),
           NEW row \in Rows, StoredColumns(row, d.stored), NEW s \in Sources, NEW up \in Upserts,
           NEW made, made # "landing", NEW policy, Write(d, p, row, s, up, made, policy),
           UNCHANGED <<flight, forgotten>>
    PROVE  RetentionInv'
<1>1. p \in Mails \cup Events /\ p \notin Mails /\ p[1] \in Filed(d)
      BY DEF Mails, Events
<1>2. StoredColumns(row, d.stored \cup ({up.object} \cap Bodies))
      BY StoredMore
<1>3. flight' \in [at : Mails, source : Sources] \cup {NoVerb} /\ forgotten' \subseteq Links
      BY DEF RetentionInv, TypeOK
<1> QED BY <1>1, <1>2, <1>3, WriteStep

(* A body read replaces the row's, whatever the conflict it met.           *)
LEMMA PullStep ==
    ASSUME RetentionInv, NEW p \in Events, NEW s \in Sources, NEW b \in TaskBodies \cup {NoBody},
           NEW policy, Pull(p, s, b, policy)
    PROVE  RetentionInv'
<1> DEFINE row == db.items[p]
           own == row.bound[s]
           clear == Upsert(row.object, row.flags, own.base, NoClash, FALSE)
           settles == Live(row) /\ own.clash = NoBody
           met == IF settles THEN Merged(p, row, s, clear, "sync", policy).row ELSE row
           base == BaseOf(row, own, b)
           up == Upsert(b, row.flags, base, NoClash, TRUE)
<1>1. /\ Held(row) /\ ~Retained(row) /\ s \in Binders(row)
      /\ Write(db, p, met, s, up, "sync", policy) /\ UNCHANGED <<flight, forgotten>>
      BY DEF Pull, Shown
<1>2. p \in Mails \cup Events /\ b \in Objects /\ NoClash \in Clashes
      BY BodyAssumption DEF Objects, Clashes
<1>3. /\ StoreInv(db) /\ p[1] \in Filed(db) /\ row \in Rows /\ StoredColumns(row, db.stored)
      /\ row.object \in Objects /\ row.flags \in BOOLEAN
      /\ OwnOf(row, s) = own /\ own \in Bindings /\ own.base \in Bases \cup {NoBase}
      BY <1>1, <1>2, ShownRow
<1>4. db.stored \in SUBSET Bodies
      BY <1>3 DEF StoreInv, Tables
<1> HIDE DEF row, own
<1>5. clear \in Upserts /\ clear.object = row.object /\ clear.clash = NoClash /\ clear.base = own.base
      BY <1>2, <1>3 DEF Upsert, Upserts
<1>6. {clear.object, clear.clash, BaseBody(clear)} \cap Bodies \subseteq db.stored
  <2>1. BaseBody(clear) = BaseBody(own)
        BY <1>5 DEF BaseBody
  <2>2. BaseBody(own) \in Bodies => BaseBody(own) \in db.stored
        BY <1>3, OwnBodies
  <2>3. row.object \in Bodies => row.object \in db.stored
        BY <1>3 DEF StoredColumns
  <2> QED BY <1>5, <2>1, <2>2, <2>3, BodyAssumption
<1> HIDE DEF clear, settles
<1>7. met \in Rows /\ StoredColumns(met, db.stored)
  <2>1. LET new == Merged(p, row, s, clear, "sync", policy).row IN
        new \in Rows /\ StoredColumns(new, db.stored) /\ s \in Binders(new)
        BY <1>3, <1>4, <1>5, <1>6, MergedRow
  <2> QED BY <1>3, <2>1
<1>8. base \in Bases
      BY <1>2, <1>3, DecidedType
<1> HIDE DEF met, base
<1>9. up \in Upserts
      BY <1>2, <1>3, <1>8 DEF Upsert, Upserts
<1> HIDE DEF up
<1>10. db.items = db.items /\ Filed(db) = Filed(db) /\ "sync" # "landing"
      OBVIOUS
<1> QED BY <1>1, <1>3, <1>7, <1>9, <1>10, EventStep

(* A base that learns the server's body leaves the row's.                  *)
LEMMA RebaseStep ==
    ASSUME RetentionInv, NEW p \in Events, NEW s \in Sources, NEW b \in TaskBodies, Rebase(p, s, b)
    PROVE  RetentionInv'
<1> DEFINE row == db.items[p]
           own == row.bound[s]
           base == BaseOf(row, own, b)
           up == Upsert(row.object, row.flags, base, NoClash, FALSE)
<1>1. Held(row) /\ ~Retained(row) /\ s \in Binders(row) /\ Sync(p, s, up, "Manual")
      BY DEF Rebase, Shown
<1>2. p \in Mails \cup Events /\ p \notin Mails /\ b \in Objects /\ NoClash \in Clashes
      BY BodyAssumption DEF Objects, Clashes, Mails, Events
<1>3. /\ p[1] \in Filed(db) /\ row \in Rows /\ row.object \in Objects /\ row.flags \in BOOLEAN
      /\ OwnOf(row, s) = own /\ own \in Bindings
      BY <1>1, <1>2, ShownRow
<1> HIDE DEF row, own
<1>4. base \in Bases
      BY <1>2, <1>3, DecidedType
<1> HIDE DEF base
<1>5. up \in Upserts
      BY <1>2, <1>3, <1>4 DEF Upsert, Upserts
<1> HIDE DEF up
<1> QED BY <1>1, <1>2, <1>3, <1>5, SyncStep

(* What mark_conflict writes.                                              *)
LEMMA DivergingType ==
    ASSUME RetentionInv, NEW p \in Mails \cup Events, NEW s \in Sources, NEW b \in Objects,
           Shown(db.items[p], s)
    PROVE  LET up == Diverging(p, s, b) IN
           /\ up \in Upserts /\ up.object = db.items[p].object /\ up.clash = b
           /\ BaseBody(up) = BaseBody(OwnOf(db.items[p], s))
<1> DEFINE row == db.items[p]
           up == Upsert(row.object, row.flags, row.bound[s].base, b, FALSE)
<1>1. Held(row) /\ ~Retained(row) /\ s \in Binders(row) /\ b \in Clashes
      BY DEF Shown, Clashes
<1>2. /\ row.object \in Objects /\ row.flags \in BOOLEAN
      /\ OwnOf(row, s) = row.bound[s] /\ row.bound[s].base \in Bases \cup {NoBase}
      BY <1>1, ShownRow
<1>3. Diverging(p, s, b) = up
      BY DEF Diverging
<1> HIDE DEF row
<1>4. up \in Upserts /\ up.object = row.object /\ up.clash = b /\ up.base = row.bound[s].base
      BY <1>1, <1>2 DEF Upsert, Upserts
<1> HIDE DEF up
<1>5. BaseBody(up) = BaseBody(OwnOf(row, s))
      BY <1>2, <1>4 DEF BaseBody
<1> QED BY <1>3, <1>4, <1>5 DEF row

(* A conflict set beside the row leaves it.                                *)
LEMMA DivergeStep ==
    ASSUME RetentionInv, NEW p \in Events, NEW s \in Sources, NEW b \in TaskBodies \cup {NoBody},
           Diverge(p, s, b)
    PROVE  RetentionInv'
<1> DEFINE up == Diverging(p, s, b)
<1>1. /\ Shown(db.items[p], s) /\ Sync(p, s, up, "Manual")
      /\ Held(db.items[p]) /\ ~Retained(db.items[p])
      BY DEF Diverge, Shown
<1>2. p \in Mails \cup Events /\ p \notin Mails /\ b \in Objects
      BY BodyAssumption DEF Objects, Mails, Events
<1>3. p[1] \in Filed(db)
      BY <1>1, <1>2, ShownRow
<1>4. up \in Upserts
      BY <1>1, <1>2, DivergingType
<1> HIDE DEF up
<1> QED BY <1>1, <1>2, <1>3, <1>4, SyncStep

(* An edit keeps the diverging bodies it overrules.                        *)
LEMMA EditStep ==
    ASSUME RetentionInv, NEW p \in Events, NEW s \in Sources, NEW b \in TaskBodies,
           NEW made \in {"edit", "overrule"}, NEW policy, Edit(p, s, b, made, policy)
    PROVE  RetentionInv'
<1> DEFINE row == db.items[p]
           own == row.bound[s]
           base == Decided(row, own)
           up == Upsert(b, row.flags, base, NoClash, FALSE)
<1>1. /\ Held(row) /\ ~Retained(row) /\ s \in Binders(row)
      /\ Write(db, p, row, s, up, made, policy) /\ UNCHANGED <<flight, forgotten>>
      BY DEF Edit, Shown
<1>2. p \in Mails \cup Events /\ b \in Objects /\ NoClash \in Clashes
      BY BodyAssumption DEF Objects, Clashes
<1>3. /\ StoreInv(db) /\ p[1] \in Filed(db) /\ row \in Rows /\ StoredColumns(row, db.stored)
      /\ row.flags \in BOOLEAN /\ OwnOf(row, s) = own /\ own \in Bindings
      BY <1>1, <1>2, ShownRow
<1> HIDE DEF row, own
<1>4. base \in Bases \cup {NoBase}
      BY <1>3, DecidedType
<1> HIDE DEF base
<1>5. up \in Upserts
      BY <1>2, <1>3, <1>4 DEF Upsert, Upserts
<1> HIDE DEF up
<1>6. db.items = db.items /\ Filed(db) = Filed(db) /\ made # "landing"
      OBVIOUS
<1> QED BY <1>1, <1>3, <1>5, <1>6, EventStep

(* A kept local body overrules the server's, which is kept beside it.      *)
LEMMA KeepLocalStep ==
    ASSUME RetentionInv, NEW p \in Events, NEW s \in Sources, NEW b \in TaskBodies, KeepLocal(p, s, b)
    PROVE  RetentionInv'
<1> DEFINE row == db.items[p]
           mark == Diverging(p, s, b)
           marked == Merged(p, row, s, mark, "sync", "Manual").row
           base == Decided(marked, marked.bound[s])
           up == Upsert(row.object, row.flags, base, NoClash, FALSE)
           d == Stored(db, {b})
<1>1. /\ Shown(row, s) /\ Held(row) /\ ~Retained(row) /\ s \in Binders(row)
      /\ Write(d, p, marked, s, up, "overrule", "Manual") /\ UNCHANGED <<flight, forgotten>>
      BY DEF KeepLocal, Shown
<1>2. p \in Mails \cup Events /\ b \in Objects /\ b \in Bodies /\ NoClash \in Clashes
      BY BodyAssumption DEF Objects, Clashes
<1>3. /\ StoreInv(db) /\ p[1] \in Filed(db) /\ row \in Rows /\ StoredColumns(row, db.stored)
      /\ row.object \in Objects /\ row.flags \in BOOLEAN
      BY <1>1, <1>2, ShownRow
<1>4. /\ StoreInv(d) /\ d.items = db.items /\ Filed(d) = Filed(db)
      /\ d.stored = db.stored \cup ({b} \cap Bodies)
      BY <1>3, StoredKeeps
<1> HIDE DEF d
<1>5. d.stored \in SUBSET Bodies /\ db.stored \subseteq d.stored /\ b \in d.stored
      BY <1>2, <1>4 DEF StoreInv, Tables
<1>6. mark \in Upserts /\ mark.object = row.object /\ mark.clash = b /\ BaseBody(mark) = BaseBody(OwnOf(row, s))
      BY <1>1, <1>2, DivergingType
<1> HIDE DEF mark, row
<1>7. StoredColumns(row, d.stored)
      BY <1>3, <1>5, StoredMore
<1>8. {mark.object, mark.clash, BaseBody(mark)} \cap Bodies \subseteq d.stored
  <2>1. BaseBody(OwnOf(row, s)) \in Bodies => BaseBody(OwnOf(row, s)) \in d.stored
        BY <1>3, <1>7, OwnBodies
  <2>2. row.object \in Bodies => row.object \in d.stored
        BY <1>7 DEF StoredColumns
  <2> QED BY <1>5, <1>6, <2>1, <2>2
<1>9. marked \in Rows /\ StoredColumns(marked, d.stored) /\ s \in Binders(marked)
      BY <1>3, <1>5, <1>6, <1>7, <1>8, MergedRow
<1> HIDE DEF marked
<1>10. marked.bound[s] \in Bindings
      BY <1>9 DEF Binders, Rows
<1>11. base \in Bases \cup {NoBase}
      BY <1>9, <1>10, DecidedType
<1> HIDE DEF base
<1>12. up \in Upserts
      BY <1>2, <1>3, <1>11 DEF Upsert, Upserts
<1> HIDE DEF up
<1>13. "overrule" # "landing"
      OBVIOUS
<1> QED BY <1>1, <1>3, <1>4, <1>9, <1>12, <1>13, EventStep

-----------------------------------------------------------------------------
(* The removals.                                                           *)

(* A tombstone saved over a shown row keeps the invariant.                 *)
LEMMA TombstoneStep ==
    ASSUME RetentionInv, NEW p \in Mails \cup Events, Held(db.items[p]), ~Retained(db.items[p]),
           NEW new \in Rows, new.state = "deleted", StoredColumns(new, db.stored),
           db' = Saved(db, p, new), owed' = Owing(p, new), UNCHANGED <<flight, bare, forgotten>>
    PROVE  RetentionInv'
<1>1. /\ p \in Places /\ LinkKind[p[2]] # "file" /\ StoreInv(db)
      BY DEF RetentionInv, Mails, Events
<1>2. p[1] \in Filed(db)
      BY <1>1, HeldRow
<1>3. Writable(db, new) /\ Placed(db, p, new) = new
      BY DEF Writable, Placed
<1>4. /\ StoreInv(db')
      /\ \A q \in Places : LinkKind[q[2]] # "file" /\ q # p => db'.items[q] = db.items[q]
      /\ IF Retires(db, p, new)
         THEN ~Held(db'.items[p]) \/ Retained(db'.items[p])
         ELSE db'.items[p] = Placed(db, p, new)
      BY <1>1, <1>2, <1>3, SavedKeeps
<1>5. \A q \in Mails \cup Events : q # p => db'.items[q] = db.items[q]
      BY <1>4 DEF Mails, Events
<1>6. Owes(p, new) => Owes(p, db'.items[p])
  <2>1. CASE Retires(db, p, new)
        BY <1>3, <2>1 DEF Retires, Owes
  <2>2. CASE ~Retires(db, p, new)
        BY <1>3, <1>4, <2>2
  <2> QED BY <2>1, <2>2
<1>7. ~Live(db'.items[p])
      BY <1>3, <1>4 DEF Live, Retained
<1>8. /\ bare' \subseteq Mails /\ \A q \in Mails : q # p /\ q \in bare => q \in bare'
      /\ flight' \in [at : Mails, source : Sources] \cup {NoVerb} /\ forgotten' \subseteq Links
      BY DEF RetentionInv, TypeOK
<1> QED BY <1>4, <1>5, <1>6, <1>7, <1>8, RowStep

(* A binding dropped keeps the invariant.                                  *)
LEMMA UnbindsStep ==
    ASSUME RetentionInv, NEW p \in Mails \cup Events, Held(db.items[p]), ~Retained(db.items[p]),
           NEW row \in Rows, StoredColumns(row, db.stored), NEW s \in Sources,
           Unbinds(p, row, s), UNCHANGED <<flight, bare, forgotten>>
    PROVE  RetentionInv'
<1> DEFINE bound == [row.bound EXCEPT ![s] = NoBinding]
           left == [row EXCEPT !.state = "deleted", !.bound = bound]
<1>1. [row EXCEPT !.state = "deleted", !.bound[s] = NoBinding] = left
      BY DEF Rows
<1>2. /\ bound \in [Sources -> Bindings \cup {NoBinding}]
      /\ bound[s] = NoBinding /\ \A t \in Sources : t # s => bound[t] = row.bound[t]
      BY DEF Rows
<1> HIDE DEF bound
<1>3. /\ left \in Rows /\ left.state = "deleted" /\ left.object = row.object
      /\ left.clash = row.clash /\ left.bound = bound
      BY <1>2 DEF Rows
<1>4. db' = Saved(db, p, left) /\ owed' = Owing(p, left)
      BY <1>1 DEF Unbinds
<1> HIDE DEF left
<1>5. \A t \in Binders(left) : t \in Binders(row) /\ left.bound[t] = row.bound[t]
      BY <1>2, <1>3 DEF Binders
<1>6. \A t \in BasedBy(left) : t \in BasedBy(row) /\ left.bound[t] = row.bound[t]
      BY <1>5 DEF BasedBy
<1>7. StoredColumns(left, db.stored)
      BY <1>3, <1>5, <1>6 DEF StoredColumns
<1> QED BY <1>3, <1>4, <1>7, TombstoneStep

(* A dropped member keeps the invariant.                                   *)
LEMMA DropMemberStep ==
    ASSUME RetentionInv, NEW p \in Mails \cup Events, NEW s \in Sources, DropMember(p, s)
    PROVE  RetentionInv'
<1> DEFINE row == db.items[p]
<1>1. /\ Held(row) /\ ~Retained(row) /\ Unbinds(p, row, s) /\ UNCHANGED <<flight, bare, forgotten>>
      BY DEF DropMember, Shown
<1>2. row \in Rows /\ StoredColumns(row, db.stored)
      BY <1>1, ShownRow
<1> QED BY <1>1, <1>2, UnbindsStep

(* A removal leaves a tombstone over its base, or nothing.                 *)
LEMMA RemoveStep ==
    ASSUME RetentionInv, NEW p \in Mails \cup Events, NEW s \in Sources, Remove(p, s)
    PROVE  RetentionInv'
<1> DEFINE row == db.items[p]
           own == OwnOf(row, s)
           base == Decided(row, own)
           x == Binding(base, own.shared, NoClash)
           plain == [row EXCEPT !.state = "deleted", !.clash = NoClash]
           gone == [plain EXCEPT !.bound[s] = x]
<1>1. /\ Seen(row, s) /\ UNCHANGED <<flight, bare, forgotten>>
      /\ [row EXCEPT !.state = "deleted", !.clash = NoClash, !.bound[s] = x] = gone
      BY DEF Remove
<1>2. Held(row) /\ ~Retained(row)
      BY <1>1 DEF Seen, Live, Retained
<1>3. /\ row \in Rows /\ StoredColumns(row, db.stored) /\ own \in Bindings
      BY <1>2, ShownRow
<1>4. IF base = NoBase THEN Unbinds(p, gone, s)
      ELSE db' = Saved(db, p, gone) /\ owed' = Owing(p, gone)
      BY <1>1 DEF Remove
<1> HIDE DEF row
<1>5. base \in Bases \cup {NoBase}
      BY <1>3, DecidedType
<1>6. base # NoBase /\ base.object \in Bodies => base.object \in db.stored
  <2>1. own.clash \in Bodies => own.clash \in db.stored
        BY <1>3, OwnBodies
  <2>2. own.base # NoBase /\ own.base.object \in Bodies => own.base.object \in db.stored
    <3>1. BaseBody(own) \in Bodies => BaseBody(own) \in db.stored
          BY <1>3, OwnBodies
    <3> QED BY <3>1 DEF BaseBody
  <2>3. CASE own.clash = NoClash
        BY <2>2, <2>3 DEF Decided
  <2>4. CASE own.clash # NoClash
    <3>1. base.object = own.clash
          BY <2>4 DEF Decided, BaseOf, Based
    <3> QED BY <2>1, <3>1
  <2> QED BY <2>3, <2>4
<1>7. own.shared \in Objects /\ (own.shared \in Bodies => own.shared \in db.stored)
  <2>1. own.shared \in Bodies => own.shared \in db.stored
        BY <1>3, OwnBodies
  <2> HIDE DEF own
  <2> QED BY <1>3, <2>1 DEF Bindings
<1> HIDE DEF own, base
<1>8. x \in Bindings /\ x.base = base /\ x.shared = own.shared /\ x.clash = NoClash
      BY <1>5, <1>7 DEF Binding, Bindings, Clashes
<1>9. /\ plain \in Rows /\ plain.state = "deleted" /\ plain.object = row.object
      /\ plain.clash = NoClash /\ plain.bound = row.bound
      BY <1>3 DEF Rows, Clashes
<1> HIDE DEF x, plain
<1>10. /\ gone \in Rows /\ gone.state = plain.state /\ gone.object = plain.object
       /\ gone.flags = plain.flags /\ gone.clash = plain.clash
       /\ Binders(gone) = Binders(plain) \cup {s}
       /\ BasedBy(gone) = IF x.base = NoBase THEN BasedBy(plain) \ {s} ELSE BasedBy(plain) \cup {s}
       /\ gone.bound[s] = x /\ \A t \in Sources : t # s => gone.bound[t] = plain.bound[t]
  <2>1. plain \in Rows /\ x \in Bindings
        BY <1>8, <1>9
  <2>2. gone = Rebound(plain, s, x)
        BY DEF Rebound
  <2> HIDE DEF gone
  <2> QED BY <2>1, <2>2, BoundRow
<1> HIDE DEF gone
<1>11. Binders(plain) = Binders(row)
       BY <1>9 DEF Binders
<1>12. BasedBy(plain) = BasedBy(row)
       BY <1>9, <1>11 DEF BasedBy
<1>13. Binders(row) \subseteq Sources /\ BasedBy(row) \subseteq Sources
       BY DEF Binders, BasedBy
<1>14. ASSUME NEW t \in Binders(gone)
       PROVE  /\ gone.bound[t].shared \in Bodies => gone.bound[t].shared \in db.stored
              /\ gone.bound[t].clash \in Bodies => gone.bound[t].clash \in db.stored
  <2>1. CASE t = s
        BY <1>7, <1>8, <1>10, <2>1, BodyAssumption
  <2>2. CASE t # s
    <3>1. t \in Binders(row) /\ gone.bound[t] = row.bound[t]
          BY <1>9, <1>10, <1>11, <1>13, <2>2
    <3> QED BY <1>3, <3>1 DEF StoredColumns
  <2> QED BY <2>1, <2>2
<1>15. ASSUME NEW t \in BasedBy(gone)
       PROVE  gone.bound[t].base.object \in Bodies => gone.bound[t].base.object \in db.stored
  <2>1. CASE t = s
        BY <1>6, <1>8, <1>10, <2>1
  <2>2. CASE t # s
    <3>1. t \in BasedBy(row) /\ gone.bound[t] = row.bound[t]
          BY <1>9, <1>10, <1>12, <1>13, <2>2
    <3> QED BY <1>3, <3>1 DEF StoredColumns
  <2> QED BY <2>1, <2>2
<1>16. StoredColumns(gone, db.stored)
       BY <1>3, <1>9, <1>10, <1>14, <1>15, BodyAssumption DEF StoredColumns
<1>17. CASE base = NoBase
       BY <1>1, <1>2, <1>3, <1>4, <1>10, <1>16, <1>17, UnbindsStep DEF row
<1>18. CASE base # NoBase
       BY <1>1, <1>2, <1>4, <1>9, <1>10, <1>16, <1>18, TombstoneStep DEF row
<1> QED BY <1>17, <1>18


(* The steps that open a sync or an upgrade.                               *)
LEMMA OpeningSteps ==
    ASSUME RetentionInv,
           \/ \E c \in Collections, s \in Sources : StartSync(c, s)
           \/ \E p \in Mails, s \in Sources : BeginUpgrade(p, s)
    PROVE  RetentionInv'
<1>1. ASSUME NEW c \in Collections, NEW s \in Sources, StartSync(c, s)
      PROVE  RetentionInv'
  <2> DEFINE sources == [db.sources EXCEPT ![c] = @ \cup {s}]
             e == [db EXCEPT !.sources = sources]
  <2>1. /\ db' = e /\ c \in Filed(db)
        /\ UNCHANGED <<flight, owed, bare, forgotten>>
        BY <1>1 DEF StartSync, RetentionInv, TypeOK, Tables
  <2>2. /\ sources \in [Collections -> SUBSET Sources]
        /\ \A x \in Collections : sources[x] # {} => db.sources[x] # {} \/ x = c
        BY DEF RetentionInv, TypeOK, Tables
  <2> HIDE DEF sources
  <2>3. /\ e \in Tables /\ e.items = db.items /\ e.colls = db.colls /\ e.queue = db.queue
        /\ e.sources = sources /\ e.stored = db.stored /\ e.count = db.count
        BY <2>2 DEF RetentionInv, TypeOK, Tables
  <2> HIDE DEF e
  <2>4. StoreInv(db)
        BY DEF RetentionInv
  <2>5. /\ IdsUnique(e) /\ HeldFiled(e) /\ QueueWell(e) /\ RowsWell(e)
        BY <2>3, <2>4 DEF StoreInv, IdsUnique, HeldFiled, QueueWell, QueueRowWell, RowsWell, Filed
  <2>7. e.count = Counted(e)
        BY <2>3, <2>4 DEF StoreInv, Counted
  <2>8. StoreInv(e)
        BY <2>3, <2>5, <2>7 DEF StoreInv
  <2> QED BY <2>1, <2>3, <2>8 DEF RetentionInv, TypeOK, OwedInv, BareInv
<1>2. ASSUME NEW p \in Mails, NEW s \in Sources, BeginUpgrade(p, s)
      PROVE  RetentionInv'
      BY <1>2 DEF BeginUpgrade, RetentionInv, TypeOK, OwedInv, BareInv
<1> QED BY <1>1, <1>2

-----------------------------------------------------------------------------
(* The queue.                                                              *)

(* The queued rows of a body are finitely many.                            *)
LEMMA FiniteQueueing ==
    ASSUME NEW q \in Seq(QueueRows), NEW b
    PROVE  IsFiniteSet(Queueing(q, b)) /\ Cardinality(Queueing(q, b)) \in Nat
<1>1. Queueing(q, b) \in SUBSET (1 .. Len(q))
      BY DEF Queueing
<1>2. IsFiniteSet(1 .. Len(q))
      BY FS_Interval
<1>3. IsFiniteSet(Queueing(q, b))
      BY <1>1, <1>2, FS_Subset
<1> QED BY <1>3, FS_CardinalityType

(* A queued row adds the pin of its body.                                  *)
LEMMA AppendCount ==
    ASSUME NEW q \in Seq(QueueRows), NEW a \in QueueRows, NEW b
    PROVE  Cardinality(Queueing(Append(q, a), b))
             = IF a.object = b THEN Cardinality(Queueing(q, b)) + 1
               ELSE Cardinality(Queueing(q, b))
<1>1. Queueing(Append(q, a), b)
        = IF a.object = b THEN Queueing(q, b) \cup {Len(q) + 1} ELSE Queueing(q, b)
      BY DEF Queueing
<1>2. Len(q) + 1 \notin Queueing(q, b)
      BY DEF Queueing
<1>3. Cardinality(Queueing(q, b) \cup {Len(q) + 1}) = Cardinality(Queueing(q, b)) + 1
      BY <1>2, FiniteQueueing, FS_AddElement
<1> QED BY <1>1, <1>3

(* A dequeued row releases the pin of its body.                            *)
LEMMA TailCount ==
    ASSUME NEW q \in Seq(QueueRows), q # <<>>, NEW b
    PROVE  Cardinality(Queueing(Tail(q), b))
             = IF q[1].object = b THEN Cardinality(Queueing(q, b)) - 1
               ELSE Cardinality(Queueing(q, b))
<1> DEFINE T == Queueing(Tail(q), b)
           U == Queueing(q, b) \ {1}
           f == [i \in T |-> i + 1]
<1>1. /\ Tail(q) \in Seq(QueueRows) /\ Len(Tail(q)) = Len(q) - 1 /\ Len(q) \in Nat
      /\ \A i \in 1 .. Len(q) - 1 : Tail(q)[i] = q[i + 1]
      BY EmptySeq, HeadTailProperties
<1>2. \A i : i \in T <=> i \in 1 .. Len(q) - 1 /\ q[i + 1].object = b
      BY <1>1 DEF Queueing
<1>3. \A i : i \in U <=> i \in 2 .. Len(q) /\ q[i].object = b
      BY <1>1 DEF Queueing
<1>4. \A i \in T : i \in Int /\ i + 1 \in U
      BY <1>1, <1>2, <1>3
<1>5. \A i \in U : i \in Int /\ i - 1 \in T /\ i = (i - 1) + 1
      BY <1>1, <1>2, <1>3
<1> HIDE DEF T, U
<1>6. f \in [T -> U] /\ \A i \in T : f[i] = i + 1
      BY <1>4
<1>7. f \in Injection(T, U)
  <2>1. \A i, j \in T : f[i] = f[j] => i = j
        BY <1>4, <1>6
  <2> HIDE DEF f
  <2> QED BY <1>6, <2>1 DEF Injection, IsInjective
<1>8. f \in Surjection(T, U)
      BY <1>5, <1>6 DEF Surjection
<1>9. ExistsBijection(T, U)
      BY <1>7, <1>8 DEF ExistsBijection, Bijection
<1>10. IsFiniteSet(T) /\ IsFiniteSet(Queueing(q, b)) /\ Cardinality(Queueing(q, b)) \in Nat
      BY <1>1, FiniteQueueing DEF T
<1>11. Cardinality(U) = Cardinality(T)
      BY <1>9, <1>10, FS_Bijection
<1>12. Cardinality(U) = IF 1 \in Queueing(q, b) THEN Cardinality(Queueing(q, b)) - 1
                        ELSE Cardinality(Queueing(q, b))
      BY <1>10, FS_RemoveElement DEF U
<1>13. 1 \in Queueing(q, b) <=> q[1].object = b
  <2>1. 1 \in DOMAIN q
        BY EmptySeq
  <2> QED BY <2>1 DEF Queueing
<1> QED BY <1>11, <1>12, <1>13 DEF T

(* A step of the queue alone, exact when it moves the refcounts by the     *)
(* rows that name each body.                                               *)
LEMMA QueueKept ==
    ASSUME NEW d, StoreInv(d), NEW e \in Tables, e.items = d.items, e.colls = d.colls,
           e.sources = d.sources, e.stored = d.stored, QueueWell(e),
           \A b \in Bodies : e.count[b] = d.count[b] + Cardinality(Queueing(e.queue, b))
                                          - Cardinality(Queueing(d.queue, b))
    PROVE  StoreInv(e)
<1>1. IdsUnique(e) /\ HeldFiled(e) /\ RowsWell(e)
      BY DEF StoreInv, IdsUnique, HeldFiled, RowsWell, Filed
<1>2. ASSUME NEW b \in Bodies
      PROVE  e.count[b] = Counted(e)[b]
  <2> DEFINE D == Cardinality(Pointed(d.items, Places, b))
             Qd == Cardinality(Queueing(d.queue, b))
             Qe == Cardinality(Queueing(e.queue, b))
  <2>1. d.queue \in Seq(QueueRows) /\ e.queue \in Seq(QueueRows)
        BY DEF StoreInv, Tables
  <2>2. Qd \in Nat /\ Qe \in Nat
        BY <2>1, FiniteQueueing
  <2>3. D \in Nat
        BY FinitePointed
  <2>4. d.count[b] = D + Qd /\ Counted(e)[b] = D + Qe
        BY CountedIs DEF StoreInv
  <2>5. e.count[b] = d.count[b] + Qe - Qd
        OBVIOUS
  <2> HIDE DEF D, Qd, Qe
  <2> QED BY <2>2, <2>3, <2>4, <2>5
<1>3. e.count = [b \in Bodies |-> e.count[b]] /\ Counted(e) = [b \in Bodies |-> Counted(e)[b]]
      BY DEF Tables, Counted
<1>4. e.count = Counted(e)
      BY <1>2, <1>3
<1> QED BY <1>1, <1>4 DEF StoreInv

(* append keeps StoreInv.                                                  *)
LEMMA QueuedKeeps ==
    ASSUME NEW d, StoreInv(d), NEW a \in QueueRows, QueueRowWell(d, a)
    PROVE  StoreInv(Queued(d, a)) /\ Queued(d, a).items = d.items
<1> DEFINE queue == Append(d.queue, a)
           count == [b \in Bodies |-> IF b = a.object THEN d.count[b] + 1 ELSE d.count[b]]
           e == [d EXCEPT !.queue = queue, !.count = count]
<1>1. Queued(d, a) = e
      BY DEF Queued
<1>2. /\ d \in Tables /\ d.queue \in Seq(QueueRows)
      /\ \A b \in Bodies : d.count[b] \in Int
      BY DEF StoreInv, Tables
<1>3. /\ queue \in Seq(QueueRows)
      /\ \A i \in DOMAIN queue : queue[i] = a \/ (i \in DOMAIN d.queue /\ queue[i] = d.queue[i])
      BY <1>2
<1>4. /\ count \in [Bodies -> Int]
      /\ \A b \in Bodies : count[b] = IF b = a.object THEN d.count[b] + 1 ELSE d.count[b]
      BY <1>2
<1>5. \A b \in Bodies : /\ Cardinality(Queueing(d.queue, b)) \in Nat
                        /\ Cardinality(Queueing(queue, b))
                            = IF a.object = b THEN Cardinality(Queueing(d.queue, b)) + 1
                              ELSE Cardinality(Queueing(d.queue, b))
      BY <1>2, AppendCount, FiniteQueueing
<1> HIDE DEF queue, count
<1>6. /\ e \in Tables /\ e.items = d.items /\ e.colls = d.colls /\ e.sources = d.sources
      /\ e.stored = d.stored /\ e.queue = queue /\ e.count = count
      BY <1>2, <1>3, <1>4 DEF Tables
<1> HIDE DEF e
<1>7. QueueWell(e)
      BY <1>3, <1>6 DEF StoreInv, QueueWell, QueueRowWell, Filed
<1>8. \A b \in Bodies : e.count[b] = d.count[b] + Cardinality(Queueing(e.queue, b))
                                     - Cardinality(Queueing(d.queue, b))
      BY <1>2, <1>4, <1>5, <1>6
<1> QED BY <1>1, <1>6, <1>7, <1>8, QueueKept

(* A row leaving the queue keeps StoreInv.                                 *)
LEMMA DequeuedKeeps ==
    ASSUME NEW d, StoreInv(d), d.queue # <<>>
    PROVE  /\ StoreInv(Dequeued(d)) /\ Dequeued(d).items = d.items
           /\ Filed(Dequeued(d)) = Filed(d) /\ Dequeued(d).stored = d.stored
<1> DEFINE queue == Tail(d.queue)
           body == d.queue[1].object
           count == [b \in Bodies |-> IF b = body THEN d.count[b] - 1 ELSE d.count[b]]
           e == [d EXCEPT !.queue = queue, !.count = count]
<1>1. Dequeued(d) = e
      BY DEF Dequeued
<1>2. /\ d \in Tables /\ d.queue \in Seq(QueueRows)
      /\ \A b \in Bodies : d.count[b] \in Int
      BY DEF StoreInv, Tables
<1>3. /\ queue \in Seq(QueueRows)
      /\ \A i \in DOMAIN queue : i + 1 \in DOMAIN d.queue /\ queue[i] = d.queue[i + 1]
  <2>1. /\ queue \in Seq(QueueRows) /\ Len(queue) = Len(d.queue) - 1
        /\ \A i \in 1 .. Len(queue) : queue[i] = d.queue[i + 1]
        BY <1>2, HeadTailProperties
  <2>2. Len(d.queue) \in Nat /\ DOMAIN queue = 1 .. Len(queue) /\ DOMAIN d.queue = 1 .. Len(d.queue)
        BY <1>2, <2>1, LenProperties
  <2> HIDE DEF queue
  <2> QED BY <2>1, <2>2
<1>4. /\ count \in [Bodies -> Int]
      /\ \A b \in Bodies : count[b] = IF b = body THEN d.count[b] - 1 ELSE d.count[b]
      BY <1>2
<1>5. \A b \in Bodies : /\ Cardinality(Queueing(d.queue, b)) \in Nat
                        /\ Cardinality(Queueing(queue, b))
                            = IF body = b THEN Cardinality(Queueing(d.queue, b)) - 1
                              ELSE Cardinality(Queueing(d.queue, b))
      BY <1>2, TailCount, FiniteQueueing
<1> HIDE DEF queue, count, body
<1>6. /\ e \in Tables /\ e.items = d.items /\ e.colls = d.colls /\ e.sources = d.sources
      /\ e.stored = d.stored /\ e.queue = queue /\ e.count = count
      BY <1>2, <1>3, <1>4 DEF Tables
<1> HIDE DEF e
<1>7. QueueWell(e)
      BY <1>3, <1>6 DEF StoreInv, QueueWell, QueueRowWell, Filed
<1>8. \A b \in Bodies : e.count[b] = d.count[b] + Cardinality(Queueing(e.queue, b))
                                     - Cardinality(Queueing(d.queue, b))
      BY <1>2, <1>4, <1>5, <1>6
<1>9. StoreInv(e)
      BY <1>6, <1>7, <1>8, QueueKept
<1>10. Filed(e) = Filed(d)
      BY <1>6 DEF Filed
<1> QED BY <1>1, <1>6, <1>9, <1>10

(* A parked row keeps StoreInv.                                            *)
LEMMA ParkedKeeps ==
    ASSUME NEW d, StoreInv(d), d.queue # <<>>
    PROVE  LET e == [d EXCEPT !.queue[1].parked = TRUE] IN
           StoreInv(e) /\ e.items = d.items
<1> DEFINE a == [d.queue[1] EXCEPT !.parked = TRUE]
           queue == [d.queue EXCEPT ![1] = a]
           e == [d EXCEPT !.queue = queue]
<1>1. /\ d \in Tables /\ d.queue \in Seq(QueueRows)
      /\ \A b \in Bodies : d.count[b] \in Int
      BY DEF StoreInv, Tables
<1>2. [d EXCEPT !.queue[1].parked = TRUE] = e
      BY <1>1 DEF Tables
<1>3. 1 \in 1 .. Len(d.queue) /\ 1 \in DOMAIN d.queue /\ d.queue[1] \in QueueRows
      BY <1>1, EmptySeq
<1>4. /\ a \in QueueRows /\ a.at = d.queue[1].at /\ a.meant = d.queue[1].meant
      /\ a.object = d.queue[1].object /\ a.action = d.queue[1].action /\ a.parked
      BY <1>3 DEF QueueRows
<1> HIDE DEF a
<1>5. /\ queue \in Seq(QueueRows) /\ DOMAIN queue = DOMAIN d.queue
      /\ \A i \in DOMAIN d.queue : queue[i] = IF i = 1 THEN a ELSE d.queue[i]
      BY <1>1, <1>3, <1>4
<1>6. \A b \in Bodies : /\ Queueing(queue, b) = Queueing(d.queue, b)
                        /\ Cardinality(Queueing(d.queue, b)) \in Nat
      BY <1>1, <1>4, <1>5, FiniteQueueing DEF Queueing
<1> HIDE DEF queue
<1>7. /\ e \in Tables /\ e.items = d.items /\ e.colls = d.colls /\ e.sources = d.sources
      /\ e.stored = d.stored /\ e.queue = queue /\ e.count = d.count
      BY <1>1, <1>5 DEF Tables
<1> HIDE DEF e
<1>8. QueueWell(e)
      BY <1>3, <1>4, <1>5, <1>7 DEF StoreInv, QueueWell, QueueRowWell, Filed
<1>9. \A b \in Bodies : e.count[b] = d.count[b] + Cardinality(Queueing(e.queue, b))
                                     - Cardinality(Queueing(d.queue, b))
      BY <1>1, <1>6, <1>7
<1> QED BY <1>2, <1>7, <1>8, <1>9, QueueKept

(* A step that leaves every row owing what it owed, and makes no message   *)
(* one with neither body nor base, keeps the invariant with the tables'.   *)
LEMMA RowsStay ==
    ASSUME RetentionInv, StoreInv(db'), owed' \subseteq owed, bare' = bare, flight' = flight,
           \A p \in owed' : Owes(p, db.items[p]) => Owes(p, db'.items[p]),
           \A p \in Mails : Live(db'.items[p]) /\ Bodiless(db'.items[p])
                              => Live(db.items[p]) /\ Bodiless(db.items[p]),
           forgotten' \subseteq Links
    PROVE  RetentionInv'
<1>1. TypeOK /\ OwedInv /\ BareInv
      BY DEF RetentionInv
<1>2. OwedInv'
      BY <1>1 DEF OwedInv
<1>3. BareInv'
      BY <1>1 DEF BareInv
<1>4. TypeOK'
      BY <1>1 DEF TypeOK, StoreInv
<1> QED BY <1>2, <1>3, <1>4 DEF RetentionInv

(* A step that leaves every row.                                           *)
LEMMA ItemsSame ==
    ASSUME RetentionInv, StoreInv(db'), db'.items = db.items,
           UNCHANGED <<flight, owed, bare, forgotten>>
    PROVE  RetentionInv'
<1>1. forgotten' \subseteq Links
      BY DEF RetentionInv, TypeOK
<1> QED BY <1>1, RowsStay

(* append keeps the invariant.                                             *)
LEMMA EnqueueStep ==
    ASSUME RetentionInv, NEW p \in Mails, NEW to \in Collections, Enqueue(p, to)
    PROVE  RetentionInv'
<1> DEFINE copy == [action |-> "copy", at |-> p, target |-> db.colls[to].id,
                    meant |-> to, object |-> NoBody, parked |-> FALSE]
           add(body) == [action |-> "add", at |-> p, target |-> NoTarget, meant |-> NoColl,
                         object |-> body, parked |-> FALSE]
<1>1. /\ p[1] \in Filed(db) /\ to \in Filed(db)
      /\ \/ db' = Queued(db, copy)
         \/ \E body \in {ServerBody[p[2]], NoBody} : db' = Queued(Stored(db, {body}), add(body))
      /\ UNCHANGED <<flight, owed, bare, forgotten>>
      BY DEF Enqueue
<1>2. p \in Places /\ LinkKind[p[2]] = "mail" /\ StoreInv(db) /\ p[2] \in Links
      BY DEF RetentionInv, Mails, Places
<1>3. CASE db' = Queued(db, copy)
  <2>1. db.colls[to].id \in CollIds
        BY <1>1, <1>2 DEF StoreInv, Tables, Filed, Colls
  <2>2. copy \in QueueRows
        BY <1>2, <2>1 DEF QueueRows, Objects
  <2>3. QueueRowWell(db, copy)
        BY <1>1, <1>2 DEF QueueRowWell
  <2> HIDE DEF copy
  <2>4. StoreInv(db') /\ db'.items = db.items
        BY <1>2, <1>3, <2>2, <2>3, QueuedKeeps
  <2> QED BY <1>1, <2>4, ItemsSame
<1>4. ASSUME NEW body \in {ServerBody[p[2]], NoBody}, db' = Queued(Stored(db, {body}), add(body))
      PROVE  RetentionInv'
  <2> DEFINE d == Stored(db, {body})
             a == add(body)
  <2>1. body \in Objects
        BY <1>2, BodyAssumption DEF Objects
  <2>2. a \in QueueRows
        BY <1>2, <2>1 DEF QueueRows
  <2>3. StoreInv(d) /\ d.items = db.items /\ Filed(d) = Filed(db)
        BY <1>2, StoredKeeps
  <2>4. db' = Queued(d, a)
        BY <1>4
  <2> HIDE DEF d
  <2>5. QueueRowWell(d, a)
        BY <1>1, <1>2, <2>3 DEF QueueRowWell
  <2> HIDE DEF a
  <2>6. StoreInv(db') /\ db'.items = db.items
        BY <2>2, <2>3, <2>4, <2>5, QueuedKeeps
  <2> QED BY <1>1, <2>6, ItemsSame
<1> QED BY <1>1, <1>3, <1>4

(* drop_action keeps the invariant.                                        *)
LEMMA CancelStep ==
    ASSUME RetentionInv, Cancel
    PROVE  RetentionInv'
<1>1. /\ StoreInv(db) /\ db.queue # <<>> /\ db' = Dequeued(db)
      /\ UNCHANGED <<flight, owed, bare, forgotten>>
      BY DEF RetentionInv, Cancel
<1>2. StoreInv(db') /\ db'.items = db.items
      BY <1>1, DequeuedKeeps
<1> QED BY <1>1, <1>2, ItemsSame

(* A row that cannot apply is parked.                                      *)
LEMMA ParksStep ==
    ASSUME RetentionInv, db.queue # <<>>, Parks, UNCHANGED <<flight, forgotten>>
    PROVE  RetentionInv'
<1>1. /\ StoreInv(db) /\ db' = [db EXCEPT !.queue[1].parked = TRUE]
      /\ UNCHANGED <<flight, owed, bare, forgotten>>
      BY DEF RetentionInv, Parks
<1>2. StoreInv(db') /\ db'.items = db.items
      BY <1>1, ParkedKeeps
<1> QED BY <1>1, <1>2, ItemsSame

(* The create a drain lands is owed a push, with a body or without.        *)
LEMMA LandsStep ==
    ASSUME RetentionInv, db.queue # <<>>, NEW p \in Mails, p[1] \in Filed(db), NEW s \in Sources,
           NEW body \in Objects, NEW flags \in BOOLEAN, Lands(p, s, body, flags),
           UNCHANGED <<flight, forgotten>>
    PROVE  RetentionInv'
<1> DEFINE up == Upsert(body, flags, NoBase, NoClash, FALSE)
           d == Dequeued(db)
           row == Item(p, up)
<1>1. CASE Rebinds(db.items[p], s)
      BY <1>1, ParksStep DEF Lands
<1>2. CASE ~Rebinds(db.items[p], s)
  <2>1. Write(d, p, row, s, up, "landing", "Manual")
        BY <1>2 DEF Lands
  <2>2. StoreInv(db) /\ p \in Places /\ p \in Mails \cup Events /\ p \notin Events
        BY DEF RetentionInv, Mails, Events
  <2>3. StoreInv(d) /\ d.items = db.items /\ Filed(d) = Filed(db) /\ d.stored = db.stored
        BY <2>2, DequeuedKeeps
  <2> HIDE DEF d
  <2>4. up \in Upserts
        BY DEF Upsert, Upserts, Clashes
  <2> HIDE DEF up
  <2>5. row \in Rows /\ StoredColumns(row, d.stored \cup ({up.object} \cap Bodies))
        BY <2>2, <2>3, <2>4, ItemRow
  <2> HIDE DEF row
  <2>6. Fetchable(p, row, s, up, "landing")
        BY DEF Fetchable
  <2>7. flight' \in [at : Mails, source : Sources] \cup {NoVerb} /\ forgotten' \subseteq Links
        BY DEF RetentionInv, TypeOK
  <2>8. p[1] \in Filed(d)
        BY <2>3
  <2> QED BY <2>1, <2>2, <2>3, <2>4, <2>5, <2>6, <2>7, <2>8, WriteStep
<1> QED BY <1>1, <1>2

(* What a pending row is.                                                  *)
LEMMA PendingRow ==
    ASSUME RetentionInv, NEW action, Pending(action)
    PROVE  /\ db.queue # <<>> /\ StoreInv(db) /\ db.queue[1] \in QueueRows
           /\ db.queue[1].at \in Mails /\ db.queue[1].at[1] \in Filed(db)
<1>1. StoreInv(db) /\ db.queue # <<>> /\ db.queue \in Seq(QueueRows)
      BY DEF RetentionInv, StoreInv, Tables, Pending
<1>2. 1 \in DOMAIN db.queue /\ db.queue[1] \in QueueRows
      BY <1>1, EmptySeq
<1>3. QueueRowWell(db, db.queue[1])
      BY <1>1, <1>2 DEF StoreInv, QueueWell
<1> QED BY <1>1, <1>2, <1>3 DEF QueueRowWell, QueueRows, Mails

(* A drained add keeps the invariant.                                      *)
LEMMA DrainAddStep ==
    ASSUME RetentionInv, NEW s \in Sources, DrainAdd(s)
    PROVE  RetentionInv'
<1> DEFINE a == db.queue[1]
<1>1. /\ Pending("add") /\ UNCHANGED <<flight, forgotten>>
      /\ IF Live(db.items[a.at]) THEN Parks ELSE Lands(a.at, s, a.object, FALSE)
      BY DEF DrainAdd
<1>2. /\ db.queue # <<>> /\ a \in QueueRows /\ a.at \in Mails /\ a.at[1] \in Filed(db)
      BY <1>1, PendingRow
<1>3. a.object \in Objects /\ FALSE \in BOOLEAN
      BY <1>2 DEF QueueRows
<1> HIDE DEF a
<1>4. CASE Live(db.items[a.at])
      BY <1>1, <1>2, <1>4, ParksStep
<1>5. CASE ~Live(db.items[a.at])
      BY <1>1, <1>2, <1>3, <1>5, LandsStep
<1> QED BY <1>4, <1>5

(* A drained copy keeps the invariant.                                     *)
LEMMA DrainCopyStep ==
    ASSUME RetentionInv, NEW s \in Sources, DrainCopy(s)
    PROVE  RetentionInv'
<1> DEFINE a == db.queue[1]
           row == db.items[a.at]
           carries(c) == row.object # NoBody \/ (s \in BasedBy(row) /\ s \in Syncing(db, c))
           to == {c \in Under(db, a.target) : Copyable(row) /\ carries(c)}
<1>1. /\ Pending("copy") /\ UNCHANGED <<flight, forgotten>>
      /\ \A c \in Under(db, a.target) : KindOf[c] = "mail"
      /\ IF to = {} THEN Parks
         ELSE \E c \in to, k \in Links :
                 k \in Claims(c, a.at[2], s) /\ Lands(<<c, k>>, s, row.object, row.flags)
      BY DEF DrainCopy
<1>2. /\ db.queue # <<>> /\ StoreInv(db) /\ a.at \in Mails
      BY <1>1, PendingRow
<1>3. \A c \in to : c \in Under(db, a.target) /\ Copyable(row)
      OBVIOUS
<1> HIDE DEF a, to
<1>4. CASE to = {}
      BY <1>1, <1>2, <1>4, ParksStep
<1>5. ASSUME NEW c \in to, NEW k \in Links, k \in Claims(c, a.at[2], s),
             Lands(<<c, k>>, s, row.object, row.flags)
      PROVE  RetentionInv'
  <2>1. c \in Filed(db) /\ c \in Collections /\ KindOf[c] = "mail" /\ Held(row)
        BY <1>1, <1>3 DEF Under, Filed, Copyable, Live
  <2>2. LinkKind[k] = "mail"
    <3>1. LinkKind[a.at[2]] = "mail" /\ k \in {a.at[2]} \cup {x \in DOMAIN Bare : Bare[x] = a.at[2]}
          BY <1>2, <1>5 DEF Mails, Claims
    <3> QED BY <3>1, BareAssumption
  <2>3. <<c, k>> \in Mails /\ <<c, k>>[1] \in Filed(db)
        BY <2>1, <2>2 DEF Mails, Places
  <2>4. row \in Rows
        BY <1>2, <2>1 DEF StoreInv, Tables, Held, Mails
  <2>5. row.object \in Objects /\ row.flags \in BOOLEAN
        BY <2>4 DEF Rows
  <2> HIDE DEF row
  <2> QED BY <1>1, <1>2, <1>5, <2>3, <2>5, LandsStep
<1> QED BY <1>1, <1>4, <1>5


-----------------------------------------------------------------------------
(* The device's own items, and the references.                             *)

(* A step that changes no row owed, and leaves no message live it changed. *)
LEMMA RowsLeft ==
    ASSUME RetentionInv, StoreInv(db'), UNCHANGED <<flight, owed, bare>>, forgotten' \subseteq Links,
           \A q \in Mails \cup Events :
              db'.items[q] = db.items[q] \/ (q \notin owed /\ (q \in Mails => ~Live(db'.items[q])))
    PROVE  RetentionInv'
<1>1. owed \subseteq Mails \cup Events
      BY DEF RetentionInv, TypeOK
<1>2. \A q \in owed' : db'.items[q] = db.items[q]
      BY <1>1
<1>3. \A q \in Mails : Live(db'.items[q]) => db'.items[q] = db.items[q]
      OBVIOUS
<1> QED BY <1>2, <1>3, RowsStay

(* put_item keeps the invariant: no source binds the row it replaces.      *)
LEMMA PutItemStep ==
    ASSUME RetentionInv, NEW p \in Places, NEW body \in TaskBodies,
           LinkKind[p[2]] = "calendar", PutItem(p[1], p[2], body)
    PROVE  RetentionInv'
<1> DEFINE row == db.items[p]
           flags == Live(row) /\ row.flags
           new == Row(body, flags, Unbound)
           d == Stored(db, {body})
<1>1. p = <<p[1], p[2]>>
      BY DEF Places
<1>2. /\ p[1] \in Filed(db) /\ Syncing(db, p[1]) = {} /\ db' = Saved(d, p, new)
      /\ UNCHANGED <<flight, owed, bare, forgotten>>
  <2>1. /\ p[1] \in Filed(db) /\ Syncing(db, p[1]) = {}
        /\ db' = Saved(d, <<p[1], p[2]>>,
                       Row(body, Live(db.items[<<p[1], p[2]>>])
                                 /\ db.items[<<p[1], p[2]>>].flags, Unbound))
        /\ UNCHANGED <<flight, owed, bare, forgotten>>
        BY DEF PutItem
  <2> QED BY <1>1, <2>1
<1>3. body \in Bodies /\ StoreInv(db) /\ body \in Objects
      BY BodyAssumption DEF RetentionInv, Objects
<1>4. flags \in BOOLEAN
      OBVIOUS
<1>5. p \notin owed
  <2>1. Held(row) => Binders(row) = {}
        BY <1>2 DEF Syncing, Binders
  <2> QED BY <2>1 DEF RetentionInv, OwedInv, Owes
<1> HIDE DEF flags
<1>6. /\ new \in Rows /\ new.state = "live" /\ new.object = body /\ new.clash = NoClash
      /\ Binders(new) = {} /\ BasedBy(new) = {}
      BY <1>3, <1>4, NewRow
<1>7. /\ StoreInv(d) /\ d.items = db.items /\ d.stored = db.stored \cup ({body} \cap Bodies)
      /\ Filed(d) = Filed(db)
      BY <1>3, StoredKeeps
<1> HIDE DEF new, d
<1>8. Writable(d, new)
      BY <1>3, <1>6, <1>7, BodyAssumption DEF Writable, StoredColumns
<1>9. /\ StoreInv(db')
      /\ \A q \in Places : LinkKind[q[2]] # "file" /\ q # p => db'.items[q] = d.items[q]
      BY <1>2, <1>7, <1>8, SavedKeeps
<1>10. \A q \in Mails \cup Events :
          db'.items[q] = db.items[q] \/ (q \notin owed /\ (q \in Mails => ~Live(db'.items[q])))
  <2>1. \A q \in Mails \cup Events : q # p => db'.items[q] = db.items[q]
        BY <1>7, <1>9 DEF Mails, Events
  <2>2. p \notin Mails
        BY DEF Mails
  <2> QED BY <1>5, <2>1, <2>2
<1>11. forgotten' \subseteq Links
      BY <1>2 DEF RetentionInv, TypeOK
<1> QED BY <1>2, <1>9, <1>10, <1>11, RowsLeft

(* Rows that pin nothing come and go without a count.                      *)
LEMMA CountSame ==
    ASSUME NEW d \in Tables, NEW e \in Tables, d.count = Counted(d), e.count = d.count,
           e.queue = d.queue, Beside(d.items, e.items, {})
    PROVE  e.count = Counted(e)
<1>1. ASSUME NEW b \in Bodies
      PROVE  Counted(e)[b] = Counted(d)[b]
  <2>1. Pointed(d.items, {}, b) = {} /\ Pointed(e.items, {}, b) = {}
        BY DEF Pointed
  <2>2. {} \in SUBSET Places
        OBVIOUS
  <2>3. Cardinality(Pointed(e.items, Places, b))
          = Cardinality(Pointed(d.items, Places, b)) + Cardinality(Pointed(e.items, {}, b))
            - Cardinality(Pointed(d.items, {}, b))
        BY <2>2, CountBeside
  <2>4. Cardinality(Pointed(d.items, Places, b)) \in Nat /\ Cardinality({}) = 0
        BY FinitePointed, FS_EmptySet
  <2>5. Cardinality(Pointed(e.items, Places, b)) = Cardinality(Pointed(d.items, Places, b))
    <3>1. /\ Cardinality(Pointed(e.items, {}, b)) = 0
          /\ Cardinality(Pointed(d.items, {}, b)) = 0
          BY <2>1, <2>4
    <3> QED BY <2>3, <2>4, <3>1
  <2> QED BY <2>5, CountedIs
<1>2. Counted(d) = [b \in Bodies |-> Counted(d)[b]] /\ Counted(e) = [b \in Bodies |-> Counted(e)[b]]
      BY DEF Counted
<1> QED BY <1>1, <1>2

(* A step of the stand-ins and the references alone.                       *)
LEMMA BlankKeeps ==
    ASSUME NEW d, StoreInv(d), NEW e \in Tables, SameStore(d, e), e.count = d.count,
           e.colls = d.colls, Beside(d.items, e.items, {}), HeldFiled(e)
    PROVE  StoreInv(e) /\ \A q \in Mails \cup Events : e.items[q] = d.items[q]
<1>1. KeepsColls(d, e) /\ IdsUnique(e)
      BY DEF KeepsColls, IdsUnique, StoreInv, Filed
<1>2. e.count = Counted(e)
      BY CountSame DEF StoreInv, SameStore
<1>3. {} \in SUBSET Places
      OBVIOUS
<1>4. StoreInv(e)
      BY <1>1, <1>2, <1>3, StoreKept DEF SameStore
<1>5. \A q \in Mails \cup Events : e.items[q] = d.items[q]
      BY DEF Beside, Mails, Events
<1> QED BY <1>4, <1>5

(* put_file keeps the invariant.                                           *)
LEMMA PutFileStep ==
    ASSUME RetentionInv, NEW p \in Places, LinkKind[p[2]] = "file", PutFile(p[1], p[2])
    PROVE  RetentionInv'
<1> DEFINE row == Row(NoBody, FALSE, Unbound)
           its == [db.items EXCEPT ![p] = row]
           e == [db EXCEPT !.items = its]
<1>1. p = <<p[1], p[2]>> /\ p[2] \in Links
      BY DEF Places
<1>2. /\ p[1] \in Filed(db) /\ ~Held(db.items[p]) /\ db' = [db EXCEPT !.items[p] = row]
      /\ forgotten' = forgotten \cup {p[2]} /\ UNCHANGED <<flight, owed, bare>>
      BY <1>1 DEF PutFile, InsertFile
<1>3. StoreInv(db) /\ db \in Tables
      BY DEF RetentionInv, TypeOK
<1>4. row \in Rows /\ Blank(row)
  <2>1. NoBody \in Objects /\ FALSE \in BOOLEAN
        BY DEF Objects
  <2>2. row \in Rows /\ row.object = NoBody /\ row.clash = NoClash /\ Binders(row) = {}
        BY <2>1, NewRow
  <2> QED BY <2>2 DEF Blank
<1>5. db' = e
      BY <1>2, <1>3 DEF Tables
<1> HIDE DEF row
<1>6. /\ its \in [Places -> Rows \cup {NoRow}]
      /\ its[p] = row /\ \A q \in Places : q # p => its[q] = db.items[q]
      BY <1>3, <1>4 DEF Tables
<1> HIDE DEF its
<1>7. /\ e \in Tables /\ e.items = its /\ e.colls = db.colls /\ e.count = db.count
      /\ SameStore(db, e)
      BY <1>3, <1>6 DEF Tables, SameStore
<1> HIDE DEF e
<1>8. Beside(db.items, e.items, {})
      BY <1>2, <1>4, <1>6, <1>7 DEF Beside, Blank
<1>9. HeldFiled(e)
      BY <1>2, <1>3, <1>6, <1>7 DEF HeldFiled, StoreInv, Filed
<1>10. StoreInv(e) /\ \A q \in Mails \cup Events : e.items[q] = db.items[q]
      BY <1>3, <1>7, <1>8, <1>9, BlankKeeps
<1>11. forgotten' \subseteq Links
      BY <1>1, <1>2 DEF RetentionInv, TypeOK
<1> QED BY <1>2, <1>5, <1>10, <1>11, RowsLeft

(* add_reference keeps the invariant.                                      *)
LEMMA AddReferenceStep ==
    ASSUME RetentionInv, NEW l \in Links, NEW m \in Links, AddReference(l, m)
    PROVE  RetentionInv'
<1> DEFINE r == Reference(l, m, "related", TRUE)
           prior == {q \in db.refs : Key(q) = Key(r)}
           refs == IF prior = {} THEN db.refs \cup {r}
                   ELSE (db.refs \ prior) \cup {[q EXCEPT !.user = @ \/ r.user] : q \in prior}
           e == [db EXCEPT !.refs = refs]
<1>1. StoreInv(db) /\ db \in Tables /\ db.refs \subseteq References
      BY DEF RetentionInv, TypeOK, Tables
<1>2. /\ db' = db \/ db' = e
      /\ UNCHANGED <<flight, owed, bare, forgotten>>
      BY DEF AddReference, Referred
<1>3. refs \in SUBSET References
  <2>1. r \in References /\ r.user = TRUE
        BY DEF Reference, References
  <2>2. ASSUME NEW q \in prior
        PROVE  [q EXCEPT !.user = @ \/ r.user] \in References
    <3>1. q \in References
          BY <1>1
    <3>2. (q.user \/ r.user) = TRUE
          BY <2>1
    <3>3. [q EXCEPT !.user = TRUE] \in References
          BY <3>1 DEF References
    <3> QED BY <3>2, <3>3
  <2> HIDE DEF r
  <2> QED BY <1>1, <2>1, <2>2
<1> HIDE DEF refs
<1>4. /\ e \in Tables /\ e.items = db.items /\ e.colls = db.colls /\ e.count = db.count
      /\ SameStore(db, e)
      BY <1>1, <1>3 DEF Tables, SameStore
<1> HIDE DEF e
<1>5. Beside(db.items, e.items, {}) /\ HeldFiled(e)
      BY <1>1, <1>4 DEF Beside, HeldFiled, StoreInv, Filed
<1>6. StoreInv(e)
      BY <1>1, <1>4, <1>5, BlankKeeps
<1>7. StoreInv(db') /\ db'.items = db.items
      BY <1>1, <1>2, <1>4, <1>6
<1> QED BY <1>2, <1>7, ItemsSame

(* remove_reference keeps the invariant.                                   *)
LEMMA RemoveReferenceStep ==
    ASSUME RetentionInv, NEW r \in db.refs, RemoveReference(r)
    PROVE  RetentionInv'
<1> DEFINE e == WithoutRefs(db, {r})
<1>1. StoreInv(db) /\ db \in Tables /\ r \in References /\ r.to \in Links
      BY DEF RetentionInv, TypeOK, Tables, References
<1>2. db' = e /\ forgotten' = forgotten \cup {r.to} /\ UNCHANGED <<flight, owed, bare>>
      BY DEF RemoveReference
<1>3. /\ e \in Tables /\ SameStore(db, e) /\ e.count = db.count /\ e.colls = db.colls
      /\ \A q \in Places : \/ e.items[q] = db.items[q]
                           \/ /\ LinkKind[q[2]] = "file" /\ Blank(db.items[q])
                              /\ e.items[q] = NoRow
      BY <1>1, StorePlain, WithoutRefsEffect
<1> HIDE DEF e
<1>4. Beside(db.items, e.items, {}) /\ HeldFiled(e)
      BY <1>1, <1>3 DEF Beside, Blank, Held, HeldFiled, StoreInv, Filed
<1>5. StoreInv(e) /\ \A q \in Mails \cup Events : e.items[q] = db.items[q]
      BY <1>1, <1>3, <1>4, BlankKeeps
<1>6. forgotten' \subseteq Links
      BY <1>1, <1>2 DEF RetentionInv, TypeOK
<1> QED BY <1>2, <1>5, <1>6, RowsLeft

-----------------------------------------------------------------------------
(* The deletes.                                                            *)

(* A purge of a retained row keeps StoreInv.                               *)
LEMMA PurgedKeeps ==
    ASSUME NEW d, StoreInv(d), NEW p \in Places, Held(d.items[p]), Binders(d.items[p]) = {}
    PROVE  LET e == Purged(d, p) IN
           StoreInv(e) /\ e.items[p] = NoRow /\ \A q \in Mails \cup Events : q # p => e.items[q] = d.items[q]
<1> DEFINE e == Purged(d, p)
<1>1. /\ e \in Tables /\ SameStore(d, e) /\ e.colls = d.colls
      /\ e.items[p] = NoRow
      /\ Beside(d.items, e.items, {p}) /\ OnlyDrops(d.items, e.items)
      /\ \A q \in Places : LinkKind[q[2]] # "file" /\ q # p => e.items[q] = d.items[q]
      /\ e.count = Counted(e)
      BY StorePlain, PurgedEffect DEF StoreInv
<1> HIDE DEF e
<1>2. KeepsColls(d, e) /\ IdsUnique(e) /\ HeldFiled(e)
      BY <1>1 DEF KeepsColls, IdsUnique, StoreInv, Filed, HeldFiled, OnlyDrops
<1>3. RowWell(p, NoRow) /\ AllStored(NoRow, e.stored)
      BY BlankWell DEF Blank, Held
<1>4. StoreInv(e)
      BY <1>1, <1>2, <1>3, StoreKept DEF SameStore
<1>5. e.items[p] = NoRow /\ \A q \in Mails \cup Events : q # p => e.items[q] = d.items[q]
      BY <1>1 DEF Mails, Events
<1> QED BY <1>4, <1>5 DEF e

(* delete_unbound keeps the invariant.                                     *)
LEMMA DeleteUnboundStep ==
    ASSUME RetentionInv, NEW p \in Places, DeleteUnbound(p)
    PROVE  RetentionInv'
<1>1. /\ StoreInv(db) /\ Held(db.items[p]) /\ Binders(db.items[p]) = {}
      /\ db' = Purged(db, p) /\ forgotten' = forgotten \cup {p[2]} /\ UNCHANGED <<flight, owed, bare>>
      /\ p[2] \in Links
      BY DEF RetentionInv, DeleteUnbound, Unowned, Places
<1>2. StoreInv(db') /\ db'.items[p] = NoRow /\ \A q \in Mails \cup Events : q # p => db'.items[q] = db.items[q]
      BY <1>1, PurgedKeeps
<1>3. p \notin owed
      BY <1>1 DEF RetentionInv, OwedInv, Owes
<1>4. \A q \in Mails \cup Events :
         db'.items[q] = db.items[q] \/ (q \notin owed /\ (q \in Mails => ~Live(db'.items[q])))
      BY <1>2, <1>3 DEF Live, Held
<1>5. forgotten' \subseteq Links
      BY <1>1 DEF RetentionInv, TypeOK
<1> QED BY <1>1, <1>2, <1>4, <1>5, RowsLeft

(* purge_retained_before keeps the invariant.                              *)
LEMMA PurgeStep ==
    ASSUME RetentionInv, NEW ps \in SUBSET {p \in Places : Retained(db.items[p])}, Purge(ps)
    PROVE  RetentionInv'
<1> DEFINE P(b) == Cardinality(Pointed(db.items, ps, b))
           count == Unpinned(db.count, db.items, ps)
           d == [db EXCEPT !.count = count]
           e == Without(d, ps)
<1>1. /\ StoreInv(db) /\ db' = e /\ \A p \in ps : Retained(db.items[p])
      /\ UNCHANGED <<flight, owed, bare, forgotten>> /\ ps \in SUBSET Places
      BY DEF Purge, RetentionInv
<1>2. \A p \in ps : Held(db.items[p]) /\ Binders(db.items[p]) = {}
      BY <1>1 DEF StoreInv, RowsWell, RowWell, Retained
<1>3. /\ db \in Tables /\ db.queue \in Seq(QueueRows) /\ \A b \in Bodies : db.count[b] \in Int
      /\ db.count \in [Bodies -> Int]
      BY <1>1 DEF StoreInv, Tables
<1>5. \A b \in Bodies : P(b) \in Nat
      BY <1>1, FinitePointed
<1>6. /\ count \in [Bodies -> Int]
      /\ \A b \in Bodies : count[b] = db.count[b] - P(b)
  <2>1. \A q \in ps : Held(db.items[q]) => Binders(db.items[q]) = {}
        BY <1>2
  <2> QED BY <1>1, <1>3, <2>1, UnboundPointed
<1> HIDE DEF count, P
<1>7. /\ d \in Tables /\ d.items = db.items /\ d.colls = db.colls /\ d.count = count
      /\ SameStore(db, d)
      BY <1>3, <1>6 DEF Tables, SameStore
<1> HIDE DEF d
<1>8. /\ e \in Tables /\ SameStore(d, e) /\ e.count = d.count /\ e.colls = d.colls
      /\ \A q \in Places \cap ps : e.items[q] = NoRow
      /\ Beside(d.items, e.items, ps) /\ OnlyDrops(d.items, e.items)
      /\ \A q \in Places : LinkKind[q[2]] # "file" /\ q \notin ps => e.items[q] = d.items[q]
  <2>1. FilesPlain(d.items)
        BY <1>1, <1>7, StorePlain
  <2> QED BY <1>7, <2>1, WithoutEffect
<1> HIDE DEF e
<1>9. ASSUME NEW b \in Bodies
      PROVE  e.count[b] = Counted(e)[b]
  <2> DEFINE D == Cardinality(Pointed(db.items, Places, b))
             E == Cardinality(Pointed(e.items, Places, b))
             Q == Cardinality(Queueing(db.queue, b))
  <2>1. Pointed(e.items, ps, b) = {}
        BY <1>8 DEF Pointed, PointsTo, Held
  <2>2. Cardinality(Pointed(e.items, ps, b)) = 0
        BY <2>1, FS_EmptySet
  <2>3. E = D + Cardinality(Pointed(e.items, ps, b)) - Cardinality(Pointed(db.items, ps, b))
        BY <1>7, <1>8, CountBeside
  <2>4. E = D - P(b) /\ D \in Nat /\ P(b) \in Nat
    <3>1. D \in Nat /\ Cardinality(Pointed(db.items, ps, b)) = P(b) /\ P(b) \in Nat
          BY <1>5, FinitePointed DEF P
    <3> HIDE DEF D, E
    <3> QED BY <2>2, <2>3, <3>1
  <2>5. Q \in Nat
        BY <1>3, FiniteQueueing
  <2>6. db.count[b] = D + Q /\ Counted(e)[b] = E + Q
        BY <1>1, <1>7, <1>8, CountedIs DEF StoreInv, SameStore
  <2>7. e.count[b] = db.count[b] - P(b)
        BY <1>6, <1>7, <1>8
  <2> HIDE DEF D, E, Q
  <2> QED BY <2>4, <2>5, <2>6, <2>7
<1>10. e.count = Counted(e)
  <2>1. e.count = [b \in Bodies |-> e.count[b]] /\ Counted(e) = [b \in Bodies |-> Counted(e)[b]]
        BY <1>8 DEF Tables, Counted
  <2> QED BY <1>9, <2>1
<1>11. KeepsColls(db, e) /\ IdsUnique(e) /\ HeldFiled(e) /\ SameStore(db, e)
      BY <1>1, <1>7, <1>8 DEF KeepsColls, IdsUnique, StoreInv, Filed, HeldFiled, OnlyDrops, SameStore
<1>12. \A p \in ps : RowWell(p, e.items[p]) /\ AllStored(e.items[p], e.stored)
      BY <1>8, BlankWell DEF Blank, Held
<1>13. StoreInv(e)
      BY <1>1, <1>7, <1>8, <1>10, <1>11, <1>12, StoreKept DEF SameStore
<1>14. \A q \in owed : q \notin ps
      BY <1>2 DEF RetentionInv, OwedInv, Owes
<1>15. \A q \in Mails \cup Events :
          db'.items[q] = db.items[q] \/ (q \notin owed /\ (q \in Mails => ~Live(db'.items[q])))
  <2>1. \A q \in Mails \cup Events : q \in Places /\ LinkKind[q[2]] # "file"
        BY DEF Mails, Events
  <2> QED BY <1>1, <1>7, <1>8, <1>14, <2>1 DEF Live, Held
<1>16. forgotten' \subseteq Links
      BY <1>1 DEF RetentionInv, TypeOK
<1> QED BY <1>1, <1>13, <1>15, <1>16, RowsLeft

(* The collector takes no body a pointer or a queued row names, the count  *)
(* of such a body being positive.                                          *)
LEMMA CollectedKeeps ==
    ASSUME NEW d, StoreInv(d)
    PROVE  StoreInv(Collected(d)) /\ Collected(d).items = d.items
<1> DEFINE st == {b \in d.stored : d.count[b] > 0}
           e == [d EXCEPT !.stored = st]
<1>1. Collected(d) = e
      BY DEF Collected
<1>2. d \in Tables /\ d.queue \in Seq(QueueRows) /\ d.stored \subseteq Bodies
      BY DEF StoreInv, Tables
<1>3. st \in SUBSET Bodies
      BY <1>2
<1>4. ASSUME NEW b \in Bodies,
             \/ \E x \in Places \X Columns : x \in Pointed(d.items, Places, b)
             \/ \E i \in DOMAIN d.queue : i \in Queueing(d.queue, b)
      PROVE  d.count[b] > 0
  <2> DEFINE D == Pointed(d.items, Places, b)
             Q == Queueing(d.queue, b)
  <2>1. IsFiniteSet(D) /\ IsFiniteSet(Q) /\ Cardinality(D) \in Nat /\ Cardinality(Q) \in Nat
        BY <1>2, FinitePointed, FiniteQueueing
  <2>2. d.count[b] = Cardinality(D) + Cardinality(Q)
        BY CountedIs DEF StoreInv
  <2>3. D # {} \/ Q # {}
        BY <1>4
  <2> HIDE DEF D, Q
  <2>4. Cardinality(D) # 0 \/ Cardinality(Q) # 0
        BY <2>1, <2>3, FS_EmptySet
  <2> QED BY <2>1, <2>2, <2>4
<1> HIDE DEF st
<1>5. /\ e \in Tables /\ e.items = d.items /\ e.colls = d.colls /\ e.queue = d.queue
      /\ e.sources = d.sources /\ e.stored = st /\ e.count = d.count
      BY <1>2, <1>3 DEF Tables
<1> HIDE DEF e
<1>6. IdsUnique(e) /\ HeldFiled(e) /\ e.count = Counted(e)
      BY <1>5 DEF StoreInv, IdsUnique, HeldFiled, Filed, Counted
<1>7. RowsWell(e)
  <2> SUFFICES ASSUME NEW p \in Places
               PROVE  RowWell(p, d.items[p]) /\ AllStored(d.items[p], st)
        BY <1>5 DEF RowsWell
  <2>1. RowWell(p, d.items[p]) /\ AllStored(d.items[p], d.stored)
        BY DEF StoreInv, RowsWell
  <2>2. ASSUME NEW k \in Columns, NEW b \in Bodies, PointsTo(d.items[p], k, b)
        PROVE  b \in st
    <3>1. <<p, k>> \in Places \X Columns /\ <<p, k>> \in Pointed(d.items, Places, b)
          BY <2>2 DEF Pointed
    <3>2. d.count[b] > 0
          BY <1>4, <3>1
    <3> QED BY <2>1, <2>2, <3>2 DEF AllStored, st
  <2> QED BY <2>1, <2>2 DEF AllStored
<1>8. QueueWell(e)
      BY <1>5 DEF StoreInv, QueueWell, QueueRowWell, Filed
<1> QED BY <1>1, <1>5, <1>6, <1>7, <1>8 DEF StoreInv

(* The collector and erase keep the invariant.                             *)
LEMMA CollectorSteps ==
    ASSUME RetentionInv, CollectGarbage \/ \E p \in Places : Erase(p)
    PROVE  RetentionInv'
<1>1. StoreInv(db)
      BY DEF RetentionInv
<1>2. CASE CollectGarbage
  <2>1. db' = Collected(db) /\ UNCHANGED <<flight, owed, bare, forgotten>>
        BY <1>2 DEF CollectGarbage
  <2>2. StoreInv(db') /\ db'.items = db.items
        BY <1>1, <2>1, CollectedKeeps
  <2> QED BY <2>1, <2>2, ItemsSame
<1>3. ASSUME NEW p \in Places, Erase(p)
      PROVE  RetentionInv'
  <2> DEFINE goes == Retained(db.items[p]) \/ (Live(db.items[p]) /\ Unowned(db, p))
             d == IF goes THEN Purged(db, p) ELSE db
             Left(its) == \A q \in Mails \cup Events :
                             its[q] = db.items[q]
                                \/ (q \notin owed /\ (q \in Mails => ~Live(its[q])))
  <2>1. /\ db' = Collected(d) /\ UNCHANGED <<flight, owed, bare>>
        /\ forgotten' \in {forgotten, forgotten \cup {p[2]}} /\ p[2] \in Links
        BY <1>3 DEF Erase, Places
  <2>2. goes => Held(db.items[p]) /\ Binders(db.items[p]) = {}
        BY <1>1 DEF Retained, Unowned, StoreInv, RowsWell, RowWell
  <2>3. StoreInv(d) /\ Left(d.items)
    <3>1. CASE goes
      <4>1. /\ StoreInv(d) /\ d.items[p] = NoRow
            /\ \A q \in Mails \cup Events : q # p => d.items[q] = db.items[q]
            BY <1>1, <2>2, <3>1, PurgedKeeps
      <4>2. p \notin owed
            BY <2>2, <3>1 DEF RetentionInv, OwedInv, Owes
      <4> HIDE DEF d
      <4> QED BY <4>1, <4>2 DEF Live, Held
    <3>2. CASE ~goes
          BY <1>1, <3>2
    <3> QED BY <3>1, <3>2
  <2> HIDE DEF d
  <2>4. StoreInv(db') /\ db'.items = d.items
        BY <2>1, <2>3, CollectedKeeps
  <2>5. forgotten' \subseteq Links
        BY <2>1 DEF RetentionInv, TypeOK
  <2> QED BY <2>1, <2>3, <2>4, <2>5, RowsLeft
<1> QED BY <1>2, <1>3

(* recompute_refcounts, after a write that left the counts behind.         *)
LEMMA RecountKeeps ==
    ASSUME NEW d, StoreInv(d), NEW e \in Tables, SameStore(d, e), e.colls = d.colls, HeldFiled(e),
           NEW S \in SUBSET Places, Beside(d.items, e.items, S),
           \A p \in S : RowWell(p, e.items[p]) /\ AllStored(e.items[p], e.stored)
    PROVE  StoreInv(Recomputed(e)) /\ Recomputed(e).items = e.items
<1> DEFINE count == Counted(e)
           f == [e EXCEPT !.count = count]
<1>1. Recomputed(e) = f
      BY DEF Recomputed
<1>2. count \in [Bodies -> Int]
  <2>1. e.queue \in Seq(QueueRows)
        BY DEF Tables
  <2>2. \A b \in Bodies : count[b] \in Int
        BY <2>1, CountedIs, FinitePointed, FiniteQueueing
  <2>3. count = [b \in Bodies |-> count[b]]
        BY DEF Counted
  <2> HIDE DEF count
  <2> QED BY <2>2, <2>3
<1>3. /\ f \in Tables /\ f.items = e.items /\ f.colls = e.colls /\ f.queue = e.queue
      /\ f.sources = e.sources /\ f.stored = e.stored /\ f.count = count
  <2> HIDE DEF count
  <2> QED BY <1>2 DEF Tables
<1> HIDE DEF f
<1>4. f.count = Counted(f)
      BY <1>3 DEF Counted
<1>5. KeepsColls(d, f) /\ IdsUnique(f) /\ HeldFiled(f)
      BY <1>3 DEF KeepsColls, IdsUnique, HeldFiled, StoreInv, Filed
<1>6. d.stored \subseteq f.stored /\ f.queue = d.queue
      BY <1>3 DEF SameStore
<1> HIDE DEF count
<1>7. StoreInv(f)
      BY <1>3, <1>4, <1>5, <1>6, StoreKept
<1> QED BY <1>1, <1>3, <1>7

(* collect_before keeps the invariant: it takes no row that owes.          *)
LEMMA CollectBeforeStep ==
    ASSUME RetentionInv, NEW c \in Collections, CollectBefore(c)
    PROVE  RetentionInv'
<1> DEFINE ps == {p \in Mails : p[1] = c /\ p[2] \in Old /\ OwesNothing(db, p)}
           e == Without(db, ps)
<1>1. db' = Recomputed(e) /\ UNCHANGED <<flight, owed, bare, forgotten>>
      BY DEF CollectBefore
<1>2. StoreInv(db) /\ db \in Tables /\ ps \in SUBSET Places
      BY DEF RetentionInv, StoreInv, Mails
<1>3. /\ e \in Tables /\ SameStore(db, e) /\ e.colls = db.colls
      /\ \A q \in Places \cap ps : e.items[q] = NoRow
      /\ Beside(db.items, e.items, ps) /\ OnlyDrops(db.items, e.items)
      /\ \A q \in Places : LinkKind[q[2]] # "file" /\ q \notin ps => e.items[q] = db.items[q]
  <2> HIDE DEF ps
  <2> QED BY <1>2, StorePlain, WithoutEffect
<1> HIDE DEF e
<1>4. HeldFiled(e)
      BY <1>2, <1>3 DEF HeldFiled, OnlyDrops, StoreInv, Filed
<1>5. \A p \in ps : RowWell(p, e.items[p]) /\ AllStored(e.items[p], e.stored)
  <2> HIDE DEF ps
  <2> QED BY <1>2, <1>3, BlankWell DEF Blank, Held
<1>6. \A q \in owed : q \notin ps
  <2> SUFFICES ASSUME NEW q \in owed, q \in ps PROVE FALSE
        OBVIOUS
  <2>1. Owes(q, db.items[q]) /\ OwesNothing(db, q)
        BY DEF RetentionInv, OwedInv
  <2>2. q \notin Events
        BY DEF Mails, Events
  <2> HIDE DEF ps
  <2> QED BY <2>1, <2>2 DEF Owes, OwesNothing, Live
<1>7. ps \subseteq Mails
      OBVIOUS
<1> HIDE DEF ps
<1>8. StoreInv(db') /\ db'.items = e.items
      BY <1>1, <1>2, <1>3, <1>4, <1>5, RecountKeeps
<1>9. \A q \in Mails \cup Events :
         db'.items[q] = db.items[q] \/ (q \notin owed /\ (q \in Mails => ~Live(db'.items[q])))
  <2>1. \A q \in Mails \cup Events : q \in Places /\ LinkKind[q[2]] # "file"
        BY DEF Mails, Events
  <2> QED BY <1>3, <1>6, <1>8, <2>1 DEF Live, Held
<1>10. forgotten' \subseteq Links
      BY <1>1 DEF RetentionInv, TypeOK
<1> QED BY <1>1, <1>8, <1>9, <1>10, RowsLeft

(* A released row keeps its flags, its conflicts, its bindings and their   *)
(* bases.                                                                  *)
LEMMA ReleasedRow ==
    ASSUME NEW row \in Rows, NEW st, StoredColumns(row, st)
    PROVE  LET new == Released(row) IN
           /\ new \in Rows /\ Alike(new, row) /\ StoredColumns(new, st)
<1> DEFINE letGo(b) == IF b = row.object THEN NoBody ELSE b
           freed(x) == Binding(IF x.base = NoBase THEN NoBase
                               ELSE Based(letGo(x.base.object), x.base.flags),
                               letGo(x.shared), x.clash)
           bound == [s \in Sources |-> IF row.bound[s] = NoBinding THEN NoBinding
                                       ELSE freed(row.bound[s])]
           new == [row EXCEPT !.object = NoBody, !.bound = bound]
<1>1. Released(row) = new
      BY DEF Released
<1>2. ASSUME NEW x \in Bindings
      PROVE  /\ freed(x) \in Bindings
             /\ freed(x).shared \in {NoBody, x.shared} /\ freed(x).clash = x.clash
             /\ x.base = NoBase => freed(x).base = NoBase
             /\ x.base # NoBase => /\ freed(x).base \in Bases
                                   /\ freed(x).base.flags = x.base.flags
                                   /\ freed(x).base.object \in {NoBody, x.base.object}
  <2>1. letGo(x.shared) \in Objects /\ x.shared \in Objects /\ x.clash \in Clashes
        BY DEF Bindings, Objects
  <2> DEFINE base == IF x.base = NoBase THEN NoBase
                     ELSE Based(letGo(x.base.object), x.base.flags)
  <2>2. /\ base \in Bases \cup {NoBase}
        /\ x.base = NoBase => base = NoBase
        /\ x.base # NoBase => /\ base \in Bases /\ base.flags = x.base.flags
                              /\ base.object \in {NoBody, x.base.object}
    <3>1. x.base # NoBase => x.base \in Bases
          BY DEF Bindings
    <3>2. x.base # NoBase => letGo(x.base.object) \in Objects
          BY <3>1 DEF Bases, Objects
    <3> QED BY <3>1, <3>2 DEF Bases, Based
  <2>3. freed(x) = Binding(base, letGo(x.shared), x.clash)
        OBVIOUS
  <2> HIDE DEF base, freed
  <2>4. /\ freed(x) \in Bindings /\ freed(x).shared = letGo(x.shared) /\ freed(x).base = base
        /\ freed(x).clash = x.clash
        BY <2>1, <2>2, <2>3 DEF Bindings, Binding
  <2> QED BY <2>2, <2>4
<1>3. \A s \in Sources : row.bound[s] \in Bindings \cup {NoBinding}
      BY DEF Rows
<1>4. \A s \in Sources : /\ row.bound[s] = NoBinding => bound[s] = NoBinding
                         /\ row.bound[s] # NoBinding => bound[s] = freed(row.bound[s])
  <2> HIDE DEF freed
  <2> QED OBVIOUS
<1>5. bound \in [Sources -> Bindings \cup {NoBinding}]
  <2> HIDE DEF freed
  <2> QED BY <1>2, <1>3
<1> HIDE DEF bound, freed
<1>6. /\ new \in Rows /\ new.state = row.state /\ new.flags = row.flags
      /\ new.object = NoBody /\ new.bound = bound /\ new.clash = row.clash
      BY <1>5 DEF Rows, Objects
<1> HIDE DEF new
<1>7. Binders(new) = Binders(row)
      BY <1>2, <1>3, <1>4, <1>6, NoneAssumption DEF Binders
<1>8. \A s \in Binders(row) : s \in Sources /\ row.bound[s] \in Bindings
                              /\ new.bound[s] = freed(row.bound[s])
      BY <1>3, <1>4, <1>6 DEF Binders
<1>9. BasedBy(new) = BasedBy(row)
      BY <1>2, <1>7, <1>8, NoneAssumption DEF BasedBy
<1>10. \A s \in BasedBy(row) : /\ new.bound[s].base.flags = row.bound[s].base.flags
                               /\ new.bound[s].base.object \in {NoBody, row.bound[s].base.object}
      BY <1>2, <1>8 DEF BasedBy
<1>11. \A s \in Binders(row) : /\ new.bound[s].shared \in {NoBody, row.bound[s].shared}
                               /\ new.bound[s].clash = row.bound[s].clash
      BY <1>2, <1>8
<1>12. StoredColumns(new, st)
      BY <1>6, <1>7, <1>9, <1>10, <1>11, BodyAssumption DEF StoredColumns
<1>13. Alike(new, row)
      BY <1>6, <1>7, <1>9, <1>10, <1>11 DEF Alike
<1> QED BY <1>1, <1>6, <1>12, <1>13

(* release_before keeps the invariant: it frees no body that owes.         *)
LEMMA ReleaseBeforeStep ==
    ASSUME RetentionInv, NEW cs \in SUBSET Filed(db), ReleaseBefore(cs)
    PROVE  RetentionInv'
<1> DEFINE ps == {p \in Mails : p[1] \in cs /\ p[2] \in Old /\ Releasable(db, p)}
           its == [p \in Places |-> IF p \in ps THEN Released(db.items[p]) ELSE db.items[p]]
           e == [db EXCEPT !.items = its]
<1>1. db' = Recomputed(e) /\ UNCHANGED <<flight, owed, bare, forgotten>>
      BY DEF ReleaseBefore
<1>2. StoreInv(db) /\ db \in Tables /\ ps \in SUBSET Places
      BY DEF RetentionInv, StoreInv, Mails
<1>3. \A p \in ps : p \in Mails /\ p \in Places /\ Live(db.items[p]) /\ Held(db.items[p])
                    /\ BasedBy(db.items[p]) # {}
      BY <1>2 DEF Releasable, Live
<1> HIDE DEF ps
<1>4. ASSUME NEW p \in ps
      PROVE  LET new == Released(db.items[p])
                 row == db.items[p] IN
             /\ new \in Rows /\ Alike(new, row)
             /\ AllStored(new, db.stored) /\ row \in Rows /\ row.state = "live"
  <2>1. p \in Places /\ Held(db.items[p]) /\ db.items[p].state = "live"
        BY <1>3 DEF Live
  <2>2. db.items[p] \in Rows /\ StoredColumns(db.items[p], db.stored)
        BY <1>2, <2>1, HeldRow
  <2> DEFINE row == db.items[p]
             new == Released(row)
  <2> HIDE DEF row
  <2>3. new \in Rows /\ Alike(new, row) /\ StoredColumns(new, db.stored)
        BY <2>2, ReleasedRow DEF row
  <2> HIDE DEF new
  <2>4. AllStored(new, db.stored)
        BY <2>3, StoredIs
  <2> QED BY <2>1, <2>2, <2>3, <2>4 DEF row, new
<1>5. /\ its \in [Places -> Rows \cup {NoRow}]
      /\ \A p \in Places : its[p] = IF p \in ps THEN Released(db.items[p]) ELSE db.items[p]
      BY <1>2, <1>4 DEF Tables
<1> HIDE DEF its
<1>6. /\ e \in Tables /\ e.items = its /\ e.colls = db.colls /\ SameStore(db, e)
      BY <1>2, <1>5 DEF Tables, SameStore
<1> HIDE DEF e
<1>7. HeldFiled(e)
      BY <1>2, <1>3, <1>5, <1>6 DEF HeldFiled, StoreInv, Filed
<1>8. Beside(db.items, e.items, ps)
      BY <1>5, <1>6 DEF Beside
<1>9. ASSUME NEW p \in ps
      PROVE  RowWell(p, e.items[p]) /\ AllStored(e.items[p], e.stored)
  <2>1. e.items[p] = Released(db.items[p]) /\ e.stored = db.stored
        BY <1>2, <1>5, <1>6 DEF SameStore
  <2>2. /\ Released(db.items[p]).state = "live"
        /\ AllStored(Released(db.items[p]), db.stored)
        BY <1>4 DEF Alike
  <2>3. LinkKind[p[2]] = "mail"
        BY <1>3 DEF Mails
  <2> QED BY <2>1, <2>2, <2>3 DEF RowWell, Retained
<1>10. StoreInv(db') /\ db'.items = e.items
      BY <1>1, <1>2, <1>6, <1>7, <1>8, <1>9, RecountKeeps
<1>11. \A q \in Places : IF q \in ps THEN db'.items[q] = Released(db.items[q])
                         ELSE db'.items[q] = db.items[q]
      BY <1>5, <1>6, <1>10
<1>12. ASSUME NEW q \in owed, Owes(q, db.items[q]) PROVE Owes(q, db'.items[q])
  <2>1. q \in Places
        BY DEF RetentionInv, TypeOK, Mails, Events
  <2>2. CASE q \notin ps
        BY <1>11, <1>12, <2>1, <2>2
  <2>3. CASE q \in ps
    <3> DEFINE row == db.items[q]
               new == Released(row)
    <3>1. new \in Rows /\ row \in Rows /\ Alike(new, row) /\ q \in Mails
          BY <1>3, <1>4, <2>3
    <3>2. Owes(q, row) /\ db'.items[q] = new
          BY <1>11, <1>12, <2>1, <2>3
    <3> HIDE DEF new, row
    <3>3. Owes(q, new)
          BY <3>1, <3>2, AlikeOwes
    <3> QED BY <3>2, <3>3
  <2> QED BY <2>2, <2>3
<1>13. ASSUME NEW q \in Mails, Live(db'.items[q]), Bodiless(db'.items[q])
       PROVE  Live(db.items[q]) /\ Bodiless(db.items[q])
  <2>1. q \in Places
        BY DEF Mails
  <2>2. q \notin ps
    <3> SUFFICES ASSUME q \in ps PROVE FALSE
          OBVIOUS
    <3>1. BasedBy(Released(db.items[q])) = BasedBy(db.items[q]) /\ BasedBy(db.items[q]) # {}
          BY <1>3, <1>4 DEF Alike
    <3> QED BY <1>11, <1>13, <2>1, <3>1 DEF Bodiless
  <2> QED BY <1>11, <1>13, <2>1, <2>2
<1>14. forgotten' \subseteq Links
      BY <1>1 DEF RetentionInv, TypeOK
<1> QED BY <1>1, <1>10, <1>12, <1>13, <1>14, RowsStay

-----------------------------------------------------------------------------
(* The owner's collections.                                                *)

(* A step of the collections' table that keeps every id.                   *)
LEMMA FiledKeeps ==
    ASSUME NEW d, StoreInv(d), NEW e \in Tables, SameStore(d, e), e.count = d.count,
           e.items = d.items, KeepsColls(d, e), IdsUnique(e)
    PROVE  StoreInv(e)
<1>1. HeldFiled(e)
      BY DEF HeldFiled, StoreInv, KeepsColls
<1>2. e.count = Counted(e)
      BY DEF StoreInv, Counted, SameStore
<1>3. {} \in SUBSET Places /\ Beside(d.items, e.items, {})
      BY DEF Beside
<1> QED BY <1>1, <1>2, <1>3, StoreKept DEF SameStore

(* Declaring a collection, its role and its account keep the invariant.    *)
LEMMA FilingSteps ==
    ASSUME RetentionInv, NEW c \in Collections,
           \/ EnsureCollection(c)
           \/ \E role \in BOOLEAN : SetCollectionRole(c, role)
           \/ \E a \in Accounts : SetCollectionAccount(c, a)
    PROVE  RetentionInv'
<1>1. StoreInv(db) /\ db \in Tables /\ IdsUnique(db)
      BY DEF RetentionInv, StoreInv
<1>2. SUFFICES /\ StoreInv(db') /\ db'.items = db.items
               /\ UNCHANGED <<flight, owed, bare, forgotten>>
      BY ItemsSame
<1>3. CASE EnsureCollection(c)
  <2> DEFINE e == Created(db, c, HomeId[c], HomeAccount[c])
  <2>1. /\ c \notin Filed(db) /\ Under(db, HomeId[c]) = {} /\ db' = e
        /\ UNCHANGED <<flight, owed, bare, forgotten>>
        BY <1>3 DEF EnsureCollection
  <2>2. HomeId[c] \in CollIds /\ HomeAccount[c] \in Accounts
        BY AccountAssumption DEF CollIds
  <2>3. /\ e \in Tables /\ SameStore(db, e) /\ e.count = db.count
        /\ e.items = db.items /\ KeepsColls(db, e) /\ IdsUnique(e)
        BY <1>1, <2>1, <2>2, CreatedEffect
  <2> HIDE DEF e
  <2> QED BY <1>1, <2>1, <2>3, FiledKeeps
<1>4. ASSUME NEW role \in BOOLEAN, SetCollectionRole(c, role)
      PROVE  /\ StoreInv(db') /\ db'.items = db.items
             /\ UNCHANGED <<flight, owed, bare, forgotten>>
  <2> DEFINE e == RoleSet(db, c, role)
  <2>1. c \in Filed(db) /\ db' = e /\ UNCHANGED <<flight, owed, bare, forgotten>>
        BY <1>4 DEF SetCollectionRole
  <2>2. /\ e \in Tables /\ SameStore(db, e) /\ e.count = db.count
        /\ e.items = db.items /\ Filed(e) = Filed(db) /\ KeepsColls(db, e)
        BY <1>1, <2>1, RoleSetEffect
  <2> HIDE DEF e
  <2>3. IdsUnique(e)
        BY <1>1, <2>2 DEF IdsUnique, KeepsColls
  <2> QED BY <1>1, <2>1, <2>2, <2>3, FiledKeeps
<1>5. ASSUME NEW a \in Accounts, SetCollectionAccount(c, a)
      PROVE  /\ StoreInv(db') /\ db'.items = db.items
             /\ UNCHANGED <<flight, owed, bare, forgotten>>
  <2> DEFINE r == [db.colls[c] EXCEPT !.account = a]
             colls == [db.colls EXCEPT ![c] = r]
             e == [db EXCEPT !.colls = colls]
  <2>1. /\ c \in Filed(db) /\ db' = e /\ UNCHANGED <<flight, owed, bare, forgotten>>
        BY <1>1, <1>5 DEF SetCollectionAccount, Tables
  <2>2. r \in Colls /\ r.id = db.colls[c].id
        BY <1>1, <2>1 DEF Filed, Tables, Colls
  <2> HIDE DEF r
  <2>3. /\ colls \in [Collections -> Colls \cup {NoColl}]
        /\ \A x \in Collections : colls[x] = IF x = c THEN r ELSE db.colls[x]
        BY <1>1, <2>2 DEF Tables
  <2> HIDE DEF colls
  <2>4. /\ e \in Tables /\ e.items = db.items /\ e.colls = colls /\ SameStore(db, e)
        /\ e.count = db.count
        BY <1>1, <2>3 DEF Tables, SameStore
  <2> HIDE DEF e
  <2>5. Filed(e) = Filed(db)
        BY <2>1, <2>2, <2>3, <2>4, NoneAssumption DEF Filed
  <2>6. KeepsColls(db, e)
        BY <2>2, <2>3, <2>4, <2>5 DEF KeepsColls, Filed
  <2>7. IdsUnique(e)
        BY <1>1, <2>5, <2>6 DEF IdsUnique, KeepsColls
  <2> QED BY <1>1, <2>1, <2>4, <2>6, <2>7, FiledKeeps
<1> QED BY <1>3, <1>4, <1>5

(* rename_queue_targets, row by row.                                       *)
LEMMA RetargetedRows ==
    ASSUME NEW q \in Seq(QueueRows), NEW from, NEW to \in CollIds
    PROVE  LET r == Retargeted(q, from, to) IN
           /\ r \in Seq(QueueRows) /\ DOMAIN r = DOMAIN q
           /\ \A i \in DOMAIN q :
                 /\ r[i] \in QueueRows
                 /\ r[i].at = q[i].at /\ r[i].meant = q[i].meant /\ r[i].object = q[i].object
                 /\ r[i].action = q[i].action /\ r[i].parked = q[i].parked
                 /\ r[i].target = IF ~q[i].parked /\ q[i].target = from THEN to
                                  ELSE q[i].target
<1> DEFINE r == Retargeted(q, from, to)
<1>1. DOMAIN q = 1 .. Len(q) /\ Len(q) \in Nat /\ \A i \in DOMAIN q : q[i] \in QueueRows
      BY LenProperties
<1>2. ASSUME NEW x \in QueueRows
      PROVE  LET y == [x EXCEPT !.target = to] IN
             /\ y \in QueueRows
             /\ y.at = x.at /\ y.meant = x.meant /\ y.object = x.object
             /\ y.action = x.action /\ y.parked = x.parked /\ y.target = to
      BY DEF QueueRows
<1>3. /\ DOMAIN r = DOMAIN q
      /\ \A i \in DOMAIN q : r[i] = IF ~q[i].parked /\ q[i].target = from
                                    THEN [q[i] EXCEPT !.target = to] ELSE q[i]
      BY DEF Retargeted
<1>4. \A i \in DOMAIN q :
                 /\ r[i] \in QueueRows
                 /\ r[i].at = q[i].at /\ r[i].meant = q[i].meant /\ r[i].object = q[i].object
                 /\ r[i].action = q[i].action /\ r[i].parked = q[i].parked
                 /\ r[i].target = IF ~q[i].parked /\ q[i].target = from THEN to
                                  ELSE q[i].target
  <2> TAKE i \in DOMAIN q
  <2> DEFINE x == q[i]
             y == [x EXCEPT !.target = to]
             cond == ~x.parked /\ x.target = from
  <2>1. x \in QueueRows /\ r[i] = IF cond THEN y ELSE x
        BY <1>1, <1>3
  <2> HIDE DEF r, x
  <2>2. /\ y \in QueueRows
        /\ y.at = x.at /\ y.meant = x.meant /\ y.object = x.object
        /\ y.action = x.action /\ y.parked = x.parked /\ y.target = to
        BY <1>2, <2>1
  <2> HIDE DEF y
  <2>3. /\ r[i] \in QueueRows
        /\ r[i].at = x.at /\ r[i].meant = x.meant /\ r[i].object = x.object
        /\ r[i].action = x.action /\ r[i].parked = x.parked
        /\ r[i].target = IF cond THEN to ELSE x.target
        BY <2>1, <2>2
  <2> QED BY <2>3 DEF r, x
<1>5. r = [i \in 1 .. Len(q) |-> r[i]]
      BY <1>1 DEF Retargeted
<1> HIDE DEF r
<1>6. r \in Seq(QueueRows)
      BY <1>1, <1>4, <1>5
<1> QED BY <1>3, <1>4, <1>6 DEF r

(* rename_collection keeps the invariant, the queue following it.          *)
LEMMA RenameStep ==
    ASSUME RetentionInv, NEW c \in Collections, NEW id \in Ids, RenameCollection(c, id)
    PROVE  RetentionInv'
<1> DEFINE from == db.colls[c].id
           r == [db.colls[c] EXCEPT !.id = id]
           colls == [db.colls EXCEPT ![c] = r]
           queue == Retargeted(db.queue, from, id)
           e == [db EXCEPT !.queue = queue, !.colls = colls]
<1>1. StoreInv(db) /\ db \in Tables /\ IdsUnique(db) /\ db.queue \in Seq(QueueRows)
      BY DEF RetentionInv, StoreInv, Tables
<1>2. /\ c \in Filed(db) /\ Under(db, id) = {}
      /\ UNCHANGED <<flight, owed, bare, forgotten>>
      BY DEF RenameCollection
<1>3. db' = e
      BY <1>1 DEF RenameCollection, Tables
<1>4. id \in CollIds
      BY DEF CollIds
<1>5. r \in Colls /\ r.id = id
      BY <1>1, <1>2, <1>4 DEF Filed, Tables, Colls
<1> HIDE DEF r
<1>6. /\ colls \in [Collections -> Colls \cup {NoColl}]
      /\ \A x \in Collections : colls[x] = IF x = c THEN r ELSE db.colls[x]
      BY <1>1, <1>5 DEF Tables
<1>7. /\ queue \in Seq(QueueRows) /\ DOMAIN queue = DOMAIN db.queue
      /\ \A i \in DOMAIN db.queue :
            LET x == db.queue[i] IN
            /\ queue[i].at = x.at /\ queue[i].meant = x.meant /\ queue[i].object = x.object
            /\ queue[i].action = x.action /\ queue[i].parked = x.parked
            /\ queue[i].target = IF ~x.parked /\ x.target = from THEN id ELSE x.target
      BY <1>1, <1>4, RetargetedRows
<1> HIDE DEF colls, queue
<1>8. /\ e \in Tables /\ e.items = db.items /\ e.colls = colls /\ e.queue = queue
      /\ e.stored = db.stored /\ e.sources = db.sources /\ e.count = db.count
      BY <1>1, <1>6, <1>7 DEF Tables
<1> HIDE DEF e
<1>9. Filed(e) = Filed(db)
      BY <1>2, <1>5, <1>6, <1>8, NoneAssumption DEF Filed
<1>10. \A x \in Filed(db) : e.colls[x].id = IF x = c THEN id ELSE db.colls[x].id
      BY <1>5, <1>6, <1>8 DEF Filed
<1>11. IdsUnique(e)
      BY <1>1, <1>2, <1>9, <1>10 DEF IdsUnique, Under
<1>12. HeldFiled(e) /\ RowsWell(e)
      BY <1>1, <1>8, <1>9 DEF StoreInv, HeldFiled, RowsWell
<1>13. QueueWell(e)
  <2> SUFFICES ASSUME NEW i \in DOMAIN db.queue
               PROVE  QueueRowWell(e, queue[i])
        BY <1>7, <1>8 DEF QueueWell
  <2> DEFINE x == db.queue[i]
  <2>1. QueueRowWell(db, x)
        BY <1>1 DEF StoreInv, QueueWell
  <2>2. x.meant # NoColl /\ ~x.parked =>
           /\ x.meant \in Filed(db)
           /\ e.colls[x.meant].id = queue[i].target
    <3> SUFFICES ASSUME x.meant # NoColl, ~x.parked
                 PROVE  x.meant \in Filed(db) /\ e.colls[x.meant].id = queue[i].target
          OBVIOUS
    <3>1. x.meant \in Filed(db) /\ db.colls[x.meant].id = x.target
          BY <2>1 DEF QueueRowWell
    <3>2. x.meant = c <=> x.target = from
          BY <1>1, <1>2, <3>1 DEF IdsUnique
    <3> QED BY <1>7, <1>10, <3>1, <3>2
  <2> QED BY <1>7, <1>8, <1>9, <2>1, <2>2 DEF QueueRowWell
<1>14. e.count = Counted(e)
  <2>1. \A b : Queueing(queue, b) = Queueing(db.queue, b)
        BY <1>7 DEF Queueing
  <2>2. \A b \in Bodies : Counted(e)[b] = Counted(db)[b]
        BY <1>8, <2>1, CountedIs
  <2>3. Counted(db) = [b \in Bodies |-> Counted(db)[b]] /\ Counted(e) = [b \in Bodies |-> Counted(e)[b]]
        BY DEF Counted
  <2> QED BY <1>1, <1>8, <2>2, <2>3 DEF StoreInv
<1>15. StoreInv(e)
      BY <1>8, <1>11, <1>12, <1>13, <1>14 DEF StoreInv
<1> QED BY <1>2, <1>3, <1>8, <1>15, ItemsSame

(* The rows that outlive their target forget it.                           *)
LEMMA ForgottenRows ==
    ASSUME NEW q \in Seq(QueueRows), NEW c
    PROVE  LET r == [i \in DOMAIN q |->
                        IF q[i].meant = c THEN [q[i] EXCEPT !.meant = NoColl] ELSE q[i]] IN
           /\ r \in Seq(QueueRows) /\ DOMAIN r = DOMAIN q
           /\ \A i \in DOMAIN q :
                 /\ r[i].at = q[i].at /\ r[i].object = q[i].object
                 /\ r[i].action = q[i].action /\ r[i].parked = q[i].parked
                 /\ r[i].target = q[i].target
                 /\ r[i].meant = IF q[i].meant = c THEN NoColl ELSE q[i].meant
<1> DEFINE r == [i \in DOMAIN q |->
                    IF q[i].meant = c THEN [q[i] EXCEPT !.meant = NoColl] ELSE q[i]]
<1>1. DOMAIN q = 1 .. Len(q) /\ Len(q) \in Nat /\ \A i \in DOMAIN q : q[i] \in QueueRows
      BY LenProperties
<1>2. ASSUME NEW x \in QueueRows
      PROVE  LET y == [x EXCEPT !.meant = NoColl] IN
             /\ y \in QueueRows
             /\ y.at = x.at /\ y.target = x.target /\ y.object = x.object
             /\ y.action = x.action /\ y.parked = x.parked /\ y.meant = NoColl
      BY DEF QueueRows
<1>3. /\ DOMAIN r = DOMAIN q
      /\ \A i \in DOMAIN q : r[i] = IF q[i].meant = c
                                    THEN [q[i] EXCEPT !.meant = NoColl] ELSE q[i]
      OBVIOUS
<1>4. ASSUME NEW i \in DOMAIN q
      PROVE  /\ r[i] \in QueueRows
             /\ r[i].at = q[i].at /\ r[i].object = q[i].object
             /\ r[i].action = q[i].action /\ r[i].parked = q[i].parked
             /\ r[i].target = q[i].target
             /\ r[i].meant = IF q[i].meant = c THEN NoColl ELSE q[i].meant
  <2> DEFINE x == q[i]
             y == [x EXCEPT !.meant = NoColl]
  <2>1. x \in QueueRows /\ r[i] = IF x.meant = c THEN y ELSE x
        BY <1>1, <1>3
  <2> HIDE DEF r, x
  <2>2. /\ y \in QueueRows
        /\ y.at = x.at /\ y.target = x.target /\ y.object = x.object
        /\ y.action = x.action /\ y.parked = x.parked /\ y.meant = NoColl
        BY <1>2, <2>1
  <2> HIDE DEF y
  <2>3. /\ r[i] \in QueueRows
        /\ r[i].at = x.at /\ r[i].object = x.object
        /\ r[i].action = x.action /\ r[i].parked = x.parked
        /\ r[i].target = x.target
        /\ r[i].meant = IF x.meant = c THEN NoColl ELSE x.meant
        BY <2>1, <2>2
  <2> QED BY <2>3 DEF r, x
<1>5. r = [i \in 1 .. Len(q) |-> r[i]]
      BY <1>1
<1> HIDE DEF r
<1>6. r \in Seq(QueueRows)
      BY <1>1, <1>4, <1>5
<1> QED BY <1>3, <1>4, <1>6 DEF r

(* delete_collection keeps the invariant: what was owed in it is given up. *)
LEMMA DeleteCollectionStep ==
    ASSUME RetentionInv, NEW c \in Collections, DeleteCollection(c)
    PROVE  RetentionInv'
<1> DEFINE gone == {p \in Places : p[1] = c /\ Held(db.items[p])}
           w == Without(db, gone)
           colls == [w.colls EXCEPT ![c] = NoColl]
           sources == [w.sources EXCEPT ![c] = {}]
           queue == [i \in DOMAIN w.queue |->
                        IF w.queue[i].meant = c THEN [w.queue[i] EXCEPT !.meant = NoColl]
                        ELSE w.queue[i]]
           left == [w EXCEPT !.colls = colls, !.sources = sources, !.queue = queue]
           e == IF HoldsObjects(db, c) THEN Recomputed(left) ELSE left
<1>1. /\ StoreInv(db) /\ db \in Tables /\ db.queue \in Seq(QueueRows)
      /\ gone \in SUBSET Places
      BY DEF RetentionInv, StoreInv, Tables
<1>2. /\ w \in Tables /\ SameStore(db, w) /\ w.count = db.count /\ w.colls = db.colls
      /\ \A q \in Places \cap gone : w.items[q] = NoRow
      /\ Beside(db.items, w.items, gone) /\ OnlyDrops(db.items, w.items)
      /\ \A q \in Places : LinkKind[q[2]] # "file" /\ q \notin gone => w.items[q] = db.items[q]
  <2> HIDE DEF gone
  <2> QED BY <1>1, StorePlain, WithoutEffect
<1>3. /\ \A i \in DOMAIN db.queue : db.queue[i].at[1] # c
      /\ owed' = owed \ gone
      /\ forgotten' = forgotten \cup {p[2] : p \in gone}
      /\ flight' = flight /\ bare' = bare
      /\ db' = IF HoldsObjects(db, c)
               THEN Recomputed([w EXCEPT !.colls[c] = NoColl, !.sources[c] = {}, !.queue = queue])
               ELSE [w EXCEPT !.colls[c] = NoColl, !.sources[c] = {}, !.queue = queue]
      BY DEF DeleteCollection
<1> HIDE DEF w
<1>4. db' = e
  <2>1. [w EXCEPT !.colls[c] = NoColl, !.sources[c] = {}, !.queue = queue] = left
    <3> HIDE DEF queue
    <3> QED BY <1>2 DEF Tables
  <2> QED BY <1>3, <2>1
<1>5. w.queue = db.queue /\ w.sources = db.sources /\ w.stored = db.stored
      BY <1>2 DEF SameStore
<1>6. /\ queue \in Seq(QueueRows) /\ DOMAIN queue = DOMAIN db.queue
      /\ \A i \in DOMAIN db.queue :
            LET x == db.queue[i] IN
            /\ queue[i].at = x.at /\ queue[i].object = x.object
            /\ queue[i].action = x.action /\ queue[i].parked = x.parked
            /\ queue[i].target = x.target
            /\ queue[i].meant = IF x.meant = c THEN NoColl ELSE x.meant
  <2>1. queue = [i \in DOMAIN db.queue |->
                    IF db.queue[i].meant = c THEN [db.queue[i] EXCEPT !.meant = NoColl]
                    ELSE db.queue[i]]
        BY <1>5
  <2> HIDE DEF queue
  <2>2. LET r == [i \in DOMAIN db.queue |->
                    IF db.queue[i].meant = c THEN [db.queue[i] EXCEPT !.meant = NoColl]
                    ELSE db.queue[i]] IN
        /\ r \in Seq(QueueRows) /\ DOMAIN r = DOMAIN db.queue
        /\ \A i \in DOMAIN db.queue :
              /\ r[i].at = db.queue[i].at /\ r[i].object = db.queue[i].object
              /\ r[i].action = db.queue[i].action /\ r[i].parked = db.queue[i].parked
              /\ r[i].target = db.queue[i].target
              /\ r[i].meant = IF db.queue[i].meant = c THEN NoColl ELSE db.queue[i].meant
        BY <1>1, ForgottenRows
  <2> QED BY <2>1, <2>2
<1>7. /\ colls \in [Collections -> Colls \cup {NoColl}]
      /\ \A x \in Collections : colls[x] = IF x = c THEN NoColl ELSE db.colls[x]
      /\ sources \in [Collections -> SUBSET Sources]
      /\ \A x \in Collections : sources[x] = IF x = c THEN {} ELSE db.sources[x]
      BY <1>1, <1>2, <1>5 DEF Tables
<1> HIDE DEF queue, colls, sources
<1>8. /\ left \in Tables /\ left.items = w.items /\ left.colls = colls /\ left.queue = queue
      /\ left.stored = db.stored /\ left.sources = sources /\ left.count = db.count
      BY <1>2, <1>5, <1>6, <1>7 DEF Tables
<1> HIDE DEF left
<1>9. \A b \in Bodies : Counted(left)[b] \in Int
  <2>1. left.queue \in Seq(QueueRows)
        BY <1>8 DEF Tables
  <2> QED BY <2>1, CountedIs, FinitePointed, FiniteQueueing
<1>10. ~HoldsObjects(db, c) => \A b \in Bodies : Counted(left)[b] = Counted(db)[b]
  <2> SUFFICES ASSUME ~HoldsObjects(db, c), NEW b \in Bodies
               PROVE  Counted(left)[b] = Counted(db)[b]
        OBVIOUS
  <2>1. Pointed(db.items, gone, b) = {} /\ Pointed(w.items, gone, b) = {}
    <3>1. \A p \in gone : \A k \in Columns : ~PointsTo(db.items[p], k, b)
          BY DEF HoldsObjects
    <3>2. \A p \in gone : \A k \in Columns : ~PointsTo(w.items[p], k, b)
          BY <1>2 DEF PointsTo, Held
    <3> HIDE DEF gone
    <3> QED BY <3>1, <3>2 DEF Pointed
  <2> HIDE DEF gone
  <2>2. Cardinality(Pointed(w.items, Places, b))
          = Cardinality(Pointed(db.items, Places, b)) + Cardinality(Pointed(w.items, gone, b))
            - Cardinality(Pointed(db.items, gone, b))
        BY <1>1, <1>2, CountBeside
  <2>3. /\ Cardinality(Pointed(w.items, gone, b)) = 0
        /\ Cardinality(Pointed(db.items, gone, b)) = 0
        BY <2>1, FS_EmptySet
  <2>4. Cardinality(Pointed(db.items, Places, b)) \in Nat
        BY FinitePointed
  <2>5. Cardinality(Pointed(w.items, Places, b)) = Cardinality(Pointed(db.items, Places, b))
        BY <2>2, <2>3, <2>4
  <2>6. Queueing(queue, b) = Queueing(db.queue, b)
        BY <1>6 DEF Queueing
  <2> QED BY <1>8, <2>5, <2>6, CountedIs
<1>11. /\ e \in Tables /\ e.items = w.items /\ e.colls = colls /\ e.queue = queue
       /\ e.stored = db.stored /\ e.sources = sources /\ e.count = Counted(e)
  <2>1. /\ Counted(left) = [b \in Bodies |-> Counted(left)[b]]
        /\ Counted(db) = [b \in Bodies |-> Counted(db)[b]]
        BY DEF Counted
  <2>2. CASE HoldsObjects(db, c)
    <3> DEFINE count == Counted(left)
    <3>1. count \in [Bodies -> Int]
      <4> HIDE DEF count
      <4> QED BY <1>9, <2>1 DEF count
    <3>2. e = [left EXCEPT !.count = count]
          BY <2>2 DEF Recomputed
    <3> HIDE DEF count
    <3>3. /\ e \in Tables /\ e.items = left.items /\ e.colls = left.colls /\ e.queue = left.queue
          /\ e.stored = left.stored /\ e.sources = left.sources /\ e.count = count
          BY <1>8, <3>1, <3>2 DEF Tables
    <3> HIDE DEF e
    <3>4. Counted(e) = Counted(left)
          BY <3>3 DEF Counted
    <3> QED BY <1>8, <3>3, <3>4 DEF count
  <2>3. CASE ~HoldsObjects(db, c)
    <3>1. e = left
          BY <2>3
    <3>2. db.count = Counted(left)
          BY <1>1, <1>10, <2>1, <2>3 DEF StoreInv
    <3> HIDE DEF e
    <3> QED BY <1>8, <3>1, <3>2
  <2> QED BY <2>2, <2>3
<1> HIDE DEF e
<1>12. Filed(e) = Filed(db) \ {c}
       BY <1>7, <1>11 DEF Filed
<1>13. \A x \in Filed(e) : e.colls[x] = db.colls[x] /\ x \in Filed(db)
       BY <1>7, <1>11, <1>12 DEF Filed
<1>14. IdsUnique(e)
       BY <1>1, <1>13 DEF IdsUnique, StoreInv
<1>15. HeldFiled(e)
  <2> SUFFICES ASSUME NEW p \in Places, Held(e.items[p]) PROVE p[1] \in Filed(e)
        BY DEF HeldFiled
  <2>1. Held(db.items[p])
        BY <1>2, <1>11 DEF OnlyDrops
  <2>2. p \notin gone
    <3> HIDE DEF gone
    <3> QED BY <1>2, <1>11 DEF Held
  <2> QED BY <1>1, <1>12, <2>1, <2>2 DEF HeldFiled, StoreInv
<1>17. QueueWell(e)
  <2> SUFFICES ASSUME NEW i \in DOMAIN db.queue
               PROVE  QueueRowWell(e, queue[i])
        BY <1>6, <1>11 DEF QueueWell
  <2>1. QueueRowWell(db, db.queue[i])
        BY <1>1 DEF StoreInv, QueueWell
  <2>2. db.queue[i].at[1] # c
        BY <1>3
  <2> QED BY <1>6, <1>7, <1>11, <1>12, <2>1, <2>2 DEF QueueRowWell, Filed
<1>18. RowsWell(e)
  <2> SUFFICES ASSUME NEW p \in Places
               PROVE  RowWell(p, w.items[p]) /\ AllStored(w.items[p], db.stored)
        BY <1>11 DEF RowsWell
  <2>1. CASE p \in gone
    <3>1. w.items[p] = NoRow
          BY <1>2, <2>1
    <3> QED BY <3>1, BlankWell DEF Blank, Held
  <2>2. CASE w.items[p] = db.items[p]
        BY <1>1, <2>2 DEF StoreInv, RowsWell
  <2>3. CASE LinkKind[p[2]] = "file" /\ Blank(w.items[p])
        BY <2>3, BlankWell
  <2> HIDE DEF gone
  <2> QED BY <1>2, <2>1, <2>2, <2>3 DEF Beside
<1>19. StoreInv(e)
       BY <1>11, <1>14, <1>15, <1>17, <1>18 DEF StoreInv
<1>20. \A q \in Mails \cup Events : IF q \in gone THEN ~Live(db'.items[q])
                                     ELSE db'.items[q] = db.items[q]
  <2>1. \A q \in Mails \cup Events : q \in Places /\ LinkKind[q[2]] # "file"
        BY DEF Mails, Events
  <2> HIDE DEF gone
  <2> QED BY <1>2, <1>4, <1>11, <2>1 DEF Live, Held
<1>21. forgotten' \subseteq Links
  <2>1. \A p \in gone : p[2] \in Links
        BY DEF Places
  <2>2. forgotten \subseteq Links
        BY DEF RetentionInv, TypeOK
  <2> HIDE DEF gone
  <2> QED BY <1>3, <2>1, <2>2
<1>22. owed \subseteq Mails \cup Events
       BY DEF RetentionInv, TypeOK
<1> HIDE DEF gone
<1>23. /\ owed' \subseteq owed
       /\ \A q \in owed' : Owes(q, db.items[q]) => Owes(q, db'.items[q])
       BY <1>3, <1>20, <1>22
<1>24. \A q \in Mails : Live(db'.items[q]) /\ Bodiless(db'.items[q])
                            => Live(db.items[q]) /\ Bodiless(db.items[q])
       BY <1>20
<1> QED BY <1>3, <1>4, <1>19, <1>21, <1>23, <1>24, RowsStay

-----------------------------------------------------------------------------
(* The invariant is inductive, and what follows from it.                   *)

(* The first states satisfy the invariant.                                 *)
LEMMA RetentionInit == Init => RetentionInv
<1> SUFFICES ASSUME Init PROVE RetentionInv
      OBVIOUS
<1> DEFINE its == [p \in Places |-> NoRow]
           count == [b \in Bodies |-> 0]
<1>1. /\ db = [items |-> its, refs |-> {}, count |-> count, stored |-> {},
               colls |-> InitColls, queue |-> <<>>, sources |-> InitSources]
      /\ flight = NoVerb /\ owed = {} /\ bare = {} /\ forgotten = {}
      BY DEF Init
<1>2. /\ its \in [Places -> Rows \cup {NoRow}] /\ \A p \in Places : its[p] = NoRow
      /\ count \in [Bodies -> Int]
      /\ <<>> \in Seq(QueueRows)
      BY EmptySeq
<1> HIDE DEF its
<1>3. db \in Tables
  <2> HIDE DEF count
  <2> QED BY <1>1, <1>2, InitAssumption DEF Tables
<1>4. /\ db.items = its /\ db.stored = {} /\ db.colls = InitColls /\ db.queue = <<>>
      /\ db.sources = InitSources /\ db.count = count
      BY <1>1
<1>5. DOMAIN db.queue = {}
      BY <1>4
<1>6. IdsUnique(db)
      BY <1>4, InitAssumption DEF IdsUnique, Filed
<1>7. HeldFiled(db)
      BY <1>2, <1>4 DEF HeldFiled, Held
<1>8. QueueWell(db)
      BY <1>5 DEF QueueWell
<1>9. RowsWell(db)
      BY <1>2, <1>4, BlankWell DEF RowsWell, Blank, Held
<1>10. db.count = Counted(db)
  <2>1. ASSUME NEW b \in Bodies
        PROVE  Counted(db)[b] = 0
    <3>1. Pointed(db.items, Places, b) = {}
          BY <1>2, <1>4 DEF Pointed, PointsTo, Held
    <3>2. Queueing(db.queue, b) = {}
          BY <1>5 DEF Queueing
    <3>3. Cardinality({}) = 0
          BY FS_EmptySet
    <3>4. Counted(db)[b] = Cardinality({}) + Cardinality({})
          BY <3>1, <3>2, CountedIs
    <3> QED BY <3>3, <3>4
  <2>2. Counted(db) = [b \in Bodies |-> Counted(db)[b]]
        BY DEF Counted
  <2> QED BY <1>4, <2>1, <2>2
<1>11. StoreInv(db)
      BY <1>3, <1>6, <1>7, <1>8, <1>9, <1>10 DEF StoreInv
<1>12. BareInv
      BY <1>2, <1>4 DEF BareInv, Live, Held, Mails
<1> QED BY <1>1, <1>3, <1>11, <1>12 DEF RetentionInv, TypeOK, OwedInv

(* Each step keeps the invariant.                                          *)
LEMMA RetentionStep == RetentionInv /\ [Next]_vars => RetentionInv'
<1> SUFFICES ASSUME RetentionInv, [Next]_vars PROVE RetentionInv'
      OBVIOUS
<1>1. CASE UNCHANGED vars
      BY <1>1, ItemsSame DEF vars, RetentionInv
<1>2. CASE \/ \E c \in Collections, s \in Sources : StartSync(c, s)
           \/ \E p \in Mails, s \in Sources : BeginUpgrade(p, s)
      BY <1>2, OpeningSteps
<1>3. ASSUME NEW p \in Mails \cup Events, NEW s \in Sources,
             ListMember(p, s) \/ Push(p, s) \/ DropMember(p, s) \/ Resurrect(p, s) \/ Remove(p, s)
      PROVE  RetentionInv'
      BY <1>3, ListMemberStep, PushStep, DropMemberStep, ResurrectStep, RemoveStep
<1>4. CASE LandUpgrade \/ \E p \in Mails, s \in Sources : SetFlags(p, s)
      BY <1>4, LandUpgradeStep, SetFlagsStep
<1>5. ASSUME NEW p \in Events, NEW s \in Sources, NEW b \in TaskBodies \cup {NoBody},
             Diverge(p, s, b) \/ \E policy \in Policies : Pull(p, s, b, policy)
      PROVE  RetentionInv'
      BY <1>5, DivergeStep, PullStep
<1>6. ASSUME NEW p \in Events, NEW s \in Sources, NEW b \in TaskBodies,
             \/ Rebase(p, s, b) \/ KeepLocal(p, s, b)
             \/ \E policy \in Policies, made \in {"edit", "overrule"} : Edit(p, s, b, made, policy)
      PROVE  RetentionInv'
      BY <1>6, RebaseStep, KeepLocalStep, EditStep
<1>7. CASE \/ \E p \in Mails, c \in Collections : Enqueue(p, c)
           \/ \E s \in Sources : DrainCopy(s) \/ DrainAdd(s)
           \/ Cancel
      BY <1>7, EnqueueStep, DrainCopyStep, DrainAddStep, CancelStep
<1>8. ASSUME NEW p \in Places, NEW b \in TaskBodies,
             LinkKind[p[2]] = "calendar" /\ PutItem(p[1], p[2], b)
      PROVE  RetentionInv'
      BY <1>8, PutItemStep
<1>9. ASSUME NEW p \in Places, LinkKind[p[2]] = "file" /\ PutFile(p[1], p[2])
      PROVE  RetentionInv'
      BY <1>9, PutFileStep
<1>10. CASE \/ \E l, m \in Links : AddReference(l, m)
            \/ \E r \in db.refs : RemoveReference(r)
      BY <1>10, AddReferenceStep, RemoveReferenceStep
<1>11. CASE \/ \E p \in Places : DeleteUnbound(p)
            \/ \E ps \in SUBSET {p \in Places : Retained(db.items[p])} : Purge(ps)
      BY <1>11, DeleteUnboundStep, PurgeStep
<1>12. CASE CollectGarbage \/ \E p \in Places : Erase(p)
      BY <1>12, CollectorSteps
<1>13. CASE \/ \E c \in Collections : CollectBefore(c)
            \/ \E cs \in SUBSET Filed(db) : ReleaseBefore(cs)
      BY <1>13, CollectBeforeStep, ReleaseBeforeStep
<1>14. ASSUME NEW c \in Collections,
              \/ EnsureCollection(c)
              \/ \E role \in BOOLEAN : SetCollectionRole(c, role)
              \/ \E a \in Accounts : SetCollectionAccount(c, a)
       PROVE  RetentionInv'
      BY <1>14, FilingSteps
<1>15. ASSUME NEW c \in Collections, DeleteCollection(c) \/ \E id \in Ids : RenameCollection(c, id)
       PROVE  RetentionInv'
      BY <1>15, DeleteCollectionStep, RenameStep
<1> QED BY <1>1, <1>2, <1>3, <1>4, <1>5, <1>6, <1>7, <1>8, <1>9, <1>10, <1>11, <1>12,
           <1>13, <1>14, <1>15 DEF Next

(* The invariant holds of every behaviour.                                 *)
LEMMA RetentionHolds == Spec => []RetentionInv
<1> QED BY RetentionInit, RetentionStep, PTL DEF Spec

(* The tables keep the types of their columns through every write.         *)
THEOREM TypeCorrect == Spec => []TypeOK
<1>1. RetentionInv => TypeOK
      BY DEF RetentionInv
<1> QED BY <1>1, RetentionHolds, PTL

(* At every commit the refcounts client/write.rs adjusts by the row are    *)
(* what recompute_refcounts would count over every pointer, the diverging  *)
(* bodies of items and bindings too, whatever kinds sync, and every body a *)
(* pointer names is stored: the collector of client.rs takes none of them. *)
THEOREM CountsExact == Spec => []RefcountsExact
<1>1. RetentionInv => RefcountsExact
      BY DEF RetentionInv, StoreInv, RowsWell, AllStored, RefcountsExact
<1> QED BY <1>1, RetentionHolds, PTL

(* No release, collection, purge, erasure or clean-up drops a row with a   *)
(* change no server took, be it a delete, a create, a flag, an edit or a   *)
(* conflict to settle; and every live message without its body has a base  *)
(* to be fetched again from, but the ones a drain landed with none         *)
(* (client/mutate.rs applies a copy of a bodiless message).                *)
THEOREM NothingOwedLost == Spec => []OwedKept
<1>1. RetentionInv => OwedKept
  <2> SUFFICES ASSUME RetentionInv PROVE OwedKept
        OBVIOUS
  <2>1. \A p \in owed : Held(db.items[p])
        BY DEF RetentionInv, OwedInv, Owes
  <2>2. \A p \in Mails \ bare : Live(db.items[p]) /\ db.items[p].object = NoBody
                                   => BasedBy(db.items[p]) # {}
        BY DEF RetentionInv, BareInv, Bodiless, Live
  <2> QED BY <2>1, <2>2 DEF OwedKept
<1> QED BY <1>1, RetentionHolds, PTL

(* A pending copy reaches the collection it was queued for: its target id  *)
(* follows every rename of rename_collection, and no other collection can  *)
(* take it.                                                                *)
THEOREM CopiesFollow == Spec => []TargetsFollow
<1>1. RetentionInv => TargetsFollow
  <2> SUFFICES ASSUME RetentionInv, NEW i \in DOMAIN db.queue,
                      ~db.queue[i].parked, db.queue[i].meant # NoColl
               PROVE  Under(db, db.queue[i].target) = {db.queue[i].meant}
        BY DEF TargetsFollow
  <2>1. /\ db.queue[i].meant \in Filed(db)
        /\ db.colls[db.queue[i].meant].id = db.queue[i].target
        BY DEF RetentionInv, StoreInv, QueueWell, QueueRowWell
  <2>2. IdsUnique(db)
        BY DEF RetentionInv, StoreInv
  <2> QED BY <2>1, <2>2 DEF Under, IdsUnique
<1> QED BY <1>1, RetentionHolds, PTL

=============================================================================
