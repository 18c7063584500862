------------------------------- MODULE Index -------------------------------
(***************************************************************************)
(* The search index and the store it follows: index.db keeps a placement   *)
(* per live item, an object per body read, the occurrences of calendar     *)
(* items and the threads of mail, and is brought up to date from the       *)
(* store's change feed (src/search/refresh.rs, the statements it is        *)
(* answered with in src/client/search/refresh.rs, the passes in            *)
(* src/client/search.rs).                                                  *)
(*                                                                         *)
(* One run of the refresh coroutine is one transaction of index.db with    *)
(* the store attached, so it reads one snapshot of the store and is one    *)
(* action here; the store's writers act between runs, and a pass may stop  *)
(* between them at its deadline or by a crash.  The blob files are outside *)
(* every transaction: a body may be lost, and put back, without a stamp.   *)
(*                                                                         *)
(* A body is a model value.  A mail body names a parent; a calendar body   *)
(* has a start and may recur, up to a last day or for ever, or float.      *)
(* Extraction, summaries and flags other than one are left out: a body the *)
(* index holds stands for its text.                                        *)
(***************************************************************************)
EXTENDS Threads

CONSTANTS
  Worlds,      \* what an owner places: for each world the items in the order
               \* of their seq, each with its collection, link id and the
               \* bodies it may hold, the zones stated, the days that
               \* pass and the last stamp given
  Colls,       \* the collections, naturals in the order of their ids
  Renames,     \* pairs <<old, new>> of mail collections an owner may rename
  Mails,       \* the ids, of collections or to rename to, holding mail
  Bodies,      \* every body
  NamedBy,     \* the parent a mail body's headers name
  ReplyOf,     \* the one its summary names: In-Reply-To alone, no References
  ListedReply, \* the one the summary of a message listed without body names
  StartOf, Recurring, Floating,   \* of a calendar body
  UntilOf,     \* the last day a series states, Forever when it states none
  Losable,     \* the bodies whose file may be lost
  Batch,       \* options.batch
  Back, Ahead, \* how far the horizon reaches around now
  MaxFaults

ASSUME IndexAssumption ==
  /\ Batch \in Nat \ {0} /\ {Back, Ahead, MaxFaults} \subseteq Nat
  /\ Colls \subseteq Nat
  /\ \A w \in Worlds : \A i \in DOMAIN w.items :
       w.items[i].coll \in Colls /\ w.items[i].link \in Links

NoBody == "none"
Forever == 0 - 1

VARIABLES
  world,      \* what this owner places; never changes
  ids,        \* store.collections: the id each collection goes by
  items,      \* store.items, by seq
  bodies,     \* store.objects
  blobs,      \* the blob directory
  nextSeq,    \* store_meta.next_seq
  nextChange, \* store_meta.next_change
  purges,     \* store_meta.purges
  incarnation,\* store_meta.incarnation
  now,        \* the clock, in rolls of the horizon
  index,      \* index.db
  pass,       \* where the indexer is: idle, or about to make a run
  faults      \* blob losses, deadlines, restores and renames so far

store == <<ids, items, bodies, blobs, nextSeq, nextChange, purges, incarnation>>
vars  == <<world, store, now, index, pass, faults>>

Key(i)      == <<items[i].coll, i>>
IsLive(i)   == items[i].live
LastStamp   == nextChange - 1             \* load_change_cursor

-----------------------------------------------------------------------------
(* The store's side: the writes, with the stamps and counts the triggers   *)
(* of the schema give them in the same transaction.                        *)

Stamp(f) == items' = f /\ nextChange' = nextChange + 1

Insert(i, b) ==
  /\ i = nextSeq /\ nextSeq' = nextSeq + 1 /\ nextChange <= world.stamps
  /\ Stamp((i :> [coll |-> ids[world.items[i].coll], link |-> world.items[i].link, hash |-> b,
                  flag |-> FALSE, live |-> TRUE, changed |-> nextChange]) @@ items)
  /\ bodies' = bodies \cup ({b} \ {NoBody})
  /\ blobs'  = blobs  \cup ({b} \ {NoBody})
  /\ UNCHANGED <<world, ids, purges, incarnation, now, index, pass, faults>>

(* A body fetched or edited: the file is written before the row.           *)
Rebody(i, b) ==
  /\ i \in DOMAIN items /\ IsLive(i) /\ items[i].hash # b /\ b # NoBody
  /\ nextChange <= world.stamps
  /\ Stamp([items EXCEPT ![i].hash = b, ![i].changed = nextChange])
  /\ bodies' = bodies \cup {b} /\ blobs' = blobs \cup {b}
  /\ UNCHANGED <<world, ids, nextSeq, purges, incarnation, now, index, pass, faults>>

Flag(i) ==
  /\ i \in DOMAIN items /\ IsLive(i) /\ nextChange <= world.stamps
  /\ Stamp([items EXCEPT ![i].flag = ~@, ![i].changed = nextChange])
  /\ UNCHANGED <<world, ids, bodies, blobs, nextSeq, purges, incarnation, now, index, pass, faults>>

Delete(i) ==
  /\ i \in DOMAIN items /\ IsLive(i) /\ nextChange <= world.stamps
  /\ Stamp([items EXCEPT ![i].live = FALSE, ![i].changed = nextChange])
  /\ UNCHANGED <<world, ids, bodies, blobs, nextSeq, purges, incarnation, now, index, pass, faults>>

(* items_count_purge: the row goes, and with it every stamp it had.        *)
Purge(i) ==
  /\ i \in DOMAIN items /\ ~IsLive(i)
  /\ items' = [j \in DOMAIN items \ {i} |-> items[j]]
  /\ purges' = purges + 1
  /\ UNCHANGED <<world, ids, bodies, blobs, nextSeq, nextChange, incarnation, now, index, pass, faults>>

(* objects_count_collect: the collector takes a body nothing names.        *)
Collect(b) ==
  /\ b \in bodies /\ \A i \in DOMAIN items : items[i].hash # b
  /\ bodies' = bodies \ {b} /\ blobs' = blobs \ {b}
  /\ purges' = purges + 1
  /\ UNCHANGED <<world, ids, items, nextSeq, nextChange, incarnation, now, index, pass, faults>>

(* collections_restamp_items: every item of a renamed collection stamped   *)
(* again, one purge counted for the keys under the old id.                 *)
Rename(c, d) ==
  LET moved == {i \in DOMAIN items : items[i].coll = ids[c]}
      nth(i) == Cardinality({j \in moved : j < i})
  IN  /\ d \notin {ids[e] : e \in Colls} /\ ids' = [ids EXCEPT ![c] = d]
      /\ faults < MaxFaults /\ faults' = faults + 1
      /\ items' = [i \in DOMAIN items |->
                     IF i \in moved THEN [items[i] EXCEPT !.coll = d,
                                            !.changed = nextChange + nth(i)]
                                    ELSE items[i]]
      /\ nextChange' = nextChange + Cardinality(moved)
      /\ purges' = purges + 1
      /\ UNCHANGED <<world, bodies, blobs, nextSeq, incarnation, now, index, pass>>

(* A file gone or failing its name, set aside; and one fetched again, or   *)
(* put back, under the name the store still holds.  Neither stamps a row.  *)
LoseBlob(b) ==
  /\ b \in blobs \cap Losable /\ faults < MaxFaults
  /\ blobs' = blobs \ {b} /\ faults' = faults + 1
  /\ UNCHANGED <<world, ids, items, bodies, nextSeq, nextChange, purges, incarnation, now, index, pass>>

PutBack(b) ==
  /\ b \in bodies \ blobs
  /\ blobs' = blobs \cup {b}
  /\ UNCHANGED <<world, ids, items, bodies, nextSeq, nextChange, purges, incarnation, now, index, pass, faults>>

(* A copy restored over the store, here one taken before anything was      *)
(* written: raise_incarnation runs on it before anything else opens it.    *)
Restore ==
  /\ faults < MaxFaults /\ nextChange > 1
  /\ ids' = [c \in Colls |-> c] /\ items' = <<>> /\ bodies' = {} /\ blobs' = {}
  /\ nextSeq' = 1 /\ nextChange' = 1 /\ purges' = 0
  /\ incarnation' = incarnation + 1 /\ faults' = faults + 1
  /\ UNCHANGED <<world, now, index, pass>>

Tick ==
  /\ now < world.days /\ now' = now + 1
  /\ UNCHANGED <<world, store, index, pass, faults>>

-----------------------------------------------------------------------------
(* The index's side.  A run is a function of the store and of the index it *)
(* finds: its steps are composed below in the order the coroutine asks for *)
(* them, each seeing what the ones before it wrote.                        *)

NoHorizon == 0 - 1

(* init and init_index_meta: an index built afresh from this store.        *)
Built ==
  [placement |-> <<>>, missing |-> {}, object |-> {}, occ |-> <<>>,
   msgs |-> <<>>, threads |-> <<>>, change |-> 0, purges |-> 0,
   horizon |-> NoHorizon, zone |-> 0, from |-> incarnation]

(* held: whether the index was built from this copy of the store and       *)
(* folded no stamp it has not given.                                       *)
Current == index.from = incarnation /\ index.change <= LastStamp

(* Horizon::occurrences: what of a body falls in the horizon drawn around  *)
(* h, a floating time read in zone z.                                      *)
Within(h) == (h - Back) .. (h + Ahead - 1)

OccursOn(b, t, z) ==
  LET day == t - (IF Floating[b] THEN z ELSE 0)
  IN  IF Recurring[b] THEN day >= StartOf[b] /\ (UntilOf[b] = Forever \/ day <= UntilOf[b])
                      ELSE day = StartOf[b]
Expand(b, h, z) == {t \in Within(h) : OccursOn(b, t, z)}

IsCalendar(i) == items[i].coll \notin Mails

(* DropPlacement, its summary text, flags, occurrences and missing record  *)
(* going with it.                                                          *)
Without(ix, ks) ==
  [ix EXCEPT !.placement = [k \in DOMAIN @ \ ks |-> @[k]],
             !.occ       = [k \in DOMAIN @ \ ks |-> @[k]],
             !.missing   = @ \ ks]

(* Mutant: a series is left alone once the old horizon holds its last day  *)
(* but one.                                                                *)
MutantUnspent(ix, b) == UntilOf[b] = Forever \/ UntilOf[b] > ix.horizon + Ahead

(* A series whose bound the old horizon had not reached, compared on its   *)
(* calendar day, or that states none.                                      *)
Unspent(ix, b) == UntilOf[b] = Forever \/ UntilOf[b] >= ix.horizon + Ahead

(* items_to_reexpand: every live calendar item when the zone moved, else   *)
(* the series not spent and the single items that enter the new window;    *)
(* read off sort_key, the start as UTC reads it.                           *)
ToReexpand(ix, h, z) ==
  {i \in DOMAIN items :
     LET b == items[i].hash IN
     /\ IsCalendar(i) /\ IsLive(i) /\ b # NoBody
     /\ \/ z # ix.zone
        \/ Recurring[b] /\ Unspent(ix, b)
        \/ ~Recurring[b] /\ StartOf[b] \in Within(h) \ Within(ix.horizon)}

(* roll, reexpand and record: the occurrences of what ToReexpand names     *)
(* replaced by those of the body its placement holds, none when that body  *)
(* is not read, and the horizon and zone recorded.                         *)
Roll(ix, z) ==
  IF ix.horizon = NoHorizon
    THEN [ix EXCEPT !.horizon = now, !.zone = z]
  ELSE IF ix.horizon = now /\ ix.zone = z THEN ix
  ELSE LET ks  == {Key(i) : i \in ToReexpand(ix, now, z)} \cap DOMAIN ix.placement
           new == [k \in ks |-> IF ix.placement[k].hash \in blobs
                                  THEN Expand(ix.placement[k].hash, now, z) ELSE {}]
       IN  [ix EXCEPT !.occ = new @@ @, !.horizon = now, !.zone = z]

(* Fold::hash: the body a live row is indexed by, its own when the index   *)
(* holds it or it is read.                                                 *)
Indexed(ix, i) ==
  IF items[i].hash \in ix.object \cup blobs THEN items[i].hash ELSE NoBody

(* emit, for one row: a row that left loses its placement; a live one has  *)
(* its body indexed, its placement written, a body not read recorded as    *)
(* missing and the occurrences replaced when the body is another.  A       *)
(* message placed, rebodied or dropped is touched.                         *)
FoldRow(st, i) ==
  LET ix   == st.ix
      k    == Key(i)
      held == k \in DOMAIN ix.placement
      h    == Indexed(ix, i)
      same == held /\ ix.placement[k].hash = h
      put  == [ix EXCEPT
                 !.object    = @ \cup ({h} \ {NoBody}),
                 !.placement = (k :> [link |-> items[i].link, hash |-> h,
                                      flag |-> items[i].flag]) @@ @,
                 !.missing   = IF items[i].hash # NoBody /\ h = NoBody
                                 THEN @ \cup {k} ELSE @ \ {k},
                 !.occ       = IF IsCalendar(i) /\ ~same
                                 THEN (k :> IF h \in blobs
                                              THEN Expand(h, ix.horizon, ix.zone)
                                              ELSE {}) @@ @
                                 ELSE @]
  IN  IF ~IsLive(i)
        THEN [ix |-> Without(ix, {k}),
              touched |-> st.touched \cup (IF held THEN {ix.placement[k].link} ELSE {})]
        ELSE [ix |-> put,
              touched |-> st.touched \cup (IF same \/ IsCalendar(i) THEN {} ELSE
                            {items[i].link} \cup (IF held THEN {ix.placement[k].link} ELSE {}))]

(* load_changed_items and load_missing_items, in the order of the stamps.  *)
ByStamp(S) == SetToSortSeq(S, LAMBDA i, j : items[i].changed < items[j].changed)

(* A body not read is met again only when its row is stamped.              *)
MutantMissing(ix) == <<>>

Missing(ix) == ByStamp({i \in DOMAIN items : Key(i) \in ix.missing})

Feed(ix) ==
  LET rows == ByStamp({i \in DOMAIN items : items[i].changed > ix.change})
  IN  SubSeq(rows, 1, IF Len(rows) < Batch THEN Len(rows) ELSE Batch)

FoldPage(st, rows) == FoldLeft(FoldRow, st, rows)

(* placements_gone and objects_gone: what the store holds no more.         *)
Gone(ix) == {k \in DOMAIN ix.placement : ~\E i \in DOMAIN items : Key(i) = k}

Reconcile(st) ==
  [ix |-> [Without(st.ix, Gone(st.ix)) EXCEPT !.object = @ \cap bodies],
   touched |-> st.touched \cup {st.ix.placement[k].link : k \in Gone(st.ix)}]

(* What the relink reads of a message (Statements::message): the mail      *)
(* placements holding it, those whose row the store still has, and the     *)
(* parent the first body among them names, else the first summary to name  *)
(* one.                                                                    *)
MailKeys(ix) == {k \in DOMAIN ix.placement :
                   k[1] \in Mails /\ k[1] \in {ids[c] : c \in Colls}}

Stored == {Key(i) : i \in DOMAIN items}

Held(ix)    == {ix.placement[k].link : k \in MailKeys(ix)}
Present(ix) == {ix.placement[k].link : k \in MailKeys(ix) \cap Stored}

First(S) == CHOOSE k \in S : \A m \in S : k[1] < m[1] \/ (k[1] = m[1] /\ k[2] <= m[2])

Summarised(i) == IF items[i].hash = NoBody THEN ListedReply[items[i].link]
                                           ELSE ReplyOf[items[i].hash]

Named(ix) ==
  [l \in Links |->
     LET ks   == {k \in DOMAIN ix.placement : ix.placement[k].link = l}
         read == {k \in ks \cap MailKeys(ix) : ix.placement[k].hash # NoBody}
         h    == ix.placement[First(read)].hash
         told == {k \in Stored : /\ items[k[2]].link = l /\ Summarised(k[2]) # NoLink
                                 /\ \E m \in ks : m[1] = k[1]}
     IN  IF read # {} /\ h \in blobs THEN NamedBy[h]
         ELSE IF told # {} THEN Summarised(First(told)[2]) ELSE NoLink]

Relinked(st) ==
  LET re == Relink(st.ix.msgs, st.ix.threads, st.touched,
                   Present(st.ix), Held(st.ix), Named(st.ix))
  IN  [st.ix EXCEPT !.msgs = re.msgs, !.threads = re.threads]

(* Every page records the purges, the ones no reconciliation followed too. *)
MutantFinished(ix, rows, full) ==
  LET end == IF rows = <<>> THEN ix.change ELSE items[Last(rows)].changed
  IN  [ix EXCEPT !.change = IF full \/ end > LastStamp THEN end ELSE LastStamp,
                 !.purges = purges]

(* after and finish: a full page records its last stamp with the purges    *)
(* the last completed pass recorded; the page exhausting the feed          *)
(* reconciles keys when the count moved, and records the store's cursor.   *)
Finished(ix, rows, full) ==
  LET end == IF rows = <<>> THEN ix.change ELSE items[Last(rows)].changed
  IN  [ix EXCEPT !.change = IF full \/ end > LastStamp THEN end ELSE LastStamp,
                 !.purges = IF full THEN @ ELSE purges]

(* resume, from the index's state read to the cursor written.              *)
Outcome(missing, z) ==
  LET rolled == [ix |-> Roll(index, z), touched |-> {}]
      again  == IF missing THEN FoldPage(rolled, Missing(rolled.ix)) ELSE rolled
      rows   == Feed(index)
      full   == Len(rows) >= Batch
      folded == FoldPage(again, rows)
      kept   == IF ~full /\ purges # index.purges THEN Reconcile(folded) ELSE folded
  IN  [ix |-> Finished(Relinked(kept), rows, full), full |-> full]

(* PimdirIndex::refresh: under index.lock, an index that is not this       *)
(* store's is built afresh, then runs are made until one exhausts the feed *)
(* or the deadline passes.  The first run of a pass meets again the bodies *)
(* not read.                                                               *)
Begin ==
  /\ pass = "idle" /\ pass' = "first"
  /\ index' = IF Current THEN index ELSE Built
  /\ UNCHANGED <<world, store, now, faults>>

Run(z) ==
  LET out == Outcome(pass = "first", z)
  IN  /\ pass # "idle"
      /\ index' = out.ix
      /\ pass' = IF out.full THEN "more" ELSE "idle"
      /\ UNCHANGED <<world, store, now, faults>>

(* The deadline, or a crash: what was committed stays.                     *)
Deadline ==
  /\ pass # "idle" /\ pass' = "idle"
  /\ faults < MaxFaults /\ faults' = faults + 1
  /\ UNCHANGED <<world, store, now, index>>

-----------------------------------------------------------------------------
Init ==
  /\ world \in Worlds
  /\ ids = [c \in Colls |-> c] /\ items = <<>> /\ bodies = {} /\ blobs = {}
  /\ nextSeq = 1 /\ nextChange = 1 /\ purges = 0 /\ incarnation = 1
  /\ now = 0 /\ index = Built /\ pass = "idle" /\ faults = 0

Write ==
  \/ \E i \in DOMAIN world.items :
                     \/ \E b \in world.items[i].bodies : Insert(i, b) \/ Rebody(i, b)
                     \/ Flag(i) \/ Delete(i) \/ Purge(i)
  \/ \E b \in Bodies : Collect(b) \/ LoseBlob(b) \/ PutBack(b)
  \/ \E r \in Renames : Rename(r[1], r[2])
  \/ Restore \/ Tick

Refresh == Begin \/ (\E z \in world.zones : Run(z)) \/ Deadline

Next == Write \/ Refresh

Spec == Init /\ [][Next]_vars

-----------------------------------------------------------------------------
TypeOK ==
  /\ DOMAIN items \subseteq 1 .. nextSeq - 1 /\ blobs \subseteq bodies
  /\ \A i \in DOMAIN items : items[i].changed \in 1 .. LastStamp
  /\ pass \in {"idle", "first", "more"}
  /\ DOMAIN index.occ \subseteq DOMAIN index.placement
  /\ index.missing \subseteq DOMAIN index.placement
  /\ \A l \in DOMAIN index.msgs : index.msgs[l].thread \in DOMAIN index.threads

(* What the index holds of an item up to the cursor is what the store      *)
(* holds: the placement of a live row with its flags and body, or with the *)
(* body it could not read recorded, none of a row deleted, and none of a   *)
(* row purged or under an old id once the purges are folded.  A pass cut   *)
(* short, a page ending between two stamps or a rename never leaves a row  *)
(* behind the cursor.  A placement never points to a body whose text is    *)
(* not in the index: a body collected and come back is indexed again.      *)
FoldedAgrees ==
  Current =>
    /\ \A i \in DOMAIN items : items[i].changed <= index.change =>
         LET k == Key(i) IN
         IF IsLive(i)
           THEN /\ k \in DOMAIN index.placement
                /\ index.placement[k].link = items[i].link
                /\ index.placement[k].flag = items[i].flag
                /\ \/ index.placement[k].hash = items[i].hash
                   \/ index.placement[k].hash = NoBody /\ k \in index.missing
           ELSE k \notin DOMAIN index.placement
    /\ index.purges = purges => DOMAIN index.placement \subseteq Stored
    /\ \A k \in DOMAIN index.placement :
         index.placement[k].hash \in index.object \cup {NoBody}

CaughtUp == Current /\ index.change = LastStamp /\ index.purges = purges /\ pass = "idle"

(* The threads kept from batch to batch, by relinking what each touched,   *)
(* are those the messages held and the parents they name give from         *)
(* nothing: after members joined, left, came in several copies, or named   *)
(* another parent, no phantom row stays and no thread is left unjoined.    *)
ThreadsAsRebuilt ==
  CaughtUp => AsDerived(index.msgs, index.threads, Present(index), Named(index))

(* A floating single item or bounded series is dated as UTC reads it when  *)
(* a roll picks what to expand, and may occur a day later.                 *)
Exact(b) == Floating[b] => Recurring[b] /\ UntilOf[b] = Forever

(* Within the horizon and the zone the index records, the occurrences of   *)
(* every calendar item are those of the body it is indexed by, whatever    *)
(* rolls, edits and zone changes came between: what a roll leaves alone    *)
(* has nothing new there.  What is still held outside, of an item the      *)
(* horizon has left, is an occurrence of that body too.                    *)
OccurrencesServed ==
  CaughtUp =>
    \A k \in DOMAIN index.placement :
      k[1] \notin Mails =>
        LET b == index.placement[k].hash IN
        IF b = NoBody THEN index.occ[k] = {}
        ELSE Exact(b) =>
               /\ index.occ[k] \cap Within(index.horizon) = Expand(b, index.horizon, index.zone)
               /\ \A t \in index.occ[k] : OccursOn(b, t, index.zone)

(* A run that begins a pass and exhausts the feed leaves the index at the  *)
(* store's last stamp and purges, and missing no body whose file is there: *)
(* one put back under its name is indexed though nothing stamped its row.  *)
PassCatchesUp ==
  [][pass = "first" /\ pass' = "idle" /\ faults' = faults =>
       /\ index'.purges = purges
       /\ index'.from = incarnation => index'.change = LastStamp
       /\ \A i \in DOMAIN items : items[i].hash \in blobs => Key(i) \notin index'.missing]_vars
=============================================================================
