------------------------------- MODULE Rekey --------------------------------
(***************************************************************************)
(* The rekey verb (src/src/rekey.rs) beside the sync of Sync.tla: a server *)
(* gives every member of a collection another handle, the handles of the   *)
(* store are void at once, and a rekey lists the new space whole, page by  *)
(* page, then carries each row onto its member's new handle by identity in *)
(* one write.  Other clients change the server between the pages.          *)
(*                                                                         *)
(* While its handles are void a source's syncs and fetches are refused by  *)
(* its connector, so they wait for the rekey; a person edits meanwhile.    *)
(* A key minted again from a handle is numbered past MaxHandle (Claim).    *)
(***************************************************************************)
EXTENDS Sync, Absence, SequencesExt

CONSTANTS
    Revisions,  \* handle -> the revision its member starts at
    PageSize,   \* handles a page of the listing spans
    Renumbers   \* how many times a server renumbers

VARIABLES
    void,       \* the sources whose handles the server gave anew
    rekey,      \* the rekey under way, or NoRekey
    renumbered, \* renumberings so far
    moved       \* history: stored handle -> the member's handle at the server

rekeyVars == <<void, rekey, renumbered, moved>>
allVars == <<vars, rekeyVars>>

ASSUME RekeyAssumption ==
    Revisions \in [Numbers -> Nat] /\ PageSize \in Nat \ {0} /\ Renumbers \in Nat

NoRekey == [state |-> "idle"]
Stay == [n \in Numbers |-> n]

(* A source synced once, holding copies of one identity, their bodies read *)
(* or not.                                                                 *)
RekeyInit ==
    /\ \E s \in Sources, l \in Links, carried \in BOOLEAN :
         LET member(n) == Member(s, l, Revisions[n], n, {})
             item(n)   == [revision |-> member(n).revision, flags |-> {},
                           body |-> IF carried THEN n ELSE NoBody]
             key(n)    == IF n = 1 THEN Hint(l) ELSE Minted(l, n)
             batch     == [n \in Numbers |-> Upsert(Name(key(n), n, item(n)))]
         IN  /\ srv = [n \in Numbers |-> member(n)]
             /\ items = Write([k \in Keys |-> NoItem], {}, s, batch).items
             /\ synced = [z \in Sources |-> z = s]
    /\ kept = {} /\ run = NoRun /\ ops = 0 /\ faults = 0 /\ owed = {}
    /\ body = MaxHandle
    /\ changed = [s \in Sources |-> {}]
    /\ void = {} /\ rekey = NoRekey /\ renumbered = 0 /\ moved = Stay

-----------------------------------------------------------------------------
(* The server's renumbering: its members keep everything but the handle.   *)
(* A handle may be another member's old one.  The listing under way is     *)
(* rejected at its next page.                                              *)
Renumber(s, to) ==
    /\ renumbered < Renumbers /\ renumbered' = renumbered + 1
    /\ run = NoRun \/ run.source # s
    /\ to # Stay /\ \A n \in Numbers : srv[n].live => srv[n].source = s
    /\ srv' = [n \in Numbers |-> srv[CHOOSE m \in Numbers : to[m] = n]]
    /\ changed' = [changed EXCEPT ![s] = Numbers]
    /\ void' = void \cup {s}
    /\ moved' = [n \in Numbers |-> to[moved[n]]]
    /\ rekey' = IF rekey = NoRekey THEN rekey ELSE [rekey EXCEPT !.rejected = TRUE]
    /\ UNCHANGED <<store, synced, run, body, ops, faults, owed>>

-----------------------------------------------------------------------------
(* The key a rebuilt member takes (key_of): that of the old copy its       *)
(* revision, then its body tells, then the hint, then a minted copy's in   *)
(* handle order, then a mint of its own.                                   *)

OldBase(p) == IF p.base = NoBase
              THEN [flags |-> Unknown, revision |-> NoRev, object |-> NoBody] ELSE p.base

First(rows) == CHOOSE p \in rows : \A q \in rows \ {p} : Before([row |-> p], [row |-> q])

Copies(l, rows) ==
    {p \in rows : p.link = Hint(l) \/ (IsReal(p.handle) /\ p.link = Minted(l, p.handle[2]))}

(* Mutant: any unclaimed copy will do, in handle order.                    *)
MutantKeyOf(l, n, item, claimed, left) ==
    LET free == {p \in Copies(l, left) : p.link \notin claimed}
    IN  IF free # {} THEN First(free).link
        ELSE Claim(l, n, claimed \cup {p.link : p \in left})

(* Mutant: a member takes the identity its meta names.                     *)
MutantSameKey(l, n, item, claimed, left) == Hint(l)

KeyOf(l, n, item, claimed, left) ==
    LET copies == Copies(l, left)
        free   == {p \in copies : p.link \notin claimed}
        byRev  == {p \in free : item.revision # NoRev /\ OldBase(p).revision = item.revision}
        pool   == IF byRev = {} THEN free ELSE byRev
        byBody == {p \in pool : item.body # NoBody /\ item.body \in {OldBase(p).object, p.object}}
        minted == {p \in copies : p.link # Hint(l)}
    IN  IF byBody # {} THEN First(byBody).link
        ELSE IF byRev # {} THEN First(byRev).link
        ELSE IF Hint(l) \notin claimed THEN Hint(l)
        ELSE IF minted # {} THEN First(minted).link
        ELSE Claim(l, n, claimed \cup {p.link : p \in left})

-----------------------------------------------------------------------------
(* The row a member lands on.                                              *)

(* The pull a sync would make: no body, the base at the listed revision.   *)
PulledAnew(row, item, flags) ==
    [row EXCEPT !.object = NoBody, !.flags = flags,
                !.base.revision = item.revision, !.base.object = NoBody]

(* carry: flags merge again; a revision the base does not hold is a remote *)
(* edit, which conflicts with a local one and revives a tombstone.         *)
Carry(p, n, item) ==
    LET base   == OldBase(p)
        flags  == MergeFlags(base.flags, p.flags, item.flags)
        edited == item.revision # NoRev /\ item.revision # base.revision
        local  == p.object # NoBody /\ p.object # base.object
        row    == [p EXCEPT !.handle = Real(n), !.flags = flags, !.status = "Clean",
                            !.conflictRevision = NoRev, !.conflictObject = NoBody,
                            !.base = [base EXCEPT !.flags = item.flags]]
        still  == IF p.conflictRevision # NoRev \/ edited THEN item.revision ELSE NoRev
        owing  == IF flags # item.flags THEN "Dirty" ELSE "Clean"
    IN  CASE p.status = "Conflict" ->
               [row EXCEPT !.status = "Conflict", !.conflictRevision = still,
                           !.conflictObject = IF still = p.conflictRevision
                                              THEN p.conflictObject ELSE NoBody]
          [] p.status = "Tombstone" ->
               IF edited THEN PulledAnew(row, item, item.flags)
               ELSE [row EXCEPT !.status = "Tombstone"]
          [] p.status \in {"Clean", "Dirty"} ->
               IF edited /\ local
               THEN [row EXCEPT !.status = "Conflict", !.conflictRevision = item.revision]
               ELSE IF edited THEN [PulledAnew(row, item, flags) EXCEPT !.status = owing]
               ELSE [row EXCEPT !.status =
                        IF local /\ p.status = "Dirty" THEN "Dirty" ELSE owing]

(* fresh: a member no old row is carried onto; its body is not read.       *)
Fresh(n, item, key) == Name(key, n, [item EXCEPT !.body = NoBody])

-----------------------------------------------------------------------------
(* The one batch (rebuild): every drop before every upsert.                *)

(* One listed member, in handle order: the row under its key is carried.   *)
Rehome(acc, n, listed) ==
    LET item  == listed[n].item
        key   == KeyOf(listed[n].link, n, item, acc.claimed, acc.left)
        found == {p \in acc.left : p.link = key}
    IN  [acc EXCEPT
           !.left = @ \ found,
           !.claimed = @ \cup {key},
           !.carried = @ \cup found,
           !.inPlace = @ \cup {p \in found : p.handle = Real(n)},
           !.upserts = Append(@, Upsert(IF found = {} THEN Fresh(n, item, key)
                                        ELSE Carry(CHOOSE p \in found : TRUE, n, item)))]

(* Mutant: an edit no member carries goes with its row.                    *)
MutantEdited(p) == FALSE

(* A body of its own no member carries: staged anew as a create.           *)
HoldsEdit(p) ==
    /\ p.status \in {"Dirty", "Conflict"}
    /\ p.object # NoBody /\ OldBase(p).object # p.object

Restaged(p) ==
    [p EXCEPT !.handle = p.link, !.status = "Created", !.conflictRevision = NoRev,
              !.conflictObject = NoBody, !.base = NoBase]

Rebuild(rows, listed) ==
    LET staged  == {p \in rows : p.status = "Created"}
        old     == rows \ staged
        walk    == FoldLeft(LAMBDA acc, n : Rehome(acc, n, listed),
                            [left |-> old, claimed |-> {p.link : p \in staged}, carried |-> {},
                             inPlace |-> {}, upserts |-> <<>>],
                            SetToSortSeq(DOMAIN listed, <))
        edits   == {p \in walk.left : HoldsEdit(p)}
        reason(p) == IF p \in edits THEN "Superseded"
                     ELSE IF p \in walk.carried THEN "Rekeyed" ELSE "Deleted"
        ordered(S) == SetToSortSeq(S, LAMBDA p, q : Before([row |-> p], [row |-> q]))
        dropped == ordered(old \ walk.inPlace)
        again   == ordered(edits)
    IN  [i \in DOMAIN dropped |-> Drop(dropped[i].handle, reason(dropped[i]))]
        \o walk.upserts
        \o [i \in DOMAIN again |-> Upsert(Restaged(again[i]))]

(* The based rows a batch drops as gone, which the guard counts.           *)
Based(rows) == {p.handle : p \in {q \in rows : q.base # NoBase}}
Gone(rows, batch) ==
    Based(rows) \cap {batch[i].handle : i \in {j \in DOMAIN batch :
                          batch[j].op = "Drop" /\ batch[j].reason = "Deleted"}}

-----------------------------------------------------------------------------
(* The run: load, then pages from a cursor, then the write.                *)

Listing(s, accept) ==
    [state |-> "listing", source |-> s, accept |-> accept, cursor |-> 0, listed |-> <<>>,
     since |-> srv, rejected |-> FALSE]

RekeyStart(s, accept) ==
    /\ Idle /\ rekey = NoRekey
    /\ s \in void
    /\ rekey' = Listing(s, accept)
    /\ UNCHANGED <<vars, void, renumbered, moved>>

(* CursorRejected: everything read is forgotten and listed again.          *)
RekeyRejected ==
    /\ rekey.state = "listing" /\ rekey.rejected
    /\ rekey' = Listing(rekey.source, rekey.accept)
    /\ UNCHANGED <<vars, void, renumbered, moved>>

(* A page; the last one is rebuilt into the batch, or parks the rekey.     *)
RekeyPage(carried) ==
    /\ rekey.state = "listing" /\ ~rekey.rejected
    /\ LET s      == rekey.source
           until  == rekey.cursor + PageSize
           page   == {n \in Live(s) : rekey.cursor < n /\ n <= until}
           listed == [n \in page |-> [item |-> Listed(n, carried, {}), link |-> srv[n].link]]
                     @@ rekey.listed
           rows   == Project(items, s)
           batch  == Rebuild(rows, listed)
           parked == Guard(Cardinality(Gone(rows, batch)), Cardinality(Based(rows)),
                           listed # <<>>, rekey.accept)
       IN  /\ carried \subseteq page /\ (ReadsBodies => carried = page)
           /\ rekey' = CASE until < MaxHandle ->
                              [rekey EXCEPT !.cursor = until, !.listed = listed]
                         [] until >= MaxHandle /\ parked -> NoRekey
                         [] until >= MaxHandle /\ ~parked ->
                              [state |-> "writing", source |-> s, batch |-> batch,
                               listed |-> listed, since |-> rekey.since, at |-> moved,
                               rejected |-> FALSE]
    /\ UNCHANGED <<vars, void, renumbered, moved>>

(* The checkpoint is the one the first page carried.                       *)
RekeyWrite ==
    /\ rekey.state = "writing"
    /\ LET s == rekey.source
       IN  /\ ~Refused(items, s, rekey.batch)
           /\ Stored(Write(items, kept, s, rekey.batch))
           /\ changed' = [changed EXCEPT ![s] =
                  IF rekey.rejected THEN Numbers ELSE {n \in Numbers : srv[n] # rekey.since[n]}]
           /\ void' = IF rekey.rejected THEN void ELSE void \ {s}
    /\ moved' = [n \in Numbers |-> LET old == CHOOSE m \in Numbers : rekey.at[m] = n IN moved[old]]
    /\ owed' = owed \ Forfeited(items')
    /\ rekey' = NoRekey
    /\ UNCHANGED <<srv, synced, run, body, ops, faults, renumbered>>

RekeyCrash ==
    /\ rekey # NoRekey
    /\ faults < MaxFaults /\ faults' = faults + 1
    /\ rekey' = NoRekey
    /\ UNCHANGED <<store, servers, synced, run, body, ops, owed, void, renumbered, moved>>

-----------------------------------------------------------------------------
Engine ==
    \/ Mutate
    \/ \E s \in Sources \ void : Sync(s)
    \/ \E s \in Sources \ void : \E p \in Project(items, s) : Upgrade(s, p)
    \/ MergeStep \/ Push \/ Record \/ Crash

RekeyNext ==
    \/ Client /\ UNCHANGED rekeyVars
    \/ rekey = NoRekey /\ Engine /\ UNCHANGED rekeyVars
    \/ \E s \in Sources, to \in Permutations(Numbers) : Renumber(s, to)
    \/ \E s \in Sources, accept \in BOOLEAN : RekeyStart(s, accept)
    \/ RekeyRejected
    \/ \E carried \in SUBSET Numbers : RekeyPage(carried)
    \/ RekeyWrite
    \/ RekeyCrash

RekeySpec == RekeyInit /\ [][RekeyNext]_allVars

-----------------------------------------------------------------------------
(* No batch a rebuild makes is one the storage refuses: no handle is bound *)
(* twice and no key repointed, whatever handles the new space reuses.      *)
RebuildTaken ==
    rekey.state = "writing" => ~Refused(items, rekey.source, rekey.batch)

(* An edit no server was given outlives the rekey as a row that owes its   *)
(* push, carried, in conflict or staged anew, were its member gone and its *)
(* handle given away (rebuild).                                            *)
EditsKept ==
    [][RekeyWrite =>
        \A p \in Project(items, rekey.source) :
            p.object \in owed =>
                \E q \in Project(items', rekey.source) :
                    q.object = p.object /\ q.status # "Clean"]_allVars

(* A row whose pending change the rekey must carry: its member was listed  *)
(* at n as the row's base has it.                                          *)
StillAt(p, n) ==
    /\ p.status \in {"Dirty", "Tombstone"} /\ p.base # NoBase
    /\ n \in DOMAIN rekey.listed
    /\ rekey.listed[n].item.revision = p.base.revision
    /\ rekey.listed[n].item.body \in {NoBody, p.base.object}

(* Every copy listed is at a revision some row holds: one that moved takes *)
(* the first key left, which another copy's row may be under.              *)
NoneMoved(rows) ==
    \A n \in DOMAIN rekey.listed :
        \E q \in rows : OldBase(q).revision = rekey.listed[n].item.revision

CarriedTo(p, n) ==
    \E q \in Project(items', rekey.source) :
        q.handle = Real(n) /\ q.link = p.link /\ q.status = p.status /\ q.object = p.object

CarriesPending(keyed(_)) ==
    LET rows == Project(items, rekey.source)
    IN  NoneMoved(rows) =>
            \A p \in {q \in rows : IsReal(q.handle) /\ keyed(q)} :
                LET n == rekey.at[p.handle[2]]
                IN  StillAt(p, n) => CarriedTo(p, n)

(* A pending edit or delete is carried onto its own member and no other,   *)
(* the one listed at the revision its base holds, whichever handle the     *)
(* renumbering gave it and whatever member holds the old one now; its key  *)
(* is its hint, or one minted from the handle it held (rebuild, key_of).   *)
PendingCarried ==
    [][RekeyWrite => CarriesPending(LAMBDA p : p.link[2] \in {0, p.handle[2]})]_allVars

-----------------------------------------------------------------------------
(* What the comments say and the code does not keep (README, under         *)
(* Disagreements).                                                         *)

(* The same of a minted key an earlier rekey carried to another handle, as *)
(* the comment on key_of says: the minted key an old copy carries is found *)
(* though the handle it was minted from is what the change took away.      *)
PendingCarriedAgain == [][RekeyWrite => CarriesPending(LAMBDA p : TRUE)]_allVars
=============================================================================
