-------------------------------- MODULE Sync --------------------------------
(***************************************************************************)
(* The engine over one collection: sync (src/src/sync.rs), mutate          *)
(* (src/src/mutate.rs) and upgrade (src/src/upgrade.rs), run against the   *)
(* store of Hub.tla and the servers the sources stand for.                 *)
(*                                                                         *)
(* A run of sync lists a page, names its members, merges one candidate at  *)
(* a time into write batches, pushes in chunks and records each chunk; the *)
(* owner may crash between any two of those steps, which drops the run and *)
(* keeps what its writes committed.  Other clients change the servers at   *)
(* any time.  Mutate and upgrade take the store exclusively, so they run   *)
(* only while no sync does.  A listing is one page here, the absences it   *)
(* finds accepted: pages, cursors, stamps, heads and parked absences are   *)
(* Rounds.tla's.                                                           *)
(***************************************************************************)
EXTENDS Hub

CONSTANTS
    Links,           \* the identities content states
    MaxHandle,       \* how many members the servers ever hold
    MaxOps,          \* how many times a person or another client acts
    MaxFaults,       \* how many crashes, refusals and lost answers happen
    WriteChunk,      \* WRITE_CHUNK: the writes that close a batch
    PushChunk,       \* PUSH_CHUNK: the changes of one push
    ReportsRevision, \* whether an accepted content push answers a revision
    ReadsFlags,      \* whether a listing always reads the markers
    ReadsBodies      \* whether a listing always carries the bodies

VARIABLES
    items,   \* the hub: key -> item
    kept,    \* bodies set aside as retained items of their own
    srv,     \* the members of every server, by handle number
    changed, \* source -> members changed since its stored checkpoint
    synced,  \* source -> whether a round ever closed
    run,     \* the sync run under way, or NoRun
    body,    \* the last body written by anyone
    ops,     \* actions a person or another client took
    faults,  \* crashes, refusals and lost answers so far
    owed     \* history: bodies written here that no server was given yet

vars == <<items, kept, srv, changed, synced, run, body, ops, faults, owed>>
store == <<items, kept>>
servers == <<srv, changed>>

ASSUME LinksAssumption == Links \subseteq Nat \ {0} /\ IsFiniteSet(Links)
ASSUME BoundsAssumption ==
    /\ MaxHandle \in Nat /\ MaxOps \in Nat /\ MaxFaults \in Nat
    /\ WriteChunk \in Nat \ {0} /\ PushChunk \in Nat \ {0}
ASSUME BesideMatches ==
    IsFiniteSet(Sources) /\ BesideOthers = (Cardinality(Sources) > 1)

Numbers == 1..MaxHandle
Hint(l) == <<l, 0>>
Minted(l, n) == <<l, n>>
(* claim: the hint while free, else minted from the handle, over and over   *)
(* while the key is taken.                                                 *)
Claim(l, n, taken) ==
    LET mint(d) == Minted(l, n + d * MaxHandle)
    IN  IF Hint(l) \notin taken THEN Hint(l)
        ELSE mint(CHOOSE d \in 0..Cardinality(taken) :
                      mint(d) \notin taken /\ \A e \in 0..(d - 1) : mint(e) \in taken)

SyncKeys == {Hint(l) : l \in Links} \cup {Minted(l, n) : l \in Links, n \in Numbers}
(* A protocol handle, and the provisional one a key derives.               *)
Real(n) == <<0, n>>
IsReal(h) == h[1] = 0
Handles == {Real(n) : n \in Numbers} \cup SyncKeys

ASSUME KeysAssumption == SyncKeys \subseteq Keys
ASSUME AbsentAssumption ==
    /\ NoBase \notin Bases
    /\ NoBinding \notin Bindings(Handles)
    /\ NoItem \notin HubItems(Handles)

NoMember == [live |-> FALSE]
NoRun == [source |-> "none"]
Idle == run = NoRun
Live(s) == {n \in Numbers : srv[n].live /\ srv[n].source = s}
Used == {n \in Numbers : srv[n] # NoMember}
Full == Used = Numbers

(* The body a new resource holds: fresh where content is mutable, the one  *)
(* message the identity names otherwise.                                   *)
NewBody(l) == IF Mutable THEN body + 1 ELSE l
NewRevision == IF Mutable THEN 1 ELSE NoRev

Init ==
    /\ items = [k \in Keys |-> NoItem]
    /\ kept = {}
    /\ srv = [n \in Numbers |-> NoMember]
    /\ changed = [s \in Sources |-> {}]
    /\ synced = [s \in Sources |-> FALSE]
    /\ run = NoRun
    /\ body = IF Mutable THEN 0 ELSE CHOOSE m \in Links : \A l \in Links : l <= m
    /\ ops = 0
    /\ faults = 0
    /\ owed = {}

-----------------------------------------------------------------------------
(* The servers: what other clients do, and what a push does.               *)

Touch(n, member) ==
    /\ srv' = [srv EXCEPT ![n] = member]
    /\ changed' = [changed EXCEPT ![member.source] = @ \cup {n}]

(* A run under way: what changes after its listing is past its checkpoint. *)
Past(r, n, s) == IF r # NoRun /\ r.source = s THEN [r EXCEPT !.since = @ \cup {n}] ELSE r

Member(s, l, rev, b, flags) ==
    [live |-> TRUE, source |-> s, link |-> l, revision |-> rev, body |-> b, flags |-> flags]

ClientActs == ops < MaxOps /\ ops' = ops + 1

ClientCreates(s, l) ==
    /\ ClientActs
    /\ \E n \in Numbers :
         /\ n = Cardinality(Used) + 1
         /\ Touch(n, Member(s, l, NewRevision, NewBody(l), {}))
         /\ run' = Past(run, n, s)
    /\ body' = IF Mutable THEN body + 1 ELSE body
    /\ owed' = owed \ {NewBody(l)}
    /\ UNCHANGED <<store, synced, faults>>

ClientEdits(n) ==
    /\ Mutable /\ srv[n].live
    /\ ClientActs
    /\ Touch(n, [srv[n] EXCEPT !.body = body + 1, !.revision = @ + 1])
    /\ run' = Past(run, n, srv[n].source)
    /\ body' = body + 1
    /\ UNCHANGED <<store, synced, faults, owed>>

ClientFlags(n, flags) ==
    /\ srv[n].live /\ srv[n].flags # flags
    /\ ClientActs
    /\ Touch(n, [srv[n] EXCEPT !.flags = flags])
    /\ run' = Past(run, n, srv[n].source)
    /\ UNCHANGED <<store, synced, body, faults, owed>>

ClientDeletes(n) ==
    /\ srv[n].live
    /\ ClientActs
    /\ Touch(n, [srv[n] EXCEPT !.live = FALSE])
    /\ run' = Past(run, n, srv[n].source)
    /\ UNCHANGED <<store, synced, body, faults, owed>>

-----------------------------------------------------------------------------
(* Naming a page (name_members, name, land).                               *)

Listed(n, carried, unread) ==
    [revision |-> srv[n].revision,
     flags |-> IF n \in unread THEN Unknown ELSE srv[n].flags,
     body |-> IF n \in carried THEN srv[n].body ELSE NoBody]

(* land: the create moves onto the listed handle.  Another body there is   *)
(* left to the content axis, an unread one conflicts whatever the policy.  *)
Land(create, n, item) ==
    LET mutable  == item.revision # NoRev /\ create.object # NoBody
        diverged == mutable /\ item.body # NoBody /\ item.body # create.object
        unread   == mutable /\ item.body = NoBody
        taken    == IF ~diverged /\ item.body # NoBody THEN item.body ELSE create.object
        object   == IF create.object = NoBody THEN taken ELSE create.object
        base     == [flags    |-> item.flags,
                     revision |-> IF diverged THEN NoRev ELSE item.revision,
                     object   |-> IF diverged \/ unread THEN NoBody ELSE taken]
    IN  [create EXCEPT
           !.handle = Real(n),
           !.object = object,
           !.base = base,
           !.status = IF unread THEN "Conflict"
                      ELSE IF base.flags = create.flags /\ base.object = object
                      THEN "Clean" ELSE "Dirty",
           !.conflictRevision = IF unread THEN item.revision ELSE NoRev,
           !.conflictObject = NoBody]

Name(key, n, item) ==
    [handle |-> Real(n), link |-> key, object |-> item.body, flags |-> item.flags,
     status |-> "Clean", conflictRevision |-> NoRev, conflictObject |-> NoBody,
     base |-> [flags |-> item.flags, revision |-> item.revision, object |-> item.body]]

(* A handle to merge: its row, what the page says of it, the writes that   *)
(* go first, and whether naming made the row.                              *)
Candidate(row, seen, item, first, fresh) ==
    [row |-> row, seen |-> seen, item |-> item, first |-> first, fresh |-> fresh]

(* The new members of a page state identities; the first of each, in       *)
(* handle order.                                                           *)
IsFirst(n, new) == \A m \in new : srv[m].link = srv[n].link => n <= m

(* Mutant: a listed member never lands a pending create.                   *)
MutantLanding(local, new, n) == {}

(* take_pending_create: the first member stating a hint takes the pending  *)
(* create that hint holds, the later ones are minted.                      *)
Landing(local, new, n) ==
    IF ~IsFirst(n, new) THEN {}
    ELSE {p \in local : /\ p.link = Hint(srv[n].link)
                        /\ p.status = "Created"
                        /\ p.base = NoBase}

(* The key of a member that lands nothing.  Keys are claimed by every row   *)
(* loaded, the vanished ones included, and by the members named before it: *)
(* the hint by the first, a minted key by no other.                        *)
KeyFor(local, new, n) ==
    LET hint    == Hint(srv[n].link)
        claimed == {p.link : p \in local} \cup (IF IsFirst(n, new) THEN {} ELSE {hint})
    IN  Claim(srv[n].link, n, claimed)

NameMember(local, new, n, item) ==
    LET creates == Landing(local, new, n)
        create  == CHOOSE p \in creates : TRUE
    IN  IF creates # {}
        THEN Candidate(Land(create, n, item), "listed", item,
                       <<Drop(create.handle, "Superseded")>>, TRUE)
        ELSE Candidate(Name(KeyFor(local, new, n), n, item), "listed", item, <<>>, TRUE)

Landed(local, new) == UNION {Landing(local, new, n) : n \in new}

-----------------------------------------------------------------------------
(* Opening the merge (open_merge, Merge::narrow, Join).                    *)

(* Provisional handles sort before the protocol's own.                     *)
Before(c, d) ==
    LET h == c.row.handle
        g == d.row.handle
    IN  IF IsReal(h) # IsReal(g) THEN IsReal(g)
        ELSE h[1] < g[1] \/ (h[1] = g[1] /\ h[2] < g[2])

(* Mutant: only what the page names is merged.                             *)
MutantNarrow(local, page, gone) ==
    {Candidate(p, "listed", page[p.handle[2]], <<>>, FALSE) :
        p \in {q \in local : IsReal(q.handle) /\ q.handle[2] \in DOMAIN page}}
    \cup {Candidate(p, "gone", NoChange, <<>>, FALSE) :
              p \in {q \in local : q.handle \in gone}}

(* The rows a page narrows to: what it lists or finds gone, and every row  *)
(* that is not clean, whose pending push the listing would never revisit.  *)
Narrow(local, page, gone) ==
    LET listed  == {p \in local : /\ IsReal(p.handle) /\ p.handle[2] \in DOMAIN page
                                  /\ p.handle \notin gone}
        missing == {p \in local : p.handle \in gone}
        owing   == {p \in local : p.status # "Clean"} \ (listed \cup missing)
    IN  {Candidate(p, "listed", page[p.handle[2]], <<>>, FALSE) : p \in listed}
        \cup {Candidate(p, "gone", NoChange, <<>>, FALSE) : p \in missing}
        \cup {Candidate(p, "listed", Unlisted(p), <<>>, FALSE) :
                 p \in {q \in owing : q.base # NoBase}}
        \cup {Candidate(p, "create", NoChange, <<>>, FALSE) :
                 p \in {q \in owing : q.base = NoBase}}

(* One run up to its merge: load, list, name.  A delta answers what moved  *)
(* since the checkpoint, a round every member, its absences being the      *)
(* based rows it did not list.                                             *)
List(s, round, carried, unread) ==
    /\ Idle
    /\ ~round => synced[s]
    /\ LET local  == Project(items, s)
           live   == IF round THEN Live(s) ELSE Live(s) \cap changed[s]
           page   == [n \in live |-> Listed(n, carried, unread)]
           bound  == {p.handle : p \in {q \in local : IsReal(q.handle)}}
           gone   == IF round THEN bound \ {Real(n) : n \in live}
                     ELSE {Real(n) : n \in changed[s] \ live}
           new    == {n \in live : Real(n) \notin bound}
       IN  /\ carried \subseteq live /\ unread \subseteq live
           /\ ReadsBodies => carried = live
           /\ ReadsFlags => unread = {}
           /\ run' = [source |-> s, since |-> {}, writes |-> <<>>, pushes |-> <<>>,
                      answered |-> 0,
                      todo |-> Narrow(local \ Landed(local, new), page, gone)
                               \cup {NameMember(local, new, n, page[n]) : n \in new}]
    /\ UNCHANGED <<store, servers, synced, body, ops, faults, owed>>

-----------------------------------------------------------------------------
(* Merging one candidate (merge_step, merge).                              *)

AddChange(p) == [kind |-> "Add", link |-> p.link, object |-> p.object, flags |-> p.flags]

(* A row with no base: a create to push, one its item's conflict holds     *)
(* back, or a create another source deleted.                               *)
MergeCreate(p) ==
    IF p.status = "Tombstone" THEN Outcome(p, <<Drop(p.handle, "Deleted")>>, NoChange)
    ELSE IF p.status = "Created" /\ "add" \in Rights /\ p.object # NoBody
    THEN Outcome(p, <<>>, AddChange(p))
    ELSE Untouched(p)

Merge(c) ==
    CASE c.seen = "gone"   -> MergeVanished(c.row)
      [] c.seen = "create" -> MergeCreate(c.row)
      [] c.seen = "listed" -> MergeListed(c.row, c.item)

(* A row naming made is written even when the merge moved nothing.         *)
WritesOf(c, out) ==
    c.first \o (IF c.fresh /\ out.writes = <<>> THEN <<Upsert(c.row)>> ELSE out.writes)
PushesOf(out) ==
    IF out.change = NoChange THEN <<>> ELSE <<[change |-> out.change, row |-> out.row]>>

Step(c, out) ==
    [writes |-> WritesOf(c, out), pushes |-> PushesOf(out),
     flush  |-> \E i \in DOMAIN out.writes : out.writes[i].op = "Overrule"]
Merged(c) == Step(c, Merge(c))

(* A delete takes the divergence recorded on its item with it.             *)
Forfeited(new) == {new[k].conflictObject : k \in {j \in Keys : new[j] # NoItem /\ new[j].deleted}}

Stored(written) == items' = written.items /\ kept' = written.kept

(* A batch the storage refuses ends the run, nothing of it written.        *)
Commit(batch, next) ==
    IF Refused(items, run.source, batch)
    THEN run' = NoRun /\ UNCHANGED <<store, owed>>
    ELSE /\ Stored(Write(items, kept, run.source, batch))
         /\ run' = next
         /\ owed' = owed \ Forfeited(items')

(* Batches are cut between candidates; a body kept before a push goes over *)
(* it lands before any push.                                               *)
Staged(next, flush) ==
    IF Len(next.writes) >= WriteChunk \/ flush
    THEN Commit(next.writes, [next EXCEPT !.writes = <<>>])
    ELSE run' = next /\ UNCHANGED <<store, owed>>

Advanced(c, merged) ==
    Staged([run EXCEPT !.todo = @ \ {c}, !.writes = @ \o merged.writes,
                       !.pushes = @ \o merged.pushes],
           merged.flush)

(* The join is merged in handle order.                                     *)
MergeStep ==
    /\ ~Idle
    /\ \E c \in run.todo :
         /\ \A d \in run.todo \ {c} : Before(c, d)
         /\ Advanced(c, Merged(c))
    /\ UNCHANGED <<servers, synced, body, ops, faults>>

-----------------------------------------------------------------------------
(* Pushing a chunk (step, push_chunk) and settling it.                     *)

Pushing == ~Idle /\ run.todo = {} /\ run.pushes # <<>> /\ run.answered < PushChunk
Current == Head(run.pushes)

Answer(outcome, assigned, revision) ==
    [outcome |-> outcome, assigned |-> assigned, revision |-> revision]
NoAnswer == Answer("lost", 0, NoRev)
Rejected == Answer("rejected", 0, NoRev)

(* Mutant: the provisional handle is dropped as deleted.                   *)
MutantRekeyCreate(p, n, revision) ==
    LET placed == [p EXCEPT !.handle = Real(n), !.status = "Clean",
                            !.base = [flags |-> p.flags, revision |-> revision,
                                      object |-> p.object]]
    IN  <<Drop(p.handle, "Deleted"), Upsert(placed)>>

(* rekey_create: the placement moves under the assigned handle, clean.     *)
RekeyCreate(p, n, revision) ==
    LET placed == [p EXCEPT !.handle = Real(n), !.status = "Clean",
                            !.base = [flags |-> p.flags, revision |-> revision,
                                      object |-> p.object]]
    IN  <<Drop(p.handle, "Superseded"), Upsert(placed)>>

(* settle: an accepted push moves the row it was derived from.             *)
SettlePush(push, answer) ==
    IF answer.outcome # "accepted" THEN <<>>
    ELSE CASE push.change.kind = "SetFlags" ->
               <<Upsert(Rebase(push.row, push.row.flags))>>
           [] push.change.kind = "Update" -> <<Upsert(RebaseContent(push.row, answer.revision))>>
           [] push.change.kind = "Remove" -> <<Drop(push.row.handle, "Deleted")>>
           [] push.change.kind = "Add" -> RekeyCreate(push.row, answer.assigned, answer.revision)

(* A change is settled into the batch as it is answered; the batch is      *)
(* written once its chunk is.                                              *)
Answered(r, answer) ==
    [r EXCEPT !.pushes = Tail(@), !.answered = @ + 1,
              !.writes = @ \o SettlePush(Head(r.pushes), answer)]

Stale(n, ifMatch) == ~srv[n].live \/ (ifMatch # NoRev /\ ifMatch # srv[n].revision)

(* The revision an answer reports.                                         *)
Reported(rev) == IF ReportsRevision THEN {rev} ELSE {rev, NoRev}

(* The server takes a change and answers it, or its answer is lost.        *)
Take(n, member, assigned, rev) ==
    /\ Touch(n, member)
    /\ \/ /\ \E r \in Reported(rev) :
               run' = Past(Answered(run, Answer("accepted", assigned, r)), n, member.source)
          /\ UNCHANGED faults
       \/ /\ faults < MaxFaults /\ faults' = faults + 1
          /\ run' = Past(Answered(run, NoAnswer), n, member.source)
    /\ UNCHANGED <<store, synced, body, ops>>

PushUpdate ==
    /\ Pushing /\ Current.change.kind = "Update"
    /\ LET n == Current.row.handle[2]
           m == srv[n]
           b == Current.change.object
       IN  /\ ~Stale(n, Current.change.ifMatch)
           /\ Take(n, [m EXCEPT !.body = b,
                                !.revision = IF Mutable THEN @ + 1 ELSE NoRev],
                   0, IF Mutable THEN m.revision + 1 ELSE NoRev)
           /\ owed' = owed \ {b}

PushFlags ==
    /\ Pushing /\ Current.change.kind = "SetFlags"
    /\ LET n == Current.row.handle[2]
           c == Current.change
       IN  /\ srv[n].live
           /\ Take(n, [srv[n] EXCEPT !.flags = (@ \cup c.add) \ c.remove], 0, NoRev)
    /\ UNCHANGED owed

PushRemove ==
    /\ Pushing /\ Current.change.kind = "Remove"
    /\ LET n == Current.row.handle[2]
       IN  IF srv[n].live
           THEN /\ ~Stale(n, Current.change.ifMatch)
                /\ Take(n, [srv[n] EXCEPT !.live = FALSE], 0, NoRev)
           ELSE \* A remove whose target is gone already is accepted.
                /\ run' = Answered(run, Answer("accepted", 0, NoRev))
                /\ UNCHANGED <<store, servers, synced, body, ops, faults>>
    /\ UNCHANGED owed

(* Accepted with no handle (an APPEND without UIDPLUS) is as good as lost. *)
PushAdd ==
    /\ Pushing /\ Current.change.kind = "Add"
    /\ \E n \in Numbers :
         LET c == Current.change
             f == IF c.flags = Unknown THEN {} ELSE c.flags
         IN  /\ n = Cardinality(Used) + 1
             /\ Take(n, Member(run.source, c.link[1], NewRevision, c.object, f),
                     n, NewRevision)
    /\ owed' = owed \ {Current.change.object}

(* The precondition fails, the member is gone, the server is at its quota  *)
(* or will not.                                                            *)
PushRejected ==
    /\ Pushing
    /\ \/ /\ Current.change.kind \in {"Update", "Remove"}
          /\ Stale(Current.row.handle[2], Current.change.ifMatch)
          /\ Current.change.kind = "Remove" => srv[Current.row.handle[2]].live
          /\ UNCHANGED faults
       \/ /\ Current.change.kind = "SetFlags"
          /\ ~srv[Current.row.handle[2]].live
          /\ UNCHANGED faults
       \/ /\ Current.change.kind = "Add" /\ Full
          /\ UNCHANGED faults
       \/ faults < MaxFaults /\ faults' = faults + 1
    /\ run' = Answered(run, Rejected)
    /\ UNCHANGED <<store, servers, synced, body, ops, owed>>

(* The write after a chunk.  The checkpoint lands only with the last one,  *)
(* and is the one the listing carried.                                     *)
Record ==
    /\ ~Idle /\ run.todo = {} /\ ~Pushing
    /\ LET last == run.pushes = <<>> /\ ~Refused(items, run.source, run.writes)
           next == IF run.pushes = <<>> THEN NoRun
                   ELSE [run EXCEPT !.writes = <<>>, !.answered = 0]
       IN  /\ Commit(run.writes, next)
           /\ changed' = IF last THEN [changed EXCEPT ![run.source] = run.since] ELSE changed
           /\ synced' = IF last THEN [synced EXCEPT ![run.source] = TRUE] ELSE synced
    /\ UNCHANGED <<srv, body, ops, faults>>

Crash ==
    /\ ~Idle
    /\ faults < MaxFaults /\ faults' = faults + 1
    /\ run' = NoRun
    /\ UNCHANGED <<store, servers, synced, body, ops, owed>>

-----------------------------------------------------------------------------
(* Mutate: a person's change, through one source, staged in one batch.     *)

Stage(s, batch) ==
    /\ Idle /\ ClientActs
    /\ ~Refused(items, s, batch)
    /\ Stored(Write(items, kept, s, batch))
    /\ UNCHANGED <<servers, synced, run, faults>>

SetFlags(s, p, flags) ==
    /\ flags # p.flags
    /\ Stage(s, <<Upsert([p EXCEPT !.flags = flags,
                                  !.status = IF @ = "Clean" THEN "Dirty" ELSE @])>>)
    /\ UNCHANGED <<body, owed>>

(* The base adopts what the conflict recorded, so the change is gated on   *)
(* what the remote holds.                                                  *)
Adopt(p) ==
    IF p.conflictRevision = NoRev THEN p
    ELSE LET flags == IF p.base = NoBase THEN p.flags ELSE p.base.flags
         IN  [p EXCEPT !.conflictRevision = NoRev,
                       !.conflictObject = NoBody,
                       !.base = [flags |-> flags, revision |-> p.conflictRevision,
                                 object |-> p.conflictObject]]

(* The diverging bodies an edit meets: its item's and its binding's,       *)
(* NoBody for one nobody read.                                             *)
ConflictsMet(p) ==
    (IF items[p.link].conflicted THEN {items[p.link].conflictObject} ELSE {})
    \cup (IF p.conflictRevision # NoRev THEN {p.conflictObject} ELSE {})

(* A pending create is withdrawn, a based row becomes a tombstone.         *)
RemoveItem(s, p) ==
    LET removed == [Adopt(p) EXCEPT !.status = "Tombstone"]
    IN  /\ Stage(s, <<Upsert(removed)>> \o
                    (IF removed.base = NoBase THEN <<Drop(p.handle, "Deleted")>> ELSE <<>>))
        /\ owed' = owed \ ({p.object} \cup ConflictsMet(p))
        /\ UNCHANGED body

Edited(p, b) ==
    LET adopted == Adopt(p)
        staged  == adopted.base = NoBase \/ adopted.base.object # b
    IN  [adopted EXCEPT
           !.object = b,
           !.status = IF @ # "Created" /\ (staged \/ p.conflictRevision # NoRev)
                      THEN "Dirty" ELSE @]

(* An ordinary edit meets no conflict; a resolution names the body of each *)
(* one it meets and keeps any; an overrule keeps the bodies it discards.   *)
Edit(s, p, b, overrule) ==
    LET met      == ConflictsMet(p)
        settling == ~overrule /\ items[p.link].conflicted
    IN  /\ Mutable
        /\ b \in {body + 1} \cup ((met \cup {p.object}) \ {NoBody})
        /\ b # body + 1 => met # {}
        /\ ~overrule => NoBody \notin met
        /\ overrule => met # {}
        /\ Stage(s, (IF overrule THEN <<Overrule(p.handle)>> ELSE <<>>) \o
                    (IF settling THEN <<Settle(p.handle)>> ELSE <<>>) \o
                    <<Upsert(Edited(p, b))>>)
        /\ body' = IF b = body + 1 THEN b ELSE body
        /\ owed' = LET left == owed \ ({p.object} \cup IF overrule THEN {} ELSE met)
                   IN  IF b = body + 1 \/ b \in owed THEN left \cup {b} ELSE left

(* No base shows a revision: the hub cannot tell the content mutable.      *)
Unrevised(item) ==
    \A s \in Sources : Binds(item, s) =>
        item.sources[s].base = NoBase \/ item.sources[s].base.revision = NoRev

(* A create is refused over a live holder of its identity; a tombstone's   *)
(* binding would move unlicensed.                                          *)
AddItem(s, l) ==
    LET k == Hint(l)
        b == NewBody(l)
        create == [handle |-> k, link |-> k, object |-> b, flags |-> {},
                   status |-> "Created", conflictRevision |-> NoRev,
                   conflictObject |-> NoBody, base |-> NoBase]
    IN  /\ ~\E p \in Project(items, s) :
              p.link = k /\ Binds(items[k], s) /\ p.status # "Tombstone"
        /\ Stage(s, <<Upsert(create)>>)
        /\ body' = IF Mutable THEN b ELSE body
        \* Over a retained row, and where no base shows a revision, it is the
        \* person's newer version; a body some server holds is owed nobody.
        /\ owed' = LET older == IF items[k] # NoItem /\ (items[k].retained \/ Unrevised(items[k]))
                                THEN {items[k].object, items[k].conflictObject}
                                ELSE {}
                   IN  (owed \ older) \cup ({b} \ {srv[n].body : n \in Used})

-----------------------------------------------------------------------------
(* Upgrade at the full tier: one row's body is fetched.                    *)

(* pending_handles.                                                        *)
WantsBody(p) ==
    IF p.status # "Conflict" THEN p.object = NoBody \/ AwaitsBase(p)
    ELSE IF p.conflictRevision # NoRev THEN p.conflictObject = NoBody
    ELSE p.base.revision # NoRev /\ p.base.object = NoBody

(* settle: a divergence whose server body is read at last follows the      *)
(* policy.                                                                 *)
SettleFetched(p, b, revision) ==
    LET diverged == [p EXCEPT !.status = "Conflict", !.conflictRevision = revision,
                              !.conflictObject = b]
        cleared  == [p EXCEPT !.status = "Dirty", !.conflictRevision = NoRev,
                              !.conflictObject = NoBody]
        object   == IF Policy = "PreferRemote" THEN b ELSE p.object
        final    == [cleared EXCEPT
                       !.object = object,
                       !.status = IF object = b /\ p.base.flags = p.flags
                                  THEN "Clean" ELSE "Dirty",
                       !.base.revision = revision,
                       !.base.object = b]
    IN  IF Policy = "PreferRemote" THEN <<Upsert(cleared), Upsert(final)>>
        ELSE IF Policy = "PreferLocal" /\ "content" \in Rights
        THEN <<Upsert(diverged), Overrule(p.handle), Upsert(final)>>
        ELSE <<Upsert(diverged)>>

(* write_fetched: over a local edit a fetch moves the base when the        *)
(* revision stayed and diverges when it moved.                             *)
Fetched(p, b, revision) ==
    LET based == [p EXCEPT !.base.revision = revision, !.base.object = b]
    IN  IF p.status = "Conflict" /\ p.conflictRevision # NoRev
        THEN IF b = p.object
             THEN <<Upsert([based EXCEPT !.status = "Clean",
                                         !.conflictRevision = NoRev,
                                         !.conflictObject = NoBody])>>
             ELSE SettleFetched(p, b, revision)
        ELSE IF p.status = "Conflict" \/ ~StagedEdit(p)
        THEN <<Upsert([based EXCEPT !.object = b])>>
        ELSE IF RemoteChanged(p, [revision |-> revision])
        THEN <<Upsert([p EXCEPT !.status = "Conflict",
                                !.conflictRevision = revision,
                                !.conflictObject = b])>>
        ELSE <<Upsert(based)>>

Upgrade(s, p) ==
    /\ Idle
    /\ IsReal(p.handle) /\ srv[p.handle[2]].live
    /\ WantsBody(p)
    /\ LET m     == srv[p.handle[2]]
           batch == Fetched(p, m.body, m.revision)
       IN  /\ ~Refused(items, s, batch)
           /\ Stored(Write(items, kept, s, batch))
    /\ UNCHANGED <<servers, synced, run, body, ops, faults, owed>>

-----------------------------------------------------------------------------
Sync(s) ==
    \E round \in BOOLEAN, carried \in SUBSET Live(s), unread \in SUBSET Live(s) :
        List(s, round, carried, unread)

Client ==
    \/ \E s \in Sources, l \in Links : ClientCreates(s, l)
    \/ \E n \in Numbers : ClientEdits(n)
    \/ \E n \in Numbers, flags \in SUBSET Flags : ClientFlags(n, flags)
    \/ \E n \in Numbers : ClientDeletes(n)

Mutate ==
    \/ \E s \in Sources, l \in Links : AddItem(s, l)
    \/ \E s \in Sources : \E p \in Project(items, s) :
          \/ \E flags \in SUBSET Flags : SetFlags(s, p, flags)
          \/ RemoveItem(s, p)
          \/ \E b \in 1..(body + 1), overrule \in BOOLEAN : Edit(s, p, b, overrule)

Push == PushUpdate \/ PushFlags \/ PushRemove \/ PushAdd \/ PushRejected

Next ==
    \/ Client
    \/ Mutate
    \/ \E s \in Sources : Sync(s)
    \/ \E s \in Sources : \E p \in Project(items, s) : Upgrade(s, p)
    \/ MergeStep
    \/ Push
    \/ Record
    \/ Crash

Spec == Init /\ [][Next]_vars

(* Whoever schedules the engine keeps running it: a run under way ends, by *)
(* itself or by a crash, and every source is synced again and again.       *)
(* Crashes and refusals end with the fault bound, other clients and people *)
(* with theirs.  It is weak fairness of the engine's steps, said of the    *)
(* runs they make.                                                         *)
Fairness == []<>Idle /\ \A s \in Sources : []<>(~Idle /\ run.source = s)
FairSpec == Spec /\ Fairness

-----------------------------------------------------------------------------
(* The columns of the store have their types, and no body is in it that     *)
(* nobody wrote (items, bindings, retained rows, the members of a server). *)
TypeOK ==
    /\ items \in [Keys -> HubItems(Handles) \cup {NoItem}]
    /\ kept \subseteq 1..body
    /\ \A n \in Numbers : srv[n].live => srv[n].body \in 1..body
    /\ changed \in [Sources -> SUBSET Numbers]
    /\ synced \in [Sources -> BOOLEAN]
    /\ ops \in 0..MaxOps /\ faults \in 0..MaxFaults
    /\ owed \subseteq 1..body

(* No edit a person made is lost: a body written here that no server was   *)
(* ever given is still held, as an item's body, a recorded divergence or a *)
(* retained item.                                                          *)
NoLostEdit == owed \subseteq HeldBodies(items, kept)

(* An edit keeps owing its push: no source reads a body a person wrote and  *)
(* no server was given as one it is in sync with (mutate keeps the base so  *)
(* that the next sync derives the push).                                    *)
EditsOwePush ==
    \A s \in Sources : \A p \in Project(items, s) :
        p.object \in owed => p.status # "Clean"

(* A clean row whose member has not moved since the checkpoint agrees with *)
(* the server: nothing a listing will never name again was missed.         *)
Unmoved(s, p) == p.status = "Clean" /\ synced[s] /\ p.handle[2] \notin changed[s]
CleanAgrees ==
    Idle => \A s \in Sources : \A p \in Project(items, s) :
        Unmoved(s, p) =>
            LET m == srv[p.handle[2]]
            IN  /\ m.live
                /\ p.base.revision = m.revision
                /\ p.object \in {m.body, NoBody}

(* A push replaces no body the store has not read: the binding's base      *)
(* names what the server held.                                             *)
PushedOverBase(n) ==
    \E s \in Sources, k \in Keys :
        /\ Loaded(items, k) /\ Binds(items[k], s)
        /\ items[k].sources[s].handle = Real(n)
        /\ items[k].sources[s].base.object = srv[n].body
UpdatesOnlyRead ==
    [][PushUpdate => \A n \in Numbers : srv'[n] # srv[n] => PushedOverBase(n)]_vars

(* One delivery: a create whose answer or record was lost is met again by  *)
(* the next listing, so no Add keyed by the identity itself carries a body *)
(* a member of its source holds already, unless some server was given two  *)
(* members of that identity.                                               *)
Twins(l) ==
    \E m, n \in Used : /\ m # n /\ srv[m].source = srv[n].source
                       /\ srv[m].link = l /\ srv[n].link = l
AddsOnce ==
    [][(Mutable /\ PushAdd /\ Current.row.link[2] = 0) =>
        \A n \in Live(run.source) :
            srv[n].body = Current.change.object => Twins(srv[n].link)]_vars

(* Every local change ends up pushed or in conflict, whatever crashed,     *)
(* was refused or went unanswered on the way, and what the servers hold    *)
(* ends up here.                                                           *)
InAgreement(p) ==
    \/ p.status = "Conflict"
    \/ p.status = "Created" /\ Full
    \/ p.status = "Clean" /\ p.object \in {srv[p.handle[2]].body, NoBody}
Converges == <>[](\A s \in Sources : \A p \in Project(items, s) : InAgreement(p))

(* No batch a run stages is one the storage refuses: neither the one under *)
(* way nor the one its next candidate would fill.                          *)
Taken(batch) == ~Refused(items, run.source, batch)
NeverRefused ==
    ~Idle => /\ Taken(run.writes)
             /\ \A c \in run.todo : Taken(run.writes \o Merged(c).writes)

-----------------------------------------------------------------------------
(* What the documents say and the code does not keep (README, under        *)
(* Disagreements).                                                         *)

(* The same of the flags, where every listing reads them.                  *)
FlagsAgree ==
    (Idle /\ ReadsFlags) => \A s \in Sources : \A p \in Project(items, s) :
        Unmoved(s, p) => p.flags = srv[p.handle[2]].flags
=============================================================================
