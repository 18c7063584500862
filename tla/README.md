# io-pimdir in TLA+

A verification of the parts of io-pimdir that a test reaches badly: the
three-way merge and its runs against servers that change, refuse and forget to
answer; rounds of many pages that outlive the runs listing them; the hub that
shares an item between sources; a server renumbering its handles; the bodies on
disk between the processes that write them and the collector that unlinks them;
the action queue several handles drain at once and what a reader shows of it;
what the store keeps and lets go of; the search index that follows the store and
the queries read over it. Every module is translated from the Rust under
`src/src/` and the SQL under `src/spec/`; `PROJECT.json` maps each definition to
its lines.

## The system

io-pimdir keeps mail, contacts, calendars and files of several remote sources in
one directory: an SQLite database, a tree of bodies named by their hash
(`objects/`), a second database for search, and lock files. One *owner* process
writes it, *producer* processes append actions to a queue the owner drains,
*readers* take no lock. Five verbs (open, upgrade, mutate, sync, rekey) are
coroutines that yield their reads, writes and remote calls to a runner.

| Component | State | Operations | What is hard | What makes it correct |
|---|---|---|---|---|
| Three-way merge (`placement.rs`, `sync.rs`) | a row: body, flags, status, divergence, base | merge of content, flags and membership | stale bases, unread bodies, deletes against edits | no edit lost, no push over an unread body |
| Hub (`hub.rs`, `client/write.rs`) | items shared by sources, a binding per source, retained rows | project, absorb, save, revive | two sources diverging, policies, an agreement point per source | every body a policy drops is kept |
| Sync (`sync.rs`, `sync/join.rs`) | a run: page, rows to merge, batch, pushes, answers; a checkpoint | list, name, land, merge, push, settle, record | crashes and lost answers between a push and its record; the checkpoint | changes are neither missed nor repeated, and runs converge |
| Rounds (`sync.rs`, `collection.rs`) | cursor, stamps, coverage, parked absences | page, resume, restart, reject a head, park | pages of one round seen at different times, cursors refused, scopes moved | an absence is never invented, what is covered is held |
| Mutate, upgrade (`mutate.rs`, `upgrade.rs`) | none of their own | edit, flag, remove, add, resolve, overrule; fetch | sequences of them with syncs in between | a person's change stays owed until pushed |
| Rekey (`rekey.rs`) | a listing of the new handles | carry every row to new handles | old and new handles overlap, copies of one identity | a pending change goes to its own member |
| Bodies and collector (`client/blobs.rs`, `lock.rs`, `client.rs`) | files, object rows, pointers, locks | stage, stream, write, put, collect, quarantine | a file nobody points at yet, three kinds of writer, a collector with no grace period | no row without a body |
| Producers and queue (`client/producer.rs`, `intent.rs`) | staging window, queued actions, receipts | stage, enqueue, drain, retry, park, cancel | two processes, exactly-once application | an action is applied once or parked, never lost |
| Gate (`capability.rs`, `client/capability.rs`) | declarations, the performer chosen | declare, choose, check | declared again between append and drain | nothing is drained that its source refuses |
| Reader (`client/reader.rs`) | none | one item, pages of a collection | the queue folded over the rows while both move | an item reads as it will be |
| Clean-up and attachments (`client.rs`, `client/attachments.rs`) | reference counts, retained rows, references, file stand-ins | retain, revive, release, collect, purge, erase, rename, file | counts kept by differences, triggers, queued actions naming a collection | counts exact, nothing owed is dropped |
| Search index (`search/`, `client/search/`) | feed position, rows, unread bodies, threads, horizon | refresh | a pass cut anywhere, bodies not readable yet, threads kept step by step | the index says what the store says |
| Queries (`search/query.rs`, `client/search/compile.rs`, `search/coverage.rs`) | none | parse, compile, answer, say what was not seen | precedence, faults, civil dates, completeness | a query means its text, a complete answer is whole |

Components interact through three seams: the coroutine seam (a verb's reads,
writes and remote calls), the write batch (`PimdirWriteOp`, applied whole or
not at all, with the triggers of the schema) and the locks (owner, staging, the
process's writer lock). The index reads the store through stamps the writing
transactions leave.

## Modules

`Placement.tla` — operators. A row and what a listing says of the same member
give the writes the code stages and the change it pushes: `ReconcileContent`,
`ReconcileFlags`, `MergeTombstone`, `MergeVanished` are the arms of
`PimdirSync::merge`. Bodies and revisions are numbers, 0 for `None`.

`Hub.tla` — operators, extending Placement. `Project` is what a source loads,
`Write` folds a batch (`AbsorbUpsert`, `AbsorbDrop`, `FoldContent`) and saves
it (`Save`, `Revived`), `Refused` are the batches the storage rejects
(colliding upserts, an unlicensed move of a binding, an overrule of a body
nobody read). Left out: summaries, sort keys, `mint_other_messages`, origins and
destinations (they need a second collection), a handle restating another
identity; reference counts and purges are Retention's.

`Sync.tla` — the state machine, extending Hub: the items, the servers, and at
most one run. `List` loads, lists and names a page; `MergeStep` merges one
candidate, the first in handle order of those left, and cuts batches;
`PushUpdate`, `PushFlags`, `PushRemove`, `PushAdd` and `PushRejected` are the
server's answers, one change at a time, each settled into the batch; `Record`
writes the batch once a chunk is answered, and the last one moves the checkpoint;
`Crash` drops the run.
`SetFlags`, `RemoveItem`, `Edit` and `AddItem` are mutate; `Upgrade` fetches a
body. `ClientCreates`, `ClientEdits`, `ClientFlags` and `ClientDeletes` are
other clients, at any moment. The checkpoint is the set `changed` of members
moved since; what moves after a listing stays in it. `owed` is a history
variable: bodies a person wrote that no server was given. An `AddItem` over a
retained row, or over an item whose bases show no revision, is the person's newer
version (the documented fast-forward), and a delete takes the divergence on its
item with it; `owed` follows both. The store is held exclusively by a verb, so
mutate and upgrade run while no sync does. A listing is one page, and the
absences it finds are accepted: pages are Rounds'.

`Scope.tla`, `Absence.tla` — operators: a range of dates, what it contains and
covers, the band two scopes leave; and the guard that parks a mass absence.

`Rounds.tla` — the state machine of one collection's listing. `Start` chooses a
delta or a round from the source's row, resumed or afresh; `AnswersHead`,
`AnswersDelta`, `AnswersRound`, `AnswersNothing` and `AnswersRoundToDelta` are
what a connector answers; `Refuses` and `ListsNoHead` its refusals of a cursor
and of a head; `OpenNarrowed`, `OpenMerge`, `Merge`, `Push`, `Land` the page
taken, merged and written with its cursor and stamps; `Interrupt` drops the run.
The merge of one member is Sync's: a binding here remembers only the change it
was merged at. `Connectors` are records of what a connector can do (heads, a
scope it is bound to, a checkpoint given first or last) and of how it may fail
to (narrowing, capping, naming nothing). `gone`, `seen` and `park` are history.

`Rekey.tla` — extends Sync. `Renumber` gives every member of a source another
handle, possibly one another member held; `RekeyStart`, `RekeyPage`,
`RekeyRejected`, `RekeyWrite` and `RekeyCrash` are the verb, `Rebuild` its batch
(`KeyOf`, `Carry`, `Fresh`, `Rehome`, `Restaged`). While its handles are void a
source's syncs and fetches are refused, people go on editing.

`Blobs.tla` — files, rows, pointers and locks. Handles of the owner process
each run on a thread, producers are processes. `StageBody`, `OpenWriter`,
`StreamBody`, `Enqueue`, `AppendBody` ... are a producer's window; `BeginVerb`,
`StreamFetched`, `StageBatch`, `CommitBatch`, `ApplyQueued`, `PutItem` the
owner's writes; `CheckInFlight`, `LockStaging`, `LockWriters`, `DeleteRows`,
`Scan`, `Sweep` the steps of `collect_garbage`; `Quarantine`, `Rot` and
`OwnerCrash` the rest. A lock is no variable: who holds it follows from where
each thread is. No lock keeps a verb or a `put_item` from starting past the check a
collector at work has made: `late` holds the threads that did, `lost` the bodies
unlinked from under them. Left out: reference counts (the collector recomputes them before it deletes), temporary
files and fsync, emptying the quarantine, handing the owner lock over. An
enqueue names a body of its own open window or one indexed already, which is
the caller's contract.

`Staging.tla` — operators: what one queued action does to the items.
`Takes` says whether `stage_action`, the mutate verb it runs and the write
accept it, `Applied` what they leave: a create landing on a free key, on a
retained row or apart from one (`Landing`, `Land`), a remove that keeps a
tombstone, withdraws a pending create or retains (`RemoveItem`), an add that
supersedes, a copy's choice of key (`Claimed`). An item's bindings are one of
six states, the ones the drain tells apart. Left out: several sources per item
(Hub's), levels, summaries, the supersession record.

`Queue.tla` — the state machine, extending Staging: queue rows, receipts, the
pins of bodies, the items, and one pass per owning handle. `Append` is a
producer's enqueue; `Begin` reads a pass's list, `SkipRow`, `RefuseRow`,
`LostClaim`, `ApplyQueued`, `ParkRow`, `RetryRow` are what it does with the row
it is at, `FailRow` the park or the bump that is a transaction of its own,
`Finish` the pruning; `Stop` ends a pass anywhere. `DropAction`,
`AcknowledgeAction` and `ReplaceAction` are the requests. `Declare`,
`SyncWrite` and `Age` go on meanwhile. `effects`, `withdrawn` and `performed`
are history. What a receipt names is left out, and the capability gate is a set
of refused kinds (Gate has the table).

`ActionStatus.tla` — the abstract specification: what `action_status` may
answer of an id over time, and how often its action is applied. Queue
implements it by `Promise`, which reads each id's answer off the rows and the
receipts.

`Gate.tla` — operators, extending Staging: the capabilities an action requires
by its kind, its flags and its body, what a source declares for a collection or
for all, the candidates for an intent and the one chosen (`Chosen`,
`ResolvePerformer`), `Gate` and the back stop an intent meets at the drain.

`Overlay.tla` — the state machine, extending Gate: the items, the queue, the
declarations, and one reader's scan. `View` is `get_item` with pending actions
(`Edits`, `Arriving`, `Removed`, `Standing`, `Folds`). A keyset page is read by
several queries, each a step: `ReadPending` the queue, `ReadRows` the rows past the
cursor, `ReadArrival` one arrival at a time, `TurnPage` the page they make.
`AppendAction`, `DrainRow`, `FailRow`, `Declare`, `Acknowledge` and `SyncWrite`
happen between any two of them. `FailRow` leaves a row queued while later ones
apply (`Turn`). `Rank` orders the keys as the sort key does and does not move during
a scan. A payload the codec refuses is left out.

`Retention.tla` — the state machine of one store's tables: items with their
bindings and conflicts, reference counts, objects, references, collections and
queue. A write is a whole transaction: `Merged` is the hub's merge of one upsert
(`Reconciled`, `Filled`, `Crossed`, `Overruled`), `Saved` the diff `save_hub_diff`
writes, with `Adjusted` counts, `Revived`, `Retired`, `Purged` and the triggers
(`Without`, `CollectFiles`, `RoleSet`), `Kept` the copies under minted keys.
`StartSync`, `ListMember`, `Push`, `DropMember`, `Resurrect`, `Pull`, `Rebase`,
`Diverge` and `KeepLocal` are what a sync writes, `BeginUpgrade` and `LandUpgrade`
an upgrade, `SetFlags`, `Remove` and `Edit` mutate, `Enqueue`, `DrainCopy`,
`DrainAdd` and `Cancel` the queue, `PutItem` the device's own; `ReleaseBefore`,
`CollectBefore`, `Purge`, `Erase`, `CollectGarbage` and `DeleteUnbound` the
clean-up; `EnsureCollection`, `RenameCollection`, `DeleteCollection`,
`SetCollectionRole`, `SetCollectionAccount`, `AddReference`, `RemoveReference` and
`PutFile` the filing. What a source reads and what a person writes is any body, the
policy any policy at each write; which of them a sync would choose is Sync's and
Hub's. A message's body never changes; a calendar item's is fetched in the step that
reads it; a cutoff is any set of retained rows. The keys minted over an identity are
as many as `Bare` has, a write that needs another is not taken. `bare` is history:
the places a drain landed a message at with no body, a copy of a message only the
server has the body of (`mutate.rs:731`) or an add without one.

`Threads.tla` — operators: the threads of mail kept from batch to batch
(`Parent`, `Reparent`, `Rethread`, `Prune`, `Relink`) and, apart from them, the
threads a rebuild gives (`AsDerived`).

`Index.tla` — the state machine, extending Threads: the store with its stamps
(`Insert`, `Rebody`, `Flag`, `Delete`, `Purge`, `Collect`, `Rename`, `Restore`),
the blob files (`LoseBlob`, `PutBack`), the clock, and the index. One run of the
refresh coroutine is one transaction and one action (`Run`): `Roll`, `Refold`,
`FoldPage`, `Reconcile`, `Relinked`, `Finished` are its parts. A pass is a
sequence of runs cut by `Deadline` or a crash. A series may be floating and may have
an end (`UntilOf`); `ToReexpand` is the query of what a rolled horizon or another
zone expands again, a finished series left alone (`Unspent`). The clock does not go
back.

`Calendar.tla` — the civil date arithmetic of `summary/time.rs`, its truncating
divisions included.

`Query.tla` — the language: `Lex`, `Balance`, the recursive descent
(`Disjunction`, `Conjunction`, `Negation`, `Primary`) and every field's value
(`FieldTerm`, `DatePoint`, `ReadRange`). A query is a sequence of pieces: a
space, a parenthesis, a quote, a dash, or a run of characters the grammar never
looks into. It is TLC's alone, the descent being recursive.

`Answer.tla` — extends Query: the store and an index that lack some of it,
`Condition` and `Hits` (what each term matches, from the SQL it is compiled to),
`Span` and `Bounds` (a date's instants in a zone), `Coverage` and `IsComplete`.

`Sync_proofs.tla`, `Blobs_proofs.tla`, `Staging_proofs.tla`, `Queue_proofs.tla`,
`Rounds_proofs.tla`, `Coverage_proofs.tla`, `Retention_proofs.tla`,
`Overlay_proofs.tla` — theorems and their lemmas; Queue's and Overlay's rest on
Staging's, Coverage's on Rounds'. The
`MC` modules are the instances for TLC.

## Runs

| Run | Instance | Shows |
|---|---|---|
| `sync_manual` | 1 source, 1 identity, 2 members, 4 actions, 2 faults, batches of 1 write, pushes of 2, bodies listed or not | `NoLostEdit`, `EditsOwePush`, `CleanAgrees`, `NeverRefused`, `UpdatesOnlyRead`, `AddsOnce` |
| `sync_two_sources` | 2 sources, PreferLocal and PreferIncoming, 3 actions, 1 fault, batches of 4 writes, fair | `NoLostEdit` where policies drop bodies, `Converges` |
| `blobs` | 2 bodies, 2 handles, 1 producer, 1 bad file | `PinnedPresent`, `SweepsOnlyGarbage`, `TypeOK`, no deadlock |
| `queue` | 2 handles, 2 rows, 2 attempts, 1 pass ending early; remove, update, intent, set-performer, undecodable and later-version rows | `OneFate`, `PinsCount`, `OvertakesOnlyTried`, `StatusPromise` |
| `queue_settles` | 1 handle, 2 rows of 9 kinds, 2 mailboxes, a sync's write, a declaration, fair | `Settles`, `ServerDeletesKept` |
| `rounds` | 3 members (old, recent, undated), 6 connectors, one listing everything on a page of 3 and the others on pages of 2, an open and a bounded scope, a mass absence at 2, 3 changes, 1 fault | `CoverageServed`, `AbsenceProven` |
| `rounds_converges` | 4 handles, 2 of them for a pending create, pages of 2, 3 connectors that work, 3 changes, 1 fault, fair | `CreatedOnce`, `Converges` |
| `rekey` | 2 copies of one identity, pages of 1, 2 renumberings, 2 actions, 1 fault | `RebuildTaken`, `EditsKept`, `PendingCarried` |
| `index` | three worlds: a reply listed before the message it answers and an answer to the reply; two copies of a message; a calendar over three days and two zones, of a single event, a floating one, a floating series and a series that ends. 4 or 3 stamps, pages of 2, 1 fault | `FoldedAgrees`, `ThreadsAsRebuilt`, `OccurrencesServed`, `PassCatchesUp` |
| `overlay` | 3 collections of 2 sources, 15 actions, 2 appended, 1 declaration or sync, pages of 1, any number of failed attempts and of pages | `ReadsAsDrained`, `ScanComplete`, `PushesSupported`, `ChoiceHolds` |
| `retention` | a message with an attachment in 2 mailboxes, a task made from it in a calendar of the device or a synced one, a minted key of each, 2 accounts, 2 sources; from an empty store and from a calendar synced by both sources, agreeing or diverged; 3 writes, 1 clean-up, 1 filing, 1 queued row | `RefcountsExact`, `OwedKept`, `TargetsFollow`, `AttachmentsNamed` |
| `query` | queries of up to 6 pieces in 7 families, 8 items in 5 collections, one of them lacking something | `RefusedWhereFaulty`, `ReadsAsStated`, `DatesAsNamed`, `CompleteIsWhole` |

The type invariants of the other state machines are in their modules and hold on
the same instances.

The bounds. In the sync runs one identity already gives two members of one name
(the second is minted), a pending create meeting a member, and every order of
edit, delete and flag change; four actions are an edit on each side, a delete and
a resolution. One fault is enough to separate a push from its record, the second
one repeats it or loses the answer that would have told. A batch of one write exposes a crash between any two writes; in the
two-source run a batch of four makes the early flush of `keep_observed` the only
thing that saves a body. `ReadsBodies` is on in the two-source run: listings
without bodies are the single-source run's. One producer and two handles hold
every pair of lock holders, two bodies tell a pinned body from an unpinned one
of the same window; the proofs have no such bound. Two rows give an order to keep
and a change that replaces a row; two attempts a retry and the park after it; two
handles a list read before the other handle parked, applied or failed the row. The
single handle of `queue_settles` leaves room for every kind of action.

Three members over pages of two make a round of two pages, a member to vanish
behind the page and one ahead of it; a bound below, in and above the scope comes
with their dates. The threshold of a mass absence is 2 so that both the guard's
branches are met; the code's is 20. One renumbering swaps two handles; the second
meets keys the first one minted. Three messages are the least with a thread that
splits, joins and closes a cycle; two copies the least whose removal must keep the
message. Three days with a horizon of one day on each side let a single event and a
series enter the horizon and leave it. A page of one row makes every drain or append
fall between two pages, and its queries are steps of their own. Three
writes and one clean-up are a bind, a flag and a retirement with any
clean-up between them; a conflict takes more, so the run also starts from the stores
two sources' syncs of a calendar leave, where three writes diverge, edit and settle. Queries of six pieces nest two groups with every operator,
and `Letters`, `Heads`, `Dated` are the pieces the lexer and the fields tell apart;
the window of dates holds a leap day, a year's end and a 23-hour day.

Interchangeable bodies, handles and producers are symmetry sets where a run checks
no liveness.

Fairness. In `sync_two_sources` a run under way ends and each source is
synced again and again; in `rounds_converges` a run that is not interrupted goes on
(`Steps`) and another begins (`Begin`). The code has no scheduler of its own: a
run is a loop that makes progress at every resume, and whoever embeds the engine
runs it again. People, other clients and faults stop by their bounds. In
`queue_settles` a handle's pass goes on and the owner drains again: `drain` is a
loop over its list, and no row of it blocks the next. Which outcome a row has is
left to the environment, so a row may fail at every try.

### Disagreements

Where the code does not do what a comment or the specification under
`src/cairn/spec/` says. Each is reproduced by the change given to a
configuration or a definition; TLC then finds the named property violated.

- `MCSyncManual.cfg`, `ReportsRevision = FALSE`: `EditsOwePush`. A server that
  reports no revision for an accepted update leaves a base without one, which
  `absorb_upsert` takes for an immutable kind's (`hub.rs:555`); the next edit reads
  Clean and is never pushed, where `cairn/spec/mutate.md:16` says "keeping the base
  so the next sync derives the push".
- `MCSyncManual.cfg`, `Policy = "PreferRemote"`: `NoLostEdit`. A create landed on
  an unread member, settled by an upgrade, loses its body: the base's revision does
  not move, so `hub.rs:702` keeps nothing, where `upgrade.rs:456` says "the write
  keeping the local edit it drops".
- `MCSyncTwoSources.cfg`, `Policy` and `HubConflict` `"Manual"`, `ReadsBodies =
  FALSE`, `WriteChunk = 1`: `NoLostEdit`. A local edit recorded as the item's
  divergence is overwritten by the body an upgrade fetches (`upgrade.rs:210`), where
  `cairn/spec/hub.md:80` says "Two rules keep every body".
- `MCSyncManual.cfg`, `MaxHandle = 1`, two `Flags`, `INVARIANT FlagsAgree`: a merge
  pulls one flag and pushes another; the push refused, the pulled flag stands over a
  base without it (`sync.rs:1952`). The person who then clears both is back at the
  base, the row reads Clean, and the removal is never pushed, where
  `cairn/spec/mutate.md:14` says "replace a placement's flags and mark it dirty".
- `MCSyncManual.cfg`, `MaxHandle = 3`, `ReadsBodies = TRUE`, no `Flags`, and in `AddsOnce`
  `Twins(srv[n].link)` replaced by `FALSE`: a create pushed, its answer lost, is landed
  by the next listing on the first member stating its identity (`sync.rs:1173`), which
  may be another client's. That one deleted, the staged body is restaged and added
  again beside the copy the lost push made, where `cairn/spec/sync.md:137` has the page
  land the create since "pushing first lands two copies". For the same reason the
  property speaks of creates under the hint: one offered or restaged under a
  member's minted key is found by no listing.
- `MCBlobs.cfg` with `lost = {}` as an invariant. The collector reads `in_flight`
  once, before it locks (`client.rs:1031`), and `run` only adds to the count
  (`client/run.rs:132`); a verb that starts in between on another handle loses the
  body it wrote, where `client/run.rs:119` says "so the collector never takes a body
  one chunk streamed and the next attaches". A `put_item` started there meets the
  transaction of the collector alone, which ends before the files are unlinked, where
  `client.rs:635` says "so no collector runs between the blob landing and the row
  pinning it". `PinnedPresent` and `SweepsOnlyGarbage` name this exception and no
  other.
- `MCOverlay.cfg` with `Steady(k)` replaced by `TRUE` in `Overlay.tla`:
  `ScanComplete`. A page reads the queue, then the rows, then each arrival
  (`client/reader.rs:2257`, `:2258`, `:2268`), outside a transaction. A move drained
  after the rows are read and before its arrival is takes the item from one to the
  other: it is on no page and the short page ends the scan, where
  `cairn/spec/store.md:537` says "it comes back short only where the collection
  ends".
- `MCOverlay.cfg` with `~Overtakes(i)` left out of `ChoiceHolds`. Two choices of a
  performer are queued, the first fails an attempt and stays
  (`client/producer.rs:973`), the second is drained: the older, now the latest
  queued, is the choice again, where `client/capability.rs:90` says "a choice holds
  from the moment it is made".
- `MCQueue.cfg` with `PROPERTY ParkedKept`: a handle whose list is older than
  another handle's park claims and applies the parked row, the claim deleting by id
  alone (`client/producer.rs:1034`; `:590` "kept with its error until somebody
  cancels it").
- `MCQueue.cfg` with one handle, three rows, both mailboxes in `Collections`,
  `Declared` and `Messages`, `Requests <- CopyRequests`, `InitItems <- SteadyItems`,
  `PROPERTY CopiesAreFresh`: a copy reads two keys of its target
  (`mutate.rs:741`), so the third copy into a mailbox that holds the identity lands
  on the second one, where `placement.rs:97` says "else a minted one that is".
- `MCRounds.cfg` with `N = 2`, `Date <- MCDateTwo`, `Connectors <- MCPlain`,
  `MassAbsence = 20`, `MaxChanges = 4`: `ParkedCoverageServed`. A round that parked
  its absences still moves the coverage and the checkpoint (`sync.rs:885`), and a
  later delta never lists what was parked (`cairn/spec/sync.md:463`).
- `MCRounds.cfg` with `Wanted <- MCClosedScopes`, and `page |-> 1` in `MCConnector` of
  `MCRounds.tla`: `CoverageServed`.
  A head is checked against the scope the run asks for and not the round's
  (`sync.rs:958`), so a round resumed under a scope closed above may end with a
  checkpoint past changes no page listed.
- `MCRekey.cfg` with `PROPERTY PendingCarriedAgain`: a key minted from a handle two
  renumberings ago is not found by `key_of` (`rekey.rs:306`), so a pending change of
  that copy is not carried.
- `MCIndex.cfg` with `Losable <- MCLosableEvents`: `OccurrencesServed`. An event
  whose body cannot be read while the horizon rolls loses its occurrences
  (`search/refresh.rs:360`) and is not recorded as unread, so no later pass expands
  it (`cairn/spec/search.md:196`).
- `MCIndex.cfg` with `Exact(b)` replaced by `TRUE` in `Index.tla`:
  `OccurrencesServed`. A floating single event is dated in UTC by its sort key
  (`items_to_reexpand.sql`), so one the horizon reaches a day earlier in its own zone
  is not expanded, nor, for the same reason, a floating series at its end.
- `MCIndex.cfg` with `OccurrencesServed` asking that the occurrences held are the
  horizon's and no more: a single event, or a finished series, that leaves the horizon
  is not expanded again and keeps its occurrence, where `cairn/spec/search.md:43` says
  "An item SHALL be re-expanded [...] when the horizon has rolled by a day or more".
  A query that reaches there is told so (`horizonLeft`). A clock set back, which the
  model leaves out, would leave a finished series unexpanded in the days regained.

Smaller ones, read in the code while modelling and not given a property:

- rekey: copies of one identity are matched greedily in handle order; a tombstone
  whose member was edited meanwhile is revived (`rekey.rs:432`).
- index: a message relinked while its body cannot be read falls back to its
  In-Reply-To; the edge left out to break a cycle is not restored when the cycle
  goes (`cairn/spec/search.md:209`); a sort key set again restamps a message and does
  not key its thread again.
- overlay: an edit queued before a move is not shown at the move's target; a chain
  of moves hides the item from every view; `count_items` counts an arriving copy
  `list_items` shows once; a move or copy inside a source does not ask for the
  target's own `add`; one to a collection of another kind is gated by the kind it
  leaves (`KindsAgree`, under Proofs); the overlay shows edits the gate will park.
- retention: a copy of a message whose body only the server has lands a live row with
  neither body nor base, which no upgrade can fetch until a push gives it one
  (`mutate.rs:731`; `OwedKept` excepts it by `bare`); a parked row's target does not
  follow a rename; renaming an id no
  collection has retargets the rows naming it; a collection queued rows target may be
  deleted; `set_collection_kind` may leave references whose end has no row of that
  kind; a body whose file is missing leaves its attachments unrecorded.
- search: `date:9999` ends at a year of five digits, which sorts below every key and
  matches nothing; `kind:contact` or `kind:file` anywhere in a query makes every date
  term match that kind; `person:`, `thread:` and `linked:` reach outside the
  collections the coverage looks at, and deletions not folded yet are no part of
  `is_complete` (`CompleteIsWhole` is stated without them); `collection:` is
  documented by id or by name and compiled by id.

## Proofs

A theorem holds for every value of the constants that satisfies the named
`ASSUME`s of its module; TLC evaluates those on every run. The bounds of the
runs (`MaxChanges`, `MaxRows`, ...) are any numbers there.

`Sync_proofs.tla`, for any sources, identities, members, actions, faults and chunk
sizes, every policy and every set of rights, for content that may be rewritten
(`Mutable`):

- `Invariant`: `Mutable` and `Spec` give `[]Inv`;
- `CleanRowsAgree`: with a single source (`~BesideOthers`), `[]CleanAgrees`;
- `EditsStayOwed`: where an accepted content push reports a revision
  (`ReportsRevision`), `[]EditsOwePush`;
- `PushesOnlyOverRead`: `UpdatesOnlyRead`.

None of the three properties is inductive: what a run pushes or writes was decided
on rows loaded several steps before, and what a base says is of a member that moved
meanwhile. `Inv` judges every binding of the store, every row the run has yet to
merge and every push it owes against the servers. `Grounded`: a base and a recorded
divergence were true of their member once, no revision being ahead of the member's,
and a body told at the member's revision being the member's. `Tracked`: a based
binding whose member has not changed since the checkpoint is `Known`, at the
member's revision. `RunOK`: the same of each candidate and each push, no key among
them twice, what a listing stated still true unless the member moved `since`. A
batch is not written when it is decided, so all of it is said twice, of the store
and of `V`, the store the staged writes would leave; `Backed` is what of the store
itself a later push relies on. The argument has four parts: what folding a batch
does to a binding (`Chain`, the rows a merge stages for one key), what each arm of
the merge stages (`ReconcileContent`, `MergeTombstone`, ...), how a server's step
leaves what was true of it, then one lemma per action (`ListInv`, `MergeStepInv`,
`PushInv`, `RecordInv`, `UpgradeInv`, `MutateInv`, `ClientInv`, `CrashInv`).

The hypotheses. `ReportsRevision` cannot be dropped: it is the first of the
disagreements. With two sources a tombstone of one may keep the revision of a
divergence the other settled, and a row that reads Clean through it lags its server;
`CleanAgrees` is stated of a single source for that. Immutable content has no
revisions for `Grounded` to speak of, its bodies being named by their identity.

`Blobs_proofs.tla`, for any sets of bodies, handles and producers:

- `TypeCorrect`: `Spec => []TypeOK`;
- `WindowSafe`: `Spec => []StagedKept`, a body a producer staged is on disk
  until its window closes, whatever the owner's program does;
- `NoDangling`: `Spec => []PinnedPresent`;
- `CollectorSafe`: `Spec => SweepsOnlyGarbage`.

Nothing is assumed of when verbs and puts start; the two properties except the bodies
of those begun past a collector's check, which the code does lose (Disagreements).
`PinnedPresent` is not inductive:
a row is safe because the body it is about to name was safe before. The
inductive invariant has two layers. `WindowInv` (types, who holds which lock,
failing files come from the disk only, staged bodies on disk) is enough for the
producers. `BlobsInv` adds `Threads` (a body the owner landed is held by a
running verb or under the writer lock; past a collector's check only late verbs run,
and while it unlinks only a late put is open) and `AwaitedKept`. The argument goes through four
facts, each one step per action: only `Sweep` unlinks a body, and only one with
no row (`Unlinks`); what a step adds to the awaited bodies it has just landed
(`FreshStep`); what it indexes was awaited (`NamedStep`); a swept body is
awaited by nobody but late threads, whose it is then recorded `lost` (`SweptUnstaged`,
`SweptLate`, `LostStep`).

`Staging_proofs.tla` has lemmas only, on what an action leaves of the items: a
landing chooses a place of the store (`LandingPlace`, `ClaimedPlace`; the key it
mints is a least number, so a minimum must exist: `Least`), the items stay items
(`LandItems`, `RemoveItems`, `AppliedItems`, `SyncedItems`), and what a server
holds stays on it.

`Queue_proofs.tla`, for any handles, rows, attempts, stops, places and actions:

- `ExactlyOnce`: `Spec => []OneFate`;
- `Implements`: `Spec => StatusPromise`, the refinement of ActionStatus;
- `TypeCorrect`: `Spec => []TypeOK`;
- `PinsExact`: `Spec => []PinsCount`;
- `DeletesOwed`: `Spec => ServerDeletesKept`;
- `AppendOrder`: `Spec => OvertakesOnlyTried`.

`OneFate` counts the fates of an id; to be inductive it needs `RowsWell`: ids in
use lie below `nextId`, parked rows are queued, a receipt is of a row that is
gone. From these, `QueuedOnly` says that what a claim or a delete finds was
never applied nor settled otherwise, and each action adds one fate as it takes
one away. For the refinement each action that changes a row is one step of
ActionStatus (`AppendRefines`, `ApplyRefines`, ...), a failure counted on a row
already parked, or only counted, being none. The types need `RowsAsked`, that a
row below `nextId` holds an action somebody asked for. The pins are compared
with the cardinality of the rows `Naming` a body, which one append, withdrawal
or replacement moves by one. The append order needs `Tried`: a pass is past a
pending row only if the row has failed an attempt or no drain applies it.

`Rounds_proofs.tla`, for any handles, dates, connectors, scopes, changes of the
server and faults:

- `TypeCorrect`: `Spec => []TypeOK`;
- `AbsenceIsProven`: `Spec => []AbsenceProven`;
- `FiledOnce`: `NewestLast` and `Spec` give `[]CreatedOnce`.

`Shape` says how a run's plan, its page and the source's row go together at each
state of the coroutine; without it no step is even typed. `Swept` carries the
absences: while a round is open what is off the server is in `gone`, and what its
pages are sure to name and is not gone is stamped as far as the round has come.
What its last page finds unstamped is therefore gone, through any number of runs.
`CreatedOnce` needs time: `Timed` orders every checkpoint and position between the
source's checkpoint and the server's clock, and `Unfound` says that a create filed
and not yet found is newer than the checkpoint and is listed by any page a create
may follow. `NewestLast` is what a source must do: the handles it gives the create
come last in its pages, with one date, and its filter lists them. A source that
inserts a new member on a page already listed would have the create filed twice.

`Coverage_proofs.tla` extends it:

- `CoverageIsServed`: `OpenScopes` and `Spec` give `[]CoverageServed`.

The invariant follows a page from its listing to its write. `Listing`: what a page
says of a member is so, and it speaks of all it answers for, unless the member
changed after everything the row and the page are as of (`Late`). `Paging`: which
checkpoint and position each kind of page carries. `Settling`: what the open round
listed is held and stamped, a band leaving the old coverage served. `Absents`: what
the last page finds absent is all that is off the server as of `Closing`, the
checkpoint the round closes at, and nothing else. `Land` turns these into
`CoverageServed` for the new coverage. `OpenScopes`, no scope closed above, cannot
be dropped: closed scopes are the `MCClosedScopes` disagreement above. Rounds that
parked are excluded by the property itself.

`Retention_proofs.tla`, for any finite sets of collections, links, sources and
bodies:

- `TypeCorrect`: `Spec => []TypeOK`;
- `CountsExact`: `Spec => []RefcountsExact`;
- `NothingOwedLost`: `Spec => []OwedKept`;
- `CopiesFollow`: `Spec => []TargetsFollow`.

The `...Effect` lemmas say what each operator does to the tables, the triggers
included: beside the rows it is about a write touches stand-ins alone, which pin
nothing (`Blank`, `Beside`). A change of one row then moves the pins counted over
the whole store by that row's columns, the diverging bodies' too, which is what
`Adjusted` adds. Every merge of a sync, a landing, an edit or a settled conflict is
one upsert, so `WriteStep` is proved once, over `AbsorbedRow` (what the merge leaves
names only stored bodies, and so does what it sets aside for `keep_overruled`),
and each action only shows what it upserts. The inductive invariant `RetentionInv`
adds to the counts what a later write relies on. `StoreInv`: an id names one
collection, a held row's collection is filed, a retained row is bound by nothing and
nothing diverges from a file, what a pointer names is stored, and a queued copy names
the id its collection has now. `OwedInv`: a place owed a push holds a row that owes
it, by its own columns (`Owes`). `BareInv`: a live message with neither a body nor a
base is one a drain landed so; this is what `OwedKept` excepts, and it is true of the
code (`client/mutate.rs` applies the copy of a based bodiless message, and a queued
add may name no body).

`Overlay_proofs.tla`, for any store, queue, declarations, page limit and order of
the keys:

- `TypeCorrect`: `Spec => []TypeOK`;
- `ScanMissesNothing`: `Spec => []ScanComplete`;
- `QueuedChoiceHolds`: `Spec => ChoiceHolds`;
- `AppliedIsSupported`: `KindsAgree` and `Spec` give `PushesSupported`.

`ScanInv` says that a key in the view throughout was seen, is still past the
cursor, or is in what the queries of the page under way have read or have still to
read. A page keeps it because it reads past the limit by as many rows as the fold
can drop: `FoldedIs` shows, by induction over the queue, that the fold drops only
keys with a pending removal; `FirstFull`, `RowsReach` and `LastKey` that a page which is full
then misses nothing before its last key. An item that changes the collection it is
read in while a page is read is excepted (`Steady`). The induction is by least counterexample
(`Least`), the induction theorems of the library being out of reach. A choice
drained is the latest of the queue and the only one of its capability, or an older
one, and both cases leave `Chosen` as it was (`ChosenKept`); the third, the latest
overtaking an older one that failed, is the disagreement above. `AppliedIsSupported` has a lemma per kind of action
(`RemoveSupported`, `AddSupported`, `EditSupported`, `RelocateSupported`).
`KindsAgree`, that a move or a copy is between two collections of one kind, is
needed: the code asks for the arriving add by the kind of the collection the item
leaves (`client/capability.rs`, `gate_by_kind`) and compares no kinds.

Only model-checked:

- `Converges` and `Settles`, liveness being out of the prover's reach;
- of Sync `NoLostEdit`, `NeverRefused` and `AddsOnce`; of Rekey and Index all: their
  batches, listings and threads are folds over sequences put together from sets;
- `ReadsAsDrained`, which compares two folds of one queue, and `AttachmentsNamed`,
  true of stores with a collection to file attachments in;
- Query and Answer, whose descent is a RECURSIVE operator.

## Not modelled

Text extraction, HTML, the parsers of messages, calendars and cards, the codecs
and the hash (a body is a model value, with the words, the parent or the
occurrences a property needs); the schema, the file modes, the diagnostics and
the command line; the open verb, a load. Of modelled parts: the item a receipt
names; an enqueue that names a body staged in no open window, a contract on the
caller; the wait of `put_item` for the writer lock, which the busy timeout ends;
temporary files and fsync; the ordering, paging and snippets of search answers;
destinations of moves pushed as moves; in Retention a copy drained when another kind
of collection has taken its target's id. Of Query, the runs compare where a fault's
span starts and not where it ends, and no day of 25 hours is tried; of Answer, no
answer within reach is complete over a bounded scope, since the collection with no
closed round is always there too, and `account:""` is not read.

## Plan

The model is complete as far as the sections above say, and the theorems planned
are proved. What is left, model-checked only, in the order of what it would show:

1. Sync: `NoLostEdit` for a single source, `Inv` extended by what every staged write
   leaves of the bodies held; `NeverRefused`, which needs that no two rows of a run
   share a handle after naming.
2. Rekey: `RebuildTaken`, by the same lemmas on batches.
3. Overlay: `ReadsAsDrained`; Retention: `AttachmentsNamed`.
