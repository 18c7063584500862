------------------------------ MODULE Placement ------------------------------
(***************************************************************************)
(* The three-way merge of one placement (src/src/placement.rs and the      *)
(* merge arms of src/src/sync.rs), as operators over a row of the store    *)
(* and what a listing says of the same member.  Nothing here is a state    *)
(* machine: Sync.tla applies these operators to the rows of a collection.  *)
(*                                                                         *)
(* A body and a revision are natural numbers, 0 being the `None` of the    *)
(* code; a pending create has no base (NoBase).  Summaries, sort keys and  *)
(* levels are left out: a level is Full exactly when the row names a body. *)
(* Every operator answers the writes the code stages for the row, in       *)
(* order: the store folds each one in (Hub.tla), so an intermediate one    *)
(* counts.                                                                 *)
(***************************************************************************)
EXTENDS Naturals, Sequences

CONSTANTS
    Flags,        \* the markers an item may carry
    Unknown,      \* the flag set of a member nobody read the markers of
    NoBase,       \* the base of a row never reconciled with its source
    Policy,       \* PimdirConflictPolicy of the source
    Rights,       \* the push kinds the source accepts (PimdirPushRights)
    BesideOthers  \* whether other sources bind the collection

ASSUME UnknownAssumption == \A markers \in SUBSET Flags : Unknown # markers
ASSUME PolicyAssumption == Policy \in {"Manual", "PreferLocal", "PreferRemote"}
ASSUME RightsAssumption == Rights \subseteq {"flags", "content", "add", "remove"}
ASSUME BesideAssumption == BesideOthers \in BOOLEAN

NoBody == 0
NoRev == 0
FlagSets == {Unknown} \cup (SUBSET Flags)
Statuses == {"Clean", "Dirty", "Tombstone", "Conflict", "Created"}

(* What one member of a listing states: revision, markers, and the body    *)
(* its meta carried, NoBody when the listing read none.                    *)
Items == [revision : Nat, flags : FlagSets, body : Nat]

Bases == [flags : FlagSets, revision : Nat, object : Nat]

(* A placement: a row of the store as one source sees it.                  *)
Placements(Handles, Keys) ==
    [handle : Handles, link : Keys, object : Nat, flags : FlagSets,
     status : Statuses, conflictRevision : Nat, conflictObject : Nat,
     base : Bases \cup {NoBase}]

-----------------------------------------------------------------------------
(* PimdirFlags::merge: the side that flipped a flag wins it, an unknown    *)
(* side has no opinion, an unknown base is no base.                        *)
MergeFlags(base, local, remote) ==
    IF local = Unknown THEN remote
    ELSE IF remote = Unknown THEN local
    ELSE LET b == IF base = Unknown THEN {} ELSE base
         IN  (local \cap remote) \cup (local \ b) \cup (remote \ b)

(* The body staged locally but never synced. *)
StagedEdit(p) == p.object # NoBody /\ p.object # p.base.object

(* Mutant: a held body is pushed whatever the base names.                  *)
MutantNeverAwaits(p) == FALSE

(* A held body facing a base that names none: nobody read what the server  *)
(* holds at the base's revision.                                           *)
AwaitsBase(p) ==
    p.object # NoBody /\ p.base.revision # NoRev /\ p.base.object = NoBody

(* Mutant: a conflicted row is not an edit of its own.                     *)
MutantDirtyOnly(p) == p.status = "Dirty" /\ StagedEdit(p)

ContentPending(p) == p.status = "Dirty" /\ StagedEdit(p)
HoldsLocalEdit(p) == p.status \in {"Dirty", "Conflict"} /\ StagedEdit(p)

RemoteChanged(p, item) ==
    item.revision # NoRev /\ item.revision # p.base.revision

-----------------------------------------------------------------------------
(* The changes a merge derives (PimdirChangeKind).                         *)
NoChange == [kind |-> "None"]
UpdateChange(p, ifMatch) == [kind |-> "Update", object |-> p.object, ifMatch |-> ifMatch]
RemoveChange(p) == [kind |-> "Remove", ifMatch |-> p.base.revision]
FlagsChange(add, remove) == [kind |-> "SetFlags", add |-> add, remove |-> remove]

(* The storage writes a run stages (PimdirWriteOp).                        *)
Upsert(p) == [op |-> "Upsert", row |-> p]
Drop(handle, reason) == [op |-> "Drop", handle |-> handle, reason |-> reason]
Overrule(handle) == [op |-> "Overrule", handle |-> handle]
Settle(handle) == [op |-> "Settle", handle |-> handle]

(* What merging a row leaves: the row, the writes staged for it and the    *)
(* change to push, whose settling rebases that row.                        *)
Outcome(row, writes, change) == [row |-> row, writes |-> writes, change |-> change]
Untouched(p) == Outcome(p, <<>>, NoChange)
Rewritten(p) == Outcome(p, <<Upsert(p)>>, NoChange)

-----------------------------------------------------------------------------
(* The content axis.                                                       *)

(* Mutant: the revision advances, the body does not.                       *)
MutantTakeRevision(p, item) == [p EXCEPT !.base.revision = item.revision]

(* take_listed: the member's body and revision become the row's and its    *)
(* base's; a member carrying no body leaves the row without one.           *)
TakeListed(p, item) ==
    [p EXCEPT !.object = item.body,
              !.base.revision = item.revision,
              !.base.object = item.body]

MarkConflict(p, item) ==
    [p EXCEPT !.status = "Conflict",
              !.conflictRevision = item.revision,
              !.conflictObject = item.body]

(* keep_observed: the body about to be pushed over is recorded as the      *)
(* divergence an overruling write keeps, then becomes the base at the      *)
(* observed revision.                                                      *)
KeepObserved(p, item) ==
    LET adopted == [p EXCEPT !.status = "Dirty",
                             !.conflictRevision = NoRev,
                             !.conflictObject = NoBody,
                             !.base.revision = item.revision,
                             !.base.object = item.body]
    IN  Outcome(adopted,
                <<Upsert(MarkConflict(p, item)), Overrule(p.handle), Upsert(adopted)>>,
                UpdateChange(adopted, item.revision))

ResolveConflict(p, item) ==
    IF Policy = "PreferRemote" THEN Rewritten(TakeListed(p, item))
    ELSE IF Policy = "PreferLocal" /\ "content" \in Rights /\ item.body # NoBody
    THEN KeepObserved(p, item)
    ELSE Rewritten(MarkConflict(p, item))

(* rebase_content: an accepted content push becomes the base.              *)
RebaseContent(p, revision) ==
    [p EXCEPT !.status = IF p.status = "Tombstone" THEN "Tombstone"
                         ELSE IF p.flags = p.base.flags THEN "Clean" ELSE "Dirty",
              !.base.revision = revision,
              !.base.object = p.object]

(* A conflicted row only follows the revision it diverged at: an edit      *)
(* settles it, never this axis.                                            *)
ReconcileConflicted(p, item) ==
    IF p.conflictRevision = NoRev /\ RemoteChanged(p, item)
    THEN Rewritten(MarkConflict(p, item))
    ELSE IF /\ p.conflictRevision # NoRev
            /\ item.revision # NoRev
            /\ item.revision # p.conflictRevision
    THEN Rewritten([p EXCEPT !.conflictRevision = item.revision,
                             !.conflictObject = item.body])
    ELSE Untouched(p)

ReconcileContent(p, item) ==
    LET localChanged  == ContentPending(p)
        remoteChanged == RemoteChanged(p, item)
    IN  IF p.status = "Conflict" THEN ReconcileConflicted(p, item)
        ELSE IF ~localChanged
        THEN IF remoteChanged THEN Rewritten(TakeListed(p, item)) ELSE Untouched(p)
        ELSE IF ~remoteChanged
        THEN IF "content" \notin Rights \/ AwaitsBase(p)
             THEN Untouched(p)
             ELSE Outcome(p, <<>>, UpdateChange(p, p.base.revision))
        \* The member carrying the edit's own body is the push whose
        \* record was lost.
        ELSE IF item.body = p.object
        THEN Rewritten(RebaseContent(p, item.revision))
        ELSE ResolveConflict(p, item)

-----------------------------------------------------------------------------
(* The flag axis.                                                          *)

(* rebase: only the flag axis settles, so a conflict and a staged edit     *)
(* keep their status.                                                      *)
Rebase(p, flags) ==
    [p EXCEPT !.base.flags = flags,
              !.status = IF p.status = "Conflict" \/ ContentPending(p)
                         THEN p.status ELSE "Clean"]

PullFlags(p, flags) == Rebase([p EXCEPT !.flags = flags], flags)

(* flag_delta: what a SetFlags adds and removes, none when unknown.        *)
FlagDelta(merged, held) ==
    LET h == IF held = Unknown THEN {} ELSE held
    IN  IF merged = Unknown \/ merged = h THEN NoChange
        ELSE FlagsChange(merged \ h, h \ merged)

(* `mayPush` is PushFlags::Derive: the content axis claimed no change.     *)
ReconcileFlags(p, item, mayPush) ==
    LET merged  == MergeFlags(p.base.flags, p.flags, item.flags)
        pull    == merged # p.flags
        push    == merged # item.flags
        updated == [p EXCEPT !.flags = merged]
        held    == IF item.flags = Unknown THEN p.base.flags ELSE item.flags
        delta   == FlagDelta(merged, held)
        settled == p.status = "Dirty" /\ ~ContentPending(p)
        pulled  == IF pull THEN <<Upsert(updated)>> ELSE <<>>
    IN  IF ~push
        THEN IF pull THEN Rewritten(PullFlags(p, merged))
             ELSE IF p.flags # p.base.flags \/ settled
             THEN Rewritten(Rebase(p, merged)) ELSE Untouched(p)
        ELSE IF ~mayPush \/ "flags" \notin Rights
        THEN Outcome(updated, pulled, NoChange)
        ELSE IF delta # NoChange THEN Outcome(updated, pulled, delta)
        ELSE IF pull THEN Rewritten(updated)
        ELSE Rewritten(Rebase(updated, merged))

(* Content first, then flags on the row the content axis left; one handle  *)
(* yields at most one change.                                              *)
ThenFlags(content, item) ==
    LET flags == ReconcileFlags(content.row, item, content.change = NoChange)
    IN  Outcome(flags.row,
                content.writes \o flags.writes,
                IF content.change = NoChange THEN flags.change ELSE content.change)

-----------------------------------------------------------------------------
(* The membership arms of PimdirSync::merge.                               *)

MergePresent(p, item) == ThenFlags(ReconcileContent(p, item), item)

(* refuse_delete: held beside other sources, else only the delete is       *)
(* undone.                                                                 *)
RefuseDelete(p) ==
    IF BesideOthers THEN Untouched(p)
    ELSE Rewritten(
           [p EXCEPT !.status = IF p.conflictRevision # NoRev THEN "Conflict"
                                ELSE IF StagedEdit(p) THEN "Dirty" ELSE "Clean"])

Revive(p, item) ==
    [TakeListed(p, item) EXCEPT !.flags = item.flags,
                                !.status = "Clean",
                                !.conflictRevision = NoRev,
                                !.conflictObject = NoBody,
                                !.base.flags = item.flags]

(* A tombstone the remote still lists: an edit past its base beats the     *)
(* delete, otherwise the delete is pushed gated on the base's revision.    *)
MergeTombstone(p, item) ==
    IF RemoteChanged(p, item)
    THEN IF StagedEdit(p)
         THEN ThenFlags(ResolveConflict([p EXCEPT !.status = "Dirty"], item), item)
         ELSE Rewritten(Revive(p, item))
    ELSE IF "remove" \notin Rights THEN RefuseDelete(p)
    ELSE Outcome(p, <<>>, RemoveChange(p))

MergeListed(p, item) ==
    IF p.status = "Tombstone" THEN MergeTombstone(p, item) ELSE MergePresent(p, item)

(* resurrect: a body whose remote side went is re-staged as a pending      *)
(* create under the provisional handle its key derives.  A provisional     *)
(* handle is modelled by the key itself.                                   *)
Resurrect(p) ==
    LET create == [p EXCEPT !.handle = p.link,
                            !.status = "Created",
                            !.conflictRevision = NoRev,
                            !.conflictObject = NoBody,
                            !.base = NoBase]
    IN  Outcome(create, <<Drop(p.handle, "Superseded"), Upsert(create)>>, NoChange)

(* A member the remote no longer holds: a local edit it never saw beats    *)
(* the delete, anything else goes.                                         *)
MergeVanished(p) ==
    IF p.status # "Tombstone" /\ HoldsLocalEdit(p) THEN Resurrect(p)
    ELSE Outcome(p, <<Drop(p.handle, "Deleted")>>, NoChange)

(* narrow: what stands in for an unlisted member that is not clean.        *)
Unlisted(p) ==
    [revision |-> IF p.conflictRevision # NoRev THEN p.conflictRevision
                  ELSE p.base.revision,
     flags |-> p.base.flags,
     body |-> NoBody]
=============================================================================
