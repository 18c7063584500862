------------------------------ MODULE Staging ------------------------------
(***************************************************************************)
(* What one queued action does to the items of a store: stage_action and   *)
(* the calls around it in src/src/client/producer.rs, the verbs it runs    *)
(* (src/src/mutate.rs) and the rows their writes leave                     *)
(* (src/src/client/write.rs).                                              *)
(*                                                                         *)
(* Operators only; Queue.tla keeps the items as its state.  The bindings   *)
(* of an item are told apart by what the drain reads of them: `created`    *)
(* (bound under its provisional handle, no base), `bound` (under the       *)
(* server's), `unbound` (on this device alone), `tombstone` (a bound one   *)
(* deleted, its delete to push), `withdrawn` (a created one moved away)    *)
(* and `retained` (deleted, no binding left).  An item has one source:     *)
(* which of several the drain acts as changes no outcome, and Hub.tla      *)
(* models the fold across sources.  A public id names one place: a row is  *)
(* purged only while another collection holds the key live, whose id the   *)
(* key takes again.  Every collection is of one account.                   *)
(***************************************************************************)
EXTENDS Integers

CONSTANTS
    Collections,
    Declared,     \* the collections with a declared kind
    Messages,     \* those of kind message/rfc822
    Checkpointed, \* those some source keeps a checkpoint of
    Links,        \* the identities content states
    MaxMint,      \* how often a key is minted over
    Bodies, NoBody,
    Flags,
    NoItem,       \* no row at a place
    NoPlace       \* an action superseding nothing

ASSUME MintAssumption == MaxMint \in Nat /\ MaxMint > 1
ASSUME NoBodyAssumption == NoBody \notin Bodies
ASSUME DeclaredAssumption == Declared \subseteq Collections
ASSUME NoItemAssumption ==
    NoItem \notin [state : {"created", "bound", "unbound", "tombstone", "withdrawn",
                            "retained"},
                   object : Bodies \cup {NoBody}, flags : Flags,
                   conflict : Bodies \cup {NoBody}]

(* A key is the identity, or one minted over it once or more.              *)
Places == Collections \X (Links \X (0..MaxMint))
Objects == Bodies \cup {NoBody}

Items ==
    [state : {"created", "bound", "unbound", "tombstone", "withdrawn", "retained"},
     object : Objects, flags : Flags, conflict : Objects]

(* The rows a drained kind may be: the mutations, with the fields they use *)
Action(kind, at, to, body, flags, ifMatch, resolves, supersedes, fresh) ==
    [kind |-> kind, at |-> at, to |-> to, body |-> body, flags |-> flags,
     ifMatch |-> ifMatch, resolves |-> resolves, supersedes |-> supersedes,
     fresh |-> fresh]

-----------------------------------------------------------------------------
InState(item, states) == item # NoItem /\ item.state \in states
Live(item) == InState(item, {"created", "bound", "unbound"})
HasBinding(item) == InState(item, {"created", "bound", "tombstone", "withdrawn"})

(* Bound under the server's handle, its delete pending or not.             *)
OnServer(item) == InState(item, {"bound", "tombstone"})

(* collection_sources.                                                     *)
Synced(items, c) ==
    c \in Checkpointed \/ \E p \in Places : p[1] = c /\ HasBinding(items[p])

(* held_elsewhere: another collection holds the key live with this body.   *)
HeldElsewhere(items, p, object) ==
    \E q \in Places : /\ q[2] = p[2] /\ q[1] # p[1]
                      /\ Live(items[q])
                      /\ object = NoBody \/ items[q].object = object

(* save_hub_diff: an item whose last binding goes is retained, or purged   *)
(* when the key moved to another collection.                               *)
Retired(items, p) ==
    [items EXCEPT ![p] = IF HeldElsewhere(items, p, @.object) THEN NoItem
                         ELSE [@ EXCEPT !.state = "retained", !.conflict = NoBody]]

-----------------------------------------------------------------------------
(* mint_other_messages: a message landing on the retained row of another   *)
(* message is keyed apart, at a key no row holds.                          *)
OtherMessage(items, p, object) ==
    /\ p[1] \in Messages
    /\ InState(items[p], {"retained"})
    /\ object # NoBody /\ items[p].object # NoBody
    /\ items[p].object # object

Minted(p, n) == <<p[1], <<p[2][1], n>>>>

MintFree(items, p) == {n \in (p[2][2] + 1)..MaxMint : items[Minted(p, n)] = NoItem}

Landing(items, p, object) ==
    IF OtherMessage(items, p, object) /\ MintFree(items, p) # {}
    THEN Minted(p, CHOOSE n \in MintFree(items, p) : \A m \in MintFree(items, p) : n <= m)
    ELSE p

(* Mutant: the handle a create arrives under is not compared.              *)
MutantRebind(items, p) == FALSE

(* release_bindings: a create arrives under its provisional handle, so a   *)
(* row bound under the server's is not its to rebind.                      *)
Rebind(items, p) == OnServer(items[p])

(* revive_item lends a retained message's body to a create without one; a  *)
(* row still bound under the provisional handle keeps its own.             *)
LandedBody(items, p, object) ==
    IF /\ object = NoBody
       /\ \/ InState(items[p], {"created", "withdrawn", "unbound"})
          \/ InState(items[p], {"retained"}) /\ p[1] \in Messages
    THEN items[p].object ELSE object

Land(items, p, object, flags) ==
    [items EXCEPT ![p] = [state |-> "created", object |-> LandedBody(items, p, object),
                          flags |-> flags, conflict |-> NoBody]]

-----------------------------------------------------------------------------
(* A remove: a based binding keeps a tombstone to push, a pending create   *)
(* is withdrawn, an item on the device alone is retained as it stands.     *)
RemoveItem(items, p) ==
    CASE items[p].state = "bound" ->
           [items EXCEPT ![p] = [@ EXCEPT !.state = "tombstone", !.conflict = NoBody]]
      [] items[p].state = "created" -> Retired(items, p)
      [] items[p].state = "unbound" -> [items EXCEPT ![p] = [@ EXCEPT !.state = "retained"]]

(* supersede, after the add landed: an item already gone, or the one the   *)
(* add's own key names, is left alone.                                     *)
Supersede(items, a) ==
    IF a.supersedes = NoPlace \/ a.supersedes = a.at THEN items
    ELSE IF Live(items[a.supersedes]) THEN RemoveItem(items, a.supersedes) ELSE items

(* resolved: an ordinary edit meets no conflict, a resolution names the    *)
(* one it meets.                                                           *)
Resolved(item, a) ==
    IF a.resolves = {} THEN item.conflict = NoBody
    ELSE item.conflict \in a.resolves

(* PimdirMutation::create_target: the identity while the target does not   *)
(* hold it, else the next minted one; only the bare key and its first mint *)
(* are read.                                                               *)
Claimed(items, to, key) ==
    LET held(n) == Live(items[Minted(<<to, key>>, n)])
    IN  Minted(<<to, key>>, IF ~held(0) THEN 0 ELSE IF ~held(1) THEN 1 ELSE 2)

Target(items, a) == Landing(items, Claimed(items, a.to, a.at[2]), items[a.at].object)

(* A placement with no body is copied by its server or not at all.         *)
Deliverable(items, a) ==
    items[a.at].object # NoBody \/ (items[a.at].state = "bound" /\ Synced(items, a.to))

-----------------------------------------------------------------------------
(* Whether stage_action, apply_unbound and the write take the action, and  *)
(* the items they leave.  Nothing else of a refused one is kept: its       *)
(* transaction rolls back and the row parks.                               *)
OnDevice(items, a) == items[a.at].state = "unbound"

Takes(items, a) ==
    CASE a.kind = "add" ->
           ~Live(items[a.at]) /\ ~Rebind(items, Landing(items, a.at, a.body))
      [] a.kind = "remove" -> TRUE
      [] a.kind = "set-flags" ->
           Live(items[a.at]) /\ ~(OnDevice(items, a) /\ Synced(items, a.at[1]))
      [] a.kind = "update" ->
           /\ Live(items[a.at])
           /\ a.ifMatch = NoBody \/ items[a.at].object = a.ifMatch
           /\ ~(OnDevice(items, a) /\ Synced(items, a.at[1]))
           /\ Resolved(items[a.at], a)
      [] a.kind \in {"copy", "move"} ->
           /\ a.to \in Declared
           /\ Live(items[a.at]) /\ ~OnDevice(items, a)
           /\ Deliverable(items, a)
           /\ ~Rebind(items, Target(items, a))
      [] OTHER -> FALSE

Copied(items, a) == Land(items, Target(items, a), items[a.at].object, items[a.at].flags)

Applied(items, a) ==
    CASE a.kind = "add" ->
           Supersede(Land(items, Landing(items, a.at, a.body), a.body, a.flags), a)
      [] a.kind = "remove" -> IF Live(items[a.at]) THEN RemoveItem(items, a.at) ELSE items
      [] a.kind = "set-flags" -> [items EXCEPT ![a.at].flags = a.flags]
      [] a.kind = "update" ->
           [items EXCEPT ![a.at].object = a.body, ![a.at].conflict = NoBody]
      [] a.kind = "copy" -> Copied(items, a)
      [] a.kind = "move" ->
           [Copied(items, a) EXCEPT ![a.at].state =
                IF @ = "bound" THEN "tombstone" ELSE "withdrawn"]

-----------------------------------------------------------------------------
(* A batch a sync writes: a create pushed, a delete pushed, a member       *)
(* vanished, pulled, changed on its server or in conflict with it.         *)
SyncWritten(items, p) ==
    CASE InState(items[p], {"created"}) ->
           {[items EXCEPT ![p].state = "bound"]}
      [] InState(items[p], {"tombstone", "withdrawn"}) -> {Retired(items, p)}
      [] InState(items[p], {"bound"}) ->
           {Retired(items, p)} \cup
           {[items EXCEPT ![p].object = b, ![p].conflict = NoBody] : b \in Bodies} \cup
           {[items EXCEPT ![p].conflict = b] : b \in Bodies \ {items[p].object}}
      [] items[p] = NoItem \/ InState(items[p], {"retained"}) ->
           {[items EXCEPT ![p] = [state |-> "bound", object |-> b, flags |-> f,
                                  conflict |-> NoBody]] : b \in Bodies, f \in Flags}
      [] OTHER -> {}
=============================================================================
