------------------------------ MODULE MCQueue ------------------------------
(* Small instances of Queue.tla for TLC: two mailboxes, `inbox` that some   *)
(* source syncs and `archive` kept on the device.                           *)
EXTENDS Queue, TLC

CONSTANTS inbox, archive, msg, b1, b2, plain, starred

Inbox(n) == <<inbox, <<msg, n>>>>
Archive(n) == <<archive, <<msg, n>>>>

Ask(kind, at) ==
    Action(kind, at, at[1], NoBody, plain, NoBody, {}, NoPlace, FALSE)
Put(kind, at, body) == [Ask(kind, at) EXCEPT !.body = body]

Row(state, body) ==
    [state |-> state, object |-> body, flags |-> plain, conflict |-> NoBody]

Holding(at, state, body) ==
    [p \in Places |-> IF p = at THEN Row(state, body) ELSE NoItem]

(* Two handles drain at once: an item on its server, and every fate a row   *)
(* may have.                                                                *)
RacingItems == Holding(Inbox(0), "bound", b1)
RacingRequests ==
    {Ask("remove", Inbox(0)), [Put("update", Inbox(0), b2) EXCEPT !.ifMatch = b1],
     Put("intent", Inbox(0), b1), Ask("set-performer", Inbox(0))}
RacingMalformed == {Put("malformed", Inbox(0), b1), Ask("later", Inbox(0))}
RacingChanges == {[Put("add", Inbox(0), b1) EXCEPT !.fresh = TRUE]}

(* One handle drains while a source declares what it takes and syncs: an   *)
(* item on the device and every kind of action, two collections.           *)
SteadyItems ==
    [Holding(Inbox(0), "bound", b1) EXCEPT ![Archive(0)] = Row("unbound", b1)]
SteadyRequests ==
    {[Put("add", Inbox(0), b2) EXCEPT !.fresh = TRUE],
     [Put("add", Inbox(1), b2) EXCEPT !.supersedes = Inbox(0)],
     [Ask("move", Inbox(0)) EXCEPT !.to = archive],
     [Ask("copy", Inbox(0)) EXCEPT !.to = archive],
     [Ask("set-flags", Archive(0)) EXCEPT !.flags = starred],
     [Put("update", Inbox(0), b2) EXCEPT !.resolves = {b2}],
     Ask("remove", Archive(0)), Put("intent", Inbox(0), b1)}
SteadyMalformed == {Put("restated", Inbox(0), b1)}
SteadyPlaces == {Inbox(0)}

(* One message copied time after time to a collection that holds its key.  *)
CopyRequests == {[Ask("copy", Inbox(0)) EXCEPT !.to = archive]}

DrainSymmetry == Permutations(Drains)
=============================================================================
