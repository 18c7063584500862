-------------------------------- MODULE Gate --------------------------------
(***************************************************************************)
(* The gate of the declared capabilities: what an action needs of the      *)
(* sources it concerns (src/src/capability.rs), what each of them declared *)
(* where it lands, and who performs an intent                              *)
(* (src/src/client/capability.rs, src/src/intent.rs).                      *)
(*                                                                         *)
(* Operators only; Overlay.tla keeps the items, the declaration rows, the  *)
(* recorded performer and the queue they read.  A declaration row is       *)
(* [source, at, cap, support], `at` a collection or Wide for the           *)
(* source-wide row; what a human reads of a partial support is left out.   *)
(* A collection is synced by one source, which may sync several.           *)
(***************************************************************************)
EXTENDS Staging, Sequences, FiniteSets

CONSTANTS
    Sources,
    SourceOf,    \* collection -> the source syncing it
    Calendars,   \* the collections of kind text/calendar
    Tasks,       \* the bodies whose master is a VTODO
    Scheduled,   \* those with attendees their server writes to
    Online,      \* those with an online meeting
    Occurrences, \* body -> its overridden occurrences
    Wide,        \* the collection column of a source-wide row
    NoSource

ASSUME SourceAssumption == SourceOf \in [Collections -> Sources]
ASSUME NoSourceAssumption == NoSource \notin Sources /\ Wide \notin Collections
ASSUME KindAssumption ==
    /\ Calendars \subseteq Declared /\ Messages \subseteq Declared
    /\ Calendars \cap Messages = {}

-----------------------------------------------------------------------------
(* The intents, with what their payloads say to the gate: the performer    *)
(* they name and the option they ask beside their own capability.          *)
NoOption == <<"option", "none">>

Intent(kind, c, source, option) ==
    [kind |-> kind, at |-> <<c, NoPlace>>, source |-> source, option |-> option]

(* PimdirSubmit: a copy filed needs mail.submit.copy of the same source.   *)
Submit(c, source, copied) ==
    Intent("submit", c, source, IF copied THEN <<"submit", "copy">> ELSE NoOption)

(* PimdirInvitation: a reply or a cancel, of the series or an occurrence.  *)
Invitation(kind, c, source, occurrence) ==
    Intent(kind, c, source,
           CASE ~occurrence -> NoOption
             [] kind = "calendar-reply" -> <<"reply", "occurrence">>
             [] kind = "calendar-cancel" -> <<"cancel", "occurrence">>)

(* PimdirCollectionCreate, anchored on the parent it names; rename, delete.*)
CollectionCreate(anchor, parent, source) ==
    Intent("collection-create", IF parent = NoPlace THEN anchor ELSE parent, source, NoOption)

CollectionRename(c, source) == Intent("collection-rename", c, source, NoOption)

CollectionDelete(c, source) == Intent("collection-delete", c, source, NoOption)

SetPerformer(c, cap, source) ==
    [kind |-> "set-performer", at |-> <<c, NoPlace>>, cap |-> cap, source |-> source]

CollectionIntents == {"collection-create", "collection-rename", "collection-delete"}
IntentKinds == {"submit", "calendar-reply", "calendar-cancel"} \cup CollectionIntents
IsIntent(a) == a.kind \in IntentKinds

(* intent_capability: every kind of the vocabulary is bound to its own.    *)
IntentCapability(kind) == <<"intent", kind>>

-----------------------------------------------------------------------------
(* domain: mail, calendar or contacts; nothing of an undeclared kind.      *)
Domain(c) ==
    CASE c \in Messages -> "mail" [] c \in Calendars -> "calendar" [] OTHER -> "contacts"

(* flag_changes: every flag added or removed, of a message alone.          *)
FlagChanges(c, before, after) ==
    IF c \in Messages
    THEN {<<"flags", f>> : f \in (before \ after) \cup (after \ before)}
    ELSE {}

(* required: what an action needs in a collection by its kind and flags.   *)
(* `current` is the item's flag set, `flags` the one the action states.    *)
Required(c, kind, current, flags) ==
    IF c \notin Declared THEN {}
    ELSE CASE kind = "add" -> {<<Domain(c), "add">>} \cup FlagChanges(c, {}, flags)
           [] kind = "copy" -> {<<Domain(c), "copy">>} \cup FlagChanges(c, {}, current)
           [] kind \in {"move", "remove"} -> {<<Domain(c), kind>>}
           [] kind = "update" /\ c \notin Messages -> {<<Domain(c), "update">>}
           [] kind = "set-flags" -> FlagChanges(c, current, flags)
           [] OTHER -> {}

(* required_by_content: what a calendar write asks of its resources.       *)
RequiredByContent(c, kind, current, new) ==
    LET written == kind \in {"add", "update"}
        stated == IF written THEN new ELSE IF kind = "remove" THEN current ELSE NoBody
    IN  IF c \notin Calendars THEN {}
        ELSE (IF stated \in Scheduled THEN {<<"calendar", "scheduling">>} ELSE {})
        \cup (IF written /\ new \in Online /\ current \notin Online
              THEN {<<"calendar", "online-meeting">>} ELSE {})
        \cup (IF /\ kind = "update" /\ current # NoBody
                 /\ Occurrences[current] # Occurrences[new]
              THEN {<<"calendar", "occurrence">>} ELSE {})

-----------------------------------------------------------------------------
(* load_capabilities, load_item_capabilities: a row naming the collection  *)
(* wins over the source-wide one of the same capability.                   *)
Effective(rows, c, s) ==
    {r \in rows : /\ r.source = s
                  /\ \/ r.at = c
                     \/ r.at = Wide /\ ~\E o \in rows :
                            o.source = s /\ o.at = c /\ o.cap = r.cap}

(* gating: $important and $junk are read under keywords where the source   *)
(* states no row of their own.                                             *)
GatingName(declared, cap) ==
    IF /\ cap \in {<<"flags", "important">>, <<"flags", "junk">>}
       /\ ~\E r \in declared : r.cap = cap
    THEN <<"flags", "keywords">> ELSE cap

(* check, of one source: an undeclared one gates nothing, a declared one   *)
(* refuses what it lacks or states `none` of.                              *)
Supports(declared, cap) ==
    \E r \in declared : r.cap = GatingName(declared, cap) /\ r.support # "none"

Check(rows, c, sources, needed) ==
    \A s \in sources : LET declared == Effective(rows, c, s)
                       IN  declared # {} => \A cap \in needed : Supports(declared, cap)

(* check_vtodo: only a row stating `none` refuses.                         *)
CheckVtodo(rows, c, sources) ==
    \A s \in sources : ~\E r \in Effective(rows, c, s) :
        r.cap = <<"calendar", "vtodo">> /\ r.support = "none"

(* at_collection, at_item: the sources an action concerns.                 *)
AtCollection(items, c) == IF Synced(items, c) THEN {SourceOf[c]} ELSE {}
AtItem(items, p) == IF HasBinding(items[p]) THEN {SourceOf[p[1]]} ELSE {}

-----------------------------------------------------------------------------
(* candidates: the sources declaring some support at the anchor.           *)
Candidates(rows, c, cap) ==
    {s \in Sources : \E r \in Effective(rows, c, s) : r.cap = cap /\ r.support # "none"}

(* candidates, with no anchor: anywhere in the account.                    *)
CandidatesAnywhere(rows, cap) ==
    {s \in Sources : \E r \in rows : r.source = s /\ r.cap = cap /\ r.support # "none"}

(* The last of some positions in the queue.                                *)
Latest(positions) == CHOOSE i \in positions : \A j \in positions : j <= i

(* Mutant: the recorded choice alone, as before the queue was read.        *)
MutantChosen(queue, performer, cap) == performer[cap]

(* chosen: the latest set-performer still queued over the recorded one.    *)
Chosen(queue, performer, cap) ==
    LET choices == {i \in DOMAIN queue : queue[i].kind = "set-performer" /\ queue[i].cap = cap}
    IN  IF choices = {} THEN performer[cap] ELSE queue[Latest(choices)].source

(* resolve_performer: the source named when it is a candidate, the single  *)
(* candidate, or the choice while it still is one; NoSource refuses.       *)
ResolvePerformer(rows, queue, performer, c, cap, named) ==
    LET able == Candidates(rows, c, cap)
        chosen == Chosen(queue, performer, cap)
    IN  IF named # NoSource THEN IF named \in able THEN named ELSE NoSource
        ELSE IF Cardinality(able) = 1 THEN CHOOSE s \in able : TRUE
        ELSE IF chosen \in able THEN chosen
        ELSE NoSource

-----------------------------------------------------------------------------
(* An intent needs its capability, and the option beside it, of its        *)
(* performer alone.  An account that declared nothing leaves the choice to *)
(* its owner, but carries no occurrence and no collection intent.          *)
GateIntent(rows, queue, performer, a) ==
    LET s == ResolvePerformer(rows, queue, performer, a.at[1], IntentCapability(a.kind),
                              a.source)
    IN  /\ a.kind = "collection-create" => a.at[1] \in Declared
        /\ IF rows = {}
           THEN /\ a.kind \notin CollectionIntents
                /\ a.option \notin {<<"reply", "occurrence">>, <<"cancel", "occurrence">>}
           ELSE /\ s # NoSource
                /\ a.option = NoOption \/ s \in Candidates(rows, a.at[1], a.option)

(* gate_by_kind of a state action: an item's holders need the verb, the    *)
(* other sources syncing a target need an add of what arrives.             *)
FlagsOf(items, p) == IF Live(items[p]) THEN items[p].flags ELSE {}
ObjectOf(items, p) == IF Live(items[p]) THEN items[p].object ELSE NoBody

GateByKind(rows, items, a) ==
    LET current == FlagsOf(items, a.at)
        holders == AtItem(items, a.at)
    IN  IF a.kind = "add"
        THEN Check(rows, a.at[1], AtCollection(items, a.at[1]),
                   Required(a.at[1], "add", {}, a.flags))
        ELSE /\ Check(rows, a.at[1], holders, Required(a.at[1], a.kind, current, a.flags))
             /\ a.kind \in {"move", "copy"} =>
                    Check(rows, a.to, AtCollection(items, a.to) \ holders,
                          Required(a.at[1], "add", {}, current))

(* gate_vtodo: a task landing in a calendar, under the body it lands with. *)
GateVtodo(rows, items, a) ==
    CASE a.kind = "add" ->
           a.body \in Tasks => CheckVtodo(rows, a.at[1], AtCollection(items, a.at[1]))
      [] a.kind = "update" ->
           a.body \in Tasks => CheckVtodo(rows, a.at[1], AtItem(items, a.at))
      [] a.kind \in {"move", "copy"} ->
           ObjectOf(items, a.at) \in Tasks =>
               CheckVtodo(rows, a.to, AtCollection(items, a.to))
      [] OTHER -> TRUE

(* What a calendar's resources ask for, of the item's holders or of the    *)
(* sources syncing the collection an add lands in.                         *)
GateContent(rows, items, a) ==
    LET current == IF a.kind = "add" THEN NoBody ELSE ObjectOf(items, a.at)
        sources == IF a.kind = "add" THEN AtCollection(items, a.at[1])
                   ELSE AtItem(items, a.at)
    IN  a.kind \in {"add", "update", "remove"} =>
            Check(rows, a.at[1], sources, RequiredByContent(a.at[1], a.kind, current, a.body))

GateAction(rows, items, a) ==
    /\ GateByKind(rows, items, a)
    /\ a.at[1] \in Calendars => GateVtodo(rows, items, a) /\ GateContent(rows, items, a)

(* gate: an add superseding an item also removes it, which its own sources *)
(* gate.                                                                   *)
RemoveOf(p) == Action("remove", p, p[1], NoBody, {}, NoBody, {}, NoPlace, FALSE)

Gate(rows, queue, performer, items, a) ==
    CASE a.kind = "set-performer" -> TRUE
      [] IsIntent(a) -> GateIntent(rows, queue, performer, a)
      [] OTHER ->
           /\ GateAction(rows, items, a)
           /\ (a.kind = "add" /\ a.supersedes # NoPlace) =>
                  GateAction(rows, items, RemoveOf(a.supersedes))

(* backstop_intent: the drain parks an intent naming a source that         *)
(* declares something, but not what the intent needs.                      *)
BackstopIntent(rows, a) ==
    (a.source # NoSource /\ \E r \in rows : r.source = a.source) =>
        /\ a.source \in Candidates(rows, a.at[1], IntentCapability(a.kind))
        /\ a.option = NoOption \/ a.source \in Candidates(rows, a.at[1], a.option)

(* set_performer: a source that is no candidate anywhere parks the choice. *)
TakesChoice(rows, a) == a.source = NoSource \/ a.source \in CandidatesAnywhere(rows, a.cap)

(* declare: the source's rows are replaced whole.                          *)
Declaration(rows, s, new) == {r \in rows : r.source # s} \cup new
=============================================================================
