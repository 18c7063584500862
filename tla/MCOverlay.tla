----------------------------- MODULE MCOverlay -----------------------------
(* A small instance of Overlay.tla for TLC: a mailbox of one source, a      *)
(* mailbox and a calendar of another, and two that both submit mail.        *)
EXTENDS Overlay, TLC

CONSTANTS inbox, work, agenda, m1, m2, ev, imap, dav, b1, b2

At(c, l) == <<c, <<l, 0>>>>

SourceOfEach == [c \in Collections |-> IF c = inbox THEN imap ELSE dav]
FlagSets == {{}, {"seen"}, {"junk"}}
OccurrencesOf == [b \in Bodies |-> IF b = b2 THEN 1 ELSE 0]
LinkRank == [k \in Links \X (0..MaxMint) |->
                3 * (CASE k[1] = m1 -> 0 [] k[1] = m2 -> 1 [] k[1] = ev -> 2) + k[2] + 1]

Row(state, body) == [state |-> state, object |-> body, flags |-> {}, conflict |-> NoBody]

Held ==
    [p \in Places |-> CASE p = At(inbox, m1) -> Row("bound", b1)
                        [] p = At(inbox, m2) -> Row("created", b1)
                        [] p = At(agenda, ev) -> Row("bound", b1)
                        [] OTHER -> NoItem]

Declares(s, c, allowed, refused) ==
    {[source |-> s, at |-> c, cap |-> cap, support |-> "full"] : cap \in allowed} \cup
    {[source |-> s, at |-> c, cap |-> cap, support |-> "none"] : cap \in refused}

Sending == IntentCapability("submit")
MailVerbs == {<<"mail", v>> : v \in {"add", "remove", "move", "copy"}}
FlagCaps == {<<"flags", "seen">>, <<"flags", "keywords">>}
EventVerbs == {<<"calendar", "update">>, <<"calendar", "occurrence">>}

Able(s) ==
    Declares(s, Wide, FlagCaps \cup {Sending, <<"submit", "copy">>}
        \cup IF s = imap THEN MailVerbs ELSE {<<"mail", "add">>} \cup EventVerbs, {})

(* What a source may say later: no flag but \Seen, no delete in the inbox, *)
(* no task in the agenda, an agenda that is read alone.                    *)
Later ==
    [s \in Sources |-> IF s = imap
        THEN {Declares(s, Wide, MailVerbs \cup {<<"flags", "seen">>}, {Sending}),
              Able(s) \cup Declares(s, inbox, {}, {<<"mail", "remove">>})}
        ELSE {Able(s) \cup Declares(s, agenda, {}, {<<"calendar", "vtodo">>}),
              Able(s) \cup Declares(s, work, {}, {<<"mail", "add">>, Sending})}]

Ask(kind, at) == Action(kind, at, at[1], NoBody, {}, NoBody, {}, NoPlace, FALSE)

Asked ==
    {Ask("remove", At(inbox, m1)),
     [Ask("set-flags", At(inbox, m1)) EXCEPT !.flags = {"junk"}],
     [Ask("move", At(inbox, m1)) EXCEPT !.to = work],
     [Ask("set-flags", At(work, m1)) EXCEPT !.flags = {"seen"}],
     [Ask("copy", At(inbox, m2)) EXCEPT !.to = work],
     [Ask("add", At(inbox, ev)) EXCEPT !.body = b2, !.supersedes = At(inbox, m1),
                                       !.fresh = TRUE],
     [Ask("update", At(agenda, ev)) EXCEPT !.body = b2, !.ifMatch = b1],
     [Ask("update", At(agenda, ev)) EXCEPT !.body = b1, !.resolves = {b2}],
     SetPerformer(inbox, Sending, imap), SetPerformer(inbox, Sending, NoSource),
     Submit(inbox, NoSource, TRUE), Invitation("calendar-reply", agenda, dav, TRUE),
     CollectionCreate(work, NoPlace, imap), CollectionRename(work, dav),
     CollectionDelete(inbox, NoSource)}

Both == Able(imap) \cup Able(dav)
        \cup Declares(dav, Wide, {IntentCapability("collection-rename")}, {})
Recorded ==
    [cap \in {IntentCapability(k) : k \in IntentKinds} |->
        IF cap = Sending THEN dav ELSE NoSource]
Synchronised == {At(agenda, ev), At(work, m1)}
=============================================================================
