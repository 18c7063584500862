---------------------------- MODULE MCRetention ----------------------------
(* Retention.tla over one message with an attachment, filed in two mail    *)
(* collections of an account, the task made from it, in a calendar of the  *)
(* device or one two sources sync, a minted key of each, and two accounts. *)
EXTENDS Retention, TLC

CONSTANTS inbox, archive, cal, att, attB, m, m2, e, e2, f, s1, s2, b, t1, t2, t3

MCCollections == {inbox, archive, cal, att, attB}
MCKindOf == inbox :> "mail" @@ archive :> "mail" @@ cal :> "calendar" @@ att :> "file" @@ attB :> "file"
MCLinks == {m, m2, e, e2, f}
MCLinkKind == m :> "mail" @@ m2 :> "mail" @@ e :> "calendar" @@ e2 :> "calendar" @@ f :> "file"
MCBare == m2 :> m @@ e2 :> e
MCSources == {s1, s2}
MCBodies == {b, t1, t2, t3}
MCServerBody == m :> b @@ m2 :> b
MCTaskBodies == {t1, t2, t3}
MCCarrying == b :> {f} @@ [t \in MCTaskBodies |-> {}]
MCMid == e :> m
MCOld == {m}
MCHomeId == inbox :> "INBOX" @@ archive :> "Archive" @@ cal :> "cal"
            @@ att :> "A/attachments" @@ attB :> "B/attachments"
MCIds == {"INBOX", "Archive", "Kept"}
MCAccounts == {"A", "B"}
MCHomeAccount == [c \in MCCollections |-> IF c = attB THEN "B" ELSE "A"]
MCAttachmentsId == "A" :> "A/attachments" @@ "B" :> "B/attachments"
MCInitColls == [c \in MCCollections |->
    IF c \in {inbox, archive, cal} THEN Coll(HomeId[c], "A", FALSE) ELSE NoColl]
MCInitSources == [c \in MCCollections |-> IF KindOf[c] = "mail" THEN {s1} ELSE {}]

(* A store of one calendar that two sources sync, started from too so that *)
(* conflicts come within the bound on writes: once each has listed the     *)
(* task and read it, and once the first pushed an edit of it and the       *)
(* second read another, which the item keeps as diverging.                 *)
CalendarOf(row) ==
    Recomputed(
       [items |-> [p \in Places |-> IF p = <<cal, e>> THEN row ELSE NoRow],
        refs |-> {}, count |-> [x \in Bodies |-> 0], stored |-> TaskBodies,
        colls |-> [c \in Collections |-> IF c = cal THEN Coll("cal", "A", FALSE) ELSE NoColl],
        queue |-> <<>>, sources |-> [c \in Collections |-> IF c = cal THEN Sources ELSE {}]])
AgreedOn(t) == Binding(Based(t, FALSE), t, NoClash)
SyncedTask(t) == Row(t, FALSE, [s \in Sources |-> AgreedOn(t)])
DivergedTask(was, pushed, read) ==
    [Row(pushed, FALSE, s1 :> AgreedOn(pushed) @@ s2 :> Binding(Based(read, FALSE), was, NoClash))
        EXCEPT !.clash = read]
MCInit ==
    \/ Init
    \/ /\ \E t, u, v \in TaskBodies :
             /\ Cardinality({t, u, v}) = 3
             /\ db \in {CalendarOf(SyncedTask(t)), CalendarOf(DivergedTask(t, u, v))}
       /\ flight = NoVerb
       /\ owed = {p \in Events : Owes(p, db.items[p])} /\ bare = {} /\ forgotten = {}
       /\ spent = [write |-> 0, care |-> 0, filing |-> MaxFiling]
(* The task's bodies differ in nothing else; only one key is left to keep  *)
(* a body under, so no choice tells them apart.                            *)
MCSymmetry == Permutations(MCTaskBodies)
MCSpec == MCInit /\ [][Next]_vars
=============================================================================
