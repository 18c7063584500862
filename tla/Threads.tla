------------------------------ MODULE Threads ------------------------------
(***************************************************************************)
(* The mail threads the search index derives (src/search/thread.rs and the *)
(* statements it is written through).  A message row stands for a message  *)
(* id a held message bears or names as its parent; a thread is a connected *)
(* set of rows, named after its present member of lowest (sort key, id).   *)
(* A refresh relinks the ids its batch touched, never the whole table.     *)
(*                                                                         *)
(* Message ids are naturals, in the order their texts sort in.  The reads  *)
(* the relink asks for one round at a time all see one transaction, so     *)
(* they are taken at once.                                                 *)
(***************************************************************************)
EXTENDS Integers, FiniteSets, Sequences, TLC, FiniteSetsExt, SequencesExt

CONSTANTS
  Links,      \* the message ids, naturals
  SortOf      \* the sort key of each message: its date

ASSUME LinksAssumption == Links \subseteq Nat /\ SortOf \in [Links -> Nat]

NoLink == 0 - 1                       \* no parent

(* The rows joined to a row: its parent and those naming it.               *)
Neighbours(msgs, S) ==
  {l \in DOMAIN msgs : \E m \in S : m \in DOMAIN msgs
                         /\ (msgs[m].parent = l \/ msgs[l].parent = m)}

(* Graph::rethread's walk: the rows connected to a seed.                   *)
Connected(msgs, l) ==
  LET walk[n \in 0 .. Cardinality(DOMAIN msgs)] ==
        IF n = 0 THEN {l} \cap DOMAIN msgs
                 ELSE walk[n - 1] \cup Neighbours(msgs, walk[n - 1])
  IN  walk[Cardinality(DOMAIN msgs)]

(* Graph::reaches: whether following parents up from p meets l.            *)
Reaches(msgs, p, l) ==
  LET up[n \in 0 .. Cardinality(DOMAIN msgs)] ==
        IF n = 0 THEN {p}
                 ELSE up[n - 1] \cup {msgs[m].parent : m \in up[n - 1] \cap DOMAIN msgs}
  IN  l \in up[Cardinality(DOMAIN msgs)]

(* unparent_messages then prune_messages, on the threads Ts: a row no mail *)
(* placement holds names no parent, then goes unless a row names it.       *)
Prune(msgs, Ts, held) ==
  LET loose(l) == msgs[l].thread \in Ts /\ l \notin held
      cut == [l \in DOMAIN msgs |->
                IF loose(l) THEN [msgs[l] EXCEPT !.parent = NoLink] ELSE msgs[l]]
      kept == {l \in DOMAIN msgs :
                 loose(l) => \E r \in DOMAIN msgs : cut[r].parent = l}
  IN  [l \in kept |-> cut[l]]

(* One touched message of relink: its parent read again, the edge closing  *)
(* a cycle ignored, a row given to a parent that has none.  The message    *)
(* and the parent it left are the seeds of what is recomputed.             *)
Parent(named, msgs, l) ==
  IF named[l] # NoLink /\ Reaches(msgs, named[l], l) THEN NoLink ELSE named[l]

ReparentRows(named, msgs, l) ==
  LET p    == Parent(named, msgs, l)
      row  == IF l \in DOMAIN msgs THEN [msgs[l] EXCEPT !.parent = p]
                                   ELSE [thread |-> l, parent |-> p]
      rows == (l :> row) @@ msgs
  IN  IF p = NoLink \/ p \in DOMAIN rows
        THEN rows ELSE (p :> [thread |-> p, parent |-> NoLink]) @@ rows

LeftParent(named, msgs, l) ==
  IF l \in DOMAIN msgs THEN {msgs[l].parent} \ {NoLink, Parent(named, msgs, l)} ELSE {}

(* The parent a message left is not recomputed.                            *)
MutantReparent(named, st, l) ==
  [msgs |-> ReparentRows(named, st.msgs, l), seeds |-> st.seeds \cup {l}]

Reparent(named, st, l) ==
  [msgs  |-> ReparentRows(named, st.msgs, l),
   seeds |-> st.seeds \cup {l} \cup LeftParent(named, st.msgs, l)]

(* The member a thread is named after.                                     *)
Eldest(S) ==
  CHOOSE l \in S : \A m \in S : \/ SortOf[l] < SortOf[m]
                                \/ SortOf[l] = SortOf[m] /\ l <= m

(* Graph::rethread: every connected set a seed is in gets one thread row,  *)
(* one no placement holds a member of is pruned.                           *)
Rethread(msgs, threads, seeds, present, held) ==
  LET sets  == {Connected(msgs, s) : s \in seeds \cap DOMAIN msgs}
      live  == {C \in sets : C \cap present # {}}
      setOf(l) == CHOOSE C \in live : l \in C
      named == UNION live
      rows  == [l \in DOMAIN msgs |->
                  IF l \in named
                    THEN [msgs[l] EXCEPT !.thread = Eldest(setOf(l) \cap present)]
                    ELSE msgs[l]]
      put   == {Eldest(C \cap present) : C \in live}
      of(t) == CHOOSE C \in live : Eldest(C \cap present) = t
      thr   == [t \in put |->
                  LET S == of(t) \cap present
                  IN  [first |-> Min({SortOf[l] : l \in S}),
                       last  |-> Max({SortOf[l] : l \in S}),
                       count |-> Cardinality(S)]] @@ threads
      dead  == {msgs[l].thread : l \in UNION (sets \ live)}
  IN  [msgs |-> Prune(rows, dead, held), threads |-> thr,
       stale |-> {msgs[l].thread : l \in UNION sets}]

(* delete_thread: the threads of Ts no row points to any more.             *)
DropThreads(msgs, threads, Ts) ==
  [t \in {u \in DOMAIN threads :
            u \in Ts => \E l \in DOMAIN msgs : msgs[l].thread = u} |-> threads[t]]

(* PimdirIndexRefresh::relink with thread::relink: the threads of the      *)
(* touched messages nothing holds are pruned, then the others reparented   *)
(* in the order of their ids and every thread reached recomputed.          *)
Relink(msgs, threads, touched, present, held, named) ==
  LET gone == {msgs[l].thread : l \in (touched \cap DOMAIN msgs) \ present}
      cut  == Prune(msgs, gone, held)
      left == {l \in DOMAIN cut : cut[l].thread \in gone}
      todo == SetToSortSeq(touched \cap present, LAMBDA a, b : a < b)
      st   == FoldLeft(LAMBDA s, l : Reparent(named, s, l),
                       [msgs |-> cut, seeds |-> left], todo)
      re   == Rethread(st.msgs, threads, st.seeds, present, held)
  IN  [msgs    |-> re.msgs,
       threads |-> DropThreads(re.msgs, re.threads, re.stale \cup gone)]

-----------------------------------------------------------------------------
(* The reference: the rows and threads a set of present messages, each     *)
(* naming a parent, gives when no cycle has to be broken but a message     *)
(* naming itself.                                                          *)
RowsOf(present, named) ==
  LET parent(l) == IF l \in present /\ named[l] # l THEN named[l] ELSE NoLink
  IN  [l \in present \cup ({parent(m) : m \in present} \ {NoLink}) |-> parent(l)]

Joined(par, l) ==
  LET join[n \in 0 .. Cardinality(DOMAIN par)] ==
        IF n = 0 THEN {l}
          ELSE join[n - 1] \cup {m \in DOMAIN par : \E k \in join[n - 1] :
                                   par[m] = k \/ par[k] = m}
  IN  join[Cardinality(DOMAIN par)]

AsDerived(msgs, threads, present, named) ==
  LET par == RowsOf(present, named)
      set(l) == Joined(par, l) \cap present
  IN  /\ DOMAIN msgs = DOMAIN par
      /\ \A l \in DOMAIN msgs : /\ msgs[l].parent = par[l]
                                /\ msgs[l].thread = Eldest(set(l))
      /\ DOMAIN threads = {Eldest(set(l)) : l \in present}
      /\ \A t \in DOMAIN threads :
           /\ threads[t].count = Cardinality(set(t))
           /\ threads[t].first = Min({SortOf[l] : l \in set(t)})
           /\ threads[t].last  = Max({SortOf[l] : l \in set(t)})
=============================================================================
