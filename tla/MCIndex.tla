------------------------------ MODULE MCIndex ------------------------------
(* Two worlds.  Mail: a reply listed before the message it answers, that   *)
(* message with a copy of it in another mailbox, and an answer to the      *)
(* reply; the message may be edited to answer itself, or one never held.   *)
(* Calendar: an event that is a floating series, a single one, in UTC or   *)
(* floating, that enters the horizon on the second day and leaves it on    *)
(* the fourth, or a series with a last day that does, over two zones.      *)
EXTENDS Index
MCLinks == 1 .. 4
MCSort  == [l \in MCLinks |-> 4 - l]
MCItem(c, l, bs) == [coll |-> c, link |-> l, bodies |-> bs]
MCWorlds ==
  {[items |-> <<MCItem(1, 2, {"none", "b2"}), MCItem(1, 1, {"b1", "b1x"}),
                MCItem(1, 3, {"b3"})>>,
    zones |-> {0}, days |-> 0, stamps |-> 4],
   [items |-> <<MCItem(1, 1, {"b1"}), MCItem(2, 1, {"b1", "b1x"})>>,
    zones |-> {0}, days |-> 0, stamps |-> 4],
   [items |-> <<MCItem(9, 4, {"ev", "ev2", "ev3", "ev4"})>>,
    zones |-> {0, 1}, days |-> 3, stamps |-> 3]}
MCColls == {1, 2, 9}
MCRenames == {<<1, 3>>}
MCMails == {1, 2, 3}
MCBodies == {"b1", "b1x", "b2", "b3", "ev", "ev2", "ev3", "ev4"}
MCNamedBy == [b \in MCBodies |-> CASE b = "b1" -> 1 [] b = "b1x" -> 4 [] b = "b2" -> 1
                                   [] b = "b3" -> 2 [] OTHER -> NoLink]
MCReplyOf == [MCNamedBy EXCEPT !["b3"] = NoLink]
MCListed == [l \in MCLinks |-> IF l = 2 THEN 1 ELSE NoLink]
MCStart == [b \in MCBodies |-> IF b = "ev3" THEN 0 ELSE 1]
MCRecurring == [b \in MCBodies |-> b \in {"ev", "ev3"}]
MCUntil == [b \in MCBodies |-> IF b = "ev3" THEN 1 ELSE Forever]
MCFloating == [b \in MCBodies |-> b \in {"ev", "ev4"}]
MCLosable == {"b1", "b2"}
MCLosableEvents == {"ev"}
=============================================================================
