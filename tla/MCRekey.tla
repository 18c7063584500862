------------------------------ MODULE MCRekey -------------------------------
(* Small instances of Rekey.tla: two copies of one identity.               *)
EXTENDS Rekey

MCKeys == {<<l, n>> : l \in Links, n \in 0..(2 * MaxHandle)}

(* No two copies ever share a revision. *)
MCRevisions == [n \in 1..MaxHandle |-> 10 * n]
=============================================================================
