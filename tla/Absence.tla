------------------------------ MODULE Absence -------------------------------
(***************************************************************************)
(* The guard on absences a listing proves (PimdirParked, src/src/sync.rs), *)
(* shared by a round's last page and by a rekey: a listing that leaves     *)
(* most bound members unnamed, or names nothing at all, is read as         *)
(* truncated until the caller confirms it.                                 *)
(***************************************************************************)
EXTENDS Naturals

CONSTANT MassAbsence  \* MASS_ABSENCE: the bindings below which most is few

ASSUME MassAbsenceAssumption == MassAbsence \in Nat

(* Mutant: a listing naming no member is taken at its word.                *)
MutantGuard(absent, bound, named, accepted) ==
    bound >= MassAbsence /\ absent * 2 > bound /\ ~accepted

(* PimdirParked::guard.                                                    *)
Guard(absent, bound, named, accepted) ==
    /\ \/ bound >= MassAbsence /\ absent * 2 > bound
       \/ ~named /\ absent > 0
    /\ ~accepted
=============================================================================
