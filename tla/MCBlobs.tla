------------------------------ MODULE MCBlobs ------------------------------
(* Small instances of Blobs.tla for TLC.                                   *)
EXTENDS Blobs, TLC

(* Bodies, handles and producers are each interchangeable. *)
ActorSymmetry ==
    Permutations(Bodies) \cup Permutations(Handles) \cup Permutations(Producers)
=============================================================================
