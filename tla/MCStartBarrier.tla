--------------------------- MODULE MCStartBarrier ---------------------------
(***************************************************************************)
(* StartBarrier for TLC: pods that call the barrier are interchangeable,   *)
(* and so are the replicas that may answer them.                           *)
(***************************************************************************)
EXTENDS StartBarrier, TLC

PodSymmetry == Permutations(Workers) \cup Permutations(Replicas)

=============================================================================
