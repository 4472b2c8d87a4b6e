--------------------------- MODULE MCRunLifecycle ---------------------------
(***************************************************************************)
(* TLC instances of RunLifecycle. The clients are interchangeable: no      *)
(* definition tells one from another.                                      *)
(***************************************************************************)
EXTENDS RunLifecycle, TLC

ClientSymmetry == Permutations(Clients)
=============================================================================
