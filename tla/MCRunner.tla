------------------------------ MODULE MCRunner ------------------------------
(***************************************************************************)
(* The runner side on a small instance: pods that meet at the barrier, and *)
(* one pod from its init container to its exit code. A pod leaves the      *)
(* barrier with or without an error, both of which RunnerPod allows it at  *)
(* any time, so that each is explored by itself, "focus" telling which.    *)
(* Nothing the other one owes is enabled: it has not been scheduled.       *)
(***************************************************************************)
EXTENDS StartBarrier, RunnerPod

VARIABLE focus

RunnerInit ==
  /\ focus \in {"barrier", "pod"}
  /\ Init /\ PodInit
  /\ focus = "barrier" => settings = [config |-> FALSE, secrets |-> FALSE,
                                      callback |-> TRUE, barrier |-> TRUE]

RunnerNext ==
  /\ UNCHANGED focus
  /\ \/ focus = "barrier" /\ Next /\ UNCHANGED podVars
     \/ focus = "pod" /\ PodNext /\ UNCHANGED vars

RunnerSpec == /\ RunnerInit /\ [][RunnerNext]_<<vars, podVars, focus>>
              /\ Fairness /\ PodFairness
=============================================================================
