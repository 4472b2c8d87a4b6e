----------------------------- MODULE PodPromise -----------------------------
(***************************************************************************)
(* What a runner pod promises the control plane: it runs, uploads one      *)
(* report, posts at most one callback and ends, and it may die at any      *)
(* moment. RunLifecycle takes its pods to be such: it joins the post and   *)
(* the end, and lets a pod that posted still end badly.                    *)
(***************************************************************************)
EXTENDS Naturals

VARIABLES
  phase,      \* "running", "reported" or "exited"
  code,       \* the pod's exit code: 0, or 1 for every other
  left,       \* the summary the test left: "none", "torn" or "own"
  report,     \* the report object: "none", "standin", "torn" or "own"
  callback    \* exit codes posted to the control plane

promiseVars == <<phase, code, left, report, callback>>

PromiseInit ==
  /\ phase = "running" /\ code = 0
  /\ left = "none" /\ report = "none" /\ callback = {}

TestEnds ==
  /\ phase = "running" /\ left = "none"
  /\ left' \in {"none", "torn", "own"}
  /\ UNCHANGED <<phase, code, report, callback>>

\* What the test left, or a stand-in when it left nothing.
Uploads ==
  /\ phase = "running" /\ phase' = "reported"
  /\ code' \in {0, 1}
  /\ report' \in {report, IF left = "none" THEN "standin" ELSE left}
  /\ UNCHANGED <<left, callback>>

Posts ==
  /\ phase = "reported" /\ callback = {}
  /\ callback' = {code}
  /\ UNCHANGED <<phase, code, left, report>>

Ends ==
  /\ phase = "reported" /\ phase' = "exited"
  /\ UNCHANGED <<code, left, report, callback>>

Dies ==
  /\ phase # "exited" /\ phase' = "exited"
  /\ code' = 1
  /\ UNCHANGED <<left, report, callback>>

PromiseNext == TestEnds \/ Uploads \/ Posts \/ Ends \/ Dies

PromiseSpec == PromiseInit /\ [][PromiseNext]_promiseVars
=============================================================================
