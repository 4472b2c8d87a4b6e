-------------------------- MODULE RunnerPod_proofs --------------------------
(***************************************************************************)
(* Proofs about RunnerPod, for any number of failed calls: a test runs on  *)
(* whole files, and the pod keeps the promise PodPromise states, which is  *)
(* the one RunLifecycle takes for granted. The invariant says which files  *)
(* are there at each step, that nothing is posted before the end, and that *)
(* only a test that has ended leaves a summary.                            *)
(***************************************************************************)
EXTENDS MCRunner, TLAPS

ConfigIsReady ==
  settings.config =>
    volume.config = IF settings.secrets THEN "resolved" ELSE "whole"

Fetched ==
  /\ step \notin {"pending", "download", "exited"} => volume.runner = "whole"
  /\ step = "resolve" /\ settings.config => volume.config = "whole"
  /\ step \in {"copy", "entrypoint"} \cup BeforeRun => ConfigIsReady

InTurn ==
  /\ step \notin {"wait", "exited"} \cup AfterRun => child.state = "none"
  /\ child.state # "exited" => child.summary = "none"
  /\ step \notin {"leaving", "exited"} => callback = {}

PodInv == PodTypeOK /\ Fetched /\ InTurn /\ TestRunsOnWholeFiles

-----------------------------------------------------------------------------
LEMMA PodInvInit == PodInit => PodInv
<1> SUFFICES ASSUME PodInit PROVE PodInv
  OBVIOUS
<1>1. volume \in Volume
  BY DEF PodInit, Volume, FileState
<1>2. PodTypeOK
  BY <1>1 DEF PodInit, PodTypeOK, Step, Summary
<1>3. Fetched /\ InTurn /\ TestRunsOnWholeFiles
  BY DEF PodInit, Fetched, InTurn, TestRunsOnWholeFiles, BeforeRun
<1>4. QED
  BY <1>2, <1>3 DEF PodInv

\* Only the init container and OpenLog write into the volume.
LEMMA FileWritten ==
  ASSUME PodInv, NEW f \in {"runner", "config", "wrapper", "entrypoint", "log"},
         NEW x \in FileState, volume' = [volume EXCEPT ![f] = x]
  PROVE  volume' \in Volume
BY DEF PodInv, PodTypeOK, Volume

LEMMA InitStepInv == ASSUME PodInv, InitStep PROVE PodInv'
<1> USE DEF PodInv, InitDoes, InitFails, initVars, objects, history, Mishap
<1>1. CASE DownloadRunner
  <2>1. volume' \in Volume
    BY <1>1, FileWritten DEF DownloadRunner, FileState
  <2>2. PodTypeOK'
    BY <1>1, <2>1 DEF DownloadRunner, PodTypeOK, Step, InitSteps
  <2>3. (Fetched /\ InTurn /\ TestRunsOnWholeFiles)'
    BY <1>1 DEF DownloadRunner, PodTypeOK, Volume, Fetched, InTurn,
         TestRunsOnWholeFiles, BeforeRun, AfterRun
  <2>4. QED BY <2>2, <2>3
<1>2. CASE DownloadConfig
  <2>1. volume' \in Volume
    BY <1>2, FileWritten DEF DownloadConfig, FileState
  <2>2. PodTypeOK'
    BY <1>2, <2>1 DEF DownloadConfig, PodTypeOK, Step, InitSteps
  <2>3. (Fetched /\ InTurn /\ TestRunsOnWholeFiles)'
    BY <1>2 DEF DownloadConfig, PodTypeOK, Volume, Fetched, InTurn,
         TestRunsOnWholeFiles, BeforeRun, AfterRun
  <2>4. QED BY <2>2, <2>3
<1>3. CASE ResolveSecrets
  <2>1. volume.config \in FileState
    BY DEF PodTypeOK, Volume
  <2>2. volume' \in Volume
    BY <1>3, <2>1, FileWritten DEF ResolveSecrets, FileState
  <2>3. PodTypeOK'
    BY <1>3, <2>2 DEF ResolveSecrets, PodTypeOK, Step, InitSteps
  <2>4. (Fetched /\ InTurn /\ TestRunsOnWholeFiles)'
    BY <1>3 DEF ResolveSecrets, PodTypeOK, Volume, Fetched, InTurn, ConfigIsReady,
         TestRunsOnWholeFiles, BeforeRun, AfterRun
  <2>5. QED BY <2>3, <2>4
<1>4. CASE CopyWrapper \/ CopyEntrypoint
  <2>1. volume' \in Volume
    BY <1>4, FileWritten DEF CopyWrapper, CopyEntrypoint, FileState
  <2>2. step' \in Step /\ exit' \in {0, 1} /\ mishaps' \in Nat /\ killed' \in BOOLEAN
    BY <1>4 DEF CopyWrapper, CopyEntrypoint, PodTypeOK, Step, InitSteps, BeforeRun
  <2>3. PodTypeOK'
    BY <1>4, <2>1, <2>2 DEF CopyWrapper, CopyEntrypoint, PodTypeOK
  <2>4. (Fetched /\ InTurn /\ TestRunsOnWholeFiles)'
    BY <1>4 DEF CopyWrapper, CopyEntrypoint, PodTypeOK, Volume, Fetched, InTurn,
         ConfigIsReady, TestRunsOnWholeFiles, BeforeRun, AfterRun
  <2>5. QED BY <2>3, <2>4
<1>5. QED
  BY <1>1, <1>2, <1>3, <1>4 DEF InitStep

LEMMA WrapperStepInv == ASSUME PodInv, WrapperStep PROVE PodInv'
<1> USE DEF PodInv, Goto, GiveUp, objects, history, Mishap
<1>1. settings.callback \in BOOLEAN
  BY DEF PodTypeOK, Settings, Validate, Options
<1>2. CASE OpenLog
  <2>1. volume' \in Volume
    BY <1>2, FileWritten DEF OpenLog, InitDoes, InitFails, FileState
  <2>2. PodTypeOK'
    BY <1>2, <2>1 DEF OpenLog, InitDoes, InitFails, PodTypeOK, Step, BeforeRun
  <2>3. (Fetched /\ InTurn /\ TestRunsOnWholeFiles)'
    BY <1>2 DEF OpenLog, InitDoes, InitFails, PodTypeOK, Volume, Fetched, InTurn,
         ConfigIsReady, TestRunsOnWholeFiles, BeforeRun, AfterRun
  <2>4. QED BY <2>2, <2>3
<1>3. CASE Rendezvous \/ LoadSecrets \/ Notify \/ StartChild \/ Wait
  <2>1. step' \in Step /\ mishaps' \in Nat
    BY <1>3 DEF Rendezvous, LoadSecrets, Notify, StartChild, Wait, PodTypeOK,
         Step, BeforeRun, AfterRun
  <2>2. exit' \in {0, 1} /\ posts' \in BOOLEAN
    BY <1>1, <1>3 DEF Rendezvous, LoadSecrets, Notify, StartChild, Wait, PodTypeOK
  <2>3. child' \in [state: {"none", "running", "exited"}, code: {0, 1}, summary: Summary]
    BY <1>3 DEF Rendezvous, LoadSecrets, Notify, StartChild, Wait, PodTypeOK
  <2>4. PodTypeOK'
    BY <1>3, <2>1, <2>2, <2>3 DEF Rendezvous, LoadSecrets, Notify, StartChild, Wait,
         PodTypeOK
  <2>5. (Fetched /\ InTurn /\ TestRunsOnWholeFiles)'
    BY <1>3 DEF Rendezvous, LoadSecrets, Notify, StartChild, Wait, PodTypeOK, Fetched,
         InTurn, ConfigIsReady, TestRunsOnWholeFiles, BeforeRun, AfterRun
  <2>6. QED BY <2>4, <2>5
<1>4. CASE UploadReport \/ UploadLogs \/ SendCallback \/ Exits
  <2>1. step' \in Step /\ mishaps' \in Nat
    BY <1>4 DEF UploadReport, UploadLogs, SendCallback, Exits, PodTypeOK, Step, AfterRun
  <2>2. report' \in Summary \cup {"standin"} /\ logs' \in {"none", "run", "error"}
    BY <1>4 DEF UploadReport, UploadLogs, SendCallback, Exits, ReportData, PodTypeOK
  <2>3. PodTypeOK'
    BY <1>4, <2>1, <2>2 DEF UploadReport, UploadLogs, SendCallback, Exits, PodTypeOK
  <2>4. (Fetched /\ InTurn /\ TestRunsOnWholeFiles)'
    BY <1>4 DEF UploadReport, UploadLogs, SendCallback, Exits, Fetched, InTurn,
         ConfigIsReady, TestRunsOnWholeFiles, BeforeRun, AfterRun
  <2>5. QED BY <2>3, <2>4
<1>5. QED
  BY <1>2, <1>3, <1>4 DEF WrapperStep

LEMMA PodNextInv == PodInv /\ [PodNext]_podVars => PodInv'
<1> SUFFICES ASSUME PodInv, [PodNext]_podVars PROVE PodInv'
  OBVIOUS
<1>1. CASE PodStarts
  BY <1>1 DEF PodStarts, initVars, objects, history, PodInv, PodTypeOK, Fetched, InTurn,
       ConfigIsReady, TestRunsOnWholeFiles, Step, InitSteps, BeforeRun, AfterRun
<1>2. CASE ForwardSignal
  BY <1>2 DEF ForwardSignal, objects, history, PodInv, PodTypeOK, Fetched, InTurn,
       ConfigIsReady, TestRunsOnWholeFiles
<1>3. CASE ChildEnds \/ ChildStops
  BY <1>3 DEF ChildEnds, ChildStops, objects, history, PodInv, PodTypeOK, Fetched,
       InTurn, ConfigIsReady, TestRunsOnWholeFiles
<1>4. CASE Terminate \/ Kill
  BY <1>4 DEF Terminate, Kill, objects, history, PodInv, PodTypeOK, Fetched, InTurn,
       ConfigIsReady, TestRunsOnWholeFiles, Step, BeforeRun, AfterRun
<1>5. CASE UNCHANGED podVars
  BY <1>5 DEF podVars, objects, history, PodInv, PodTypeOK, Fetched, InTurn,
       ConfigIsReady, TestRunsOnWholeFiles
<1>6. QED
  BY <1>1, <1>2, <1>3, <1>4, <1>5, InitStepInv, WrapperStepInv DEF PodNext

LEMMA PodInductive == PodSpec => []PodInv
BY PodInvInit, PodNextInv, PTL DEF PodSpec

\* A test runs on the whole binary and the whole configuration, resolved where
\* there are secrets, whatever the init container and the disk did
\* (RunnerInitializer.Init, RunnerWrapper.Run).
THEOREM TestsRunOnWholeFiles == PodSpec => []TestRunsOnWholeFiles
<1>1. PodInv => TestRunsOnWholeFiles
  BY DEF PodInv
<1>2. QED
  BY <1>1, PodInductive, PTL

-----------------------------------------------------------------------------
(* The pod keeps its promise: each step maps to a step of PodPromise       *)

LEMMA PromisedInit == PodInit => Contract!PromiseInit
BY DEF PodInit, Contract!PromiseInit, Phase, AfterRun

\* Before the uploads the pod's phase is "running": its steps are invisible.
LEMMA FetchingIsSilent ==
  ASSUME PodInv, PodStarts \/ InitStep \/ Rendezvous \/ OpenLog \/ LoadSecrets
                 \/ Notify \/ StartChild \/ ForwardSignal \/ Wait
  PROVE  [Contract!PromiseNext]_Contract!promiseVars
<1> USE DEF Phase, AfterRun, objects, history, Contract!promiseVars
<1>1. CASE PodStarts
  BY <1>1 DEF PodStarts, initVars
<1>2. CASE InitStep
  <2>1. step \in InitSteps /\ UNCHANGED <<child, objects>>
    BY <1>2 DEF InitStep, DownloadRunner, DownloadConfig, ResolveSecrets, CopyWrapper,
         CopyEntrypoint, InitSteps, initVars
  <2>2. \/ step' \in InitSteps \cup {"rendezvous"}
        \/ step' = "exited" /\ exit' = 1
    BY <1>2 DEF InitStep, DownloadRunner, DownloadConfig, ResolveSecrets, CopyWrapper,
         CopyEntrypoint, InitSteps, InitDoes, InitFails
  <2>3. QED
    BY <2>1, <2>2 DEF InitSteps, Contract!PromiseNext, Contract!Dies
<1>3. CASE OpenLog
  BY <1>3 DEF OpenLog, InitDoes, InitFails, Contract!PromiseNext, Contract!Dies
<1>4. CASE Rendezvous \/ LoadSecrets \/ Notify \/ Wait
  BY <1>4 DEF Rendezvous, LoadSecrets, Notify, Wait, Goto, GiveUp
<1>5. CASE StartChild
  BY <1>5 DEF StartChild, Goto, GiveUp, PodInv, PodTypeOK
<1>6. CASE ForwardSignal
  BY <1>6 DEF ForwardSignal
<1>7. QED
  BY <1>1, <1>2, <1>3, <1>4, <1>5, <1>6

LEMMA EndingIsPromised ==
  ASSUME PodInv, UploadReport \/ UploadLogs \/ SendCallback \/ Exits
                 \/ ChildEnds \/ ChildStops \/ Terminate \/ Kill
  PROVE  [Contract!PromiseNext]_Contract!promiseVars
<1> USE DEF Phase, AfterRun, objects, history, Contract!promiseVars, Contract!PromiseNext
<1>1. CASE UploadReport
  <2>1. exit \in {0, 1}
    BY DEF PodInv, PodTypeOK
  <2>2. Contract!Uploads
    BY <1>1, <2>1 DEF UploadReport, ReportData, Contract!Uploads
  <2>3. QED BY <2>2
<1>2. CASE UploadLogs
  BY <1>2 DEF UploadLogs
<1>3. CASE SendCallback
  <2>1. callback = {}
    BY <1>3 DEF SendCallback, PodInv, InTurn
  <2>2. QED
    BY <1>3, <2>1 DEF SendCallback, Contract!Posts
<1>4. CASE Exits
  BY <1>4 DEF Exits, Goto, Contract!Ends
<1>5. CASE ChildEnds \/ ChildStops
  <2>1. child.summary = "none" /\ child'.summary \in {"none", "torn", "own"}
    BY <1>5 DEF ChildEnds, ChildStops, PodInv, InTurn, Summary
  <2>2. Contract!TestEnds
    BY <1>5, <2>1 DEF ChildEnds, ChildStops, Contract!TestEnds
  <2>3. QED BY <2>2
<1>6. CASE Terminate \/ Kill
  BY <1>6 DEF Terminate, Kill, Contract!Dies
<1>7. QED
  BY <1>1, <1>2, <1>3, <1>4, <1>5, <1>6

\* The report is what the test left and precedes the callback, which tells the
\* pod's own exit code (guaranteeReportAndLogsUpload, sendCallback): what
\* RunLifecycle assumes of a pod is what runner-init and runner-wrapper do.
THEOREM PodsKeepTheirPromise == PodSpec => PodKeepsPromise
<1>1. ASSUME PodInv, [PodNext]_podVars
      PROVE  [Contract!PromiseNext]_Contract!promiseVars
  <2>1. CASE UNCHANGED podVars
    BY <2>1 DEF podVars, objects, history, Contract!promiseVars, Phase
  <2>2. CASE PodNext
    BY <1>1, <2>2, FetchingIsSilent, EndingIsPromised DEF PodNext, WrapperStep
  <2>3. QED
    BY <1>1, <2>1, <2>2
<1>2. QED
  BY <1>1, PromisedInit, PodInductive, PTL DEF PodSpec, PodKeepsPromise, Contract!PromiseSpec

-----------------------------------------------------------------------------
(* The barrier and a pod                                                   *)

\* Beside each other the barrier and a pod are what they are alone: what is
\* proved of either holds of the runner's side.
THEOREM RunnerComposes == RunnerSpec => FairSpec /\ PodSpec
<1>1. RunnerInit => Init /\ PodInit
  BY DEF RunnerInit
<1>2. [RunnerNext]_<<vars, podVars, focus>> => [Next]_vars /\ [PodNext]_podVars
  BY DEF RunnerNext
<1> QED BY <1>1, <1>2, PTL DEF RunnerSpec, FairSpec, Spec, PodSpec

\* On the runner's side as a whole a test runs on whole files, and the pod keeps
\* its promise to the control plane, whatever the barrier does meanwhile.
THEOREM RunnerKeepsPromises ==
  RunnerSpec => []TestRunsOnWholeFiles /\ PodKeepsPromise
BY RunnerComposes, TestsRunOnWholeFiles, PodsKeepTheirPromise
=============================================================================
