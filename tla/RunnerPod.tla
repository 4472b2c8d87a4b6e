------------------------------ MODULE RunnerPod ------------------------------
(***************************************************************************)
(* One runner pod from its init container to its exit code: runner-init    *)
(* fetches the binary and the configuration into the shared volume,        *)
(* runner-wrapper meets its peers, runs the test as a child process and    *)
(* uploads what it left, while the kubelet may end the pod at any time.    *)
(* The Job runs one pod only: RestartPolicy Never, backoffLimit 0.         *)
(***************************************************************************)
EXTENDS Naturals

CONSTANT MaxMishaps     \* bound: failed calls of the pod (S3, disk, network)

ASSUME MishapAssumption == MaxMishaps \in Nat

VARIABLES
  settings,   \* Settings: the environment the Job gives the containers
  volume,     \* the files of /shared
  step,       \* where the pod's own process is
  term,       \* the SIGTERM of the kubelet: "none" and its default action, or
              \* "trapped", until it comes and is "queued", "forwarded", "fatal"
  child,      \* the test, a child process of the wrapper
  exit,       \* the code the wrapper will exit with: 0, or 1 for every other
  posts,      \* the wrapper will post its callback
  report,     \* the object under S3_REPORT_KEY
  logs,       \* the object under S3_LOGS_KEY
  callback,   \* exit codes posted to the control plane
  killed,     \* history: SIGKILL ended the pod
  mishaps     \* failed calls so far

objects == <<report, logs, callback>>
history == <<killed, mishaps>>
podVars == <<settings, volume, step, term, child, exit, posts, objects, history>>

-----------------------------------------------------------------------------
(* Settings: GenerateJob, the flags and variables main reads, Validate     *)

\* What RunnerJobOptions and the server's configuration ask for.
Options == [workers: 1 .. 2, barrier: BOOLEAN, config: BOOLEAN,
            secrets: BOOLEAN, callback: BOOLEAN]

\* More than one worker forces the barrier; its coordinator's address is cut
\* from the callback's, so that without a callback nobody waits for peers.
Validate(o) ==
  [config   |-> o.config,
   secrets  |-> o.secrets,
   callback |-> o.callback,
   barrier  |-> (o.barrier \/ o.workers > 1) /\ o.callback]
Settings == {Validate(o) : o \in Options}

FileState == {"none", "torn", "whole", "resolved"}
Volume == [runner: FileState, config: FileState, wrapper: FileState,
           entrypoint: FileState, log: FileState]
Summary == {"none", "torn", "own"}     \* none: no summary.json, or an empty one

InitSteps == {"download", "configure", "resolve", "copy", "entrypoint"}
BeforeRun == {"rendezvous", "open", "mask", "trap", "exec"}
AfterRun  == {"reporting", "logging", "posting", "leaving"}
Step == {"pending"} \cup InitSteps \cup BeforeRun \cup {"wait"} \cup AfterRun \cup {"exited"}

PodInit ==
  /\ settings \in Settings /\ step = "pending"
  /\ volume = [f \in {"runner", "config", "wrapper", "entrypoint", "log"} |-> "none"]
  /\ term = "none" /\ child = [state |-> "none", code |-> 0, summary |-> "none"]
  /\ exit = 0 /\ posts = FALSE
  /\ report = "none" /\ logs = "none" /\ callback = {}
  /\ killed = FALSE /\ mishaps = 0

Mishap == /\ mishaps < MaxMishaps /\ mishaps' = mishaps + 1
          /\ UNCHANGED killed

-----------------------------------------------------------------------------
(* runner-init: RunnerInitializer.Init                                     *)

initVars == <<settings, term, child, posts, objects>>

\* A step that fails ends the init container with an error, and the pod.
InitFails(f, state) ==
  /\ Mishap
  /\ step' = "exited" /\ exit' = 1
  /\ volume' = [volume EXCEPT ![f] = state]

InitDoes(f, state, next) ==
  /\ step' = next
  /\ volume' = [volume EXCEPT ![f] = state]
  /\ UNCHANGED <<exit, history>>

\* The pod is scheduled and its init container starts.
PodStarts ==
  /\ step = "pending" /\ step' = "download"
  /\ UNCHANGED <<initVars, volume, exit, history>>

\* downloadToFile writes a temporary file and renames it: all or nothing.
DownloadRunner ==
  /\ step = "download" /\ UNCHANGED initVars
  /\ InitDoes("runner", "whole", "configure") \/ InitFails("runner", "none")

\* Mutant: a configuration that cannot be downloaded is logged and left out.
DownloadConfigOrSkip ==
  /\ step = "configure" /\ UNCHANGED initVars
  /\ \/ settings.config /\ InitDoes("config", "whole", "resolve")
     \/ ~settings.config /\ InitDoes("config", "none", "resolve")
     \/ InitDoes("config", "none", "resolve")

DownloadConfig ==
  /\ step = "configure" /\ UNCHANGED initVars
  /\ \/ settings.config /\ InitDoes("config", "whole", "resolve")
     \/ ~settings.config /\ InitDoes("config", "none", "resolve")
     \/ settings.config /\ InitFails("config", "none")

\* resolveSecrets rewrites the file in place; without secrets or without a
\* configuration there is nothing to resolve.
ResolveSecrets ==
  /\ step = "resolve" /\ UNCHANGED initVars
  /\ IF settings.secrets /\ settings.config
     THEN InitDoes("config", "resolved", "copy") \/ InitFails("config", "torn")
     ELSE \/ InitDoes("config", volume.config, "copy")
          \/ settings.secrets /\ InitFails("config", volume.config)

\* copyFile truncates and writes.
CopyWrapper ==
  /\ step = "copy" /\ UNCHANGED initVars
  /\ InitDoes("wrapper", "whole", "entrypoint") \/ InitFails("wrapper", "torn")

CopyEntrypoint ==
  /\ step = "entrypoint" /\ UNCHANGED initVars
  /\ InitDoes("entrypoint", "whole", "rendezvous") \/ InitFails("entrypoint", "torn")

-----------------------------------------------------------------------------
(* runner-wrapper: RunnerWrapper.Run                                       *)

Goto(p) == step' = p /\ UNCHANGED <<settings, volume, term, child, objects>>

\* The test will not run: upload a stand-in, then post unless told not to.
GiveUp(post) ==
  /\ Goto("reporting")
  /\ exit' = 1 /\ posts' = post

\* The peers meet, or one aborts, a timer fires or the request fails.
Rendezvous ==
  /\ step = "rendezvous"
  /\ \/ Goto("open") /\ UNCHANGED <<exit, posts>>
     \/ settings.barrier /\ GiveUp(settings.callback)
  /\ UNCHANGED history

\* Without a log file the wrapper exits and uploads nothing.
OpenLog ==
  /\ step = "open"
  /\ UNCHANGED <<settings, term, child, posts, objects>>
  /\ InitDoes("log", "whole", "mask") \/ InitFails("log", "none")

LoadSecrets ==
  /\ step = "mask"
  /\ \/ Goto("trap") /\ UNCHANGED <<exit, posts, history>>
     \/ Mishap /\ GiveUp(settings.callback)

\* signal.Notify: from here on a SIGTERM waits in the channel.
Notify ==
  /\ step = "trap" /\ step' = "exec"
  /\ term' = "trapped"
  /\ UNCHANGED <<settings, volume, child, exit, posts, objects, history>>

\* A test that cannot be started is reported and posts no callback.
StartChild ==
  /\ step = "exec"
  /\ \/ /\ child' = [child EXCEPT !.state = "running"]
        /\ step' = "wait"
        /\ UNCHANGED <<settings, volume, term, exit, posts, objects, history>>
     \/ Mishap /\ GiveUp(FALSE)

\* The goroutine forwards the signal that is in the channel.
ForwardSignal ==
  /\ step = "wait" /\ term = "queued"
  /\ term' = "forwarded"
  /\ UNCHANGED <<settings, volume, step, child, exit, posts, objects, history>>

\* Mutant: the handlers are taken away as soon as the test has ended.
WaitAndStop ==
  /\ step = "wait" /\ child.state = "exited"
  /\ step' = "reporting" /\ term' = "none"
  /\ exit' = child.code /\ posts' = settings.callback
  /\ UNCHANGED <<settings, volume, child, objects, history>>

\* The exit code of the child is the wrapper's.
Wait ==
  /\ step = "wait" /\ child.state = "exited"
  /\ Goto("reporting")
  /\ exit' = child.code /\ posts' = settings.callback
  /\ UNCHANGED history

\* Mutant: a test that ended badly is reported by the stand-in.
ReportDataByCode ==
  IF child.summary = "none" \/ exit # 0 THEN "standin" ELSE child.summary
ReportData == IF child.summary = "none" THEN "standin" ELSE child.summary

\* Errors of the uploads are logged and ignored.
UploadReport ==
  /\ step = "reporting" /\ step' = "logging"
  /\ \/ report' = ReportData /\ UNCHANGED history
     \/ Mishap /\ UNCHANGED report
  /\ UNCHANGED <<settings, volume, term, child, exit, posts, logs, callback>>

UploadLogs ==
  /\ step = "logging" /\ step' = "posting"
  /\ \/ /\ logs' = IF volume.log = "whole" THEN "run" ELSE "error"
        /\ UNCHANGED history
     \/ Mishap /\ UNCHANGED logs
  /\ UNCHANGED <<settings, volume, term, child, exit, posts, report, callback>>

\* One post; it may be refused or lost. With the return of Run goes the trap,
\* the one a run that failed earlier never set.
SendCallback ==
  /\ step = "posting" /\ step' = "leaving"
  /\ \/ posts /\ callback' = {exit} /\ UNCHANGED history
     \/ ~posts /\ UNCHANGED <<callback, history>>
     \/ posts /\ Mishap /\ UNCHANGED callback
  /\ term' = IF term = "trapped" THEN "none" ELSE term
  /\ UNCHANGED <<settings, volume, child, exit, posts, report, logs>>

Exits ==
  /\ step = "leaving" /\ Goto("exited")
  /\ UNCHANGED <<exit, posts, history>>

-----------------------------------------------------------------------------
(* The test and the kubelet                                                *)

\* The test ends by itself, or is killed alone; the summary is the last file
\* it writes.
ChildEnds ==
  /\ step = "wait" /\ child.state = "running"
  /\ child' \in [state: {"exited"}, code: {0, 1}, summary: Summary]
  /\ UNCHANGED <<settings, volume, step, term, exit, posts, objects, history>>

\* The injected driver exits with 1 when it is told to stop.
ChildStops ==
  /\ step = "wait" /\ child.state = "running" /\ term = "forwarded"
  /\ child' \in [state: {"exited"}, code: {1}, summary: Summary]
  /\ UNCHANGED <<settings, volume, step, term, exit, posts, objects, history>>

\* The Job is deleted or its deadline passes: a SIGTERM, which a process that
\* does not trap it does not survive.
Terminate ==
  /\ step # "exited" /\ term \in {"none", "trapped"}
  /\ IF term = "trapped"
     THEN term' = "queued" /\ UNCHANGED <<step, exit>>
     ELSE term' = "fatal" /\ step' = "exited" /\ exit' = 1
  /\ UNCHANGED <<settings, volume, child, posts, objects, history>>

\* The grace period is over, or the container is out of memory.
Kill ==
  /\ step # "exited" /\ step' = "exited"
  /\ exit' = 1 /\ killed' = TRUE
  /\ UNCHANGED <<settings, volume, term, child, posts, objects, mishaps>>

InitStep == \/ DownloadRunner \/ DownloadConfig \/ ResolveSecrets
            \/ CopyWrapper \/ CopyEntrypoint

WrapperStep ==
  \/ Rendezvous \/ OpenLog \/ LoadSecrets \/ Notify \/ StartChild \/ Wait
  \/ UploadReport \/ UploadLogs \/ SendCallback \/ Exits

PodNext ==
  \/ PodStarts \/ InitStep \/ WrapperStep \/ ForwardSignal
  \/ ChildEnds \/ ChildStops \/ Terminate \/ Kill

\* Whether a pod is scheduled is the cluster's affair. Once it is, its
\* processes run, the injected driver heeds SIGTERM, and the Job has
\* a deadline (activeDeadlineSeconds is never 0), which a running test meets.
PodFairness ==
  /\ WF_podVars(InitStep) /\ WF_podVars(WrapperStep)
  /\ WF_podVars(ForwardSignal) /\ WF_podVars(ChildStops)
  /\ WF_podVars(step = "wait" /\ Terminate)

PodSpec == PodInit /\ [][PodNext]_podVars /\ PodFairness

-----------------------------------------------------------------------------
(* Properties                                                              *)

\* Every variable of the pod has its type.
PodTypeOK ==
  /\ settings \in Settings /\ volume \in Volume /\ step \in Step
  /\ term \in {"none", "trapped", "queued", "forwarded", "fatal"}
  /\ child \in [state: {"none", "running", "exited"}, code: {0, 1}, summary: Summary]
  /\ exit \in {0, 1} /\ posts \in BOOLEAN
  /\ report \in Summary \cup {"standin"} /\ logs \in {"none", "run", "error"}
  /\ callback \subseteq {0, 1} /\ killed \in BOOLEAN /\ mishaps \in Nat

\* A test runs on whole files: the binary, and the configuration the run names
\* with its secrets filled in; whatever step of the init container failed.
TestRunsOnWholeFiles ==
  child.state # "none" =>
    /\ volume.runner = "whole"
    /\ settings.config =>
         volume.config = IF settings.secrets THEN "resolved" ELSE "whole"

\* A test that was started gets a report, though it hangs, ends badly or is
\* terminated at any point: only SIGKILL or a failed call excuses the wrapper.
StartedTestIsReported ==
  child.state = "running" ~> (report # "none" \/ killed \/ mishaps > 0)

\* The pod keeps the promise RunLifecycle builds on: the report is what the
\* test left, it precedes the callback, which tells the pod's own exit code.
Phase == IF step = "exited" THEN "exited"
         ELSE IF step \in AfterRun \ {"reporting"} THEN "reported" ELSE "running"
Contract == INSTANCE PodPromise WITH
             phase <- Phase, left <- child.summary,
             code <- IF Phase = "running" THEN 0 ELSE exit
PodKeepsPromise == Contract!PromiseSpec
=============================================================================
