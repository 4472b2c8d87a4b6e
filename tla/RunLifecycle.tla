---------------------------- MODULE RunLifecycle ----------------------------
(***************************************************************************)
(* The life of a test run of the vuhive-cloud control plane.               *)
(*                                                                         *)
(* Four parties act on a run and share nothing but three stores: the       *)
(* test_runs row in PostgreSQL, the batch/v1 Job in Kubernetes and the     *)
(* report object in S3.                                                    *)
(*   - REST requests (RunService): trigger, abort, cleanup, delete and the *)
(*     completion callback;                                                *)
(*   - the runner pod, whose wrapper uploads the report and then calls     *)
(*     back once;                                                          *)
(*   - the Job controller and cluster users, outside the repository;       *)
(*   - the RunnerJobWatcher, one goroutine fed by an informer.             *)
(*                                                                         *)
(* Every handler reads the row, changes the aggregate in memory and writes *)
(* the WHOLE row back (INSERT .. ON CONFLICT DO UPDATE of all columns),    *)
(* with no lock and no version: read and write are separate actions here.  *)
(* A run started by a schedule has the Job first and the row second.       *)
(***************************************************************************)
EXTENDS Naturals

CONSTANTS
  Runs,         \* run identifiers (for a scheduled run, its Job)
  NoRun,        \* what an idle request works on
  Documents,    \* the kinds of summary file a run may end with
  Clients,      \* REST requests the server serves at the same time
  MaxFaults,    \* bound: transient faults of PostgreSQL, Kubernetes or S3
  MaxRestarts   \* bound: restarts of the server

ASSUME ConstAssumption ==
  /\ NoRun \notin Runs
  /\ Documents \subseteq {"pass", "fail", "fallback", "bad"}
  /\ MaxFaults \in Nat /\ MaxRestarts \in Nat

VARIABLES
  origin,    \* [Runs -> {"manual", "schedule"}]: who starts the run
  row,       \* [Runs -> Row]: table test_runs
  used,      \* runs whose identifier was handed out
  job,       \* [Runs -> SUBSET Phase]: what the run's Job has gone through
  pod,       \* [Runs -> PodState]: the runner pod and its wrapper
  exit,      \* [Runs -> {0, 1}]: exit code of the wrapper
  wrote,     \* [Runs -> Report]: the summary file the wrapper uploads
  stored,    \* runs whose report object is in the bucket
  callback,  \* runs whose completion callback is on its way
  unseen,    \* [Runs -> SUBSET Phase]: Job events the watcher has not handled
  client,    \* [Clients -> Request]: REST requests in flight
  watcher,   \* Request: the event the watcher is handling
  refused,   \* runs whose DispatchJob call returned an error
  faults,    \* transient faults so far
  restarts   \* server restarts so far

external == <<origin, pod, exit, wrote>>
budget   == <<faults, restarts>>
vars == <<origin, row, used, job, pod, exit, wrote, stored, callback, unseen,
          client, watcher, refused, faults, restarts>>

-----------------------------------------------------------------------------
(* The aggregate: domain/model/run.go *)

Terminal == {"COMPLETED", "FAILED", "ABORTED"}
Status   == {"NONE", "QUEUED", "RUNNING"} \cup Terminal   \* NONE: no such row
Report   == {"none", "pass", "fail", "fallback", "bad"}
Row == [status:  Status,
        job:     BOOLEAN,                       \* k8s_job_name is set
        sla:     {"unset", "pass", "fail"},     \* sla_passed
        summary: Report,                        \* summary_json
        key:     {"none", "object", "stray"},   \* s3_report_key and what it names
        reason:  {"none", "operator", "k8s"}]   \* abort_reason

NoRow == [status |-> "NONE", job |-> FALSE, sla |-> "unset",
          summary |-> "none", key |-> "none", reason |-> "none"]

\* NewTestRun: a scheduled run is built with its Job's name.
NewTestRun(named) == [NoRow EXCEPT !.status = "QUEUED", !.job = named]

Exists(r)     == row[r].status # "NONE"

\* Mutant: ABORTED forgotten in the switch of IsTerminal.
IsFinished(t) == t.status \in {"COMPLETED", "FAILED"}
IsTerminal(t) == t.status \in Terminal

\* Start(jobName): only QUEUED moves; the callers ignore its error.
Start(t, named) ==
  IF t.status = "QUEUED"
  THEN [t EXCEPT !.status = "RUNNING", !.job = t.job \/ named]
  ELSE t

Complete(t, summary, sla, key) ==
  [t EXCEPT !.status = "COMPLETED", !.summary = summary, !.sla = sla, !.key = key]

\* Mutant: Fail records a report key it never checked.
FailWithKey(t) == [t EXCEPT !.status = "FAILED", !.sla = "fail", !.key = "object"]
Fail(t) == [t EXCEPT !.status = "FAILED", !.sla = "fail"]

Abort(t, why) == [t EXCEPT !.status = "ABORTED", !.reason = why]

\* ParseSummaryReport: the wrapper's fallback document parses, with its
\* status FAILED; only malformed JSON is rejected.
\* Mutant: an empty report counts as parsed.
ParsesEmpty(report) == report # "bad"
Parses(report) == report \in {"pass", "fail", "fallback"}

\* Mutant: the status field of the document is not looked at.
SLAPassedByDefault(report) == IF report = "fail" THEN "fail" ELSE "pass"
SLAPassed(report) == IF report = "pass" THEN "pass" ELSE "fail"

\* Save: the upsert of every column. It also brings a deleted row back.
\* Mutant: two of the 26 placeholders swapped.
SaveSwapped(r, t) ==
  row' = [row EXCEPT ![r] = [t EXCEPT !.summary = t.reason, !.reason = t.summary]]
Save(r, t) == row' = [row EXCEPT ![r] = t]

-----------------------------------------------------------------------------
(* The Job. Its conditions accumulate, and the informer reports each.      *)

Phase == {"created", "active", "succeeded", "failed", "deleting", "gone"}
Rank(ph) == CASE ph = "created" -> 0 [] ph = "active" -> 1
              [] ph \in {"succeeded", "failed"} -> 2
              [] ph = "deleting" -> 3 [] OTHER -> 4

JobExists(r) == "created" \in job[r] /\ "gone" \notin job[r]
JobOpen(r)   == /\ JobExists(r)
                /\ job[r] \cap {"succeeded", "failed", "deleting"} = {}

\* The Job enters ph, and the informer queues the change behind the others.
Enter(r, ph) ==
  /\ job'    = [job EXCEPT ![r] = @ \cup {ph}]
  /\ unseen' = [unseen EXCEPT ![r] = @ \cup {ph}]

\* The event the informer delivers next for r.
NextEvent(r, ph) ==
  /\ ph \in unseen[r]
  /\ \A q \in unseen[r] : Rank(ph) <= Rank(q)

\* The object the resync hands over: the Job's latest condition.
Latest(r, ph) == ph \in job[r] /\ \A q \in job[r] : Rank(q) <= Rank(ph)

PodState == {"none", "running", "reported", "exited"}

-----------------------------------------------------------------------------
(* Requests in flight: where they are, their run and the copy of the row   *)
(* they will write back.                                                   *)

Pc == {"dispatch", "link", "failSave",             \* TriggerRun
       "abortKill", "abortSave",                    \* AbortRun
       "cleanKill", "cleanSave",                    \* CleanupRun
       "deleteKill", "purge", "drop",               \* DeleteRun
       "fetch", "completeSave",                     \* CompleteRun
       "create", "sync"}                            \* the watcher
Idle == [pc |-> "idle", run |-> NoRun, snap |-> NoRow, event |-> "created"]
Request == {Idle} \cup [pc: Pc, run: Runs, snap: Row, event: Phase]

\* q will write its copy of r back, unless it is interrupted.
Holds(q, r) ==
  /\ q.run = r
  /\ \/ q.pc \in {"dispatch", "link", "failSave", "abortKill", "abortSave",
                   "cleanSave", "fetch", "completeSave", "create", "sync"}
     \/ q.pc = "cleanKill" /\ ~IsTerminal(q.snap)

At(c, pc)          == client[c].pc = pc
Go(c, pc)          == client' = [client EXCEPT ![c].pc = pc]
GoWith(c, pc, t)   == client' = [client EXCEPT ![c].pc = pc, ![c].snap = t]
Done(c)            == client' = [client EXCEPT ![c] = Idle]
Accept(c, pc, r, t) ==
  /\ At(c, "idle")
  /\ client' = [client EXCEPT ![c] = [Idle EXCEPT !.pc = pc, !.run = r, !.snap = t]]

Fault == faults < MaxFaults /\ faults' = faults + 1
NoFault == UNCHANGED faults

TypeOK ==
  /\ origin \in [Runs -> {"manual", "schedule"}]
  /\ row \in [Runs -> Row]
  /\ used \subseteq Runs
  /\ job \in [Runs -> SUBSET Phase]
  /\ pod \in [Runs -> PodState]
  /\ exit \in [Runs -> {0, 1}]
  /\ wrote \in [Runs -> Report]
  /\ stored \subseteq Runs
  /\ callback \subseteq Runs
  /\ unseen \in [Runs -> SUBSET Phase]
  /\ client \in [Clients -> Request]
  /\ watcher \in Request
  /\ refused \subseteq Runs
  /\ faults \in 0..MaxFaults
  /\ restarts \in 0..MaxRestarts

Init ==
  /\ origin \in [Runs -> {"manual", "schedule"}]
  /\ row = [r \in Runs |-> NoRow]
  /\ used = {}
  /\ job = [r \in Runs |-> {}]
  /\ pod = [r \in Runs |-> "none"]
  /\ exit = [r \in Runs |-> 0]
  /\ wrote = [r \in Runs |-> "none"]
  /\ stored = {}
  /\ callback = {}
  /\ unseen = [r \in Runs |-> {}]
  /\ client = [c \in Clients |-> Idle]
  /\ watcher = Idle
  /\ refused = {}
  /\ faults = 0
  /\ restarts = 0

-----------------------------------------------------------------------------
(* TriggerRun: save QUEUED, create the Job, save again with the Job's name *)

TriggerRun(c, r) ==
  /\ origin[r] = "manual" /\ r \notin used
  /\ used' = used \cup {r}
  /\ Save(r, NewTestRun(FALSE))
  /\ Accept(c, "dispatch", r, NewTestRun(FALSE))
  /\ UNCHANGED <<external, job, stored, callback, unseen, watcher, refused, budget>>

\* DispatchJob succeeds: the copy of step one gets the Job's name.
DispatchJob(c) ==
  LET r == client[c].run IN
  /\ At(c, "dispatch")
  /\ Enter(r, "created")
  /\ GoWith(c, "link", [client[c].snap EXCEPT !.job = TRUE])
  /\ UNCHANGED <<external, row, used, stored, callback, watcher, refused, budget>>

\* DispatchJob returns an error. A lost answer may hide a Job that exists.
DispatchFails(c) ==
  LET r == client[c].run IN
  /\ At(c, "dispatch")
  /\ \/ UNCHANGED <<job, unseen>>
     \/ Enter(r, "created")
  /\ refused' = refused \cup {r}
  /\ GoWith(c, "failSave", Fail(client[c].snap))
  /\ UNCHANGED <<external, row, used, stored, callback, watcher, budget>>

\* The second Save of TriggerRun, and the Save of a handler that is done.
SaveCopy(c) ==
  /\ client[c].pc \in {"link", "failSave", "abortSave", "cleanSave", "completeSave"}
  /\ Save(client[c].run, client[c].snap)
  /\ Done(c)
  /\ UNCHANGED <<external, used, job, stored, callback, unseen, watcher, refused,
                 budget>>

(* AbortRun, CleanupRun and DeleteRun: read, delete the Job, write.        *)

AbortRun(c, r) ==
  /\ Exists(r) /\ ~IsTerminal(row[r])
  /\ Accept(c, "abortKill", r, row[r])
  /\ UNCHANGED <<external, row, used, job, stored, callback, unseen, watcher,
                 refused, budget>>

CleanupRun(c, r) ==
  /\ Exists(r)
  /\ Accept(c, "cleanKill", r, row[r])
  /\ UNCHANGED <<external, row, used, job, stored, callback, unseen, watcher,
                 refused, budget>>

DeleteRun(c, r) ==
  /\ IsTerminal(row[r])
  /\ Accept(c, "deleteKill", r, row[r])
  /\ UNCHANGED <<external, row, used, job, stored, callback, unseen, watcher,
                 refused, budget>>

\* AbortJob, if the copy names a Job: background deletion, so the Job is gone
\* at once. Its error is logged and ignored.
\* Mutant: only a run that is RUNNING has its Job deleted.
AbortRunningJob(t, r) ==
  IF t.job /\ JobExists(r) /\ t.status = "RUNNING"
  THEN Enter(r, "gone") /\ NoFault
  ELSE UNCHANGED <<job, unseen>> /\ NoFault

AbortJob(t, r) ==
  \/ /\ t.job /\ JobExists(r)
     /\ Enter(r, "gone") /\ NoFault
  \/ /\ t.job /\ JobExists(r)
     /\ UNCHANGED <<job, unseen>> /\ Fault
  \/ /\ ~(t.job /\ JobExists(r))
     /\ UNCHANGED <<job, unseen>> /\ NoFault

AfterKill(c) ==
  LET t == client[c].snap IN
  \/ At(c, "abortKill") /\ GoWith(c, "abortSave", Abort(t, "operator"))
  \/ /\ At(c, "cleanKill") /\ ~IsTerminal(t)
     /\ GoWith(c, "cleanSave", Abort(t, "operator"))
  \/ At(c, "cleanKill") /\ IsTerminal(t) /\ Done(c)
  \/ At(c, "deleteKill") /\ Go(c, "purge")

KillJob(c) ==
  /\ AfterKill(c)
  /\ AbortJob(client[c].snap, client[c].run)
  /\ UNCHANGED <<external, row, used, stored, callback, watcher, refused, restarts>>

\* DeleteRun removes the objects the row names; an error is logged and ignored.
PurgeReport(c) ==
  LET r     == client[c].run
      named == IF client[c].snap.key = "object" THEN {r} ELSE {}
  IN
  /\ At(c, "purge")
  /\ \/ stored' = stored \ named /\ NoFault
     \/ named # {} /\ UNCHANGED stored /\ Fault
  /\ Go(c, "drop")
  /\ UNCHANGED <<external, row, used, job, callback, unseen, watcher, refused,
                 restarts>>

DropRow(c) ==
  /\ At(c, "drop")
  /\ Save(client[c].run, NoRow)
  /\ Done(c)
  /\ UNCHANGED <<external, used, job, stored, callback, unseen, watcher, refused,
                 budget>>

(* CompleteRun: the wrapper's callback. *)

\* The request is read; QUEUED becomes RUNNING in memory. A callback for a
\* missing or terminal run is answered with an error and forgotten.
CompleteRun(c, r) ==
  /\ r \in callback
  /\ callback' = callback \ {r}
  /\ IF Exists(r) /\ ~IsTerminal(row[r])
     THEN Accept(c, "fetch", r, Start(row[r], FALSE))
     ELSE At(c, "idle") /\ UNCHANGED client
  /\ UNCHANGED <<external, row, used, job, stored, unseen, watcher, refused, budget>>

\* The report is downloaded and parsed. No report, or one that does not
\* parse, fails the run.
IngestReport(c) ==
  LET r == client[c].run
      t == client[c].snap
      Ingest(report) ==
        IF Parses(report)
        THEN GoWith(c, "completeSave", Complete(t, report, SLAPassed(report), "object"))
        ELSE GoWith(c, "completeSave", Fail(t))
  IN
  /\ At(c, "fetch")
  /\ \/ Ingest(IF r \in stored THEN wrote[r] ELSE "none") /\ NoFault
     \/ r \in stored /\ Ingest("none") /\ Fault
  /\ UNCHANGED <<external, row, used, job, stored, callback, unseen, watcher,
                 refused, restarts>>

\* A request dies between two steps: its Save fails, its client goes away,
\* the process is killed.
RequestDies(c) ==
  /\ ~At(c, "idle")
  /\ Fault /\ Done(c)
  /\ UNCHANGED <<external, row, used, job, stored, callback, unseen, watcher,
                 refused, restarts>>

ClientNext ==
  \E c \in Clients :
    \/ \E r \in Runs : \/ TriggerRun(c, r) \/ AbortRun(c, r) \/ CleanupRun(c, r)
                       \/ DeleteRun(c, r) \/ CompleteRun(c, r)
    \/ DispatchJob(c) \/ DispatchFails(c) \/ SaveCopy(c) \/ KillJob(c)
    \/ PurgeReport(c) \/ DropRow(c) \/ IngestReport(c) \/ RequestDies(c)

-----------------------------------------------------------------------------
(* The runner pod, its wrapper and the Job controller. The controller and  *)
(* the cluster's users are outside the repository.                         *)

world == <<origin, row, used, client, watcher, refused, budget>>

\* A CronJob fires: a Job with a schedule-id label and no run-id label.
CronFires(r) ==
  /\ origin[r] = "schedule" /\ job[r] = {}
  /\ Enter(r, "created")
  /\ UNCHANGED <<world, pod, exit, wrote, stored, callback>>

PodStarts(r) ==
  /\ JobOpen(r) /\ "active" \notin job[r]
  /\ Enter(r, "active")
  /\ pod' = [pod EXCEPT ![r] = "running"]
  /\ UNCHANGED <<world, exit, wrote, stored, callback>>

\* The runner ends. The wrapper uploads summary.json, or a document of its
\* own when the runner left none; a failed upload is logged and ignored.
UploadReport(r) ==
  /\ pod[r] = "running"
  /\ pod' = [pod EXCEPT ![r] = "reported"]
  /\ \E e \in {0, 1}, doc \in Documents :
       /\ exit'  = [exit EXCEPT ![r] = e]
       /\ wrote' = [wrote EXCEPT ![r] = doc]
  /\ \/ stored' = stored \cup {r}
     \/ UNCHANGED stored
  /\ UNCHANGED <<world, job, unseen, callback>>

\* The wrapper posts its only callback and exits whatever the answer. The
\* post may be lost; a runner that failed to start posts none; a pod may be
\* killed between the post and its end.
SendCallback(r) ==
  /\ pod[r] = "reported"
  /\ pod' = [pod EXCEPT ![r] = "exited"]
  /\ \/ callback' = callback \cup {r}
     \/ UNCHANGED callback
  /\ \/ UNCHANGED exit
     \/ exit' = [exit EXCEPT ![r] = 1]
  /\ UNCHANGED <<world, job, unseen, wrote, stored>>

\* OOM kill, eviction, SIGKILL after the grace period of a deleted Job.
PodKilled(r) ==
  /\ pod[r] \in {"running", "reported"}
  /\ pod'  = [pod EXCEPT ![r] = "exited"]
  /\ exit' = [exit EXCEPT ![r] = 1]
  /\ UNCHANGED <<world, job, unseen, wrote, stored, callback>>

JobEnds(r) ==
  /\ JobOpen(r)
  /\ \/ pod[r] = "exited" /\ exit[r] = 0 /\ Enter(r, "succeeded")
     \/ pod[r] = "exited" /\ exit[r] = 1 /\ Enter(r, "failed")
     \/ pod[r] # "exited" /\ Enter(r, "failed")     \* activeDeadlineSeconds
  /\ UNCHANGED <<world, pod, exit, wrote, stored, callback>>

\* Someone else deletes the Job: the TTL controller, kubectl, or the garbage
\* collector after its CronJob. Foreground deletion marks it first.
JobDeleted(r) ==
  /\ JobExists(r)
  /\ \/ "deleting" \notin job[r] /\ Enter(r, "deleting")
     \/ Enter(r, "gone")
  /\ UNCHANGED <<world, pod, exit, wrote, stored, callback>>

ClusterNext ==
  \E r \in Runs : \/ CronFires(r) \/ PodStarts(r) \/ UploadReport(r)
                 \/ SendCallback(r) \/ PodKilled(r) \/ JobEnds(r)
                 \/ JobDeleted(r)

-----------------------------------------------------------------------------
(* RunnerJobWatcher: one event at a time.                                  *)

aside == <<external, used, job, stored, callback, client, refused>>

\* The Job succeeded. The report is not looked at: the verdict is a pass, and
\* the key is computed from the run's id, which for a scheduled run is not the
\* Job's name its wrapper uploads under.
\* Mutant: a QUEUED run is not started first, and Complete refuses it.
SucceedRunning(r, t) ==
  IF t.status = "QUEUED" THEN t ELSE Complete(t, "none", "pass", "object")
Succeed(r, t) ==
  Complete(Start(t, TRUE), "none", "pass",
           IF origin[r] = "manual" THEN "object" ELSE "stray")

\* The Job of a scheduled run carries no run-id label and is ignored.
\* Mutant: the label is read from the pod template, where it is not.
IgnoreDeletion(r, t) == t
HandleJobDeletion(r, t) == IF origin[r] = "manual" THEN Abort(t, "k8s") ELSE t

\* What event ph makes of the copy t of a run that is not terminal.
Reflect(r, ph, t) ==
  CASE ph = "gone"      -> HandleJobDeletion(r, t)
    [] ph = "deleting"  -> Abort(t, "k8s")
    [] ph = "succeeded" -> Succeed(r, t)
    [] ph = "failed"    -> Fail(Start(t, TRUE))
    [] ph = "active"    -> Start(t, TRUE)
    [] OTHER            -> t

\* Nothing to save, or the changed copy.
Follow(r, ph, t) ==
  IF Reflect(r, ph, t) = t
  THEN watcher' = Idle
  ELSE watcher' = [pc |-> "sync", run |-> r, event |-> ph, snap |-> Reflect(r, ph, t)]

\* A scheduled run has no row before its first event.
\* Mutant: the schedule-id label is not required.
MustCreateAny(r, ph) == ~Exists(r) /\ ph # "gone"
MustCreate(r, ph) == ~Exists(r) /\ origin[r] = "schedule" /\ ph # "gone"

SyncJob(r, ph) ==
  /\ watcher.pc = "idle"
  /\ NextEvent(r, ph)
  /\ unseen' = [unseen EXCEPT ![r] = @ \ {ph}]
  /\ \/ /\ Exists(r) /\ ~IsTerminal(row[r])
        /\ Follow(r, ph, row[r])
     \/ /\ MustCreate(r, ph)
        /\ \/ watcher' = [pc |-> "create", run |-> r, event |-> ph,
                          snap |-> NewTestRun(TRUE)]
           \/ UNCHANGED watcher                 \* the schedule was deleted
     \/ /\ ~(Exists(r) /\ ~IsTerminal(row[r])) /\ ~MustCreate(r, ph)
        /\ UNCHANGED watcher
  /\ UNCHANGED <<aside, row, budget>>

\* The new row of a scheduled run is saved, and the same event goes on.
CreateScheduledRun ==
  /\ watcher.pc = "create"
  /\ Save(watcher.run, watcher.snap)
  /\ Follow(watcher.run, watcher.event, watcher.snap)
  /\ UNCHANGED <<aside, unseen, budget>>

SaveSync ==
  /\ watcher.pc = "sync"
  /\ Save(watcher.run, watcher.snap)
  /\ watcher' = Idle
  /\ UNCHANGED <<aside, unseen, budget>>

\* A repository call fails: the error is logged, the event is lost.
EventFails ==
  /\ Fault
  /\ \/ /\ watcher.pc # "idle"
        /\ watcher' = Idle
        /\ UNCHANGED unseen
     \/ /\ watcher.pc = "idle"
        /\ \E r \in Runs, ph \in Phase :
             NextEvent(r, ph) /\ unseen' = [unseen EXCEPT ![r] = @ \ {ph}]
        /\ UNCHANGED watcher
  /\ UNCHANGED <<aside, row, restarts>>

\* Every ten minutes the informer hands over the Jobs that exist.
Resync(r, ph) ==
  /\ JobExists(r) /\ unseen[r] = {}
  /\ Latest(r, ph)
  /\ unseen' = [unseen EXCEPT ![r] = {ph}]
  /\ UNCHANGED <<aside, row, watcher, budget>>

\* The server restarts: the requests in flight are lost, and the new informer
\* lists the Jobs that exist. It never hears of those deleted before.
ServerRestarts ==
  /\ restarts < MaxRestarts /\ restarts' = restarts + 1
  /\ watcher' = Idle
  /\ client' = [c \in Clients |-> Idle]
  /\ unseen' = [r \in Runs |-> {ph \in job[r] : JobExists(r) /\ Latest(r, ph)}]
  /\ UNCHANGED <<external, row, used, job, stored, callback, refused, faults>>

WatcherNext ==
  \/ \E r \in Runs, ph \in Phase : SyncJob(r, ph) \/ Resync(r, ph)
  \/ CreateScheduledRun \/ SaveSync \/ EventFails \/ ServerRestarts

-----------------------------------------------------------------------------
Next == ClientNext \/ ClusterNext \/ WatcherNext

Spec == Init /\ [][Next]_vars

-----------------------------------------------------------------------------
(* Fairness: the cluster runs the pods it admits, a handler that was       *)
(* accepted takes its next step, and the informer serves its queue in      *)
(* order (strong fairness: other runs' events cannot delay one forever).   *)

HandlerStep(c) ==
  \/ DispatchJob(c) \/ DispatchFails(c) \/ SaveCopy(c) \/ KillJob(c)
  \/ PurgeReport(c) \/ DropRow(c) \/ IngestReport(c)

Fairness ==
  /\ \A c \in Clients : WF_vars(HandlerStep(c))
  /\ \A r \in Runs :
       /\ WF_vars(PodStarts(r)) /\ WF_vars(UploadReport(r))
       /\ WF_vars(SendCallback(r)) /\ WF_vars(JobEnds(r))
       /\ SF_vars(\E ph \in Phase : SyncJob(r, ph))
       /\ WF_vars(\E ph \in Phase : Resync(r, ph))
  /\ WF_vars(CreateScheduledRun) /\ WF_vars(SaveSync)

FairSpec == Spec /\ Fairness

-----------------------------------------------------------------------------
(* Properties. Explained, Coherent and Killed speak of a copy t of r's row: *)
(* the row in the table, or one a handler has in memory and will save.     *)

Explained(r, t) ==
  /\ t.job => "created" \in job[r]
  /\ t.status = "RUNNING" => "active" \in job[r] \/ pod[r] = "exited"
  /\ t.status = "COMPLETED" =>
       IF t.summary = "none" THEN "succeeded" \in job[r] ELSE pod[r] = "exited"
  /\ t.status = "FAILED" =>
       r \in refused \/ "failed" \in job[r] \/ pod[r] = "exited"
  /\ t.reason = "k8s" => job[r] \cap {"deleting", "gone"} # {}

Coherent(r, t) ==
  /\ t.summary # "none" => /\ t.status = "COMPLETED"
                           /\ t.summary = wrote[r]
                           /\ (t.sla = "pass") <=> (t.summary = "pass")
  /\ t.sla = "pass" => t.status = "COMPLETED"
  /\ t.sla # "unset" => t.status \in {"COMPLETED", "FAILED"}
  /\ t.key # "none" => t.status = "COMPLETED"
  /\ (t.reason # "none") <=> (t.status = "ABORTED")

Killed(r, t) ==
  t.reason = "operator" /\ t.job => "gone" \in job[r] \/ faults > 0

\* What a row says happened did happen: a verdict without a report comes from
\* a Job that succeeded, a failure from a refused dispatch, a failed Job or a
\* wrapper that ended, "deleted in kubernetes" from a deletion, a Job's name
\* from a Job. RunService and RunnerJobWatcher both write the row.
OutcomeHasCause == \A r \in Runs : Explained(r, row[r])

\* A row never mixes two outcomes: a verdict that rests on a report is the
\* verdict of the report this run's wrapper wrote, and an aborted or failed
\* run carries no column of a completed one. The writers race, and each of
\* them writes all columns (run_repository.go, Save).
OneOutcomePerRow == \A r \in Runs : Coherent(r, row[r])

\* An operator's abort of a run whose Job was known leaves no Job behind,
\* unless some call failed (AbortRun and CleanupRun log the error and go on).
AbortKillsJob == \A r \in Runs : Killed(r, row[r])

\* A terminal state is final once no handler holds a copy read before it: no
\* later request, callback, event, resync or restart changes the row, it can
\* only be deleted (the IsTerminal checks of every handler).
Quiet(r) ==
  /\ row[r].status \in Terminal
  /\ \A c \in Clients : ~Holds(client[c], r)
  /\ ~Holds(watcher, r)

QuietRunIsFinal ==
  [][\A r \in Runs : Quiet(r) =>
       \/ row'[r] = row[r] /\ Quiet(r)'
       \/ row'[r] = NoRow]_vars

\* A manual run that was deleted does not come back, whatever its Job and its
\* wrapper still do, unless a handler holds a copy (SyncJob creates rows for
\* scheduled Jobs only; Save is an upsert).
Forgotten(r) ==
  /\ r \in used /\ origin[r] = "manual" /\ ~Exists(r)
  /\ \A c \in Clients : ~Holds(client[c], r)
  /\ ~Holds(watcher, r)

DeletedRunStaysDeleted == [][\A r \in Runs : Forgotten(r) => Forgotten(r)']_vars

\* As long as its Job is not deleted a run ends, whatever single events and
\* requests fail and though the server restarts: the resync hands the Job to
\* SyncJob again.
LiveJobDecidesRun ==
  \A r \in Runs :
    (Exists(r) /\ JobExists(r)) ~>
      (IsTerminal(row[r]) \/ ~Exists(r) \/ ~JobExists(r))

\* While no call fails and the server stays up, a run whose trigger has
\* returned ends even if its Job is deleted under it (HandleJobDeletion).
Triggered(r) ==
  /\ Exists(r) /\ JobExists(r)
  /\ \A c \in Clients :
       client[c].run = r => client[c].pc \notin {"dispatch", "link", "failSave"}

Ended(r) == IsTerminal(row[r]) \/ ~Exists(r) \/ faults > 0 \/ restarts > 0

DeletedJobEndsRun ==
  \A r \in Runs : (origin[r] = "manual" /\ Triggered(r)) ~> Ended(r)

-----------------------------------------------------------------------------
(* What the repository's texts say and the code does not do.               *)

\* "the run will be permanently marked ABORTED" (docs/cookbook.md:1022). A
\* callback, a trigger or an event read before the abort saves its copy later.
AbortIsPermanent ==
  [][\A r \in Runs : row[r].reason = "operator" =>
       row'[r].status \in {"ABORTED", "NONE"}]_vars

\* "Runs with invalid or missing summary reports are flagged as FAILED"
\* (ARCHITECTURE_SPEC.md:198). The wrapper replaces a missing report by one
\* that parses, and SyncJob completes a run without looking at its report.
NoReportMeansFailed ==
  \A r \in Runs : row[r].status = "COMPLETED" => wrote[r] \in {"pass", "fail"}

\* "begins tracking its lifecycle identically to an ad-hoc run"
\* (ARCHITECTURE_SPEC.md:208): what DeletedJobEndsRun says of manual runs.
\* HandleJobDeletion ignores a Job without a run-id label.
ScheduledTrackedAlike ==
  \A r \in Runs : (origin[r] = "schedule" /\ Triggered(r)) ~> Ended(r)

-----------------------------------------------------------------------------
(* The inductive invariant of RunLifecycle_proofs. A handler's copy must   *)
(* be as sound as the row it will replace.                                 *)

Sound(r, t) == Explained(r, t) /\ Coherent(r, t) /\ Killed(r, t)

\* The Job comes before its pod, the report before the callback, and the
\* informer tells nothing that did not happen.
InOrder(r) ==
  /\ job[r] # {} => "created" \in job[r]
  /\ pod[r] # "none" => "active" \in job[r]
  /\ wrote[r] # "none" \/ r \in stored => pod[r] \in {"reported", "exited"}
  /\ r \in callback => pod[r] = "exited"
  /\ unseen[r] \subseteq job[r]

SoundRequest(q) ==
  q.pc # "idle" =>
    /\ q.run \in Runs
    /\ Sound(q.run, q.snap)
    /\ q.pc \in {"dispatch", "link", "abortKill", "fetch", "create"} =>
         ~IsTerminal(q.snap)
    /\ q.pc \in {"fetch", "completeSave"} => pod[q.run] = "exited"
    /\ q.pc = "create" => q.event \in job[q.run]

IndInv ==
  /\ TypeOK
  /\ \A r \in Runs : InOrder(r) /\ Sound(r, row[r])
  /\ \A c \in Clients : SoundRequest(client[c])
  /\ SoundRequest(watcher)

=============================================================================
