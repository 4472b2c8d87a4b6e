# vuhive-cloud: a TLA+ verification of the control plane

vuhive-cloud runs load tests on Kubernetes.  A control plane (`internal/`, Go)
keeps suites, artifacts, schedules and runs in PostgreSQL, and reports and
binaries in S3; it builds test binaries and runs them as `batch/v1` Jobs.  A
wrapper in each runner pod uploads the report and calls the control plane back.
A backend for the browser (`internal/bff/`, the BFF) keeps sessions, polls the
control plane and pushes events.

Paths below are relative to `src/internal/` unless they begin with `src/`.

## 1. Inventory

| Component | State it keeps | Operations | Hard behaviour | Correct means |
|---|---|---|---|---|
| **Test run lifecycle**: `application/service/run_service.go`, `adapters/outbound/k8s/runner_watcher.go` | row of `test_runs`; the Job; the report object; the informer's queue | trigger, abort, cleanup, delete, completion callback; watcher: sync, deletion, resync | four writers read the row, change a copy and save all columns, with no lock or version; the watcher and the callback race for the verdict; one-shot callback; lost events; restarts; scheduled runs have the Job before the row | a row tells one story and a true one; a terminal run stays so; an abort leaves no load behind; every run ends |
| **Start barrier**: `adapters/outbound/coordinator/memory_coordinator.go`, `domain/model/barrier.go`, `runner/barrier_client.go` | one session per run, in the memory of one replica | await, abort, status | a select with several ready cases; own timers; requests that end early; replicas and restarts split the session | nobody starts before all have come; one start instant; nobody hangs |
| **Runner pod**: `runner/init.go`, `runner/wrapper.go`, `src/cmd/runner-*` | files of the shared volume; the test as a child process; report and log objects | download, resolve secrets, copy; rendezvous, run, upload, post | files torn half-way; SIGTERM and SIGKILL at any point; a failed call anywhere; the child's end against the signal | a test runs on whole files; a test that ran is reported; the callback tells the exit code |
| **Artifact builds**: `application/service/build_service.go`, `adapters/outbound/k8s/build_orchestrator.go` | artifact row, build Job, source and binary in S3 | trigger, retry, cancel, delete; a goroutine per build | cancel races the goroutine; two builds of one artifact share a Job name; a crash leaves BUILDING; an upsert revives a deleted row | READY means that a Job of this artifact built it; only analysed code is compiled; every build settles |
| **Static analyser**: `domain/service/static_analyzer.go` | none | accept or refuse an archive, prepare it | iterates over a Go map, in any order; two files of one base name | what is compiled was accepted, as far as its comparison of imports goes |
| **Schedules**: `application/service/schedule_service.go` | schedule row, CronJob | create, update, enable, delete | row and CronJob are changed one after the other, errors of the second are partly ignored | row and CronJob agree |
| **Suites, profiles, configurations**: `application/service/{suite,profile,config}_service.go` | a row each; a configuration's object | create, read, update, delete | object first and row second; read and save; cascades under a request | a configuration has its object |
| **Housekeeping**: `application/service/housekeeping_service.go` | ticker; rows and objects older than a cut-off | purge logs, archive runs, prune, delete orphans and binaries | list first, act later, beside everything else | no row goes before its report; what a row says stays true |
| **Workload partitioning**: `domain/service/workload_partitioner.go` | none | split a profile between workers | remainders, fewer units than workers | shares are even and add up |
| **BFF event stream**: `bff/adapters/outbound/eventhub/hub.go`, `bff/application/service/poller.go` | subscribers' channels; last seen statuses | subscribe, unsubscribe, broadcast, close, poll | sends outside the lock; full buffers drop; three parties close one channel | a channel is closed once; a subscriber learns every change; every stream ends |
| **BFF sessions**: `bff/application/service/session_service.go`, `bff/adapters/inbound/rest/{session_middleware,auth_handler}.go`, `bff/application/service/cleaner.go`, `bff/adapters/outbound/keycloak/client.go` | session row with tokens; cached signing keys | login, get (slide), refresh and rotate, logout, back-channel logout, clean | sliding and rotation write the whole session; concurrent refresh; key rotation | an ended session serves nobody and goes; a refresh loses no token |
| **Circuit breaker, control-plane client** (BFF): `bff/adapters/outbound/controlplane/` | the gobreaker library's counts | ask, call, retry, report | hang-ups, retries, two layers on one breaker, probes | each call counts once; the breaker closes again |
| **Secrets**; **template resolver** | one row each; none | create, read, update, delete; substitution | | |
| **Kubernetes manifests** | none | generation | labels, names, deadlines tie Jobs to rows | |
| **REST layer, S3, authentication** | none | decoding, I/O | | |
| **CLI, Web UI** | none | sequential clients | | |

How they interact: the REST layer calls the services; a service calls
repositories, the Kubernetes API and S3 directly, without queue, transaction or
lock between them; the watcher is one goroutine fed by an informer and writes
through the same repository; wrapper and worker pods come back over HTTP; the BFF
is a client of the control plane.  Everything hard comes from this: a handler's
read and its write are apart, and stores change one at a time.

`PROJECT.json` lists the hazards line by line, with the properties that watch
over each and, where none does, the reason.

## 2. Modules

| Module | What it is |
|---|---|
| `RunLifecycle`, `RunLifecycle_proofs` | life of a run: requests, pod, Job, watcher; theorems |
| `Rendezvous` | abstract: what a start barrier promises |
| `StartBarrier`, `StartBarrier_proofs` | the barrier, its pods, replicas and restarts; implements `Rendezvous` |
| `PodPromise` | abstract: what a runner pod promises the control plane |
| `RunnerPod`, `RunnerPod_proofs` | one pod, init container and wrapper; implements `PodPromise` |
| `SourceAnalysis` | what the analyser accepts and what it turns it into |
| `ArtifactBuild` | builds, on `SourceAnalysis` |
| `Retention`, `Retention_proofs` | housekeeping sweeps beside builds and runs, on `ArtifactBuild`; theorems of both |
| `Catalog`, `Catalog_proofs` | suites, profiles, configurations, schedules and their CronJobs |
| `Partition` | division of a load; theorems at the end of `Catalog_proofs`, with those of `MCControlPlane` |
| `EventStream`, `EventStream_proofs` | poller, hub and stream handlers |
| `Sessions`, `Sessions_proofs` | sessions and Keycloak |
| `Breaker`, `Breaker_proofs` | the breaker and its callers |
| `MCRunLifecycle`, `MCStartBarrier` | symmetry for TLC |
| `MCRetention` | one target, one archive, two policies |
| `MCRunner` | the barrier and a pod; its theorems are in `RunnerPod_proofs` |
| `MCControlPlane` | builds, catalogue and partitioner |
| `MCBff` | event stream, sessions and breaker; its theorems are in `Breaker_proofs` |

The last three compose modules that share no variable.  There a variable `focus`
says which part moves: as neither can enable, disable or observe a step of the
other, a property of one is the same whatever the other does, and exploring the
product would only multiply the states.  A part that is not looked at starts
where its fairness owes nothing.  `ControlPlaneComposes`, `BffComposes` and
`RunnerComposes` prove that such a composition implements each of its parts.

Modules that do meet are composed in earnest: `Retention` runs sweeps against
the very actions of `ArtifactBuild`; `RunLifecycle` has the runner pod as
`PodPromise` describes it, which `RunnerPod` is shown to implement.

### 2.1 RunLifecycle

| Variable | Stands for |
|---|---|
| `row` | `test_runs`: `status`, whether `k8s_job_name` is set, `sla_passed`, `summary_json`, `s3_report_key`, `abort_reason`; `NONE` is no row |
| `job` | the phases the Job went through (conditions only accumulate) |
| `unseen` | changes of the Job the informer has not yet delivered |
| `pod`, `exit`, `wrote`, `stored`, `callback` | the runner pod, its exit code, the summary it has, the object in S3, the callback in flight |
| `client`, `watcher` | handlers between two steps: where they are, their run and **the copy of the row they will save** |
| `origin`, `used`, `refused` | who starts the run, identifiers handed out, dispatches that returned an error |
| `faults`, `restarts` | used-up bounds |

A handler's steps are the points where it touches a store.  `TriggerRun` saves
QUEUED, `DispatchJob`/`DispatchFails` calls Kubernetes, `SaveCopy` saves again.
`AbortRun`, `CleanupRun` and `DeleteRun` read; `KillJob` is `AbortJob` (its error
is ignored by all three); then `SaveCopy`, or `PurgeReport` and `DropRow`.
`CompleteRun` reads, `IngestReport` downloads and parses, `SaveCopy` saves.
`SyncJob` is one event up to the changed copy, `CreateScheduledRun` the first
save of a scheduled run and `SaveSync` the last.  `RequestDies` and `EventFails`
are any call of a handler that fails, or a client that goes away; the code
returns at that point.  `ServerRestarts` loses all handlers and lists the Jobs
that exist.

The Job controller, cluster users and the CronJob controller are not code of
the repository (`CronFires`, `PodStarts`, `PodKilled`, `JobEnds`, `JobDeleted`):
they do whatever Kubernetes allows at any time.  `UploadReport` and
`SendCallback` are the wrapper.

Abstractions.  The summary is its kind: `pass`, `fail`, `fallback` (the document
of the wrapper when the runner left none), `bad` (not JSON); metrics are left
out.  A key is none, one that names this run's object, or `stray` (computed from
the run's id where the wrapper used the Job's name).  A Job that is deleted in
the background is gone at once.  A scheduled run and its Job are one identifier.
One watcher runs: two replicas would double its events, which the upsert makes
harmless except for two rows per scheduled Job.  The log object and the names
and times in a row are not modelled.

### 2.2 StartBarrier and Rendezvous

`session[s]` is the run's session in replica `s`: status, READY participants,
target instant and which of the two broadcast channels are closed.  One critical
section of the session's mutex is one action.  `AwaitRefused`, `AwaitLate`,
`AwaitLast` and `AwaitBlocks` are `Await` up to its select, one per branch;
`WakeReleased`, `WakeAborted`, `TimerFires` and `RequestEnds` are the cases of
the select.  Go picks any ready case, so none excludes another.  `Begin`,
`AnswerLost`, `PreflightFails`, `SignalAbort` and `AbortLost` are the pod's
side, `OperatorAborts` the REST call, `ReplicaRestarts` the loss of the map.
Time is not modelled: a timer may fire at any moment from the start of the wait.
A target instant is named by the set of pods whose arrival fixed it, so that two
instants differ exactly when two releases did.

READY is entered and left within one critical section and is not a state.
Left out: the `MaxBarrierWorkers` check (`NewBarrierSession` returns nil above
10000 workers, its error is dropped and `Await` panics with the mutex held; see
the hazard list) and pods that disagree on the worker count.

`BarrierAssumption` has fewer than `2 * Total` pods.  It is what makes one
release the most there can be when sessions are split, and the code justifies
it: the Job is Indexed with one pod per index and `RunnerBackoffLimit` is 0, so
pods are not replaced after a failure; the assumption leaves room for almost
twice as many.

`Rendezvous` has `arrived` and `start`, and two steps: pods arrive; a pod that
has not started starts on an instant that enough arrivals allow, the one everyone
else has.  Waiting, waking, replicas and restarts do not exist in it.

### 2.3 RunnerPod and PodPromise

`settings` is the environment a Job gives the containers (`Validate`: more than one
worker forces the barrier, which needs the callback's address).  `volume` has
the files of `/shared`, each none, torn, whole or resolved; `step` is the
instruction the pod's own process is at; `child` the test.  The init container
is `DownloadRunner` .. `CopyEntrypoint`, one action per file, with what a failure
leaves: a download is renamed into place, a copy and the resolved
configuration are written over.  The wrapper is `Rendezvous` .. `Exits`; `GiveUp`
is its common path when the test does not run.

`term` follows the SIGTERM.  Before `Notify` it has its default action and ends
the process; after it, it waits in a channel of one, which `ForwardSignal` passes
to the child while the wrapper waits for it; with the end of `Run`
(`SendCallback`) the trap goes.  `Kill` is SIGKILL.  `ChildEnds` is the
test's own code, which leaves what it likes; `ChildStops` is the driver that the
analyser injects.  A summary is none, torn (not JSON) or its own.

`PodPromise` has the phases running, reported, exited: the report is what the test
left, or a stand-in; it precedes the callback; the callback tells the exit code;
a pod may die anywhere.  `RunLifecycle` takes its pods to be such.  It joins the post and the
end into one step, and lets a pod that posted still end badly, as a pod killed
between the two does.

Left out: the masking of secrets in the log, the shell script that runs where no
wrapper is configured.

### 2.4 SourceAnalysis and ArtifactBuild

A file is its path class, its package, whether it declares `main`, what it
imports and the contract it offers; an archive is its container, its `go.mod` and its
files.  An import of a disallowed package is `matched` or `missed`: `isForbiddenImport`
compares a path with each entry and with the entry and a slash, so that nothing below the
entry `debug/`, which has its slash already, is found, and `AnalyzeArchive` strips double
quotes only, so that a path in back quotes is not found either.  `OnlyAnalysedCode` is
therefore about which code reaches the compiler, and takes the comparison as it is.
`Accepted` is `AnalyzeArchive`.  `Prepared` is the set of tarballs
`PrepareSourceArchive` may produce: Go iterates over a map in any order, so which
of two files of one base name survives, and which entry point the driver calls, are
choices.

`art` is the table, `source` the one object all artifacts of a suite are built
from, `binary` the objects, `job` the Job whose name is a function of the
artifact.  `request` and `builder` are handlers and goroutines between two steps,
with the copy they will save.  `Trigger` analyses and uploads, `List` chooses
artifacts to reuse (an open or failed one of the platform) or to create, `Stage`
saves them one by one, `StartBuilds` spawns the goroutines; `CancelBuild`,
`Retry` and `DeleteArtifact` read, then act and save.  A goroutine is
`FindArtifact`, `SaveBuilding`, `PruneStaleJob`, `CreateJob`, `WaitSucceeded` or
`WaitFailed`, `SaveOutcome`; every call of it may fail (`Fault`).  `WaitForJob`
polls the name, so that a goroutine may see another build's Job.  Job controller,
TTL, the bucket's lifecycle rule and the restart are the environment.

### 2.5 Retention

`sweep[s]` is one call of `RunHousekeeping`, and `Sweepers` are those that may be
under way at once: the one 30 s after the start has a goroutine of its own, the
ticker's runs in the worker's loop, and an administrator may ask for more.
A sweep is five phases, each a query and then one row after the other: object
first, row second.  Every cutoff comes from the instant the sweep started, so
`due` is fixed at `StartSweep`, the listing in `ListPhase` is taken later, and the
copies of artifacts are kept until each is handled.  Ages are units that grow on
their own.  `StartRun` and `FinishRun` are a run as far as the sweep sees it (a completed run
names its report and log, a failed one its log, an aborted one nothing); the
details are `RunLifecycle`'s.  A phase without a row past the cutoff is
skipped: its query returns nothing.

### 2.6 Catalog

One suite, one runner profile; `config` and `yaml` are a configuration's row and
object, `schedule` and `cronjob` a schedule's row and CronJob.  `edit` is a
request between two calls.  `CreateSchedule` .. `SaveProfile` are the services'
calls in their order, each with its failure, and `RestartCatalog` loses all
requests.  Foreign keys, cascades and the unique name of a configuration are in `References`,
`CanSave`, `DeleteConfigRow` and `DeleteSuite`.

`apart` is history: what two overlapping requests, a failure after the first
half was done, a restart or the suite's deletion may have set apart.  The code
repairs none of these; the two properties are about everything else, which is
what a failure at the *first* half and the rollback must keep.

### 2.7 Partition

`partitionValue`, `PartitionScenario` and `PartitionForWorker` with the fields
that each type of scenario divides.  The environment overrides per worker are
left out.

### 2.8 EventStream

`subs` is the hub's map, `client` one call of `Handler.Events` with its channel,
its `sync.Once` and where its `unsubscribe` is; `poller` is the poller's goroutine in
the middle of `PollOnce` or of a broadcast; `closer` is `Hub.Close`.  One critical
section, one channel operation or one call of the control plane is one action.
`Announce` records the change and takes the snapshot, `Send` is one non-blocking send
of it, outside the lock.  `Unsubscribe`, `Remove` and `Unsubscribed` are
`unsubscribe` in its three parts, as the `Once` is taken, the lock is taken and the
channel closed.  `panicked` is what the process died of; nothing moves after it.

The three lists of a poll are one step, each answered or not.  `view` and `lost`
are history: what a client was told, and whether its buffer was full once.

### 2.9 Sessions

A session's tokens are a generation; `staleUpTo` is the last one whose access
token runs out within the minute that triggers a refresh; `age` is what `GetSession` compares.  `Begin` is a request with
the cookie; `Get`, `Touch`, `RefreshToken`, `RefreshRefused`, `Revoke`,
`RotateGet`, `Rotate`, `RevokeToken`, `Serve` are its calls in turn, each on the
copy it read.  `ExchangeCode` and `CreateSession` are the login callback,
`Backchannel` the logout token with the key it is verified against,
`DeleteExpired` the cleaner.

A row has the user session of its tokens (`user`) and the column the back-channel
looks for (`sid`), which is empty when the login's tokens had no such claim.  `told`
is what became of a logout token: refused (400, or never arrived), answered 200
once `RevokeByKeycloakSID` was done (`revoked`), or answered 200 without it
(`ok`): the token names no sid, or the revocation failed, which the handler logs
and passes over.  `raced` are the sessions on which two requests overlapped,
`crossed` those whose login was under way when the user session ended.  Requests
take the free slots in order (`NextSlot`); slots are no state of the program.

Keycloak is external: user sessions, refresh
tokens good for one use or for many (`OneTimeRefresh`), a signing key that
rotates.  PKCE, the other claims and cookies are values no property tells apart.

### 2.10 Breaker

gobreaker's state machine is a library's and modelled from how it is
configured: `ReadyToTrip`, `MaxRequests`, no `Interval`.  Ours is who asks (`Allow`,
and the proxy's `LookFirst`), what is retried (`Retry`), and that each call is
reported once (`Answered`, `Fails`, `HangsUp`).  `awaited` names the callers whose
answer counts: gobreaker drops the answer of an older generation.

## 3. Runs

| Run | Shows |
|---|---|
| `races` | one run, manual or scheduled, two requests at once, reports that pass and that fail: a row has a cause, mixes no outcomes, aborts kill, quiet rows are final, deleted rows stay deleted; and the inductive invariant |
| `faults` | the same with a transient fault at any call and a server restart, one request at a time; every run ends |
| `rendezvous` | five pods of which three are counted, two replicas, a restart: the barrier's invariants and `Rendezvous` |
| `settles` | three pods, all counted, two replicas, a restart: every wait ends, two pods at a time included; and one pod with two failed calls and both signals at any point: whole files, a report for every started test, `PodPromise` |
| `sweeps` | a build, one run, two sweeps at once or one fault or restart: a binary key is a READY artifact's, no row goes before its report |
| `controlplane` | two requests and two goroutines on one artifact with every kind of archive; READY was built, builds settle; two editors and one failure or restart on the catalogue; 8 loads over 1 to 4 workers |
| `bff` | two streams, the poller and the shutdown; a session under two requests, logouts, cleaner, rotations, one failed call; a breaker under three callers, two outages, a hang-up |
| `abort` | refutes "permanently marked ABORTED" |
| `noreport` | refutes "missing summary reports are flagged as FAILED" |
| `scheduled` | refutes "tracked identically to an ad-hoc run" |
| `leftbehind` | refutes "all workers must begin generating traffic at the exact same instant" |
| `panic` | refutes "thread-safe event fan-out" |

What each property says is above its definition.  Some exclude what the code
plainly allows; these exclusions are listed in section 6.

Bounds.
- `races`, `faults`: `Runs` has one element: no action touches two runs, and no
  property relates two.  They meet only in the watcher, one goroutine, which
  fairness covers (below).  Two `Clients` give every pair of requests that overlap,
  plus the watcher and the pod: four actors on one row.  `ClientSymmetry` is used
  where nothing temporal but action properties is checked.  `MaxFaults = 1` and
  `MaxRestarts = 1` with one client put one failure at every point of every
  sequence of requests; two clients and a fault together exceed what a run can
  afford.  `Documents`: `fail` and `fallback` differ only for `NoReportMeansFailed`,
  and `bad` takes the branch of a report that was never uploaded, which every run
  has.  The proofs have none of these bounds.
- `rendezvous`: five pods with `Total = 3` are as many as `BarrierAssumption`
  allows: two sessions can have three pods and two, or one session a late pod and
  more; two replicas and a restart give three sessions.
- `settles` is checked without symmetry, which is unsound for liveness.
  `MaxMishaps = 2` is one failure of the init container or the wrapper and one of an
  upload after it; the proofs have no bound.
- `sweeps`: one artifact, one run, one client, one goroutine and two sweeps: a build or
  its retry beside a sweep that listed the row before and another that lists it
  after; one fault; `MaxAge = 1`, as two ages, young and past every cutoff, are all a
  sweep tells apart; two policies, one that prunes and one that archives only.  The
  archive is one that passes.  `SweepersAlike`: sweeps have no names, and nothing
  temporal is checked.  `FaultsMeetOneSweep`: after a fault one sweep at a time
  goes on, so that a fault is met by every step of one sweep and two sweeps meet in
  every order without it; a restart ends both.  Two goroutines beside two sweeps
  exceed what a run can afford: two builds of one artifact are in `controlplane`.  The
  proofs have any number of sweeps, goroutines and faults together.
- `controlplane`: one artifact with one target is where builds collide; two clients
  and two goroutines are a retry beside a cancel beside a trigger.
  `MaxFaults = 0` there, the premise of `BuildsSettle`; one fault or restart is in
  `sweeps`, and `ReadyRowsWereBuilt` has any number.  The archives are one that passes, with a test file
  and two files of one base name, and one for each way to be refused.
  Catalogue: one schedule and one configuration, two contents so that a half-done
  change can be told, two editors, `MaxHiccups = 1`.  Names and expressions are
  one each: a save that is refused for its name, or for a suite or profile that went, is
  in the proofs with any number of them.
  Partition: loads absent, negative, zero, below, at and above the
  number of workers.
- `bff`: two stream clients are one that is slow or leaves and one that must not
  suffer from it; `BufferSize = 1` and two changes fill a buffer.  One session with two requests,
  `MaxGen = 2` (one refresh), `MaxKey = 2` (one rotation), one failed call.  The key cache
  starts with the first key, as after an earlier logout token, so that the rotation
  finds it stale; the proofs start from an empty one too.
  The breaker: a poller, a client and a proxied caller, trips at two, `MaxCounts = 4`
  calls of one closed period, so that it trips with a success among them.

Deadlock is checked in `sweeps`, where a sweep may always start again.  Elsewhere the system may stop: all runs have ended, all pods left, all
identifiers of a bounded supply been used, the suite been deleted, the
streams been drained after a shutdown.

Fairness.
- `RunLifecycle`: a handler that was accepted takes its next step (weak: the
  goroutine runs, nothing disables the step); Kubernetes runs an admitted pod
  and ends its Job; the wrapper uploads and calls back; the informer
  resyncs every ten minutes.  `SyncJob` of one run is strongly fair, because
  the watcher is busy with other events now and then and the queue is first
  come, first served.  No fairness is given to requests of users, faults,
  restarts, deletions, or CronJobs.
- `StartBarrier`: a ready case of a select is taken, a sleeping pod wakes.
  `TimerFires` is among those cases: each waiter has its own `time.After`.
- `PodFairness`: the processes of a scheduled pod run; the signal's goroutine
  forwards; the injected driver heeds SIGTERM; a running test meets the Job's
  deadline (`activeDeadlineSeconds` always has a value above 0).  None for scheduling, the test's own end or
  SIGKILL.
- `BuildFairness`: requests and goroutines under way go on; a Job that uploaded or
  not ends, by `activeDeadlineSeconds` at the latest.  None for uploads, faults
  or requests.
- `StreamFairness`: the handler, the goroutine of `unsubscribe` and `Close` run.
  None for the poller, changes, or clients that come and leave.
- `SessionFairness`: time passes, the cleaner's ticker fires, a request that was begun
  is handled.  None for anybody who would have to log in, come back or log out, and
  none for the back-channel message.
- `BreakerFairness`: the open timeout is over some day; a call that was sent ends
  (the HTTP client has a timeout); the poller calls every few seconds; the proxy
  goes on from its look.

## 4. Findings

1. **Abort is not permanent** (`abort`).  `docs/cookbook.md:1022`.  `TriggerRun`
   saves a second copy after `DispatchJob` (`run_service.go:187`), and the
   callback and the watcher save copies too; each was read before the abort and
   overwrites it.
2. **A missing report may pass** (`noreport`).  `ARCHITECTURE_SPEC.md:198`.  The
   wrapper replaces a missing `summary.json` by a document that parses, so the run
   is COMPLETED; and `SyncJob` completes a run without looking at a report.
3. **Scheduled runs are not tracked alike** (`scheduled`).
   `ARCHITECTURE_SPEC.md:208`.  `HandleJobDeletion` needs the run-id label, which
   a CronJob's Job does not carry: such a run stays RUNNING when its Job is
   deleted.
4. **Pods start without each other** (`leftbehind`).  `docs/cookbook.md:898`.  A
   pod that has left `Await` is still READY and counted.  The default timeout
   of the barrier is 60 s and the server's write timeout 30 s
   (`src/cmd/server/main.go:522`).
5. **A broadcast may panic** (`panic`).  `bff/adapters/outbound/eventhub/hub.go:30`.
   `Broadcast` copies the subscribers under the lock and sends outside it;
   `unsubscribe` and `Close` close the channel without waiting for it.

What the models show to be right is as important: in spite of all races no row
mixes outcomes, no outcome is without a cause, nothing changes a run at rest,
split sessions never yield two start instants; whatever goes over an artifact's
row, READY is true; no half-fetched file is run; a session that was ended is never
written again; no channel is closed twice; no probe of the breaker leaks.

## 5. Proofs

Everything is checked by TLAPS for every value of the constants, from the
`ASSUME`s of the modules only.

| Theorem | For every number of runs, requests, faults, restarts, pods, replicas, editors, clients, callers |
|---|---|
| `TypeCorrect`, `Inductive` | `RunLifecycle` is well typed; its inductive invariant |
| `OutcomesHaveCauses`, `NoMixedOutcomes`, `AbortsKill` | the three invariants of the runs |
| `QuietRunsAreFinal`, `DeletedRunsStayDeleted` | their two action properties: a run at rest is final, a deleted one stays deleted |
| `BarrierTypeCorrect`, `BarrierInductive` | the same of the barrier |
| `AnswersCountArrivals`, `OneStartInstant`, `TimeoutsReleaseNobody` | its invariants |
| `BarrierKeepsPromise` | `StartBarrier` implements `Rendezvous` |
| `TestsRunOnWholeFiles` | the pod's invariant |
| `PodsKeepTheirPromise` | `RunnerPod` implements `PodPromise` |
| `SchedulesAreMirrored`, `ConfigsHaveObjects` | the catalogue's invariants |
| `EndedSessionsServeNobody`, `DeletedRowsStayDeleted` | an ended session serves nobody, and no copy revives it |
| `QuietSessionsHaveLatestTokens`, `LogoutTokensEndSessions` | one request's refresh loses no tokens; no logout token is refused without a failed call, and one whose revocation was done leaves no session with its sid |
| `StreamTypeCorrect`, `RegisteredChannelsAreOpen`, `ChannelsCloseOnce` | the event stream's channels |
| `ClientsStayCurrent` | a client that was not dropped is told every change |
| `CallsAreCountedOnce` | the breaker |
| `SlicesCoverLoad`, `PartsAreEven`, `PartitionAddsUp`, `SharesMakeUpLoads` | the division of a load: slices, evenness, the sum over a whole configuration, and the property as the run checks it |
| `BuildTypes`, `BuildInvariant`, `SourceInvariant` | `ArtifactBuild` is well typed; its inductive invariants |
| `BinaryKeysMeanReady`, `ReadyRowsWereBuilt`, `CompiledCodeIsAnalysed` | the invariants of the builds |
| `RetentionTypes`, `RetentionInvariant` | `Retention` is well typed; its inductive invariant, with the builds' |
| `ReportsAreNamed`, `SweepsKeepRowsHonest`, `SweepsCompileAnalysedCode` | the invariants of any number of sweeps at once beside builds and runs |
| `ControlPlaneComposes`, `BffComposes`, `RunnerComposes` | each composition implements its parts |
| `ControlPlaneAtRest`, `BffCountsCallsOnce`, `RunnerKeepsPromises` | properties of the parts, of the compositions the runs check |

**RunLifecycle.**  The invariants speak of rows, but a row is replaced by a copy
that was read long before.  So `IndInv` asks of every copy in a handler what the
invariants ask of the row (`Sound`: `Explained`, `Coherent`, `Killed`).  A copy
stays sound while it waits because everything it rests on only grows: the phases
of a Job, refused dispatches, faults; the report is written once (`Stable`,
lemmas `StepStable`, `SoundStays`).  What remains is that each handler turns a sound copy
into a sound one (`ReflectSound`, `IngestSound`, `LinkSound`, `KillSound`), and
`InOrder`, the order in which Job, pod, report and callback come.

The action properties need one fact more, `IssuedInv`: the identifier of a
manual run that has a row or a handler was handed out.  Every step of a client takes a run on,
goes on with it or ends (`TakesOn`, `GoesOn`, `Ends`), and none of the three takes
up a copy of a run that is `Quiet`: the handlers check `IsTerminal` on what they
read.  A watcher's step starts from what it read in the same step or from the
copy it holds, and creates rows for scheduled runs only.

**StartBarrier.**  Two sets of `Total` pods out of fewer than `2 * Total` meet
(`QuorumsMeet`).  A pod comes to the barrier once and one session at most
counts it (`CountedOnce`), so two releases cannot both have enough; and what a
session counts without releasing, no release has counted (`SessionOK`).  That is
why a restart, a second replica or a late timer yields no second instant.
The refinement maps `Await` to an arrival, `Begin` to a start and the rest to
stuttering; an instant is fixed when `Begin` happens because the counted pods are
still in `Arrived`.

**RunnerPod.**  `PodInv` adds to the types which files are there at each step
(`Fetched`) and in which order child, summary and callback come (`InTurn`).  The
refinement maps every step of the init container, the rendezvous and the signals to stuttering,
`ChildEnds` and `ChildStops` to `TestEnds`, `UploadReport` to `Uploads`, `SendCallback`
to `Posts`, `Exits` to `Ends`, and each early end to `Dies`.

**Catalog.**  `QuietScheduleIsMirrored` is about rest; the proof needs what holds
under way.  For each schedule and each configuration that is not `apart` at most one
request is in flight, and the invariant states, for each step that request may
be at, how far row and CronJob (or object) are and what its copy says of them.
Identifiers are fresh, so a row that does not exist has no other half either.

**Sessions.**  Each login has a row once (`login`), each update needs the row
to exist, and a request that is `late` began after the deletion: it can only be at
`get`, where it finds nothing.  So no step brings it near `answer`.
For the tokens the invariant tells, for a session no two requests overlapped on, who has the
latest generation (`TokensOK`): its row, or the one request on its way from Keycloak's
answer to `Rotate`; and a `Touch` carries the latest, as it read the row after it.
For logout tokens, a user session whose message was sent is `Settled`: it has no login under
way but crossed ones.  A copy's `sid` is its row's, so writing it back brings no ended one
to life after a revocation.  The other half of `LogoutTokenEndsSessions` is arithmetic of
keys: what Keycloak signed with is never newer than what it publishes.

**EventStream.**  Whoever is in `subs` has an open channel and has not been through
`Remove`; who holds the `Once` is at one place, `unsubscribe` or `Close`, and the
channel is open until that one closes it.
`ClientsStayCurrent`: for each item the last word on its way (in the poller's hand,
else the last event in the buffer, else what was received) is what the poller
saw.  `Append` at the back and `Tail` at the front keep that word (`DrainsAppend`,
`DrainsTail`); only an overflow loses one, and then the client is `lost`.

**Breaker.**  Each caller that was sent is awaited by at most one generation,
which is exactly the set the counts lack.

**Builds.**  Requests and goroutines write back copies, and any row may have been
overwritten since.  `RowsInv` therefore relates no copy to its row.  It says what each
is worth by itself: a key only with READY, READY only if a Job of the artifact
succeeded (`Sound`), and a copy neither until its goroutine saw its Job succeed
(`Unfinished`).  A late save of such a copy writes an honest row, which is all
that is claimed.  `SourceInv` is apart: an upload replaces the source by files that
passed the analyser, whatever archive is there (`PreparedIsAnalysed`).

**Retention.**  `due` is listed when a sweep begins and acted upon much later.  What is
to be pruned is among the runs whose reports are to be purged (`SweepShape`, under policies
that keep rows at least as long as reports: `RowsOutliveReports`), the phases come in order (`EnterPhase`), and
a report that the report phase has not handled is still in its list
(`ReportsPurged`).  So without faults a row is pruned after its report.  Runs that
end during a sweep are in no list: only a finished run grows old (`RunOK`).
All this is said of each sweep by itself.  A sweep's step changes its own entry
only (`OneSweepMoves`, `OnlySweepMoves`), and to the others it does no harm, as
objects only go (`FewerReportsPurged`) and ages only grow: why sweeps that
overlap need no lock.

**Partition.**  The parts are consecutive slices of the load (`PartIsSlice`,
`SlicesCoverLoad`), by arithmetic on quotient and remainder.  `Together` is a recursive
function over the workers: the slices' offsets solve its equation, and two
solutions would differ first at some worker, where they do not
(`TogetherIsOffset`).  Hence `PartitionAddsUp`: `SharesOf`, the body of `SharesAddUp`,
for every configuration and number of workers.

**The compositions.**  A step of one part leaves the variables of the others alone, so
each `[Next]` of a composition is a step or a stutter of every part; fairness is the
parts' own.  The breaker of `MCBff` alone starts elsewhere when it is not looked
at, in the middle of a closed period: `BffCountsCallsOnce` finds the invariant there too.

**Only model-checked.**  Liveness (`LiveJobDecidesRun`, `DeletedJobEndsRun`,
`EveryPodSettles`, `StartedTestIsReported`, `BuildsSettle`, `EveryStreamEnds`,
`EndedSessionsGo`, `BreakerClosesAgain`) is out of the prover's reach.  Every
invariant and every action property of the passing runs is a theorem.

## 6. What is not modelled, and what the models leave open

Not modelled, and why.
- Secrets: one row each around encryption.  `TriggerRun` hands no secret, worker
  count, barrier or environment to `RunnerJobOptions`, so nothing else depends on them.
- The template resolver: text.  `RunnerPod` has its outcome.  A
  `${secrets.X}` of an optional Secret that is missing stays in the file.
- Manifest generation, REST, authentication and S3: input and output.  What
  decides behaviour (labels, deadlines, backoff, volumes, what a failed call leaves)
  is in the models of those who use it.
- CLI and UI: sequential clients of the API.
- `BuildSuite` and `WorkloadPartitioner` have no caller.  The partitioner's
  arithmetic is modelled; its per-worker environment overrides are not.
- The step from a static analyser's file to text: the driver's source is left out but for its
  reaction to signals.
- `MaxBarrierWorkers`, above which
  `NewBarrierSession` returns nil and its dropped error makes `Await` panic.

What the code allows, the models show, and no text of the repository denies; the
properties above exclude it by name.
- A cancelled build is overwritten by the goroutine it cancelled, with FAILED, or with
  READY when the Job ended first; a READY row by the FAILED of a second
  goroutine on it.  After a restart an artifact stays BUILDING.
- All builds of a suite share one source object: a second upload replaces
  what a build that was triggered before will compile.
- A policy may prune rows before it purges their reports, if one of the two TTLs is 0 or
  the policy is the global one merged with a suite's, which nothing validates.
  `ReportsHaveARow` is about the others (`RowsOutliveReports`).  A TTL of 0 prunes every run
  that has ended; here a text does say otherwise: `deploy/helm/vuhive-cloud/README.md:961`,
  "`0` disables run pruning".  The TTLs in the body of a sweep asked for by hand are
  not read.  The queries stop at 500 rows, in the order of `created_at`; the model has no such limit.
- A sweep deletes an orphan by its id although it was retried since it was listed;
  deletes the binary of an artifact whose row a foreign key then keeps; purges at once
  the binary of an artifact that was retried long after it was created.  The bucket's
  lifecycle rule expires binaries that are in use.  A report that a failed or aborted
  run uploaded is named by no row, and no phase removes it.
- An upsert revives a suite or artifact that was deleted between the read and the save.
- `DeleteConfig` leaves CronJobs with the key of an object that is gone;
  deleting a suite leaves its CronJobs and objects; schedules of an archived suite
  go on.  A CronJob whose deletion failed fires on without a row.
- The analyser accepts imports below `debug/` and any disallowed import written in back
  quotes (`static_analyzer.go:38`, 161, 454).
- `EventStream` leaves out `RetryBuild`, which takes an artifact of the same id from its end
  back to PENDING: a status there only moves on.
- The poller's list of the 20 newest runs misses the end of an older run; a client whose buffer
  was full is not told again.
- A network error at a refresh revokes the session, and so does the second of two
  refreshes with a token that is good for one use.  A request that slides a session writes
  back the tokens it read, over those an overlapping request rotated meanwhile.
- The back-channel handler answers 200 although `RevokeByKeycloakSID` failed
  (`auth_handler.go:325`) or the token names no sid, and no logout token finds a session
  that was created without one.  Such sessions live until their tokens are refused or
  they expire (`EndedSessionsGo`).  A login under way when the user's
  session ends gets a session of its own until its tokens go stale.
- A test that cannot be started posts no callback; a SIGTERM before
  `Notify` uploads nothing; the watcher then ends the run.
- A run that was saved but not dispatched when the server died stays QUEUED; a
  Job deleted while the server is down leaves its run RUNNING.
