--------------------------- MODULE ArtifactBuild ---------------------------
(***************************************************************************)
(* Compilation of a suite's artifacts: BuildService and BuildOrchestrator. *)
(*                                                                         *)
(* A request uploads the source archive and starts one goroutine per       *)
(* artifact; the goroutine drives the builder Job, whose name is a         *)
(* function of the artifact, and writes the outcome to the artifacts row.  *)
(* Requests and goroutines read the row, change the aggregate in memory    *)
(* and write the WHOLE row back, with no lock and no version; the only     *)
(* thing two builds of one artifact share is the name of the Job.          *)
(***************************************************************************)
EXTENDS SourceAnalysis, Sequences, Functions

CONSTANTS
  NArtifacts,   \* bound: artifact rows ever created
  Platforms,    \* the build targets, in the order they are handled
  Archives,     \* the source archives clients upload
  Clients,      \* REST requests served at the same time
  NBuilders,    \* bound: build goroutines alive at the same time
  MaxFaults     \* bound: transient faults of PostgreSQL, Kubernetes or S3, and
                \* restarts of the server

ASSUME BuildAssumption ==
  /\ NArtifacts \in Nat \ {0} /\ NBuilders \in Nat
  /\ Platforms \in Seq(STRING) /\ Archives \subseteq Archive
  /\ MaxFaults \in Nat

Artifacts == 1 .. NArtifacts     \* numbered by created_at
Builders  == 1 .. NBuilders

VARIABLES
  art,        \* [Artifacts -> Row]: table artifacts
  issued,     \* identifiers handed out by NewArtifact
  source,     \* the prepared archive at the suite's one source key
  binary,     \* artifacts whose binary object is in the bucket
  job,        \* [Artifacts -> JobState]: the Job vuhive-build-<artifact>
  built,      \* history: artifacts one of whose Jobs has succeeded
  request,    \* [Clients -> Request]: REST requests in flight
  builder,    \* [Builders -> Builder]: build goroutines
  faults      \* transient faults and restarts so far

rows    == <<art, issued>>
bucket  == <<source, binary>>
cluster == <<job, built>>
buildVars == <<art, issued, source, binary, job, built, request, builder,
               faults>>

-----------------------------------------------------------------------------
(* The aggregate: domain/model/artifact.go *)

Status == {"NONE", "PENDING", "BUILDING", "READY", "FAILED", "CANCELLED"}
Row == [status: Status,                 \* NONE: no such row
        platform: Range(Platforms) \cup {"none"},
        key: BOOLEAN]                   \* s3_binary_key is set
NoRow == [status |-> "NONE", platform |-> "none", key |-> FALSE]

NewArtifact(p) == [NoRow EXCEPT !.status = "PENDING", !.platform = p]
IsOpen(r)      == r.status \in {"PENDING", "BUILDING"}
CanMarkBuilding(r) == r.status = "PENDING"

\* Mutant: the key is recorded when the build starts.
MarkBuildingWithKey(r) == [r EXCEPT !.status = "BUILDING", !.key = TRUE]

MarkBuilding(r)     == [r EXCEPT !.status = "BUILDING"]
MarkReady(r)        == [r EXCEPT !.status = "READY", !.key = TRUE]
MarkFailed(r)       == [r EXCEPT !.status = "FAILED"]
Cancel(r)           == [r EXCEPT !.status = "CANCELLED"]
CanRetry(r)         == r.status \in {"FAILED", "CANCELLED"}
RetryBuild(r)       == [r EXCEPT !.status = "PENDING"]

\* Save: the upsert of every column; it brings a deleted row back.
Save(a, r) == art' = [art EXCEPT ![a] = r]

NoFile   == [dir |-> "", base |-> "data.csv", package |-> "n/a", main |-> FALSE,
             imports |-> {}, contract |-> "none"]
NoSource == [files |-> {}, entry |-> NoFile]
Source   == [files: SUBSET File, entry: File]

-----------------------------------------------------------------------------
(* Requests and goroutines in flight                                       *)

JobState == {"none", "active", "uploaded", "succeeded", "failed"}
NoArtifact == 0

Idle == [pc |-> "idle", art |-> NoArtifact, copy |-> NoRow,
         plan |-> {}, start |-> {}, todo |-> {}]
Request == [pc: {"idle", "list", "stage", "spawn", "kill", "cancelSave",
                 "retrySave", "deleteObjects", "deleteRow"},
            art: Artifacts \cup {NoArtifact},
            copy: Row,
            plan: SUBSET [at: DOMAIN Platforms, art: Artifacts, row: Row],
                                             \* rows the trigger has yet to save
            start: SUBSET Artifacts,         \* artifacts it will build
            todo: SUBSET Range(Platforms)]   \* platforms it was asked for

Asleep  == [pc |-> "idle", art |-> NoArtifact, copy |-> NoRow]
Builder == [pc: {"idle", "find", "mark", "prune", "create", "wait", "outcome"},
            art: Artifacts \cup {NoArtifact},
            copy: Row]

Free      == {b \in Builders : builder[b].pc = "idle"}
Lowest(S) == CHOOSE x \in S : \A y \in S : x <= y

\* go func() { BuildArtifactWithOptions(..) }() for every artifact of S.
\* The slots are filled in order: they are no state of the program.
Spawn(S) ==
  /\ Cardinality(S) <= Cardinality(Free)
  /\ LET slot == [a \in S |-> CHOOSE b \in Free :
                    Cardinality({f \in Free : f < b}) =
                    Cardinality({x \in S : x < a})]
     IN builder' = [b \in Builders |->
          IF \E a \in S : slot[a] = b
          THEN [pc |-> "find", copy |-> NoRow,
                art |-> CHOOSE a \in S : slot[a] = b]
          ELSE builder[b]]

\* A call to PostgreSQL, Kubernetes or S3 fails, or its context is cancelled.
Fault == faults < MaxFaults /\ faults' = faults + 1

InitBuild ==
  /\ art = [a \in Artifacts |-> NoRow] /\ issued = 0
  /\ source = NoSource /\ binary = {}
  /\ job = [a \in Artifacts |-> "none"] /\ built = {}
  /\ request = [c \in Clients |-> Idle]
  /\ builder = [b \in Builders |-> Asleep]
  /\ faults = 0

-----------------------------------------------------------------------------
(* TriggerBuildWithOptions                                                 *)

Answer(c) == request' = [request EXCEPT ![c] = Idle]

\* Mutant: the archive is uploaded as it came, before it is analysed.
UploadFirst(c, ps, ar, insecure) ==
  /\ request[c].pc = "idle"
  /\ issued + Cardinality(ps) <= NArtifacts       \* bound
  /\ source' = [files |-> ar.files, entry |-> NoFile]
  /\ request' = [request EXCEPT ![c] = [Idle EXCEPT !.pc = "list", !.todo = ps]]
  /\ UNCHANGED <<rows, binary, cluster, builder, faults>>

\* The suite exists and the analyser accepts the archive (a refusal changes
\* nothing); the prepared archive goes to the suite's only source key. ps:
\* the one platform asked for, or all.
Trigger(c, ps, ar, insecure) ==
  /\ request[c].pc = "idle"
  /\ issued + Cardinality(ps) <= NArtifacts       \* bound
  /\ Accepted(ar, insecure)
  /\ source' \in Prepared(ar)
  /\ request' = [request EXCEPT ![c] = [Idle EXCEPT !.pc = "list", !.todo = ps]]
  /\ UNCHANGED <<rows, binary, cluster, builder, faults>>

\* The rows of platform p that are not READY; the oldest is built again.
Reusable(p) == {a \in Artifacts : /\ art[a].platform = p
                                  /\ art[a].status \notin {"NONE", "READY"}}

\* What ListBySuiteID found, turned into the rows to save and the artifacts to
\* build, the platforms in order. A PENDING, BUILDING or CANCELLED artifact is
\* taken as it is.
List(c) ==
  LET asked == {i \in DOMAIN Platforms : Platforms[i] \in request[c].todo}
      new   == {i \in asked : Reusable(Platforms[i]) = {}}
      id    == [i \in asked |->
                  IF i \in new THEN issued + Cardinality({j \in new : j <= i})
                  ELSE Lowest(Reusable(Platforms[i]))]
      again == {i \in asked \ new : art[id[i]].status = "FAILED"}
      row   == [i \in new \cup again |->
                  IF i \in new THEN NewArtifact(Platforms[i])
                  ELSE RetryBuild(art[id[i]])]
  IN
  /\ request[c].pc = "list"
  /\ issued + Cardinality(new) <= NArtifacts      \* bound
  /\ issued' = issued + Cardinality(new)
  /\ request' = [request EXCEPT ![c] =
       [Idle EXCEPT !.pc = IF new \cup again = {} THEN "spawn" ELSE "stage",
                    !.plan = {[at |-> i, art |-> id[i], row |-> row[i]] :
                                i \in new \cup again},
                    !.start = {id[i] : i \in asked}]]
  /\ UNCHANGED <<art, bucket, cluster, builder, faults>>

\* One Save of the loop over the platforms.
Stage(c) ==
  /\ request[c].pc = "stage"
  /\ \E e \in request[c].plan :
       /\ \A f \in request[c].plan : e.at <= f.at
       /\ Save(e.art, e.row)
       /\ request' = [request EXCEPT ![c].plan = @ \ {e},
            ![c].pc = IF request[c].plan = {e} THEN "spawn" ELSE "stage"]
  /\ UNCHANGED <<issued, bucket, cluster, builder, faults>>

\* The Save fails: the request ends before any goroutine is started.
StageFails(c) ==
  /\ request[c].pc = "stage"
  /\ Fault /\ Answer(c)
  /\ UNCHANGED <<rows, bucket, cluster, builder>>

StartBuilds(c) ==
  /\ request[c].pc = "spawn"
  /\ Spawn(request[c].start) /\ Answer(c)
  /\ UNCHANGED <<rows, bucket, cluster, faults>>

-----------------------------------------------------------------------------
(* CancelBuild, RetryBuild, DeleteArtifact: read, act, write back          *)

Read(c, a, pc, copy) ==
  /\ request[c].pc = "idle"
  /\ request' = [request EXCEPT ![c] =
       [Idle EXCEPT !.pc = pc, !.art = a, !.copy = copy]]
  /\ UNCHANGED <<rows, bucket, cluster, builder, faults>>

CancelBuild(c, a) == IsOpen(art[a]) /\ Read(c, a, "kill", Cancel(art[a]))

\* Background deletion: the pod may still upload in its grace period.
DeleteJob(a) ==
  /\ job' = [job EXCEPT ![a] = "none"]
  /\ \/ UNCHANGED binary
     \/ job[a] = "active" /\ binary' = binary \cup {a}
  /\ UNCHANGED <<source, built>>

\* Errors of DeleteJob are logged and ignored.
CancelKill(c) ==
  /\ request[c].pc = "kill"
  /\ request' = [request EXCEPT ![c].pc = "cancelSave"]
  /\ \/ DeleteJob(request[c].art) /\ UNCHANGED faults
     \/ Fault /\ UNCHANGED <<cluster, bucket>>
  /\ UNCHANGED <<rows, builder>>

CancelSave(c) ==
  /\ request[c].pc = "cancelSave"
  /\ Answer(c)
  /\ \/ Save(request[c].art, request[c].copy) /\ UNCHANGED faults
     \/ Fault /\ UNCHANGED art
  /\ UNCHANGED <<issued, bucket, cluster, builder>>

Retry(c, a) ==
  /\ CanRetry(art[a]) /\ source # NoSource
  /\ Read(c, a, "retrySave", RetryBuild(art[a]))

RetrySave(c) ==
  /\ request[c].pc = "retrySave"
  /\ Answer(c)
  /\ \/ /\ Save(request[c].art, request[c].copy)
        /\ Spawn({request[c].art}) /\ UNCHANGED faults
     \/ Fault /\ UNCHANGED <<art, builder>>
  /\ UNCHANGED <<issued, bucket, cluster>>

DeleteArtifact(c, a) ==
  /\ art[a].status \notin {"NONE", "BUILDING"}
  /\ Read(c, a, "deleteObjects", art[a])

\* Delete the objects the copy names; errors are logged and ignored.
DeleteObjects(a, copy) ==
  /\ binary' = IF copy.key THEN binary \ {a} ELSE binary
  /\ UNCHANGED source

DeleteArtifactObjects(c) ==
  /\ request[c].pc = "deleteObjects"
  /\ request' = [request EXCEPT ![c].pc = "deleteRow"]
  /\ \/ DeleteObjects(request[c].art, request[c].copy) /\ UNCHANGED faults
     \/ Fault /\ UNCHANGED bucket
  /\ UNCHANGED <<rows, cluster, builder>>

\* artifactRepo.Delete; the foreign keys RESTRICT it while a run or a
\* schedule uses the artifact: the objects are already gone then.
DeleteArtifactRow(c, referenced) ==
  /\ request[c].pc = "deleteRow"
  /\ Answer(c)
  /\ \/ /\ ~referenced /\ UNCHANGED faults
        /\ Save(request[c].art, NoRow)
     \/ referenced /\ UNCHANGED <<art, faults>>
     \/ Fault /\ UNCHANGED art
  /\ UNCHANGED <<issued, bucket, cluster, builder>>

-----------------------------------------------------------------------------
(* BuildArtifactWithOptions, one goroutine                                 *)

Go(b, pc, copy) == builder' = [builder EXCEPT ![b].pc = pc, ![b].copy = copy]
Done(b)         == builder' = [builder EXCEPT ![b] = Asleep]

\* FindByID, Exists(source) and MarkBuilding, all on the copy.
FindArtifact(b) ==
  /\ builder[b].pc = "find"
  /\ LET r == art[builder[b].art] IN
     \/ /\ CanMarkBuilding(r) /\ source # NoSource
        /\ Go(b, "mark", MarkBuilding(r)) /\ UNCHANGED faults
     \/ /\ ~(CanMarkBuilding(r) /\ source # NoSource)
        /\ Done(b) /\ UNCHANGED faults
     \/ Fault /\ Done(b)
  /\ UNCHANGED <<rows, bucket, cluster, request>>

SaveBuilding(b) ==
  /\ builder[b].pc = "mark"
  /\ \/ /\ Save(builder[b].art, builder[b].copy)
        /\ Go(b, "prune", builder[b].copy) /\ UNCHANGED faults
     \/ Fault /\ Done(b) /\ UNCHANGED art
  /\ UNCHANGED <<issued, bucket, cluster, request>>

\* Presigning fails: the row is left BUILDING.
PresignFails(b) ==
  /\ builder[b].pc = "prune"
  /\ Fault /\ Done(b)
  /\ UNCHANGED <<rows, bucket, cluster, request>>

\* DispatchBuildJob, first half: delete a Job of that name, whoever runs it.
PruneStaleJob(b) ==
  /\ builder[b].pc = "prune"
  /\ Go(b, "create", builder[b].copy)
  /\ \/ DeleteJob(builder[b].art) /\ UNCHANGED faults
     \/ Fault /\ UNCHANGED <<cluster, bucket>>
  /\ UNCHANGED <<rows, request>>

\* Second half: Create; AlreadyExists or a fault marks the build FAILED.
CreateJob(b) ==
  /\ builder[b].pc = "create"
  /\ LET a == builder[b].art IN
     \/ /\ job[a] = "none" /\ UNCHANGED faults
        /\ job' = [job EXCEPT ![a] = "active"]
        /\ Go(b, "wait", builder[b].copy)
     \/ /\ job[a] # "none" /\ UNCHANGED <<job, faults>>
        /\ Go(b, "outcome", MarkFailed(builder[b].copy))
     \/ /\ Fault /\ UNCHANGED job
        /\ Go(b, "outcome", MarkFailed(builder[b].copy))
  /\ UNCHANGED <<rows, bucket, built, request>>

\* WaitForJob polls the NAME: it may see another build's Job, or none.
\* Mutant: a Job that is gone counts as a Job that ended well.
JobSucceededOrGone(a) == job[a] \in {"succeeded", "none"}
JobSucceeded(a)       == job[a] = "succeeded"

\* A checksum comes from the log or from the binary object; without one
\* MarkReady refuses and the row stays BUILDING.
HasChecksum(a, logRead) == logRead \/ a \in binary

WaitSucceeded(b) ==
  /\ builder[b].pc = "wait" /\ JobSucceeded(builder[b].art)
  /\ \E logRead \in BOOLEAN :
       /\ IF logRead THEN UNCHANGED faults ELSE Fault
       /\ IF HasChecksum(builder[b].art, logRead)
          THEN Go(b, "outcome", MarkReady(builder[b].copy))
          ELSE Done(b)
  /\ UNCHANGED <<rows, bucket, cluster, request>>

\* ErrBuildFailed, NotFound or a fault of Get.
WaitFailed(b) ==
  /\ builder[b].pc = "wait"
  /\ \/ job[builder[b].art] \in {"failed", "none"} /\ UNCHANGED faults
     \/ Fault
  /\ Go(b, "outcome", MarkFailed(builder[b].copy))
  /\ UNCHANGED <<rows, bucket, cluster, request>>

\* Mutant: the outcome stays in memory.
DropOutcome(b) ==
  /\ builder[b].pc = "outcome"
  /\ Done(b)
  /\ UNCHANGED <<rows, bucket, cluster, request, faults>>

SaveOutcome(b) ==
  /\ builder[b].pc = "outcome"
  /\ Done(b)
  /\ \/ Save(builder[b].art, builder[b].copy) /\ UNCHANGED faults
     \/ Fault /\ UNCHANGED art
  /\ UNCHANGED <<issued, bucket, cluster, request>>

-----------------------------------------------------------------------------
(* The builder pod, its Job and the bucket's own expiry                    *)

\* The build script uploads the binary and then ends well.
PodUploads(a) ==
  /\ job[a] = "active"
  /\ job' = [job EXCEPT ![a] = "uploaded"]
  /\ binary' = binary \cup {a}
  /\ UNCHANGED <<rows, source, built, request, builder, faults>>

JobSucceeds(a) ==
  /\ job[a] = "uploaded"
  /\ job' = [job EXCEPT ![a] = "succeeded"] /\ built' = built \cup {a}
  /\ UNCHANGED <<rows, bucket, request, builder, faults>>

\* The script fails, or activeDeadlineSeconds passes; backoffLimit is 0.
JobFails(a) ==
  /\ job[a] \in {"active", "uploaded"}
  /\ job' = [job EXCEPT ![a] = "failed"]
  /\ UNCHANGED <<rows, bucket, built, request, builder, faults>>

\* ttlSecondsAfterFinished, or a user, removes a Job before it was seen.
JobRemoved(a) ==
  /\ job[a] # "none" /\ Fault
  /\ DeleteJob(a)
  /\ UNCHANGED <<rows, request, builder>>

\* The lifecycle rule on suites/ expires an object of the suite.
LifecycleExpires ==
  /\ Fault
  /\ \/ source # NoSource /\ source' = NoSource /\ UNCHANGED binary
     \/ \E a \in binary : binary' = binary \ {a} /\ UNCHANGED source
  /\ UNCHANGED <<rows, cluster, request, builder>>

\* The process dies: goroutines and requests are gone, nothing resumes them.
RestartServer ==
  /\ Fault
  /\ request' = [c \in Clients |-> Idle]
  /\ builder' = [b \in Builders |-> Asleep]
  /\ UNCHANGED <<rows, bucket, cluster>>

RequestStep(c) ==
  \/ List(c) \/ Stage(c) \/ StageFails(c) \/ StartBuilds(c)
  \/ CancelKill(c) \/ CancelSave(c) \/ RetrySave(c) \/ DeleteArtifactObjects(c)

NewRequest(c) ==
  \/ \E ar \in Archives, insecure \in BOOLEAN :
       \/ \E p \in Range(Platforms) : Trigger(c, {p}, ar, insecure)
       \/ Trigger(c, Range(Platforms), ar, insecure)
  \/ \E a \in Artifacts : CancelBuild(c, a) \/ Retry(c, a) \/ DeleteArtifact(c, a)

BuilderStep(b) ==
  \/ FindArtifact(b) \/ SaveBuilding(b) \/ PresignFails(b) \/ PruneStaleJob(b)
  \/ CreateJob(b) \/ WaitSucceeded(b) \/ WaitFailed(b) \/ SaveOutcome(b)

Cluster ==
  \/ \E a \in Artifacts : \/ PodUploads(a) \/ JobSucceeds(a) \/ JobFails(a)
                          \/ JobRemoved(a)
  \/ LifecycleExpires

\* Builds on their own: no run uses an artifact.
BuildNext ==
  \/ \E c \in Clients :
       RequestStep(c) \/ NewRequest(c) \/ DeleteArtifactRow(c, FALSE)
  \/ \E b \in Builders : BuilderStep(b)
  \/ Cluster
  \/ RestartServer

\* A request and a goroutine that are under way go on, and the Job controller
\* ends a Job: activeDeadlineSeconds sees to it.
BuildFairness ==
  /\ \A c \in Clients : WF_buildVars(RequestStep(c) \/ DeleteArtifactRow(c, FALSE))
  /\ \A b \in Builders : WF_buildVars(BuilderStep(b))
  /\ \A a \in Artifacts : WF_buildVars(JobSucceeds(a) \/ JobFails(a))

BuildSpec == InitBuild /\ [][BuildNext]_buildVars /\ BuildFairness

-----------------------------------------------------------------------------
(* Properties                                                              *)

\* Every variable of the builds has its type.
BuildTypeOK ==
  /\ art \in [Artifacts -> Row] /\ issued \in 0 .. NArtifacts
  /\ source \in Source /\ binary \subseteq Artifacts
  /\ job \in [Artifacts -> JobState] /\ built \subseteq Artifacts
  /\ request \in [Clients -> Request] /\ builder \in [Builders -> Builder]
  /\ faults \in 0 .. MaxFaults

\* An artifact that carries a binary key is READY, whatever retries, double
\* builds and stale copies went over the row.
BinaryKeyOnlyWhenReady == \A a \in Artifacts : art[a].key => art[a].status = "READY"

\* An artifact is READY only when one of its own Jobs ended well: no stale
\* copy, poll of a pruned Job or revived row makes it so.
ReadyWasBuilt == \A a \in Artifacts : art[a].status = "READY" => a \in built

\* Every Go file a build compiles went through the analyser, whichever of the
\* uploads to the suite's one key it comes from: it is a scenario without a main
\* function, and what isForbiddenImport matches of its imports was overridden.
\* (What isForbiddenImport misses is compiled: this is about which code reaches
\* the compiler, not about how complete the comparison of imports is.)
OnlyAnalysedCode ==
  \A f \in Compiled(source) :
    /\ f.package = "scenario" /\ ~f.main
    /\ (\E import \in f.imports : isForbiddenImport(import))
         => AllowInsecureOverride

\* A build that was triggered or retried settles, unless a fault or a restart
\* struck: no interleaving of requests and goroutines leaves the row open.
BuildsSettle ==
  \A a \in Artifacts :
    IsOpen(art[a]) ~> (~IsOpen(art[a]) \/ faults > 0)
=============================================================================
