------------------------ MODULE RunLifecycle_proofs ------------------------
(***************************************************************************)
(* Proofs about RunLifecycle, for any number of runs, requests, faults and *)
(* restarts. The invariants follow from IndInv: a copy of a row that a     *)
(* handler holds is as sound as the row, and what makes it sound only      *)
(* grows (Stable), so a late save of an old copy writes a sound row.       *)
(* The last section is about rows at rest: no handler takes one up again.  *)
(***************************************************************************)
EXTENDS RunLifecycle, TLAPS

-----------------------------------------------------------------------------
(* The operations of the aggregate map rows to rows.                       *)

LEMMA RowOps ==
  /\ NoRow \in Row
  /\ \A b \in BOOLEAN : NewTestRun(b) \in Row
  /\ \A t \in Row, b \in BOOLEAN : Start(t, b) \in Row
  /\ \A t \in Row, s \in Report, v \in {"unset", "pass", "fail"},
        k \in {"none", "object", "stray"} : Complete(t, s, v, k) \in Row
  /\ \A t \in Row : Fail(t) \in Row
  /\ \A t \in Row, w \in {"none", "operator", "k8s"} : Abort(t, w) \in Row
<1> USE DEF Row, Status, Terminal, Report
<1>1. NoRow \in Row
  BY DEF NoRow
<1>2. \A b \in BOOLEAN : NewTestRun(b) \in Row
  BY <1>1 DEF NewTestRun, NoRow
<1>3. \A t \in Row, b \in BOOLEAN : Start(t, b) \in Row
  <2> SUFFICES ASSUME NEW t \in Row, NEW b \in BOOLEAN PROVE Start(t, b) \in Row
    OBVIOUS
  <2>1. (t.job \/ b) \in BOOLEAN
    OBVIOUS
  <2> QED BY <2>1 DEF Start
<1>4. \A t \in Row, s \in Report, v \in {"unset", "pass", "fail"},
        k \in {"none", "object", "stray"} : Complete(t, s, v, k) \in Row
  BY DEF Complete
<1>5. \A t \in Row : Fail(t) \in Row
  BY DEF Fail
<1>6. \A t \in Row, w \in {"none", "operator", "k8s"} : Abort(t, w) \in Row
  BY DEF Abort
<1> QED BY <1>1, <1>2, <1>3, <1>4, <1>5, <1>6

\* SyncJob and HandleJobDeletion make a row of a row.
LEMMA ReflectType ==
  ASSUME NEW r \in Runs, NEW ph \in Phase, NEW t \in Row
  PROVE  Reflect(r, ph, t) \in Row
BY RowOps DEF Reflect, HandleJobDeletion, Succeed, Phase, Report

LEMMA IdleType == Idle \in Request
BY DEF Request

-----------------------------------------------------------------------------
(* Type correctness                                                        *)

\* What a request in flight is made of.
LEMMA RequestParts ==
  ASSUME NEW q \in Request
  PROVE  /\ q.snap \in Row /\ q.event \in Phase
         /\ q.pc # "idle" => q.pc \in Pc /\ q.run \in Runs
<1>1. CASE q = Idle
  BY <1>1, RowOps DEF Idle, Phase
<1>2. CASE q \in [pc: Pc, run: Runs, snap: Row, event: Phase]
  BY <1>2
<1> QED BY <1>1, <1>2 DEF Request

LEMMA GoType ==
  ASSUME client \in [Clients -> Request], NEW c \in Clients, ~At(c, "idle"),
         NEW pc \in Pc, NEW t \in Row,
         Go(c, pc) \/ GoWith(c, pc, t) \/ Done(c)
  PROVE  client' \in [Clients -> Request]
<1>1. client[c] \in [pc: Pc, run: Runs, snap: Row, event: Phase]
  BY DEF At, Request, Idle
<1>2. [client[c] EXCEPT !.pc = pc] \in Request
  BY <1>1 DEF Request
<1>3. [client[c] EXCEPT !.pc = pc, !.snap = t] \in Request
  BY <1>1 DEF Request
<1>4. CASE Go(c, pc)
  BY <1>2, <1>4 DEF Go
<1>5. CASE GoWith(c, pc, t)
  BY <1>3, <1>5 DEF GoWith
<1>6. CASE Done(c)
  BY <1>6, IdleType DEF Done
<1> QED BY <1>4, <1>5, <1>6

LEMMA AcceptType ==
  ASSUME client \in [Clients -> Request], NEW c \in Clients, NEW pc \in Pc,
         NEW r \in Runs, NEW t \in Row, Accept(c, pc, r, t)
  PROVE  client' \in [Clients -> Request]
<1>1. [Idle EXCEPT !.pc = pc, !.run = r, !.snap = t] \in Request
  BY DEF Idle, Request, Phase
<1> QED BY <1>1 DEF Accept

LEMMA SaveType ==
  ASSUME row \in [Runs -> Row], NEW r, NEW t \in Row, Save(r, t)
  PROVE  row' \in [Runs -> Row]
BY DEF Save

LEMMA EnterType ==
  ASSUME job \in [Runs -> SUBSET Phase], unseen \in [Runs -> SUBSET Phase],
         NEW r, NEW ph \in Phase, Enter(r, ph)
  PROVE  /\ job' \in [Runs -> SUBSET Phase]
         /\ unseen' \in [Runs -> SUBSET Phase]
BY DEF Enter

LEMMA FaultType ==
  ASSUME faults \in 0..MaxFaults, Fault \/ NoFault
  PROVE  faults' \in 0..MaxFaults
BY ConstAssumption DEF Fault, NoFault

LEMMA ClientTypes ==
  ASSUME TypeOK, ClientNext
  PROVE  TypeOK'
<1> USE DEF TypeOK
<1>c. ASSUME NEW c \in Clients
      PROVE  /\ client[c] \in Request
             /\ client[c].snap \in Row
             /\ ~At(c, "idle") => client[c].run \in Runs
  BY RequestParts DEF At
<1>pc. /\ {"dispatch", "link", "failSave", "abortKill", "abortSave", "cleanKill",
           "cleanSave", "deleteKill", "purge", "drop", "fetch",
           "completeSave"} \subseteq Pc
       /\ {"created", "gone"} \subseteq Phase
  BY DEF Pc, Phase
<1>1. ASSUME NEW c \in Clients, NEW r \in Runs, TriggerRun(c, r)
      PROVE  TypeOK'
  <2>1. NewTestRun(FALSE) \in Row
    BY RowOps
  <2>2. client' \in [Clients -> Request]
    BY <1>1, <1>pc, <2>1, AcceptType DEF TriggerRun
  <2>3. row' \in [Runs -> Row]
    BY <1>1, <2>1, SaveType DEF TriggerRun
  <2> QED BY <1>1, <2>2, <2>3 DEF TriggerRun, external, budget
<1>2. ASSUME NEW c \in Clients, DispatchJob(c)
      PROVE  TypeOK'
  <2>1. [client[c].snap EXCEPT !.job = TRUE] \in Row
    BY <1>c DEF Row
  <2>2. client' \in [Clients -> Request]
    <3>1. GoWith(c, "link", [client[c].snap EXCEPT !.job = TRUE])
      BY <1>2 DEF DispatchJob
    <3>2. ~At(c, "idle")
      BY <1>2 DEF DispatchJob, At
    <3> QED BY <3>1, <3>2, <2>1, <1>pc, GoType
  <2>3. job' \in [Runs -> SUBSET Phase] /\ unseen' \in [Runs -> SUBSET Phase]
    BY <1>2, <1>pc, EnterType DEF DispatchJob
  <2> QED BY <1>2, <2>2, <2>3 DEF DispatchJob, external, budget
<1>3. ASSUME NEW c \in Clients, DispatchFails(c)
      PROVE  TypeOK'
  <2>1. Fail(client[c].snap) \in Row
    BY <1>c, RowOps
  <2>2. client' \in [Clients -> Request]
    <3>1. GoWith(c, "failSave", Fail(client[c].snap))
      BY <1>3 DEF DispatchFails
    <3>2. ~At(c, "idle")
      BY <1>3 DEF DispatchFails, At
    <3> QED BY <3>1, <3>2, <2>1, <1>pc, GoType
  <2>3. job' \in [Runs -> SUBSET Phase] /\ unseen' \in [Runs -> SUBSET Phase]
    BY <1>3, <1>pc, EnterType DEF DispatchFails
  <2>4. client[c].run \in Runs
    BY <1>3, <1>c DEF DispatchFails, At
  <2> QED BY <1>3, <2>2, <2>3, <2>4 DEF DispatchFails, external, budget
<1>4. ASSUME NEW c \in Clients, SaveCopy(c)
      PROVE  TypeOK'
  <2>1. row' \in [Runs -> Row]
    BY <1>4, <1>c, SaveType DEF SaveCopy
  <2>2. client' \in [Clients -> Request]
    BY <1>4, IdleType DEF SaveCopy, Done
  <2> QED BY <1>4, <2>1, <2>2 DEF SaveCopy, external, budget
<1>5. ASSUME NEW c \in Clients, NEW r \in Runs,
             AbortRun(c, r) \/ CleanupRun(c, r) \/ DeleteRun(c, r)
      PROVE  TypeOK'
  <2>1. row[r] \in Row
    OBVIOUS
  <2>2. client' \in [Clients -> Request]
    BY <1>5, <1>pc, <2>1, AcceptType DEF AbortRun, CleanupRun, DeleteRun
  <2> QED BY <1>5, <2>2 DEF AbortRun, CleanupRun, DeleteRun, external, budget
<1>6. ASSUME NEW c \in Clients, KillJob(c)
      PROVE  TypeOK'
  <2>1. Abort(client[c].snap, "operator") \in Row
    BY <1>c, RowOps
  <2>2. client' \in [Clients -> Request]
    <3>1. \/ GoWith(c, "abortSave", Abort(client[c].snap, "operator"))
          \/ GoWith(c, "cleanSave", Abort(client[c].snap, "operator"))
          \/ Done(c)
          \/ Go(c, "purge")
      BY <1>6 DEF KillJob, AfterKill
    <3>2. ~At(c, "idle")
      BY <1>6 DEF KillJob, AfterKill, At
    <3> QED BY <3>1, <3>2, <2>1, <1>pc, GoType
  <2>3. /\ job' \in [Runs -> SUBSET Phase] /\ unseen' \in [Runs -> SUBSET Phase]
        /\ faults' \in 0..MaxFaults
    BY <1>6, <1>pc, EnterType, FaultType DEF KillJob, AbortJob
  <2> QED BY <1>6, <2>2, <2>3 DEF KillJob, external
<1>7. ASSUME NEW c \in Clients, PurgeReport(c)
      PROVE  TypeOK'
  <2>1. client' \in [Clients -> Request]
    BY <1>7, <1>c, <1>pc, GoType DEF PurgeReport, At
  <2>2. faults' \in 0..MaxFaults
    BY <1>7, FaultType DEF PurgeReport
  <2>3. stored' \subseteq Runs
    BY <1>7 DEF PurgeReport
  <2> QED BY <1>7, <2>1, <2>2, <2>3 DEF PurgeReport, external
<1>8. ASSUME NEW c \in Clients, DropRow(c)
      PROVE  TypeOK'
  <2>1. row' \in [Runs -> Row]
    BY <1>8, RowOps, SaveType DEF DropRow
  <2>2. client' \in [Clients -> Request]
    BY <1>8, IdleType DEF DropRow, Done
  <2> QED BY <1>8, <2>1, <2>2 DEF DropRow, external, budget
<1>9. ASSUME NEW c \in Clients, NEW r \in Runs, CompleteRun(c, r)
      PROVE  TypeOK'
  <2>1. Start(row[r], FALSE) \in Row
    BY RowOps
  <2>2. Accept(c, "fetch", r, Start(row[r], FALSE)) \/ UNCHANGED client
    BY <1>9 DEF CompleteRun
  <2>3. client' \in [Clients -> Request]
    BY <2>1, <2>2, <1>pc, AcceptType
  <2> QED BY <1>9, <2>3 DEF CompleteRun, external, budget
<1>10. ASSUME NEW c \in Clients, IngestReport(c)
       PROVE  TypeOK'
  <2> DEFINE t == client[c].snap
  <2>1. \A doc \in Report : Complete(t, doc, SLAPassed(doc), "object") \in Row
    BY <1>c, RowOps DEF SLAPassed
  <2>2. Fail(t) \in Row
    BY <1>c, RowOps
  <2>3. (IF client[c].run \in stored THEN wrote[client[c].run] ELSE "none") \in Report
    BY DEF Report
  <2>4. \E u \in Row : GoWith(c, "completeSave", u)
    BY <1>10, <2>1, <2>2, <2>3 DEF IngestReport, Report
  <2>5. client' \in [Clients -> Request]
    BY <1>10, <2>4, <1>pc, GoType DEF IngestReport, At
  <2>6. faults' \in 0..MaxFaults
    BY <1>10, FaultType DEF IngestReport
  <2> QED BY <1>10, <2>5, <2>6 DEF IngestReport, external
<1>11. ASSUME NEW c \in Clients, RequestDies(c)
       PROVE  TypeOK'
  <2>1. client' \in [Clients -> Request]
    BY <1>11, IdleType DEF RequestDies, Done
  <2>2. faults' \in 0..MaxFaults
    BY <1>11, FaultType DEF RequestDies
  <2> QED BY <1>11, <2>1, <2>2 DEF RequestDies, external
<1> QED BY <1>1, <1>2, <1>3, <1>4, <1>5, <1>6, <1>7, <1>8, <1>9, <1>10, <1>11
    DEF ClientNext

LEMMA ClusterTypes ==
  ASSUME TypeOK, ClusterNext
  PROVE  TypeOK'
<1> USE DEF TypeOK
<1>1. {"created", "active", "succeeded", "failed", "deleting", "gone"} \subseteq Phase
  BY DEF Phase
<1>2. PICK r \in Runs :
        \/ CronFires(r) \/ PodStarts(r) \/ UploadReport(r) \/ SendCallback(r)
        \/ PodKilled(r) \/ JobEnds(r) \/ JobDeleted(r)
  BY DEF ClusterNext
<1>3. CASE CronFires(r) \/ JobEnds(r) \/ JobDeleted(r)
  <2>1. job' \in [Runs -> SUBSET Phase] /\ unseen' \in [Runs -> SUBSET Phase]
    BY <1>1, <1>3, EnterType DEF CronFires, JobEnds, JobDeleted
  <2> QED BY <1>3, <2>1 DEF CronFires, JobEnds, JobDeleted, world, budget
<1>4. CASE PodStarts(r)
  <2>1. job' \in [Runs -> SUBSET Phase] /\ unseen' \in [Runs -> SUBSET Phase]
    BY <1>1, <1>4, EnterType DEF PodStarts
  <2> QED BY <1>4, <2>1 DEF PodStarts, world, budget, PodState
<1>5. CASE UploadReport(r)
  <2>1. Documents \subseteq Report
    BY ConstAssumption DEF Report
  <2> QED BY <1>5, <2>1 DEF UploadReport, world, budget, PodState
<1>6. CASE SendCallback(r) \/ PodKilled(r)
  BY <1>6 DEF SendCallback, PodKilled, world, budget, PodState
<1> QED BY <1>2, <1>3, <1>4, <1>5, <1>6

LEMMA FollowType ==
  ASSUME watcher \in Request, NEW r \in Runs, NEW ph \in Phase, NEW t \in Row,
         Follow(r, ph, t)
  PROVE  watcher' \in Request
<1>1. Reflect(r, ph, t) \in Row
  BY ReflectType
<1>2. [pc |-> "sync", run |-> r, event |-> ph, snap |-> Reflect(r, ph, t)] \in Request
  BY <1>1 DEF Request, Pc
<1> QED BY <1>2, IdleType DEF Follow

LEMMA WatcherTypes ==
  ASSUME TypeOK, WatcherNext
  PROVE  TypeOK'
<1> USE DEF TypeOK
<1>1. ASSUME NEW r \in Runs, NEW ph \in Phase, SyncJob(r, ph)
      PROVE  TypeOK'
  <2>1. row[r] \in Row /\ NewTestRun(TRUE) \in Row
    BY RowOps
  <2>2. [pc |-> "create", run |-> r, event |-> ph, snap |-> NewTestRun(TRUE)] \in Request
    BY <2>1 DEF Request, Pc
  <2>3. watcher' \in Request
    BY <1>1, <2>1, <2>2, FollowType DEF SyncJob
  <2>4. unseen' \in [Runs -> SUBSET Phase]
    BY <1>1 DEF SyncJob
  <2> QED BY <1>1, <2>3, <2>4 DEF SyncJob, aside, external, budget
<1>2. ASSUME NEW r \in Runs, NEW ph \in Phase, Resync(r, ph)
      PROVE  TypeOK'
  BY <1>2 DEF Resync, aside, external, budget
<1>3. CASE CreateScheduledRun
  <2>1. row' \in [Runs -> Row]
    BY <1>3, RequestParts, SaveType DEF CreateScheduledRun
  <2>2. watcher' \in Request
    BY <1>3, RequestParts, FollowType DEF CreateScheduledRun
  <2> QED BY <1>3, <2>1, <2>2 DEF CreateScheduledRun, aside, external, budget
<1>4. CASE SaveSync
  <2>1. row' \in [Runs -> Row]
    BY <1>4, RequestParts, SaveType DEF SaveSync
  <2> QED BY <1>4, <2>1, IdleType DEF SaveSync, aside, external, budget
<1>5. CASE EventFails
  <2>1. faults' \in 0..MaxFaults
    BY <1>5, FaultType DEF EventFails
  <2> QED BY <1>5, <2>1, IdleType DEF EventFails, aside, external
<1>6. CASE ServerRestarts
  BY <1>6, IdleType, ConstAssumption DEF ServerRestarts, external
<1> QED BY <1>1, <1>2, <1>3, <1>4, <1>5, <1>6 DEF WatcherNext

\* Every reachable state is well typed: rows, requests in flight and the
\* watcher's event stay what the code's types allow.
THEOREM TypeCorrect == Spec => []TypeOK
<1>1. Init => TypeOK
  BY RowOps, IdleType, ConstAssumption DEF Init, TypeOK, PodState, Report
<1>2. TypeOK /\ [Next]_vars => TypeOK'
  <2>1. CASE UNCHANGED vars
    BY <2>1 DEF TypeOK, vars
  <2> QED BY <2>1, ClientTypes, ClusterTypes, WatcherTypes DEF Next
<1> QED BY <1>1, <1>2, PTL DEF Spec

-----------------------------------------------------------------------------
(* The inductive invariant                                                 *)

\* What makes a copy of a row sound is never undone: a Job's phases, refused
\* dispatches and faults accumulate, a pod that exited stays so and its report
\* does not change.
Stable ==
  /\ \A r \in Runs :
       /\ job[r] \subseteq job'[r]
       /\ pod[r] = "exited" => pod'[r] = "exited" /\ wrote'[r] = wrote[r]
  /\ refused \subseteq refused'
  /\ faults > 0 => faults' > 0

LEMMA EnterGrows ==
  ASSUME job \in [Runs -> SUBSET Phase], unseen \in [Runs -> SUBSET Phase],
         NEW r, NEW ph, Enter(r, ph)
  PROVE  \A q \in Runs : job[q] \subseteq job'[q]
BY DEF Enter

LEMMA FaultGrows ==
  ASSUME faults \in 0..MaxFaults, Fault \/ NoFault
  PROVE  faults > 0 => faults' > 0
BY ConstAssumption DEF Fault, NoFault

LEMMA StepStable ==
  ASSUME TypeOK, \A r \in Runs : InOrder(r), [Next]_vars
  PROVE  Stable
<1> USE DEF TypeOK
<1>1. CASE UNCHANGED vars
  BY <1>1 DEF vars, Stable
<1>2. CASE ClientNext
  <2>1. PICK c \in Clients :
          \/ \E r \in Runs : \/ TriggerRun(c, r) \/ AbortRun(c, r)
                             \/ CleanupRun(c, r) \/ DeleteRun(c, r)
                             \/ CompleteRun(c, r)
          \/ DispatchJob(c) \/ DispatchFails(c) \/ SaveCopy(c) \/ KillJob(c)
          \/ PurgeReport(c) \/ DropRow(c) \/ IngestReport(c) \/ RequestDies(c)
    BY <1>2 DEF ClientNext
  <2>2. CASE \E r \in Runs : \/ TriggerRun(c, r) \/ AbortRun(c, r)
                             \/ CleanupRun(c, r) \/ DeleteRun(c, r)
                             \/ CompleteRun(c, r)
    BY <2>2 DEF TriggerRun, AbortRun, CleanupRun, DeleteRun, CompleteRun,
                external, budget, Stable
  <2>3. CASE DispatchJob(c)
    BY <2>3, EnterGrows DEF DispatchJob, external, budget, Stable
  <2>4. CASE DispatchFails(c)
    BY <2>4, EnterGrows DEF DispatchFails, external, budget, Stable
  <2>5. CASE SaveCopy(c) \/ DropRow(c)
    BY <2>5 DEF SaveCopy, DropRow, external, budget, Stable
  <2>6. CASE KillJob(c)
    BY <2>6, EnterGrows, FaultGrows DEF KillJob, AbortJob, external, Stable
  <2>7. CASE PurgeReport(c) \/ IngestReport(c) \/ RequestDies(c)
    BY <2>7, FaultGrows DEF PurgeReport, IngestReport, RequestDies, external, Stable
  <2> QED BY <2>1, <2>2, <2>3, <2>4, <2>5, <2>6, <2>7
<1>3. CASE ClusterNext
  <2>1. PICK r \in Runs :
          \/ CronFires(r) \/ PodStarts(r) \/ UploadReport(r) \/ SendCallback(r)
          \/ PodKilled(r) \/ JobEnds(r) \/ JobDeleted(r)
    BY <1>3 DEF ClusterNext
  <2>2. CASE CronFires(r) \/ JobEnds(r) \/ JobDeleted(r)
    BY <2>2, EnterGrows DEF CronFires, JobEnds, JobDeleted, world, budget, Stable
  <2>3. CASE PodStarts(r)
    <3>1. pod[r] # "exited"
      BY <2>3 DEF PodStarts, InOrder
    <3> QED BY <2>3, <3>1, EnterGrows DEF PodStarts, world, budget, Stable
  <2>4. CASE UploadReport(r)
    BY <2>4 DEF UploadReport, world, budget, Stable
  <2>5. CASE SendCallback(r) \/ PodKilled(r)
    BY <2>5 DEF SendCallback, PodKilled, world, budget, Stable
  <2> QED BY <2>1, <2>2, <2>3, <2>4, <2>5
<1>4. CASE WatcherNext
  BY <1>4, FaultGrows DEF WatcherNext, SyncJob, Resync, CreateScheduledRun, SaveSync,
     EventFails, ServerRestarts, aside, external, budget, Stable
<1> QED BY <1>1, <1>2, <1>3, <1>4 DEF Next

LEMMA SoundStays ==
  ASSUME Stable
  PROVE  \A r \in Runs, t \in Row : Sound(r, t) => Sound(r, t)'
BY DEF Stable, Sound, Explained, Coherent, Killed

\* InOrder is a fact about the cluster and the informer alone.
LEMMA InOrderStep ==
  ASSUME TypeOK, \A r \in Runs : InOrder(r), [Next]_vars
  PROVE  \A r \in Runs : InOrder(r)'
<1> USE DEF TypeOK
<1>1. CASE UNCHANGED vars
  BY <1>1 DEF vars, InOrder
<1>2. CASE ClientNext
  <2>1. PICK c \in Clients :
          \/ \E r \in Runs : \/ TriggerRun(c, r) \/ AbortRun(c, r)
                             \/ CleanupRun(c, r) \/ DeleteRun(c, r)
                             \/ CompleteRun(c, r)
          \/ DispatchJob(c) \/ DispatchFails(c) \/ SaveCopy(c) \/ KillJob(c)
          \/ PurgeReport(c) \/ DropRow(c) \/ IngestReport(c) \/ RequestDies(c)
    BY <1>2 DEF ClientNext
  <2>2. CASE \E r \in Runs : \/ TriggerRun(c, r) \/ AbortRun(c, r)
                             \/ CleanupRun(c, r) \/ DeleteRun(c, r)
                             \/ CompleteRun(c, r)
    BY <2>2 DEF TriggerRun, AbortRun, CleanupRun, DeleteRun, CompleteRun,
                external, InOrder
  <2>3. CASE DispatchJob(c) \/ DispatchFails(c)
    BY <2>3 DEF DispatchJob, DispatchFails, Enter, external, InOrder
  <2>4. CASE SaveCopy(c) \/ DropRow(c) \/ IngestReport(c) \/ RequestDies(c)
    BY <2>4 DEF SaveCopy, DropRow, IngestReport, RequestDies, external, InOrder
  <2>5. CASE KillJob(c)
    BY <2>5 DEF KillJob, AbortJob, JobExists, Enter, external, InOrder
  <2>6. CASE PurgeReport(c)
    BY <2>6 DEF PurgeReport, external, InOrder
  <2> QED BY <2>1, <2>2, <2>3, <2>4, <2>5, <2>6
<1>3. CASE ClusterNext
  <2>1. PICK r \in Runs :
          \/ CronFires(r) \/ PodStarts(r) \/ UploadReport(r) \/ SendCallback(r)
          \/ PodKilled(r) \/ JobEnds(r) \/ JobDeleted(r)
    BY <1>3 DEF ClusterNext
  <2>2. CASE CronFires(r)
    BY <2>2 DEF CronFires, Enter, InOrder
  <2>3. CASE PodStarts(r)
    BY <2>3 DEF PodStarts, JobOpen, JobExists, Enter, InOrder
  <2>4. CASE UploadReport(r)
    BY <2>4 DEF UploadReport, InOrder
  <2>5. CASE SendCallback(r)
    BY <2>5 DEF SendCallback, InOrder
  <2>6. CASE PodKilled(r)
    BY <2>6 DEF PodKilled, InOrder
  <2>7. CASE JobEnds(r)
    BY <2>7 DEF JobEnds, JobOpen, JobExists, Enter, InOrder
  <2>8. CASE JobDeleted(r)
    BY <2>8 DEF JobDeleted, JobExists, Enter, InOrder
  <2> QED BY <2>1, <2>2, <2>3, <2>4, <2>5, <2>6, <2>7, <2>8
<1>4. CASE WatcherNext
  <2>1. ASSUME NEW r \in Runs, NEW ph \in Phase, SyncJob(r, ph) \/ Resync(r, ph)
        PROVE  \A q \in Runs : InOrder(q)'
    <3>1. UNCHANGED <<job, pod, wrote, stored, callback>>
      BY <2>1 DEF SyncJob, Resync, aside, external
    <3>2. \A q \in Runs : unseen'[q] \subseteq job[q]
      <4>1. CASE SyncJob(r, ph)
        BY <4>1 DEF SyncJob, InOrder
      <4>2. CASE Resync(r, ph)
        BY <4>2 DEF Resync, Latest, InOrder
      <4> QED BY <2>1, <4>1, <4>2
    <3> QED BY <3>1, <3>2 DEF InOrder
  <2>2. CASE CreateScheduledRun \/ SaveSync
    BY <2>2 DEF CreateScheduledRun, SaveSync, aside, external, InOrder
  <2>3. CASE EventFails
    BY <2>3 DEF EventFails, aside, external, InOrder
  <2>4. CASE ServerRestarts
    BY <2>4 DEF ServerRestarts, external, InOrder
  <2> QED BY <1>4, <2>1, <2>2, <2>3, <2>4 DEF WatcherNext
<1> QED BY <1>1, <1>2, <1>3, <1>4 DEF Next

\* The operations of the aggregate make a sound copy of a sound copy.
LEMMA FreshSound ==
  ASSUME NEW r \in Runs
  PROVE  Sound(r, NoRow) /\ Sound(r, NewTestRun(FALSE))
BY DEF Sound, Explained, Coherent, Killed, NewTestRun, NoRow

LEMMA ReflectSound ==
  ASSUME TypeOK, NEW r \in Runs, InOrder(r), NEW t \in Row, Sound(r, t),
         ~IsTerminal(t), NEW ph \in Phase, ph \in job[r]
  PROVE  Sound(r, Reflect(r, ph, t))
<1> USE DEF TypeOK, Sound, Explained, Coherent, Killed, IsTerminal, Terminal, Row, Status
<1>1. "created" \in job[r]
  BY DEF InOrder
<1>2. t.reason = "none" /\ t.summary = "none" /\ t.sla = "unset" /\ t.key = "none"
  OBVIOUS
<1>3. CASE ph = "gone"
  BY <1>1, <1>2, <1>3 DEF Reflect, HandleJobDeletion, Abort
<1>4. CASE ph = "deleting"
  BY <1>1, <1>2, <1>4 DEF Reflect, Abort
<1>5. CASE ph = "succeeded"
  BY <1>1, <1>2, <1>5 DEF Reflect, Succeed, Complete, Start
<1>6. CASE ph = "failed"
  BY <1>1, <1>2, <1>6 DEF Reflect, Fail, Start
<1>7. CASE ph = "active"
  BY <1>1, <1>2, <1>7 DEF Reflect, Start
<1>8. CASE ph = "created"
  BY <1>8 DEF Reflect
<1> QED BY <1>3, <1>4, <1>5, <1>6, <1>7, <1>8 DEF Phase

LEMMA IngestSound ==
  ASSUME TypeOK, NEW r \in Runs, NEW t \in Row, Sound(r, t), ~IsTerminal(t),
         pod[r] = "exited"
  PROVE  /\ Sound(r, Fail(t))
         /\ \A doc \in Report :
              doc = wrote[r] /\ Parses(doc)
                => Sound(r, Complete(t, doc, SLAPassed(doc), "object"))
<1> USE DEF TypeOK, Sound, Explained, Coherent, Killed, IsTerminal, Terminal, Row, Status
<1>1. t.reason = "none" /\ t.summary = "none" /\ t.sla = "unset" /\ t.key = "none"
  OBVIOUS
<1>2. Sound(r, Fail(t))
  BY <1>1 DEF Fail
<1>3. ASSUME NEW doc \in Report, doc = wrote[r], Parses(doc)
      PROVE  Sound(r, Complete(t, doc, SLAPassed(doc), "object"))
  BY <1>1, <1>3 DEF Complete, Parses, SLAPassed
<1> QED BY <1>2, <1>3

\* The next three speak of the state after a step: the Job it created, the
\* dispatch it gave up, the Job it deleted.
LEMMA LinkSound ==
  ASSUME NEW r \in Runs, NEW t \in Row, Sound(r, t)', ~IsTerminal(t),
         "created" \in job'[r]
  PROVE  Sound(r, [t EXCEPT !.job = TRUE])'
BY DEF Sound, Explained, Coherent, Killed, Row, IsTerminal, Terminal, Status

LEMMA RefusedSound ==
  ASSUME NEW r \in Runs, NEW t \in Row, Sound(r, t)', ~IsTerminal(t), r \in refused'
  PROVE  Sound(r, Fail(t))'
BY DEF Sound, Explained, Coherent, Killed, Row, Fail, IsTerminal, Terminal, Status

LEMMA KillSound ==
  ASSUME NEW r \in Runs, NEW t \in Row, Sound(r, t)', ~IsTerminal(t),
         t.job => "gone" \in job'[r] \/ faults' > 0
  PROVE  Sound(r, Abort(t, "operator"))'
BY DEF Sound, Explained, Coherent, Killed, Row, Abort, IsTerminal, Terminal, Status

\* A request that keeps its copy keeps it sound.
LEMMA RequestStays ==
  ASSUME TypeOK, Stable, NEW q \in Request, SoundRequest(q)
  PROVE  SoundRequest(q)'
<1>1. CASE q.pc = "idle"
  BY <1>1 DEF SoundRequest
<1>2. CASE q.pc # "idle"
  <2>1. q.run \in Runs /\ q.snap \in Row
    BY <1>2, RequestParts
  <2>2. Sound(q.run, q.snap)'
    BY <1>2, <2>1, SoundStays DEF SoundRequest
  <2>3. /\ pod[q.run] = "exited" => pod'[q.run] = "exited"
        /\ job[q.run] \subseteq job'[q.run]
    BY <2>1 DEF Stable
  <2> QED BY <1>2, <2>1, <2>2, <2>3 DEF SoundRequest
<1> QED BY <1>1, <1>2

LEMMA InstallClient ==
  ASSUME NEW c \in Clients, NEW q \in Request, client'[c] = q, SoundRequest(q)'
  PROVE  SoundRequest(client[c])'
BY DEF SoundRequest, Sound, Explained, Coherent, Killed

LEMMA InstallWatcher ==
  ASSUME NEW q \in Request, watcher' = q, SoundRequest(q)'
  PROVE  SoundRequest(watcher)'
BY DEF SoundRequest, Sound, Explained, Coherent, Killed

LEMMA IdleSound == SoundRequest(Idle) /\ SoundRequest(Idle)'
BY DEF SoundRequest, Idle

\* A request that is not idle, taken apart.
LEMMA BusyClient ==
  ASSUME TypeOK, NEW c \in Clients, ~At(c, "idle")
  PROVE  \E pc \in Pc, r \in Runs, t \in Row, ev \in Phase :
           client[c] = [pc |-> pc, run |-> r, snap |-> t, event |-> ev]
<1>1. client[c] \in [pc: Pc, run: Runs, snap: Row, event: Phase]
  BY DEF TypeOK, At, Request, Idle
<1> QED BY <1>1

LEMMA ClientSound ==
  ASSUME IndInv, Stable, TypeOK', ClientNext
  PROVE  \A d \in Clients : SoundRequest(client[d])'
<1> USE DEF TypeOK
<1>1. TypeOK
  BY DEF IndInv
<1>2. \A d \in Clients : SoundRequest(client[d]) /\ client[d] \in Request
  BY DEF IndInv
\* The others keep their copies, and so it is enough to look at one client.
<1>3. ASSUME NEW c \in Clients, \A d \in Clients \ {c} : client'[d] = client[d],
             SoundRequest(client[c])'
      PROVE  \A d \in Clients : SoundRequest(client[d])'
  <2>1. SUFFICES ASSUME NEW d \in Clients \ {c} PROVE SoundRequest(client[d])'
    BY <1>3
  <2>2. PICK q \in Request : q = client[d]
    BY <1>2
  <2>3. SoundRequest(q)
    BY <1>2, <2>2
  <2>4. SoundRequest(q)' /\ client'[d] = q
    BY <1>1, <1>3, <2>2, <2>3, RequestStays
  <2> QED BY <2>4, InstallClient
\* Requests that are accepted with a sound copy.
<1>4. ASSUME NEW c \in Clients, NEW r \in Runs, NEW pc \in Pc, NEW t \in Row,
             Accept(c, pc, r, t), Sound(r, t),
             pc \in {"dispatch", "abortKill", "fetch"} => ~IsTerminal(t),
             pc = "fetch" => pod[r] = "exited",
             pc \notin {"link", "create", "completeSave"}
      PROVE  \A d \in Clients : SoundRequest(client[d])'
  <2> DEFINE q == [pc |-> pc, run |-> r, snap |-> t, event |-> "created"]
  <2>1. q \in Request
    BY DEF Request, Phase
  <2>2. SoundRequest(q)
    BY <1>4 DEF SoundRequest
  <2>3. SoundRequest(q)'
    BY <1>1, <2>1, <2>2, RequestStays
  <2>4. client'[c] = q /\ \A d \in Clients \ {c} : client'[d] = client[d]
    BY <1>4 DEF Accept, Idle
  <2> HIDE DEF q
  <2> QED BY <1>3, <2>1, <2>3, <2>4, InstallClient
\* Requests that become idle.
<1>5. ASSUME NEW c \in Clients, Done(c)
      PROVE  \A d \in Clients : SoundRequest(client[d])'
  <2>1. client'[c] = Idle /\ \A d \in Clients \ {c} : client'[d] = client[d]
    BY <1>5 DEF Done
  <2> QED BY <1>3, <2>1, IdleType, IdleSound, InstallClient
\* Requests that go on with a copy that is sound after the step.
<1>6. ASSUME NEW c \in Clients, ~At(c, "idle"), NEW pc \in Pc, NEW t \in Row,
             GoWith(c, pc, t), NEW r \in Runs, client[c].run = r, Sound(r, t)',
             pc = "link" => ~IsTerminal(t),
             pc = "completeSave" => pod'[r] = "exited",
             pc \notin {"dispatch", "abortKill", "fetch", "create"}
      PROVE  \A d \in Clients : SoundRequest(client[d])'
  <2>1. PICK ev \in Phase : client[c].event = ev
    BY <1>1, RequestParts
  <2> DEFINE q == [pc |-> pc, run |-> r, snap |-> t, event |-> ev]
  <2>2. q \in Request
    BY DEF Request
  <2>3. SoundRequest(q)'
    BY <1>6 DEF SoundRequest, IsTerminal
  <2>4. client'[c] = q
    <3>1. client[c] \in [pc: Pc, run: Runs, snap: Row, event: Phase]
      BY <1>6, <1>1 DEF At, Request, Idle
    <3> QED BY <1>6, <2>1, <3>1 DEF GoWith
  <2>5. \A d \in Clients \ {c} : client'[d] = client[d]
    BY <1>6 DEF GoWith
  <2> HIDE DEF q
  <2> QED BY <1>3, <2>2, <2>3, <2>4, <2>5, InstallClient
<1>pc. /\ {"dispatch", "link", "failSave", "abortKill", "abortSave", "cleanKill",
           "cleanSave", "deleteKill", "purge", "drop", "fetch",
           "completeSave"} \subseteq Pc
       /\ {"created", "gone"} \subseteq Phase
  BY DEF Pc, Phase
<1>7. ASSUME NEW c \in Clients, NEW r \in Runs,
             \/ TriggerRun(c, r) \/ AbortRun(c, r) \/ CleanupRun(c, r)
             \/ DeleteRun(c, r)
      PROVE  \A d \in Clients : SoundRequest(client[d])'
  <2>1. NewTestRun(FALSE) \in Row /\ row[r] \in Row
    BY <1>1, RowOps
  <2>2. Sound(r, NewTestRun(FALSE)) /\ Sound(r, row[r])
    BY FreshSound DEF IndInv
  <2>3. ~IsTerminal(NewTestRun(FALSE))
    BY DEF IsTerminal, NewTestRun, NoRow, Terminal
  <2> QED BY <1>4, <1>7, <1>pc, <2>1, <2>2, <2>3
      DEF TriggerRun, AbortRun, CleanupRun, DeleteRun
<1>8. ASSUME NEW c \in Clients, NEW r \in Runs, CompleteRun(c, r)
      PROVE  \A d \in Clients : SoundRequest(client[d])'
  <2>1. CASE UNCHANGED client
    <3>1. PICK q \in Request : q = client[c]
      BY <1>2
    <3>2. SoundRequest(q)' /\ client'[c] = q
      BY <1>1, <1>2, <2>1, <3>1, RequestStays
    <3> QED BY <1>3, <2>1, <3>2, InstallClient
  <2>2. CASE /\ Exists(r) /\ ~IsTerminal(row[r])
             /\ Accept(c, "fetch", r, Start(row[r], FALSE))
    <3>1. pod[r] = "exited" /\ Sound(r, row[r])
      BY <1>8 DEF CompleteRun, IndInv, InOrder
    <3>2. Start(row[r], FALSE) \in Row
      BY <1>1, RowOps
    <3>3. Sound(r, Start(row[r], FALSE)) /\ ~IsTerminal(Start(row[r], FALSE))
      BY <1>1, <2>2, <3>1 DEF Sound, Explained, Coherent, Killed, Start,
         IsTerminal, Terminal, Row, Status
    <3> QED BY <1>4, <1>pc, <2>2, <3>1, <3>2, <3>3
  <2> QED BY <1>8, <2>1, <2>2 DEF CompleteRun
\* The steps of a request in flight: its run r and its copy t are sound.
<1>9. ASSUME NEW c \in Clients, ~At(c, "idle")
      PROVE  \E pc \in Pc, r \in Runs, t \in Row :
               /\ client[c].pc = pc /\ client[c].run = r /\ client[c].snap = t
               /\ Sound(r, t) /\ Sound(r, t)'
  <2>1. PICK pc \in Pc, r \in Runs, t \in Row, ev \in Phase :
          client[c] = [pc |-> pc, run |-> r, snap |-> t, event |-> ev]
    BY <1>1, <1>9, BusyClient
  <2>2. Sound(client[c].run, client[c].snap)
    BY <1>2, <1>9 DEF SoundRequest, At
  <2>3. Sound(r, t)
    BY <2>1, <2>2
  <2>4. Sound(r, t)'
    BY <2>3, SoundStays
  <2> QED BY <2>1, <2>3, <2>4
<1>10. ASSUME NEW c \in Clients, DispatchJob(c) \/ DispatchFails(c)
       PROVE  \A d \in Clients : SoundRequest(client[d])'
  <2>1. ~At(c, "idle") /\ client[c].pc = "dispatch"
    BY <1>10 DEF DispatchJob, DispatchFails, At
  <2>2. PICK r \in Runs, t \in Row :
          client[c].run = r /\ client[c].snap = t /\ Sound(r, t)'
    BY <1>9, <2>1
  <2>3. ~IsTerminal(t)
    BY <1>2, <2>1, <2>2 DEF SoundRequest
  <2>4. CASE DispatchJob(c)
    <3> DEFINE u == [t EXCEPT !.job = TRUE]
    <3>1. u \in Row /\ ~IsTerminal(u)
      BY <2>3 DEF Row, IsTerminal
    <3>2. GoWith(c, "link", u) /\ "created" \in job'[r]
      BY <1>1, <2>2, <2>4 DEF DispatchJob, Enter
    <3>3. Sound(r, u)'
      BY <2>2, <2>3, <3>2, LinkSound
    <3> HIDE DEF u
    <3> QED BY <1>6, <1>pc, <2>1, <2>2, <3>1, <3>2, <3>3
  <2>5. CASE DispatchFails(c)
    <3>1. GoWith(c, "failSave", Fail(t)) /\ r \in refused'
      BY <2>2, <2>5 DEF DispatchFails
    <3>2. Fail(t) \in Row
      BY RowOps
    <3>3. Sound(r, Fail(t))'
      BY <2>2, <2>3, <3>1, RefusedSound
    <3> QED BY <1>6, <1>pc, <2>1, <2>2, <3>1, <3>2, <3>3
  <2> QED BY <1>10, <2>4, <2>5
<1>11. ASSUME NEW c \in Clients, SaveCopy(c) \/ DropRow(c) \/ RequestDies(c)
       PROVE  \A d \in Clients : SoundRequest(client[d])'
  BY <1>5, <1>11 DEF SaveCopy, DropRow, RequestDies
<1>12. ASSUME NEW c \in Clients, KillJob(c)
       PROVE  \A d \in Clients : SoundRequest(client[d])'
  <2>1. ~At(c, "idle")
    BY <1>12 DEF KillJob, AfterKill, At
  <2>2. PICK r \in Runs, t \in Row :
          /\ client[c].run = r /\ client[c].snap = t
          /\ Sound(r, t) /\ Sound(r, t)'
    BY <1>9, <2>1
  <2>3. t.job => "gone" \in job'[r] \/ faults' > 0
    <3>1. t.job => "created" \in job[r]
      BY <2>2 DEF Sound, Explained
    <3> QED BY <1>1, <1>12, <2>2, <3>1, ConstAssumption
        DEF KillJob, AbortJob, JobExists, Enter, Fault
  <2>4. ASSUME ~IsTerminal(t), NEW pc \in {"abortSave", "cleanSave"},
               GoWith(c, pc, Abort(t, "operator"))
        PROVE  \A d \in Clients : SoundRequest(client[d])'
    <3>1. Abort(t, "operator") \in Row
      BY RowOps
    <3>2. Sound(r, Abort(t, "operator"))'
      BY <2>2, <2>3, <2>4, KillSound
    <3> QED BY <1>6, <1>pc, <2>1, <2>2, <2>4, <3>1, <3>2
  <2>5. CASE At(c, "abortKill") /\ GoWith(c, "abortSave", Abort(t, "operator"))
    <3>1. ~IsTerminal(t)
      BY <1>2, <2>1, <2>2, <2>5 DEF SoundRequest, At
    <3> QED BY <2>4, <2>5, <3>1
  <2>6. CASE ~IsTerminal(t) /\ GoWith(c, "cleanSave", Abort(t, "operator"))
    BY <2>4, <2>6
  <2>7. CASE Done(c)
    BY <1>5, <2>7
  <2>8. CASE Go(c, "purge")
    <3>1. GoWith(c, "purge", t)
      <4>1. client[c] \in [pc: Pc, run: Runs, snap: Row, event: Phase]
        BY <1>1, <2>1 DEF At, Request, Idle
      <4>2. [client[c] EXCEPT !.pc = "purge"]
              = [client[c] EXCEPT !.pc = "purge", !.snap = t]
        BY <2>2, <4>1
      <4> QED BY <2>8, <4>2 DEF Go, GoWith
    <3> QED BY <1>6, <1>pc, <2>1, <2>2, <3>1
  <2> QED BY <1>12, <2>2, <2>5, <2>6, <2>7, <2>8 DEF KillJob, AfterKill
<1>13. ASSUME NEW c \in Clients, PurgeReport(c)
       PROVE  \A d \in Clients : SoundRequest(client[d])'
  <2>1. ~At(c, "idle") /\ Go(c, "drop")
    BY <1>13 DEF PurgeReport, At
  <2>2. PICK r \in Runs, t \in Row :
          client[c].run = r /\ client[c].snap = t /\ Sound(r, t)'
    BY <1>9, <2>1
  <2>3. GoWith(c, "drop", t)
    <3>1. client[c] \in [pc: Pc, run: Runs, snap: Row, event: Phase]
      BY <1>1, <2>1 DEF At, Request, Idle
    <3>2. [client[c] EXCEPT !.pc = "drop"]
            = [client[c] EXCEPT !.pc = "drop", !.snap = t]
      BY <2>2, <3>1
    <3> QED BY <2>1, <3>2 DEF Go, GoWith
  <2> QED BY <1>6, <1>pc, <2>1, <2>2, <2>3
<1>14. ASSUME NEW c \in Clients, IngestReport(c)
       PROVE  \A d \in Clients : SoundRequest(client[d])'
  <2>1. ~At(c, "idle") /\ client[c].pc = "fetch"
    BY <1>14 DEF IngestReport, At
  <2>2. PICK r \in Runs, t \in Row :
          client[c].run = r /\ client[c].snap = t /\ Sound(r, t)
    BY <1>9, <2>1
  <2>3. ~IsTerminal(t) /\ pod[r] = "exited"
    BY <1>2, <2>1, <2>2 DEF SoundRequest
  <2>4. \E u \in Row : GoWith(c, "completeSave", u) /\ Sound(r, u)
    <3>1. PICK doc \in Report :
            /\ doc = wrote[r] \/ ~Parses(doc)
            /\ IF Parses(doc)
               THEN GoWith(c, "completeSave", Complete(t, doc, SLAPassed(doc), "object"))
               ELSE GoWith(c, "completeSave", Fail(t))
      BY <1>1, <1>14, <2>2 DEF IngestReport, Report, Parses
    <3>2. Complete(t, doc, SLAPassed(doc), "object") \in Row /\ Fail(t) \in Row
      BY RowOps DEF SLAPassed
    <3> QED BY <1>1, <2>2, <2>3, <3>1, <3>2, IngestSound
  <2>5. PICK u \in Row : GoWith(c, "completeSave", u) /\ Sound(r, u)
    BY <2>4
  <2>6. Sound(r, u)' /\ pod'[r] = "exited"
    BY <2>3, <2>5, SoundStays DEF Stable
  <2> QED BY <1>6, <1>pc, <2>1, <2>2, <2>5, <2>6
<1> QED BY <1>7, <1>8, <1>10, <1>11, <1>12, <1>13, <1>14 DEF ClientNext

\* The steps of others leave a request as it is.
LEMMA ClientsKept ==
  ASSUME IndInv, Stable, UNCHANGED client
  PROVE  \A d \in Clients : SoundRequest(client[d])'
<1>1. SUFFICES ASSUME NEW d \in Clients PROVE SoundRequest(client[d])'
  OBVIOUS
<1>2. PICK q \in Request : q = client[d]
  BY DEF IndInv, TypeOK
<1>3. SoundRequest(q)' /\ client'[d] = q
  BY <1>2, RequestStays DEF IndInv
<1> QED BY <1>3, InstallClient

LEMMA WatcherKept ==
  ASSUME IndInv, Stable, UNCHANGED watcher
  PROVE  SoundRequest(watcher)'
<1>1. PICK q \in Request : q = watcher
  BY DEF IndInv, TypeOK
<1>2. SoundRequest(q)' /\ watcher' = q
  BY <1>1, RequestStays DEF IndInv
<1> QED BY <1>2, InstallWatcher

LEMMA FollowSound ==
  ASSUME IndInv, Stable, NEW r \in Runs, NEW ph \in Phase, NEW t \in Row,
         Sound(r, t), ~IsTerminal(t), ph \in job[r], Follow(r, ph, t)
  PROVE  SoundRequest(watcher)'
<1>0. PICK u \in Row : u = Reflect(r, ph, t)
  BY ReflectType
<1>1. Sound(r, u)
  BY <1>0, ReflectSound DEF IndInv
<1> DEFINE q == [pc |-> "sync", run |-> r, event |-> ph, snap |-> u]
<1>2. q \in Request
  BY DEF Request, Pc
<1>3. SoundRequest(q)
  BY <1>1 DEF SoundRequest
<1>4. SoundRequest(q)'
  BY <1>2, <1>3, RequestStays DEF IndInv
<1>5. watcher' = Idle \/ watcher' = q
  BY <1>0 DEF Follow
<1> HIDE DEF q
<1> QED BY <1>2, <1>4, <1>5, IdleType, IdleSound, InstallWatcher

LEMMA WatcherSound ==
  ASSUME IndInv, Stable, WatcherNext
  PROVE  SoundRequest(watcher)'
<1> USE DEF TypeOK
<1>1. TypeOK
  BY DEF IndInv
<1>2. CASE UNCHANGED watcher
  BY <1>2, WatcherKept
<1>3. CASE watcher' = Idle
  BY <1>3, IdleType, IdleSound, InstallWatcher
<1>4. ASSUME NEW r \in Runs, NEW ph \in Phase, SyncJob(r, ph)
      PROVE  SoundRequest(watcher)'
  <2>1. ph \in job[r]
    BY <1>4 DEF SyncJob, NextEvent, IndInv, InOrder
  <2>2. CASE Exists(r) /\ ~IsTerminal(row[r]) /\ Follow(r, ph, row[r])
    <3>1. PICK t \in Row : t = row[r]
      BY <1>1
    <3>2. Sound(r, t) /\ ~IsTerminal(t) /\ Follow(r, ph, t)
      BY <2>2, <3>1 DEF IndInv
    <3> QED BY <2>1, <3>2, FollowSound
  <2>3. CASE watcher' = [pc |-> "create", run |-> r, event |-> ph,
                         snap |-> NewTestRun(TRUE)]
    <3> DEFINE q == [pc |-> "create", run |-> r, event |-> ph,
                     snap |-> NewTestRun(TRUE)]
    <3>1. q \in Request
      BY RowOps DEF Request, Pc
    <3>2. "created" \in job[r]
      BY <2>1 DEF IndInv, InOrder
    <3>3. Sound(r, NewTestRun(TRUE)) /\ ~IsTerminal(NewTestRun(TRUE))
      BY <3>2 DEF Sound, Explained, Coherent, Killed, NewTestRun, NoRow,
         IsTerminal, Terminal
    <3>4. SoundRequest(q)
      BY <2>1, <3>3 DEF SoundRequest
    <3>5. SoundRequest(q)'
      BY <1>1, <3>1, <3>4, RequestStays
    <3>6. watcher' = q
      BY <2>3
    <3> HIDE DEF q
    <3> QED BY <3>1, <3>5, <3>6, InstallWatcher
  <2> QED BY <1>2, <1>4, <2>2, <2>3 DEF SyncJob
<1>5. CASE CreateScheduledRun
  <2>1. watcher.pc = "create" /\ Follow(watcher.run, watcher.event, watcher.snap)
    BY <1>5 DEF CreateScheduledRun
  <2>2. PICK r \in Runs, ph \in Phase, t \in Row :
          watcher.run = r /\ watcher.event = ph /\ watcher.snap = t
    BY <1>1, <2>1, RequestParts
  <2>3. Sound(r, t) /\ ~IsTerminal(t) /\ ph \in job[r]
    BY <2>1, <2>2 DEF IndInv, SoundRequest
  <2>4. Follow(r, ph, t)
    BY <2>1, <2>2
  <2> QED BY <2>3, <2>4, FollowSound
<1> QED BY <1>2, <1>3, <1>4, <1>5
    DEF WatcherNext, Resync, SaveSync, EventFails, ServerRestarts

\* A step leaves a row alone or writes a copy that was sound before it.
LEMMA RowSound ==
  ASSUME IndInv, Stable, [Next]_vars
  PROVE  \A r \in Runs : Sound(r, row[r])'
<1> USE DEF TypeOK
<1>1. TypeOK
  BY DEF IndInv
<1>2. ASSUME NEW r \in Runs
      PROVE  \E t \in Row : Sound(r, t) /\ row'[r] = t
  <2>1. CASE row'[r] = row[r]
    BY <1>1, <2>1 DEF IndInv
  <2>2. ASSUME NEW s \in Runs, NEW t \in Row, Sound(s, t), Save(s, t)
        PROVE  \E u \in Row : Sound(r, u) /\ row'[r] = u
    <3>1. CASE r = s
      BY <1>1, <2>2, <3>1 DEF Save
    <3>2. CASE r # s
      BY <1>1, <2>1, <2>2, <3>2 DEF Save
    <3> QED BY <3>1, <3>2
  <2>3. ASSUME NEW c \in Clients, NEW s \in Runs, TriggerRun(c, s)
        PROVE  \E u \in Row : Sound(r, u) /\ row'[r] = u
    BY <2>2, <2>3, FreshSound, RowOps DEF TriggerRun
  <2>4. ASSUME NEW c \in Clients, SaveCopy(c) \/ DropRow(c)
        PROVE  \E u \in Row : Sound(r, u) /\ row'[r] = u
    <3>1. client[c].pc # "idle"
      BY <2>4 DEF SaveCopy, DropRow, At
    <3>2. PICK s \in Runs, t \in Row : client[c].run = s /\ client[c].snap = t
      BY <1>1, <3>1, RequestParts
    <3>3. Sound(s, t)
      BY <3>1, <3>2 DEF IndInv, SoundRequest
    <3>4. Save(s, t) \/ Save(s, NoRow)
      BY <2>4, <3>2 DEF SaveCopy, DropRow
    <3> QED BY <2>2, <3>3, <3>4, FreshSound, RowOps
  <2>5. CASE CreateScheduledRun \/ SaveSync
    <3>1. watcher.pc # "idle"
      BY <2>5 DEF CreateScheduledRun, SaveSync
    <3>2. PICK s \in Runs, t \in Row : watcher.run = s /\ watcher.snap = t
      BY <1>1, <3>1, RequestParts
    <3>3. Sound(s, t)
      BY <3>1, <3>2 DEF IndInv, SoundRequest
    <3>4. Save(s, t)
      BY <2>5, <3>2 DEF CreateScheduledRun, SaveSync
    <3> QED BY <2>2, <3>3, <3>4
  <2>6. CASE UNCHANGED row
    BY <2>1, <2>6
  <2> QED BY <2>3, <2>4, <2>5, <2>6
      DEF Next, vars, ClientNext, ClusterNext, WatcherNext, AbortRun, CleanupRun,
          DeleteRun, CompleteRun, DispatchJob, DispatchFails, KillJob,
          PurgeReport, IngestReport, RequestDies, CronFires, PodStarts,
          UploadReport, SendCallback, PodKilled, JobEnds, JobDeleted, world,
          SyncJob, Resync, EventFails, ServerRestarts
<1>3. ASSUME NEW r \in Runs
      PROVE  Sound(r, row[r])'
  <2>1. PICK t \in Row : Sound(r, t) /\ row'[r] = t
    BY <1>2
  <2>2. Sound(r, t)'
    BY <2>1, SoundStays
  <2> QED BY <2>1, <2>2 DEF Sound, Explained, Coherent, Killed
<1> QED BY <1>3

\* Rows and copies stay sound together: what a handler read late it may write
\* late without writing anything false.
THEOREM Inductive == Spec => []IndInv
<1>1. Init => IndInv
  <2> SUFFICES ASSUME Init PROVE IndInv
    OBVIOUS
  <2>1. TypeOK
    BY RowOps, IdleType, ConstAssumption DEF Init, TypeOK, PodState, Report
  <2>2. \A r \in Runs : InOrder(r) /\ Sound(r, row[r])
    BY FreshSound DEF Init, InOrder
  <2>3. (\A c \in Clients : SoundRequest(client[c])) /\ SoundRequest(watcher)
    BY DEF Init, SoundRequest, Idle
  <2> QED BY <2>1, <2>2, <2>3 DEF IndInv
<1>2. IndInv /\ [Next]_vars => IndInv'
  <2> SUFFICES ASSUME IndInv, [Next]_vars PROVE IndInv'
    OBVIOUS
  <2>1. TypeOK /\ \A r \in Runs : InOrder(r)
    BY DEF IndInv
  <2>2. TypeOK'
    <3>1. CASE UNCHANGED vars
      BY <2>1, <3>1 DEF TypeOK, vars
    <3> QED BY <2>1, <3>1, ClientTypes, ClusterTypes, WatcherTypes DEF Next
  <2>3. Stable
    BY <2>1, StepStable
  <2>4. \A r \in Runs : InOrder(r)'
    BY <2>1, InOrderStep
  <2>5. \A r \in Runs : Sound(r, row[r])'
    BY <2>3, RowSound
  <2>6. \A c \in Clients : SoundRequest(client[c])'
    <3>1. CASE ClientNext
      BY <2>2, <2>3, <3>1, ClientSound
    <3>2. CASE UNCHANGED client
      BY <2>3, <3>2, ClientsKept
    <3>3. CASE ServerRestarts
      <4>1. \A c \in Clients : client'[c] = Idle
        BY <3>3 DEF ServerRestarts
      <4> QED BY <4>1, IdleType, IdleSound, InstallClient
    <3> QED BY <3>1, <3>2, <3>3
        DEF Next, vars, ClusterNext, WatcherNext, CronFires, PodStarts,
            UploadReport, SendCallback, PodKilled, JobEnds, JobDeleted, world,
            SyncJob, Resync, CreateScheduledRun, SaveSync, EventFails, aside
  <2>7. SoundRequest(watcher)'
    <3>1. CASE WatcherNext
      BY <2>3, <3>1, WatcherSound
    <3>2. CASE UNCHANGED watcher
      BY <2>3, <3>2, WatcherKept
    <3> QED BY <3>1, <3>2
        DEF Next, vars, ClusterNext, ClientNext, CronFires, PodStarts,
            UploadReport, SendCallback, PodKilled, JobEnds, JobDeleted, world,
            TriggerRun, AbortRun, CleanupRun, DeleteRun, CompleteRun,
            DispatchJob, DispatchFails, SaveCopy, KillJob, PurgeReport, DropRow,
            IngestReport, RequestDies
  <2> QED BY <2>2, <2>4, <2>5, <2>6, <2>7 DEF IndInv
<1> QED BY <1>1, <1>2, PTL DEF Spec

\* Every outcome a row shows has the cause the row names.
THEOREM OutcomesHaveCauses == Spec => []OutcomeHasCause
<1>1. IndInv => OutcomeHasCause
  BY DEF IndInv, Sound, OutcomeHasCause
<1> QED BY <1>1, Inductive, PTL

\* No interleaving of the writers mixes the columns of two outcomes.
THEOREM NoMixedOutcomes == Spec => []OneOutcomePerRow
<1>1. IndInv => OneOutcomePerRow
  BY DEF IndInv, Sound, OneOutcomePerRow
<1> QED BY <1>1, Inductive, PTL

\* An operator's abort that is on record has deleted the Job it knew of.
THEOREM AbortsKill == Spec => []AbortKillsJob
<1>1. IndInv => AbortKillsJob
  BY DEF IndInv, Sound, AbortKillsJob
<1> QED BY <1>1, Inductive, PTL

-----------------------------------------------------------------------------
(* Finality: what a step may never do to a run that no handler holds       *)

\* What a handler's step makes of its own request.
LEMMA GoFields ==
  ASSUME TypeOK, NEW c \in Clients, NEW pc, NEW t, client[c].pc # "idle",
         Go(c, pc) \/ GoWith(c, pc, t)
  PROVE  /\ client'[c].pc = pc /\ client'[c].run = client[c].run
         /\ GoWith(c, pc, t) => client'[c].snap = t
         /\ \A d \in Clients \ {c} : client'[d] = client[d]
<1>1. client \in [Clients -> Request]
  BY DEF TypeOK
<1> PICK q \in [pc: Pc, run: Runs, snap: Row, event: Phase] : q = client[c]
  BY <1>1 DEF Request, Idle
<1>2. CASE Go(c, pc)
  <2> PICK p : p = [q EXCEPT !.pc = pc]
    OBVIOUS
  <2>1. client' = [client EXCEPT ![c] = p]
    BY <1>1, <1>2 DEF Go
  <2>2. p.pc = pc /\ p.run = q.run
    OBVIOUS
  <2>3. client'[c] = p /\ \A d \in Clients \ {c} : client'[d] = client[d]
    BY <1>1, <2>1
  <2>4. CASE GoWith(c, pc, t)
    <3>1. client'[c].snap = t
      BY <1>1, <2>4 DEF GoWith
    <3> QED BY <2>2, <2>3, <3>1
  <2> QED BY <2>2, <2>3, <2>4
<1>3. CASE GoWith(c, pc, t)
  <2> PICK p : p = [q EXCEPT !.pc = pc, !.snap = t]
    OBVIOUS
  <2>1. client' = [client EXCEPT ![c] = p]
    BY <1>1, <1>3 DEF GoWith
  <2>2. p.pc = pc /\ p.run = q.run /\ p.snap = t
    OBVIOUS
  <2>3. client'[c] = p /\ \A d \in Clients \ {c} : client'[d] = client[d]
    BY <1>1, <2>1
  <2> QED BY <2>2, <2>3
<1> QED BY <1>2, <1>3

LEMMA AcceptFields ==
  ASSUME TypeOK, NEW c \in Clients, NEW pc, NEW r, NEW t, Accept(c, pc, r, t)
  PROVE  /\ client'[c].pc = pc /\ client'[c].run = r /\ client'[c].snap = t
         /\ \A d \in Clients \ {c} : client'[d] = client[d]
<1> PICK p : p = [Idle EXCEPT !.pc = pc, !.run = r, !.snap = t]
  OBVIOUS
<1>1. p.pc = pc /\ p.run = r /\ p.snap = t
  BY DEF Idle
<1>2. client' = [client EXCEPT ![c] = p] /\ client \in [Clients -> Request]
  BY DEF Accept, TypeOK
<1> QED BY <1>1, <1>2

\* The request of client c is accepted for run s ..
TakesOn(c, s) ==
  /\ client'[c].run = s
  /\ \/ /\ s \notin used /\ s \in used' /\ used \subseteq used'
        /\ origin[s] = "manual"
        /\ \A r \in Runs \ {s} : row'[r] = row[r]
     \/ /\ Exists(s) /\ UNCHANGED <<row, used>>
        /\ IsTerminal(row[s]) => ~Holds(client'[c], s)

\* .. goes on, holding its run only if it held it before ..
GoesOn(c) ==
  /\ client[c].pc # "idle" /\ client'[c].run = client[c].run
  /\ Holds(client'[c], client[c].run) => Holds(client[c], client[c].run)
  /\ UNCHANGED <<row, used>>

\* .. or ends, with a last write to the row it held.
Ends(c) ==
  /\ client'[c] = Idle /\ UNCHANGED used
  /\ \/ UNCHANGED row
     \/ /\ client[c].pc # "idle"
        /\ \A r \in Runs \ {client[c].run} : row'[r] = row[r]
        /\ \/ Holds(client[c], client[c].run)
           \/ client[c].run \in Runs => row'[client[c].run] = NoRow

LEMMA ClientMoves ==
  ASSUME TypeOK, ClientNext
  PROVE  \E c \in Clients :
           /\ \A d \in Clients \ {c} : client'[d] = client[d]
           /\ \/ \E s \in Runs : TakesOn(c, s)
              \/ GoesOn(c)
              \/ Ends(c)
              \/ UNCHANGED <<client, row, used>>
<1> DEFINE Moves(c) ==
           /\ \A d \in Clients \ {c} : client'[d] = client[d]
           /\ \/ \E s \in Runs : TakesOn(c, s)
              \/ GoesOn(c)
              \/ Ends(c)
              \/ UNCHANGED <<client, row, used>>
<1>t. client \in [Clients -> Request] /\ row \in [Runs -> Row]
  BY DEF TypeOK
<1>d. ASSUME NEW c \in Clients, Done(c)
      PROVE  client'[c] = Idle /\ \A d \in Clients \ {c} : client'[d] = client[d]
  BY <1>t, <1>d DEF Done
<1>1. ASSUME NEW c \in Clients, NEW s \in Runs, TriggerRun(c, s)
      PROVE  Moves(c)
  <2>1. Accept(c, "dispatch", s, NewTestRun(FALSE)) /\ Save(s, NewTestRun(FALSE))
    BY <1>1 DEF TriggerRun
  <2>2. TakesOn(c, s)
    BY <1>1, <1>t, <2>1, AcceptFields DEF TriggerRun, TakesOn, Save
  <2> QED BY <2>1, <2>2, AcceptFields
<1>2. ASSUME NEW c \in Clients, NEW s \in Runs,
             AbortRun(c, s) \/ CleanupRun(c, s) \/ DeleteRun(c, s)
      PROVE  Moves(c)
  <2>1. PICK pc : /\ Accept(c, pc, s, row[s])
                  /\ pc \in {"abortKill", "cleanKill", "deleteKill"}
                  /\ pc = "abortKill" => ~IsTerminal(row[s])
    BY <1>2 DEF AbortRun, CleanupRun, DeleteRun
  <2>2. Exists(s) /\ UNCHANGED <<row, used>>
    BY <1>2 DEF AbortRun, CleanupRun, DeleteRun, Exists, IsTerminal, Terminal
  <2>3. IsTerminal(row[s]) => ~Holds(client'[c], s)
    BY <2>1, AcceptFields DEF Holds
  <2>4. TakesOn(c, s)
    BY <2>1, <2>2, <2>3, AcceptFields DEF TakesOn
  <2> QED BY <2>1, <2>4, AcceptFields
<1>3. ASSUME NEW c \in Clients, NEW s \in Runs, CompleteRun(c, s)
      PROVE  Moves(c)
  <2>1. CASE Exists(s) /\ ~IsTerminal(row[s])
    <3>1. Accept(c, "fetch", s, Start(row[s], FALSE)) /\ UNCHANGED <<row, used>>
      BY <1>3, <2>1 DEF CompleteRun
    <3>2. TakesOn(c, s)
      BY <2>1, <3>1, AcceptFields DEF TakesOn
    <3> QED BY <3>1, <3>2, AcceptFields
  <2>2. CASE ~(Exists(s) /\ ~IsTerminal(row[s]))
    BY <1>3, <2>2 DEF CompleteRun
  <2> QED BY <2>1, <2>2
<1>4. ASSUME NEW c \in Clients, NEW pc, NEW t, client[c].pc # "idle",
             Go(c, pc) \/ GoWith(c, pc, t), UNCHANGED <<row, used>>,
             \/ Holds(client[c], client[c].run)
             \/ pc \in {"purge", "drop"}
      PROVE  Moves(c)
  <2>1. /\ client'[c].pc = pc /\ client'[c].run = client[c].run
        /\ \A d \in Clients \ {c} : client'[d] = client[d]
    BY <1>4, GoFields
  <2>2. GoesOn(c)
    BY <1>4, <2>1 DEF GoesOn, Holds
  <2> QED BY <2>1, <2>2
<1>5. ASSUME NEW c \in Clients, DispatchJob(c) \/ DispatchFails(c) \/ IngestReport(c)
      PROVE  Moves(c)
  <2>1. client[c].pc # "idle" /\ Holds(client[c], client[c].run)
    BY <1>5 DEF DispatchJob, DispatchFails, IngestReport, At, Holds
  <2>2. /\ \E pc, t : GoWith(c, pc, t)
        /\ UNCHANGED <<row, used>>
    BY <1>5 DEF DispatchJob, DispatchFails, IngestReport
  <2> QED BY <1>4, <2>1, <2>2
<1>6. ASSUME NEW c \in Clients, KillJob(c)
      PROVE  Moves(c)
  <2>1. UNCHANGED <<row, used>> /\ AfterKill(c)
    BY <1>6 DEF KillJob
  <2>2. CASE \/ At(c, "abortKill")
             \/ At(c, "cleanKill") /\ ~IsTerminal(client[c].snap)
    <3>1. client[c].pc # "idle" /\ Holds(client[c], client[c].run)
      BY <2>2 DEF At, Holds
    <3>2. \E pc, t : GoWith(c, pc, t)
      BY <2>1, <2>2 DEF AfterKill, At
    <3> QED BY <1>4, <2>1, <3>1, <3>2
  <2>3. CASE At(c, "cleanKill") /\ IsTerminal(client[c].snap)
    <3>1. Done(c)
      BY <2>1, <2>3 DEF AfterKill, At
    <3> QED BY <1>d, <2>1, <3>1 DEF Ends
  <2>4. CASE At(c, "deleteKill")
    <3>1. Go(c, "purge") /\ client[c].pc # "idle"
      BY <2>1, <2>4 DEF AfterKill, At
    <3> QED BY <1>4, <2>1, <3>1
  <2> QED BY <2>1, <2>2, <2>3, <2>4 DEF AfterKill
<1>7. ASSUME NEW c \in Clients, PurgeReport(c)
      PROVE  Moves(c)
  <2>1. client[c].pc # "idle" /\ Go(c, "drop") /\ UNCHANGED <<row, used>>
    BY <1>7 DEF PurgeReport, At
  <2> QED BY <1>4, <2>1
<1>8. ASSUME NEW c \in Clients, SaveCopy(c)
      PROVE  Moves(c)
  <2>1. /\ client[c].pc # "idle" /\ Holds(client[c], client[c].run)
        /\ \A r \in Runs \ {client[c].run} : row'[r] = row[r]
    BY <1>8, <1>t DEF SaveCopy, Holds, Save
  <2>2. Done(c) /\ UNCHANGED used
    BY <1>8 DEF SaveCopy
  <2> QED BY <1>d, <2>1, <2>2 DEF Ends
<1>9. ASSUME NEW c \in Clients, DropRow(c)
      PROVE  Moves(c)
  <2>1. /\ client[c].pc # "idle"
        /\ \A r \in Runs \ {client[c].run} : row'[r] = row[r]
        /\ client[c].run \in Runs => row'[client[c].run] = NoRow
    BY <1>9, <1>t DEF DropRow, At, Save
  <2>2. Done(c) /\ UNCHANGED used
    BY <1>9 DEF DropRow
  <2> QED BY <1>d, <2>1, <2>2 DEF Ends
<1>10. ASSUME NEW c \in Clients, RequestDies(c)
       PROVE  Moves(c)
  <2>1. Done(c) /\ UNCHANGED <<row, used>>
    BY <1>10 DEF RequestDies
  <2> QED BY <1>d, <2>1 DEF Ends
<1> QED BY <1>1, <1>2, <1>3, <1>5, <1>6, <1>7, <1>8, <1>9, <1>10 DEF ClientNext

\* The same of the watcher: an event makes it take on a run it may follow, it goes
\* on with that run, or it rests after a last write to the row it held.
WatcherTakesOn(s) ==
  /\ watcher'.run = s /\ UNCHANGED row
  /\ \/ Exists(s) /\ ~IsTerminal(row[s])
     \/ ~Exists(s) /\ origin[s] = "schedule"

WatcherWrites ==
  /\ Holds(watcher, watcher.run) /\ watcher.pc # "idle"
  /\ watcher' = Idle \/ watcher'.run = watcher.run
  /\ \A r \in Runs \ {watcher.run} : row'[r] = row[r]

LEMMA FollowMoves ==
  ASSUME NEW r, NEW ph, NEW t, Follow(r, ph, t)
  PROVE  watcher' = Idle \/ watcher'.run = r
BY DEF Follow

LEMMA WatcherMoves ==
  ASSUME TypeOK, WatcherNext
  PROVE  /\ UNCHANGED <<origin, used>>
         /\ UNCHANGED client \/ \A c \in Clients : client'[c] = Idle
         /\ \/ \E s \in Runs : WatcherTakesOn(s)
            \/ WatcherWrites
            \/ UNCHANGED row /\ watcher' \in {watcher, Idle}
<1>1. ASSUME NEW s \in Runs, NEW ph \in Phase, SyncJob(s, ph)
      PROVE  /\ UNCHANGED <<origin, used, client, row>>
             /\ WatcherTakesOn(s) \/ watcher' \in {watcher, Idle}
  <2>1. UNCHANGED <<origin, used, client, row>>
    BY <1>1 DEF SyncJob, aside, external
  <2>2. CASE Exists(s) /\ ~IsTerminal(row[s]) /\ Follow(s, ph, row[s])
    BY <2>1, <2>2, FollowMoves DEF WatcherTakesOn
  <2>3. CASE /\ MustCreate(s, ph)
             /\ watcher' = [pc |-> "create", run |-> s, event |-> ph,
                            snap |-> NewTestRun(TRUE)]
    <3>1. watcher'.run = s
      BY <2>3
    <3> QED BY <2>1, <2>3, <3>1 DEF WatcherTakesOn, MustCreate
  <2> QED BY <1>1, <2>1, <2>2, <2>3 DEF SyncJob
<1>2. CASE CreateScheduledRun \/ SaveSync
  <2>1. Holds(watcher, watcher.run) /\ watcher.pc # "idle"
    BY <1>2 DEF CreateScheduledRun, SaveSync, Holds
  <2>2. watcher' = Idle \/ watcher'.run = watcher.run
    BY <1>2, FollowMoves DEF CreateScheduledRun, SaveSync
  <2>3. \A r \in Runs \ {watcher.run} : row'[r] = row[r]
    BY <1>2 DEF CreateScheduledRun, SaveSync, Save, TypeOK
  <2>4. UNCHANGED <<origin, used, client>>
    BY <1>2 DEF CreateScheduledRun, SaveSync, aside, external
  <2> QED BY <2>1, <2>2, <2>3, <2>4 DEF WatcherWrites
<1>3. CASE EventFails \/ \E r \in Runs, ph \in Phase : Resync(r, ph)
  <2>1. UNCHANGED <<origin, used, client, row>> /\ watcher' \in {watcher, Idle}
    BY <1>3 DEF EventFails, Resync, aside, external
  <2> QED BY <2>1
<1>4. CASE ServerRestarts
  <2>1. /\ UNCHANGED <<origin, used, row>> /\ watcher' = Idle
        /\ \A c \in Clients : client'[c] = Idle
    BY <1>4 DEF ServerRestarts, external
  <2> QED BY <2>1
<1> QED BY <1>1, <1>2, <1>3, <1>4 DEF WatcherNext


\* A manual run that has a row, or that a handler works on, was triggered.
IssuedInv ==
  /\ \A r \in Runs : Exists(r) /\ origin[r] = "manual" => r \in used
  /\ \A c \in Clients :
       client[c].pc # "idle" /\ origin[client[c].run] = "manual" =>
         client[c].run \in used
  /\ watcher.pc # "idle" /\ origin[watcher.run] = "manual" => watcher.run \in used

LEMMA IdleRests == Idle.pc = "idle"
BY DEF Idle

LEMMA IssuedStep ==
  ASSUME TypeOK, IssuedInv, [Next]_vars
  PROVE  IssuedInv'
<1>1. CASE ClientNext
  <2>1. UNCHANGED <<origin, watcher>>
    BY <1>1 DEF ClientNext, TriggerRun, AbortRun, CleanupRun, DeleteRun, CompleteRun,
       DispatchJob, DispatchFails, SaveCopy, KillJob, PurgeReport, DropRow,
       IngestReport, RequestDies, external
  <2>2. PICK c \in Clients :
           /\ \A d \in Clients \ {c} : client'[d] = client[d]
           /\ \/ \E s \in Runs : TakesOn(c, s)
              \/ GoesOn(c)
              \/ Ends(c)
              \/ UNCHANGED <<client, row, used>>
    BY <1>1, ClientMoves
  <2>3. ASSUME NEW s \in Runs, TakesOn(c, s)
        PROVE  IssuedInv'
    <3>1. used \subseteq used' /\ (origin[s] = "manual" => s \in used')
      BY <2>3 DEF TakesOn, IssuedInv
    <3>2. \A r \in Runs : Exists(r)' /\ origin[r] = "manual" => r \in used'
      BY <2>3, <3>1 DEF TakesOn, IssuedInv, Exists
    <3>3. client'[c].run = s
      BY <2>3 DEF TakesOn
    <3> QED BY <2>1, <2>2, <3>1, <3>2, <3>3 DEF IssuedInv
  <2>4. CASE GoesOn(c)
    BY <2>1, <2>2, <2>4 DEF GoesOn, IssuedInv, Exists
  <2>5. CASE Ends(c)
    <3>1. \A r \in Runs : Exists(r)' /\ origin[r] = "manual" => r \in used'
      <4>1. client[c].pc # "idle" /\ origin[client[c].run] = "manual" =>
              client[c].run \in used
        BY DEF IssuedInv
      <4> QED BY <2>5, <4>1 DEF Ends, IssuedInv, Exists
    <3>2. client'[c].pc = "idle" /\ UNCHANGED used
      BY <2>5, IdleRests DEF Ends
    <3> QED BY <2>1, <2>2, <3>1, <3>2 DEF IssuedInv
  <2>6. CASE UNCHANGED <<client, row, used>>
    BY <2>1, <2>6 DEF IssuedInv, Exists
  <2> QED BY <2>2, <2>3, <2>4, <2>5, <2>6
<1>2. CASE WatcherNext
  <2>1. /\ UNCHANGED <<origin, used>>
        /\ \A c \in Clients : client'[c] \in {client[c], Idle}
    BY <1>2, WatcherMoves
  <2>2. \A c \in Clients :
          client'[c].pc # "idle" /\ origin'[client'[c].run] = "manual" =>
            client'[c].run \in used'
    BY <2>1, IdleRests DEF IssuedInv
  <2>3. ASSUME NEW s \in Runs, WatcherTakesOn(s)
        PROVE  IssuedInv'
    BY <2>1, <2>2, <2>3 DEF WatcherTakesOn, IssuedInv, Exists
  <2>4. CASE WatcherWrites
    BY <2>1, <2>2, <2>4, IdleRests DEF WatcherWrites, IssuedInv, Exists
  <2>5. CASE UNCHANGED row /\ watcher' \in {watcher, Idle}
    BY <2>1, <2>2, <2>5, IdleRests DEF IssuedInv, Exists
  <2> QED BY <1>2, <2>3, <2>4, <2>5, WatcherMoves
<1>3. CASE ClusterNext \/ UNCHANGED vars
  <2>1. UNCHANGED <<origin, row, used, client, watcher>>
    BY <1>3 DEF ClusterNext, CronFires, PodStarts, UploadReport, SendCallback,
       PodKilled, JobEnds, JobDeleted, world, vars
  <2> QED BY <2>1 DEF IssuedInv, Exists
<1> QED BY <1>1, <1>2, <1>3 DEF Next

\* No handler has a copy of r that it will write.
NoHolder(r) == (\A c \in Clients : ~Holds(client[c], r)) /\ ~Holds(watcher, r)

LEMMA IdleHoldsNothing == \A r : ~Holds(Idle, r)
BY DEF Idle, Holds

\* A run nobody holds, that is over or deleted: no handler takes a copy of it, and
\* all a step can do to its row is delete it.
LEMMA NobodyTakesIt ==
  ASSUME TypeOK, NEW r \in Runs, NoHolder(r), [Next]_vars,
         IsTerminal(row[r]) \/ ~Exists(r),
         Exists(r) \/ origin[r] = "manual",
         r \in used \/ origin[r] # "manual"
  PROVE  NoHolder(r)' /\ row'[r] \in {row[r], NoRow}
<1>1. CASE ClientNext
  <2>1. UNCHANGED watcher
    BY <1>1 DEF ClientNext, TriggerRun, AbortRun, CleanupRun, DeleteRun, CompleteRun,
       DispatchJob, DispatchFails, SaveCopy, KillJob, PurgeReport, DropRow,
       IngestReport, RequestDies
  <2>2. PICK c \in Clients :
           /\ \A d \in Clients \ {c} : client'[d] = client[d]
           /\ \/ \E s \in Runs : TakesOn(c, s)
              \/ GoesOn(c)
              \/ Ends(c)
              \/ UNCHANGED <<client, row, used>>
    BY <1>1, ClientMoves
  <2>3. ~Holds(client[c], r)
    BY DEF NoHolder
  <2>4. ~Holds(client'[c], r) /\ row'[r] \in {row[r], NoRow}
    <3>1. ASSUME NEW s \in Runs, TakesOn(c, s)
          PROVE  ~Holds(client'[c], r) /\ row'[r] \in {row[r], NoRow}
      <4>1. CASE s = r
        BY <3>1, <4>1 DEF TakesOn
      <4>2. CASE s # r
        BY <3>1, <4>2 DEF TakesOn, Holds
      <4> QED BY <4>1, <4>2
    <3>2. CASE GoesOn(c)
      BY <2>3, <3>2 DEF GoesOn, Holds
    <3>3. CASE Ends(c)
      BY <2>3, <3>3, IdleHoldsNothing DEF Ends
    <3>4. CASE UNCHANGED <<client, row, used>>
      BY <2>3, <3>4
    <3> QED BY <2>2, <3>1, <3>2, <3>3, <3>4
  <2> QED BY <2>1, <2>2, <2>4 DEF NoHolder
<1>2. CASE WatcherNext
  <2>1. \A c \in Clients : ~Holds(client'[c], r)
    BY <1>2, WatcherMoves, IdleHoldsNothing DEF NoHolder
  <2>2. ~Holds(watcher, r)
    BY DEF NoHolder
  <2>3. ~Holds(watcher', r) /\ row'[r] \in {row[r], NoRow}
    <3>1. ASSUME NEW s \in Runs, WatcherTakesOn(s)
          PROVE  ~Holds(watcher', r) /\ row'[r] \in {row[r], NoRow}
      <4>1. s # r
        BY <3>1 DEF WatcherTakesOn
      <4> QED BY <3>1, <4>1 DEF WatcherTakesOn, Holds
    <3>2. CASE WatcherWrites
      <4>1. watcher.run # r
        BY <2>2, <3>2 DEF WatcherWrites
      <4> QED BY <3>2, <4>1, IdleHoldsNothing DEF WatcherWrites, Holds
    <3>3. CASE UNCHANGED row /\ watcher' \in {watcher, Idle}
      BY <2>2, <3>3, IdleHoldsNothing
    <3> QED BY <1>2, <3>1, <3>2, <3>3, WatcherMoves
  <2> QED BY <2>1, <2>3 DEF NoHolder
<1>3. CASE ClusterNext \/ UNCHANGED vars
  <2>1. UNCHANGED <<row, client, watcher>>
    BY <1>3 DEF ClusterNext, CronFires, PodStarts, UploadReport, SendCallback,
       PodKilled, JobEnds, JobDeleted, world, vars
  <2> QED BY <2>1 DEF NoHolder
<1> QED BY <1>1, <1>2, <1>3 DEF Next

\* Identifiers are handed out before anything is written about a run.
THEOREM Issued == Spec => []IssuedInv
<1>1. Init => IssuedInv
  BY IdleRests DEF Init, IssuedInv, Exists, NoRow
<1> QED BY <1>1, IssuedStep, TypeCorrect, PTL DEF Spec

LEMMA UsedOnlyGrows ==
  ASSUME [Next]_vars
  PROVE  used \subseteq used' /\ UNCHANGED origin
BY DEF Next, vars, ClientNext, ClusterNext, WatcherNext, TriggerRun, AbortRun,
       CleanupRun, DeleteRun, CompleteRun, DispatchJob, DispatchFails, SaveCopy,
       KillJob, PurgeReport, DropRow, IngestReport, RequestDies, CronFires,
       PodStarts, UploadReport, SendCallback, PodKilled, JobEnds, JobDeleted,
       world, external, SyncJob, Resync, CreateScheduledRun, SaveSync, EventFails,
       ServerRestarts, aside

\* A terminal row that no handler holds a copy of is never written again: every
\* handler looks at IsTerminal after it read the row and before it takes a copy
\* to save; only DeleteRun removes it.
THEOREM QuietRunsAreFinal == Spec => QuietRunIsFinal
<1>1. TypeOK /\ IssuedInv /\ [Next]_vars =>
        [\A r \in Runs : Quiet(r) =>
            \/ row'[r] = row[r] /\ Quiet(r)'
            \/ row'[r] = NoRow]_vars
  <2> SUFFICES ASSUME TypeOK, IssuedInv, [Next]_vars, NEW r \in Runs, Quiet(r),
                      row'[r] # NoRow
               PROVE  row'[r] = row[r] /\ Quiet(r)'
    OBVIOUS
  <2>1. NoHolder(r) /\ IsTerminal(row[r]) /\ Exists(r)
    BY DEF Quiet, NoHolder, IsTerminal, Exists, Terminal
  <2>2. r \in used \/ origin[r] # "manual"
    BY <2>1 DEF IssuedInv
  <2>3. NoHolder(r)' /\ row'[r] = row[r]
    BY <2>1, <2>2, NobodyTakesIt
  <2> QED BY <2>3 DEF Quiet, NoHolder
<1> QED BY <1>1, TypeCorrect, Issued, PTL DEF Spec, QuietRunIsFinal

\* A deleted manual run does not come back: TriggerRun makes a new identifier, and
\* SyncJob creates rows for scheduled Jobs only.
THEOREM DeletedRunsStayDeleted == Spec => DeletedRunStaysDeleted
<1>1. TypeOK /\ [Next]_vars =>
        [\A r \in Runs : Forgotten(r) => Forgotten(r)']_vars
  <2> SUFFICES ASSUME TypeOK, [Next]_vars, NEW r \in Runs, Forgotten(r)
               PROVE  Forgotten(r)'
    OBVIOUS
  <2>1. NoHolder(r) /\ ~Exists(r) /\ r \in used /\ origin[r] = "manual"
    BY DEF Forgotten, NoHolder
  <2>2. NoHolder(r)' /\ row'[r] \in {row[r], NoRow}
    BY <2>1, NobodyTakesIt
  <2>3. ~Exists(r)'
    BY <2>1, <2>2 DEF Exists, NoRow
  <2>4. r \in used' /\ origin'[r] = "manual"
    BY <2>1, UsedOnlyGrows
  <2> QED BY <2>2, <2>3, <2>4 DEF Forgotten, NoHolder
<1> QED BY <1>1, TypeCorrect, PTL DEF Spec, DeletedRunStaysDeleted
=============================================================================
