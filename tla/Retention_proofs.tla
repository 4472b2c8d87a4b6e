-------------------------- MODULE Retention_proofs --------------------------
(***************************************************************************)
(* Proofs about ArtifactBuild, alone and with Retention, for any artifacts,*)
(* requests, goroutines, runs and policies.  Requests and goroutines write *)
(* back copies of a row they read long before, so the invariant says what  *)
(* each copy is worth by the point its owner has reached; no copy has to   *)
(* agree with the row.                                                     *)
(***************************************************************************)
EXTENDS Retention, FiniteSetTheorems, WellFoundedInduction, TLAPS

\* Lowest returns a member of its argument, the least one.
LEMMA LowestMember ==
  ASSUME NEW S \in SUBSET Nat, S # {}
  PROVE  Lowest(S) \in S /\ \A y \in S : Lowest(S) <= y
<1>1. IsWellFoundedOn(OpToRel(<, Nat), Nat)
  BY NatLessThanWellFounded
<1>2. \E x \in S : \A y \in S : ~(<<y, x>> \in OpToRel(<, Nat))
  BY <1>1, WFMin
<1>3. ASSUME NEW x \in S, NEW y \in S, ~(<<y, x>> \in OpToRel(<, Nat))
      PROVE  x <= y
  BY <1>3 DEF OpToRel
<1>4. \E x \in S : \A y \in S : x <= y
  BY <1>2, <1>3
<1> QED BY <1>4 DEF Lowest

-----------------------------------------------------------------------------
(* Builds: what a row, and a copy of one, may say                          *)

\* A row of artifact a that is honest: ok is whether a Job of a has succeeded.
Sound(r, ok) ==
  /\ r.key => r.status = "READY"
  /\ r.status = "READY" => ok

\* A row no build has finished: it is honest whatever the Jobs did.
Unfinished(r) == r.status # "READY" /\ ~r.key

\* A request saves only copies it made of a row that was not READY.
RequestOK(q) ==
  /\ q.pc \in {"kill", "cancelSave", "retrySave"} => Unfinished(q.copy)
  /\ q.pc \in {"kill", "cancelSave", "retrySave", "deleteObjects", "deleteRow"} =>
       q.art \in Artifacts
  /\ \A e \in q.plan : Unfinished(e.row)

\* A goroutine carries an unfinished copy until it has seen its Job succeed;
\* done: the artifacts one of whose Jobs has.
BuilderOK(w, done) ==
  /\ w.pc # "idle" => w.art \in Artifacts
  /\ w.pc \in {"mark", "prune", "create", "wait"} => Unfinished(w.copy)
  /\ w.pc = "outcome" => Sound(w.copy, w.art \in done)

TableOK ==
  /\ art \in [Artifacts -> Row] /\ issued \in 0 .. NArtifacts
  /\ \A a \in Artifacts : Sound(art[a], a \in built)
ClusterOK ==
  /\ job \in [Artifacts -> JobState]
  /\ built \subseteq Artifacts /\ binary \subseteq Artifacts
  /\ \A a \in Artifacts : job[a] = "succeeded" => a \in built
RequestsOK ==
  /\ request \in [Clients -> Request]
  /\ \A c \in Clients : RequestOK(request[c])
BuildersOK ==
  /\ builder \in [Builders -> Builder]
  /\ \A b \in Builders : BuilderOK(builder[b], built)
FaultsOK == faults \in 0 .. MaxFaults

RowsInv == TableOK /\ ClusterOK /\ RequestsOK /\ BuildersOK /\ FaultsOK

-----------------------------------------------------------------------------
(* The aggregate's methods                                                 *)

LEMMA RowMethods ==
  ASSUME NEW r \in Row
  PROVE  /\ NoRow \in Row /\ Unfinished(NoRow)
         /\ MarkBuilding(r) \in Row /\ (~r.key => Unfinished(MarkBuilding(r)))
         /\ MarkFailed(r) \in Row /\ (~r.key => Unfinished(MarkFailed(r)))
         /\ Cancel(r) \in Row /\ (~r.key => Unfinished(Cancel(r)))
         /\ RetryBuild(r) \in Row /\ (~r.key => Unfinished(RetryBuild(r)))
         /\ MarkReady(r) \in Row /\ Sound(MarkReady(r), TRUE)
BY DEF Row, Status, NoRow, Unfinished, Sound, MarkBuilding, MarkFailed, Cancel,
       RetryBuild, MarkReady

LEMMA NewArtifactRow ==
  ASSUME NEW p \in Range(Platforms)
  PROVE  NewArtifact(p) \in Row /\ Unfinished(NewArtifact(p))
BY DEF Row, Status, NoRow, Unfinished, NewArtifact

LEMMA UnfinishedIsSound ==
  ASSUME NEW r, Unfinished(r), NEW ok
  PROVE  Sound(r, ok)
BY DEF Unfinished, Sound

LEMMA SaveKeepsTable ==
  ASSUME TableOK, NEW a \in Artifacts, NEW r \in Row, Sound(r, a \in built),
         Save(a, r), UNCHANGED <<issued, built>>
  PROVE  TableOK'
BY DEF TableOK, Save

\* A goroutine that saw a Job succeed stays right: built only grows.
LEMMA UntouchedParts ==
  /\ TableOK /\ UNCHANGED rows /\ built \subseteq built' => TableOK'
  /\ ClusterOK /\ UNCHANGED <<cluster, binary>> => ClusterOK'
  /\ RequestsOK /\ UNCHANGED request => RequestsOK'
  /\ BuildersOK /\ UNCHANGED builder /\ built \subseteq built' => BuildersOK'
  /\ FaultsOK /\ UNCHANGED faults => FaultsOK'
  /\ FaultsOK /\ Fault => FaultsOK'
<1>1. TableOK /\ UNCHANGED rows /\ built \subseteq built' => TableOK'
  BY DEF TableOK, rows, Sound
<1>2. ClusterOK /\ UNCHANGED <<cluster, binary>> => ClusterOK'
  BY DEF ClusterOK, cluster
<1>3. RequestsOK /\ UNCHANGED request => RequestsOK'
  BY DEF RequestsOK
<1>4. BuildersOK /\ UNCHANGED builder /\ built \subseteq built' => BuildersOK'
  BY DEF BuildersOK, BuilderOK, Sound
<1>5. /\ FaultsOK /\ UNCHANGED faults => FaultsOK'
      /\ FaultsOK /\ Fault => FaultsOK'
  BY BuildAssumption DEF FaultsOK, Fault, BuildAssumption
<1> QED BY <1>1, <1>2, <1>3, <1>4, <1>5

LEMMA RequestGoesOn ==
  ASSUME RequestsOK, NEW c \in Clients, NEW q \in Request, RequestOK(q),
         request' = [request EXCEPT ![c] = q]
  PROVE  RequestsOK'
BY DEF RequestsOK

LEMMA BuilderGoesOn ==
  ASSUME BuildersOK, NEW b \in Builders, NEW w \in Builder, BuilderOK(w, built),
         builder' = [builder EXCEPT ![b] = w], UNCHANGED built
  PROVE  BuildersOK'
BY DEF BuildersOK

LEMMA DeleteJobKeepsCluster ==
  ASSUME ClusterOK, NEW a \in Artifacts, DeleteJob(a)
  PROVE  ClusterOK' /\ UNCHANGED built
BY DEF ClusterOK, DeleteJob, JobState

\* What is at rest promises nothing.
LEMMA AtRest ==
  /\ Idle \in Request /\ RequestOK(Idle)
  /\ Asleep \in Builder /\ \A done : BuilderOK(Asleep, done)
BY DEF Idle, Request, RequestOK, Asleep, Builder, BuilderOK, Row, Status, NoRow,
       NoArtifact

LEMMA AnswerKeepsRequests ==
  ASSUME RequestsOK, NEW c \in Clients, Answer(c)
  PROVE  RequestsOK'
BY AtRest, RequestGoesOn DEF Answer

LEMMA DoneKeepsBuilders ==
  ASSUME BuildersOK, NEW b \in Builders, Done(b), UNCHANGED built
  PROVE  BuildersOK'
BY AtRest, BuilderGoesOn DEF Done

LEMMA GoKeepsBuilders ==
  ASSUME BuildersOK, NEW b \in Builders, NEW r \in Row, NEW pc,
         pc \in {"find", "mark", "prune", "create", "wait", "outcome"},
         builder[b].pc # "idle", Go(b, pc, r),
         pc \in {"mark", "prune", "create", "wait"} => Unfinished(r),
         pc = "outcome" => Sound(r, builder[b].art \in built),
         UNCHANGED built
  PROVE  BuildersOK'
<1> PICK w : w = [builder[b] EXCEPT !.pc = pc, !.copy = r]
  OBVIOUS
<1>1. w \in Builder /\ BuilderOK(w, built)
  BY DEF BuildersOK, BuilderOK, Builder
<1>2. builder' = [builder EXCEPT ![b] = w]
  BY DEF Go, BuildersOK
<1> QED BY <1>1, <1>2, BuilderGoesOn

\* The goroutines started are at their beginning, each with its artifact.
LEMMA SpawnKeepsBuilders ==
  ASSUME BuildersOK, NEW S \in SUBSET Artifacts, Spawn(S), UNCHANGED built
  PROVE  BuildersOK'
<1>1. PICK slot : builder' = [b \in Builders |->
          IF \E a \in S : slot[a] = b
          THEN [pc |-> "find", copy |-> NoRow,
                art |-> CHOOSE a \in S : slot[a] = b]
          ELSE builder[b]]
  BY DEF Spawn
<1>2. ASSUME NEW b \in Builders
      PROVE  builder'[b] \in Builder /\ BuilderOK(builder'[b], built)
  <2>1. CASE \E a \in S : slot[a] = b
    <3>1. PICK x \in S : x = CHOOSE a \in S : slot[a] = b
      BY <2>1
    <3>2. builder'[b] = [pc |-> "find", copy |-> NoRow, art |-> x]
      BY <1>1, <2>1, <3>1
    <3>3. NoRow \in Row
      BY DEF NoRow, Row, Status
    <3> QED BY <3>2, <3>3 DEF Builder, BuilderOK
  <2>2. CASE ~(\E a \in S : slot[a] = b)
    BY <1>1, <2>2 DEF BuildersOK
  <2> QED BY <2>1, <2>2
<1>3. builder' \in [Builders -> Builder]
  BY <1>1, <1>2
<1> QED BY <1>2, <1>3 DEF BuildersOK

-----------------------------------------------------------------------------
(* Each step of a request                                                  *)

LEMMA ArtifactsAreNat == Artifacts \in SUBSET Nat /\ NoArtifact \notin Artifacts
BY BuildAssumption DEF Artifacts, NoArtifact, BuildAssumption

LEMMA TriggerKeepsRows ==
  ASSUME RowsInv, NEW c \in Clients, NEW ps \in SUBSET Range(Platforms), NEW ar,
         NEW insecure, Trigger(c, ps, ar, insecure)
  PROVE  RowsInv'
<1> PICK q : q = [Idle EXCEPT !.pc = "list", !.todo = ps]
  OBVIOUS
<1>1. q \in Request /\ RequestOK(q)
  BY AtRest DEF Idle, Request, RequestOK
<1>2. RequestsOK'
  BY <1>1, RequestGoesOn DEF Trigger, RowsInv
<1> QED BY <1>2, UntouchedParts DEF Trigger, RowsInv, cluster

\* The rows a trigger will save are new, or were FAILED: no build finished them.
LEMMA ListKeepsRows ==
  ASSUME RowsInv, NEW c \in Clients, List(c)
  PROVE  RowsInv'
<1> DEFINE asked == {i \in DOMAIN Platforms : Platforms[i] \in request[c].todo}
           new   == {i \in asked : Reusable(Platforms[i]) = {}}
           upTo(i) == {j \in new : j <= i}
           id    == [i \in asked |->
                       IF i \in new THEN issued + Cardinality(upTo(i))
                       ELSE Lowest(Reusable(Platforms[i]))]
           again == {i \in asked \ new : art[id[i]].status = "FAILED"}
           row   == [i \in new \cup again |->
                       IF i \in new THEN NewArtifact(Platforms[i])
                       ELSE RetryBuild(art[id[i]])]
           plan  == {[at |-> i, art |-> id[i], row |-> row[i]] : i \in new \cup again}
           start == {id[i] : i \in asked}
           q == [Idle EXCEPT !.pc = IF new \cup again = {} THEN "spawn" ELSE "stage",
                             !.plan = plan, !.start = start]
<1>1. IsFiniteSet(new) /\ \A i \in asked : IsFiniteSet(upTo(i))
  <2>1. DOMAIN Platforms = 1 .. Len(Platforms) /\ Len(Platforms) \in Nat
    BY BuildAssumption DEF BuildAssumption
  <2>2. IsFiniteSet(1 .. Len(Platforms))
    BY <2>1, FS_Interval
  <2>3. new \subseteq 1 .. Len(Platforms)
    BY <2>1
  <2>4. \A i \in asked : upTo(i) \subseteq 1 .. Len(Platforms)
    BY <2>1
  <2> HIDE DEF new, upTo
  <2> QED BY <2>2, <2>3, <2>4, FS_Subset
<1>2. Cardinality(new) \in Nat /\ issued + Cardinality(new) <= NArtifacts
  <2> HIDE DEF new
  <2> QED BY <1>1, FS_CardinalityType DEF List, new, asked
<1>3. ASSUME NEW i \in asked
      PROVE  id[i] \in Artifacts /\ (i \notin new => id[i] \in Reusable(Platforms[i]))
  <2>1. CASE i \in new
    <3>1. upTo(i) \subseteq new /\ i \in upTo(i)
      <4>1. i \in Nat
        BY BuildAssumption DEF BuildAssumption
      <4> QED BY <2>1, <4>1
    <3>2. Cardinality(upTo(i)) <= Cardinality(new)
      <4> HIDE DEF new, upTo
      <4> QED BY <1>1, <3>1, FS_Subset
    <3>3. Cardinality(upTo(i)) \in Nat /\ Cardinality(upTo(i)) # 0
      <4> HIDE DEF new, upTo
      <4> QED BY <1>1, <3>1, FS_CardinalityType, FS_EmptySet
    <3>4. id[i] = issued + Cardinality(upTo(i))
      BY <2>1
    <3>5. issued \in Nat /\ NArtifacts \in Nat
      BY BuildAssumption DEF RowsInv, TableOK, BuildAssumption
    <3> HIDE DEF id, upTo, new
    <3> QED BY <1>2, <2>1, <3>2, <3>3, <3>4, <3>5 DEF Artifacts
  <2>2. CASE i \notin new
    <3>1. Reusable(Platforms[i]) \in SUBSET Nat /\ Reusable(Platforms[i]) # {}
      BY <2>2, ArtifactsAreNat DEF Reusable
    <3>2. Lowest(Reusable(Platforms[i])) \in Reusable(Platforms[i])
      BY <3>1, LowestMember
    <3> QED BY <2>2, <3>2 DEF Reusable
  <2> QED BY <2>1, <2>2
<1>4. ASSUME NEW i \in new \cup again
      PROVE  row[i] \in Row /\ Unfinished(row[i])
  <2>1. Platforms[i] \in Range(Platforms)
    BY BuildAssumption DEF Range, BuildAssumption
  <2>2. CASE i \in new
    BY <2>1, <2>2, NewArtifactRow
  <2>3. CASE i \notin new
    <3>1. /\ id[i] \in Artifacts /\ art[id[i]].status = "FAILED"
          /\ row[i] = RetryBuild(art[id[i]])
      BY <2>3, <1>3
    <3> HIDE DEF id, row
    <3>2. art[id[i]] \in Row /\ ~art[id[i]].key
      BY <3>1 DEF RowsInv, TableOK, Sound, Row
    <3> QED BY <3>1, <3>2, RowMethods
  <2> QED BY <2>2, <2>3
<1> HIDE DEF id, row
<1>5. /\ plan \in SUBSET [at: DOMAIN Platforms, art: Artifacts, row: Row]
      /\ start \in SUBSET Artifacts
      /\ \A e \in plan : Unfinished(e.row)
  BY <1>3, <1>4
<1>6. issued' = issued + Cardinality(new) /\ request' = [request EXCEPT ![c] = q]
  BY DEF List, id, row
<1> HIDE DEF plan, start, new, again
<1>7. q \in Request /\ RequestOK(q)
  BY <1>5, AtRest DEF Idle, Request, RequestOK
<1>8. RequestsOK'
  <2> HIDE DEF q
  <2> QED BY <1>6, <1>7, RequestGoesOn DEF RowsInv
<1>9. TableOK'
  <2>1. UNCHANGED <<art, built>>
    BY DEF List, cluster
  <2> QED BY <1>2, <1>6, <2>1, BuildAssumption DEF RowsInv, TableOK, BuildAssumption
<1>10. UNCHANGED <<art, bucket, cluster, builder, faults>>
  BY DEF List
<1> QED BY <1>8, <1>9, <1>10, UntouchedParts DEF RowsInv, cluster, bucket

LEMMA StageKeepsRows ==
  ASSUME RowsInv, NEW c \in Clients, Stage(c)
  PROVE  RowsInv'
<1>1. PICK e \in request[c].plan :
        /\ Save(e.art, e.row)
        /\ request' = [request EXCEPT ![c].plan = @ \ {e},
             ![c].pc = IF request[c].plan = {e} THEN "spawn" ELSE "stage"]
  BY DEF Stage
<1> PICK q : q = [request[c] EXCEPT !.plan = @ \ {e},
                    !.pc = IF request[c].plan = {e} THEN "spawn" ELSE "stage"]
  OBVIOUS
<1>2. request[c] \in Request /\ RequestOK(request[c])
  BY DEF RowsInv, RequestsOK
<1>3. q \in Request /\ RequestOK(q)
  BY <1>2 DEF Request, RequestOK
<1>4. request' = [request EXCEPT ![c] = q]
  BY <1>1 DEF RowsInv, RequestsOK
<1>5. RequestsOK'
  BY <1>3, <1>4, RequestGoesOn DEF RowsInv
<1>6. e.art \in Artifacts /\ e.row \in Row /\ Unfinished(e.row)
  BY <1>2 DEF Request, RequestOK
<1>7. TableOK'
  BY <1>1, <1>6, UnfinishedIsSound, SaveKeepsTable DEF Stage, RowsInv, cluster
<1> QED BY <1>5, <1>7, UntouchedParts DEF Stage, RowsInv, cluster, bucket

LEMMA StartBuildsKeepsRows ==
  ASSUME RowsInv, NEW c \in Clients, StageFails(c) \/ StartBuilds(c)
  PROVE  RowsInv'
<1>1. RequestsOK'
  BY AnswerKeepsRequests DEF StageFails, StartBuilds, RowsInv
<1>2. CASE StageFails(c)
  BY <1>1, <1>2, UntouchedParts DEF StageFails, RowsInv, cluster, bucket
<1>3. CASE StartBuilds(c)
  <2>1. request[c].start \in SUBSET Artifacts
    BY DEF RowsInv, RequestsOK, Request
  <2>2. BuildersOK'
    BY <1>3, <2>1, SpawnKeepsBuilders DEF StartBuilds, RowsInv, cluster
  <2> QED BY <1>1, <1>3, <2>2, UntouchedParts
          DEF StartBuilds, RowsInv, cluster, bucket
<1> QED BY <1>2, <1>3

-----------------------------------------------------------------------------
(* CancelBuild, RetryBuild, DeleteArtifact                                 *)

\* A copy is read by the request that will write it back.
LEMMA ReadKeepsRows ==
  ASSUME RowsInv, NEW c \in Clients, NEW a \in Artifacts,
         CancelBuild(c, a) \/ Retry(c, a) \/ DeleteArtifact(c, a)
  PROVE  RowsInv'
<1>1. art[a] \in Row /\ (art[a].status # "READY" => ~art[a].key)
  BY DEF RowsInv, TableOK, Sound
<1>2. \E copy \in Row, pc \in {"kill", "retrySave", "deleteObjects"} :
        /\ pc # "deleteObjects" => Unfinished(copy)
        /\ Read(c, a, pc, copy)
  <2>1. CASE CancelBuild(c, a)
    BY <1>1, <2>1, RowMethods DEF CancelBuild, IsOpen
  <2>2. CASE Retry(c, a)
    BY <1>1, <2>2, RowMethods DEF Retry, CanRetry
  <2>3. CASE DeleteArtifact(c, a)
    BY <1>1, <2>3 DEF DeleteArtifact
  <2> QED BY <2>1, <2>2, <2>3
<1>3. PICK copy \in Row, pc \in {"kill", "retrySave", "deleteObjects"} :
        /\ pc # "deleteObjects" => Unfinished(copy)
        /\ Read(c, a, pc, copy)
  BY <1>2
<1> PICK q : q = [Idle EXCEPT !.pc = pc, !.art = a, !.copy = copy]
  OBVIOUS
<1>4. q \in Request /\ RequestOK(q)
  BY <1>3, AtRest DEF Idle, Request, RequestOK
<1>5. RequestsOK'
  BY <1>3, <1>4, RequestGoesOn DEF Read, RowsInv
<1> QED BY <1>3, <1>5, UntouchedParts DEF Read, RowsInv, cluster, bucket

\* A request on an artifact goes on with the same copy.
LEMMA RequestMovesOn ==
  ASSUME RequestsOK, NEW c \in Clients, NEW pc,
         \/ request[c].pc = "kill" /\ pc = "cancelSave"
         \/ request[c].pc = "deleteObjects" /\ pc = "deleteRow",
         request' = [request EXCEPT ![c].pc = pc]
  PROVE  RequestsOK'
<1> PICK q : q = [request[c] EXCEPT !.pc = pc]
  OBVIOUS
<1>1. request[c] \in Request /\ RequestOK(request[c])
  BY DEF RequestsOK
<1>2. q \in Request /\ RequestOK(q)
  BY <1>1 DEF Request, RequestOK
<1>3. request' = [request EXCEPT ![c] = q]
  BY DEF RequestsOK
<1> QED BY <1>2, <1>3, RequestGoesOn

LEMMA CancelKillKeepsRows ==
  ASSUME RowsInv, NEW c \in Clients, CancelKill(c)
  PROVE  RowsInv'
<1>1. RequestsOK'
  BY RequestMovesOn DEF CancelKill, RowsInv
<1>2. request[c].art \in Artifacts
  BY DEF CancelKill, RowsInv, RequestsOK, RequestOK
<1>3. ClusterOK' /\ FaultsOK' /\ UNCHANGED built
  BY <1>2, DeleteJobKeepsCluster, UntouchedParts
  DEF CancelKill, RowsInv, cluster, bucket
<1> QED BY <1>1, <1>3, UntouchedParts DEF CancelKill, RowsInv

LEMMA CancelSaveKeepsRows ==
  ASSUME RowsInv, NEW c \in Clients, CancelSave(c)
  PROVE  RowsInv'
<1>1. RequestsOK'
  BY AnswerKeepsRequests DEF CancelSave, RowsInv
<1>2. /\ request[c].art \in Artifacts /\ request[c].copy \in Row
      /\ Unfinished(request[c].copy)
  BY DEF CancelSave, RowsInv, RequestsOK, RequestOK, Request
<1>3. TableOK' /\ FaultsOK'
  BY <1>2, UnfinishedIsSound, SaveKeepsTable, UntouchedParts
  DEF CancelSave, RowsInv, cluster, rows
<1> QED BY <1>1, <1>3, UntouchedParts DEF CancelSave, RowsInv, cluster, bucket

LEMMA RetrySaveKeepsRows ==
  ASSUME RowsInv, NEW c \in Clients, RetrySave(c)
  PROVE  RowsInv'
<1>1. RequestsOK'
  BY AnswerKeepsRequests DEF RetrySave, RowsInv
<1>2. /\ request[c].art \in Artifacts /\ request[c].copy \in Row
      /\ Unfinished(request[c].copy)
  BY DEF RetrySave, RowsInv, RequestsOK, RequestOK, Request
<1>3. TableOK' /\ FaultsOK'
  BY <1>2, UnfinishedIsSound, SaveKeepsTable, UntouchedParts
  DEF RetrySave, RowsInv, cluster, rows
<1>4. BuildersOK'
  <2>1. {request[c].art} \in SUBSET Artifacts
    BY <1>2
  <2> QED BY <2>1, SpawnKeepsBuilders, UntouchedParts
          DEF RetrySave, RowsInv, cluster
<1> QED BY <1>1, <1>3, <1>4, UntouchedParts DEF RetrySave, RowsInv, cluster, bucket

\* Deleting objects takes nothing that a row or a copy promises.
LEMMA DeleteObjectsKeepsCluster ==
  ASSUME ClusterOK, NEW a, NEW copy, DeleteObjects(a, copy), UNCHANGED cluster
  PROVE  ClusterOK'
BY DEF ClusterOK, DeleteObjects, cluster

LEMMA DeleteArtifactObjectsKeepsRows ==
  ASSUME RowsInv, NEW c \in Clients, DeleteArtifactObjects(c)
  PROVE  RowsInv'
<1>1. RequestsOK'
  BY RequestMovesOn DEF DeleteArtifactObjects, RowsInv
<1>2. ClusterOK' /\ FaultsOK'
  BY DeleteObjectsKeepsCluster, UntouchedParts
  DEF DeleteArtifactObjects, RowsInv, bucket
<1> QED BY <1>1, <1>2, UntouchedParts DEF DeleteArtifactObjects, RowsInv, cluster

LEMMA DeleteArtifactRowKeepsRows ==
  ASSUME RowsInv, NEW c \in Clients, NEW referenced,
         DeleteArtifactRow(c, referenced)
  PROVE  RowsInv'
<1>1. RequestsOK'
  BY AnswerKeepsRequests DEF DeleteArtifactRow, RowsInv
<1>2. request[c].art \in Artifacts
  BY DEF DeleteArtifactRow, RowsInv, RequestsOK, RequestOK
<1>3. NoRow \in Row /\ Unfinished(NoRow)
  BY DEF NoRow, Row, Status, Unfinished
<1>4. TableOK' /\ FaultsOK'
  BY <1>2, <1>3, UnfinishedIsSound, SaveKeepsTable, UntouchedParts
  DEF DeleteArtifactRow, RowsInv, cluster, rows
<1> QED BY <1>1, <1>4, UntouchedParts DEF DeleteArtifactRow, RowsInv, cluster, bucket

-----------------------------------------------------------------------------
(* Each step of a goroutine, of a Job and of the bucket                    *)

LEMMA FindArtifactKeepsRows ==
  ASSUME RowsInv, NEW b \in Builders, FindArtifact(b)
  PROVE  RowsInv'
<1>1. builder[b].art \in Artifacts
  BY DEF FindArtifact, RowsInv, BuildersOK, BuilderOK
<1>2. art[builder[b].art] \in Row
  BY <1>1 DEF RowsInv, TableOK
<1>3. CanMarkBuilding(art[builder[b].art]) =>
        Unfinished(MarkBuilding(art[builder[b].art]))
  BY <1>1, <1>2, RowMethods DEF CanMarkBuilding, RowsInv, TableOK, Sound
<1>4. BuildersOK' /\ FaultsOK'
  BY <1>2, <1>3, RowMethods, GoKeepsBuilders, DoneKeepsBuilders, UntouchedParts
  DEF FindArtifact, RowsInv, cluster
<1> QED BY <1>4, UntouchedParts DEF FindArtifact, RowsInv, cluster, bucket

\* What a goroutine carries before it has the outcome.
LEMMA MidBuild ==
  ASSUME BuildersOK, NEW b \in Builders,
         builder[b].pc \in {"mark", "prune", "create", "wait", "outcome"}
  PROVE  /\ builder[b].art \in Artifacts /\ builder[b].copy \in Row
         /\ Sound(builder[b].copy, builder[b].art \in built)
         /\ builder[b].pc # "outcome" =>
              /\ Unfinished(builder[b].copy)
              /\ MarkFailed(builder[b].copy) \in Row
              /\ Unfinished(MarkFailed(builder[b].copy))
              /\ MarkReady(builder[b].copy) \in Row
              /\ Sound(MarkReady(builder[b].copy), TRUE)
<1>1. builder[b] \in Builder /\ BuilderOK(builder[b], built)
  BY DEF BuildersOK
<1>2. builder[b].art \in Artifacts /\ builder[b].copy \in Row
  BY <1>1 DEF Builder, BuilderOK
<1>3. CASE builder[b].pc = "outcome"
  BY <1>1, <1>2, <1>3 DEF BuilderOK
<1>4. CASE builder[b].pc # "outcome"
  <2>1. Unfinished(builder[b].copy)
    BY <1>1, <1>4 DEF BuilderOK
  <2>2. ~builder[b].copy.key
    BY <2>1 DEF Unfinished
  <2> QED BY <1>2, <1>4, <2>1, <2>2, UnfinishedIsSound, RowMethods
<1> QED BY <1>3, <1>4

LEMMA SaveBuildingKeepsRows ==
  ASSUME RowsInv, NEW b \in Builders, SaveBuilding(b)
  PROVE  RowsInv'
<1>1. /\ builder[b].art \in Artifacts /\ builder[b].copy \in Row
      /\ Unfinished(builder[b].copy)
      /\ Sound(builder[b].copy, builder[b].art \in built)
  BY MidBuild DEF SaveBuilding, RowsInv
<1>2. BuildersOK' /\ FaultsOK'
  BY <1>1, GoKeepsBuilders, DoneKeepsBuilders, UntouchedParts
  DEF SaveBuilding, RowsInv, cluster
<1>3. TableOK'
  BY <1>1, SaveKeepsTable, UntouchedParts DEF SaveBuilding, RowsInv, cluster, rows
<1> QED BY <1>2, <1>3, UntouchedParts DEF SaveBuilding, RowsInv, cluster, bucket

LEMMA PruneKeepsRows ==
  ASSUME RowsInv, NEW b \in Builders, PresignFails(b) \/ PruneStaleJob(b)
  PROVE  RowsInv'
<1>1. /\ builder[b].art \in Artifacts /\ builder[b].copy \in Row
      /\ Unfinished(builder[b].copy)
  BY MidBuild DEF PresignFails, PruneStaleJob, RowsInv
<1>2. CASE PresignFails(b)
  <2>1. BuildersOK'
    BY <1>2, DoneKeepsBuilders DEF PresignFails, RowsInv, cluster
  <2> QED BY <1>2, <2>1, UntouchedParts DEF PresignFails, RowsInv, cluster, bucket
<1>3. CASE PruneStaleJob(b)
  <2>1. ClusterOK' /\ FaultsOK' /\ UNCHANGED built
    BY <1>1, <1>3, DeleteJobKeepsCluster, UntouchedParts
    DEF PruneStaleJob, RowsInv, cluster, bucket
  <2>2. BuildersOK'
    BY <1>1, <1>3, <2>1, GoKeepsBuilders DEF PruneStaleJob, RowsInv
  <2> QED BY <1>3, <2>1, <2>2, UntouchedParts DEF PruneStaleJob, RowsInv
<1> QED BY <1>2, <1>3

LEMMA CreateJobKeepsRows ==
  ASSUME RowsInv, NEW b \in Builders, CreateJob(b)
  PROVE  RowsInv'
<1>1. /\ builder[b].pc = "create" /\ builder[b].art \in Artifacts
      /\ builder[b].copy \in Row /\ Unfinished(builder[b].copy)
      /\ MarkFailed(builder[b].copy) \in Row
      /\ Unfinished(MarkFailed(builder[b].copy))
  BY MidBuild DEF CreateJob, RowsInv
<1>2. UNCHANGED <<rows, bucket, built, request>>
  BY DEF CreateJob
<1>3. BuildersOK'
  BY <1>1, <1>2, UnfinishedIsSound, GoKeepsBuilders DEF CreateJob, RowsInv
<1>4. ClusterOK'
  BY <1>1, <1>2 DEF CreateJob, RowsInv, ClusterOK, JobState, bucket
<1>5. FaultsOK'
  BY UntouchedParts DEF CreateJob, RowsInv
<1> QED BY <1>2, <1>3, <1>4, <1>5, UntouchedParts DEF RowsInv

\* Only a goroutine that saw the Job of its artifact succeed carries a READY copy.
LEMMA WaitKeepsRows ==
  ASSUME RowsInv, NEW b \in Builders, WaitSucceeded(b) \/ WaitFailed(b)
  PROVE  RowsInv'
<1>1. /\ builder[b].pc = "wait" /\ builder[b].art \in Artifacts
      /\ MarkFailed(builder[b].copy) \in Row
      /\ Unfinished(MarkFailed(builder[b].copy))
      /\ MarkReady(builder[b].copy) \in Row
      /\ Sound(MarkReady(builder[b].copy), TRUE)
  BY MidBuild DEF WaitSucceeded, WaitFailed, RowsInv
<1>2. UNCHANGED <<rows, bucket, cluster, request>>
  BY DEF WaitSucceeded, WaitFailed
<1>3. BuildersOK' /\ FaultsOK'
  <2>1. CASE WaitSucceeded(b)
    <3>1. builder[b].art \in built
      BY <1>1, <2>1 DEF WaitSucceeded, JobSucceeded, RowsInv, ClusterOK
    <3>2. Sound(MarkReady(builder[b].copy), builder[b].art \in built)
      BY <1>1, <3>1 DEF Sound
    <3> QED BY <1>1, <1>2, <2>1, <3>2, GoKeepsBuilders, DoneKeepsBuilders,
               UntouchedParts DEF WaitSucceeded, RowsInv, cluster
  <2>2. CASE WaitFailed(b)
    <3>1. BuildersOK'
      BY <1>1, <1>2, <2>2, UnfinishedIsSound, GoKeepsBuilders
      DEF WaitFailed, RowsInv, cluster
    <3>2. FaultsOK'
      BY <2>2, UntouchedParts DEF WaitFailed, RowsInv
    <3> QED BY <3>1, <3>2
  <2> QED BY <2>1, <2>2
<1> QED BY <1>2, <1>3, UntouchedParts DEF RowsInv, cluster, bucket

LEMMA SaveOutcomeKeepsRows ==
  ASSUME RowsInv, NEW b \in Builders, SaveOutcome(b)
  PROVE  RowsInv'
<1>1. /\ builder[b].art \in Artifacts /\ builder[b].copy \in Row
      /\ Sound(builder[b].copy, builder[b].art \in built)
  BY MidBuild DEF SaveOutcome, RowsInv
<1>2. UNCHANGED <<issued, bucket, cluster, request>>
  BY DEF SaveOutcome
<1>3. BuildersOK'
  BY <1>2, DoneKeepsBuilders DEF SaveOutcome, RowsInv, cluster
<1>4. TableOK' /\ FaultsOK'
  BY <1>1, <1>2, SaveKeepsTable, UntouchedParts
  DEF SaveOutcome, RowsInv, cluster, rows
<1> QED BY <1>2, <1>3, <1>4, UntouchedParts DEF RowsInv, cluster, bucket

LEMMA ClusterKeepsRows ==
  ASSUME RowsInv, Cluster
  PROVE  RowsInv'
<1>1. ASSUME NEW a \in Artifacts, PodUploads(a) \/ JobFails(a)
      PROVE  RowsInv'
  <2>1. ClusterOK'
    BY <1>1 DEF PodUploads, JobFails, RowsInv, ClusterOK, JobState, bucket
  <2> QED BY <1>1, <2>1, UntouchedParts DEF PodUploads, JobFails, RowsInv
<1>2. ASSUME NEW a \in Artifacts, JobSucceeds(a)
      PROVE  RowsInv'
  <2>1. ClusterOK' /\ built \subseteq built'
    BY <1>2 DEF JobSucceeds, RowsInv, ClusterOK, JobState, bucket
  <2> QED BY <1>2, <2>1, UntouchedParts DEF JobSucceeds, RowsInv
<1>3. ASSUME NEW a \in Artifacts, JobRemoved(a)
      PROVE  RowsInv'
  <2>1. ClusterOK' /\ UNCHANGED built
    BY <1>3, DeleteJobKeepsCluster DEF JobRemoved, RowsInv
  <2> QED BY <1>3, <2>1, UntouchedParts DEF JobRemoved, RowsInv
<1>4. CASE LifecycleExpires
  <2>1. ClusterOK'
    BY <1>4 DEF LifecycleExpires, RowsInv, ClusterOK, cluster
  <2> QED BY <1>4, <2>1, UntouchedParts DEF LifecycleExpires, RowsInv, cluster
<1> QED BY <1>1, <1>2, <1>3, <1>4 DEF Cluster

\* A restart forgets every copy.
LEMMA RestartServerKeepsRows ==
  ASSUME RowsInv, RestartServer
  PROVE  RowsInv'
<1>1. RequestsOK' /\ BuildersOK'
  BY AtRest DEF RestartServer, RequestsOK, BuildersOK
<1> QED BY <1>1, UntouchedParts DEF RestartServer, RowsInv, cluster, bucket

-----------------------------------------------------------------------------
(* The builds as a whole                                                   *)

LEMMA BuildInit == InitBuild => RowsInv
<1>1. NoRow \in Row /\ \A ok : Sound(NoRow, ok)
  BY DEF NoRow, Row, Status, Sound
<1> QED BY <1>1, AtRest, BuildAssumption
        DEF InitBuild, RowsInv, TableOK, ClusterOK, RequestsOK, BuildersOK,
            FaultsOK, JobState, BuildAssumption

LEMMA RequestKeepsRows ==
  ASSUME RowsInv, NEW c \in Clients, RequestStep(c) \/ NewRequest(c)
  PROVE  RowsInv'
<1>1. CASE RequestStep(c)
  BY <1>1, ListKeepsRows, StageKeepsRows, StartBuildsKeepsRows,
     CancelKillKeepsRows, CancelSaveKeepsRows, RetrySaveKeepsRows,
     DeleteArtifactObjectsKeepsRows DEF RequestStep
<1>2. ASSUME NEW ar \in Archives, NEW insecure \in BOOLEAN,
             \/ \E p \in Range(Platforms) : Trigger(c, {p}, ar, insecure)
             \/ Trigger(c, Range(Platforms), ar, insecure)
      PROVE  RowsInv'
  <2>1. \E ps \in SUBSET Range(Platforms) : Trigger(c, ps, ar, insecure)
    BY <1>2
  <2> QED BY <2>1, TriggerKeepsRows
<1> QED BY <1>1, <1>2, ReadKeepsRows DEF NewRequest

LEMMA BuilderKeepsRows ==
  ASSUME RowsInv, NEW b \in Builders, BuilderStep(b)
  PROVE  RowsInv'
BY FindArtifactKeepsRows, SaveBuildingKeepsRows, PruneKeepsRows,
   CreateJobKeepsRows, WaitKeepsRows, SaveOutcomeKeepsRows DEF BuilderStep

\* Whatever is interleaved, copies and rows say no more than the Jobs did.
THEOREM BuildInvariant == BuildSpec => []RowsInv
<1>1. RowsInv /\ [BuildNext]_buildVars => RowsInv'
  <2> SUFFICES ASSUME RowsInv, [BuildNext]_buildVars
               PROVE  RowsInv'
    OBVIOUS
  <2>1. CASE UNCHANGED buildVars
    BY <2>1, UntouchedParts DEF buildVars, RowsInv, rows, cluster
  <2>2. CASE BuildNext
    BY <2>2, RequestKeepsRows, DeleteArtifactRowKeepsRows, BuilderKeepsRows,
       ClusterKeepsRows, RestartServerKeepsRows DEF BuildNext
  <2> QED BY <2>1, <2>2
<1> QED BY <1>1, BuildInit, PTL DEF BuildSpec

LEMMA RowsAreHonest == RowsInv => BinaryKeyOnlyWhenReady /\ ReadyWasBuilt
BY DEF RowsInv, TableOK, Sound, BinaryKeyOnlyWhenReady, ReadyWasBuilt

\* However requests and goroutines write their stale copies over one another
\* (artifactRepo.Save is an upsert of every column), a row that carries a binary
\* key is READY.
THEOREM BinaryKeysMeanReady == BuildSpec => []BinaryKeyOnlyWhenReady
BY BuildInvariant, RowsAreHonest, PTL

\* A row is READY only when a Job of that artifact succeeded: BuildArtifact marks
\* a copy READY after WaitForJob alone, and nothing else brings READY back.
THEOREM ReadyRowsWereBuilt == BuildSpec => []ReadyWasBuilt
BY BuildInvariant, RowsAreHonest, PTL

-----------------------------------------------------------------------------
(* The source archive                                                      *)

\* What a source archive may hold, and what of it is compiled.
SourceInv == source \in Source /\ OnlyAnalysedCode

LEMMA NoSourceIsAnalysed ==
  /\ source = NoSource => SourceInv
  /\ source' = NoSource => SourceInv'
<1>1. NoSource \in Source
  BY DEF NoSource, NoFile, Source, File
<1>2. Compiled(NoSource) = {}
  BY DEF NoSource, Compiled
<1> QED BY <1>1, <1>2 DEF SourceInv, OnlyAnalysedCode

\* PrepareSourceArchive packs files of the archive the analyser accepted.
LEMMA PreparedIsAnalysed ==
  ASSUME NEW ar \in Archive, NEW insecure \in BOOLEAN, Accepted(ar, insecure),
         source' \in Prepared(ar)
  PROVE  SourceInv'
<1>1. PICK kept \in SUBSET Kept(ar), e \in Entrypoints(ar) :
        source' = [files |-> kept, entry |-> e]
  BY DEF Prepared
<1>2. ar.files \subseteq File
  BY DEF Archive
<1>3. kept \subseteq ar.files /\ e \in ar.files
  BY DEF Kept, Entrypoints, GoFiles
<1>4. source' \in Source
  BY <1>1, <1>2, <1>3 DEF Source
<1>5. ASSUME NEW f \in Compiled(source')
      PROVE  /\ f.package = "scenario" /\ ~f.main
             /\ (\E import \in f.imports : isForbiddenImport(import))
                  => AllowInsecureOverride
  <2>1. f \in GoFiles(ar)
    BY <1>1, <1>3 DEF Compiled, GoFiles
  <2> QED BY <2>1 DEF Accepted, FileAccepted, ImportsAccepted
<1> QED BY <1>4, <1>5 DEF SourceInv, OnlyAnalysedCode

LEMMA TriggerIsAnalysed ==
  ASSUME NEW c \in Clients, NEW ps, NEW ar \in Archives, NEW insecure \in BOOLEAN,
         Trigger(c, ps, ar, insecure)
  PROVE  SourceInv'
BY BuildAssumption, PreparedIsAnalysed DEF Trigger, BuildAssumption

LEMMA SameSource ==
  ASSUME SourceInv, UNCHANGED source
  PROVE  SourceInv'
BY DEF SourceInv, OnlyAnalysedCode

LEMMA RequestKeepsSource ==
  ASSUME SourceInv, NEW c \in Clients, RequestStep(c) \/ NewRequest(c)
  PROVE  SourceInv'
<1>1. CASE RequestStep(c)
  <2>1. UNCHANGED source
    BY <1>1 DEF RequestStep, List, Stage, StageFails, StartBuilds, CancelKill,
       CancelSave, RetrySave, DeleteArtifactObjects, DeleteObjects, DeleteJob,
       bucket
  <2> QED BY <2>1, SameSource
<1>2. ASSUME NEW a \in Artifacts,
             CancelBuild(c, a) \/ Retry(c, a) \/ DeleteArtifact(c, a)
      PROVE  SourceInv'
  BY <1>2, SameSource DEF CancelBuild, Retry, DeleteArtifact, Read, bucket
<1> QED BY <1>1, <1>2, TriggerIsAnalysed DEF NewRequest

LEMMA BuilderKeepsSource ==
  ASSUME NEW b \in Builders, BuilderStep(b)
  PROVE  UNCHANGED source
BY DEF BuilderStep, FindArtifact, SaveBuilding, PresignFails, PruneStaleJob,
   CreateJob, WaitSucceeded, WaitFailed, SaveOutcome, DeleteJob, bucket

LEMMA ClusterKeepsSource ==
  ASSUME SourceInv, Cluster
  PROVE  SourceInv'
<1>1. UNCHANGED source \/ source' = NoSource
  BY DEF Cluster, PodUploads, JobSucceeds, JobFails, JobRemoved,
     LifecycleExpires, DeleteJob, bucket
<1> QED BY <1>1, SameSource, NoSourceIsAnalysed

\* The archive at the suite's source key was accepted, or there is none.
THEOREM SourceInvariant == BuildSpec => []SourceInv
<1>1. InitBuild => SourceInv
  BY NoSourceIsAnalysed DEF InitBuild
<1>2. SourceInv /\ [BuildNext]_buildVars => SourceInv'
  <2> SUFFICES ASSUME SourceInv, [BuildNext]_buildVars
               PROVE  SourceInv'
    OBVIOUS
  <2>1. CASE UNCHANGED buildVars
    BY <2>1, SameSource DEF buildVars
  <2>2. ASSUME NEW c \in Clients, DeleteArtifactRow(c, FALSE)
        PROVE  SourceInv'
    BY <2>2, SameSource DEF DeleteArtifactRow, bucket
  <2>3. CASE RestartServer
    BY <2>3, SameSource DEF RestartServer, bucket
  <2> QED BY <2>1, <2>2, <2>3, RequestKeepsSource, BuilderKeepsSource,
             ClusterKeepsSource, SameSource DEF BuildNext
<1> QED BY <1>1, <1>2, PTL DEF BuildSpec

\* Every variable of the builds has its type.
THEOREM BuildTypes == BuildSpec => []BuildTypeOK
<1>1. RowsInv /\ SourceInv => BuildTypeOK
  BY DEF RowsInv, TableOK, ClusterOK, RequestsOK, BuildersOK, FaultsOK, SourceInv,
     BuildTypeOK
<1> QED BY <1>1, BuildInvariant, SourceInvariant, PTL

\* TriggerBuild uploads the prepared archive and not the client's, so that every
\* Go file at the suite's one source key is a scenario without a main function
\* whose imports the analyser compared; those isForbiddenImport matches had the
\* cluster's leave. Nothing is said of the imports the comparison misses.
THEOREM CompiledCodeIsAnalysed == BuildSpec => []OnlyAnalysedCode
<1>1. SourceInv => OnlyAnalysedCode
  BY DEF SourceInv
<1> QED BY <1>1, SourceInvariant, PTL

-----------------------------------------------------------------------------
(* Retention: the run rows and the sweep                                   *)

\* Only a run that has ended grows old, and its row does not come back.
RunOK(r) ==
  /\ run[r].status = "NONE" => run[r] = NoRun
  /\ run[r].status # "NONE" => run[r].art \in Artifacts
  /\ runAge[r] > 0 => run[r].status # "LIVE"

\* A report in the bucket is that of a finished run that names it.
ReportNamed(r) ==
  "report" \in object[r] =>
    run[r].status = "FINISHED" /\ "report" \in run[r].keys

\* What a sweep w is about to act on: runs that ended before it began, and those
\* it will prune are, unless a policy says otherwise, among those whose reports
\* it purges first.
SweepShape(w, age) ==
  /\ \A r \in w.due.reports \cup w.due.prune : age[r] > 0
  /\ w.phase \in {"logs", "reports"} =>
       /\ RowsOutliveReports => w.due.prune \subseteq w.due.reports
       /\ w.listed => w.runs # {}
  /\ w.object => w.listed
  /\ w.listed =>
       /\ w.phase = "reports" => w.runs \subseteq w.due.reports
       /\ w.phase = "prune" => w.runs \subseteq w.due.prune

\* Of the runs a sweep will prune, those that still have a report are in the
\* list its report phase has yet to handle, and after that phase there is none.
ReportsPurged(w, left) ==
  /\ w.phase = "reports" /\ w.listed =>
       /\ \A r \in w.due.prune : "report" \in left[r] => r \in w.runs
       /\ w.object => "report" \notin left[Lowest(w.runs)]
  /\ w.phase \notin {"logs", "reports"} =>
       \A r \in w.due.prune : "report" \notin left[r]

\* Each sweep keeps its own promise, however many are under way: another one
\* only takes objects away, and the rows it clears or deletes have lost theirs.
RetentionInv ==
  /\ RetentionTypeOK
  /\ \A r \in Runs : RunOK(r)
  /\ \A s \in Sweepers : SweepShape(sweep[s], runAge)
  /\ faults = 0 /\ RowsOutliveReports =>
       /\ \A s \in Sweepers : ReportsPurged(sweep[s], object)
       /\ \A r \in Runs : ReportNamed(r)
-----------------------------------------------------------------------------
(* The order of the phases                                                 *)

Due == [logs: SUBSET Runs, reports: SUBSET Runs, prune: SUBSET Runs,
        orphans: SUBSET Artifacts, binaries: SUBSET Artifacts]
DueOf == {"logs", "reports", "prune", "orphans", "binaries"}

\* A sweep that has not listed anything in its phase.
Fresh(s) == s \in Sweep /\ ~s.listed /\ ~s.object /\ s.runs = {}

LEMMA PhaseIndex ==
  /\ DOMAIN PhaseOrder = 1 .. 5 /\ Len(PhaseOrder) = 5
  /\ \A j \in 1 .. 5 : /\ PhaseOrder[j] \in DueOf
                       /\ PhaseOrder[j] = "logs" <=> j = 1
                       /\ PhaseOrder[j] = "reports" <=> j = 2
                       /\ PhaseOrder[j] = "prune" <=> j = 3
BY DEF PhaseOrder, DueOf

LEMMA NoSweepIsFresh ==
  Fresh(NoSweep) /\ NoSweep.phase = "none" /\ NoSweep.due.reports = {}
                 /\ NoSweep.due.prune = {}
<1>1. NoCopies \in [Artifacts -> Row]
  BY DEF NoCopies, NoRow, Row, Status
<1> QED BY <1>1 DEF NoSweep, Fresh, Sweep, Phase

\* Enter, in words: a sweep never has more to do than it had, and as long as the
\* reports of the runs to prune are among those to purge, it does not come to the
\* prune phase before the report phase.
LEMMA EnterPhase ==
  ASSUME NEW i \in 1 .. 6, NEW due \in Due
  PROVE  /\ Fresh(Enter(i, due))
         /\ Enter(i, due).due.reports \subseteq due.reports
         /\ Enter(i, due).due.prune \subseteq due.prune
         /\ i > 2 => Enter(i, due).phase \notin {"logs", "reports"}
         /\ i <= 2 /\ due.prune \subseteq due.reports =>
              IF Enter(i, due).phase \in {"logs", "reports"}
              THEN Enter(i, due).due.prune \subseteq Enter(i, due).due.reports
              ELSE Enter(i, due).due.prune = {}
<1> DEFINE busy == {j \in i .. 5 : due[PhaseOrder[j]] # {}}
           left == [p \in DueOf |->
                      IF \E j \in busy : PhaseOrder[j] = p THEN due[p] ELSE {}]
           s == [NoSweep EXCEPT !.phase = PhaseOrder[Lowest(busy)], !.due = left]
<1>1. CASE busy = {}
  <2>1. Enter(i, due) = NoSweep
    BY <1>1, PhaseIndex DEF Enter
  <2> HIDE DEF busy
  <2> QED BY <2>1, NoSweepIsFresh
<1>2. CASE busy # {}
  <2>1. DOMAIN due = DueOf
    BY DEF Due, DueOf
  <2>2. Enter(i, due) = s
    BY <1>2, <2>1, PhaseIndex DEF Enter
  <2>3. busy \in SUBSET Nat
    OBVIOUS
  <2>4. Lowest(busy) \in busy /\ \A j \in busy : Lowest(busy) <= j
    <3> HIDE DEF busy
    <3> QED BY <1>2, <2>3, LowestMember
  <2>5. left \in Due
    BY DEF Due, DueOf
  <2>6. left.reports \subseteq due.reports /\ left.prune \subseteq due.prune
    BY DEF Due, DueOf
  <2>7. /\ left.reports = IF 2 \in busy THEN due.reports ELSE {}
        /\ left.prune = IF 3 \in busy THEN due.prune ELSE {}
    <3>1. busy \subseteq 1 .. 5
      OBVIOUS
    <3>2. /\ (\E j \in busy : PhaseOrder[j] = "reports") <=> 2 \in busy
          /\ (\E j \in busy : PhaseOrder[j] = "prune") <=> 3 \in busy
      <4> HIDE DEF busy
      <4> QED BY <3>1, PhaseIndex
    <3> HIDE DEF busy
    <3> QED BY <3>2 DEF DueOf
  <2>8. /\ i <= 2 => (2 \in busy <=> due.reports # {})
        /\ 3 \in busy => due.prune # {}
    BY PhaseIndex
  <2>9. Lowest(busy) \in i .. 5
    BY <2>4
  <2> HIDE DEF busy, left
  <2>10. /\ s.phase = PhaseOrder[Lowest(busy)] /\ s.due = left
         /\ Fresh(s)
    <3>1. PhaseOrder[Lowest(busy)] \in Phase
      BY <2>9, PhaseIndex DEF Phase, DueOf
    <3>2. NoSweep \in Sweep /\ Fresh(NoSweep)
      BY NoSweepIsFresh DEF Fresh
    <3> QED BY <2>5, <3>1, <3>2 DEF Fresh, Sweep, Due
  <2> HIDE DEF s
  <2>11. s.phase \in {"logs", "reports"} <=> Lowest(busy) \in {1, 2}
    BY <2>9, <2>10, PhaseIndex
  <2>12. i > 2 => Lowest(busy) \notin {1, 2}
    BY <2>9
  <2>13. ASSUME i <= 2, due.prune \subseteq due.reports
         PROVE  IF s.phase \in {"logs", "reports"}
                THEN left.prune \subseteq left.reports ELSE left.prune = {}
    <3>1. CASE 3 \in busy
      <4>1. 2 \in busy
        BY <2>8, <2>13, <3>1
      <4>2. Lowest(busy) \in {1, 2}
        BY <2>4, <2>9, <4>1
      <4> QED BY <2>7, <2>11, <2>13, <4>1, <4>2
    <3>2. CASE 3 \notin busy
      BY <2>7, <3>2
    <3> QED BY <3>1, <3>2
  <2> QED BY <2>2, <2>6, <2>10, <2>11, <2>12, <2>13
<1> QED BY <1>1, <1>2

\* The end of a phase.
LEMMA NextPhaseOrder ==
  ASSUME NEW w \in Sweep, w.phase # "none"
  PROVE  /\ Fresh(NextPhase(w))
         /\ NextPhase(w).due.reports \subseteq w.due.reports
         /\ NextPhase(w).due.prune \subseteq w.due.prune
         /\ w.phase # "logs" => NextPhase(w).phase \notin {"logs", "reports"}
         /\ w.phase = "logs" /\ w.due.prune \subseteq w.due.reports =>
              IF NextPhase(w).phase \in {"logs", "reports"}
              THEN NextPhase(w).due.prune \subseteq NextPhase(w).due.reports
              ELSE NextPhase(w).due.prune = {}
<1> DEFINE at == CHOOSE i \in DOMAIN PhaseOrder : PhaseOrder[i] = w.phase
<1>1. at \in 1 .. 5 /\ PhaseOrder[at] = w.phase
  <2>1. \E i \in DOMAIN PhaseOrder : PhaseOrder[i] = w.phase
    BY DEF Sweep, Phase, PhaseOrder
  <2> QED BY <2>1, PhaseIndex
<1>2. NextPhase(w) = Enter(1 + at, w.due)
  BY DEF NextPhase
<1>3. w.due \in Due
  BY DEF Sweep, Due
<1> HIDE DEF at
<1>4. 1 + at \in 1 .. 6 /\ (w.phase = "logs" => 1 + at <= 2)
                       /\ (w.phase # "logs" => 1 + at > 2)
  BY <1>1, PhaseIndex
<1> QED BY <1>2, <1>3, <1>4, EnterPhase
-----------------------------------------------------------------------------
(* How the parts of the invariant are kept                                 *)

LEMMA FaultsAreCounted ==
  ASSUME FaultsOK, Fault
  PROVE  faults' # 0
BY BuildAssumption DEF FaultsOK, Fault, BuildAssumption

\* A sweep that turns to its next phase ..
LEMMA NextPhaseShape ==
  ASSUME NEW w \in Sweep, w.phase # "none", NEW age, SweepShape(w, age)
  PROVE  NextPhase(w) \in Sweep /\ SweepShape(NextPhase(w), age)
<1> PICK v : v = NextPhase(w)
  OBVIOUS
<1>1. v \in Sweep /\ ~v.listed /\ ~v.object
  BY NextPhaseOrder DEF Fresh
<1>2. v.due.reports \subseteq w.due.reports /\ v.due.prune \subseteq w.due.prune
  BY NextPhaseOrder
<1>3. v.phase \in {"logs", "reports"} /\ RowsOutliveReports =>
        v.due.prune \subseteq v.due.reports
  BY NextPhaseOrder DEF SweepShape
<1> QED BY <1>1, <1>2, <1>3 DEF SweepShape

\* .. and, when the reports are dealt with, what it will prune has none.
LEMMA NextPhasePurged ==
  ASSUME NEW w \in Sweep, w.phase # "none", NEW age, SweepShape(w, age),
         RowsOutliveReports, NEW left,
         \/ w.phase = "logs"
         \/ \A r \in w.due.prune : "report" \notin left[r]
  PROVE  ReportsPurged(NextPhase(w), left)
<1> PICK v : v = NextPhase(w)
  OBVIOUS
<1>1. ~v.listed /\ v.due.prune \subseteq w.due.prune
  BY NextPhaseOrder DEF Fresh
<1>2. w.phase = "logs" /\ v.phase \notin {"logs", "reports"} => v.due.prune = {}
  BY NextPhaseOrder DEF SweepShape
<1> QED BY <1>1, <1>2 DEF ReportsPurged

LEMMA RunsAreNat == Runs \in SUBSET Nat
BY PolicyAssumption DEF Runs, PolicyAssumption

\* The run a sweep is at is one it listed.
LEMMA RunInHand ==
  ASSUME NEW w \in Sweep, NEW age, SweepShape(w, age), w.listed,
         w.phase \in {"logs", "reports"}
  PROVE  Lowest(w.runs) \in w.runs /\ Lowest(w.runs) \in Runs
<1>1. w.runs \subseteq Runs /\ w.runs # {}
  BY DEF Sweep, SweepShape
<1> QED BY <1>1, RunsAreNat, LowestMember

\* What one sweep promises survives whatever takes objects away: another sweep, or
\* a deletion.
LEMMA FewerReportsPurged ==
  ASSUME NEW w \in Sweep, NEW age, SweepShape(w, age), NEW left, NEW fewer,
         ReportsPurged(w, left), \A r \in Runs : fewer[r] \subseteq left[r]
  PROVE  ReportsPurged(w, fewer)
<1>1. w.due.prune \subseteq Runs
  BY DEF Sweep
<1>2. w.phase = "reports" /\ w.listed => Lowest(w.runs) \in Runs
  BY RunInHand
<1> QED BY <1>1, <1>2 DEF ReportsPurged

\* One sweep moves and the others stay: it is enough to look at the one that
\* does, if no object appears and the rows keep their part.
LEMMA OneSweepMoves ==
  ASSUME RetentionInv, NEW s \in Sweepers, NEW w \in Sweep, Sweeps(s, w),
         UNCHANGED <<artAge, runAge>>, SweepShape(w, runAge),
         run' \in [Runs -> RunRow], \A r \in Runs : RunOK(r)',
         object' \in [Runs -> SUBSET {"log", "report"}],
         \A r \in Runs : object'[r] \subseteq object[r],
         faults' = 0 => faults = 0,
         faults' = 0 /\ RowsOutliveReports =>
           ReportsPurged(w, object') /\ \A r \in Runs : ReportNamed(r)'
  PROVE  RetentionInv'
<1>1. /\ sweep \in [Sweepers -> Sweep]
      /\ \A x \in Sweepers : SweepShape(sweep[x], runAge)
  BY DEF RetentionInv, RetentionTypeOK
<1>2. \A x \in Sweepers : sweep'[x] = IF x = s THEN w ELSE sweep[x]
  BY <1>1 DEF Sweeps
<1>3. RetentionTypeOK'
  BY <1>1 DEF RetentionInv, RetentionTypeOK, Sweeps
<1>4. \A x \in Sweepers : SweepShape(sweep'[x], runAge')
  BY <1>1, <1>2
<1>5. ASSUME faults' = 0, RowsOutliveReports, NEW x \in Sweepers
      PROVE  ReportsPurged(sweep'[x], object')
  <2>1. ReportsPurged(sweep[x], object)
    BY <1>5 DEF RetentionInv
  <2>2. ReportsPurged(sweep[x], object')
    BY <1>1, <2>1, FewerReportsPurged
  <2> QED BY <1>2, <1>5, <2>2
<1> QED BY <1>3, <1>4, <1>5 DEF RetentionInv

\* The same when it touches no run at all.
LEMMA OnlySweepMoves ==
  ASSUME RetentionInv, NEW s \in Sweepers, NEW w \in Sweep, Sweeps(s, w),
         UNCHANGED <<artAge, run, runAge, object>>, SweepShape(w, runAge),
         faults' = 0 => faults = 0,
         faults' = 0 /\ RowsOutliveReports => ReportsPurged(w, object)
  PROVE  RetentionInv'
<1>1. /\ run' \in [Runs -> RunRow] /\ \A r \in Runs : RunOK(r)'
      /\ object' \in [Runs -> SUBSET {"log", "report"}]
      /\ \A r \in Runs : object'[r] \subseteq object[r]
  BY DEF RetentionInv, RetentionTypeOK, RunOK
<1>2. faults' = 0 /\ RowsOutliveReports => \A r \in Runs : ReportNamed(r)'
  BY DEF RetentionInv, ReportNamed
<1> QED BY <1>1, <1>2, OneSweepMoves

\* The sweep of a step, in the state before it.
LEMMA SweepAt ==
  ASSUME RetentionInv, NEW s \in Sweepers
  PROVE  /\ sweep[s] \in Sweep /\ SweepShape(sweep[s], runAge)
         /\ faults = 0 /\ RowsOutliveReports => ReportsPurged(sweep[s], object)
BY DEF RetentionInv, RetentionTypeOK

\* The two kinds of purge.
LEMMA Kinds ==
  ASSUME NEW kind \in {Logs, Reports}
  PROVE  /\ kind.phase \in {"logs", "reports"} /\ kind.key \in {"log", "report"}
         /\ kind.phase = "reports" <=> kind.key = "report"
         /\ kind.phase = "logs" => \A s \in {"LIVE", "FINISHED", "ARCHIVED"} :
              kind.becomes[s] = s
         /\ kind.phase = "reports" => \A s \in {"LIVE", "FINISHED", "ARCHIVED"} :
              kind.becomes[s] = "ARCHIVED"
BY DEF Logs, Reports, Same

-----------------------------------------------------------------------------
(* The surroundings                                                        *)

LEMMA StartRunKeepsSweep ==
  ASSUME RetentionInv, FaultsOK, NEW r \in Runs, NEW a \in Artifacts, StartRun(r, a)
  PROVE  RetentionInv'
<1>1. /\ run' = [run EXCEPT ![r] = [status |-> "LIVE", art |-> a, keys |-> {}]]
      /\ object[r] = {} /\ runAge[r] = 0
      /\ UNCHANGED <<faults, artAge, runAge, object, sweep>>
  BY DEF StartRun, buildVars
<1>2. RetentionTypeOK'
  BY <1>1 DEF RetentionInv, RetentionTypeOK, RunRow
<1>3. \A x \in Runs : RunOK(x)'
  BY <1>1 DEF RetentionInv, RetentionTypeOK, RunOK
<1>4. ASSUME \A x \in Runs : ReportNamed(x)
      PROVE  \A x \in Runs : ReportNamed(x)'
  BY <1>1, <1>4 DEF RetentionInv, RetentionTypeOK, ReportNamed
<1> QED BY <1>1, <1>2, <1>3, <1>4 DEF RetentionInv

\* A run that ends is none of those a sweep is busy with: they ended before.
LEMMA FinishRunKeepsSweep ==
  ASSUME RetentionInv, FaultsOK, NEW r \in Runs, FinishRun(r)
  PROVE  RetentionInv'
<1>1. PICK keys \in {{}, {"log"}, {"log", "report"}} :
        /\ run' = [run EXCEPT ![r].status = "FINISHED", ![r].keys = keys]
        /\ object' = [object EXCEPT ![r] = keys]
  BY DEF FinishRun
<1>2. /\ run[r].status = "LIVE"
      /\ UNCHANGED <<faults, artAge, runAge, sweep>>
  BY DEF FinishRun, buildVars
<1>3. /\ run \in [Runs -> RunRow] /\ object \in [Runs -> SUBSET {"log", "report"}]
      /\ runAge \in [Runs -> Age]
  BY DEF RetentionInv, RetentionTypeOK
<1>4. RetentionTypeOK'
  BY <1>1, <1>2 DEF RetentionInv, RetentionTypeOK, RunRow
<1>5. \A x \in Runs : RunOK(x)'
  BY <1>1, <1>2, <1>3 DEF RetentionInv, RunOK, RunRow
<1>6. ASSUME NEW s \in Sweepers, ReportsPurged(sweep[s], object)
      PROVE  ReportsPurged(sweep[s], object')
  <2> PICK w : w = sweep[s]
    OBVIOUS
  <2>1. w \in Sweep /\ SweepShape(w, runAge)
    BY SweepAt
  <2>2. r \notin w.due.reports \cup w.due.prune
    BY <1>2, <1>3, <2>1 DEF RetentionInv, RunOK, SweepShape
  <2>3. \A x : x # r => object'[x] = object[x]
    BY <1>1, <1>3
  <2>4. w.listed /\ w.phase = "reports" => Lowest(w.runs) # r
    BY <2>1, <2>2, RunInHand DEF SweepShape
  <2> QED BY <1>6, <2>2, <2>3, <2>4 DEF ReportsPurged
<1>7. ASSUME \A x \in Runs : ReportNamed(x)
      PROVE  \A x \in Runs : ReportNamed(x)'
  BY <1>1, <1>3, <1>7 DEF ReportNamed, RunRow
<1> QED BY <1>2, <1>4, <1>5, <1>6, <1>7 DEF RetentionInv

LEMMA AgesKeepSweep ==
  ASSUME RetentionInv, FaultsOK,
         \/ \E a \in Artifacts : ArtifactAges(a)
         \/ \E r \in Runs : RunAges(r)
  PROVE  RetentionInv'
<1>1. UNCHANGED <<faults, run, object, sweep>>
  BY DEF ArtifactAges, RunAges, buildVars
<1>2. /\ run \in [Runs -> RunRow] /\ artAge \in [Artifacts -> Age]
      /\ runAge \in [Runs -> Age] /\ MaxAge \in Nat
  BY PolicyAssumption DEF RetentionInv, RetentionTypeOK, PolicyAssumption
<1>3. /\ artAge' \in [Artifacts -> Age] /\ runAge' \in [Runs -> Age]
      /\ \A x \in Runs : runAge[x] > 0 => runAge'[x] > 0
      /\ \A x \in Runs : runAge'[x] > 0 => run[x].status # "LIVE"
  <2>1. ASSUME NEW a \in Artifacts, ArtifactAges(a)
        PROVE  /\ artAge' \in [Artifacts -> Age] /\ UNCHANGED runAge
    BY <1>2, <2>1 DEF ArtifactAges, Age
  <2>2. ASSUME NEW r \in Runs, RunAges(r)
        PROVE  /\ UNCHANGED artAge /\ runAge' \in [Runs -> Age]
               /\ \A x \in Runs : runAge[x] > 0 => runAge'[x] > 0
               /\ \A x \in Runs : runAge'[x] > 0 => run[x].status # "LIVE"
    <3>1. /\ Finished(r) /\ runAge[r] < artAge[run[r].art] /\ UNCHANGED artAge
          /\ runAge' = [runAge EXCEPT ![r] = runAge[r] + 1]
      BY <2>2 DEF RunAges
    <3>2. run[r].art \in Artifacts /\ run[r].status # "LIVE"
      BY <3>1 DEF Finished, RetentionInv, RunOK
    <3>3. artAge[run[r].art] \in 0 .. MaxAge /\ runAge[r] \in 0 .. MaxAge
      BY <1>2, <3>2 DEF Age
    <3>4. runAge[r] + 1 \in Age
      BY <1>2, <3>1, <3>3 DEF Age
    <3>5. \A x \in Runs : runAge[x] > 0 => run[x].status # "LIVE"
      BY DEF RetentionInv, RunOK
    <3>6. \A x \in Runs : runAge'[x] = IF x = r THEN runAge[r] + 1 ELSE runAge[x]
      BY <1>2, <3>1
    <3> QED BY <1>2, <3>1, <3>2, <3>3, <3>4, <3>5, <3>6
  <2> QED BY <1>2, <2>1, <2>2 DEF RetentionInv, RunOK
<1>4. ASSUME NEW s \in Sweepers
      PROVE  SweepShape(sweep[s], runAge')
  <2>1. sweep[s] \in Sweep /\ SweepShape(sweep[s], runAge)
    BY SweepAt
  <2>2. sweep[s].due.reports \cup sweep[s].due.prune \subseteq Runs
    BY <2>1 DEF Sweep
  <2> QED BY <1>3, <2>1, <2>2 DEF SweepShape
<1> QED BY <1>1, <1>3, <1>4 DEF RetentionInv, RetentionTypeOK, RunOK, ReportNamed

\* Builds do not touch what the invariant is about, and faults do not go back.
LEMMA SameSweep ==
  ASSUME RetentionInv, UNCHANGED sweepVars, faults' = 0 => faults = 0
  PROVE  RetentionInv'
BY DEF RetentionInv, RetentionTypeOK, RunOK, ReportNamed, sweepVars
-----------------------------------------------------------------------------
(* Each step of a sweep                                                    *)

\* The runs due for pruning have been finished for longer than those due for
\* the purge of their reports, if no policy keeps a row less long than its report.
LEMMA StartSweepKeepsSweep ==
  ASSUME RetentionInv, FaultsOK, NEW s \in Sweepers, NEW p \in Policies,
         StartSweep(s, p)
  PROVE  RetentionInv'
<1>1. UNCHANGED <<faults, artAge, run, runAge, object>>
  BY DEF StartSweep, buildVars
<1> PICK due : due = [logs  |-> PastTTL(p.logs),
        reports  |-> PastTTL(p.reports),
        prune    |-> IF p.archiveOnly THEN {} ELSE PastTTL(p.runs),
        orphans  |-> {a \in Artifacts : artAge[a] > 0},
        binaries |-> {a \in Artifacts : artAge[a] > p.binaries}]
  OBVIOUS
<1> PICK w : w = Enter(1, due)
  OBVIOUS
<1>2. Sweeps(s, w)
  BY DEF StartSweep
<1>3. due \in Due
  BY DEF Due, PastTTL
<1>4. /\ p.reports \in Nat /\ p.runs \in Nat
      /\ RowsOutliveReports => p.archiveOnly \/ p.reports <= p.runs
      /\ \A r \in Runs : runAge[r] \in Nat
  BY PolicyAssumption
  DEF PolicyAssumption, RowsOutliveReports, RetentionInv, RetentionTypeOK, Age
<1>5. /\ RowsOutliveReports => due.prune \subseteq due.reports
      /\ \A r \in due.reports \cup due.prune : runAge[r] > 0
  BY <1>4 DEF PastTTL
<1>6. /\ Fresh(w) /\ w.due.reports \subseteq due.reports
      /\ w.due.prune \subseteq due.prune
      /\ RowsOutliveReports =>
           IF w.phase \in {"logs", "reports"}
           THEN w.due.prune \subseteq w.due.reports
           ELSE w.due.prune = {}
  <2>1. 1 \in 1 .. 6 /\ 1 <= 2
    OBVIOUS
  <2>2. w = Enter(1, due)
    OBVIOUS
  <2> QED BY ONLY <1>3, <1>5, <2>1, <2>2, EnterPhase, Zenon
<1>7. /\ w \in Sweep /\ SweepShape(w, runAge)
      /\ RowsOutliveReports => ReportsPurged(w, object)
  BY <1>5, <1>6 DEF Fresh, SweepShape, ReportsPurged
<1> QED BY <1>1, <1>2, <1>7, OnlySweepMoves

\* The report phase lists every run that is to be pruned and has its report.
LEMMA ListPhaseKeepsSweep ==
  ASSUME RetentionInv, FaultsOK, TableOK, NEW s \in Sweepers, ListPhase(s)
  PROVE  RetentionInv'
<1> PICK w : w = sweep[s]
  OBVIOUS
<1> PICK rs, as : rs = ListedRuns(w) /\ as = ListedArtifacts(w)
  OBVIOUS
<1>1. /\ w \in Sweep /\ w.phase # "none" /\ ~w.listed /\ SweepShape(w, runAge)
      /\ UNCHANGED <<artAge, run, runAge, object>>
      /\ faults = 0 /\ RowsOutliveReports => ReportsPurged(w, object)
  BY SweepAt DEF ListPhase
<1>2. \/ /\ rs \cup as # {} /\ UNCHANGED faults
         /\ Sweeps(s, [w EXCEPT !.listed = TRUE, !.runs = rs, !.copies = CopiesOf(as)])
      \/ /\ faults' = 0 => faults = 0 /\ rs \cup as = {}
         /\ Sweeps(s, NextPhase(w))
  BY FaultsAreCounted DEF ListPhase
<1>3. /\ w.phase \in {"logs", "reports"} => as = {}
      /\ rs \subseteq Runs
      /\ w.phase = "reports" => rs = ListExpiredRunsForReports(w.due.reports)
      /\ w.phase = "reports" => rs \subseteq w.due.reports
      /\ w.phase = "prune" => rs \subseteq w.due.prune
  BY <1>1 DEF ListedArtifacts, ListedRuns, ListExpiredRunsForLogs,
     ListExpiredRunsForReports, ListExpiredRunsForPrune, Sweep
<1>4. ASSUME faults = 0, RowsOutliveReports, w.phase = "reports",
             NEW r \in w.due.prune, "report" \in object[r]
      PROVE  r \in rs
  <2>1. r \in Runs /\ r \in w.due.reports
    BY <1>1, <1>4 DEF Sweep, SweepShape
  <2>2. ReportNamed(r)
    BY <1>4, <2>1 DEF RetentionInv
  <2> QED BY <1>3, <1>4, <2>1, <2>2 DEF ReportNamed, ListExpiredRunsForReports
<1>5. ASSUME rs \cup as # {}, UNCHANGED faults,
             Sweeps(s, [w EXCEPT !.listed = TRUE, !.runs = rs, !.copies = CopiesOf(as)])
      PROVE  RetentionInv'
  <2> PICK v : v = [w EXCEPT !.listed = TRUE, !.runs = rs, !.copies = CopiesOf(as)]
    OBVIOUS
  <2>1. CopiesOf(as) \in [Artifacts -> Row]
    BY RowMethods DEF CopiesOf, TableOK
  <2>2. /\ v \in Sweep /\ v.listed /\ v.runs = rs
        /\ v.due = w.due /\ v.phase = w.phase /\ v.object = w.object
    BY <1>1, <1>3, <2>1 DEF Sweep
  <2>3. ~w.object
    BY <1>1 DEF SweepShape
  <2>4. SweepShape(v, runAge)
    BY <1>1, <1>3, <1>5, <2>2 DEF SweepShape
  <2>5. faults = 0 /\ RowsOutliveReports => ReportsPurged(v, object)
    BY <1>1, <1>4, <2>2, <2>3 DEF ReportsPurged
  <2> QED BY <1>1, <1>5, <2>2, <2>4, <2>5, OnlySweepMoves
<1>6. ASSUME Sweeps(s, NextPhase(w)), faults' = 0 => faults = 0 /\ rs \cup as = {}
      PROVE  RetentionInv'
  <2>1. NextPhase(w) \in Sweep /\ SweepShape(NextPhase(w), runAge)
    BY <1>1, NextPhaseShape
  <2>2. ASSUME faults' = 0, RowsOutliveReports
        PROVE  ReportsPurged(NextPhase(w), object)
    <3>1. \/ w.phase = "logs"
          \/ \A r \in w.due.prune : "report" \notin object[r]
      <4>1. CASE w.phase = "reports"
        BY <1>4, <1>6, <2>2, <4>1
      <4>2. CASE w.phase \notin {"logs", "reports"}
        BY <1>1, <1>6, <2>2, <4>2 DEF ReportsPurged
      <4> QED BY <4>1, <4>2
    <3> QED BY <1>1, <2>2, <3>1, NextPhasePurged
  <2> QED BY <1>1, <1>6, <2>1, <2>2, OnlySweepMoves
<1> QED BY <1>2, <1>5, <1>6

\* Deleting an object of a run breaks no promise: the row follows.
LEMMA PurgeRunObjectKeepsSweep ==
  ASSUME RetentionInv, FaultsOK, NEW s \in Sweepers, NEW kind \in {Logs, Reports},
         PurgeRunObject(s, kind)
  PROVE  RetentionInv'
<1> PICK w, v, r : /\ w = sweep[s] /\ v = [w EXCEPT !.object = TRUE]
                   /\ r = Lowest(w.runs)
  OBVIOUS
<1>1. /\ w \in Sweep /\ w.listed /\ SweepShape(w, runAge)
      /\ w.phase = kind.phase /\ w.phase \in {"logs", "reports"}
      /\ Sweeps(s, v) /\ UNCHANGED <<artAge, run, runAge>>
      /\ faults = 0 /\ RowsOutliveReports => ReportsPurged(w, object)
  BY Kinds, SweepAt DEF PurgeRunObject
<1>2. r \in Runs /\ object \in [Runs -> SUBSET {"log", "report"}]
  BY <1>1, RunInHand DEF RetentionInv, RetentionTypeOK
<1>3. /\ v \in Sweep /\ v.listed /\ v.runs = w.runs
      /\ v.due = w.due /\ v.phase = w.phase
  BY <1>1 DEF Sweep
<1>4. SweepShape(v, runAge)
  BY <1>1, <1>3 DEF SweepShape
<1>5. CASE object' = [object EXCEPT ![r] = @ \ {kind.key}] /\ UNCHANGED faults
  <2>1. /\ object' \in [Runs -> SUBSET {"log", "report"}]
        /\ \A x \in Runs : object'[x] \subseteq object[x]
        /\ w.phase = "reports" => "report" \notin object'[r]
    BY <1>1, <1>2, <1>5, Kinds
  <2>2. ASSUME ReportsPurged(w, object) PROVE ReportsPurged(v, object')
    <3>1. w.due.prune \subseteq Runs
      BY <1>1 DEF Sweep
    <3> QED BY <1>1, <1>3, <2>1, <2>2, <3>1 DEF ReportsPurged
  <2>3. ASSUME \A x \in Runs : ReportNamed(x)
        PROVE  \A x \in Runs : ReportNamed(x)'
    BY <1>1, <2>1, <2>3 DEF ReportNamed
  <2>4. run' \in [Runs -> RunRow] /\ \A x \in Runs : RunOK(x)'
    BY <1>1 DEF RetentionInv, RetentionTypeOK, RunOK
  <2>5. faults' = 0 /\ RowsOutliveReports =>
          ReportsPurged(v, object') /\ \A x \in Runs : ReportNamed(x)'
    BY <1>1, <1>5, <2>2, <2>3 DEF RetentionInv
  <2> QED BY <1>1, <1>3, <1>4, <1>5, <2>1, <2>4, <2>5, OneSweepMoves
<1>6. CASE Fault /\ UNCHANGED object
  BY <1>1, <1>3, <1>4, <1>6, FaultsAreCounted, OnlySweepMoves
<1> QED BY <1>5, <1>6 DEF PurgeRunObject

\* A sweep goes on to the run after r.
LEMMA NextRunKeepsSweep ==
  ASSUME NEW w \in Sweep, NEW age, SweepShape(w, age), w.listed,
         w.phase \in {"logs", "reports"}, NEW r \in w.runs, NEW left
  PROVE  /\ NextRun(w, r) \in Sweep /\ SweepShape(NextRun(w, r), age)
         /\ /\ RowsOutliveReports /\ ReportsPurged(w, left)
            /\ w.phase = "reports" => "report" \notin left[r]
            => ReportsPurged(NextRun(w, r), left)
<1>1. CASE w.runs \ {r} = {}
  <2>1. NextRun(w, r) = NextPhase(w)
    BY <1>1 DEF NextRun
  <2>2. NextPhase(w) \in Sweep /\ SweepShape(NextPhase(w), age)
    BY NextPhaseShape
  <2>3. ASSUME RowsOutliveReports, ReportsPurged(w, left),
               w.phase = "reports" => "report" \notin left[r]
        PROVE  ReportsPurged(NextPhase(w), left)
    <3>1. \/ w.phase = "logs"
          \/ \A x \in w.due.prune : "report" \notin left[x]
      BY <1>1, <2>3 DEF ReportsPurged
    <3> QED BY <2>3, <3>1, NextPhasePurged
  <2> QED BY <2>1, <2>2, <2>3
<1>2. CASE w.runs \ {r} # {}
  <2> PICK v : v = [w EXCEPT !.runs = w.runs \ {r}, !.object = FALSE]
    OBVIOUS
  <2>1. NextRun(w, r) = v
    BY <1>2 DEF NextRun
  <2>2. /\ v \in Sweep /\ v.listed /\ v.runs = w.runs \ {r}
        /\ v.due = w.due /\ v.phase = w.phase /\ ~v.object
    BY DEF Sweep
  <2>3. SweepShape(v, age)
    BY <1>2, <2>2 DEF SweepShape
  <2>4. ASSUME RowsOutliveReports, ReportsPurged(w, left),
               w.phase = "reports" => "report" \notin left[r]
        PROVE  ReportsPurged(v, left)
    BY <2>2, <2>4 DEF ReportsPurged
  <2> QED BY <2>1, <2>2, <2>3, <2>4
<1> QED BY <1>1, <1>2

\* The row is cleared after its object was dealt with.
LEMMA ClearRunKeyKeepsSweep ==
  ASSUME RetentionInv, FaultsOK, NEW s \in Sweepers, NEW kind \in {Logs, Reports},
         ClearRunKey(s, kind)
  PROVE  RetentionInv'
<1> PICK w, r : w = sweep[s] /\ r = Lowest(w.runs)
  OBVIOUS
<1> PICK v : v = NextRun(w, r)
  OBVIOUS
<1>1. /\ w \in Sweep /\ w.listed /\ w.object /\ Sweeps(s, v)
      /\ w.phase = kind.phase /\ w.phase \in {"logs", "reports"}
      /\ SweepShape(w, runAge) /\ UNCHANGED <<artAge, runAge, object>>
      /\ faults = 0 /\ RowsOutliveReports => ReportsPurged(w, object)
  BY Kinds, SweepAt DEF ClearRunKey
<1>2. r \in w.runs /\ r \in Runs /\ run \in [Runs -> RunRow]
  BY <1>1, RunInHand DEF RetentionInv, RetentionTypeOK
<1>3. /\ v \in Sweep /\ SweepShape(v, runAge)
      /\ RowsOutliveReports /\ ReportsPurged(w, object) => ReportsPurged(v, object)
  <2>1. ReportsPurged(w, object) /\ w.phase = "reports" => "report" \notin object[r]
    BY <1>1 DEF ReportsPurged
  <2> QED BY <1>1, <1>2, <2>1, NextRunKeepsSweep
<1>4. CASE run[r].status = "NONE" \/ UNCHANGED run
  <2>1. UNCHANGED run
    BY <1>2, <1>4 DEF ClearRunKey
  <2>2. UNCHANGED faults \/ Fault
    BY DEF ClearRunKey
  <2> QED BY <1>1, <1>3, <2>1, <2>2, FaultsAreCounted, OnlySweepMoves
<1>5. CASE run[r].status # "NONE" /\ ~UNCHANGED run
  <2> PICK row : row = [run[r] EXCEPT !.keys = @ \ {kind.key},
                                      !.status = kind.becomes[run[r].status]]
    OBVIOUS
  <2>1. run' = [run EXCEPT ![r] = row] /\ UNCHANGED faults
    <3>1. /\ UNCHANGED faults
          /\ run' = [run EXCEPT ![r].keys = @ \ {kind.key},
                                ![r].status = kind.becomes[@]]
      BY <1>5 DEF ClearRunKey
    <3> QED BY <1>2, <3>1
  <2>2. run[r] \in RunRow /\ RunOK(r)
    BY <1>2 DEF RetentionInv
  <2>3. kind.becomes[run[r].status] \in {run[r].status, "ARCHIVED"}
    BY <1>1, <1>5, <2>2, Kinds DEF RunRow
  <2>4. /\ row \in RunRow /\ row.art = run[r].art
        /\ row.status = kind.becomes[run[r].status]
        /\ row.keys = run[r].keys \ {kind.key}
    BY <2>2, <2>3 DEF RunRow
  <2>5. run' \in [Runs -> RunRow] /\ \A x \in Runs : RunOK(x)'
    BY <1>1, <1>2, <1>5, <2>1, <2>2, <2>3, <2>4 DEF RetentionInv, RunOK
  <2>6. ASSUME ReportsPurged(w, object), \A x \in Runs : ReportNamed(x)
        PROVE  \A x \in Runs : ReportNamed(x)'
    <3>1. ReportNamed(r)'
      <4>1. CASE w.phase = "reports"
        BY <1>1, <2>6, <4>1 DEF ReportsPurged, ReportNamed
      <4>2. CASE w.phase = "logs"
        <5>1. row.status = run[r].status /\ kind.key # "report"
          <6>1. kind.phase = "logs"
            BY <1>1, <4>2
          <6>2. run[r].status \in {"LIVE", "FINISHED", "ARCHIVED"}
            BY <1>5, <2>2 DEF RunRow
          <6> QED BY <2>4, <6>1, <6>2, Kinds
        <5> QED BY <1>1, <1>2, <2>1, <2>4, <2>6, <5>1 DEF ReportNamed
      <4> QED BY <1>1, <4>1, <4>2
    <3> QED BY <1>1, <1>2, <2>1, <2>6, <3>1 DEF ReportNamed
  <2>7. faults' = 0 /\ RowsOutliveReports =>
          ReportsPurged(v, object') /\ \A x \in Runs : ReportNamed(x)'
    BY <1>1, <1>3, <2>1, <2>6 DEF RetentionInv
  <2>8. /\ object' \in [Runs -> SUBSET {"log", "report"}]
        /\ \A x \in Runs : object'[x] \subseteq object[x]
    BY <1>1 DEF RetentionInv, RetentionTypeOK
  <2> QED BY <1>1, <1>3, <2>1, <2>5, <2>7, <2>8, OneSweepMoves
<1> QED BY <1>4, <1>5

\* The rows deleted had lost their reports before.
LEMMA PruneRunsKeepsSweep ==
  ASSUME RetentionInv, FaultsOK, NEW s \in Sweepers, PruneRuns(s)
  PROVE  RetentionInv'
<1> PICK w, v : w = sweep[s] /\ v = NextPhase(w)
  OBVIOUS
<1>1. /\ w \in Sweep /\ w.listed /\ w.phase = "prune" /\ SweepShape(w, runAge)
      /\ Sweeps(s, v) /\ UNCHANGED <<artAge, runAge, object>>
      /\ run \in [Runs -> RunRow]
      /\ faults = 0 /\ RowsOutliveReports => ReportsPurged(w, object)
  BY SweepAt DEF PruneRuns, RetentionInv, RetentionTypeOK
<1>2. v \in Sweep /\ SweepShape(v, runAge)
  BY <1>1, NextPhaseShape
<1>3. ASSUME RowsOutliveReports, ReportsPurged(w, object)
      PROVE  ReportsPurged(v, object)
  <2>1. \A r \in w.due.prune : "report" \notin object[r]
    BY <1>1, <1>3 DEF ReportsPurged
  <2> QED BY <1>1, <1>3, <2>1, NextPhasePurged
<1>4. CASE /\ run' = [r \in Runs |-> IF r \in w.runs THEN NoRun ELSE run[r]]
           /\ UNCHANGED faults
  <2>1. run' \in [Runs -> RunRow] /\ \A x \in Runs : RunOK(x)'
    BY <1>1, <1>4 DEF RetentionInv, RunOK, NoRun, RunRow
  <2>2. ASSUME ReportsPurged(w, object), \A x \in Runs : ReportNamed(x)
        PROVE  \A x \in Runs : ReportNamed(x)'
    <3>1. \A x \in w.runs : "report" \notin object[x]
      BY <1>1, <2>2 DEF ReportsPurged, SweepShape
    <3> QED BY <1>1, <1>4, <2>2, <3>1 DEF ReportNamed
  <2>3. faults' = 0 /\ RowsOutliveReports =>
          ReportsPurged(v, object') /\ \A x \in Runs : ReportNamed(x)'
    BY <1>1, <1>3, <1>4, <2>2 DEF RetentionInv
  <2>4. /\ object' \in [Runs -> SUBSET {"log", "report"}]
        /\ \A x \in Runs : object'[x] \subseteq object[x]
    BY <1>1 DEF RetentionInv, RetentionTypeOK
  <2> QED BY <1>1, <1>2, <1>4, <2>1, <2>3, <2>4, OneSweepMoves
<1>5. CASE Fault /\ UNCHANGED run
  BY <1>1, <1>2, <1>5, FaultsAreCounted, OnlySweepMoves
<1> QED BY <1>4, <1>5 DEF PruneRuns

\* Phases 4 and 5 leave the runs alone.
LEMMA ArtifactPhasesKeepSweep ==
  ASSUME RetentionInv, FaultsOK, TableOK, NEW s \in Sweepers,
         PurgeArtifactObjects(s) \/ DeleteOrphan(s) \/ ClearBinaryKeys(s)
  PROVE  RetentionInv'
<1> PICK w : w = sweep[s]
  OBVIOUS
<1>1. /\ w \in Sweep /\ w.listed /\ w.phase \in {"orphans", "binaries"}
      /\ SweepShape(w, runAge) /\ UNCHANGED <<artAge, run, runAge, object>>
      /\ faults = 0 /\ RowsOutliveReports => ReportsPurged(w, object)
  BY SweepAt DEF PurgeArtifactObjects, DeleteOrphan, ClearBinaryKeys
<1>2. /\ faults' = 0 => faults = 0
      /\ \/ Sweeps(s, [w EXCEPT !.object = TRUE])
         \/ \E a : Sweeps(s, [w EXCEPT !.copies[a] = NoRow, !.object = FALSE])
         \/ Sweeps(s, NextPhase(w))
  BY FaultsAreCounted
  DEF PurgeArtifactObjects, DeleteOrphan, ClearBinaryKeys, NextArtifact
<1>3. CASE Sweeps(s, NextPhase(w))
  <2>1. NextPhase(w) \in Sweep /\ SweepShape(NextPhase(w), runAge)
    BY <1>1, NextPhaseShape
  <2>2. ASSUME RowsOutliveReports, ReportsPurged(w, object)
        PROVE  ReportsPurged(NextPhase(w), object)
    <3>1. \A r \in w.due.prune : "report" \notin object[r]
      BY <1>1, <2>2 DEF ReportsPurged
    <3> QED BY <1>1, <2>2, <3>1, NextPhasePurged
  <2> QED BY <1>1, <1>2, <1>3, <2>1, <2>2, OnlySweepMoves
<1>4. ASSUME NEW v \in Sweep, Sweeps(s, v), v.listed, v.runs = w.runs,
             v.due = w.due, v.phase = w.phase
      PROVE  RetentionInv'
  <2>1. /\ SweepShape(v, runAge)
        /\ ReportsPurged(w, object) => ReportsPurged(v, object)
    BY <1>1, <1>4 DEF SweepShape, ReportsPurged
  <2> QED BY <1>1, <1>2, <1>4, <2>1, OnlySweepMoves
<1>5. CASE Sweeps(s, [w EXCEPT !.object = TRUE])
  <2> PICK v : v = [w EXCEPT !.object = TRUE]
    OBVIOUS
  <2>1. /\ v \in Sweep /\ v.listed /\ v.runs = w.runs /\ v.due = w.due
        /\ v.phase = w.phase
    BY <1>1 DEF Sweep
  <2> QED BY <1>4, <1>5, <2>1
<1>6. ASSUME NEW a, Sweeps(s, [w EXCEPT !.copies[a] = NoRow, !.object = FALSE])
      PROVE  RetentionInv'
  <2> PICK copies : copies = [w.copies EXCEPT ![a] = NoRow]
    OBVIOUS
  <2> PICK v : v = [w EXCEPT !.copies = copies, !.object = FALSE]
    OBVIOUS
  <2>1. copies \in [Artifacts -> Row]
    BY <1>1, RowMethods DEF Sweep, NoRow, Row, Status
  <2>2. /\ v \in Sweep /\ v.listed /\ v.runs = w.runs /\ v.due = w.due
        /\ v.phase = w.phase
    BY <1>1, <2>1 DEF Sweep
  <2>3. Sweeps(s, v)
    BY <1>1, <1>6 DEF Sweep
  <2> QED BY <1>4, <2>2, <2>3
<1> QED BY <1>2, <1>3, <1>5, <1>6
-----------------------------------------------------------------------------
(* The engine as a whole                                                   *)

\* A build step counts each fault it meets.
LEMMA BuildStepFaults ==
  ASSUME FaultsOK, BuildStep
  PROVE  faults' = 0 => faults = 0
<1>1. ASSUME NEW c \in Clients, RequestStep(c)
      PROVE  UNCHANGED faults \/ Fault
  BY <1>1 DEF RequestStep, List, Stage, StageFails, StartBuilds, CancelKill,
     CancelSave, RetrySave, DeleteArtifactObjects
<1>2. ASSUME NEW c \in Clients, NewRequest(c)
      PROVE  UNCHANGED faults
  BY <1>2 DEF NewRequest, Trigger, CancelBuild, Retry, DeleteArtifact, Read
<1>3. ASSUME NEW c \in Clients, NEW referenced, DeleteArtifactRow(c, referenced)
      PROVE  UNCHANGED faults \/ Fault
  BY <1>3 DEF DeleteArtifactRow
<1>4. ASSUME NEW b \in Builders, BuilderStep(b)
      PROVE  UNCHANGED faults \/ Fault
  BY <1>4 DEF BuilderStep, FindArtifact, SaveBuilding, PresignFails,
     PruneStaleJob, CreateJob, WaitSucceeded, WaitFailed, SaveOutcome
<1>5. Cluster => UNCHANGED faults \/ Fault
  BY DEF Cluster, PodUploads, JobSucceeds, JobFails, JobRemoved, LifecycleExpires
<1> QED BY <1>1, <1>2, <1>3, <1>4, <1>5, FaultsAreCounted DEF BuildStep

LEMMA BuildStepKeepsRows ==
  ASSUME RowsInv, BuildStep
  PROVE  RowsInv'
BY RequestKeepsRows, DeleteArtifactRowKeepsRows, BuilderKeepsRows, ClusterKeepsRows
DEF BuildStep

\* The two UPDATEs a sweep makes on artifacts, by id, keep a row honest.
LEMMA SweepWrites ==
  ASSUME RowsInv, NEW a, NEW r, Save(a, r), UNCHANGED <<issued, built>>,
         a \in Artifacts => r \in Row /\ Sound(r, a \in built)
  PROVE  TableOK'
<1>1. CASE a \in Artifacts
  BY <1>1, SaveKeepsTable DEF RowsInv
<1>2. CASE a \notin Artifacts
  <2>1. UNCHANGED art
    BY <1>2 DEF Save, RowsInv, TableOK
  <2> QED BY <2>1 DEF RowsInv, TableOK
<1> QED BY <1>1, <1>2

LEMMA SweepKeepsRows ==
  ASSUME RowsInv, NEW s \in Sweepers, SweepStep(s)
  PROVE  RowsInv'
<1>1. UNCHANGED <<issued, cluster, request, builder, source>>
  BY DEF SweepStep, ListPhase, PurgeRunObject, ClearRunKey, PruneRuns,
     PurgeArtifactObjects, DeleteOrphan, ClearBinaryKeys, DeleteObjects, rows, bucket
<1>2. FaultsOK'
  <2>1. UNCHANGED faults \/ Fault
    BY DEF SweepStep, ListPhase, PurgeRunObject, ClearRunKey, PruneRuns,
       PurgeArtifactObjects, DeleteOrphan, ClearBinaryKeys
  <2> QED BY <2>1, UntouchedParts DEF RowsInv
<1>3. ClusterOK'
  <2>1. CASE PurgeArtifactObjects(s)
    BY <1>1, <2>1, DeleteObjectsKeepsCluster, UntouchedParts
    DEF PurgeArtifactObjects, RowsInv, bucket
  <2>2. CASE ~PurgeArtifactObjects(s)
    <3>1. UNCHANGED binary
      BY <2>2 DEF SweepStep, ListPhase, PurgeRunObject, ClearRunKey, PruneRuns,
         DeleteOrphan, ClearBinaryKeys, bucket
    <3> QED BY <1>1, <3>1, UntouchedParts DEF RowsInv
  <2> QED BY <2>1, <2>2
<1>4. TableOK'
  <2>1. CASE DeleteOrphan(s)
    <3>1. NoRow \in Row /\ \A ok : Sound(NoRow, ok)
      BY DEF NoRow, Row, Status, Sound
    <3> QED BY <1>1, <2>1, <3>1, SweepWrites, UntouchedParts
            DEF DeleteOrphan, RowsInv, rows, cluster
  <2>2. CASE ClearBinaryKeys(s)
    <3>1. \A a \in Artifacts : /\ [art[a] EXCEPT !.key = FALSE] \in Row
                               /\ Sound([art[a] EXCEPT !.key = FALSE], a \in built)
      BY DEF RowsInv, TableOK, Row, Sound
    <3> QED BY <1>1, <2>2, <3>1, SweepWrites, UntouchedParts
            DEF ClearBinaryKeys, RowsInv, rows, cluster
  <2>3. CASE ~DeleteOrphan(s) /\ ~ClearBinaryKeys(s)
    <3>1. UNCHANGED rows
      BY <2>3 DEF SweepStep, ListPhase, PurgeRunObject, ClearRunKey, PruneRuns,
         PurgeArtifactObjects
    <3> QED BY <1>1, <3>1, UntouchedParts DEF RowsInv, cluster
  <2> QED BY <2>1, <2>2, <2>3
<1> QED BY <1>1, <1>2, <1>3, <1>4, UntouchedParts DEF RowsInv, cluster

LEMMA SurroundingsKeepRows ==
  ASSUME RowsInv,
         \/ \E r \in Runs : (\E a \in Artifacts : StartRun(r, a)) \/ FinishRun(r)
                            \/ RunAges(r)
         \/ \E a \in Artifacts : ArtifactAges(a)
         \/ \E s \in Sweepers, p \in Policies : StartSweep(s, p)
  PROVE  RowsInv'
<1>1. UNCHANGED buildVars
  BY DEF StartRun, FinishRun, RunAges, ArtifactAges, StartSweep
<1> QED BY <1>1, UntouchedParts DEF buildVars, RowsInv, rows, cluster

LEMMA RetentionInit == Init => RowsInv /\ RetentionInv
<1> SUFFICES ASSUME Init PROVE RowsInv /\ RetentionInv
  OBVIOUS
<1>1. RowsInv
  BY BuildInit DEF Init
<1>2. \A s \in Sweepers : /\ sweep[s] \in Sweep /\ SweepShape(sweep[s], runAge)
                           /\ ReportsPurged(sweep[s], object)
  BY NoSweepIsFresh DEF Init, Fresh, SweepShape, ReportsPurged
<1>3. RetentionTypeOK
  BY <1>2, PolicyAssumption
  DEF Init, RetentionTypeOK, Age, RunRow, NoRun, PolicyAssumption
<1>4. \A r \in Runs : RunOK(r) /\ ReportNamed(r)
  BY DEF Init, RunOK, ReportNamed, NoRun
<1> QED BY <1>1, <1>2, <1>3, <1>4 DEF RetentionInv

LEMMA RestartKeepsSweep ==
  ASSUME RetentionInv, FaultsOK, Restart
  PROVE  RetentionInv'
<1>1. /\ sweep' = [s \in Sweepers |-> NoSweep]
      /\ UNCHANGED <<artAge, run, runAge, object>> /\ faults' # 0
  BY FaultsAreCounted DEF Restart, RestartServer
<1>2. \A s \in Sweepers : sweep'[s] \in Sweep /\ SweepShape(sweep'[s], runAge')
  BY <1>1, NoSweepIsFresh DEF Fresh, SweepShape
<1>3. sweep' \in [Sweepers -> Sweep]
  BY <1>1, <1>2
<1> QED BY <1>1, <1>2, <1>3 DEF RetentionInv, RetentionTypeOK, RunOK

\* The builds' invariant survives the sweeps, and the sweeps keep their own.
THEOREM RetentionInvariant == Spec => [](RowsInv /\ RetentionInv)
<1>1. RowsInv /\ RetentionInv /\ [Next]_vars => RowsInv' /\ RetentionInv'
  <2> SUFFICES ASSUME RowsInv, RetentionInv, [Next]_vars
               PROVE  RowsInv' /\ RetentionInv'
    OBVIOUS
  <2>1. FaultsOK /\ TableOK
    BY DEF RowsInv
  <2>2. CASE UNCHANGED vars
    <3>1. UNCHANGED buildVars /\ UNCHANGED sweepVars
      BY <2>2 DEF vars
    <3>2. RowsInv'
      BY <3>1, UntouchedParts DEF buildVars, RowsInv, rows, cluster
    <3> QED BY <3>1, <3>2, SameSweep DEF buildVars
  <2>3. CASE BuildStep
    BY <2>1, <2>3, BuildStepKeepsRows, BuildStepFaults, SameSweep DEF BuildStep
  <2>4. ASSUME NEW s \in Sweepers, SweepStep(s)
      PROVE  RowsInv' /\ RetentionInv'
    <3>1. RetentionInv'
      BY <2>1, <2>4, ListPhaseKeepsSweep, PurgeRunObjectKeepsSweep,
         ClearRunKeyKeepsSweep, PruneRunsKeepsSweep, ArtifactPhasesKeepSweep
      DEF SweepStep
    <3> QED BY <2>4, <3>1, SweepKeepsRows
  <2>5. CASE Restart
    BY <2>1, <2>5, RestartKeepsSweep, RestartServerKeepsRows DEF Restart
  <2>6. CASE \/ \E r \in Runs : (\E a \in Artifacts : StartRun(r, a)) \/ FinishRun(r)
                                \/ RunAges(r)
             \/ \E a \in Artifacts : ArtifactAges(a)
             \/ \E s \in Sweepers, p \in Policies : StartSweep(s, p)
    <3>1. RetentionInv'
      BY <2>1, <2>6, StartRunKeepsSweep, FinishRunKeepsSweep, AgesKeepSweep,
         StartSweepKeepsSweep
    <3> QED BY <2>6, <3>1, SurroundingsKeepRows
  <2> QED BY <2>2, <2>3, <2>4, <2>5, <2>6 DEF Next
<1> QED BY <1>1, RetentionInit, PTL DEF Spec

\* Every variable of the retention engine has its type.
THEOREM RetentionTypes == Spec => []RetentionTypeOK
<1>1. RetentionInv => RetentionTypeOK
  BY DEF RetentionInv
<1> QED BY <1>1, RetentionInvariant, PTL

\* Without faults a report in the bucket is named by its row, if no policy keeps a
\* row less long than its report: a sweep purges the reports before it prunes the
\* rows, and both cutoffs come from one "now".
THEOREM ReportsAreNamed == Spec => []ReportsHaveARow
<1>1. RetentionInv => ReportsHaveARow
  BY DEF RetentionInv, ReportNamed, ReportsHaveARow
<1> QED BY <1>1, RetentionInvariant, PTL

\* The sweeps' own deletes and updates, by id and whatever the row says by then,
\* keep what the builds promise of a row.
THEOREM SweepsKeepRowsHonest ==
  Spec => [](BinaryKeyOnlyWhenReady /\ ReadyWasBuilt)
BY RetentionInvariant, RowsAreHonest, PTL

\* A sweep deletes objects of artifacts that were built and never the source.
LEMMA SweepKeepsSource ==
  ASSUME NEW s \in Sweepers, SweepStep(s)
  PROVE  UNCHANGED source
BY DEF SweepStep, ListPhase, PurgeRunObject, ClearRunKey, PruneRuns,
   PurgeArtifactObjects, DeleteOrphan, ClearBinaryKeys, DeleteObjects, bucket

LEMMA SurroundingsKeepSource ==
  ASSUME \/ \E r \in Runs : (\E a \in Artifacts : StartRun(r, a)) \/ FinishRun(r)
                            \/ RunAges(r)
         \/ \E a \in Artifacts : ArtifactAges(a)
         \/ \E s \in Sweepers, p \in Policies : StartSweep(s, p)
         \/ Restart
  PROVE  UNCHANGED source
BY DEF StartRun, FinishRun, RunAges, ArtifactAges, StartSweep, Restart,
   RestartServer, buildVars, bucket

\* What a build Job compiles went through the analyser (as in
\* CompiledCodeIsAnalysed) also while sweeps delete rows and binaries, and the types
\* of the builds hold beside them: TriggerBuild alone writes the suite's source
\* object, and no phase of RunHousekeeping does.
THEOREM SweepsCompileAnalysedCode == Spec => [](OnlyAnalysedCode /\ BuildTypeOK)
<1>1. Init => SourceInv
  BY NoSourceIsAnalysed DEF Init, InitBuild
<1>2. SourceInv /\ [Next]_vars => SourceInv'
  <2> SUFFICES ASSUME SourceInv, [Next]_vars
               PROVE  SourceInv'
    OBVIOUS
  <2>1. CASE UNCHANGED vars
    BY <2>1, SameSource DEF vars, buildVars
  <2>2. CASE BuildStep
    <3>1. ASSUME NEW c \in Clients, DeleteArtifactRow(c, Referenced(request[c].art))
          PROVE  SourceInv'
      BY <3>1, SameSource DEF DeleteArtifactRow, bucket
    <3> QED BY <2>2, <3>1, RequestKeepsSource, BuilderKeepsSource,
               ClusterKeepsSource, SameSource DEF BuildStep
  <2> QED BY <2>1, <2>2, SweepKeepsSource, SurroundingsKeepSource, SameSource DEF Next
<1>3. RowsInv /\ SourceInv => OnlyAnalysedCode /\ BuildTypeOK
  BY DEF RowsInv, TableOK, ClusterOK, RequestsOK, BuildersOK, FaultsOK, SourceInv,
     BuildTypeOK
<1> QED BY <1>1, <1>2, <1>3, RetentionInvariant, PTL DEF Spec
=============================================================================
