-------------------------- MODULE StartBarrier_proofs --------------------------
(***************************************************************************)
(* Proofs about StartBarrier, for any number of pods, of pods counted, of  *)
(* replicas and of restarts. The argument: two sets of Total pods share a  *)
(* pod, a pod comes once and one session counts it, so there is at most    *)
(* one release; what ends a wait otherwise never sets a target.            *)
(***************************************************************************)
EXTENDS StartBarrier, FiniteSetTheorems, TLAPS

-----------------------------------------------------------------------------
(* Cardinalities                                                           *)

LEMMA CardinalityOfPods ==
  ASSUME NEW A \in SUBSET Workers
  PROVE  IsFiniteSet(A) /\ Cardinality(A) \in Nat /\ Cardinality(A) <= Cardinality(Workers)
<1>1. IsFiniteSet(Workers)
  BY BarrierAssumption
<1>2. IsFiniteSet(A) /\ Cardinality(A) <= Cardinality(Workers)
  BY <1>1, FS_Subset
<1> QED BY <1>2, FS_CardinalityType

\* Two releases would have a pod in common.
LEMMA QuorumsMeet ==
  ASSUME NEW A \in SUBSET Workers, NEW B \in SUBSET Workers,
         Cardinality(A) >= Total, Cardinality(B) >= Total
  PROVE  A \cap B # {}
<1> SUFFICES ASSUME A \cap B = {} PROVE FALSE
  OBVIOUS
<1>1. IsFiniteSet(A) /\ IsFiniteSet(B) /\ Cardinality(A) \in Nat /\ Cardinality(B) \in Nat
  BY CardinalityOfPods
<1>2. Cardinality(A \cap B) = 0
  BY FS_EmptySet
<1>3. Cardinality(A \cup B) = Cardinality(A) + Cardinality(B) - Cardinality(A \cap B)
  BY <1>1, FS_Union
<1>4. (A \cup B) \in SUBSET Workers
  OBVIOUS
<1>5. Cardinality(A \cup B) <= Cardinality(Workers) /\ Cardinality(Workers) \in Nat
  BY <1>4, CardinalityOfPods
<1> QED BY <1>1, <1>2, <1>3, <1>5, BarrierAssumption

LEMMA QuorumIsNotEmpty ==
  ASSUME NEW A \in SUBSET Workers, Cardinality(A) >= Total
  PROVE  A # {}
BY FS_EmptySet, BarrierAssumption

-----------------------------------------------------------------------------
(* The operations of the session                                           *)

LEMMA SessionOps ==
  ASSUME NEW se \in Session, NEW w \in Workers
  PROVE  /\ MarkWorkerReady(se, w) \in Session
         /\ Release(se) \in Session
         /\ TimeoutSession(se) \in Session
         /\ MarkWorkerAborted(se, w) \in Session
<1> USE DEF Session, BarrierStatus, Instant
<1>1. MarkWorkerReady(se, w) \in Session
  BY DEF MarkWorkerReady
<1>2. Release(se) \in Session
  BY DEF Release
<1>3. TimeoutSession(se) \in Session
  BY DEF TimeoutSession
<1>4. MarkWorkerAborted(se, w) \in Session
  BY DEF MarkWorkerAborted
<1> QED BY <1>1, <1>2, <1>3, <1>4

LEMMA NoSessionType == NoSession \in Session
BY DEF NoSession, Session, BarrierStatus, Instant, NoInstant

LEMMA OpenedType ==
  ASSUME TypeOK, NEW s \in Replicas
  PROVE  Opened(s) \in Session
BY DEF TypeOK, Opened, Session, BarrierStatus

\* A timeout and an abort leave a sound session sound, and so does its loss.
LEMMA TimeoutKeepsOK ==
  ASSUME NEW se \in Session, SessionOK(se)
  PROVE  SessionOK(TimeoutSession(se))
BY DEF SessionOK, TimeoutSession, IsTerminal, Session, BarrierStatus, NoSession

LEMMA AbortKeepsOK ==
  ASSUME NEW se \in Session, SessionOK(se), NEW w \in Workers
  PROVE  SessionOK(MarkWorkerAborted(se, w))
BY DEF SessionOK, MarkWorkerAborted, Session, BarrierStatus, NoSession

LEMMA NoSessionOK == SessionOK(NoSession)
BY DEF SessionOK, NoSession, NoInstant

\* A sound session stays sound while pods come and replies do not change ..
LEMMA SessionLater ==
  ASSUME NEW se \in Session, SessionOK(se), reply' = reply, Arrived \subseteq Arrived'
  PROVE  SessionOK(se)'
BY DEF SessionOK

\* .. and when the only instant there is answers one more pod.
LEMMA SessionAnswer ==
  ASSUME NEW se \in Session, SessionOK(se), Arrived \subseteq Arrived',
         NEW w \in Workers, NEW t \in Instant, t # NoInstant,
         reply \in [Workers -> Instant],
         reply' = [reply EXCEPT ![w] = t],
         \A v \in Workers : reply[v] \in {NoInstant, t},
         "release" \notin se.closed => t \cap se.ready = {}
  PROVE  SessionOK(se)'
<1>1. \A v \in Workers : reply'[v] \in {reply[v], t}
  OBVIOUS
<1>2. "release" \notin se.closed =>
        \A v \in Workers : reply'[v] \cap se.ready = {}
  BY <1>1 DEF SessionOK
<1>3. se.target # NoInstant => \E v \in Workers : reply'[v] = se.target
  BY DEF SessionOK
<1> QED BY <1>2, <1>3 DEF SessionOK

-----------------------------------------------------------------------------
(* Type correctness                                                        *)

LEMMA LeaveType ==
  ASSUME TypeOK, NEW w \in Workers, NEW p \in PodPc, Leave(w, p)
  PROVE  pc' \in [Workers -> PodPc] /\ at' \in [Workers -> SUBSET Replicas]
BY DEF TypeOK, Leave

LEMMA TypeInit == Init => TypeOK
BY NoSessionType, BarrierAssumption DEF Init, TypeOK, PodPc, Instant, NoInstant

LEMMA TypeNext == TypeOK /\ [Next]_vars => TypeOK'
<1> SUFFICES ASSUME TypeOK, [Next]_vars PROVE TypeOK'
  OBVIOUS
<1>1. ASSUME NEW w \in Workers, NEW s \in Replicas, AwaitRefused(w, s) PROVE TypeOK'
  BY <1>1, LeaveType, "refused" \in PodPc DEF AwaitRefused, TypeOK, PodPc
<1>2. ASSUME NEW w \in Workers, NEW s \in Replicas, AwaitLate(w, s) PROVE TypeOK'
  <2>1. pc' \in [Workers -> PodPc] /\ at' \in [Workers -> SUBSET Replicas]
    BY <1>2, LeaveType, "answered" \in PodPc DEF AwaitLate, Answer, PodPc
  <2>2. session[s].target \in Instant
    BY DEF TypeOK, Session
  <2>3. reply' \in [Workers -> Instant]
    BY <1>2, <2>2 DEF AwaitLate, Answer, TypeOK
  <2> QED BY <1>2, <2>1, <2>3 DEF AwaitLate, TypeOK
<1>3. ASSUME NEW w \in Workers, NEW s \in Replicas, AwaitLast(w, s) PROVE TypeOK'
  <2> DEFINE se == Release(MarkWorkerReady(Opened(s), w))
  <2>1. pc' \in [Workers -> PodPc] /\ at' \in [Workers -> SUBSET Replicas]
    BY <1>3, LeaveType, "answered" \in PodPc DEF AwaitLast, Answer, PodPc
  <2>2. se \in Session
    BY OpenedType, SessionOps
  <2>3. session' = [session EXCEPT ![s] = se] /\ reply' = [reply EXCEPT ![w] = se.target]
    BY <1>3 DEF AwaitLast, Answer
  <2>4. se.target \in Instant
    BY <2>2 DEF Session
  <2> HIDE DEF se
  <2> QED BY <1>3, <2>1, <2>2, <2>3, <2>4 DEF AwaitLast, TypeOK
<1>4. ASSUME NEW w \in Workers, NEW s \in Replicas, AwaitBlocks(w, s) PROVE TypeOK'
  <2> DEFINE se == MarkWorkerReady(Opened(s), w)
  <2>1. se \in Session
    BY OpenedType, SessionOps
  <2>2. session' = [session EXCEPT ![s] = se]
    BY <1>4 DEF AwaitBlocks
  <2> HIDE DEF se
  <2> QED BY <1>4, <2>1, <2>2 DEF AwaitBlocks, TypeOK, PodPc
<1>5. ASSUME NEW w \in Workers, NEW s \in Replicas, SignalAbort(w, s) PROVE TypeOK'
  <2>1. session[s] \in Session
    BY DEF TypeOK
  <2>2. MarkWorkerAborted(session[s], w) \in Session
    BY <2>1, SessionOps
  <2>3. pc' \in [Workers -> PodPc] /\ at' \in [Workers -> SUBSET Replicas]
    BY <1>5, LeaveType, "unfit" \in PodPc DEF SignalAbort, PodPc
  <2> QED BY <1>5, <2>2, <2>3 DEF SignalAbort, TypeOK
<1>6. ASSUME NEW w \in Workers, NEW s \in Replicas, OperatorAborts(w, s) PROVE TypeOK'
  <2>1. session[s] \in Session
    BY DEF TypeOK
  <2>2. MarkWorkerAborted(session[s], w) \in Session
    BY <2>1, SessionOps
  <2> QED BY <1>6, <2>2 DEF OperatorAborts, TypeOK
<1>7. ASSUME NEW w \in Workers, WakeReleased(w) PROVE TypeOK'
  <2>1. PICK s \in at[w] : Answer(w, session[s])
    BY <1>7 DEF WakeReleased
  <2>2. s \in Replicas
    BY <2>1 DEF TypeOK
  <2>3. session[s].target \in Instant
    BY <2>2 DEF TypeOK, Session
  <2>4. pc' \in [Workers -> PodPc] /\ at' \in [Workers -> SUBSET Replicas]
    BY <2>1, LeaveType, "answered" \in PodPc DEF Answer, PodPc
  <2> QED BY <1>7, <2>1, <2>3, <2>4 DEF WakeReleased, Answer, TypeOK
<1>8. ASSUME NEW w \in Workers, TimerFires(w) PROVE TypeOK'
  <2>1. PICK s \in at[w] : session' = [session EXCEPT ![s] = TimeoutSession(@)]
    BY <1>8 DEF TimerFires
  <2>2. s \in Replicas /\ session[s] \in Session
    BY <2>1 DEF TypeOK
  <2>3. TimeoutSession(session[s]) \in Session
    BY <2>2, SessionOps
  <2>4. pc' \in [Workers -> PodPc] /\ at' \in [Workers -> SUBSET Replicas]
    BY <1>8, LeaveType, "failed" \in PodPc DEF TimerFires, PodPc
  <2> QED BY <1>8, <2>1, <2>3, <2>4 DEF TimerFires, TypeOK
<1>9. ASSUME NEW w \in Workers,
             WakeAborted(w) \/ RequestEnds(w) \/ Begin(w) \/ AnswerLost(w)
             \/ PreflightFails(w) \/ AbortLost(w)
      PROVE TypeOK'
  BY <1>9 DEF WakeAborted, RequestEnds, Begin, AnswerLost, PreflightFails, AbortLost,
              Leave, TypeOK, PodPc
<1>10. ASSUME NEW s \in Replicas, ReplicaRestarts(s) PROVE TypeOK'
  BY <1>10, NoSessionType, BarrierAssumption DEF ReplicaRestarts, TypeOK, PodPc
<1>11. CASE UNCHANGED vars
  BY <1>11 DEF vars, TypeOK
<1> QED BY <1>1, <1>2, <1>3, <1>4, <1>5, <1>6, <1>7, <1>8, <1>9, <1>10, <1>11 DEF Next

\* Every reachable state of the barrier is well typed.
THEOREM BarrierTypeCorrect == Spec => []TypeOK
BY TypeInit, TypeNext, PTL DEF Spec

-----------------------------------------------------------------------------
(* The inductive invariant                                                 *)

LEMMA InductiveInit == Init => IndInv
<1> SUFFICES ASSUME Init PROVE IndInv
  OBVIOUS
<1>1. TypeOK
  BY TypeInit
<1>2. \A s \in Replicas : SessionOK(session[s])
  BY NoSessionOK DEF Init
<1>3. \A w \in Workers : PodOK(w)
  BY DEF Init, PodOK, NoInstant
<1> QED BY <1>1, <1>2, <1>3 DEF Init, IndInv, OneInstant, CountedOnce, NoSession

\* A step that touches neither a session nor an answer.
LEMMA PodStep ==
  ASSUME IndInv, TypeOK', session' = session, reply' = reply, Arrived \subseteq Arrived',
         \A w \in Workers :
           /\ at'[w] # {} => pc'[w] = "waiting"
           /\ pc'[w] \in {"answered", "started"} => pc[w] \in {"answered", "started"}
  PROVE  IndInv'
<1>1. OneInstant' /\ CountedOnce'
  BY DEF IndInv, OneInstant, CountedOnce
<1>2. ASSUME NEW s \in Replicas PROVE SessionOK(session[s])'
  <2>1. PICK se \in Session : se = session[s]
    BY DEF IndInv, TypeOK
  <2>2. SessionOK(se)'
    BY <2>1, SessionLater DEF IndInv
  <2> QED BY <2>1, <2>2
<1>3. \A w \in Workers : PodOK(w)'
  BY DEF IndInv, PodOK
<1> QED BY <1>1, <1>2, <1>3 DEF IndInv

\* A step of one session, sound before and after, that counts nobody new.
LEMMA SessionStep ==
  ASSUME IndInv, TypeOK', NEW s \in Replicas, NEW se \in Session,
         SessionOK(se), se.ready \subseteq session[s].ready,
         session' = [session EXCEPT ![s] = se],
         reply' = reply, Arrived \subseteq Arrived',
         \A w \in Workers :
           /\ at'[w] # {} => pc'[w] = "waiting"
           /\ pc'[w] \in {"answered", "started"} => pc[w] \in {"answered", "started"}
  PROVE  IndInv'
<1> USE DEF IndInv, TypeOK
<1>1. OneInstant' /\ CountedOnce'
  BY DEF OneInstant, CountedOnce
<1>2. ASSUME NEW q \in Replicas PROVE SessionOK(session[q])'
  <2>1. PICK sq \in Session : sq = session'[q]
    OBVIOUS
  <2>2. SessionOK(sq)
    BY <2>1
  <2>3. SessionOK(sq)'
    BY <2>2, SessionLater
  <2> QED BY <2>1, <2>3
<1>3. \A w \in Workers : PodOK(w)'
  BY DEF PodOK
<1> QED BY <1>1, <1>2, <1>3

\* A pod answered with the only instant there is, or with a new one.
LEMMA AnswerStep ==
  ASSUME IndInv, TypeOK', NEW w \in Workers, NEW t \in Instant, t # NoInstant,
         Cardinality(t) >= Total, t \subseteq Arrived',
         \A v \in Workers : reply[v] \in {NoInstant, t},
         reply' = [reply EXCEPT ![w] = t], Leave(w, "answered"),
         \A s \in Replicas : SessionOK(session[s])',
         CountedOnce'
  PROVE  IndInv'
<1> USE DEF IndInv, TypeOK
<1>1. \A v \in Workers : reply'[v] \in {NoInstant, t}
  OBVIOUS
<1>2. OneInstant'
  BY <1>1 DEF OneInstant
<1>3. ASSUME NEW v \in Workers PROVE PodOK(v)'
  <2>1. CASE v = w
    BY <2>1, <1>3 DEF PodOK, Leave
  <2>2. CASE v # w
    <3>1. pc'[v] = pc[v] /\ at'[v] = at[v] /\ reply'[v] = reply[v]
      BY <2>2 DEF Leave
    <3>2. Arrived \subseteq Arrived'
      BY DEF Arrived, Leave
    <3> QED BY <3>1, <3>2 DEF PodOK
  <2> QED BY <2>1, <2>2
<1> QED BY <1>2, <1>3

LEMMA AwaitLateStep ==
  ASSUME IndInv, TypeOK', NEW w \in Workers, NEW s \in Replicas, AwaitLate(w, s)
  PROVE  IndInv'
<1> USE DEF IndInv, TypeOK
<1>1. PICK t \in Instant : t = session[s].target
  BY DEF Session
<1>2. SessionOK(session[s]) /\ session[s].status = "RELEASED"
  BY DEF AwaitLate
<1>3. Cardinality(t) >= Total /\ t \subseteq Arrived
  BY <1>1, <1>2 DEF SessionOK
<1>4. t # NoInstant
  BY <1>3, QuorumIsNotEmpty DEF Instant, NoInstant
<1>5. PICK u \in Workers : reply[u] = t
  BY <1>1, <1>2, <1>4 DEF SessionOK
<1>6. \A v \in Workers : reply[v] \in {NoInstant, t}
  BY <1>4, <1>5 DEF OneInstant
<1>7. Leave(w, "answered") /\ reply' = [reply EXCEPT ![w] = t] /\ session' = session
  BY <1>1 DEF AwaitLate, Answer
<1>8. Arrived \subseteq Arrived'
  BY <1>7 DEF Arrived, Leave
<1>9. ASSUME NEW q \in Replicas PROVE SessionOK(session[q])'
  <2>1. PICK se \in Session : se = session[q]
    OBVIOUS
  <2>2. SessionOK(se)
    BY <2>1
  <2>3. "release" \notin se.closed => t \cap se.ready = {}
    BY <1>5, <2>2 DEF SessionOK
  <2>4. SessionOK(se)'
    BY <1>4, <1>6, <1>7, <1>8, <2>2, <2>3, SessionAnswer
  <2> QED BY <1>7, <2>1, <2>4
<1>10. CountedOnce'
  BY <1>7 DEF CountedOnce
<1>11. t \subseteq Arrived'
  BY <1>3, <1>8
<1> QED BY <1>3, <1>4, <1>6, <1>7, <1>9, <1>10, <1>11, AnswerStep

LEMMA WakeReleasedStep ==
  ASSUME IndInv, TypeOK', NEW w \in Workers, WakeReleased(w)
  PROVE  IndInv'
<1> USE DEF IndInv, TypeOK
<1>0. PICK s \in at[w] : "release" \in session[s].closed /\ Answer(w, session[s])
  BY DEF WakeReleased
<1>00. s \in Replicas
  BY <1>0
<1>1. PICK t \in Instant : t = session[s].target
  BY <1>00 DEF Session
<1>2. SessionOK(session[s])
  BY <1>00
<1>3. Cardinality(t) >= Total /\ t \subseteq Arrived
  BY <1>0, <1>1, <1>2 DEF SessionOK
<1>4. t # NoInstant
  BY <1>3, QuorumIsNotEmpty DEF Instant, NoInstant
<1>5. PICK u \in Workers : reply[u] = t
  BY <1>1, <1>2, <1>4 DEF SessionOK
<1>6. \A v \in Workers : reply[v] \in {NoInstant, t}
  BY <1>4, <1>5 DEF OneInstant
<1>7. Leave(w, "answered") /\ reply' = [reply EXCEPT ![w] = t] /\ session' = session
  BY <1>0, <1>1 DEF WakeReleased, Answer
<1>8. Arrived \subseteq Arrived'
  BY <1>7 DEF Arrived, Leave
<1>9. ASSUME NEW q \in Replicas PROVE SessionOK(session[q])'
  <2>1. PICK se \in Session : se = session[q]
    OBVIOUS
  <2>2. SessionOK(se)
    BY <2>1
  <2>3. "release" \notin se.closed => t \cap se.ready = {}
    BY <1>5, <2>2 DEF SessionOK
  <2>4. SessionOK(se)'
    BY <1>4, <1>6, <1>7, <1>8, <2>2, <2>3, SessionAnswer
  <2> QED BY <1>7, <2>1, <2>4
<1>10. CountedOnce'
  BY <1>7 DEF CountedOnce
<1>11. t \subseteq Arrived'
  BY <1>3, <1>8
<1> QED BY <1>3, <1>4, <1>6, <1>7, <1>9, <1>10, <1>11, AnswerStep

\* The pod that completes the count: its session has counted pods no release
\* has counted, so there has been no release.
LEMMA AwaitLastStep ==
  ASSUME IndInv, TypeOK', NEW w \in Workers, NEW s \in Replicas, AwaitLast(w, s)
  PROVE  IndInv'
<1> USE DEF IndInv, TypeOK
<1>1. PICK t \in Instant : t = session[s].ready \cup {w}
  BY DEF Session, Instant
<1>2. SessionOK(session[s]) /\ session[s] \in Session
  OBVIOUS
<1>3. session[s].closed = {} /\ session[s].status \in {"NONE", "PENDING"}
  BY <1>2 DEF AwaitLast, SessionOK, NoSession
<1>4. w \notin Arrived
  BY DEF AwaitLast, Arrived
<1>5. PICK new \in Session : new = Release(MarkWorkerReady(Opened(s), w))
  BY OpenedType, SessionOps
<1>6. new.status = "RELEASED" /\ new.target = t /\ new.ready = t /\ new.closed = {"release"}
  BY <1>1, <1>2, <1>3, <1>5 DEF Release, MarkWorkerReady, Opened, Session
<1>7. Cardinality(t) >= Total
  <2>1. MarkWorkerReady(Opened(s), w).ready = t
    BY <1>1, <1>2 DEF MarkWorkerReady, Opened, Session
  <2> QED BY <2>1 DEF AwaitLast, AllReady
<1>8. t # NoInstant
  BY <1>1 DEF NoInstant
<1>9. \A v \in Workers : reply[v] \cap t = {}
  <2>1. \A v \in Workers : reply[v] \cap session[s].ready = {}
    BY <1>2, <1>3 DEF SessionOK
  <2>2. \A v \in Workers : w \notin reply[v]
    BY <1>4 DEF PodOK
  <2> QED BY <1>1, <2>1, <2>2
<1>10. \A v \in Workers : reply[v] \in {NoInstant, t}
  <2> SUFFICES ASSUME NEW v \in Workers, reply[v] # NoInstant PROVE FALSE
    OBVIOUS
  <2>1. Cardinality(reply[v]) >= Total /\ reply[v] \in SUBSET Workers
    BY DEF PodOK, Instant
  <2> QED BY <1>7, <1>9, <2>1, QuorumsMeet DEF Instant
<1>11. Leave(w, "answered") /\ reply' = [reply EXCEPT ![w] = t]
       /\ session' = [session EXCEPT ![s] = new]
  BY <1>5, <1>6 DEF AwaitLast, Answer
<1>12. Arrived' = Arrived \cup {w}
  BY <1>4, <1>11 DEF Arrived, Leave
<1>13. t \subseteq Arrived'
  BY <1>1, <1>2, <1>12 DEF SessionOK
<1>14. ASSUME NEW q \in Replicas PROVE SessionOK(session[q])'
  <2>1. CASE q = s
    <3>1. reply'[w] = t /\ session'[q] = new
      BY <1>11, <2>1
    <3>2. SessionOK(new)'
      BY <1>6, <1>7, <1>13, <3>1 DEF SessionOK
    <3> QED BY <3>1, <3>2
  <2>2. CASE q # s
    <3>1. PICK se \in Session : se = session[q]
      OBVIOUS
    <3>2. SessionOK(se) /\ session'[q] = se
      BY <1>11, <2>2, <3>1
    <3>3. t \cap se.ready = {}
      <4>1. se.ready \cap session[s].ready = {}
        BY <2>2, <3>1 DEF CountedOnce
      <4>2. w \notin se.ready
        BY <1>4, <3>2 DEF SessionOK
      <4> QED BY <1>1, <4>1, <4>2
    <3>4. SessionOK(se)'
      BY <1>8, <1>10, <1>11, <1>12, <3>2, <3>3, SessionAnswer
    <3> QED BY <3>2, <3>4
  <2> QED BY <2>1, <2>2
<1>15. CountedOnce'
  <2>1. \A q \in Replicas : w \notin session[q].ready
    BY <1>4 DEF SessionOK
  <2>2. \A q \in Replicas : session'[q].ready = IF q = s THEN t ELSE session[q].ready
    BY <1>6, <1>11
  <2> QED BY <1>1, <2>1, <2>2 DEF CountedOnce
<1> QED BY <1>7, <1>8, <1>10, <1>11, <1>13, <1>14, <1>15, AnswerStep

LEMMA AwaitBlocksStep ==
  ASSUME IndInv, TypeOK', NEW w \in Workers, NEW s \in Replicas, AwaitBlocks(w, s)
  PROVE  IndInv'
<1> USE DEF IndInv, TypeOK
<1>1. SessionOK(session[s]) /\ session[s] \in Session
  OBVIOUS
<1>2. session[s].closed = {} /\ session[s].target = NoInstant
      /\ session[s].status \in {"NONE", "PENDING"}
  BY <1>1 DEF AwaitBlocks, SessionOK, NoSession
<1>3. w \notin Arrived
  BY DEF AwaitBlocks, Arrived
<1>4. PICK new \in Session : new = MarkWorkerReady(Opened(s), w)
  BY OpenedType, SessionOps
<1>5. new.status = "PENDING" /\ new.target = NoInstant /\ new.closed = {}
      /\ new.ready = session[s].ready \cup {w}
  BY <1>1, <1>2, <1>4 DEF MarkWorkerReady, Opened, Session
<1>6. session' = [session EXCEPT ![s] = new] /\ reply' = reply
  BY <1>4 DEF AwaitBlocks
<1>7. Arrived' = Arrived \cup {w}
  BY <1>3 DEF Arrived, AwaitBlocks
<1>8. \A v \in Workers : w \notin reply[v]
  BY <1>3 DEF PodOK
<1>9. ASSUME NEW q \in Replicas PROVE SessionOK(session[q])'
  <2>1. CASE q = s
    <3>1. session'[q] = new
      BY <1>6, <2>1
    <3>2. \A v \in Workers : reply'[v] \cap new.ready = {}
      BY <1>1, <1>2, <1>5, <1>6, <1>8 DEF SessionOK
    <3>3. new.ready \subseteq Arrived'
      BY <1>1, <1>5, <1>7 DEF SessionOK
    <3>4. SessionOK(new)'
      BY <1>5, <3>2, <3>3 DEF SessionOK, NoInstant
    <3> QED BY <3>1, <3>4
  <2>2. CASE q # s
    <3>1. PICK se \in Session : se = session[q]
      OBVIOUS
    <3>2. SessionOK(se) /\ session'[q] = se
      BY <1>6, <2>2, <3>1
    <3>3. SessionOK(se)'
      BY <1>6, <1>7, <3>2, SessionLater
    <3> QED BY <3>2, <3>3
  <2> QED BY <2>1, <2>2
<1>10. CountedOnce'
  <2>1. \A q \in Replicas : w \notin session[q].ready
    BY <1>3 DEF SessionOK
  <2>2. \A q \in Replicas : session'[q].ready = IF q = s THEN new.ready ELSE session[q].ready
    BY <1>6
  <2> QED BY <1>5, <2>1, <2>2 DEF CountedOnce
<1>11. OneInstant'
  BY <1>6 DEF OneInstant
<1>12. \A v \in Workers : PodOK(v)'
  BY <1>6, <1>7 DEF PodOK, AwaitBlocks
<1> QED BY <1>9, <1>10, <1>11, <1>12

LEMMA InductiveNext == IndInv /\ [Next]_vars => IndInv'
<1> SUFFICES ASSUME IndInv, [Next]_vars PROVE IndInv'
  OBVIOUS
<1>0. TypeOK'
  BY TypeNext DEF IndInv
<1> DEFINE PodsKept ==
      \A w \in Workers :
        /\ at'[w] # {} => pc'[w] = "waiting"
        /\ pc'[w] \in {"answered", "started"} => pc[w] \in {"answered", "started"}
<1>1. ASSUME NEW w \in Workers, NEW s \in Replicas,
             AwaitLate(w, s) \/ AwaitLast(w, s) \/ AwaitBlocks(w, s)
      PROVE  IndInv'
  BY <1>0, <1>1, AwaitLateStep, AwaitLastStep, AwaitBlocksStep
<1>2. ASSUME NEW w \in Workers, WakeReleased(w) PROVE IndInv'
  BY <1>0, <1>2, WakeReleasedStep
<1>3. ASSUME NEW w \in Workers, NEW s \in Replicas, AwaitRefused(w, s) PROVE IndInv'
  <2>1. session' = session /\ reply' = reply
    BY <1>3 DEF AwaitRefused
  <2>2. PodsKept /\ Arrived \subseteq Arrived'
    BY <1>3 DEF AwaitRefused, Leave, IndInv, TypeOK, PodOK, Arrived
  <2> QED BY <1>0, <2>1, <2>2, PodStep
<1>4. ASSUME NEW w \in Workers,
             WakeAborted(w) \/ RequestEnds(w) \/ Begin(w) \/ AnswerLost(w)
             \/ PreflightFails(w) \/ AbortLost(w)
      PROVE  IndInv'
  <2> USE DEF WakeAborted, RequestEnds, Begin, AnswerLost, PreflightFails, AbortLost
  <2>1. session' = session /\ reply' = reply
    BY <1>4
  <2>2. PICK p \in PodPc : /\ Leave(w, p)
                           /\ p = "started" => pc[w] = "answered"
                           /\ p # "answered"
                           /\ w \in Arrived => p \in {"started", "failed"}
    BY <1>4 DEF PodPc, Arrived
  <2>3. PodsKept /\ Arrived \subseteq Arrived'
    BY <2>2 DEF Leave, IndInv, TypeOK, PodOK, Arrived
  <2> QED BY <1>0, <2>1, <2>3, PodStep
<1>5. ASSUME NEW w \in Workers, TimerFires(w) PROVE IndInv'
  <2>1. PICK s \in at[w] : session' = [session EXCEPT ![s] = TimeoutSession(@)]
    BY <1>5 DEF TimerFires
  <2>2. s \in Replicas /\ session[s] \in Session /\ SessionOK(session[s])
    BY <2>1 DEF IndInv, TypeOK
  <2>3. PodsKept /\ Arrived \subseteq Arrived' /\ reply' = reply
    BY <1>5 DEF TimerFires, Leave, IndInv, TypeOK, PodOK, Arrived
  <2>4. PICK se \in Session : se = TimeoutSession(session[s])
    BY <2>2, SessionOps
  <2>5. session' = [session EXCEPT ![s] = se]
    BY <2>1, <2>4
  <2>6. se.ready \subseteq session[s].ready
    BY <2>2, <2>4 DEF TimeoutSession, Session
  <2>7. SessionOK(se)
    BY <2>2, <2>4, TimeoutKeepsOK
  <2> QED BY <1>0, <2>2, <2>3, <2>5, <2>6, <2>7, SessionStep
<1>6. ASSUME NEW w \in Workers, NEW s \in Replicas, SignalAbort(w, s) PROVE IndInv'
  <2>1. PodsKept /\ Arrived \subseteq Arrived' /\ reply' = reply
    BY <1>6 DEF SignalAbort, Leave, IndInv, TypeOK, PodOK, Arrived
  <2>2. CASE session' = session
    BY <1>0, <2>1, <2>2, PodStep
  <2>3. CASE session' = [session EXCEPT ![s] = MarkWorkerAborted(@, w)]
    <3>1. session[s] \in Session /\ SessionOK(session[s])
      BY DEF IndInv, TypeOK
    <3>2. PICK se \in Session : se = MarkWorkerAborted(session[s], w)
      BY <3>1, SessionOps
    <3>3. SessionOK(se) /\ session' = [session EXCEPT ![s] = se]
      BY <2>3, <3>1, <3>2, AbortKeepsOK
    <3>4. se.ready \subseteq session[s].ready
      BY <3>1, <3>2 DEF MarkWorkerAborted, Session
    <3> QED BY <1>0, <2>1, <3>3, <3>4, SessionStep
  <2> QED BY <1>6, <2>2, <2>3 DEF SignalAbort
<1>7. ASSUME NEW w \in Workers, NEW s \in Replicas, OperatorAborts(w, s) PROVE IndInv'
  <2>1. PodsKept /\ Arrived \subseteq Arrived' /\ reply' = reply
    BY <1>7 DEF OperatorAborts, IndInv, PodOK, Arrived
  <2>2. session[s] \in Session /\ SessionOK(session[s])
    BY DEF IndInv, TypeOK
  <2>3. PICK se \in Session : se = MarkWorkerAborted(session[s], w)
    BY <2>2, SessionOps
  <2>4. SessionOK(se) /\ session' = [session EXCEPT ![s] = se]
    BY <1>7, <2>2, <2>3, AbortKeepsOK DEF OperatorAborts
  <2>5. se.ready \subseteq session[s].ready
    BY <2>2, <2>3 DEF MarkWorkerAborted, Session
  <2> QED BY <1>0, <2>1, <2>4, <2>5, SessionStep
<1>8. ASSUME NEW s \in Replicas, ReplicaRestarts(s) PROVE IndInv'
  <2>1. PodsKept /\ Arrived \subseteq Arrived' /\ reply' = reply
    BY <1>8 DEF ReplicaRestarts, IndInv, TypeOK, PodOK, Arrived
  <2>2. session' = [session EXCEPT ![s] = NoSession] /\ NoSession.ready = {}
    BY <1>8 DEF ReplicaRestarts, NoSession
  <2> QED BY <1>0, <2>1, <2>2, NoSessionOK, NoSessionType, SessionStep
<1>9. CASE UNCHANGED vars
  BY <1>9, <1>0, PodStep DEF vars, IndInv, PodOK, Arrived
<1> QED BY <1>1, <1>2, <1>3, <1>4, <1>5, <1>6, <1>7, <1>8, <1>9 DEF Next

\* IndInv is invariant: every replica's session is sound, a pod is counted by
\* one session at most, and there is one release at most.
THEOREM BarrierInductive == Spec => []IndInv
<1>1. Init => IndInv
  BY InductiveInit
<1>2. IndInv /\ [Next]_vars => IndInv'
  BY InductiveNext
<1> QED BY <1>1, <1>2, PTL DEF Spec

-----------------------------------------------------------------------------
(* The safety properties                                                   *)

\* A pod is let go only on an instant that Total arrivals have fixed.
THEOREM AnswersCountArrivals == Spec => []AnswerCountsArrivals
<1>1. IndInv => AnswerCountsArrivals
  BY DEF IndInv, PodOK, AnswerCountsArrivals
<1> QED BY <1>1, BarrierInductive, PTL

\* All pods that are let go hold the same instant, across replicas and restarts.
THEOREM OneStartInstant == Spec => []OneInstant
<1>1. IndInv => OneInstant
  BY DEF IndInv
<1> QED BY <1>1, BarrierInductive, PTL

\* A pod that a timed-out session counted is in no release.
THEOREM TimeoutsReleaseNobody == Spec => []TimeoutReleasesNobody
<1>1. IndInv => TimeoutReleasesNobody
  BY DEF IndInv, SessionOK, TimeoutReleasesNobody
<1> QED BY <1>1, BarrierInductive, PTL

-----------------------------------------------------------------------------
(* StartBarrier implements Rendezvous                                      *)

LEMMA PromiseInit == Init => Promise!Init
BY DEF Init, Promise!Init, Arrived, Start

\* A pod that comes to a session that takes it arrives.
LEMMA ArriveStep ==
  ASSUME IndInv, NEW w \in Workers, NEW s \in Replicas,
         AwaitLate(w, s) \/ AwaitLast(w, s) \/ AwaitBlocks(w, s)
  PROVE  Promise!Next
<1>1. pc[w] = "booting" /\ \E p \in {"answered", "waiting"} : pc' = [pc EXCEPT ![w] = p]
  BY DEF AwaitLate, AwaitLast, AwaitBlocks, Answer, Leave
<1>2. w \notin Arrived /\ Arrived' = Arrived \cup {w}
  BY <1>1 DEF Arrived, IndInv, TypeOK
<1>3. \A v \in Workers : v # w => reply'[v] = reply[v] /\ pc'[v] = pc[v]
  BY <1>1 DEF AwaitLate, AwaitLast, AwaitBlocks, Answer, IndInv, TypeOK
<1>4. pc'[w] # "started" /\ pc[w] # "started"
  BY <1>1 DEF IndInv, TypeOK
<1>5. Start' = Start
  BY <1>3, <1>4 DEF Start
<1>6. Promise!Arrive(w)
  BY <1>2, <1>5 DEF Promise!Arrive
<1> QED BY <1>6 DEF Promise!Next

\* A pod that begins to generate traffic goes.
LEMMA GoStep ==
  ASSUME IndInv, NEW w \in Workers, Begin(w)
  PROVE  Promise!Next
<1> USE DEF IndInv, TypeOK
<1>1. PICK t \in Instant : t = reply[w]
  OBVIOUS
<1>2. pc[w] = "answered" /\ pc' = [pc EXCEPT ![w] = "started"] /\ reply' = reply
  BY DEF Begin, Leave
<1>3. t # NoInstant /\ Cardinality(t) >= Total /\ t \subseteq Arrived
  BY <1>1, <1>2 DEF PodOK
<1>4. Arrived \in SUBSET Workers /\ Arrived' = Arrived /\ w \in Arrived
  BY <1>2 DEF Arrived
<1>5. Cardinality(Arrived) >= Total
  <2>1. IsFiniteSet(Arrived) /\ Cardinality(Arrived) \in Nat
    BY <1>4, CardinalityOfPods
  <2>2. Cardinality(t) <= Cardinality(Arrived) /\ Cardinality(t) \in Nat
    BY <1>3, <2>1, FS_Subset, CardinalityOfPods DEF Instant
  <2> QED BY <1>3, <2>1, <2>2, BarrierAssumption
<1>6. Start[w] = NoInstant
  BY <1>2 DEF Start
<1>7. \A v \in Workers : Start[v] \in {NoInstant, t}
  BY <1>1, <1>3 DEF Start, OneInstant
<1>8. Start' = [Start EXCEPT ![w] = t]
  BY <1>1, <1>2 DEF Start
<1>9. Promise!Go(w, t)
  BY <1>4, <1>5, <1>6, <1>7, <1>8 DEF Promise!Go
<1> QED BY <1>1, <1>9 DEF Promise!Next

\* Every other step leaves alone who has come and who has started.
LEMMA StutterStep ==
  ASSUME IndInv, NEW W \in SUBSET Workers, NEW p \in PodPc \ {"started"},
         \A w \in W : /\ pc[w] # "started"
                      /\ w \in Arrived <=> p \in {"waiting", "answered", "failed"},
         pc' = [w \in Workers |-> IF w \in W THEN p ELSE pc[w]],
         \A w \in Workers \ W : reply'[w] = reply[w]
  PROVE  UNCHANGED <<Arrived, Start>>
<1>1. Arrived' = Arrived
  BY DEF Arrived, PodPc
<1>2. Start' = Start
  BY DEF Start, PodPc
<1> QED BY <1>1, <1>2

LEMMA PromiseNext == IndInv /\ [Next]_vars => [Promise!Next]_<<Arrived, Start>>
<1> SUFFICES ASSUME IndInv, [Next]_vars
             PROVE  Promise!Next \/ UNCHANGED <<Arrived, Start>>
  OBVIOUS
<1> USE DEF IndInv, TypeOK
<1>1. ASSUME NEW w \in Workers, NEW s \in Replicas,
             AwaitLate(w, s) \/ AwaitLast(w, s) \/ AwaitBlocks(w, s)
      PROVE  Promise!Next
  BY <1>1, ArriveStep
<1>2. ASSUME NEW w \in Workers, Begin(w) PROVE Promise!Next
  BY <1>2, GoStep
<1>3. ASSUME NEW w \in Workers,
             WakeReleased(w) \/ WakeAborted(w) \/ TimerFires(w) \/ RequestEnds(w)
             \/ AnswerLost(w) \/ PreflightFails(w) \/ AbortLost(w)
             \/ \E s \in Replicas : AwaitRefused(w, s) \/ SignalAbort(w, s)
      PROVE  UNCHANGED <<Arrived, Start>>
  <2> USE DEF WakeReleased, WakeAborted, TimerFires, RequestEnds, AnswerLost,
              PreflightFails, AbortLost, AwaitRefused, SignalAbort, Answer, Leave
  <2>1. pc[w] # "started"
    BY <1>3
  <2>2. PICK p \in PodPc \ {"started"} :
          /\ pc' = [pc EXCEPT ![w] = p]
          /\ w \in Arrived <=> p \in {"waiting", "answered", "failed"}
    BY <1>3 DEF PodPc, Arrived
  <2> DEFINE W == {w}
  <2>3. W \in SUBSET Workers /\ \A v \in W : v = w
    OBVIOUS
  <2>4. pc' = [v \in Workers |-> IF v \in W THEN p ELSE pc[v]]
    BY <2>2
  <2>5. \A v \in Workers \ W : reply'[v] = reply[v]
    BY <1>3
  <2>6. \A v \in W : /\ pc[v] # "started"
                     /\ v \in Arrived <=> p \in {"waiting", "answered", "failed"}
    BY <2>1, <2>2, <2>3
  <2> HIDE DEF W
  <2> QED BY <2>3, <2>4, <2>5, <2>6, StutterStep
<1>4. ASSUME NEW w \in Workers, NEW s \in Replicas, OperatorAborts(w, s)
      PROVE  UNCHANGED <<Arrived, Start>>
  BY <1>4 DEF OperatorAborts, Arrived, Start
<1>5. ASSUME NEW s \in Replicas, ReplicaRestarts(s)
      PROVE  UNCHANGED <<Arrived, Start>>
  <2> DEFINE W == {w \in Workers : s \in at[w]}
  <2>1. PICK V \in SUBSET Workers : V = W
    OBVIOUS
  <2>2. \A w \in V : pc[w] = "waiting" /\ w \in Arrived
    BY <2>1 DEF PodOK, Arrived
  <2>3. pc' = [w \in Workers |-> IF w \in V THEN "failed" ELSE pc[w]] /\ reply' = reply
    BY <1>5, <2>1 DEF ReplicaRestarts
  <2> QED BY <2>2, <2>3, StutterStep, "failed" \in PodPc \ {"started"} DEF PodPc
<1>6. CASE UNCHANGED vars
  BY <1>6 DEF vars, Arrived, Start
<1> QED BY <1>1, <1>2, <1>3, <1>4, <1>5, <1>6 DEF Next

\* The barrier keeps the promise of Rendezvous: no pod starts before Total pods
\* have come, and all that start hold the same instant.
THEOREM BarrierKeepsPromise == Spec => KeepsPromise
<1>1. Init => Promise!Init
  BY PromiseInit
<1>2. IndInv /\ [Next]_vars => [Promise!Next]_<<Arrived, Start>>
  BY PromiseNext
<1> QED BY <1>1, <1>2, BarrierInductive, PTL DEF Spec, KeepsPromise, Promise!Spec
===============================================================================
