----------------------------- MODULE StartBarrier -----------------------------
(***************************************************************************)
(* The start barrier of a multi-pod run.                                   *)
(*                                                                         *)
(* Each worker pod calls POST /runs/:id/barrier/await once and blocks in   *)
(* MemoryBarrierCoordinator.Await until the pods counted are there, or     *)
(* until an abort, its own timer or the end of its request.  The session   *)
(* of the run lives in the memory of one control-plane replica, is never   *)
(* removed and is never shared: a request that the Service routes to       *)
(* another replica, or that comes after a restart, meets another session.  *)
(*                                                                         *)
(* A critical section of the session's mutex is one action. Between two of *)
(* them a waiter sits in a select, and Go takes ANY ready case of it, so   *)
(* the waking actions below are alternatives and not priorities.           *)
(***************************************************************************)
EXTENDS Naturals, FiniteSets

CONSTANTS
  Workers,     \* worker pods of the run, replacements included
  Total,       \* VUHIVE_WORKER_COUNT, the same in every pod
  Replicas,    \* control-plane processes behind the Service
  MaxRestarts  \* bound: restarts of a replica

\* A Job has one pod per index, and RunnerBackoffLimit is 0: spare pods are
\* fewer than the pods counted.
ASSUME BarrierAssumption ==
  /\ IsFiniteSet(Workers)
  /\ Total \in Nat \ {0}
  /\ Cardinality(Workers) < 2 * Total
  /\ MaxRestarts \in Nat

VARIABLES
  session,   \* [Replicas -> Session]: the sessions map, for this run
  pc,        \* [Workers -> PodPc]: where a pod's wrapper is
  at,        \* [Workers -> SUBSET Replicas]: the replica that holds its request
  reply,     \* [Workers -> Instant]: target_start_time of its 200 answer
  restarts   \* restarts so far

vars == <<session, pc, at, reply, restarts>>

-----------------------------------------------------------------------------
(* The session: domain/model/barrier.go *)

\* targetStartTime. An instant is named by the pods whose arrival fixed it.
Instant   == SUBSET Workers
NoInstant == {}

\* READY is left within the critical section that enters it.
BarrierStatus == {"NONE", "PENDING", "RELEASED", "ABORTED", "TIMED_OUT"}
Session == [status: BarrierStatus,
            ready:  SUBSET Workers,               \* participants that are READY
            target: Instant,
            closed: SUBSET {"release", "abort"}]  \* channels that are closed

NoSession == [status |-> "NONE", ready |-> {}, target |-> NoInstant, closed |-> {}]

\* getOrCreate under the coordinator's own mutex.
Opened(s) == IF session[s].status = "NONE"
             THEN [session[s] EXCEPT !.status = "PENDING"]
             ELSE session[s]

\* RegisterWorker and MarkWorkerReady.
MarkWorkerReady(se, w) == [se EXCEPT !.ready = @ \cup {w}]

\* Mutant: the count taken before the worker is marked.
AllReadyEarly(se) == Cardinality(se.ready) + 1 >= Total
AllReady(se)      == Cardinality(se.ready) >= Total

\* Release, and the broadcast on releaseCh.
\* Mutant: the session is left READY.
ReleaseStaysReady(se) == [se EXCEPT !.status = "READY", !.target = se.ready,
                                    !.closed = @ \cup {"release"}]
Release(se) == [se EXCEPT !.status = "RELEASED", !.target = se.ready,
                          !.closed = @ \cup {"release"}]

\* Mutant: RELEASED forgotten in IsTerminal.
IsOver(se)     == se.status \in {"ABORTED", "TIMED_OUT"}
IsTerminal(se) == se.status \in {"RELEASED", "ABORTED", "TIMED_OUT"}

TimeoutSession(se) == IF IsTerminal(se) THEN se ELSE [se EXCEPT !.status = "TIMED_OUT"]

\* MarkWorkerAborted overrides any status, RELEASED included.
\* Mutant: a waiter that is told of the abort through the release channel.
AbortByRelease(se, w) == [se EXCEPT !.status = "ABORTED", !.ready = @ \ {w},
                                    !.closed = @ \cup {"release"}]
MarkWorkerAborted(se, w) == [se EXCEPT !.status = "ABORTED", !.ready = @ \ {w},
                                       !.closed = @ \cup {"abort"}]

-----------------------------------------------------------------------------
PodPc == {"booting",    \* the wrapper has not called the barrier yet
          "aborting",   \* its preflight check failed: it calls SignalAbort
          "unfit",      \* it exited after that
          "waiting",    \* blocked in Await
          "answered",   \* 200: it sleeps until the target instant
          "started",    \* it generates traffic
          "refused",    \* the session was over when it came
          "failed"}     \* Rendezvous returned an error: the wrapper exits 1

TypeOK ==
  /\ session \in [Replicas -> Session]
  /\ pc \in [Workers -> PodPc]
  /\ at \in [Workers -> SUBSET Replicas]
  /\ reply \in [Workers -> Instant]
  /\ restarts \in 0..MaxRestarts

Init ==
  /\ session = [s \in Replicas |-> NoSession]
  /\ pc = [w \in Workers |-> "booting"]
  /\ at = [w \in Workers |-> {}]
  /\ reply = [w \in Workers |-> NoInstant]
  /\ restarts = 0

\* Pod w goes on to p, its request over.
Leave(w, p) ==
  /\ pc' = [pc EXCEPT ![w] = p]
  /\ at' = [at EXCEPT ![w] = {}]

\* Await returns the session: the handler answers 200 with its target.
Answer(w, se) ==
  /\ Leave(w, "answered")
  /\ reply' = [reply EXCEPT ![w] = se.target]

-----------------------------------------------------------------------------
(* Await up to the end of its first critical section *)

AwaitRefused(w, s) ==
  /\ pc[w] = "booting"
  /\ session[s].status \in {"ABORTED", "TIMED_OUT"}
  /\ Leave(w, "refused")
  /\ UNCHANGED <<session, reply, restarts>>

\* A pod that comes after the release is not held back.
\* Mutant: it is counted and the target moved.
AwaitLateMoves(w, s) ==
  LET se == MarkWorkerReady(session[s], w) IN
  /\ pc[w] = "booting"
  /\ session[s].status = "RELEASED"
  /\ session' = [session EXCEPT ![s] = Release(se)]
  /\ Answer(w, Release(se))
  /\ UNCHANGED restarts
AwaitLate(w, s) ==
  /\ pc[w] = "booting"
  /\ session[s].status = "RELEASED"
  /\ Answer(w, session[s])
  /\ UNCHANGED <<session, restarts>>

AwaitLast(w, s) ==
  LET se == MarkWorkerReady(Opened(s), w) IN
  /\ pc[w] = "booting"
  /\ session[s].status \in {"NONE", "PENDING"}
  /\ AllReady(se)
  /\ session' = [session EXCEPT ![s] = Release(se)]
  /\ Answer(w, Release(se))
  /\ UNCHANGED restarts

AwaitBlocks(w, s) ==
  LET se == MarkWorkerReady(Opened(s), w) IN
  /\ pc[w] = "booting"
  /\ session[s].status \in {"NONE", "PENDING"}
  /\ ~ AllReady(se)
  /\ session' = [session EXCEPT ![s] = se]
  /\ pc' = [pc EXCEPT ![w] = "waiting"]
  /\ at' = [at EXCEPT ![w] = {s}]
  /\ UNCHANGED <<reply, restarts>>

-----------------------------------------------------------------------------
(* The cases of the select *)

\* The session may be ABORTED by now; the answer is 200 all the same, and
\* the pod's client does not read the status.
WakeReleased(w) ==
  /\ pc[w] = "waiting"
  /\ \E s \in at[w] : "release" \in session[s].closed /\ Answer(w, session[s])
  /\ UNCHANGED <<session, restarts>>

WakeAborted(w) ==
  /\ pc[w] = "waiting"
  /\ \E s \in at[w] : "abort" \in session[s].closed
  /\ Leave(w, "failed")
  /\ UNCHANGED <<session, reply, restarts>>

\* The pod's own timer. TIMED_OUT is not broadcast: the others go on waiting.
\* Mutant: a timer that only fires for the session's first timeout.
TimerFiresOnce(w) ==
  /\ pc[w] = "waiting"
  /\ \E s \in at[w] : /\ ~ IsTerminal(session[s])
                      /\ session' = [session EXCEPT ![s] = TimeoutSession(@)]
  /\ Leave(w, "failed")
  /\ UNCHANGED <<reply, restarts>>
TimerFires(w) ==
  /\ pc[w] = "waiting"
  /\ \E s \in at[w] : session' = [session EXCEPT ![s] = TimeoutSession(@)]
  /\ Leave(w, "failed")
  /\ UNCHANGED <<reply, restarts>>

\* ctx.Done: the pod is gone, or the server's 30 s read deadline has passed
\* before the barrier's 60 s. The worker stays READY in the session.
RequestEnds(w) ==
  /\ pc[w] = "waiting"
  /\ Leave(w, "failed")
  /\ UNCHANGED <<session, reply, restarts>>

-----------------------------------------------------------------------------
(* The pod: runner/barrier_client.go and wrapper.go *)

\* The wait until target_start_time is over.
Begin(w) ==
  /\ pc[w] = "answered"
  /\ Leave(w, "started")
  /\ UNCHANGED <<session, reply, restarts>>

\* The 200 answer does not reach the pod, or the pod dies asleep.
AnswerLost(w) ==
  /\ pc[w] = "answered"
  /\ Leave(w, "failed")
  /\ UNCHANGED <<session, reply, restarts>>

PreflightFails(w) ==
  /\ pc[w] = "booting"
  /\ Leave(w, "aborting")
  /\ UNCHANGED <<session, reply, restarts>>

\* SignalAbort reaches replica s: 404 and no effect when s has no session.
SignalAbort(w, s) ==
  /\ pc[w] = "aborting"
  /\ session' = IF session[s].status = "NONE" THEN session
                ELSE [session EXCEPT ![s] = MarkWorkerAborted(@, w)]
  /\ Leave(w, "unfit")
  /\ UNCHANGED <<reply, restarts>>

\* SignalAbort's error is dropped by Rendezvous, which does not try again.
AbortLost(w) ==
  /\ pc[w] = "aborting"
  /\ Leave(w, "unfit")
  /\ UNCHANGED <<session, reply, restarts>>

\* POST /barrier/abort by an operator, naming pod w, at any time.
OperatorAborts(w, s) ==
  /\ session[s].status # "NONE"
  /\ session' = [session EXCEPT ![s] = MarkWorkerAborted(@, w)]
  /\ UNCHANGED <<pc, at, reply, restarts>>

\* The sessions map is lost with the process, and so are its requests.
ReplicaRestarts(s) ==
  /\ restarts < MaxRestarts
  /\ restarts' = restarts + 1
  /\ session' = [session EXCEPT ![s] = NoSession]
  /\ pc' = [w \in Workers |-> IF s \in at[w] THEN "failed" ELSE pc[w]]
  /\ at' = [w \in Workers |-> IF s \in at[w] THEN {} ELSE at[w]]
  /\ UNCHANGED reply

Wakes(w)    == WakeReleased(w) \/ WakeAborted(w) \/ TimerFires(w)

Next ==
  \/ \E w \in Workers, s \in Replicas :
       \/ AwaitRefused(w, s) \/ AwaitLate(w, s)
       \/ AwaitLast(w, s) \/ AwaitBlocks(w, s)
       \/ SignalAbort(w, s) \/ OperatorAborts(w, s)
  \/ \E w \in Workers :
       \/ WakeReleased(w) \/ WakeAborted(w) \/ TimerFires(w) \/ RequestEnds(w)
       \/ Begin(w) \/ AnswerLost(w)
       \/ PreflightFails(w) \/ AbortLost(w)
  \/ \E s \in Replicas : ReplicaRestarts(s)

Spec == Init /\ [][Next]_vars

\* A ready case of a select is taken, and a sleeping pod wakes up.
Fairness == \A w \in Workers : WF_vars(Wakes(w)) /\ WF_vars(Begin(w))

FairSpec == Spec /\ Fairness

-----------------------------------------------------------------------------
(* Properties *)

\* The pods whose Await some session has accepted.
Arrived == {w \in Workers : pc[w] \in {"waiting", "answered", "started", "failed"}}

\* A pod is let go only on an instant that as many arrivals as the run counts
\* have fixed. An abort, a timeout or a restart must not wake a waiter into a
\* 200 without a target: the client would start at once (barrier_service.go:63).
AnswerCountsArrivals ==
  \A w \in Workers : pc[w] \in {"answered", "started"} =>
    reply[w] \subseteq Arrived /\ Cardinality(reply[w]) >= Total

\* All pods of the run that are let go are given the same instant, whichever
\* replica answered them and whatever was restarted in between.
OneInstant ==
  \A v, w \in Workers :
    reply[v] = NoInstant \/ reply[w] = NoInstant \/ reply[v] = reply[w]

\* No pod that a timed-out session counted is part of a release: a late timer
\* of one waiter must not turn a released session over (memory_coordinator.go:101).
TimeoutReleasesNobody ==
  \A s \in Replicas, w \in Workers :
    session[s].status = "TIMED_OUT" => session[s].ready \cap reply[w] = {}

\* Every blocked request ends, although TIMED_OUT is never broadcast, and every
\* pod that was answered starts unless it is lost.
EveryPodSettles ==
  \A w \in Workers :
    pc[w] \in {"waiting", "answered"} ~> pc[w] \in {"started", "failed"}

\* The instant at which each pod began to generate traffic.
Start == [w \in Workers |-> IF pc[w] = "started" THEN reply[w] ELSE NoInstant]

Promise == INSTANCE Rendezvous WITH
  arrived <- Arrived, start <- Start, Instants <- Instant, NoInstant <- NoInstant,
  Enough  <- {A \in SUBSET Workers : Cardinality(A) >= Total}

\* The barrier keeps the promise of Rendezvous.
KeepsPromise == Promise!Spec

\* "All workers must begin generating traffic at the exact same instant"
\* (docs/cookbook.md:898): a pod starts only if every pod the release counted
\* is given the instant too. Refuted: a counted pod may have left its request,
\* before the release or after it, by its own timer or its request's end.
NoPodLeftBehind ==
  \A w \in Workers : pc[w] = "started" =>
    \A v \in reply[w] : pc[v] = "failed" => reply[v] = reply[w]

-----------------------------------------------------------------------------
(* The inductive invariant behind the safety properties *)

\* A pod comes to the barrier once, and one session at most counts it.
SessionOK(se) ==
  /\ se.status = "NONE" => se = NoSession
  /\ se.status = "PENDING" => se.closed = {} /\ se.target = NoInstant
  /\ se.status = "RELEASED" => se.closed = {"release"}
  /\ se.status = "TIMED_OUT" => se.closed = {} /\ se.target = NoInstant
  /\ "release" \in se.closed => Cardinality(se.target) >= Total
  /\ "release" \notin se.closed => se.target = NoInstant
  /\ se.ready \subseteq Arrived /\ se.target \subseteq Arrived
  \* what a session has counted without releasing it, no release has counted
  /\ "release" \notin se.closed =>
       \A w \in Workers : reply[w] \cap se.ready = {}
  \* there is one release
  /\ se.target # NoInstant => \E w \in Workers : reply[w] = se.target

PodOK(w) ==
  /\ at[w] # {} => pc[w] = "waiting"
  /\ pc[w] \in {"answered", "started"} => reply[w] # NoInstant
  /\ reply[w] # NoInstant => Cardinality(reply[w]) >= Total
  /\ reply[w] \subseteq Arrived

CountedOnce ==
  \A s, q \in Replicas : s # q => session[s].ready \cap session[q].ready = {}

IndInv ==
  /\ TypeOK
  /\ OneInstant
  /\ \A s \in Replicas : SessionOK(session[s])
  /\ \A w \in Workers : PodOK(w)
  /\ CountedOnce
===============================================================================
