--------------------------- MODULE Breaker_proofs ---------------------------
(***************************************************************************)
(* Proofs about Breaker, for any callers and thresholds: the counts of a   *)
(* generation add up at every step, whichever calls are under way when it  *)
(* changes. The invariant ties the answers a generation waits for to the   *)
(* calls that are sent: who asks again is not awaited already.             *)
(***************************************************************************)
EXTENDS MCBff, FiniteSetTheorems, TLAPS

States == {"closed", "open", "half-open"}
Generation == [state: States, expired: BOOLEAN, awaited: SUBSET Callers,
               requests: Nat, failures: Nat, successes: Nat]

\* What is counted of a generation, in one place.
AddsUp(b) ==
  /\ b \in Generation /\ IsFiniteSet(b.awaited)
  /\ b.failures + b.successes + Cardinality(b.awaited) = b.requests
  /\ b.state = "half-open" => b.requests <= MaxRequests
  /\ b.state = "open" => b.requests = 0

Calls == call \in [Callers -> [pc: {"idle", "ask", "sent"}, tries: Nat]]

BreakerInv ==
  /\ AddsUp(cb) /\ Calls
  /\ \A c \in cb.awaited : call[c].pc = "sent"

-----------------------------------------------------------------------------
LEMMA EnterAddsUp ==
  ASSUME NEW state \in States
  PROVE  AddsUp(Enter(state)) /\ Enter(state).awaited = {}
<1>1. Enter(state) \in Generation
  BY DEF Enter, Generation
<1>2. /\ Enter(state).awaited = {} /\ Enter(state).requests = 0
      /\ Enter(state).failures = 0 /\ Enter(state).successes = 0
  BY DEF Enter
<1>3. IsFiniteSet({}) /\ Cardinality({}) = 0
  BY FS_EmptySet
<1>4. QED
  BY <1>1, <1>2, <1>3, BreakerAssumption DEF AddsUp

LEMMA CurrentAddsUp ==
  ASSUME NEW b, AddsUp(b)
  PROVE  AddsUp(Current(b)) /\ Current(b).awaited \subseteq b.awaited
BY EnterAddsUp DEF Current, States

\* An open breaker awaits nobody.
LEMMA OpenAwaitsNobody ==
  ASSUME NEW b, AddsUp(b), b.state = "open" PROVE b.awaited = {}
<1>1. Cardinality(b.awaited) \in Nat
  BY FS_CardinalityType DEF AddsUp
<1>2. Cardinality(b.awaited) = 0
  BY <1>1 DEF AddsUp, Generation
<1>3. QED
  BY <1>2, FS_EmptySet DEF AddsUp

\* Allow: one that is not awaited yet is let in.
LEMMA LetInAddsUp ==
  ASSUME NEW b, AddsUp(b), Admits(b), NEW c \in Callers, c \notin b.awaited
  PROVE  AddsUp([b EXCEPT !.requests = @ + 1, !.awaited = @ \cup {c}])
<1> DEFINE n == [b EXCEPT !.requests = @ + 1, !.awaited = @ \cup {c}]
<1>1. /\ n \in Generation /\ n.state = b.state /\ n.failures = b.failures
      /\ n.successes = b.successes /\ n.requests = b.requests + 1
      /\ n.awaited = b.awaited \cup {c}
  <2>1. /\ b \in Generation /\ b.requests + 1 \in Nat
        /\ b.awaited \cup {c} \in SUBSET Callers
    BY DEF AddsUp, Generation
  <2>2. QED
    BY <2>1 DEF Generation
<1>2. /\ IsFiniteSet(b.awaited \cup {c})
      /\ Cardinality(b.awaited \cup {c}) = Cardinality(b.awaited) + 1
  BY FS_AddElement DEF AddsUp
<1>3. Cardinality(b.awaited) \in Nat
  BY FS_CardinalityType DEF AddsUp
<1>4. b.state # "open" /\ (b.state = "half-open" => b.requests < MaxRequests)
  BY DEF Admits
<1> HIDE DEF n
<1>5. AddsUp(n)
  BY <1>1, <1>2, <1>3, <1>4, BreakerAssumption DEF AddsUp, Generation
<1>6. QED
  BY <1>5 DEF n

\* done: an answer moves from the awaited to the counted, or was let in by an
\* earlier generation and is not counted.
LEMMA ReportedAddsUp ==
  ASSUME NEW b, AddsUp(b), NEW c \in Callers, NEW success \in BOOLEAN
  PROVE  /\ AddsUp(Reported(b, c, success))
         /\ Reported(b, c, success).awaited \subseteq b.awaited \ {c}
<1> DEFINE old == Current(b)
           now == [old EXCEPT !.awaited = @ \ {c}]
<1>1. AddsUp(old) /\ old.awaited \subseteq b.awaited
  BY CurrentAddsUp
<1>2. Reported(b, c, success) =
        IF c \notin old.awaited THEN now
        ELSE IF success THEN Succeeded(now) ELSE Failed(now)
  BY DEF Reported
<1> HIDE DEF old
<1>3. /\ now \in Generation /\ now.state = old.state
      /\ now.failures = old.failures /\ now.successes = old.successes
      /\ now.requests = old.requests /\ now.awaited = old.awaited \ {c}
  BY <1>1 DEF AddsUp, Generation
<1> HIDE DEF now
<1>4. CASE c \notin old.awaited
  <2>1. now.awaited = old.awaited
    BY <1>3, <1>4
  <2>2. AddsUp(now)
    BY <1>1, <1>3, <2>1 DEF AddsUp
  <2>3. QED
    BY <1>1, <1>2, <1>3, <1>4, <2>2
<1>5. CASE c \in old.awaited
  <2>1. /\ IsFiniteSet(now.awaited)
        /\ Cardinality(now.awaited) = Cardinality(old.awaited) - 1
        /\ Cardinality(old.awaited) \in Nat
    BY <1>1, <1>3, <1>5, FS_RemoveElement, FS_CardinalityType DEF AddsUp
  <2>2. old.state # "open"
    BY <1>1, <1>5, OpenAwaitsNobody
  <2>3. now.failures + now.successes + Cardinality(now.awaited) + 1 = now.requests
    BY <1>1, <1>3, <2>1 DEF AddsUp, Generation
  <2>4. Cardinality(now.awaited) \in Nat
    BY <2>1, FS_CardinalityType
  <2>5. CASE success
    <3> DEFINE n == [now EXCEPT !.successes = @ + 1]
    <3>1. /\ n \in Generation /\ n.state = now.state
          /\ n.failures = now.failures /\ n.successes = now.successes + 1
          /\ n.requests = now.requests /\ n.awaited = now.awaited
      BY <1>3 DEF Generation
    <3> HIDE DEF n
    <3>2. AddsUp(n)
      BY <1>1, <1>3, <2>1, <2>2, <2>3, <2>4, <3>1 DEF AddsUp, Generation
    <3>3. Succeeded(now) = n \/ Succeeded(now) = Enter("closed")
      BY DEF Succeeded, n
    <3>4. AddsUp(Succeeded(now)) /\ Succeeded(now).awaited \subseteq now.awaited
      BY <3>1, <3>2, <3>3, EnterAddsUp DEF States
    <3>5. QED
      BY <1>1, <1>2, <1>3, <1>5, <2>5, <3>4
  <2>6. CASE ~success
    <3> DEFINE n == [now EXCEPT !.failures = @ + 1]
    <3>1. /\ n \in Generation /\ n.state = now.state
          /\ n.failures = now.failures + 1 /\ n.successes = now.successes
          /\ n.requests = now.requests /\ n.awaited = now.awaited
      BY <1>3 DEF Generation
    <3> HIDE DEF n
    <3>2. AddsUp(n)
      BY <1>1, <1>3, <2>1, <2>2, <2>3, <2>4, <3>1 DEF AddsUp, Generation
    <3>3. Failed(now) = n \/ Failed(now) = Enter("open")
      BY DEF Failed, n
    <3>4. AddsUp(Failed(now)) /\ Failed(now).awaited \subseteq now.awaited
      BY <3>1, <3>2, <3>3, EnterAddsUp DEF States
    <3>5. QED
      BY <1>1, <1>2, <1>3, <1>5, <2>6, <3>4
  <2>7. QED
    BY <2>5, <2>6
<1>6. QED
  BY <1>4, <1>5

-----------------------------------------------------------------------------
LEMMA BreakerInvInit == BreakerInit => BreakerInv
BY EnterAddsUp DEF BreakerInit, BreakerInv, Calls, NotCalling, States

LEMMA AllowInv ==
  ASSUME BreakerInv, NEW c \in Callers, Allow(c) PROVE BreakerInv'
<1> DEFINE now == Current(cb)
<1>1. AddsUp(now) /\ now.awaited \subseteq cb.awaited
  BY CurrentAddsUp DEF BreakerInv
<1>2. call[c].pc # "sent" /\ c \notin now.awaited
  BY <1>1 DEF Allow, BreakerInv
<1>3. \/ /\ Admits(now)
         /\ cb' = [now EXCEPT !.requests = @ + 1, !.awaited = @ \cup {c}]
         /\ call' = [call EXCEPT ![c] = [pc |-> "sent", tries |-> 0]]
      \/ /\ cb' = now
         /\ call' = [call EXCEPT ![c] = NotCalling]
  BY DEF Allow
<1>4. Calls'
  BY <1>3 DEF BreakerInv, Calls, NotCalling
<1>5. AddsUp(cb') /\ cb'.awaited \subseteq now.awaited \cup {c}
  <2> HIDE DEF now
  <2>1. CASE cb' = now
    BY <1>1, <2>1
  <2>2. CASE /\ Admits(now)
             /\ cb' = [now EXCEPT !.requests = @ + 1, !.awaited = @ \cup {c}]
    <3>1. cb'.awaited = now.awaited \cup {c}
      BY <1>1, <2>2 DEF AddsUp, Generation
    <3>2. QED
      BY <1>1, <1>2, <2>2, <3>1, LetInAddsUp
  <2>3. QED
    BY <1>3, <2>1, <2>2
<1>6. ASSUME NEW d \in cb'.awaited PROVE call'[d].pc = "sent"
  <2>1. CASE d = c
    <3>1. cb' # now
      BY <1>2, <2>1, <1>6
    <3>2. call' = [call EXCEPT ![c] = [pc |-> "sent", tries |-> 0]]
      BY <1>3, <3>1
    <3>3. QED
      BY <2>1, <3>2 DEF BreakerInv, Calls
  <2>2. CASE d # c
    <3>1. d \in cb.awaited /\ d \in Callers
      BY <1>1, <1>5, <1>6, <2>2 DEF BreakerInv, AddsUp, Generation
    <3>2. call'[d] = call[d]
      BY <1>3, <2>2, <3>1 DEF BreakerInv, Calls
    <3>3. QED
      BY <3>1, <3>2 DEF BreakerInv
  <2>3. QED
    BY <2>1, <2>2
<1>7. QED
  BY <1>4, <1>5, <1>6 DEF BreakerInv, AddsUp

LEMMA ReturnsInv ==
  ASSUME BreakerInv, NEW c \in Callers, NEW success \in BOOLEAN,
         Returns(c, success)
  PROVE  BreakerInv'
<1>1. cb' = Reported(cb, c, success) /\ call' = [call EXCEPT ![c] = NotCalling]
  BY DEF Returns, Done
<1>2. AddsUp(cb') /\ cb'.awaited \subseteq cb.awaited \ {c}
  BY <1>1, ReportedAddsUp DEF BreakerInv
<1>3. Calls' /\ \A d \in cb'.awaited : call'[d].pc = "sent"
  BY <1>1, <1>2 DEF BreakerInv, Calls, NotCalling
<1>4. QED
  BY <1>2, <1>3 DEF BreakerInv, AddsUp

LEMMA BreakerNextInv == BreakerInv /\ [BreakerNext]_kvars => BreakerInv'
<1> SUFFICES ASSUME BreakerInv, [BreakerNext]_kvars PROVE BreakerInv'
  OBVIOUS
<1>1. CASE UNCHANGED <<cb, call>>
  BY <1>1 DEF BreakerInv, AddsUp, Calls
<1>2. CASE Timeout
  <2>1. /\ cb' \in Generation /\ cb'.state = cb.state /\ cb'.awaited = cb.awaited
        /\ cb'.requests = cb.requests /\ cb'.failures = cb.failures
        /\ cb'.successes = cb.successes /\ call' = call
    BY <1>2 DEF Timeout, BreakerInv, AddsUp, Generation
  <2>2. QED
    BY <2>1 DEF BreakerInv, AddsUp, Calls
<1>3. ASSUME NEW c \in Callers, LookFirst(c) PROVE BreakerInv'
  <2>1. AddsUp(cb') /\ cb'.awaited \subseteq cb.awaited
    BY <1>3, CurrentAddsUp DEF LookFirst, BreakerInv
  <2>2. Calls' /\ c \notin cb.awaited
    BY <1>3 DEF LookFirst, BreakerInv, Calls
  <2>3. \A d \in cb'.awaited : call'[d].pc = "sent"
    BY <1>3, <2>1, <2>2 DEF LookFirst, BreakerInv, Calls, AddsUp, Generation
  <2>4. QED
    BY <2>1, <2>2, <2>3 DEF BreakerInv, AddsUp
<1>4. ASSUME NEW c \in Callers, Retry(c) PROVE BreakerInv'
  <2>1. Calls' /\ cb' = cb /\ \A d \in Callers : call'[d].pc = call[d].pc
    BY <1>4 DEF Retry, BreakerInv, Calls
  <2>2. QED
    BY <2>1 DEF BreakerInv, AddsUp, Generation
<1>5. ASSUME NEW c \in Callers, Answered(c) \/ Fails(c) \/ HangsUp(c)
      PROVE  BreakerInv'
  BY <1>5, ReturnsInv DEF Answered, Fails, HangsUp
<1>6. CASE GoesDown \/ ComesUp \/ UNCHANGED kvars
  BY <1>1, <1>6 DEF GoesDown, ComesUp, kvars
<1>7. QED
  BY <1>2, <1>3, <1>4, <1>5, <1>6, AllowInv DEF BreakerNext, Progress

\* Every call that is let in is counted once (executeRequest and RoundTrip call
\* done on each of their ways out), so that no slot of a half-open breaker leaks.
THEOREM CallsAreCountedOnce == BreakerSpec => []AnswersCountOnce
<1>1. BreakerInv => AnswersCountOnce
  BY DEF BreakerInv, AddsUp, Generation, States, AnswersCountOnce
<1>2. QED
  BY <1>1, BreakerInvInit, BreakerNextInv, PTL DEF BreakerSpec

-----------------------------------------------------------------------------
(* The BFF as a whole                                                      *)

\* Beside each other the event stream and the sessions are what they are alone,
\* so that what is proved of either holds of the BFF.
THEOREM BffComposes == BffSpec => StreamSpec /\ SessionSpec
<1>1. BffInit => StreamInit /\ SessionInit
  BY DEF BffInit
<1>2. [BffNext]_bffVars => [StreamNext]_svars /\ [SessionNext]_bvars
  BY DEF BffNext, bffVars
<1> QED BY <1>1, <1>2, PTL DEF BffSpec, StreamSpec, SessionSpec

\* Each call the BFF lets through is counted once, also when its breaker starts in
\* the middle of a closed period, with answers counted already.
THEOREM BffCountsCallsOnce == BffSpec => []AnswersCountOnce
<1>1. BffInit => BreakerInv
  <2> SUFFICES ASSUME BffInit PROVE BreakerInv
    OBVIOUS
  <2>1. CASE focus = "breaker"
    BY <2>1, BreakerInvInit DEF BffInit
  <2>2. CASE focus # "breaker"
    <3>1. /\ cb = [Enter("closed") EXCEPT !.requests = MaxCounts,
                                          !.successes = MaxCounts]
          /\ call = [c \in Callers |-> NotCalling]
      BY <2>2 DEF BffInit
    <3>2. AddsUp(Enter("closed")) /\ Enter("closed").awaited = {}
      BY EnterAddsUp DEF States
    <3> DEFINE start == Enter("closed")
    <3>3. /\ start \in Generation /\ start.awaited = {} /\ start.failures = 0
          /\ start.state = "closed" /\ IsFiniteSet({}) /\ Cardinality({}) = 0
      BY <3>2, FS_EmptySet DEF Enter, AddsUp
    <3> HIDE DEF start
    <3>4. cb = [start EXCEPT !.requests = MaxCounts, !.successes = MaxCounts]
      BY <3>1 DEF start
    <3>5. /\ cb \in Generation /\ cb.awaited = {} /\ cb.failures = 0
          /\ cb.requests = MaxCounts /\ cb.successes = MaxCounts /\ cb.state = "closed"
      BY <3>3, <3>4, BreakerAssumption DEF Generation, BreakerAssumption
    <3>6. AddsUp(cb) /\ cb.awaited = {}
      BY <3>3, <3>5, BreakerAssumption DEF AddsUp, BreakerAssumption
    <3> QED BY <3>1, <3>6 DEF BreakerInv, Calls, NotCalling
  <2> QED BY <2>1, <2>2
<1>2. BreakerInv /\ [BffNext]_bffVars => BreakerInv'
  <2>1. [BffNext]_bffVars => [BreakerNext]_kvars
    BY DEF BffNext, bffVars
  <2> QED BY <2>1, BreakerNextInv
<1>3. BreakerInv => AnswersCountOnce
  BY DEF BreakerInv, AddsUp, Generation, States, AnswersCountOnce
<1> QED BY <1>1, <1>2, <1>3, PTL DEF BffSpec
=============================================================================
