------------------------------ MODULE Breaker -------------------------------
(***************************************************************************)
(* The circuit breaker between the BFF and the control plane: one breaker  *)
(* for the Client (the poller's lists, the dashboard) and for the reverse  *)
(* proxy's ResilientTransport. The state machine is gobreaker's, external  *)
(* and modelled from how the code configures it; what is ours is when it   *)
(* is asked (Allow), what is reported (done) and the retries in between.   *)
(*                                                                         *)
(* A caller is a goroutine that calls over and over. Interval is not set,  *)
(* so the counts of a closed breaker are only cleared by a state change.   *)
(***************************************************************************)
EXTENDS Naturals, FiniteSets

CONSTANTS
  Callers,       \* goroutines that call the control plane
  Poller,        \* the one that never stops calling
  Proxied,       \* those that go through the reverse proxy
  MaxRequests,   \* Config.MaxRequests: probes of a half-open breaker
  MinRequests,   \* Config.MinRequests: calls before it may trip
  MaxRetries,    \* Client.maxRetries, for GET and HEAD
  MaxCounts,     \* bound: calls counted by one closed breaker
  MaxOutages,    \* bound: times the control plane goes down
  MaxHangups     \* bound: calls whose caller gives up (context cancelled)

ASSUME BreakerAssumption ==
  /\ Poller \in Callers /\ Proxied \subseteq Callers /\ Poller \notin Proxied
  /\ MaxRequests \in Nat \ {0} /\ MinRequests \in Nat \ {0}
  /\ MaxRetries \in Nat /\ MaxCounts \in Nat
  /\ MaxOutages \in Nat /\ MaxHangups \in Nat

VARIABLES
  cb,        \* [state, expired, awaited, requests, failures, successes]
  call,      \* per caller: [pc, tries]
  plane,     \* the control plane: "up" or "down"
  outages,
  hangups

kvars == <<cb, call, plane, outages, hangups>>

\* A breaker that enters a state: a new generation, nothing counted. awaited:
\* the callers whose answer will count, those let in by this generation.
Enter(state) == [state |-> state, expired |-> FALSE, awaited |-> {},
                 requests |-> 0, failures |-> 0, successes |-> 0]

NotCalling == [pc |-> "idle", tries |-> 0]

BreakerInit ==
  /\ cb = Enter("closed")
  /\ call = [c \in Callers |-> NotCalling]
  /\ plane = "up" /\ outages = 0 /\ hangups = 0

-----------------------------------------------------------------------------
(* gobreaker.TwoStepCircuitBreaker                                         *)

\* An open breaker whose timeout is over is half-open for whoever looks.
Current(b) == IF b.state = "open" /\ b.expired THEN Enter("half-open") ELSE b

Admits(b) == CASE b.state = "closed"    -> TRUE
               [] b.state = "open"      -> FALSE
               [] b.state = "half-open" -> b.requests < MaxRequests

\* ReadyToTrip, with FailureRatio 1/2.
ReadyToTrip(b) == b.requests >= MinRequests /\ 2 * b.failures >= b.requests

\* One answer of this generation is counted, and may change the state.
Succeeded(b) ==
  LET n == [b EXCEPT !.successes = @ + 1]
  IN IF b.state = "half-open" /\ n.successes >= MaxRequests
     THEN Enter("closed") ELSE n
Failed(b) ==
  LET n == [b EXCEPT !.failures = @ + 1]
  IN IF b.state = "half-open" \/ ReadyToTrip(n) THEN Enter("open") ELSE n

Reported(b, c, success) ==
  LET now == [Current(b) EXCEPT !.awaited = @ \ {c}]
  IN IF c \notin Current(b).awaited THEN now
     ELSE IF success THEN Succeeded(now) ELSE Failed(now)

Timeout ==
  /\ cb.state = "open" /\ ~cb.expired
  /\ cb' = [cb EXCEPT !.expired = TRUE]
  /\ UNCHANGED <<call, plane, outages, hangups>>

-----------------------------------------------------------------------------
(* The control plane                                                       *)

GoesDown == /\ plane = "up" /\ outages < MaxOutages
            /\ plane' = "down" /\ outages' = outages + 1
            /\ UNCHANGED <<cb, call, hangups>>

ComesUp == /\ plane = "down" /\ plane' = "up"
           /\ UNCHANGED <<cb, call, outages, hangups>>

-----------------------------------------------------------------------------
(* executeRequest, RoundTrip and the proxy                                 *)

\* The proxy looks first (IsOpen), and answers 503 without asking to be let in;
\* the look alone may turn an open breaker half-open.
LookFirst(c) ==
  /\ c \in Proxied /\ call[c].pc = "idle"
  /\ cb' = Current(cb)
  /\ call' = [call EXCEPT ![c].pc = IF cb'.state = "open" THEN "idle" ELSE "ask"]
  /\ UNCHANGED <<plane, outages, hangups>>

\* Allow: refused with ErrCircuitOpen, or counted as a request and sent.
Allow(c) ==
  /\ call[c].pc = (IF c \in Proxied THEN "ask" ELSE "idle")
  /\ LET now == Current(cb) IN
     IF Admits(now)
     THEN /\ now.requests < MaxCounts
          /\ cb' = [now EXCEPT !.requests = @ + 1, !.awaited = @ \cup {c}]
          /\ call' = [call EXCEPT ![c] = [pc |-> "sent", tries |-> 0]]
     ELSE /\ cb' = now
          /\ call' = [call EXCEPT ![c] = NotCalling]
  /\ UNCHANGED <<plane, outages, hangups>>

\* doExecuteRequest: a GET of the client is tried again.
Retried(c) == c \notin Proxied /\ call[c].tries < MaxRetries

Retry(c) ==
  /\ call[c].pc = "sent" /\ plane = "down" /\ Retried(c)
  /\ call' = [call EXCEPT ![c].tries = @ + 1]
  /\ UNCHANGED <<cb, plane, outages, hangups>>

\* done(true) and done(false): the answer is reported once.
\* Mutant: the transport under the client was let in, and reports, as well.
DoneTwice(c, success) ==
  LET once == Reported(cb, c, success)
  IN IF success THEN [once EXCEPT !.successes = @ + 1] ELSE Failed(once)
Done(c, success) == Reported(cb, c, success)

Returns(c, success) ==
  /\ call[c].pc = "sent"
  /\ cb' = Done(c, success)
  /\ call' = [call EXCEPT ![c] = NotCalling]

\* An answer below 500; a 5xx, a refused connection or a timeout; a cancelled
\* context, which is reported as a failure of the control plane as well.
Answered(c) == /\ plane = "up" /\ Returns(c, TRUE)
               /\ UNCHANGED <<plane, outages, hangups>>
Fails(c)    == /\ plane = "down" /\ ~Retried(c) /\ Returns(c, FALSE)
               /\ UNCHANGED <<plane, outages, hangups>>
\* Mutant: a cancelled call returns without done.
HangsUpSilently(c) ==
  /\ c # Poller /\ hangups < MaxHangups /\ hangups' = hangups + 1
  /\ call[c].pc = "sent" /\ call' = [call EXCEPT ![c] = NotCalling]
  /\ UNCHANGED <<cb, plane, outages>>
HangsUp(c)  == /\ c # Poller /\ hangups < MaxHangups /\ hangups' = hangups + 1
               /\ Returns(c, FALSE)
               /\ UNCHANGED <<plane, outages>>

-----------------------------------------------------------------------------
Progress(c) == Retry(c) \/ Answered(c) \/ Fails(c)

BreakerNext ==
  \/ Timeout \/ GoesDown \/ ComesUp
  \/ \E c \in Callers : LookFirst(c) \/ Allow(c) \/ Progress(c) \/ HangsUp(c)

\* Timers fire, a call that was sent ends (it has a timeout), a proxied request
\* goes on, and the poller calls every few seconds. No one else has to call.
BreakerFairness ==
  /\ WF_kvars(Timeout) /\ WF_kvars(Allow(Poller))
  /\ \A c \in Callers : WF_kvars(Progress(c))
  /\ \A c \in Proxied : WF_kvars(Allow(c))

BreakerSpec == BreakerInit /\ [][BreakerNext]_kvars /\ BreakerFairness

-----------------------------------------------------------------------------
(* Properties                                                              *)

\* Every call that was let in is counted once, whether it was answered, failed
\* after its retries or was given up: the counts of a generation never exceed
\* its requests, nor those of a half-open breaker the probes it may send.
AnswersCountOnce ==
  /\ cb.state \in {"closed", "open", "half-open"}
  /\ cb.failures + cb.successes + Cardinality(cb.awaited) = cb.requests
  /\ cb.state = "half-open" => cb.requests <= MaxRequests
  /\ cb.state = "open" => cb.requests = 0

\* Once the control plane is up for good, the breaker closes for good: no
\* probe's slot leaks on an error path, so half-open does not last.
BreakerClosesAgain == <>[](plane = "up") => <>[](cb.state = "closed")
=============================================================================
