------------------------------- MODULE MCBff --------------------------------
(***************************************************************************)
(* The BFF on a small instance: its event stream, its sessions and its     *)
(* circuit breaker. The three share no state and no call of one waits for  *)
(* another, so that a behaviour interleaves them freely and a property of  *)
(* one says the same whatever the others do: each is explored by itself,   *)
(* "focus" telling which.                                                  *)
(***************************************************************************)
EXTENDS EventStream, Sessions, Breaker

VARIABLE focus

Parts == {"stream", "sessions", "breaker"}

\* A part that is not looked at starts where nothing it owes is enabled, so
\* that its fairness asks nothing of the part that is. (Bound: the BFF has fetched
\* Keycloak's first key; a cache with no key at all is fetched as one that lacks
\* the key.)
BffInit ==
  /\ focus \in Parts
  /\ StreamInit /\ SessionInit
  /\ jwks = 1
  /\ IF focus = "breaker" THEN BreakerInit
     ELSE /\ cb = [Enter("closed") EXCEPT !.requests = MaxCounts,
                                         !.successes = MaxCounts]
          /\ call = [c \in Callers |-> NotCalling]
          /\ plane = "up" /\ outages = 0 /\ hangups = 0

BffNext ==
  /\ UNCHANGED focus
  /\ \/ focus = "stream" /\ StreamNext /\ UNCHANGED <<bvars, kvars>>
     \/ focus = "sessions" /\ SessionNext /\ UNCHANGED <<svars, kvars>>
     \/ focus = "breaker" /\ BreakerNext /\ UNCHANGED <<svars, bvars>>

bffVars == <<svars, bvars, kvars, focus>>

BffSpec == /\ BffInit /\ [][BffNext]_bffVars
           /\ StreamFairness /\ SessionFairness /\ BreakerFairness
=============================================================================
