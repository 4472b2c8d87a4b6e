------------------------------ MODULE Rendezvous ------------------------------
(***************************************************************************)
(* What the start barrier of a distributed run promises its worker pods:   *)
(* no pod generates traffic before as many pods as the run counts have     *)
(* arrived, and all that do so were given the same start instant.          *)
(* It says nothing of how pods wait, how a wait ends, or which process     *)
(* keeps the count; StartBarrier implements it.                            *)
(***************************************************************************)
CONSTANTS
  Workers,    \* the worker pods
  Enough,     \* the sets of pods that are as many as the run counts
  Instants,   \* start instants
  NoInstant   \* not started

VARIABLES
  arrived,    \* pods that have come to the barrier
  start       \* [Workers -> Instants]: when a pod began to generate traffic

Init == arrived = {} /\ start = [w \in Workers |-> NoInstant]

Arrive(w) ==
  /\ w \notin arrived
  /\ arrived' = arrived \cup {w}
  /\ UNCHANGED start

Go(w, t) ==
  /\ w \in arrived
  /\ start[w] = NoInstant
  /\ arrived \in Enough
  /\ \A v \in Workers : start[v] \in {NoInstant, t}
  /\ start' = [start EXCEPT ![w] = t]
  /\ UNCHANGED arrived

Next == \E w \in Workers : Arrive(w) \/ \E t \in Instants : Go(w, t)

Spec == Init /\ [][Next]_<<arrived, start>>
===============================================================================
