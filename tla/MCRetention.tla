---------------------------- MODULE MCRetention ----------------------------
(* The instance of Retention for TLC. *)
EXTENDS Retention, TLC

OneTarget == <<"linux/amd64">>
OneArchive ==
  {[format |-> "tar.gz", gomod |-> "direct", version |-> "supported",
    files |-> {[dir |-> "", base |-> "load.go", package |-> "scenario",
                main |-> FALSE, imports |-> {}, contract |-> "function"]}]}

\* The global policy with one TTL for all, which any age exceeds, and a suite's that
\* keeps its rows.
Default == [logs |-> 0, reports |-> 0, runs |-> 0, binaries |-> 0,
            archiveOnly |-> FALSE]
Archiving == [Default EXCEPT !.archiveOnly = TRUE]
TwoPolicies == {Default, Archiving}

\* Sweeps have no name of their own.
SweepersAlike == Permutations(Sweepers)

\* Bound: two sweeps at a time or a fault, not both in one behaviour.
FaultsMeetOneSweep ==
  \/ faults = 0
  \/ \A s, t \in Sweepers :
       sweep[s].phase # "none" /\ sweep[t].phase # "none" => s = t
=============================================================================
