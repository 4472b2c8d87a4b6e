----------------------------- MODULE Partition -----------------------------
(***************************************************************************)
(* The split of a configuration over the workers of a distributed run:     *)
(* WorkloadPartitioner.  Each worker computes its own part, alone, from    *)
(* the whole configuration, its index and the number of workers; nobody    *)
(* compares the parts.  An absent field of a scenario is Absent.           *)
(***************************************************************************)
EXTENDS Integers, Sequences

CONSTANT Absent     \* the value of a field that the YAML does not have

\* Mutant: the worker whose index equals the remainder takes one more.
partitionValueOffByOne(total, workerIndex, workerCount) ==
  IF total <= 0 \/ workerCount <= 0 THEN 0
  ELSE total \div workerCount +
       (IF workerIndex <= total % workerCount THEN 1 ELSE 0)

partitionValue(total, workerIndex, workerCount) ==
  IF total <= 0 \/ workerCount <= 0 THEN 0
  ELSE total \div workerCount +
       (IF workerIndex < total % workerCount THEN 1 ELSE 0)

Share(field, i, n) == IF field = Absent THEN Absent ELSE partitionValue(field, i, n)

\* The fields a scenario's type makes the partitioner divide; a burst_buffer
\* that is not positive, and every field of another type, is left alone.
PartitionScenario(sc, i, n) ==
  CASE sc.type = "constant_vus" -> [sc EXCEPT !.vus = Share(@, i, n)]
    [] sc.type = "arrival_rate" ->
         [sc EXCEPT !.target_tps = Share(@, i, n), !.max_vus = Share(@, i, n),
                    !.burst_buffer = IF @ # Absent /\ @ > 0 THEN Share(@, i, n) ELSE @]
    [] sc.type = "ramping_vus" ->
         [sc EXCEPT !.stages = [k \in DOMAIN @ |-> Share(@[k], i, n)]]
    [] OTHER -> sc

\* PartitionForWorker over the scenarios and the concurrency of the settings;
\* an index outside the run, or no scenario, is refused.
CanPartition(config, i, n) ==
  n >= 1 /\ i \in 0 .. n - 1 /\ config.scenarios # <<>>

PartitionForWorker(config, i, n) ==
  [scenarios   |-> [k \in DOMAIN config.scenarios |->
                      PartitionScenario(config.scenarios[k], i, n)],
   concurrency |-> Share(config.concurrency, i, n)]

PartitionWorkload(config, n) ==
  [i \in 0 .. n - 1 |-> PartitionForWorker(config, i, n)]

-----------------------------------------------------------------------------
(* What the parts are for                                                  *)

\* The loads of a scenario that are divided, in a fixed order.
Loads(sc) ==
  CASE sc.type = "constant_vus" -> <<sc.vus>>
    [] sc.type = "arrival_rate" -> <<sc.target_tps, sc.max_vus, sc.burst_buffer>>
    [] sc.type = "ramping_vus"  -> sc.stages
    [] OTHER -> <<>>

\* What the workers 0 .. n - 1 have together.
Together(part, n) ==
  LET upTo[i \in 0 .. n] == IF i = 0 THEN 0 ELSE upTo[i - 1] + part[i - 1]
  IN  upTo[n]

\* part: what each worker computes for itself. The parts make the load up again
\* and differ by one unit at most.
AddUp(total, part, n) ==
  total # Absent /\ total > 0 =>
    /\ Together(part, n) = total
    /\ \A i, j \in 0 .. n - 1 : part[i] - part[j] \in -1 .. 1

SharesOf(config, n) ==
  LET whole == config.scenarios
      part  == PartitionWorkload(config, n)
  IN /\ AddUp(config.concurrency, [i \in 0 .. n - 1 |-> part[i].concurrency], n)
     /\ \A k \in DOMAIN whole : \A j \in DOMAIN Loads(whole[k]) :
          AddUp(Loads(whole[k])[j],
                [i \in 0 .. n - 1 |-> Loads(part[i].scenarios[k])[j]], n)
=============================================================================
