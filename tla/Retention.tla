----------------------------- MODULE Retention -----------------------------
(***************************************************************************)
(* Housekeeping beside builds and runs: HousekeepingService.               *)
(*                                                                         *)
(* A sweep goes through five phases; each lists rows with one query and    *)
(* then acts on what it listed, object first and row second, while builds, *)
(* retries, deletions and other sweeps go on: nothing keeps the first one, *)
(* the ticker's and those an administrator asks for apart. Errors are      *)
(* collected and the next sweep lists again. Ages are counted in abstract  *)
(* units and grow on their own.                                            *)
(***************************************************************************)
EXTENDS ArtifactBuild

CONSTANTS
  NRuns,      \* bound: test runs that use the artifacts
  Sweepers,   \* the calls of RunHousekeeping that may be under way at once
  Policies,   \* the effective policies a sweep may run under
  MaxAge      \* bound: the oldest age told apart

\* RetentionPolicy.Validate and Merge: no TTL is negative.
ASSUME PolicyAssumption ==
  /\ MaxAge \in Nat /\ NRuns \in Nat
  /\ Policies \subseteq [logs: Nat, reports: Nat, runs: Nat, binaries: Nat,
                         archiveOnly: BOOLEAN]

\* Validate compares these two TTLs, but not when one of them is 0, and it does
\* not look at what Merge makes of the global policy and a suite's.
RowsOutliveReports == \A p \in Policies : p.archiveOnly \/ p.reports <= p.runs

VARIABLES
  artAge,     \* [Artifacts -> Age]: since created_at
  run,        \* [Runs -> RunRow]: table test_runs, what the sweep reads of it
  runAge,     \* [Runs -> Age]: since finished_at
  object,     \* [Runs -> SUBSET {"log", "report"}]: the run's objects
  sweep       \* [Sweepers -> Sweep]: the sweeps under way, or NoSweep

sweepVars == <<artAge, run, runAge, object, sweep>>
vars == <<buildVars, sweepVars>>

Runs   == 1 .. NRuns            \* numbered by created_at
Age    == 0 .. MaxAge
RunRow == [status: {"NONE", "LIVE", "FINISHED", "ARCHIVED"},
           art: Artifacts \cup {NoArtifact},
           keys: SUBSET {"log", "report"}]     \* s3_logs_key, s3_report_key
NoRun  == [status |-> "NONE", art |-> NoArtifact, keys |-> {}]

Referenced(a) == \E r \in Runs : run[r].art = a
Finished(r)   == run[r].status \in {"FINISHED", "ARCHIVED"}

\* What a sweep remembers: the rows past each cutoff when it began, the rows
\* its present phase has listed and not handled, and whether the object of
\* the one it is at is dealt with.
Phase == {"none", "logs", "reports", "prune", "orphans", "binaries"}
Sweep == [phase:  Phase,
          listed: BOOLEAN,
          object: BOOLEAN,
          runs:   SUBSET Runs,
          copies: [Artifacts -> Row],
          due: [logs: SUBSET Runs, reports: SUBSET Runs, prune: SUBSET Runs,
                orphans: SUBSET Artifacts, binaries: SUBSET Artifacts]]
NoCopies == [a \in Artifacts |-> NoRow]
NoSweep == [phase |-> "none", listed |-> FALSE, object |-> FALSE,
            runs |-> {}, copies |-> NoCopies,
            due |-> [logs |-> {}, reports |-> {}, prune |-> {},
                     orphans |-> {}, binaries |-> {}]]

Init ==
  /\ InitBuild
  /\ artAge = [a \in Artifacts |-> 0]
  /\ run = [r \in Runs |-> NoRun] /\ runAge = [r \in Runs |-> 0]
  /\ object = [r \in Runs |-> {}]
  /\ sweep = [s \in Sweepers |-> NoSweep]

-----------------------------------------------------------------------------
(* The surroundings: runs come and end, time passes                        *)

\* TriggerRun or a schedule: the artifact is READY and has its binary.
StartRun(r, a) ==
  /\ run[r].status = "NONE" /\ object[r] = {} /\ runAge[r] = 0
  /\ art[a].status = "READY" /\ art[a].key
  /\ run' = [run EXCEPT ![r] = [status |-> "LIVE", art |-> a, keys |-> {}]]
  /\ UNCHANGED <<buildVars, artAge, runAge, object, sweep>>

\* The run ends: it was aborted, failed with a log, or completed with both. (An
\* object no row ever named, as the report of a failed run, no phase looks for.)
FinishRun(r) ==
  /\ run[r].status = "LIVE"
  /\ \E keys \in {{}, {"log"}, {"log", "report"}} :
       /\ run' = [run EXCEPT ![r].status = "FINISHED", ![r].keys = keys]
       /\ object' = [object EXCEPT ![r] = keys]
  /\ UNCHANGED <<buildVars, artAge, runAge, sweep>>

ArtifactAges(a) ==
  /\ art[a].status # "NONE" /\ artAge[a] < MaxAge
  /\ artAge' = [artAge EXCEPT ![a] = @ + 1]
  /\ UNCHANGED <<buildVars, run, runAge, object, sweep>>

\* (An artifact was created before its run ended.)
RunAges(r) ==
  /\ Finished(r) /\ runAge[r] < artAge[run[r].art]
  /\ runAge' = [runAge EXCEPT ![r] = @ + 1]
  /\ UNCHANGED <<buildVars, artAge, run, object, sweep>>

-----------------------------------------------------------------------------
(* RunHousekeeping                                                         *)

\* Mutant: rows are pruned before their reports are purged.
PruneFirst == <<"logs", "prune", "reports", "orphans", "binaries">>
PhaseOrder == <<"logs", "reports", "prune", "orphans", "binaries">>

\* The sweep at its first phase, from i on, with a row past the cutoff: the
\* queries of the others return nothing. What is behind it is forgotten.
Enter(i, due) ==
  LET busy == {j \in i .. Len(PhaseOrder) : due[PhaseOrder[j]] # {}} IN
  IF busy = {} THEN NoSweep
  ELSE [NoSweep EXCEPT !.phase = PhaseOrder[Lowest(busy)],
          !.due = [p \in DOMAIN due |->
            IF \E j \in busy : PhaseOrder[j] = p THEN due[p] ELSE {}]]
NextPhase(w) ==
  Enter(1 + CHOOSE i \in DOMAIN PhaseOrder : PhaseOrder[i] = w.phase, w.due)

Sweeps(s, w) == sweep' = [sweep EXCEPT ![s] = w]

\* Every cutoff is computed from one "now", the moment the sweep starts.
PastTTL(ttl) == {r \in Runs : Finished(r) /\ runAge[r] > ttl}
StartSweep(s, p) ==
  /\ sweep[s].phase = "none"
  /\ Sweeps(s, Enter(1,
       [logs     |-> PastTTL(p.logs),
        reports  |-> PastTTL(p.reports),
        prune    |-> IF p.archiveOnly THEN {} ELSE PastTTL(p.runs),
        orphans  |-> {a \in Artifacts : artAge[a] > 0},   \* 24 hours
        binaries |-> {a \in Artifacts : artAge[a] > p.binaries}]))
  /\ UNCHANGED <<buildVars, artAge, run, runAge, object>>

\* The five queries. All but the last two look at the status.
ListExpiredRunsForLogs(due) == {r \in due :
  Finished(r) /\ "log" \in run[r].keys}
ListExpiredRunsForReports(due) == {r \in due :
  run[r].status = "FINISHED" /\ "report" \in run[r].keys}
ListExpiredRunsForPrune(due) == {r \in due : Finished(r)}
ListOrphanedArtifacts(due) == {a \in due :
  /\ art[a].status \in {"PENDING", "FAILED", "CANCELLED"}
  /\ ~Referenced(a)}

ListExpiredArtifacts(due) == {a \in due : art[a].key}

ListedRuns(w) ==
  CASE w.phase = "logs"    -> ListExpiredRunsForLogs(w.due.logs)
    [] w.phase = "reports" -> ListExpiredRunsForReports(w.due.reports)
    [] w.phase = "prune"   -> ListExpiredRunsForPrune(w.due.prune)
    [] OTHER -> {}
ListedArtifacts(w) ==
  CASE w.phase = "orphans"  -> ListOrphanedArtifacts(w.due.orphans)
    [] w.phase = "binaries" -> ListExpiredArtifacts(w.due.binaries)
    [] OTHER -> {}
CopiesOf(S) == [a \in Artifacts |-> IF a \in S THEN art[a] ELSE NoRow]

\* The query of the phase; when it fails the phase is skipped.
ListPhase(s) ==
  LET w == sweep[s] IN
  /\ w.phase # "none" /\ ~w.listed
  /\ \/ /\ ListedRuns(w) \cup ListedArtifacts(w) # {} /\ UNCHANGED faults
        /\ Sweeps(s, [w EXCEPT !.listed = TRUE, !.runs = ListedRuns(w),
                               !.copies = CopiesOf(ListedArtifacts(w))])
     \/ /\ ListedRuns(w) \cup ListedArtifacts(w) = {} /\ UNCHANGED faults
        /\ Sweeps(s, NextPhase(w))
     \/ Fault /\ Sweeps(s, NextPhase(w))
  /\ UNCHANGED <<rows, bucket, cluster, request, builder, artAge, run, runAge, object>>

Remaining(w) == {a \in Artifacts : w.copies[a] # NoRow}
NextRun(w, r) ==
  LET rest == w.runs \ {r} IN
  IF rest = {} THEN NextPhase(w) ELSE [w EXCEPT !.runs = rest, !.object = FALSE]
NextArtifact(w, a) ==
  IF Remaining(w) = {a} THEN NextPhase(w)
  ELSE [w EXCEPT !.copies[a] = NoRow, !.object = FALSE]

\* Phases 1 and 2: the object goes first, and a failure to delete it is
\* only logged ..
PurgeRunObject(s, kind) ==
  LET w == sweep[s] IN
  /\ w.listed /\ w.phase = kind.phase /\ ~w.object
  /\ Sweeps(s, [w EXCEPT !.object = TRUE])
  /\ \/ /\ object' = [object EXCEPT ![Lowest(w.runs)] = @ \ {kind.key}]
        /\ UNCHANGED faults
     \/ Fault /\ UNCHANGED object
  /\ UNCHANGED <<rows, bucket, cluster, request, builder, artAge, run, runAge>>

\* .. then ClearLogsKey, or ArchiveRun whatever archiveOnly says: an UPDATE
\* of these columns alone, by id.
ClearRunKey(s, kind) ==
  LET w == sweep[s]
      r == Lowest(w.runs)
  IN
  /\ w.listed /\ w.phase = kind.phase /\ w.object
  /\ Sweeps(s, NextRun(w, r))
  /\ \/ /\ run' = IF run[r].status = "NONE" THEN run
                  ELSE [run EXCEPT ![r].keys = @ \ {kind.key},
                                   ![r].status = kind.becomes[@]]
        /\ UNCHANGED faults
     \/ Fault /\ UNCHANGED run
  /\ UNCHANGED <<rows, bucket, cluster, request, builder, artAge, runAge, object>>

Same == [s \in {"LIVE", "FINISHED", "ARCHIVED"} |-> s]
Logs    == [phase |-> "logs", key |-> "log", becomes |-> Same]
Reports == [phase |-> "reports", key |-> "report",
            becomes |-> [s \in {"LIVE", "FINISHED", "ARCHIVED"} |-> "ARCHIVED"]]

\* Phase 3, DeleteBatch: one DELETE for all the rows listed; no objects.
PruneRuns(s) ==
  LET w == sweep[s] IN
  /\ w.listed /\ w.phase = "prune"
  /\ Sweeps(s, NextPhase(w))
  /\ \/ /\ run' = [r \in Runs |-> IF r \in w.runs THEN NoRun ELSE run[r]]
        /\ UNCHANGED faults
     \/ Fault /\ UNCHANGED run
  /\ UNCHANGED <<rows, bucket, cluster, request, builder, artAge, runAge, object>>

\* Phases 4 and 5 delete the objects the listed copy names ..
PurgeArtifactObjects(s) ==
  LET w == sweep[s]
      a == Lowest(Remaining(w))
  IN
  /\ w.listed /\ w.phase \in {"orphans", "binaries"} /\ ~w.object
  /\ Sweeps(s, [w EXCEPT !.object = TRUE])
  /\ \/ DeleteObjects(a, w.copies[a]) /\ UNCHANGED faults
     \/ Fault /\ UNCHANGED bucket
  /\ UNCHANGED <<rows, cluster, request, builder, artAge, run, runAge, object>>

\* .. then phase 4 deletes the row by id, whatever it says by now; the
\* foreign keys refuse it when the artifact is used ..
DeleteOrphan(s) ==
  LET w == sweep[s]
      a == Lowest(Remaining(w))
  IN
  /\ w.listed /\ w.phase = "orphans" /\ w.object
  /\ Sweeps(s, NextArtifact(w, a))
  /\ \/ ~Referenced(a) /\ Save(a, NoRow) /\ UNCHANGED faults
     \/ Referenced(a) /\ UNCHANGED <<art, faults>>
     \/ Fault /\ UNCHANGED art
  /\ UNCHANGED <<issued, bucket, cluster, request, builder, artAge, run, runAge, object>>

\* .. and phase 5 clears the keys in one UPDATE of these columns, by id.
ClearBinaryKeys(s) ==
  LET w == sweep[s]
      a == Lowest(Remaining(w))
  IN
  /\ w.listed /\ w.phase = "binaries" /\ w.object
  /\ Sweeps(s, NextArtifact(w, a))
  /\ \/ Save(a, [art[a] EXCEPT !.key = FALSE]) /\ UNCHANGED faults
     \/ Fault /\ UNCHANGED art
  /\ UNCHANGED <<issued, bucket, cluster, request, builder, artAge, run, runAge, object>>

SweepStep(s) ==
  \/ ListPhase(s)
  \/ \E kind \in {Logs, Reports} : PurgeRunObject(s, kind) \/ ClearRunKey(s, kind)
  \/ PruneRuns(s) \/ PurgeArtifactObjects(s) \/ DeleteOrphan(s) \/ ClearBinaryKeys(s)

-----------------------------------------------------------------------------
Restart ==
  /\ RestartServer
  /\ sweep' = [s \in Sweepers |-> NoSweep]
  /\ UNCHANGED <<artAge, run, runAge, object>>

BuildStep ==
  /\ \/ \E c \in Clients :
          \/ RequestStep(c) \/ NewRequest(c)
          \/ DeleteArtifactRow(c, Referenced(request[c].art))
     \/ \E b \in Builders : BuilderStep(b)
     \/ Cluster
  /\ UNCHANGED sweepVars

Next ==
  \/ BuildStep
  \/ \E r \in Runs : (\E a \in Artifacts : StartRun(r, a)) \/ FinishRun(r) \/ RunAges(r)
  \/ \E a \in Artifacts : ArtifactAges(a)
  \/ \E s \in Sweepers : SweepStep(s) \/ \E p \in Policies : StartSweep(s, p)
  \/ Restart

Spec == Init /\ [][Next]_vars

-----------------------------------------------------------------------------
(* Properties                                                              *)

\* Every variable of the retention engine has its type.
RetentionTypeOK ==
  /\ artAge \in [Artifacts -> Age]
  /\ run \in [Runs -> RunRow] /\ runAge \in [Runs -> Age]
  /\ object \in [Runs -> SUBSET {"log", "report"}]
  /\ sweep \in [Sweepers -> Sweep]

\* Without faults, and if no policy prunes rows before it purges their reports,
\* a run's row never goes before the report it names: every such object left in
\* the bucket is still named by its row.
ReportsHaveARow ==
  faults = 0 /\ RowsOutliveReports =>
    \A r \in Runs : "report" \in object[r] => "report" \in run[r].keys
=============================================================================
