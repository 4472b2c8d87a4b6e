--------------------------- MODULE MCControlPlane ---------------------------
(***************************************************************************)
(* The control plane's services on a small instance: the builds and the    *)
(* catalogue.  The two share no variable (what the catalogue asks of an    *)
(* artifact is that it is READY), so that a behaviour interleaves them     *)
(* freely and each is explored by itself, "focus" telling which; the one   *)
(* that is not looked at stays where nothing it owes is enabled.           *)
(* The partitioner is a function: "split" is a configuration and a number  *)
(* of workers, and each one an initial state without a step.               *)
(***************************************************************************)
EXTENDS ArtifactBuild, Catalog, Partition

OneTarget  == <<"linux/amd64">>

Load == [dir |-> "", base |-> "load.go", package |-> "scenario", main |-> FALSE,
         imports |-> {}, contract |-> "function"]
Good == [format |-> "tar.gz", gomod |-> "direct", version |-> "supported",
         files |-> {Load}]

\* An archive with a test file and two files of the same base name, one with an
\* import the comparison misses, and one archive for each way to be refused.
Twin == [Load EXCEPT !.dir = "pkg/", !.imports = {"missed"}, !.contract = "none"]
Test == [Load EXCEPT !.base = "load_test.go", !.imports = {"matched"}]
ManyArchives ==
  { [Good EXCEPT !.files = {Load, Twin, Test}],
    [Good EXCEPT !.format = "unknown"],
    [Good EXCEPT !.gomod = "indirect"],
    [Good EXCEPT !.version = "unsupported"],
    [Good EXCEPT !.files = {}],
    [Good EXCEPT !.files = {[Load EXCEPT !.package = "main"]}],
    [Good EXCEPT !.files = {[Load EXCEPT !.main = TRUE]}],
    [Good EXCEPT !.files = {[Load EXCEPT !.imports = {"matched", "missed"}]}],
    [Good EXCEPT !.files = {[Load EXCEPT !.contract = "none"]}] }

\* Loads below, at and above the number of workers, and absent ones.
Scenario == [type |-> "", vus |-> Absent, target_tps |-> Absent,
             max_vus |-> Absent, burst_buffer |-> Absent, stages |-> <<>>]
Workloads ==
  {[concurrency |-> load, scenarios |->
      << [Scenario EXCEPT !.type = "constant_vus", !.vus = load],
         [Scenario EXCEPT !.type = "arrival_rate", !.target_tps = load,
                          !.max_vus = 5, !.burst_buffer = 0],
         [Scenario EXCEPT !.type = "ramping_vus", !.stages = <<1, load, 7>>] >>] :
   load \in {Absent, -1, 0, 1, 2, 3, 7, 8}}

VARIABLES focus, split

ControlPlaneInit ==
  /\ focus \in {"builds", "catalog", "partition"}
  /\ split \in IF focus = "partition" THEN Workloads \X (1 .. 4) ELSE {<<>>}
  /\ InitBuild /\ CatalogInit

ControlPlaneNext ==
  /\ UNCHANGED <<focus, split>>
  /\ \/ focus = "builds" /\ BuildNext /\ UNCHANGED catalogVars
     \/ focus = "catalog" /\ CatalogNext /\ UNCHANGED buildVars

ControlPlaneSpec ==
  /\ ControlPlaneInit
  /\ [][ControlPlaneNext]_<<buildVars, catalogVars, focus, split>>
  /\ BuildFairness

\* The parts the workers of a run compute, each its own, make up every load of
\* the configuration again: nothing is lost or sent twice, and no worker has two
\* units more than another.
SharesAddUp ==
  focus = "partition" =>
    LET whole == split[1]
        n     == split[2]
    IN /\ \A i \in 0 .. n - 1 : CanPartition(whole, i, n)
       /\ SharesOf(whole, n)
=============================================================================
