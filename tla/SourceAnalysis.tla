--------------------------- MODULE SourceAnalysis ---------------------------
(***************************************************************************)
(* StaticAnalyzer: what an uploaded archive must look like to be built,    *)
(* and the archive it is turned into.                                      *)
(*                                                                         *)
(* The analyser walks a Go map of files, so the order is any order: the    *)
(* scenario it finds first, and the file that wins when two have the same  *)
(* base name, are choices of the build. Source text is abstracted to what  *)
(* the checks look at.                                                     *)
(***************************************************************************)
EXTENDS Naturals, FiniteSets

CONSTANTS
  AllowInsecureOverride   \* StaticAnalyzerConfig: may a request ask for it?

\* A file of the archive with its cleaned path. imports: the packages it imports
\* that defaultForbiddenPrefixes means and WhitelistedPackages does not exempt,
\* as far as isForbiddenImport tells them apart.
File == [dir:     {"", "pkg/"},
         base:    {"main.go", "load.go", "load_test.go", "data.csv"},
         package: {"scenario", "main", "other", "unparsable", "n/a"},
         main:    BOOLEAN,                    \* declares func main
         imports: SUBSET {"matched", "missed"},
         contract: {"none", "function", "variable", "register"}]

\* An archive: its container format, its go.mod and its other files.
Archive == [format:  {"tar.gz", "tar.bz2", "zip", "unknown"},
            gomod:   {"none", "no module", "no vuhive", "indirect", "direct"},
            version: {"unset", "supported", "unsupported"},
            files:   SUBSET File]

IsGo(f)     == f.base \in {"main.go", "load.go", "load_test.go"}
GoFiles(ar) == {f \in ar.files : IsGo(f) /\ f.base # "load_test.go"}

-----------------------------------------------------------------------------
(* AnalyzeArchive                                                          *)

\* extractArchive: by magic bytes, else by trying each format.
Extracts(ar) == ar.format # "unknown"

\* parseGoMod, and the checks on it: a direct requirement of vuhive.
GoModAccepted(ar) == ar.gomod = "direct" /\ ar.version # "unsupported"

\* The checks of one source file.
FileAccepted(f) == f.package = "scenario" /\ ~f.main

\* findScenarioContract: exported function, Register function or variable.
Entrypoints(ar) == {f \in GoFiles(ar) : f.contract # "none"}

\* A path matches an entry it equals or continues after a slash. Missed are the
\* packages below the entry "debug/", which ends in the slash already, and the
\* paths written in back quotes, which are compared with the quotes on.
isForbiddenImport(import) == import = "matched"

\* Suspicious imports need the request's override and the cluster's leave.
ImportsAccepted(ar, insecure) ==
  (\E f \in GoFiles(ar) : \E import \in f.imports : isForbiddenImport(import))
     => insecure /\ AllowInsecureOverride

Accepted(ar, insecure) ==
  /\ Extracts(ar) /\ GoModAccepted(ar)
  /\ GoFiles(ar) # {}
  /\ \A f \in GoFiles(ar) : FileAccepted(f)
  /\ ImportsAccepted(ar, insecure)
  /\ Entrypoints(ar) # {}

-----------------------------------------------------------------------------
(* PrepareSourceArchive                                                    *)

\* The scenario files: Go files move to scenario/<base>, whatever directory
\* they were in; the root's main.go gives way to the generated driver.
Kept(ar) == {f \in ar.files : ~(f.dir = "" /\ f.base = "main.go")}
Path(f)  == <<IF IsGo(f) THEN "scenario/" ELSE f.dir, f.base>>

\* The tarballs that may come out: one file a path survives extraction, and
\* the driver calls the entry point of one of the files analysed.
Prepared(ar) ==
  {[files |-> kept, entry |-> e] :
     kept \in {S \in SUBSET Kept(ar) :
                 /\ \A f, g \in S : Path(f) = Path(g) => f = g
                 /\ \A f \in Kept(ar) : \E g \in S : Path(g) = Path(f)},
     e \in Entrypoints(ar)}

\* What `go build` compiles beside the driver.
Compiled(src) == {f \in src.files : IsGo(f) /\ f.base # "load_test.go"}
=============================================================================
