------------------------------ MODULE Catalog ------------------------------
(***************************************************************************)
(* The catalogue of one suite: SuiteService, ConfigService,                *)
(* ScheduleService and ProfileService.                                     *)
(*                                                                         *)
(* A configuration is a row AND an object in the bucket, a schedule a row  *)
(* AND a CronJob.  No transaction spans the two: each service does one     *)
(* call after the other and gives up, or goes on, when one fails.  Updates *)
(* read a row, change the copy and write the WHOLE row back by an upsert.  *)
(* Row identifiers are fresh; the artifact and the runner profile that the *)
(* schedules name are the suite's only ones.                               *)
(***************************************************************************)
EXTENDS Integers, FiniteSets

CONSTANTS
  Schedules,    \* bound: the schedules ever created
  Configs,      \* bound: the configurations ever created
  Names,        \* names of configurations, unique in a suite
  Contents,     \* YAML documents
  Crons,        \* valid cron expressions
  Editors,      \* REST requests served at the same time
  MaxHiccups,   \* bound: failed calls and restarts of the server
  None          \* no value

ASSUME CatalogAssumption ==
  /\ MaxHiccups \in Nat
  /\ Schedules \cap Configs = {}
  /\ None \notin Schedules \cup Configs \cup Names \cup Contents \cup Crons

VARIABLES
  suite,      \* the suite's row
  profile,    \* the runner profile's row
  config,     \* [Configs -> ConfigRow]: table configurations
  yaml,       \* [Configs -> content]: suites/<suite>/configs/<config>.yaml
  schedule,   \* [Schedules -> ScheduleRow]: table schedules
  cronjob,    \* [Schedules -> CronJob]: the CronJob named after the schedule
  created,    \* identifiers handed out
  edit,       \* [Editors -> Edit]: requests in flight
  apart,      \* history: what a race or a late failure may have set apart
  hiccups     \* failed calls and restarts so far

rowVars == <<suite, profile, config, schedule>>
catalogVars == <<suite, profile, config, yaml, schedule, cronjob,
                 created, edit, apart, hiccups>>

-----------------------------------------------------------------------------
(* Rows, objects and requests                                              *)

SuiteState == {"DRAFT", "ACTIVE", "ARCHIVED"}
RowState   == {"unborn", "kept", "deleted"}

ConfigRow   == [name: Names \cup {None}, content: Contents \cup {None}]
NoConfig    == [name |-> None, content |-> None]
ScheduleRow == [cron: Crons \cup {None}, active: BOOLEAN,
                config: Configs \cup {None}]
NoSchedule  == [cron |-> None, active |-> FALSE, config |-> None]
CronJob     == [cron: Crons \cup {None}, suspend: BOOLEAN]
NoCronJob   == [cron |-> None, suspend |-> FALSE]

Resting == [pc |-> "idle", on |-> None, row |-> NoSchedule, file |-> NoConfig,
            state |-> "none"]
Edit == [pc: {"idle", "saveSchedule", "createCronJob", "rollback",
              "updateCronJob", "resaveSchedule", "deleteCronJob",
              "deleteSchedule", "upload", "saveConfig", "erase", "deleteConfig",
              "saveSuite", "saveProfile"},
         on: Schedules \cup Configs \cup {None},
         row: ScheduleRow, file: ConfigRow,
         state: SuiteState \cup {"none"}]

HasSuite   == suite \in SuiteState
HasProfile == profile = "kept"

CatalogInit ==
  /\ suite = "unborn" /\ profile = "unborn"
  /\ config = [c \in Configs |-> NoConfig]
  /\ yaml = [c \in Configs |-> None]
  /\ schedule = [s \in Schedules |-> NoSchedule]
  /\ cronjob = [s \in Schedules |-> NoCronJob]
  /\ created = {}
  /\ edit = [e \in Editors |-> Resting]
  /\ apart = {} /\ hiccups = 0

\* A call to PostgreSQL, Kubernetes or S3 fails and does nothing.
Hiccup == hiccups < MaxHiccups /\ hiccups' = hiccups + 1

InFlight(x) == \E e \in Editors : edit[e].on = x

\* A request on x begins; two on one x at a time may set its halves apart.
Begin(e, pc, x, row, file) ==
  /\ edit[e].pc = "idle"
  /\ edit' = [edit EXCEPT ![e] =
       [Resting EXCEPT !.pc = pc, !.on = x, !.row = row, !.file = file]]
  /\ apart' = IF InFlight(x) THEN apart \cup {x} ELSE apart

Then(e, pc)    == edit' = [edit EXCEPT ![e].pc = pc]
Finish(e)    == edit' = [edit EXCEPT ![e] = Resting]
SetsApart(e) == apart' = apart \cup {edit[e].on}

-----------------------------------------------------------------------------
(* Schedules                                                               *)

NewSchedule(cron, c) == [cron |-> cron, active |-> TRUE, config |-> c]

\* The suite is ACTIVE, its artifact READY, the profile and the configuration
\* (if one is given) exist.
CreateSchedule(e, s, cron, c) ==
  /\ s \notin created
  /\ suite = "ACTIVE" /\ HasProfile
  /\ c # None => config[c] # NoConfig
  /\ created' = created \cup {s}
  /\ Begin(e, "saveSchedule", s, NewSchedule(cron, c), NoConfig)
  /\ UNCHANGED <<rowVars, yaml, cronjob, hiccups>>

\* The foreign keys of a schedule row.
References(row) ==
  HasSuite /\ HasProfile /\ (row.config # None => config[row.config] # NoConfig)

SaveSchedule(e) ==
  LET s == edit[e].on IN
  /\ edit[e].pc = "saveSchedule"
  /\ \/ /\ References(edit[e].row) /\ UNCHANGED hiccups
        /\ schedule' = [schedule EXCEPT ![s] = edit[e].row]
        /\ Then(e, "createCronJob")
     \/ ~References(edit[e].row) /\ Finish(e) /\ UNCHANGED <<schedule, hiccups>>
     \/ Hiccup /\ Finish(e) /\ UNCHANGED schedule
  /\ UNCHANGED <<suite, profile, config, yaml, cronjob, created, apart>>

\* GenerateCronJob, and what Update writes into the CronJob there is.
CronJobOf(row) == [cron |-> row.cron, suspend |-> ~row.active]

CreateCronJob(e) ==
  LET s == edit[e].on IN
  /\ edit[e].pc = "createCronJob"
  /\ \/ /\ cronjob' = [cronjob EXCEPT ![s] = CronJobOf(edit[e].row)]
        /\ Finish(e) /\ UNCHANGED hiccups
     \/ Hiccup /\ Then(e, "rollback") /\ UNCHANGED cronjob
  /\ UNCHANGED <<rowVars, yaml, created, apart>>

\* Mutant: the row is left when the CronJob cannot be made.
NoRollback(e) ==
  /\ edit[e].pc = "rollback"
  /\ Finish(e)
  /\ UNCHANGED <<rowVars, yaml, cronjob, created, apart, hiccups>>

\* The error of the rollback is ignored.
Rollback(e) ==
  /\ edit[e].pc = "rollback"
  /\ Finish(e)
  /\ \/ schedule' = [schedule EXCEPT ![edit[e].on] = NoSchedule]
        /\ UNCHANGED <<apart, hiccups>>
     \/ Hiccup /\ SetsApart(e) /\ UNCHANGED schedule
  /\ UNCHANGED <<suite, profile, config, yaml, cronjob, created>>

\* UpdateCronExpression, Activate and Deactivate.
Edited(row, cron, active) == [row EXCEPT !.cron = cron, !.active = active]

\* At least one field is given: a new expression, a new state or both.
UpdateSchedule(e, s, cron, active) ==
  /\ schedule[s] # NoSchedule
  /\ Begin(e, "updateCronJob", s, Edited(schedule[s], cron, active), NoConfig)
  /\ UNCHANGED <<rowVars, yaml, cronjob, created, hiccups>>

\* Get and Update; a CronJob that is gone ends the request.
UpdateCronJob(e) ==
  LET s == edit[e].on IN
  /\ edit[e].pc = "updateCronJob"
  /\ \/ /\ cronjob[s] # NoCronJob /\ UNCHANGED hiccups
        /\ cronjob' = [cronjob EXCEPT ![s] = CronJobOf(edit[e].row)]
        /\ Then(e, "resaveSchedule")
     \/ cronjob[s] = NoCronJob /\ Finish(e) /\ UNCHANGED <<cronjob, hiccups>>
     \/ Hiccup /\ Finish(e) /\ UNCHANGED cronjob
  /\ UNCHANGED <<rowVars, yaml, created, apart>>

\* The CronJob has changed already when the save fails.
ResaveSchedule(e) ==
  LET s == edit[e].on IN
  /\ edit[e].pc = "resaveSchedule"
  /\ Finish(e)
  /\ \/ /\ References(edit[e].row)
        /\ schedule' = [schedule EXCEPT ![s] = edit[e].row]
        /\ UNCHANGED <<apart, hiccups>>
     \/ ~References(edit[e].row) /\ SetsApart(e) /\ UNCHANGED <<schedule, hiccups>>
     \/ Hiccup /\ SetsApart(e) /\ UNCHANGED schedule
  /\ UNCHANGED <<suite, profile, config, yaml, cronjob, created>>

DeleteSchedule(e, s) ==
  /\ schedule[s] # NoSchedule
  /\ Begin(e, "deleteCronJob", s, schedule[s], NoConfig)
  /\ UNCHANGED <<rowVars, yaml, cronjob, created, hiccups>>

\* An error is logged, and the row goes all the same.
DeleteCronJob(e) ==
  /\ edit[e].pc = "deleteCronJob"
  /\ Then(e, "deleteSchedule")
  /\ \/ cronjob' = [cronjob EXCEPT ![edit[e].on] = NoCronJob]
        /\ UNCHANGED <<apart, hiccups>>
     \/ Hiccup /\ SetsApart(e) /\ UNCHANGED cronjob
  /\ UNCHANGED <<rowVars, yaml, created>>

DeleteScheduleRow(e) ==
  /\ edit[e].pc = "deleteSchedule"
  /\ Finish(e)
  /\ \/ schedule' = [schedule EXCEPT ![edit[e].on] = NoSchedule]
        /\ UNCHANGED <<apart, hiccups>>
     \/ Hiccup /\ SetsApart(e) /\ UNCHANGED schedule
  /\ UNCHANGED <<suite, profile, config, yaml, cronjob, created>>

-----------------------------------------------------------------------------
(* Configurations: the object first, then the row                          *)

CreateConfig(e, c, file) ==
  /\ c \notin created /\ HasSuite
  /\ created' = created \cup {c}
  /\ Begin(e, "upload", c, NoSchedule, file)
  /\ UNCHANGED <<rowVars, yaml, cronjob, hiccups>>

UpdateConfig(e, c, file) ==
  /\ config[c] # NoConfig /\ HasSuite
  /\ Begin(e, "upload", c, NoSchedule, file)
  /\ UNCHANGED <<rowVars, yaml, cronjob, created, hiccups>>

\* Mutant: a failed upload is logged, and the row is saved all the same.
UploadOrSkip(e) ==
  LET c == edit[e].on IN
  /\ edit[e].pc = "upload"
  /\ Then(e, "saveConfig")
  /\ \/ yaml' = [yaml EXCEPT ![c] = edit[e].file.content] /\ UNCHANGED hiccups
     \/ Hiccup /\ UNCHANGED yaml
  /\ UNCHANGED <<rowVars, cronjob, created, apart>>

UploadConfig(e) ==
  LET c == edit[e].on IN
  /\ edit[e].pc = "upload"
  /\ \/ yaml' = [yaml EXCEPT ![c] = edit[e].file.content]
        /\ Then(e, "saveConfig") /\ UNCHANGED hiccups
     \/ Hiccup /\ Finish(e) /\ UNCHANGED yaml
  /\ UNCHANGED <<rowVars, cronjob, created, apart>>

\* uq_suite_config_name and the foreign key to the suite.
CanSave(c, file) ==
  HasSuite /\ \A d \in Configs \ {c} : config[d].name # file.name

\* The object has changed already when the save is refused or fails.
SaveConfig(e) ==
  LET c == edit[e].on IN
  /\ edit[e].pc = "saveConfig"
  /\ Finish(e)
  /\ \/ /\ CanSave(c, edit[e].file)
        /\ config' = [config EXCEPT ![c] = edit[e].file]
        /\ UNCHANGED <<apart, hiccups>>
     \/ ~CanSave(c, edit[e].file) /\ SetsApart(e) /\ UNCHANGED <<config, hiccups>>
     \/ Hiccup /\ SetsApart(e) /\ UNCHANGED config
  /\ UNCHANGED <<suite, profile, schedule, yaml, cronjob, created>>

DeleteConfig(e, c) ==
  /\ config[c] # NoConfig
  /\ Begin(e, "erase", c, NoSchedule, config[c])
  /\ UNCHANGED <<rowVars, yaml, cronjob, created, hiccups>>

\* An error is logged, and the row goes all the same.
EraseObject(e) ==
  /\ edit[e].pc = "erase"
  /\ Then(e, "deleteConfig")
  /\ \/ yaml' = [yaml EXCEPT ![edit[e].on] = None] /\ UNCHANGED hiccups
     \/ Hiccup /\ UNCHANGED yaml
  /\ UNCHANGED <<rowVars, cronjob, created, apart>>

\* ON DELETE SET NULL: a schedule forgets the configuration, its CronJob's key
\* does not.
Forget(cs) ==
  schedule' = [s \in Schedules |->
    IF schedule[s].config \in cs THEN [schedule[s] EXCEPT !.config = None]
                                 ELSE schedule[s]]

DeleteConfigRow(e) ==
  LET c == edit[e].on IN
  /\ edit[e].pc = "deleteConfig"
  /\ Finish(e)
  /\ \/ /\ config' = [config EXCEPT ![c] = NoConfig] /\ Forget({c})
        /\ UNCHANGED <<apart, hiccups>>
     \/ Hiccup /\ SetsApart(e) /\ UNCHANGED <<config, schedule>>
  /\ UNCHANGED <<suite, profile, yaml, cronjob, created>>

-----------------------------------------------------------------------------
(* Suite and runner profile                                                *)

CreateSuite ==
  /\ suite = "unborn" /\ suite' = "DRAFT"
  /\ UNCHANGED <<profile, config, yaml, schedule, cronjob, created, edit, apart,
                 hiccups>>

ReadSuite(e, state) ==
  /\ edit[e].pc = "idle"
  /\ edit' = [edit EXCEPT ![e] = [Resting EXCEPT !.pc = "saveSuite", !.state = state]]
  /\ UNCHANGED <<rowVars, yaml, cronjob, created, apart, hiccups>>

\* TransitionState, to any state, and then UpdateDetails, which refuses an
\* ARCHIVED suite: the update cannot archive.
UpdateSuite(e, state) ==
  /\ HasSuite /\ state # "ARCHIVED"
  /\ ReadSuite(e, state)

ArchiveSuite(e) ==
  /\ HasSuite /\ suite # "ARCHIVED"
  /\ ReadSuite(e, "ARCHIVED")

SaveSuite(e) ==
  /\ edit[e].pc = "saveSuite"
  /\ Finish(e)
  /\ \/ suite' = edit[e].state /\ UNCHANGED hiccups
     \/ Hiccup /\ UNCHANGED suite
  /\ UNCHANGED <<profile, config, yaml, schedule, cronjob, created, apart>>

\* One statement. The rows of the suite cascade; a schedule RESTRICTs the
\* artifacts' cascade, so that PostgreSQL refuses unless the schedules' own
\* cascade comes first. Objects and CronJobs stay.
DeleteSuite ==
  /\ HasSuite /\ suite' = "deleted"
  /\ config' = [c \in Configs |-> NoConfig]
  /\ schedule' = [s \in Schedules |-> NoSchedule]
  /\ apart' = apart \cup {s \in Schedules : schedule[s] # NoSchedule \/ InFlight(s)}
                    \cup {c \in Configs : InFlight(c)}
  /\ UNCHANGED <<profile, yaml, cronjob, created, edit, hiccups>>

UpdateProfile(e) ==
  /\ HasProfile /\ edit[e].pc = "idle"
  /\ edit' = [edit EXCEPT ![e] = [Resting EXCEPT !.pc = "saveProfile"]]
  /\ UNCHANGED <<rowVars, yaml, cronjob, created, apart, hiccups>>

CreateProfile ==
  /\ profile = "unborn" /\ profile' = "kept"
  /\ UNCHANGED <<suite, config, yaml, schedule, cronjob, created, edit, apart,
                 hiccups>>

SaveProfile(e) ==
  /\ edit[e].pc = "saveProfile"
  /\ Finish(e)
  /\ \/ profile' = "kept" /\ UNCHANGED hiccups
     \/ Hiccup /\ UNCHANGED profile
  /\ UNCHANGED <<suite, config, yaml, schedule, cronjob, created, apart>>

\* A schedule RESTRICTs the delete.
DeleteProfile ==
  /\ HasProfile /\ \A s \in Schedules : schedule[s] = NoSchedule
  /\ profile' = "deleted"
  /\ UNCHANGED <<suite, config, yaml, schedule, cronjob, created, edit, apart,
                 hiccups>>

\* The process dies; what was half done stays so.
RestartCatalog ==
  /\ Hiccup
  /\ edit' = [e \in Editors |-> Resting]
  /\ apart' = apart \cup {x \in Schedules \cup Configs : InFlight(x)}
  /\ UNCHANGED <<rowVars, yaml, cronjob, created>>

-----------------------------------------------------------------------------
EditStep(e) ==
  \/ SaveSchedule(e) \/ CreateCronJob(e) \/ Rollback(e) \/ UpdateCronJob(e)
  \/ ResaveSchedule(e) \/ DeleteCronJob(e) \/ DeleteScheduleRow(e)
  \/ UploadConfig(e) \/ SaveConfig(e) \/ EraseObject(e) \/ DeleteConfigRow(e)
  \/ SaveSuite(e) \/ SaveProfile(e)

NewEdit(e) ==
  \/ \E s \in Schedules, cron \in Crons :
       \/ \E c \in Configs \cup {None} : CreateSchedule(e, s, cron, c)
       \/ \E active \in BOOLEAN : UpdateSchedule(e, s, cron, active)
  \/ \E s \in Schedules : DeleteSchedule(e, s)
  \/ \E c \in Configs, n \in Names, y \in Contents :
       \/ CreateConfig(e, c, [name |-> n, content |-> y])
       \/ UpdateConfig(e, c, [name |-> n, content |-> y])
  \/ \E c \in Configs : DeleteConfig(e, c)
  \/ \E state \in SuiteState : UpdateSuite(e, state)
  \/ ArchiveSuite(e) \/ UpdateProfile(e)

CatalogNext ==
  \/ \E e \in Editors : EditStep(e) \/ NewEdit(e)
  \/ CreateSuite \/ DeleteSuite \/ CreateProfile \/ DeleteProfile
  \/ RestartCatalog

CatalogSpec == CatalogInit /\ [][CatalogNext]_catalogVars

-----------------------------------------------------------------------------
(* Properties                                                              *)

\* Every variable of the catalogue has its type.
CatalogTypeOK ==
  /\ suite \in SuiteState \cup {"unborn", "deleted"}
  /\ profile \in RowState
  /\ config \in [Configs -> ConfigRow] /\ yaml \in [Configs -> Contents \cup {None}]
  /\ schedule \in [Schedules -> ScheduleRow] /\ cronjob \in [Schedules -> CronJob]
  /\ created \subseteq Schedules \cup Configs
  /\ edit \in [Editors -> Edit]
  /\ apart \subseteq Schedules \cup Configs
  /\ hiccups \in 0 .. MaxHiccups

\* No request is working on x, and neither a race, a crash nor a failure after
\* the first half of a change has set its halves apart.
Quiet(x) == ~InFlight(x) /\ x \notin apart

Mirrors(cj, row) ==
  IF row = NoSchedule THEN cj = NoCronJob
  ELSE cj.cron = row.cron /\ cj.suspend = ~row.active

\* A schedule at rest has a CronJob that fires as its row says, and a deleted or
\* refused one has none: a failed creation is rolled back, a failed update of
\* the CronJob changes nothing, whoever edits suite, profile and configurations.
QuietScheduleIsMirrored ==
  \A s \in Schedules : Quiet(s) => Mirrors(cronjob[s], schedule[s])

\* A configuration at rest whose row can be read has its object, with the
\* content of the row: pods download the object, the console shows the row.
QuietConfigHasObject ==
  \A c \in Configs : Quiet(c) /\ config[c] # NoConfig => yaml[c] = config[c].content
=============================================================================
