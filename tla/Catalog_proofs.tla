--------------------------- MODULE Catalog_proofs ---------------------------
(***************************************************************************)
(* Proofs about Catalog, for any schedules, configurations, editors and    *)
(* failures. The two halves of a schedule (row and CronJob) and of a       *)
(* configuration (row and object) are related at rest only; the invariant  *)
(* says what relates them at each point of the one request that is working *)
(* on them, and that there is one such request unless they raced.          *)
(* A section is about Partition, which divides a configuration over the    *)
(* workers of a run, for any load and any number of workers, and the last  *)
(* one about the control plane that MCControlPlane composes.               *)
(***************************************************************************)
EXTENDS MCControlPlane, WellFoundedInduction, TLAPS

SavePc     == {"saveSchedule", "createCronJob", "updateCronJob", "resaveSchedule"}
SchedulePc == SavePc \cup {"rollback", "deleteCronJob", "deleteSchedule"}
ConfigPc   == {"upload", "saveConfig", "erase", "deleteConfig"}

\* What a request works on, and what it carries.
EditShape(ed, ids) ==
  /\ ed.pc \in SchedulePc => ed.on \in Schedules /\ ed.on \in ids
  /\ ed.pc \in SavePc => ed.row.cron \in Crons
  /\ ed.pc \in ConfigPc => ed.on \in Configs
  /\ ed.pc \in {"idle", "saveSuite", "saveProfile"} => ed.on = None
  /\ ed.pc = "saveSuite" => ed.state \in SuiteState

Alone ==
  \A e, f \in Editors :
    edit[e].on = edit[f].on /\ edit[e].on \notin apart \cup {None} => e = f

\* A row has an expression, and a schedule nobody created has nothing.
RowOK(s) ==
  /\ schedule[s] = NoSchedule \/ schedule[s].cron \in Crons
  /\ s \notin created => schedule[s] = NoSchedule /\ cronjob[s] = NoCronJob

\* The two halves of a schedule while request ed is working on it.
Midway(ed, row, cj) ==
  CASE ed.pc = "saveSchedule"  -> row = NoSchedule /\ cj = NoCronJob
    [] ed.pc = "createCronJob" -> /\ row.cron = ed.row.cron
                                  /\ row.active = ed.row.active
                                  /\ cj = NoCronJob
    [] ed.pc = "updateCronJob" -> Mirrors(cj, row)
    [] ed.pc = "resaveSchedule" -> cj = CronJobOf(ed.row)
    [] ed.pc \in {"rollback", "deleteSchedule"} -> cj = NoCronJob
    [] OTHER -> TRUE

ScheduleOK(s) ==
  s \notin apart =>
    /\ \A e \in Editors : edit[e].on = s => Midway(edit[e], schedule[s], cronjob[s])
    /\ ~InFlight(s) => Mirrors(cronjob[s], schedule[s])

HasObject(row, object) == row # NoConfig => object = row.content

\* The two halves of a configuration while request ed is working on it.
Halfway(ed, row, object) ==
  /\ ed.pc = "upload" => HasObject(row, object)
  /\ ed.pc = "saveConfig" => object = ed.file.content

ConfigOK(c) ==
  c \notin apart =>
    /\ \A e \in Editors : edit[e].on = c => Halfway(edit[e], config[c], yaml[c])
    /\ ~InFlight(c) => HasObject(config[c], yaml[c])

Requests == Alone /\ \A e \in Editors : EditShape(edit[e], created)

CatalogInv ==
  /\ CatalogTypeOK /\ Requests
  /\ \A s \in Schedules : RowOK(s) /\ ScheduleOK(s)
  /\ \A c \in Configs : ConfigOK(c)

-----------------------------------------------------------------------------
LEMMA Defaults ==
  /\ NoConfig \in ConfigRow /\ NoSchedule \in ScheduleRow /\ NoCronJob \in CronJob
  /\ Resting \in Edit
BY DEF NoConfig, ConfigRow, NoSchedule, ScheduleRow, NoCronJob, CronJob, Resting, Edit

LEMMA CatalogInvInit == CatalogInit => CatalogInv
<1> SUFFICES ASSUME CatalogInit PROVE CatalogInv
  OBVIOUS
<1>1. CatalogTypeOK
  BY Defaults, CatalogAssumption DEF CatalogInit, CatalogTypeOK, RowState
<1>2. Requests
  BY DEF CatalogInit, Requests, Alone, EditShape, Resting, SchedulePc, SavePc, ConfigPc
<1>3. \A x \in Schedules \cup Configs : ~InFlight(x)
  BY CatalogAssumption DEF CatalogInit, InFlight, Resting
<1>4. ASSUME NEW s \in Schedules PROVE RowOK(s) /\ ScheduleOK(s)
  BY <1>3 DEF CatalogInit, RowOK, ScheduleOK, Mirrors, InFlight
<1>5. ASSUME NEW c \in Configs PROVE ConfigOK(c)
  BY <1>3 DEF CatalogInit, ConfigOK, HasObject, InFlight
<1>6. QED
  BY <1>1, <1>2, <1>4, <1>5 DEF CatalogInv

LEMMA HiccupType ==
  ASSUME hiccups \in 0 .. MaxHiccups, Hiccup \/ UNCHANGED hiccups
  PROVE  hiccups' \in 0 .. MaxHiccups
BY CatalogAssumption DEF Hiccup

-----------------------------------------------------------------------------
(* A request takes a step                                                  *)

\* The request goes on with the same row and CronJob, or the same
\* configuration, or is over.
Moves(e, new) ==
  /\ edit' = [edit EXCEPT ![e] = new] /\ new \in Edit
  /\ new.on \in {edit[e].on, None} /\ EditShape(new, created)
  /\ created' = created
  /\ apart \subseteq apart' /\ apart' \subseteq Schedules \cup Configs

LEMMA MovesRequests ==
  ASSUME CatalogInv, NEW e \in Editors, NEW new, Moves(e, new)
  PROVE  /\ Requests' /\ edit' \in [Editors -> Edit] /\ edit'[e] = new
         /\ \A f \in Editors : f # e => edit'[f] = edit[f]
<1>1. /\ edit' \in [Editors -> Edit] /\ edit'[e] = new
      /\ \A f \in Editors : f # e => edit'[f] = edit[f]
  BY DEF CatalogInv, CatalogTypeOK, Moves
<1>2. \A f \in Editors : EditShape(edit'[f], created')
  BY <1>1 DEF CatalogInv, Requests, Moves
<1>3. Alone'
  BY <1>1 DEF CatalogInv, Requests, Alone, Moves
<1>4. QED
  BY <1>1, <1>2, <1>3 DEF Requests

\* A row that may only have lost its configuration (ON DELETE SET NULL).
Same(new, old) == /\ new.cron = old.cron /\ new.active = old.active
                  /\ new = NoSchedule <=> old = NoSchedule

LEMMA SameIsSame ==
  ASSUME NEW ed, NEW cj, NEW old, NEW new, Same(new, old)
  PROVE  /\ Midway(ed, old, cj) => Midway(ed, new, cj)
         /\ Mirrors(cj, old) => Mirrors(cj, new)
BY DEF Same, Midway, Mirrors

\* What a step does to the schedules: nothing, but to the one it works on.
LEMMA MovesSchedules ==
  ASSUME CatalogInv, NEW e \in Editors, NEW new, Moves(e, new),
         NEW s \in Schedules,
         s # edit[e].on => Same(schedule'[s], schedule[s]) /\ UNCHANGED cronjob[s],
         s = edit[e].on /\ s \notin apart' =>
           IF new.on = s THEN Midway(new, schedule'[s], cronjob'[s])
           ELSE Mirrors(cronjob'[s], schedule'[s])
  PROVE  ScheduleOK(s)'
<1> SUFFICES ASSUME s \notin apart'
             PROVE  /\ \A f \in Editors : edit'[f].on = s =>
                                            Midway(edit'[f], schedule'[s], cronjob'[s])
                    /\ ~InFlight(s)' => Mirrors(cronjob'[s], schedule'[s])
  BY DEF ScheduleOK
<1>1. /\ edit'[e] = new /\ s \notin apart
      /\ \A f \in Editors : f # e => edit'[f] = edit[f]
      /\ new.on \in {edit[e].on, None} /\ s # None /\ ScheduleOK(s)
  BY MovesRequests, CatalogAssumption DEF Moves, CatalogInv
<1>2. CASE s = edit[e].on
  <2>1. \A f \in Editors : edit[f].on = s => f = e
    BY <1>1, <1>2 DEF CatalogInv, Requests, Alone
  <2>2. \A f \in Editors : edit'[f].on = s => f = e
    BY <1>1, <2>1
  <2>3. QED
    BY <1>1, <1>2, <2>2 DEF InFlight
<1>3. CASE s # edit[e].on
  <2>1. \A f \in Editors : edit'[f].on = s => edit[f].on = s /\ edit'[f] = edit[f]
    BY <1>1, <1>3
  <2>2. InFlight(s) => InFlight(s)'
    BY <1>1, <1>3 DEF InFlight
  <2>3. Same(schedule'[s], schedule[s]) /\ cronjob'[s] = cronjob[s]
    BY <1>3
  <2>4. QED
    BY <1>1, <2>1, <2>2, <2>3, SameIsSame DEF ScheduleOK
<1>4. QED
  BY <1>2, <1>3

LEMMA MovesConfigs ==
  ASSUME CatalogInv, NEW e \in Editors, NEW new, Moves(e, new),
         NEW c \in Configs,
         c # edit[e].on => UNCHANGED <<config[c], yaml[c]>>,
         c = edit[e].on /\ c \notin apart' =>
           IF new.on = c THEN Halfway(new, config'[c], yaml'[c])
           ELSE HasObject(config'[c], yaml'[c])
  PROVE  ConfigOK(c)'
<1> SUFFICES ASSUME c \notin apart'
             PROVE  /\ \A f \in Editors : edit'[f].on = c =>
                                            Halfway(edit'[f], config'[c], yaml'[c])
                    /\ ~InFlight(c)' => HasObject(config'[c], yaml'[c])
  BY DEF ConfigOK
<1>1. /\ edit'[e] = new /\ c \notin apart
      /\ \A f \in Editors : f # e => edit'[f] = edit[f]
      /\ new.on \in {edit[e].on, None} /\ c # None /\ ConfigOK(c)
  BY MovesRequests, CatalogAssumption DEF Moves, CatalogInv
<1>2. CASE c = edit[e].on
  <2>1. \A f \in Editors : edit[f].on = c => f = e
    BY <1>1, <1>2 DEF CatalogInv, Requests, Alone
  <2>2. \A f \in Editors : edit'[f].on = c => f = e
    BY <1>1, <2>1
  <2>3. QED
    BY <1>1, <1>2, <2>2 DEF InFlight
<1>3. CASE c # edit[e].on
  <2>1. \A f \in Editors : edit'[f].on = c => edit[f].on = c /\ edit'[f] = edit[f]
    BY <1>1, <1>3
  <2>2. InFlight(c) => InFlight(c)'
    BY <1>1, <1>3 DEF InFlight
  <2>3. config'[c] = config[c] /\ yaml'[c] = yaml[c]
    BY <1>3
  <2>4. QED
    BY <1>1, <2>1, <2>2, <2>3 DEF ConfigOK
<1>4. QED
  BY <1>2, <1>3

\* A step of a request on a schedule.
LEMMA ScheduleStep ==
  ASSUME CatalogInv, NEW e \in Editors, NEW new, Moves(e, new),
         NEW s \in Schedules, edit[e].on = s,
         UNCHANGED <<suite, profile, config, yaml>>, Hiccup \/ UNCHANGED hiccups,
         NEW row \in ScheduleRow, schedule' = [schedule EXCEPT ![s] = row],
         NEW cj \in CronJob, cronjob' = [cronjob EXCEPT ![s] = cj],
         row = NoSchedule \/ row.cron \in Crons,
         s \notin apart' =>
           IF new.on = s THEN Midway(new, row, cj) ELSE Mirrors(cj, row)
  PROVE  CatalogInv'
<1>1. Requests' /\ edit' \in [Editors -> Edit]
  BY MovesRequests
<1>2. CatalogTypeOK'
  BY <1>1, HiccupType DEF CatalogInv, CatalogTypeOK, Moves
<1>3. schedule'[s] = row /\ cronjob'[s] = cj
  BY DEF CatalogInv, CatalogTypeOK
<1>4. \A t \in Schedules \ {s} : schedule'[t] = schedule[t] /\ cronjob'[t] = cronjob[t]
  BY DEF CatalogInv, CatalogTypeOK
<1>5. edit[e].on \in created
  <2>1. edit[e].pc \in SchedulePc
    <3>1. s \notin Configs \cup {None}
      BY CatalogAssumption
    <3>2. /\ EditShape(edit[e], created)
          /\ edit[e].pc \in SchedulePc \cup ConfigPc \cup {"idle", "saveSuite", "saveProfile"}
      BY DEF CatalogInv, Requests, CatalogTypeOK, Edit, SchedulePc, SavePc, ConfigPc
    <3>3. QED
      BY <3>1, <3>2 DEF EditShape
  <2>2. QED
    BY <2>1 DEF CatalogInv, Requests, EditShape
<1>6. ASSUME NEW t \in Schedules PROVE RowOK(t)' /\ ScheduleOK(t)'
  <2>1. RowOK(t)'
    BY <1>3, <1>4, <1>5 DEF RowOK, CatalogInv, Moves
  <2>2. ScheduleOK(t)'
    BY <1>3, <1>4, MovesSchedules DEF Same
  <2>3. QED
    BY <2>1, <2>2
<1>7. ASSUME NEW c \in Configs PROVE ConfigOK(c)'
  <2>1. c # edit[e].on
    BY CatalogAssumption
  <2>2. QED
    BY <2>1, MovesConfigs
<1>8. QED
  BY <1>1, <1>2, <1>6, <1>7 DEF CatalogInv

\* A step that writes the row, and one that writes the CronJob.
LEMMA RowStep ==
  ASSUME CatalogInv, NEW e \in Editors, NEW new, Moves(e, new),
         NEW s \in Schedules, edit[e].on = s,
         UNCHANGED <<suite, profile, config, yaml, cronjob>>,
         Hiccup \/ UNCHANGED hiccups,
         NEW row \in ScheduleRow, schedule' = [schedule EXCEPT ![s] = row],
         row = NoSchedule \/ row.cron \in Crons,
         s \notin apart' => IF new.on = s THEN Midway(new, row, cronjob[s])
                            ELSE Mirrors(cronjob[s], row)
  PROVE  CatalogInv'
<1>1. PICK cj \in CronJob : cj = cronjob[s]
  BY DEF CatalogInv, CatalogTypeOK
<1>2. cronjob' = [cronjob EXCEPT ![s] = cj]
  BY <1>1 DEF CatalogInv, CatalogTypeOK
<1>3. UNCHANGED <<suite, profile, config, yaml>>
  OBVIOUS
<1>4. s \notin apart' => IF new.on = s THEN Midway(new, row, cj)
                         ELSE Mirrors(cj, row)
  BY <1>1
<1>5. /\ schedule' = [schedule EXCEPT ![s] = row]
      /\ row = NoSchedule \/ row.cron \in Crons
      /\ Hiccup \/ UNCHANGED hiccups
      /\ edit[e].on = s /\ Moves(e, new)
  OBVIOUS
<1>6. QED
  BY ONLY CatalogInv, <1>2, <1>3, <1>4, <1>5, ScheduleStep

LEMMA CronJobStep ==
  ASSUME CatalogInv, NEW e \in Editors, NEW new, Moves(e, new),
         NEW s \in Schedules, edit[e].on = s,
         UNCHANGED <<suite, profile, config, yaml, schedule>>,
         Hiccup \/ UNCHANGED hiccups,
         NEW cj \in CronJob, cronjob' = [cronjob EXCEPT ![s] = cj],
         s \notin apart' => IF new.on = s THEN Midway(new, schedule[s], cj)
                            ELSE Mirrors(cj, schedule[s])
  PROVE  CatalogInv'
<1>1. schedule[s] \in ScheduleRow /\ schedule' = [schedule EXCEPT ![s] = schedule[s]]
  BY DEF CatalogInv, CatalogTypeOK
<1>2. schedule[s] = NoSchedule \/ schedule[s].cron \in Crons
  BY DEF CatalogInv, RowOK
<1>3. QED
  BY <1>1, <1>2, ScheduleStep

\* Neither half changes; the request moves on.
LEMMA StayStep ==
  ASSUME CatalogInv, NEW e \in Editors, NEW new, Moves(e, new),
         NEW s \in Schedules, edit[e].on = s,
         UNCHANGED <<suite, profile, config, yaml, schedule, cronjob>>,
         Hiccup \/ UNCHANGED hiccups,
         s \notin apart' => IF new.on = s THEN Midway(new, schedule[s], cronjob[s])
                            ELSE Mirrors(cronjob[s], schedule[s])
  PROVE  CatalogInv'
<1>1. PICK cj \in CronJob : cj = cronjob[s]
  BY DEF CatalogInv, CatalogTypeOK
<1>2. cronjob' = [cronjob EXCEPT ![s] = cj]
  BY <1>1 DEF CatalogInv, CatalogTypeOK
<1>3. /\ UNCHANGED <<suite, profile, config, yaml, schedule>>
      /\ Hiccup \/ UNCHANGED hiccups
      /\ edit[e].on = s /\ Moves(e, new)
  OBVIOUS
<1>4. s \notin apart' => IF new.on = s THEN Midway(new, schedule[s], cj)
                         ELSE Mirrors(cj, schedule[s])
  BY <1>1
<1>5. QED
  BY ONLY CatalogInv, <1>2, <1>3, <1>4, CronJobStep

LEMMA FinishMoves ==
  ASSUME CatalogInv, NEW e \in Editors, Finish(e), created' = created,
         apart' = apart \/ SetsApart(e), edit[e].on \in Schedules \cup Configs \cup {None},
         edit[e].on = None => apart' = apart
  PROVE  Moves(e, Resting) /\ Resting.on = None
<1>1. Resting.on = None /\ Resting.pc = "idle"
  BY DEF Resting
<1>2. EditShape(Resting, created)
  BY <1>1 DEF EditShape, SchedulePc, SavePc, ConfigPc
<1>3. QED
  BY <1>1, <1>2, Defaults DEF Moves, Finish, SetsApart, CatalogInv, CatalogTypeOK

\* The pc that follows, for a request on the same thing.
Next(ed, pc) == [ed EXCEPT !.pc = pc]

LEMMA ThenMoves ==
  ASSUME CatalogInv, NEW e \in Editors, NEW pc \in SchedulePc \cup ConfigPc,
         Then(e, pc), created' = created, apart' = apart \/ SetsApart(e),
         edit[e].pc \in SchedulePc \cup ConfigPc,
         edit[e].pc \in SchedulePc <=> pc \in SchedulePc,
         pc \in SavePc => edit[e].pc \in SavePc
  PROVE  /\ Moves(e, Next(edit[e], pc))
         /\ Next(edit[e], pc).on = edit[e].on /\ Next(edit[e], pc).pc = pc
         /\ Next(edit[e], pc).row = edit[e].row
         /\ Next(edit[e], pc).file = edit[e].file
<1> DEFINE new == Next(edit[e], pc)
<1>1. edit[e] \in Edit /\ EditShape(edit[e], created)
  BY DEF CatalogInv, CatalogTypeOK, Requests
<1>2. /\ new \in Edit /\ new.on = edit[e].on /\ new.pc = pc
      /\ new.row = edit[e].row /\ new.file = edit[e].file
  BY <1>1 DEF Edit, Next, SchedulePc, SavePc, ConfigPc
<1>3. pc \in ConfigPc => edit[e].pc \in ConfigPc
  BY DEF SchedulePc, SavePc, ConfigPc
<1>4. pc \notin {"idle", "saveSuite", "saveProfile"}
  BY DEF SchedulePc, SavePc, ConfigPc
<1>5. EditShape(new, created)
  BY <1>1, <1>2, <1>3, <1>4 DEF EditShape
<1>6. edit[e].on \in Schedules \cup Configs
  BY <1>1 DEF EditShape
<1>7. edit' = [edit EXCEPT ![e] = new]
  BY DEF Then, Next
<1>8. apart \subseteq apart' /\ apart' \subseteq Schedules \cup Configs
  BY <1>6 DEF SetsApart, CatalogInv, CatalogTypeOK
<1> HIDE DEF new
<1>9. Moves(e, new)
  BY <1>2, <1>5, <1>7, <1>8 DEF Moves
<1>10. QED
  BY <1>2, <1>9 DEF new

-----------------------------------------------------------------------------
(* Schedules                                                               *)

\* What is known when request e takes its step on schedule s.
LEMMA OnSchedule ==
  ASSUME CatalogInv, NEW e \in Editors, edit[e].pc \in SchedulePc
  PROVE  /\ edit[e] \in Edit /\ edit[e].on \in Schedules
         /\ edit[e].row \in ScheduleRow
         /\ edit[e].pc \in SavePc => edit[e].row.cron \in Crons
         /\ schedule[edit[e].on] \in ScheduleRow /\ cronjob[edit[e].on] \in CronJob
         /\ RowOK(edit[e].on)
         /\ edit[e].on \notin apart =>
              Midway(edit[e], schedule[edit[e].on], cronjob[edit[e].on])
         /\ schedule = [schedule EXCEPT ![edit[e].on] = schedule[edit[e].on]]
         /\ cronjob = [cronjob EXCEPT ![edit[e].on] = cronjob[edit[e].on]]
<1>1. edit[e] \in Edit /\ EditShape(edit[e], created)
  BY DEF CatalogInv, CatalogTypeOK, Requests
<1>2. edit[e].on \in Schedules /\ edit[e].row \in ScheduleRow
  BY <1>1 DEF EditShape, Edit
<1>3. QED
  BY <1>1, <1>2 DEF EditShape, CatalogInv, CatalogTypeOK, ScheduleOK

LEMMA CronJobOfOK ==
  ASSUME NEW row \in ScheduleRow, row.cron \in Crons
  PROVE  /\ CronJobOf(row) \in CronJob /\ row # NoSchedule
         /\ CronJobOf(row) # NoCronJob /\ Mirrors(CronJobOf(row), row)
<1>1. CronJobOf(row) \in CronJob
  BY DEF CronJobOf, CronJob, ScheduleRow
<1>2. row # NoSchedule /\ CronJobOf(row) # NoCronJob
  BY CatalogAssumption DEF NoSchedule, NoCronJob, CronJobOf
<1>3. CronJobOf(row).cron = row.cron /\ CronJobOf(row).suspend = ~row.active
  BY DEF CronJobOf
<1>4. QED
  BY <1>1, <1>2, <1>3 DEF Mirrors

LEMMA NothingMirrors == Mirrors(NoCronJob, NoSchedule)
BY DEF Mirrors

LEMMA SaveScheduleInv ==
  ASSUME CatalogInv, NEW e \in Editors, SaveSchedule(e) PROVE CatalogInv'
<1> DEFINE s == edit[e].on
           new == Next(edit[e], "createCronJob")
<1>1. edit[e].pc = "saveSchedule" /\ edit[e].pc \in SavePc /\ edit[e].pc \in SchedulePc
  BY DEF SaveSchedule, SavePc, SchedulePc
<1>2. /\ s \in Schedules /\ edit[e].row \in ScheduleRow /\ edit[e].row.cron \in Crons
      /\ schedule[s] \in ScheduleRow /\ cronjob[s] \in CronJob
      /\ schedule[s] = NoSchedule \/ schedule[s].cron \in Crons
      /\ schedule = [schedule EXCEPT ![s] = schedule[s]]
      /\ cronjob = [cronjob EXCEPT ![s] = cronjob[s]]
  BY <1>1, OnSchedule DEF RowOK
<1>3. s \notin apart => schedule[s] = NoSchedule /\ cronjob[s] = NoCronJob
  BY <1>1, OnSchedule DEF Midway
<1>4. /\ UNCHANGED <<suite, profile, config, yaml, cronjob, created, apart>>
      /\ Hiccup \/ UNCHANGED hiccups
  BY DEF SaveSchedule
<1>5. CASE schedule' = [schedule EXCEPT ![s] = edit[e].row] /\ Then(e, "createCronJob")
  <2>1. /\ Moves(e, new) /\ new.on = s /\ new.pc = "createCronJob"
        /\ new.row = edit[e].row
    BY <1>1, <1>4, <1>5, ThenMoves DEF SavePc, SchedulePc
  <2>2. s \notin apart' => Midway(new, edit[e].row, cronjob[s])
    BY <1>3, <1>4, <2>1 DEF Midway
  <2>3. /\ s \in Schedules /\ edit[e].on = s /\ Moves(e, new)
        /\ UNCHANGED <<suite, profile, config, yaml, cronjob>>
        /\ Hiccup \/ UNCHANGED hiccups
        /\ edit[e].row \in ScheduleRow /\ schedule' = [schedule EXCEPT ![s] = edit[e].row]
        /\ edit[e].row = NoSchedule \/ edit[e].row.cron \in Crons
        /\ s \notin apart' => IF new.on = s THEN Midway(new, edit[e].row, cronjob[s])
                              ELSE Mirrors(cronjob[s], edit[e].row)
    BY <1>2, <1>4, <1>5, <2>1, <2>2
  <2> HIDE DEF new, s
  <2>4. QED
    BY ONLY CatalogInv, e \in Editors, <2>3, RowStep
<1>6. CASE Finish(e) /\ UNCHANGED schedule
  <2>1. Moves(e, Resting) /\ Resting.on = None /\ s # None
    BY <1>2, <1>4, <1>6, FinishMoves, CatalogAssumption
  <2>2. s \notin apart' => Mirrors(cronjob[s], schedule[s])
    BY <1>3, <1>4, NothingMirrors
  <2>3. /\ s \in Schedules /\ edit[e].on = s /\ Moves(e, Resting)
        /\ UNCHANGED <<suite, profile, config, yaml, schedule, cronjob>>
        /\ Hiccup \/ UNCHANGED hiccups
        /\ s \notin apart' => IF Resting.on = s THEN Midway(Resting, schedule[s], cronjob[s])
                              ELSE Mirrors(cronjob[s], schedule[s])
    BY <1>2, <1>4, <1>6, <2>1, <2>2
  <2> HIDE DEF s
  <2>4. QED
    BY ONLY CatalogInv, e \in Editors, <2>3, StayStep
<1>7. QED
  BY <1>5, <1>6 DEF SaveSchedule

LEMMA CreateCronJobInv ==
  ASSUME CatalogInv, NEW e \in Editors, CreateCronJob(e) PROVE CatalogInv'
<1> DEFINE s == edit[e].on
           row == edit[e].row
           new == Next(edit[e], "rollback")
<1>1. edit[e].pc = "createCronJob" /\ edit[e].pc \in SavePc /\ edit[e].pc \in SchedulePc
  BY DEF CreateCronJob, SavePc, SchedulePc
<1>2. /\ s \in Schedules /\ row \in ScheduleRow /\ row.cron \in Crons
      /\ schedule[s] \in ScheduleRow /\ cronjob[s] \in CronJob
      /\ schedule[s] = NoSchedule \/ schedule[s].cron \in Crons
      /\ schedule = [schedule EXCEPT ![s] = schedule[s]]
      /\ cronjob = [cronjob EXCEPT ![s] = cronjob[s]]
  BY <1>1, OnSchedule DEF RowOK
<1>3. s \notin apart => /\ schedule[s].cron = row.cron
                        /\ schedule[s].active = row.active
                        /\ cronjob[s] = NoCronJob
  BY <1>1, OnSchedule DEF Midway
<1>4. /\ UNCHANGED <<suite, profile, config, yaml, schedule, created, apart>>
      /\ Hiccup \/ UNCHANGED hiccups
  BY DEF CreateCronJob, rowVars
<1>5. CASE cronjob' = [cronjob EXCEPT ![s] = CronJobOf(row)] /\ Finish(e)
  <2>1. Moves(e, Resting) /\ Resting.on = None /\ s # None
    BY <1>2, <1>4, <1>5, FinishMoves, CatalogAssumption
  <2>2. CronJobOf(row) \in CronJob
    BY <1>2, CronJobOfOK
  <2>3. s \notin apart' => Mirrors(CronJobOf(row), schedule[s])
    <3>1. s \notin apart => schedule[s] # NoSchedule
      BY <1>2, <1>3, CatalogAssumption DEF NoSchedule
    <3>2. CronJobOf(row).cron = row.cron /\ CronJobOf(row).suspend = ~row.active
      BY DEF CronJobOf
    <3>3. QED
      BY <1>3, <1>4, <3>1, <3>2 DEF Mirrors
  <2>4. /\ s \in Schedules /\ edit[e].on = s /\ Moves(e, Resting)
        /\ UNCHANGED <<suite, profile, config, yaml, schedule>>
        /\ Hiccup \/ UNCHANGED hiccups
        /\ CronJobOf(row) \in CronJob /\ cronjob' = [cronjob EXCEPT ![s] = CronJobOf(row)]
        /\ s \notin apart' => IF Resting.on = s THEN Midway(Resting, schedule[s], CronJobOf(row))
                              ELSE Mirrors(CronJobOf(row), schedule[s])
    BY <1>2, <1>4, <1>5, <2>1, <2>2, <2>3
  <2> HIDE DEF s, row
  <2>5. QED
    BY ONLY CatalogInv, e \in Editors, <2>4, CronJobStep
<1>6. CASE Then(e, "rollback") /\ UNCHANGED cronjob
  <2>1. Moves(e, new) /\ new.on = s /\ new.pc = "rollback"
    BY <1>1, <1>4, <1>6, ThenMoves DEF SavePc, SchedulePc
  <2>2. s \notin apart' => Midway(new, schedule[s], cronjob[s])
    BY <1>3, <1>4, <2>1 DEF Midway
  <2>3. /\ s \in Schedules /\ edit[e].on = s /\ Moves(e, new)
        /\ UNCHANGED <<suite, profile, config, yaml, schedule, cronjob>>
        /\ Hiccup \/ UNCHANGED hiccups
        /\ s \notin apart' => IF new.on = s THEN Midway(new, schedule[s], cronjob[s])
                              ELSE Mirrors(cronjob[s], schedule[s])
    BY <1>2, <1>4, <1>6, <2>1, <2>2
  <2> HIDE DEF new, s
  <2>4. QED
    BY ONLY CatalogInv, e \in Editors, <2>3, StayStep
<1>7. QED
  BY <1>5, <1>6 DEF CreateCronJob

\* Rollback and DeleteScheduleRow: the row goes, the CronJob is gone already.
LEMMA DropRowInv ==
  ASSUME CatalogInv, NEW e \in Editors, Rollback(e) \/ DeleteScheduleRow(e)
  PROVE  CatalogInv'
<1> DEFINE s == edit[e].on
<1>1. edit[e].pc \in {"rollback", "deleteSchedule"} /\ edit[e].pc \in SchedulePc
  BY DEF Rollback, DeleteScheduleRow, SchedulePc
<1>2. /\ s \in Schedules
      /\ schedule[s] \in ScheduleRow /\ cronjob[s] \in CronJob
      /\ schedule[s] = NoSchedule \/ schedule[s].cron \in Crons
      /\ schedule = [schedule EXCEPT ![s] = schedule[s]]
      /\ cronjob = [cronjob EXCEPT ![s] = cronjob[s]]
  BY <1>1, OnSchedule DEF RowOK
<1>3. s \notin apart => cronjob[s] = NoCronJob
  BY <1>1, OnSchedule DEF Midway
<1>4. /\ UNCHANGED <<suite, profile, config, yaml, cronjob, created>>
      /\ Hiccup \/ UNCHANGED hiccups
      /\ Finish(e)
      /\ \/ schedule' = [schedule EXCEPT ![s] = NoSchedule] /\ UNCHANGED apart
         \/ SetsApart(e) /\ UNCHANGED schedule
  BY DEF Rollback, DeleteScheduleRow
<1>5. Moves(e, Resting) /\ Resting.on = None /\ s # None
  BY <1>2, <1>4, FinishMoves, CatalogAssumption
<1>6. CASE schedule' = [schedule EXCEPT ![s] = NoSchedule] /\ UNCHANGED apart
  <2>1. s \notin apart' => Mirrors(cronjob[s], NoSchedule)
    BY <1>3, <1>6, NothingMirrors
  <2>2. /\ s \in Schedules /\ edit[e].on = s /\ Moves(e, Resting)
        /\ UNCHANGED <<suite, profile, config, yaml, cronjob>>
        /\ Hiccup \/ UNCHANGED hiccups
        /\ NoSchedule \in ScheduleRow /\ schedule' = [schedule EXCEPT ![s] = NoSchedule]
        /\ NoSchedule = NoSchedule \/ NoSchedule.cron \in Crons
        /\ s \notin apart' => IF Resting.on = s THEN Midway(Resting, NoSchedule, cronjob[s])
                              ELSE Mirrors(cronjob[s], NoSchedule)
    BY <1>2, <1>4, <1>5, <1>6, <2>1, Defaults
  <2> HIDE DEF s
  <2>3. QED
    BY ONLY CatalogInv, e \in Editors, <2>2, RowStep
<1>7. CASE SetsApart(e) /\ UNCHANGED schedule
  <2>1. s \in apart'
    BY <1>7 DEF SetsApart
  <2>2. /\ s \in Schedules /\ edit[e].on = s /\ Moves(e, Resting)
        /\ UNCHANGED <<suite, profile, config, yaml, schedule, cronjob>>
        /\ Hiccup \/ UNCHANGED hiccups
        /\ s \notin apart' => IF Resting.on = s THEN Midway(Resting, schedule[s], cronjob[s])
                              ELSE Mirrors(cronjob[s], schedule[s])
    BY <1>2, <1>4, <1>5, <1>7, <2>1
  <2> HIDE DEF s
  <2>3. QED
    BY ONLY CatalogInv, e \in Editors, <2>2, StayStep
<1>8. QED
  BY <1>4, <1>6, <1>7

LEMMA UpdateCronJobInv ==
  ASSUME CatalogInv, NEW e \in Editors, UpdateCronJob(e) PROVE CatalogInv'
<1> DEFINE s == edit[e].on
           row == edit[e].row
           new == Next(edit[e], "resaveSchedule")
<1>1. edit[e].pc = "updateCronJob" /\ edit[e].pc \in SavePc /\ edit[e].pc \in SchedulePc
  BY DEF UpdateCronJob, SavePc, SchedulePc
<1>2. /\ s \in Schedules /\ row \in ScheduleRow /\ row.cron \in Crons
      /\ schedule[s] \in ScheduleRow /\ cronjob[s] \in CronJob
      /\ schedule[s] = NoSchedule \/ schedule[s].cron \in Crons
      /\ schedule = [schedule EXCEPT ![s] = schedule[s]]
      /\ cronjob = [cronjob EXCEPT ![s] = cronjob[s]]
  BY <1>1, OnSchedule DEF RowOK
<1>3. s \notin apart => Mirrors(cronjob[s], schedule[s])
  BY <1>1, OnSchedule DEF Midway
<1>4. /\ UNCHANGED <<suite, profile, config, yaml, schedule, created, apart>>
      /\ Hiccup \/ UNCHANGED hiccups
  BY DEF UpdateCronJob, rowVars
<1>5. CASE cronjob' = [cronjob EXCEPT ![s] = CronJobOf(row)] /\ Then(e, "resaveSchedule")
  <2>1. Moves(e, new) /\ new.on = s /\ new.pc = "resaveSchedule" /\ new.row = row
    BY <1>1, <1>4, <1>5, ThenMoves DEF SavePc, SchedulePc
  <2>2. CronJobOf(row) \in CronJob
    BY <1>2, CronJobOfOK
  <2>3. Midway(new, schedule[s], CronJobOf(row))
    BY <2>1 DEF Midway
  <2>4. /\ s \in Schedules /\ edit[e].on = s /\ Moves(e, new)
        /\ UNCHANGED <<suite, profile, config, yaml, schedule>>
        /\ Hiccup \/ UNCHANGED hiccups
        /\ CronJobOf(row) \in CronJob /\ cronjob' = [cronjob EXCEPT ![s] = CronJobOf(row)]
        /\ s \notin apart' => IF new.on = s THEN Midway(new, schedule[s], CronJobOf(row))
                              ELSE Mirrors(CronJobOf(row), schedule[s])
    BY <1>2, <1>4, <1>5, <2>1, <2>2, <2>3
  <2> HIDE DEF new, s, row
  <2>5. QED
    BY ONLY CatalogInv, e \in Editors, <2>4, CronJobStep
<1>6. CASE Finish(e) /\ UNCHANGED cronjob
  <2>1. Moves(e, Resting) /\ Resting.on = None /\ s # None
    BY <1>2, <1>4, <1>6, FinishMoves, CatalogAssumption
  <2>2. /\ s \in Schedules /\ edit[e].on = s /\ Moves(e, Resting)
        /\ UNCHANGED <<suite, profile, config, yaml, schedule, cronjob>>
        /\ Hiccup \/ UNCHANGED hiccups
        /\ s \notin apart' => IF Resting.on = s THEN Midway(Resting, schedule[s], cronjob[s])
                              ELSE Mirrors(cronjob[s], schedule[s])
    BY <1>2, <1>3, <1>4, <1>6, <2>1
  <2> HIDE DEF s
  <2>3. QED
    BY ONLY CatalogInv, e \in Editors, <2>2, StayStep
<1>7. QED
  BY <1>5, <1>6 DEF UpdateCronJob

LEMMA ResaveScheduleInv ==
  ASSUME CatalogInv, NEW e \in Editors, ResaveSchedule(e) PROVE CatalogInv'
<1> DEFINE s == edit[e].on
           row == edit[e].row
<1>1. edit[e].pc = "resaveSchedule" /\ edit[e].pc \in SavePc /\ edit[e].pc \in SchedulePc
  BY DEF ResaveSchedule, SavePc, SchedulePc
<1>2. /\ s \in Schedules /\ row \in ScheduleRow /\ row.cron \in Crons
      /\ schedule[s] \in ScheduleRow /\ cronjob[s] \in CronJob
      /\ schedule[s] = NoSchedule \/ schedule[s].cron \in Crons
      /\ schedule = [schedule EXCEPT ![s] = schedule[s]]
      /\ cronjob = [cronjob EXCEPT ![s] = cronjob[s]]
  BY <1>1, OnSchedule DEF RowOK
<1>3. s \notin apart => cronjob[s] = CronJobOf(row)
  BY <1>1, OnSchedule DEF Midway
<1>4. /\ UNCHANGED <<suite, profile, config, yaml, cronjob, created>>
      /\ Hiccup \/ UNCHANGED hiccups
      /\ Finish(e)
      /\ \/ schedule' = [schedule EXCEPT ![s] = row] /\ UNCHANGED apart
         \/ SetsApart(e) /\ UNCHANGED schedule
  BY DEF ResaveSchedule
<1>5. Moves(e, Resting) /\ Resting.on = None /\ s # None
  BY <1>2, <1>4, FinishMoves, CatalogAssumption
<1>6. CASE schedule' = [schedule EXCEPT ![s] = row] /\ UNCHANGED apart
  <2>1. s \notin apart' => Mirrors(cronjob[s], row)
    BY <1>2, <1>3, <1>6, CronJobOfOK
  <2>2. /\ s \in Schedules /\ edit[e].on = s /\ Moves(e, Resting)
        /\ UNCHANGED <<suite, profile, config, yaml, cronjob>>
        /\ Hiccup \/ UNCHANGED hiccups
        /\ row \in ScheduleRow /\ schedule' = [schedule EXCEPT ![s] = row]
        /\ row = NoSchedule \/ row.cron \in Crons
        /\ s \notin apart' => IF Resting.on = s THEN Midway(Resting, row, cronjob[s])
                              ELSE Mirrors(cronjob[s], row)
    BY <1>2, <1>4, <1>5, <1>6, <2>1
  <2> HIDE DEF s, row
  <2>3. QED
    BY ONLY CatalogInv, e \in Editors, <2>2, RowStep
<1>7. CASE SetsApart(e) /\ UNCHANGED schedule
  <2>1. s \in apart'
    BY <1>7 DEF SetsApart
  <2>2. /\ s \in Schedules /\ edit[e].on = s /\ Moves(e, Resting)
        /\ UNCHANGED <<suite, profile, config, yaml, schedule, cronjob>>
        /\ Hiccup \/ UNCHANGED hiccups
        /\ s \notin apart' => IF Resting.on = s THEN Midway(Resting, schedule[s], cronjob[s])
                              ELSE Mirrors(cronjob[s], schedule[s])
    BY <1>2, <1>4, <1>5, <1>7, <2>1
  <2> HIDE DEF s
  <2>3. QED
    BY ONLY CatalogInv, e \in Editors, <2>2, StayStep
<1>8. QED
  BY <1>4, <1>6, <1>7

LEMMA DeleteCronJobInv ==
  ASSUME CatalogInv, NEW e \in Editors, DeleteCronJob(e) PROVE CatalogInv'
<1> DEFINE s == edit[e].on
           new == Next(edit[e], "deleteSchedule")
<1>1. edit[e].pc = "deleteCronJob" /\ edit[e].pc \in SchedulePc
  BY DEF DeleteCronJob, SchedulePc
<1>2. /\ s \in Schedules
      /\ schedule[s] \in ScheduleRow /\ cronjob[s] \in CronJob
      /\ schedule[s] = NoSchedule \/ schedule[s].cron \in Crons
      /\ schedule = [schedule EXCEPT ![s] = schedule[s]]
      /\ cronjob = [cronjob EXCEPT ![s] = cronjob[s]]
  BY <1>1, OnSchedule DEF RowOK
<1>3. /\ UNCHANGED <<suite, profile, config, yaml, schedule, created>>
      /\ Hiccup \/ UNCHANGED hiccups
      /\ Then(e, "deleteSchedule")
      /\ \/ cronjob' = [cronjob EXCEPT ![s] = NoCronJob] /\ UNCHANGED apart
         \/ SetsApart(e) /\ UNCHANGED cronjob
  BY DEF DeleteCronJob, rowVars
<1>4. Moves(e, new) /\ new.on = s /\ new.pc = "deleteSchedule"
  BY <1>1, <1>3, ThenMoves DEF SavePc, SchedulePc
<1>5. CASE cronjob' = [cronjob EXCEPT ![s] = NoCronJob] /\ UNCHANGED apart
  <2>1. Midway(new, schedule[s], NoCronJob)
    BY <1>4 DEF Midway
  <2>2. /\ s \in Schedules /\ edit[e].on = s /\ Moves(e, new)
        /\ UNCHANGED <<suite, profile, config, yaml, schedule>>
        /\ Hiccup \/ UNCHANGED hiccups
        /\ NoCronJob \in CronJob /\ cronjob' = [cronjob EXCEPT ![s] = NoCronJob]
        /\ s \notin apart' => IF new.on = s THEN Midway(new, schedule[s], NoCronJob)
                              ELSE Mirrors(NoCronJob, schedule[s])
    BY <1>2, <1>3, <1>4, <1>5, <2>1, Defaults
  <2> HIDE DEF s, new
  <2>3. QED
    BY ONLY CatalogInv, e \in Editors, <2>2, CronJobStep
<1>6. CASE SetsApart(e) /\ UNCHANGED cronjob
  <2>1. s \in apart'
    BY <1>6 DEF SetsApart
  <2>2. /\ s \in Schedules /\ edit[e].on = s /\ Moves(e, new)
        /\ UNCHANGED <<suite, profile, config, yaml, schedule, cronjob>>
        /\ Hiccup \/ UNCHANGED hiccups
        /\ s \notin apart' => IF new.on = s THEN Midway(new, schedule[s], cronjob[s])
                              ELSE Mirrors(cronjob[s], schedule[s])
    BY <1>2, <1>3, <1>4, <1>6, <2>1
  <2> HIDE DEF s, new
  <2>3. QED
    BY ONLY CatalogInv, e \in Editors, <2>2, StayStep
<1>7. QED
  BY <1>3, <1>5, <1>6

-----------------------------------------------------------------------------
(* Configurations                                                          *)

\* A step of a request on a configuration.
LEMMA ConfigStep ==
  ASSUME CatalogInv, NEW e \in Editors, NEW new, Moves(e, new),
         NEW c \in Configs, edit[e].on = c,
         UNCHANGED <<suite, profile, cronjob>>, Hiccup \/ UNCHANGED hiccups,
         schedule' \in [Schedules -> ScheduleRow],
         \A s \in Schedules : Same(schedule'[s], schedule[s]),
         NEW row \in ConfigRow, config' = [config EXCEPT ![c] = row],
         NEW object \in Contents \cup {None}, yaml' = [yaml EXCEPT ![c] = object],
         c \notin apart' =>
           IF new.on = c THEN Halfway(new, row, object) ELSE HasObject(row, object)
  PROVE  CatalogInv'
<1>1. Requests' /\ edit' \in [Editors -> Edit]
  BY MovesRequests
<1>2. CatalogTypeOK'
  BY <1>1, HiccupType DEF CatalogInv, CatalogTypeOK, Moves
<1>3. config'[c] = row /\ yaml'[c] = object
  BY DEF CatalogInv, CatalogTypeOK
<1>4. \A d \in Configs \ {c} : config'[d] = config[d] /\ yaml'[d] = yaml[d]
  BY DEF CatalogInv, CatalogTypeOK
<1>5. ASSUME NEW s \in Schedules PROVE RowOK(s)' /\ ScheduleOK(s)'
  <2>1. s # edit[e].on
    BY CatalogAssumption
  <2>2. RowOK(s)'
    BY DEF RowOK, CatalogInv, Moves, Same
  <2>3. ScheduleOK(s)'
    BY <2>1, MovesSchedules
  <2>4. QED
    BY <2>2, <2>3
<1>6. ASSUME NEW d \in Configs PROVE ConfigOK(d)'
  BY <1>3, <1>4, MovesConfigs
<1>7. QED
  BY <1>1, <1>2, <1>5, <1>6 DEF CatalogInv

\* The schedules are as they were.
LEMMA SameSchedules ==
  ASSUME CatalogInv, schedule' = schedule
  PROVE  /\ schedule' \in [Schedules -> ScheduleRow]
         /\ \A s \in Schedules : Same(schedule'[s], schedule[s])
BY DEF CatalogInv, CatalogTypeOK, Same

\* The object changes, the rows do not.
LEMMA ObjectStep ==
  ASSUME CatalogInv, NEW e \in Editors, NEW new, Moves(e, new),
         NEW c \in Configs, edit[e].on = c,
         UNCHANGED <<suite, profile, config, schedule, cronjob>>,
         Hiccup \/ UNCHANGED hiccups,
         NEW object \in Contents \cup {None}, yaml' = [yaml EXCEPT ![c] = object],
         c \notin apart' => IF new.on = c THEN Halfway(new, config[c], object)
                            ELSE HasObject(config[c], object)
  PROVE  CatalogInv'
<1>1. PICK row \in ConfigRow : row = config[c]
  BY DEF CatalogInv, CatalogTypeOK
<1>2. config' = [config EXCEPT ![c] = row]
  BY <1>1 DEF CatalogInv, CatalogTypeOK
<1>3. /\ schedule' \in [Schedules -> ScheduleRow]
      /\ \A s \in Schedules : Same(schedule'[s], schedule[s])
  BY SameSchedules
<1>4. /\ UNCHANGED <<suite, profile, cronjob>>
      /\ Hiccup \/ UNCHANGED hiccups
      /\ edit[e].on = c /\ Moves(e, new)
      /\ yaml' = [yaml EXCEPT ![c] = object]
  OBVIOUS
<1>5. c \notin apart' => IF new.on = c THEN Halfway(new, row, object)
                         ELSE HasObject(row, object)
  BY <1>1
<1>6. QED
  BY ONLY CatalogInv, <1>2, <1>3, <1>4, <1>5, ConfigStep

\* Neither half changes; the request ends.
LEMMA ConfigStayStep ==
  ASSUME CatalogInv, NEW e \in Editors, Moves(e, Resting),
         NEW c \in Configs, edit[e].on = c,
         UNCHANGED <<suite, profile, config, schedule, yaml, cronjob>>,
         Hiccup \/ UNCHANGED hiccups,
         c \notin apart' => HasObject(config[c], yaml[c])
  PROVE  CatalogInv'
<1>1. PICK object \in Contents \cup {None} : object = yaml[c]
  BY DEF CatalogInv, CatalogTypeOK
<1>2. yaml' = [yaml EXCEPT ![c] = object]
  BY <1>1 DEF CatalogInv, CatalogTypeOK
<1>3. Resting.on # c
  BY CatalogAssumption DEF Resting
<1>4. /\ UNCHANGED <<suite, profile, config, schedule, cronjob>>
      /\ Hiccup \/ UNCHANGED hiccups
      /\ edit[e].on = c /\ Moves(e, Resting)
  OBVIOUS
<1>5. c \notin apart' => IF Resting.on = c THEN Halfway(Resting, config[c], object)
                         ELSE HasObject(config[c], object)
  BY <1>1, <1>3
<1>6. QED
  BY ONLY CatalogInv, <1>2, <1>4, <1>5, ObjectStep

\* What is known when request e takes its step on configuration c.
LEMMA OnConfig ==
  ASSUME CatalogInv, NEW e \in Editors, edit[e].pc \in ConfigPc
  PROVE  /\ edit[e].on \in Configs /\ edit[e].file \in ConfigRow
         /\ config[edit[e].on] \in ConfigRow
         /\ yaml[edit[e].on] \in Contents \cup {None}
         /\ edit[e].on \notin apart =>
              Halfway(edit[e], config[edit[e].on], yaml[edit[e].on])
         /\ config = [config EXCEPT ![edit[e].on] = config[edit[e].on]]
         /\ yaml = [yaml EXCEPT ![edit[e].on] = yaml[edit[e].on]]
<1>1. edit[e] \in Edit /\ EditShape(edit[e], created)
  BY DEF CatalogInv, CatalogTypeOK, Requests
<1>2. edit[e].on \in Configs /\ edit[e].file \in ConfigRow
  BY <1>1 DEF EditShape, Edit
<1>3. QED
  BY <1>1, <1>2 DEF CatalogInv, CatalogTypeOK, ConfigOK

LEMMA UploadConfigInv ==
  ASSUME CatalogInv, NEW e \in Editors, UploadConfig(e) PROVE CatalogInv'
<1> DEFINE c == edit[e].on
           object == edit[e].file.content
           new == Next(edit[e], "saveConfig")
<1>1. edit[e].pc = "upload" /\ edit[e].pc \in ConfigPc
  BY DEF UploadConfig, ConfigPc
<1>2. /\ c \in Configs /\ config[c] \in ConfigRow /\ object \in Contents \cup {None}
      /\ yaml[c] \in Contents \cup {None}
      /\ config = [config EXCEPT ![c] = config[c]]
      /\ yaml = [yaml EXCEPT ![c] = yaml[c]]
  BY <1>1, OnConfig DEF ConfigRow
<1>3. c \notin apart => HasObject(config[c], yaml[c])
  BY <1>1, OnConfig DEF Halfway
<1>4. /\ UNCHANGED <<suite, profile, config, schedule, cronjob, created, apart>>
      /\ Hiccup \/ UNCHANGED hiccups
  BY DEF UploadConfig, rowVars
<1>5. /\ schedule' \in [Schedules -> ScheduleRow]
      /\ \A s \in Schedules : Same(schedule'[s], schedule[s])
  BY <1>4, SameSchedules
<1>6. CASE yaml' = [yaml EXCEPT ![c] = object] /\ Then(e, "saveConfig")
  <2>1. /\ Moves(e, new) /\ new.on = c /\ new.pc = "saveConfig"
        /\ new.file = edit[e].file
    BY <1>1, <1>4, <1>6, ThenMoves DEF SchedulePc, SavePc, ConfigPc
  <2>2. Halfway(new, config[c], object)
    BY <2>1 DEF Halfway
  <2>3. /\ c \in Configs /\ edit[e].on = c /\ Moves(e, new) /\ new.on = c
        /\ UNCHANGED <<suite, profile, config, schedule, cronjob>>
        /\ Hiccup \/ UNCHANGED hiccups
        /\ object \in Contents \cup {None} /\ yaml' = [yaml EXCEPT ![c] = object]
    BY <1>2, <1>4, <1>6, <2>1
  <2> HIDE DEF new, c, object
  <2>4. QED
    BY ONLY CatalogInv, e \in Editors, <2>2, <2>3, ObjectStep
<1>7. CASE Finish(e) /\ UNCHANGED yaml
  <2>1. Moves(e, Resting) /\ Resting.on = None /\ c # None
    BY <1>2, <1>4, <1>7, FinishMoves, CatalogAssumption
  <2>2. /\ c \in Configs /\ edit[e].on = c /\ Moves(e, Resting)
        /\ UNCHANGED <<suite, profile, config, schedule, yaml, cronjob>>
        /\ Hiccup \/ UNCHANGED hiccups
        /\ c \notin apart' => HasObject(config[c], yaml[c])
    BY <1>2, <1>3, <1>4, <1>7, <2>1
  <2> HIDE DEF c
  <2>3. QED
    BY ONLY CatalogInv, e \in Editors, <2>2, ConfigStayStep
<1>8. QED
  BY <1>6, <1>7 DEF UploadConfig

LEMMA SaveConfigInv ==
  ASSUME CatalogInv, NEW e \in Editors, SaveConfig(e) PROVE CatalogInv'
<1> DEFINE c == edit[e].on
           file == edit[e].file
<1>1. edit[e].pc = "saveConfig" /\ edit[e].pc \in ConfigPc
  BY DEF SaveConfig, ConfigPc
<1>2. /\ c \in Configs /\ config[c] \in ConfigRow /\ file \in ConfigRow
      /\ yaml[c] \in Contents \cup {None}
      /\ config = [config EXCEPT ![c] = config[c]]
      /\ yaml = [yaml EXCEPT ![c] = yaml[c]]
  BY <1>1, OnConfig
<1>3. c \notin apart => yaml[c] = file.content
  BY <1>1, OnConfig DEF Halfway
<1>4. /\ UNCHANGED <<suite, profile, yaml, schedule, cronjob, created>>
      /\ Hiccup \/ UNCHANGED hiccups
      /\ Finish(e)
      /\ \/ config' = [config EXCEPT ![c] = file] /\ UNCHANGED apart
         \/ SetsApart(e) /\ UNCHANGED config
  BY DEF SaveConfig
<1>5. /\ schedule' \in [Schedules -> ScheduleRow]
      /\ \A s \in Schedules : Same(schedule'[s], schedule[s])
  BY <1>4, SameSchedules
<1>6. /\ Moves(e, Resting) /\ Resting.on = None /\ c # None
      /\ edit[e].on = c /\ yaml' = [yaml EXCEPT ![c] = yaml[c]]
  BY <1>2, <1>4, FinishMoves, CatalogAssumption
<1>7. CASE config' = [config EXCEPT ![c] = file] /\ UNCHANGED apart
  <2>1. PICK object \in Contents \cup {None} : object = yaml[c]
    BY <1>2
  <2>2. c \notin apart' => IF Resting.on = c THEN Halfway(Resting, file, object)
                           ELSE HasObject(file, object)
    BY <1>3, <1>6, <1>7, <2>1 DEF HasObject
  <2>3. /\ edit[e].on = c /\ c \in Configs /\ file \in ConfigRow /\ Moves(e, Resting)
        /\ UNCHANGED <<suite, profile, cronjob>>
        /\ Hiccup \/ UNCHANGED hiccups
        /\ config' = [config EXCEPT ![c] = file]
        /\ yaml' = [yaml EXCEPT ![c] = object]
    BY <1>2, <1>4, <1>6, <1>7, <2>1
  <2> HIDE DEF c, file
  <2>4. QED
    BY ONLY CatalogInv, e \in Editors, <1>5, <2>1, <2>2, <2>3, ConfigStep
<1>8. CASE SetsApart(e) /\ UNCHANGED config
  <2>1. /\ c \in Configs /\ edit[e].on = c /\ Moves(e, Resting)
        /\ UNCHANGED <<suite, profile, config, schedule, yaml, cronjob>>
        /\ Hiccup \/ UNCHANGED hiccups
        /\ c \notin apart' => HasObject(config[c], yaml[c])
    BY <1>2, <1>4, <1>6, <1>8 DEF SetsApart
  <2> HIDE DEF c
  <2>2. QED
    BY ONLY CatalogInv, e \in Editors, <2>1, ConfigStayStep
<1>9. QED
  BY <1>4, <1>7, <1>8

LEMMA EraseObjectInv ==
  ASSUME CatalogInv, NEW e \in Editors, EraseObject(e) PROVE CatalogInv'
<1> DEFINE c == edit[e].on
           new == Next(edit[e], "deleteConfig")
<1>1. edit[e].pc = "erase" /\ edit[e].pc \in ConfigPc
  BY DEF EraseObject, ConfigPc
<1>2. /\ c \in Configs /\ config[c] \in ConfigRow
      /\ yaml[c] \in Contents \cup {None}
      /\ config = [config EXCEPT ![c] = config[c]]
      /\ yaml = [yaml EXCEPT ![c] = yaml[c]]
  BY <1>1, OnConfig
<1>3. /\ UNCHANGED <<suite, profile, config, schedule, cronjob, created, apart>>
      /\ Hiccup \/ UNCHANGED hiccups
      /\ Then(e, "deleteConfig")
      /\ yaml' = [yaml EXCEPT ![c] = None] \/ UNCHANGED yaml
  BY DEF EraseObject, rowVars
<1>4. /\ schedule' \in [Schedules -> ScheduleRow]
      /\ \A s \in Schedules : Same(schedule'[s], schedule[s])
  BY <1>3, SameSchedules
<1>5. /\ Moves(e, new) /\ new.on = c /\ new.pc = "deleteConfig"
  BY <1>1, <1>3, ThenMoves DEF SchedulePc, SavePc, ConfigPc
<1>6. \A row, object : Halfway(new, row, object)
  BY <1>5 DEF Halfway
<1>7. PICK object \in Contents \cup {None} : yaml' = [yaml EXCEPT ![c] = object]
  BY <1>2, <1>3
<1>8. PICK row \in ConfigRow : row = config[c]
  BY <1>2
<1>9. /\ edit[e].on = c /\ c \in Configs /\ Moves(e, new) /\ new.on = c
      /\ UNCHANGED <<suite, profile, cronjob>>
      /\ Hiccup \/ UNCHANGED hiccups
      /\ config' = [config EXCEPT ![c] = row] /\ Halfway(new, row, object)
  BY <1>2, <1>3, <1>5, <1>6, <1>8
<1> HIDE DEF c, new
<1>10. QED
  BY ONLY CatalogInv, e \in Editors, <1>4, <1>7, <1>8, <1>9, ConfigStep

LEMMA DeleteConfigRowInv ==
  ASSUME CatalogInv, NEW e \in Editors, DeleteConfigRow(e) PROVE CatalogInv'
<1> DEFINE c == edit[e].on
<1>1. edit[e].pc = "deleteConfig" /\ edit[e].pc \in ConfigPc
  BY DEF DeleteConfigRow, ConfigPc
<1>2. /\ c \in Configs /\ config[c] \in ConfigRow
      /\ yaml[c] \in Contents \cup {None}
      /\ config = [config EXCEPT ![c] = config[c]]
      /\ yaml = [yaml EXCEPT ![c] = yaml[c]]
  BY <1>1, OnConfig
<1>3. /\ UNCHANGED <<suite, profile, yaml, cronjob, created>>
      /\ Hiccup \/ UNCHANGED hiccups
      /\ Finish(e)
      /\ \/ /\ config' = [config EXCEPT ![c] = NoConfig] /\ Forget({c})
            /\ UNCHANGED apart
         \/ SetsApart(e) /\ UNCHANGED <<config, schedule>>
  BY DEF DeleteConfigRow
<1>4. /\ Moves(e, Resting) /\ Resting.on = None /\ c # None
      /\ edit[e].on = c /\ yaml' = [yaml EXCEPT ![c] = yaml[c]]
  BY <1>2, <1>3, FinishMoves, CatalogAssumption
<1>5. CASE /\ config' = [config EXCEPT ![c] = NoConfig] /\ Forget({c})
           /\ UNCHANGED apart
  <2>1. HasObject(NoConfig, yaml[c])
    BY DEF HasObject
  <2>2. ASSUME NEW s \in Schedules
        PROVE  schedule'[s] \in ScheduleRow /\ Same(schedule'[s], schedule[s])
    <3>1. schedule[s] \in ScheduleRow /\ RowOK(s)
      BY DEF CatalogInv, CatalogTypeOK
    <3>2. CASE schedule[s].config = c
      <4>1. schedule[s] # NoSchedule
        BY <1>2, <3>2, CatalogAssumption DEF NoSchedule
      <4>2. schedule[s].cron \in Crons
        BY <3>1, <4>1 DEF RowOK
      <4>3. schedule'[s] = [schedule[s] EXCEPT !.config = None]
        BY <1>5, <3>2 DEF Forget
      <4>4. /\ schedule'[s] \in ScheduleRow /\ schedule'[s].cron = schedule[s].cron
            /\ schedule'[s].active = schedule[s].active
        BY <3>1, <4>3 DEF ScheduleRow
      <4>5. schedule'[s] # NoSchedule
        BY <4>2, <4>4, CatalogAssumption DEF NoSchedule
      <4>6. QED
        BY <4>1, <4>4, <4>5 DEF Same
    <3>3. CASE schedule[s].config # c
      <4>1. schedule'[s] = schedule[s]
        BY <1>5, <3>3 DEF Forget
      <4>2. QED
        BY <3>1, <4>1 DEF Same
    <3>4. QED
      BY <3>2, <3>3
  <2>3. schedule' \in [Schedules -> ScheduleRow]
    BY <1>5, <2>2 DEF Forget
  <2>4. PICK object \in Contents \cup {None} : object = yaml[c]
    BY <1>2
  <2>5. /\ edit[e].on = c /\ c \in Configs /\ Moves(e, Resting) /\ Resting.on # c
        /\ UNCHANGED <<suite, profile, cronjob>>
        /\ Hiccup \/ UNCHANGED hiccups
        /\ NoConfig \in ConfigRow /\ config' = [config EXCEPT ![c] = NoConfig]
        /\ yaml' = [yaml EXCEPT ![c] = object] /\ HasObject(NoConfig, object)
    BY <1>2, <1>3, <1>4, <1>5, <2>1, <2>4, Defaults
  <2> HIDE DEF c
  <2>6. QED
    BY ONLY CatalogInv, e \in Editors, <2>2, <2>3, <2>4, <2>5, ConfigStep
<1>6. CASE SetsApart(e) /\ UNCHANGED <<config, schedule>>
  <2>1. /\ c \in Configs /\ edit[e].on = c /\ Moves(e, Resting)
        /\ UNCHANGED <<suite, profile, config, schedule, yaml, cronjob>>
        /\ Hiccup \/ UNCHANGED hiccups
        /\ c \notin apart' => HasObject(config[c], yaml[c])
    BY <1>2, <1>3, <1>4, <1>6 DEF SetsApart
  <2> HIDE DEF c
  <2>2. QED
    BY ONLY CatalogInv, e \in Editors, <2>1, ConfigStayStep
<1>7. QED
  BY <1>3, <1>5, <1>6
-----------------------------------------------------------------------------
(* A request begins                                                        *)

\* Every request at rest works on nothing.
LEMMA IdleIsOff ==
  ASSUME CatalogInv, NEW e \in Editors,
         edit[e].pc \in {"idle", "saveSuite", "saveProfile"}
  PROVE  edit[e].on = None
BY DEF CatalogInv, Requests, EditShape

LEMMA BeginStep ==
  ASSUME CatalogInv, NEW e \in Editors, NEW pc \in SchedulePc \cup ConfigPc,
         NEW x \in Schedules \cup Configs, NEW row \in ScheduleRow,
         NEW file \in ConfigRow, Begin(e, pc, x, row, file),
         UNCHANGED <<suite, profile, config, schedule, yaml, cronjob, hiccups>>,
         created \subseteq created', created' \subseteq Schedules \cup Configs,
         pc \in SchedulePc => x \in Schedules /\ x \in created',
         pc \in SavePc => row.cron \in Crons,
         pc \in ConfigPc => x \in Configs,
         x \in Schedules /\ Quiet(x) =>
           \A ed : ed.pc = pc => Midway(ed, schedule[x], cronjob[x]),
         x \in Configs /\ Quiet(x) =>
           \A ed : ed.pc = pc => Halfway(ed, config[x], yaml[x])
  PROVE  CatalogInv'
<1> DEFINE new == [Resting EXCEPT !.pc = pc, !.on = x, !.row = row, !.file = file]
<1>1. /\ edit' = [edit EXCEPT ![e] = new] /\ edit[e].on = None
      /\ new.pc = pc /\ new.on = x /\ new.row = row
  <2>1. edit' = [edit EXCEPT ![e] = new] /\ edit[e].on = None
    BY IdleIsOff DEF Begin
  <2>2. new.pc = pc /\ new.on = x /\ new.row = row
    BY DEF Resting
  <2>3. QED
    BY <2>1, <2>2
<1>2. new \in Edit
  BY Defaults DEF Resting, Edit, SchedulePc, SavePc, ConfigPc
<1> HIDE DEF new
<1>3. EditShape(new, created')
  <2>1. pc \notin {"idle", "saveSuite", "saveProfile"}
    BY DEF SchedulePc, SavePc, ConfigPc
  <2>2. QED
    BY <1>1, <2>1 DEF EditShape
<1>4. /\ edit' \in [Editors -> Edit] /\ edit'[e] = new
      /\ \A f \in Editors : f # e => edit'[f] = edit[f]
  BY <1>1, <1>2 DEF CatalogInv, CatalogTypeOK
<1>5. /\ apart \subseteq apart' /\ apart' \subseteq Schedules \cup Configs
      /\ InFlight(x) => x \in apart'
  BY DEF Begin, CatalogInv, CatalogTypeOK
<1>6. CatalogTypeOK'
  BY <1>4, <1>5 DEF CatalogInv, CatalogTypeOK
<1>7. Requests'
  <2>1. \A f \in Editors : EditShape(edit'[f], created')
    BY <1>3, <1>4 DEF CatalogInv, Requests, EditShape
  <2>2. \A f \in Editors : f # e /\ edit[f].on = x => x \in apart'
    BY <1>5 DEF InFlight
  <2>3. Alone'
    BY <1>1, <1>4, <1>5, <2>2 DEF CatalogInv, Requests, Alone
  <2>4. QED
    BY <2>1, <2>3 DEF Requests
<1>8. x # None
  BY CatalogAssumption
<1>9. \A y \in Schedules \cup Configs : y # x =>
        /\ \A f \in Editors : edit'[f].on = y => edit[f].on = y /\ edit'[f] = edit[f]
        /\ InFlight(y) => InFlight(y)'
  BY <1>1, <1>4, CatalogAssumption DEF InFlight
<1>10. x \notin apart' =>
         /\ Quiet(x) /\ InFlight(x)'
         /\ \A f \in Editors : edit'[f].on = x => edit'[f] = new
  BY <1>1, <1>4, <1>5 DEF Quiet, InFlight
<1>11. ASSUME NEW s \in Schedules PROVE RowOK(s)' /\ ScheduleOK(s)'
  <2>1. RowOK(s) /\ ScheduleOK(s)
    BY DEF CatalogInv
  <2>2. RowOK(s)'
    BY <2>1 DEF RowOK
  <2>3. CASE s = x
    BY <1>1, <1>10, <2>2, <2>3 DEF ScheduleOK
  <2>4. CASE s # x
    BY <1>5, <1>9, <2>1, <2>2, <2>4 DEF ScheduleOK
  <2>5. QED
    BY <2>3, <2>4
<1>12. ASSUME NEW c \in Configs PROVE ConfigOK(c)'
  <2>1. ConfigOK(c)
    BY DEF CatalogInv
  <2>2. CASE c = x
    BY <1>1, <1>10, <2>2 DEF ConfigOK
  <2>3. CASE c # x
    BY <1>5, <1>9, <2>1, <2>3 DEF ConfigOK
  <2>4. QED
    BY <2>2, <2>3
<1>13. QED
  BY <1>6, <1>7, <1>11, <1>12 DEF CatalogInv

LEMMA CreateScheduleInv ==
  ASSUME CatalogInv, NEW e \in Editors, NEW s \in Schedules, NEW cron \in Crons,
         NEW c \in Configs \cup {None}, CreateSchedule(e, s, cron, c)
  PROVE  CatalogInv'
<1>1. /\ s \notin created /\ created' = created \cup {s}
      /\ created \subseteq created' /\ created' \subseteq Schedules \cup Configs
      /\ UNCHANGED <<suite, profile, config, schedule, yaml, cronjob, hiccups>>
      /\ Begin(e, "saveSchedule", s, NewSchedule(cron, c), NoConfig)
  BY DEF CreateSchedule, rowVars, CatalogInv, CatalogTypeOK
<1>2. NewSchedule(cron, c) \in ScheduleRow /\ NewSchedule(cron, c).cron \in Crons
  BY DEF NewSchedule, ScheduleRow
<1>3. \A ed : ed.pc = "saveSchedule" => Midway(ed, schedule[s], cronjob[s])
  BY <1>1 DEF CatalogInv, RowOK, Midway
<1>4. /\ "saveSchedule" \in SchedulePc /\ "saveSchedule" \notin ConfigPc
      /\ NoConfig \in ConfigRow /\ s \notin Configs /\ s \in created'
  BY <1>1, Defaults, CatalogAssumption DEF SchedulePc, SavePc, ConfigPc
<1>5. QED
  BY <1>1, <1>2, <1>3, <1>4, BeginStep

LEMMA UpdateScheduleInv ==
  ASSUME CatalogInv, NEW e \in Editors, NEW s \in Schedules, NEW cron \in Crons,
         NEW active \in BOOLEAN, UpdateSchedule(e, s, cron, active)
  PROVE  CatalogInv'
<1> DEFINE row == Edited(schedule[s], cron, active)
<1>1. /\ s \in created /\ created' = created /\ created' \subseteq Schedules \cup Configs
      /\ UNCHANGED <<suite, profile, config, schedule, yaml, cronjob, hiccups>>
      /\ Begin(e, "updateCronJob", s, row, NoConfig)
  BY DEF UpdateSchedule, rowVars, CatalogInv, CatalogTypeOK, RowOK
<1>2. row \in ScheduleRow /\ row.cron \in Crons
  <2>1. schedule[s] \in ScheduleRow
    BY DEF CatalogInv, CatalogTypeOK
  <2>2. QED
    BY <2>1 DEF Edited, ScheduleRow
<1>3. Quiet(s) => \A ed : ed.pc = "updateCronJob" => Midway(ed, schedule[s], cronjob[s])
  BY DEF CatalogInv, ScheduleOK, Quiet, Midway
<1>4. /\ "updateCronJob" \in SchedulePc /\ "updateCronJob" \notin ConfigPc
      /\ NoConfig \in ConfigRow /\ s \notin Configs
  BY Defaults, CatalogAssumption DEF SchedulePc, SavePc, ConfigPc
<1> HIDE DEF row
<1>5. QED
  BY <1>1, <1>2, <1>3, <1>4, BeginStep

LEMMA DeleteScheduleInv ==
  ASSUME CatalogInv, NEW e \in Editors, NEW s \in Schedules, DeleteSchedule(e, s)
  PROVE  CatalogInv'
<1>1. /\ s \in created /\ created' = created /\ created' \subseteq Schedules \cup Configs
      /\ UNCHANGED <<suite, profile, config, schedule, yaml, cronjob, hiccups>>
      /\ Begin(e, "deleteCronJob", s, schedule[s], NoConfig)
  BY DEF DeleteSchedule, rowVars, CatalogInv, CatalogTypeOK, RowOK
<1>2. PICK row \in ScheduleRow : row = schedule[s]
  BY DEF CatalogInv, CatalogTypeOK
<1>3. \A ed : ed.pc = "deleteCronJob" => Midway(ed, schedule[s], cronjob[s])
  BY DEF Midway
<1>4. /\ "deleteCronJob" \in SchedulePc /\ "deleteCronJob" \notin ConfigPc
      /\ "deleteCronJob" \notin SavePc
      /\ NoConfig \in ConfigRow /\ s \notin Configs
  BY Defaults, CatalogAssumption DEF SchedulePc, SavePc, ConfigPc
<1>5. Begin(e, "deleteCronJob", s, row, NoConfig)
  BY <1>1, <1>2
<1>6. QED
  BY <1>1, <1>3, <1>4, <1>5, BeginStep

\* CreateConfig and UpdateConfig upload, DeleteConfig erases.
LEMMA ConfigBegins ==
  ASSUME CatalogInv, NEW e \in Editors, NEW c \in Configs, NEW file \in ConfigRow,
         NEW pc \in {"upload", "erase"}, Begin(e, pc, c, NoSchedule, file),
         created' = created \/ created' = created \cup {c},
         UNCHANGED <<suite, profile, config, schedule, yaml, cronjob, hiccups>>
  PROVE  CatalogInv'
<1>1. created \subseteq created' /\ created' \subseteq Schedules \cup Configs
  BY DEF CatalogInv, CatalogTypeOK
<1>2. Quiet(c) => \A ed : ed.pc = pc => Halfway(ed, config[c], yaml[c])
  BY DEF CatalogInv, ConfigOK, Quiet, Halfway
<1>3. /\ pc \in ConfigPc /\ pc \notin SchedulePc /\ pc \notin SavePc
      /\ NoSchedule \in ScheduleRow /\ c \notin Schedules
  BY Defaults, CatalogAssumption DEF SchedulePc, SavePc, ConfigPc
<1>4. QED
  BY <1>1, <1>2, <1>3, BeginStep

LEMMA ConfigEdits ==
  ASSUME CatalogInv, NEW e \in Editors, NEW c \in Configs, NEW file \in ConfigRow,
         \/ CreateConfig(e, c, file)
         \/ UpdateConfig(e, c, file)
         \/ DeleteConfig(e, c)
  PROVE  CatalogInv'
<1>1. CASE CreateConfig(e, c, file)
  BY <1>1, ConfigBegins DEF CreateConfig, rowVars
<1>2. CASE UpdateConfig(e, c, file)
  BY <1>2, ConfigBegins DEF UpdateConfig, rowVars
<1>3. CASE DeleteConfig(e, c)
  <2>1. PICK old \in ConfigRow : old = config[c]
    BY DEF CatalogInv, CatalogTypeOK
  <2>2. /\ Begin(e, "erase", c, NoSchedule, old) /\ created' = created
        /\ UNCHANGED <<suite, profile, config, schedule, yaml, cronjob, hiccups>>
    BY <1>3, <2>1 DEF DeleteConfig, rowVars
  <2>3. QED
    BY <2>2, ConfigBegins
<1>4. QED
  BY <1>1, <1>2, <1>3

-----------------------------------------------------------------------------
(* Suite, profile and restart                                              *)

\* A request on the suite or the profile reads or saves.
LEMMA SuiteStep ==
  ASSUME CatalogInv, NEW e \in Editors, NEW new, Moves(e, new), edit[e].on = None,
         UNCHANGED <<config, schedule, yaml, cronjob, apart>>,
         suite' \in SuiteState \cup {"unborn", "deleted"}, profile' \in RowState,
         Hiccup \/ UNCHANGED hiccups
  PROVE  CatalogInv'
<1>1. Requests' /\ edit' \in [Editors -> Edit]
  BY MovesRequests
<1>2. CatalogTypeOK'
  BY <1>1, HiccupType DEF CatalogInv, CatalogTypeOK, Moves
<1>3. ASSUME NEW s \in Schedules PROVE RowOK(s)' /\ ScheduleOK(s)'
  <2>1. s # edit[e].on
    BY CatalogAssumption
  <2>2. RowOK(s)'
    BY DEF RowOK, CatalogInv, Moves
  <2>3. Same(schedule'[s], schedule[s]) /\ cronjob'[s] = cronjob[s]
    BY DEF Same
  <2>4. ScheduleOK(s)'
    BY <2>1, <2>3, MovesSchedules
  <2>5. QED
    BY <2>2, <2>4
<1>4. ASSUME NEW c \in Configs PROVE ConfigOK(c)'
  <2>1. c # edit[e].on
    BY CatalogAssumption
  <2>2. QED
    BY <2>1, MovesConfigs
<1>5. QED
  BY <1>1, <1>2, <1>3, <1>4 DEF CatalogInv

\* A request on the suite or the profile begins: it carries no schedule and no
\* configuration.
LEMMA OffBegins ==
  ASSUME CatalogInv, NEW e \in Editors, edit[e].pc = "idle",
         NEW new \in Edit, new.pc \in {"saveSuite", "saveProfile"}, new.on = None,
         new.pc = "saveSuite" => new.state \in SuiteState,
         edit' = [edit EXCEPT ![e] = new],
         UNCHANGED <<rowVars, yaml, cronjob, created, apart, hiccups>>
  PROVE  CatalogInv'
<1>1. EditShape(new, created)
  BY DEF EditShape, SchedulePc, SavePc, ConfigPc
<1>2. Moves(e, new)
  BY <1>1 DEF Moves, CatalogInv, CatalogTypeOK
<1>3. edit[e].on = None
  BY IdleIsOff
<1>4. /\ suite' \in SuiteState \cup {"unborn", "deleted"} /\ profile' \in RowState
      /\ UNCHANGED <<config, schedule, yaml, cronjob, apart, hiccups>>
  BY DEF rowVars, CatalogInv, CatalogTypeOK
<1>5. QED
  BY <1>2, <1>3, <1>4, SuiteStep

LEMMA SuiteAndProfileInv ==
  ASSUME CatalogInv, NEW e \in Editors,
         \/ \E state \in SuiteState : UpdateSuite(e, state)
         \/ ArchiveSuite(e) \/ UpdateProfile(e) \/ SaveSuite(e) \/ SaveProfile(e)
  PROVE  CatalogInv'
<1>1. ASSUME NEW state \in SuiteState, ReadSuite(e, state) PROVE CatalogInv'
  <2> DEFINE new == [Resting EXCEPT !.pc = "saveSuite", !.state = state]
  <2>1. new \in Edit /\ new.pc = "saveSuite" /\ new.on = None /\ new.state = state
    BY Defaults DEF Resting, Edit
  <2>2. /\ edit[e].pc = "idle" /\ edit' = [edit EXCEPT ![e] = new]
        /\ UNCHANGED <<rowVars, yaml, cronjob, created, apart, hiccups>>
    BY <1>1 DEF ReadSuite
  <2> HIDE DEF new
  <2>3. QED
    BY <2>1, <2>2, OffBegins
<1>2. CASE UpdateProfile(e)
  <2> DEFINE new == [Resting EXCEPT !.pc = "saveProfile"]
  <2>1. new \in Edit /\ new.pc = "saveProfile" /\ new.on = None
    BY Defaults DEF Resting, Edit
  <2>2. /\ edit[e].pc = "idle" /\ edit' = [edit EXCEPT ![e] = new]
        /\ UNCHANGED <<rowVars, yaml, cronjob, created, apart, hiccups>>
    BY <1>2 DEF UpdateProfile
  <2> HIDE DEF new
  <2>3. QED
    BY <2>1, <2>2, OffBegins
<1>3. CASE SaveSuite(e) \/ SaveProfile(e)
  <2>1. edit[e].on = None
    BY <1>3, IdleIsOff DEF SaveSuite, SaveProfile
  <2>2. edit[e].pc = "saveSuite" => edit[e].state \in SuiteState
    BY DEF CatalogInv, Requests, EditShape
  <2>3. /\ Finish(e) /\ UNCHANGED <<config, schedule, yaml, cronjob, created, apart>>
        /\ suite' \in SuiteState \cup {"unborn", "deleted"} /\ profile' \in RowState
        /\ Hiccup \/ UNCHANGED hiccups
    BY <1>3, <2>2 DEF SaveSuite, SaveProfile, RowState, CatalogInv, CatalogTypeOK
  <2>4. Moves(e, Resting)
    BY <2>1, <2>3, FinishMoves
  <2>5. QED
    BY <2>1, <2>3, <2>4, SuiteStep
<1>4. \A state : state = "ARCHIVED" => state \in SuiteState
  BY DEF SuiteState
<1>5. QED
  BY <1>1, <1>2, <1>3, <1>4 DEF UpdateSuite, ArchiveSuite

\* Only the suite's or the profile's row changes.
LEMMA RowsOnly ==
  ASSUME CatalogInv, suite' \in SuiteState \cup {"unborn", "deleted"},
         profile' \in RowState,
         UNCHANGED <<config, yaml, schedule, cronjob, created, edit, apart, hiccups>>
  PROVE  CatalogInv'
BY DEF CatalogInv, CatalogTypeOK, Requests, Alone, RowOK, ScheduleOK, ConfigOK, InFlight

LEMMA DeleteSuiteInv ==
  ASSUME CatalogInv, DeleteSuite PROVE CatalogInv'
<1>1. CatalogTypeOK'
  BY Defaults DEF DeleteSuite, CatalogInv, CatalogTypeOK
<1>2. Requests'
  BY DEF DeleteSuite, CatalogInv, Requests, Alone
<1>3. ASSUME NEW s \in Schedules PROVE RowOK(s)' /\ ScheduleOK(s)'
  <2>1. /\ schedule'[s] = NoSchedule /\ UNCHANGED <<cronjob, edit, created>>
        /\ s \notin apart' => s \notin apart /\ schedule[s] = NoSchedule /\ ~InFlight(s)
    BY DEF DeleteSuite
  <2>2. RowOK(s) /\ ScheduleOK(s)
    BY DEF CatalogInv
  <2>3. QED
    BY <2>1, <2>2 DEF RowOK, ScheduleOK, InFlight
<1>4. ASSUME NEW c \in Configs PROVE ConfigOK(c)'
  <2>1. /\ config'[c] = NoConfig /\ edit' = edit
        /\ c \notin apart' => ~InFlight(c)
    BY DEF DeleteSuite
  <2>2. QED
    BY <2>1 DEF ConfigOK, HasObject, InFlight
<1>5. QED
  BY <1>1, <1>2, <1>3, <1>4 DEF CatalogInv

LEMMA RestartInv ==
  ASSUME CatalogInv, RestartCatalog PROVE CatalogInv'
<1>1. /\ UNCHANGED <<suite, profile, config, schedule, yaml, cronjob, created>>
      /\ edit' = [e \in Editors |-> Resting]
      /\ \A x \in Schedules \cup Configs :
           x \notin apart' => x \notin apart /\ ~InFlight(x)
      /\ apart' \subseteq Schedules \cup Configs
  BY DEF RestartCatalog, rowVars, CatalogInv, CatalogTypeOK
<1>2. CatalogTypeOK'
  BY <1>1, Defaults, HiccupType DEF RestartCatalog, CatalogInv, CatalogTypeOK
<1>3. Resting.pc = "idle" /\ Resting.on = None
  BY DEF Resting
<1>4. Requests'
  BY <1>1, <1>3 DEF Requests, Alone, EditShape, SchedulePc, SavePc, ConfigPc
<1>5. \A x \in Schedules \cup Configs : \A e \in Editors : edit'[e].on # x
  BY <1>1, <1>3, CatalogAssumption
<1>6. ASSUME NEW s \in Schedules PROVE RowOK(s)' /\ ScheduleOK(s)'
  <2>1. RowOK(s) /\ ScheduleOK(s)
    BY DEF CatalogInv
  <2>2. QED
    BY <1>1, <1>5, <2>1 DEF RowOK, ScheduleOK
<1>7. ASSUME NEW c \in Configs PROVE ConfigOK(c)'
  <2>1. ConfigOK(c)
    BY DEF CatalogInv
  <2>2. QED
    BY <1>1, <1>5, <2>1 DEF ConfigOK
<1>8. QED
  BY <1>2, <1>4, <1>6, <1>7 DEF CatalogInv

-----------------------------------------------------------------------------
LEMMA CatalogInvNext == CatalogInv /\ [CatalogNext]_catalogVars => CatalogInv'
<1> SUFFICES ASSUME CatalogInv, [CatalogNext]_catalogVars PROVE CatalogInv'
  OBVIOUS
<1>1. ASSUME NEW e \in Editors, EditStep(e) PROVE CatalogInv'
  BY <1>1, SaveScheduleInv, CreateCronJobInv, DropRowInv, UpdateCronJobInv,
     ResaveScheduleInv, DeleteCronJobInv, UploadConfigInv, SaveConfigInv,
     EraseObjectInv, DeleteConfigRowInv, SuiteAndProfileInv DEF EditStep
<1>2. ASSUME NEW e \in Editors, NewEdit(e) PROVE CatalogInv'
  <2>1. \A n \in Names, y \in Contents : [name |-> n, content |-> y] \in ConfigRow
    BY DEF ConfigRow
  <2>2. CASE \E s \in Schedules, cron \in Crons :
               \/ \E c \in Configs \cup {None} : CreateSchedule(e, s, cron, c)
               \/ \E active \in BOOLEAN : UpdateSchedule(e, s, cron, active)
    BY <2>2, CreateScheduleInv, UpdateScheduleInv
  <2>3. CASE \E s \in Schedules : DeleteSchedule(e, s)
    BY <2>3, DeleteScheduleInv
  <2>4. CASE \E c \in Configs, n \in Names, y \in Contents :
               \/ CreateConfig(e, c, [name |-> n, content |-> y])
               \/ UpdateConfig(e, c, [name |-> n, content |-> y])
    BY <2>1, <2>4, ConfigEdits
  <2>5. CASE \E c \in Configs : DeleteConfig(e, c)
    BY <2>5, ConfigEdits, Defaults
  <2>6. CASE (\E state \in SuiteState : UpdateSuite(e, state))
             \/ ArchiveSuite(e) \/ UpdateProfile(e)
    BY <2>6, SuiteAndProfileInv
  <2>7. QED
    BY <1>2, <2>2, <2>3, <2>4, <2>5, <2>6 DEF NewEdit
<1>3. CASE CreateSuite \/ CreateProfile \/ DeleteProfile
  <2>1. /\ suite' \in SuiteState \cup {"unborn", "deleted"} /\ profile' \in RowState
        /\ UNCHANGED <<config, yaml, schedule, cronjob, created, edit, apart, hiccups>>
    BY <1>3 DEF CreateSuite, CreateProfile, DeleteProfile, SuiteState, RowState,
                CatalogInv, CatalogTypeOK
  <2>2. QED
    BY <2>1, RowsOnly
<1>4. CASE UNCHANGED catalogVars
  <2>1. /\ suite' \in SuiteState \cup {"unborn", "deleted"} /\ profile' \in RowState
        /\ UNCHANGED <<config, yaml, schedule, cronjob, created, edit, apart, hiccups>>
    BY <1>4 DEF catalogVars, CatalogInv, CatalogTypeOK
  <2>2. QED
    BY <2>1, RowsOnly
<1>5. QED
  BY <1>1, <1>2, <1>3, <1>4, DeleteSuiteInv, RestartInv DEF CatalogNext

LEMMA CatalogInvariant == CatalogSpec => []CatalogInv
BY CatalogInvInit, CatalogInvNext, PTL DEF CatalogSpec

\* Suites, profiles, configurations and schedules keep their types, whatever
\* requests, failures and restarts there are.
THEOREM CatalogTypeCorrect == CatalogSpec => []CatalogTypeOK
<1>1. CatalogInv => CatalogTypeOK
  BY DEF CatalogInv
<1>2. QED
  BY <1>1, CatalogInvariant, PTL

\* A schedule no request is working on, and that no race, crash or late failure
\* has set apart, has a CronJob that fires as its row says, and none if it has
\* no row: ScheduleService rolls a failed creation back and updates the CronJob
\* before the row.
THEOREM SchedulesAreMirrored == CatalogSpec => []QuietScheduleIsMirrored
<1>1. CatalogInv => QuietScheduleIsMirrored
  BY DEF CatalogInv, ScheduleOK, QuietScheduleIsMirrored, Quiet
<1>2. QED
  BY <1>1, CatalogInvariant, PTL

\* A configuration at rest whose row can be read has its object, with the
\* content of the row: ConfigService uploads before it saves.
THEOREM ConfigsHaveObjects == CatalogSpec => []QuietConfigHasObject
<1>1. CatalogInv => QuietConfigHasObject
  BY DEF CatalogInv, ConfigOK, HasObject, QuietConfigHasObject, Quiet
<1>2. QED
  BY <1>1, CatalogInvariant, PTL

-----------------------------------------------------------------------------
(* Partition: worker i's part is the slice of the load from Offset(i) to   *)
(* Offset(i + 1), where the first total % n workers have one unit more;    *)
(* the slices start at 0, end at the load, and nothing is between two.     *)

\* How much of the load the workers before i have.
Offset(total, i, n) ==
  i * (total \div n) + (IF i < (total % n) THEN i ELSE (total % n))

LEMMA Division ==
  ASSUME NEW total \in Nat, NEW n \in Nat \ {0}
  PROVE  /\ total \div n \in Nat /\ total % n \in 0 .. n - 1
         /\ total = n * (total \div n) + (total % n)
OBVIOUS

\* A part of a load that is not positive is 0 (partitionValue's early return).
THEOREM NothingToSplit ==
  ASSUME NEW total \in Int, total <= 0, NEW i, NEW n
  PROVE  partitionValue(total, i, n) = 0
BY DEF partitionValue

\* Worker i's part is the slice between its offset and the next one's.
THEOREM PartIsSlice ==
  ASSUME NEW total \in Nat \ {0}, NEW n \in Nat \ {0}, NEW i \in 0 .. n - 1
  PROVE  partitionValue(total, i, n) = Offset(total, i + 1, n) - Offset(total, i, n)
<1> DEFINE q == total \div n
           r == total % n
<1>1. q \in Nat /\ r \in 0 .. n - 1
  BY Division
<1>2. partitionValue(total, i, n) = q + (IF i < r THEN 1 ELSE 0)
  BY DEF partitionValue
<1>3. Offset(total, i + 1, n) = (i + 1) * q + (IF i + 1 < r THEN i + 1 ELSE r)
  BY DEF Offset
<1>4. Offset(total, i, n) = i * q + (IF i < r THEN i ELSE r)
  BY DEF Offset
<1> HIDE DEF q, r
<1>5. (i + 1) * q = i * q + q /\ i * q \in Nat
  BY <1>1
<1> QED BY <1>1, <1>2, <1>3, <1>4, <1>5

\* The slices make up the whole load: the first begins at 0 and the last ends at
\* the load (partitionForIndex leaves nothing over and sends nothing twice).
THEOREM SlicesCoverLoad ==
  ASSUME NEW total \in Nat \ {0}, NEW n \in Nat \ {0}
  PROVE  Offset(total, 0, n) = 0 /\ Offset(total, n, n) = total
<1> DEFINE q == total \div n
           r == total % n
<1>1. q \in Nat /\ r \in 0 .. n - 1 /\ total = n * q + r
  BY Division
<1>2. Offset(total, n, n) = n * q + (IF n < r THEN n ELSE r)
  BY DEF Offset
<1>3. Offset(total, 0, n) = 0 * q + (IF 0 < r THEN 0 ELSE r)
  BY DEF Offset
<1> HIDE DEF q, r
<1> QED BY <1>1, <1>2, <1>3

\* No worker is given two units more than another.
THEOREM PartsAreEven ==
  ASSUME NEW total \in Int, NEW n \in Nat \ {0},
         NEW i \in 0 .. n - 1, NEW j \in 0 .. n - 1
  PROVE  partitionValue(total, i, n) - partitionValue(total, j, n) \in -1 .. 1
<1>1. CASE total <= 0
  BY <1>1, NothingToSplit
<1>2. CASE total > 0
  <2> DEFINE q == total \div n
             r == total % n
  <2>1. q \in Nat /\ r \in Nat
    BY <1>2, Division
  <2>2. /\ partitionValue(total, i, n) = q + (IF i < r THEN 1 ELSE 0)
        /\ partitionValue(total, j, n) = q + (IF j < r THEN 1 ELSE 0)
    BY <1>2 DEF partitionValue
  <2> HIDE DEF q, r
  <2> QED BY <2>1, <2>2
<1> QED BY <1>1, <1>2

-----------------------------------------------------------------------------
(* The sum. What the first workers have together is the offset of the next *)
(* one, so all of them together have the whole load.                       *)

\* Together is recursive: its equation has a solution, the offsets themselves,
\* and no two, for the least index at which two differ has none before it.
LEMMA TogetherIsOffset ==
  ASSUME NEW n \in Nat, NEW part, NEW off \in [0 .. n -> Int], off[0] = 0,
         \A i \in 0 .. n - 1 : part[i] = off[i + 1] - off[i]
  PROVE  Together(part, n) = off[n]
<1> DEFINE Solves(f) ==
             f = [i \in 0 .. n |-> IF i = 0 THEN 0 ELSE f[i - 1] + part[i - 1]]
           upTo == CHOOSE f : Solves(f)
<1>1. Solves(off)
  <2>1. \A i \in 0 .. n :
          off[i] = IF i = 0 THEN 0 ELSE off[i - 1] + part[i - 1]
    OBVIOUS
  <2> QED BY <2>1
<1>2. Solves(upTo)
  BY <1>1
<1>3. Together(part, n) = upTo[n]
  BY DEF Together
<1> HIDE DEF upTo
<1>4. \A i \in 0 .. n : upTo[i] = off[i]
  <2> DEFINE Differ == {i \in Nat : i \in 0 .. n /\ upTo[i] # off[i]}
  <2> SUFFICES ASSUME NEW j \in Differ PROVE FALSE
    OBVIOUS
  <2>1. \E k \in Differ : \A m \in Differ : ~(<<m, k>> \in OpToRel(<, Nat))
    <3>1. IsWellFoundedOn(OpToRel(<, Nat), Nat)
      BY NatLessThanWellFounded
    <3>2. Differ \subseteq Nat /\ Differ # {}
      OBVIOUS
    <3> HIDE DEF Differ
    <3> QED BY <3>1, <3>2, WFMin
  <2>2. PICK k \in Differ : \A m \in Differ : ~(m < k)
    <3>1. ASSUME NEW m \in Differ, NEW k \in Differ,
                 ~(<<m, k>> \in OpToRel(<, Nat))
          PROVE  ~(m < k)
      BY <3>1 DEF OpToRel
    <3> HIDE DEF Differ
    <3> QED BY <2>1, <3>1
  <2>3. \A i \in 0 .. n : upTo[i] = IF i = 0 THEN 0 ELSE upTo[i - 1] + part[i - 1]
    BY <1>2
  <2>4. CASE k = 0
    BY <2>2, <2>3, <2>4
  <2>5. CASE k # 0
    <3>1. k - 1 \notin Differ /\ k - 1 \in 0 .. n - 1
      BY <2>2, <2>5
    <3>2. upTo[k - 1] = off[k - 1]
      BY <3>1
    <3> QED BY <2>2, <2>3, <2>5, <3>1, <3>2
  <2> QED BY <2>4, <2>5
<1> QED BY <1>3, <1>4

\* What n workers make of one load adds up to it and is even.
LEMMA PartsAddUp ==
  ASSUME NEW total \in Int \cup {Absent}, NEW n \in Nat \ {0}, NEW part,
         \A i \in 0 .. n - 1 : part[i] = Share(total, i, n)
  PROVE  AddUp(total, part, n)
<1> SUFFICES ASSUME total # Absent, total > 0
             PROVE  /\ Together(part, n) = total
                    /\ \A i, j \in 0 .. n - 1 : part[i] - part[j] \in -1 .. 1
  BY DEF AddUp
<1>1. total \in Nat \ {0}
  OBVIOUS
<1>2. \A i \in 0 .. n - 1 : part[i] = partitionValue(total, i, n)
  BY DEF Share
<1>3. Together(part, n) = total
  <2> DEFINE off == [i \in 0 .. n |-> Offset(total, i, n)]
  <2>1. \A i \in 0 .. n : Offset(total, i, n) \in Int
    <3>1. total \div n \in Nat /\ total % n \in 0 .. n - 1
      BY <1>1, Division
    <3> QED BY <3>1 DEF Offset
  <2>2. off \in [0 .. n -> Int]
    BY <2>1
  <2>3. off[0] = 0 /\ off[n] = total
    BY <1>1, SlicesCoverLoad
  <2>4. \A i \in 0 .. n - 1 : part[i] = off[i + 1] - off[i]
    BY <1>1, <1>2, PartIsSlice
  <2> HIDE DEF off
  <2> QED BY <2>2, <2>3, <2>4, TogetherIsOffset
<1>4. \A i, j \in 0 .. n - 1 : part[i] - part[j] \in -1 .. 1
  BY <1>1, <1>2, PartsAreEven
<1> QED BY <1>3, <1>4

\* The configurations WorkloadPartitioner takes: every load is a number or absent.
Amount == Int \cup {Absent}

ScenarioRow ==
  [type : {"constant_vus", "arrival_rate", "ramping_vus", "other"}, vus : Amount,
   target_tps : Amount, max_vus : Amount, burst_buffer : Amount, stages : Seq(Amount)]

\* Whatever the type of a scenario, each of its loads is divided, unless there is
\* nothing of it to divide.
LEMMA DividedAlike ==
  ASSUME NEW sc \in ScenarioRow, NEW j \in DOMAIN Loads(sc), NEW n \in Nat \ {0}
  PROVE  \/ Loads(sc)[j] = Absent
         \/ ~(Loads(sc)[j] > 0)
         \/ /\ Loads(sc)[j] \in Amount
            /\ \A i \in 0 .. n - 1 :
                 Loads(PartitionScenario(sc, i, n))[j] = Share(Loads(sc)[j], i, n)
<1>1. CASE sc.type = "constant_vus"
  <2>1. Loads(sc) = <<sc.vus>> /\ j = 1
    BY <1>1 DEF Loads
  <2>2. ASSUME NEW i \in 0 .. n - 1
        PROVE  Loads(PartitionScenario(sc, i, n)) = <<Share(sc.vus, i, n)>>
    BY <1>1 DEF Loads, PartitionScenario, ScenarioRow
  <2> QED BY <2>1, <2>2 DEF ScenarioRow
<1>2. CASE sc.type = "arrival_rate"
  <2> SUFFICES ASSUME Loads(sc)[j] # Absent, Loads(sc)[j] > 0
               PROVE  /\ Loads(sc)[j] \in Amount
                      /\ \A i \in 0 .. n - 1 : Loads(PartitionScenario(sc, i, n))[j]
                                               = Share(Loads(sc)[j], i, n)
    OBVIOUS
  <2>1. /\ Loads(sc) = <<sc.target_tps, sc.max_vus, sc.burst_buffer>>
        /\ j \in 1 .. 3
    BY <1>2 DEF Loads
  <2>2. ASSUME NEW i \in 0 .. n - 1
        PROVE  Loads(PartitionScenario(sc, i, n)) =
                 << Share(sc.target_tps, i, n), Share(sc.max_vus, i, n),
                    IF sc.burst_buffer # Absent /\ sc.burst_buffer > 0
                    THEN Share(sc.burst_buffer, i, n) ELSE sc.burst_buffer >>
    BY <1>2 DEF Loads, PartitionScenario, ScenarioRow
  <2>3. Loads(sc)[j] \in Amount
    BY <2>1 DEF ScenarioRow
  <2>4. CASE j = 1
    BY <2>1, <2>2, <2>3, <2>4
  <2>5. CASE j = 2
    BY <2>1, <2>2, <2>3, <2>5
  <2>6. CASE j = 3
    BY <2>1, <2>2, <2>3, <2>6
  <2> QED BY <2>1, <2>4, <2>5, <2>6
<1>3. CASE sc.type = "ramping_vus"
  <2>1. Loads(sc) = sc.stages /\ sc.stages \in Seq(Amount)
    BY <1>3 DEF Loads, ScenarioRow
  <2>2. ASSUME NEW i \in 0 .. n - 1
        PROVE  Loads(PartitionScenario(sc, i, n)) =
                 [k \in DOMAIN sc.stages |-> Share(sc.stages[k], i, n)]
    BY <1>3 DEF Loads, PartitionScenario, ScenarioRow
  <2> QED BY <2>1, <2>2
<1>4. CASE sc.type = "other"
  BY <1>4 DEF Loads
<1> QED BY <1>1, <1>2, <1>3, <1>4 DEF ScenarioRow

\* The parts that the workers of a run compute, each its own, make up every load
\* of every scenario and the concurrency (PartitionWorkload), for every
\* configuration and number of workers.
THEOREM PartitionAddsUp ==
  ASSUME NEW load \in [concurrency : Amount, scenarios : Seq(ScenarioRow)],
         NEW n \in Nat \ {0}
  PROVE  SharesOf(load, n)
<1> DEFINE whole == load.scenarios
           part  == PartitionWorkload(load, n)
<1>1. AddUp(load.concurrency, [i \in 0 .. n - 1 |-> part[i].concurrency], n)
  <2>1. load.concurrency \in Int \cup {Absent}
    BY DEF Amount
  <2>2. \A i \in 0 .. n - 1 : part[i].concurrency = Share(load.concurrency, i, n)
    BY DEF PartitionWorkload, PartitionForWorker
  <2> HIDE DEF part
  <2> QED BY <2>1, <2>2, PartsAddUp
<1>2. ASSUME NEW k \in DOMAIN whole, NEW j \in DOMAIN Loads(whole[k])
      PROVE  AddUp(Loads(whole[k])[j],
                   [i \in 0 .. n - 1 |-> Loads(part[i].scenarios[k])[j]], n)
  <2> DEFINE sc == whole[k]
             whichLoad == Loads(sc)[j]
             piece == [i \in 0 .. n - 1 |-> Loads(part[i].scenarios[k])[j]]
  <2>1. sc \in ScenarioRow /\ j \in DOMAIN Loads(sc)
    OBVIOUS
  <2>2. \A i \in 0 .. n - 1 : piece[i] = Loads(PartitionScenario(sc, i, n))[j]
    BY DEF PartitionWorkload, PartitionForWorker
  <2> HIDE DEF piece, sc
  <2>3. \/ whichLoad = Absent
        \/ ~(whichLoad > 0)
        \/ /\ whichLoad \in Amount
           /\ \A i \in 0 .. n - 1 :
                Loads(PartitionScenario(sc, i, n))[j] = Share(whichLoad, i, n)
    BY <2>1, DividedAlike
  <2>4. CASE \/ whichLoad = Absent
             \/ ~(whichLoad > 0)
    BY <2>4 DEF AddUp, sc, piece
  <2>5. CASE /\ whichLoad \in Amount
             /\ \A i \in 0 .. n - 1 :
                  Loads(PartitionScenario(sc, i, n))[j] = Share(whichLoad, i, n)
    <3>1. \A i \in 0 .. n - 1 : piece[i] = Share(whichLoad, i, n)
      BY <2>2, <2>5
    <3> HIDE DEF whichLoad
    <3>2. AddUp(whichLoad, piece, n)
      BY <2>5, <3>1, PartsAddUp DEF Amount
    <3> QED BY <3>2 DEF whichLoad, piece, sc
  <2> QED BY <2>3, <2>4, <2>5
<1> QED BY <1>1, <1>2 DEF SharesOf

-----------------------------------------------------------------------------
(* The control plane: the builds, the catalogue and the partitioner        *)

\* Side by side, the builds and the catalogue are each what they are alone: no
\* step of one is a step of the other, and what is proved of either holds of both.
THEOREM ControlPlaneComposes == ControlPlaneSpec => BuildSpec /\ CatalogSpec
<1>1. ControlPlaneInit => InitBuild /\ CatalogInit
  BY DEF ControlPlaneInit
<1>2. [ControlPlaneNext]_<<buildVars, catalogVars, focus, split>> =>
        [BuildNext]_buildVars /\ [CatalogNext]_catalogVars
  BY DEF ControlPlaneNext
<1> QED BY <1>1, <1>2, PTL DEF ControlPlaneSpec, BuildSpec, CatalogSpec

\* In the control plane as a whole a schedule at rest is mirrored by its CronJob
\* and a configuration at rest has its object.
THEOREM ControlPlaneAtRest ==
  ControlPlaneSpec => [](QuietScheduleIsMirrored /\ QuietConfigHasObject)
BY ControlPlaneComposes, SchedulesAreMirrored, ConfigsHaveObjects, PTL

\* A configuration with something to run, and a number of workers.
SplitOK ==
  focus = "partition" =>
    /\ split[1] \in [concurrency : Amount, scenarios : Seq(ScenarioRow)]
    /\ split[1].scenarios # <<>>
    /\ split[2] \in Nat \ {0}

LEMMA WorkloadsAreConfigurations ==
  ASSUME NEW whole \in Workloads
  PROVE  /\ whole \in [concurrency : Amount, scenarios : Seq(ScenarioRow)]
         /\ whole.scenarios # <<>>
<1>1. PICK load \in {Absent, -1, 0, 1, 2, 3, 7, 8} :
        whole = [concurrency |-> load, scenarios |->
          << [Scenario EXCEPT !.type = "constant_vus", !.vus = load],
             [Scenario EXCEPT !.type = "arrival_rate", !.target_tps = load,
                              !.max_vus = 5, !.burst_buffer = 0],
             [Scenario EXCEPT !.type = "ramping_vus", !.stages = <<1, load, 7>>] >>]
  BY DEF Workloads
<1>2. {load, 0, 1, 5, 7, Absent} \subseteq Amount
  BY DEF Amount
<1>3. <<1, load, 7>> \in Seq(Amount) /\ <<>> \in Seq(Amount)
  BY <1>2
<1>4. /\ [Scenario EXCEPT !.type = "constant_vus", !.vus = load] \in ScenarioRow
      /\ [Scenario EXCEPT !.type = "arrival_rate", !.target_tps = load,
                          !.max_vus = 5, !.burst_buffer = 0] \in ScenarioRow
      /\ [Scenario EXCEPT !.type = "ramping_vus", !.stages = <<1, load, 7>>]
           \in ScenarioRow
  BY <1>2, <1>3 DEF Scenario, ScenarioRow
<1> QED BY <1>1, <1>2, <1>4

LEMMA SplitIsOK == ControlPlaneSpec => []SplitOK
<1>1. ControlPlaneInit => SplitOK
  BY WorkloadsAreConfigurations DEF ControlPlaneInit, SplitOK
<1>2. SplitOK /\ [ControlPlaneNext]_<<buildVars, catalogVars, focus, split>> => SplitOK'
  BY DEF SplitOK, ControlPlaneNext
<1> QED BY <1>1, <1>2, PTL DEF ControlPlaneSpec

\* The parts that the workers of a run compute for themselves make up every load
\* of its configuration, and no worker is refused its part.
THEOREM SharesMakeUpLoads == ControlPlaneSpec => []SharesAddUp
<1>1. SplitOK => SharesAddUp
  <2> SUFFICES ASSUME SplitOK, focus = "partition"
               PROVE  /\ \A i \in 0 .. split[2] - 1 :
                           CanPartition(split[1], i, split[2])
                      /\ SharesOf(split[1], split[2])
    BY DEF SharesAddUp
  <2>1. /\ split[1] \in [concurrency : Amount, scenarios : Seq(ScenarioRow)]
        /\ split[1].scenarios # <<>> /\ split[2] \in Nat \ {0}
    BY DEF SplitOK
  <2>2. SharesOf(split[1], split[2])
    BY <2>1, PartitionAddsUp
  <2>3. split[2] >= 1
    BY <2>1
  <2> QED BY <2>1, <2>2, <2>3 DEF CanPartition
<1> QED BY <1>1, SplitIsOK, PTL
=============================================================================
