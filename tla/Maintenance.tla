----------------------------- MODULE Maintenance -----------------------------
(***************************************************************************)
(* Automatic maintenance as the desktop app sets it up: the settings file  *)
(* maintenance.json, the task registered with the operating system, and    *)
(* the processes that run maintenance and record its outcome in the same   *)
(* file (the windowless runner and its vault-cli child, ADR-SEC-015/016).  *)
(*                                                                         *)
(* The file is replaced by a rename, so a reader never sees half of it;    *)
(* but whoever changes it loads it first, and nothing keeps the two sides  *)
(* apart.  A schedule is a model value; how a backend spells it is not     *)
(* modelled, what it leaves behind when a command fails is.                *)
(***************************************************************************)
EXTENDS Naturals

CONSTANTS
  MSchedules,      \* what the user may choose
  MOff,            \* enabled = false, and no task
  MSetters,        \* set_maintenance_schedule commands that may overlap
  MRuns,           \* maintenance runs
  MMaxSets,        \* bound: commands issued
  MMaxChanges      \* bound: comings and goings of the systemd user instance

ASSUME MaintenanceAssumption == MOff \notin MSchedules /\ MMaxSets \in Nat
                                /\ MMaxChanges \in Nat

VARIABLES
  platform,        \* "windows", "macos", "linux"
  config,          \* maintenance.json: sched and last
  loaded,          \* the task the facility of the platform would start
  unit,            \* what its file on disk says (plist, .timer)
  cron,            \* our block in the crontab
  systemd,         \* Linux: systemctl --user answers
  setter,          \* MSetters -> the command: step, choice and the config it loaded
  run,             \* MRuns -> the run: step, outcome, loaded config
  sets, changes,
  \* history
  drift            \* why file and operating system may differ

mtVars == <<platform, config, loaded, unit, cron, systemd, setter, run, sets,
            changes, drift>>

osVars == <<loaded, unit, cron, systemd>>

MtChoices == MSchedules \cup {MOff}
Outcomes == {"none", "completed", "busy", "failed"}
Configs == [sched : MtChoices, last : Outcomes]
NoConfig == [sched |-> MOff, last |-> "none"]
Idle == [at |-> "idle", sched |-> MOff, saw |-> NoConfig]
NoRun == [at |-> "none", outcome |-> "none", saw |-> NoConfig,
          fresh |-> TRUE]

Reasons == {"save", "overlap", "record", "backend", "facility"}

MtTypeOK ==
  /\ platform \in {"windows", "macos", "linux"}
  /\ config \in Configs
  /\ loaded \in MtChoices /\ unit \in MtChoices /\ cron \in MtChoices
  /\ systemd \in BOOLEAN
  /\ setter \in [MSetters -> [at : {"idle", "os", "save"}, sched : MtChoices, saw : Configs]]
  /\ run \in [MRuns -> [at : {"none", "runs", "ended", "records", "over"},
                        outcome : Outcomes, saw : Configs,
                        fresh : BOOLEAN]]
  /\ sets \in 0..MMaxSets /\ changes \in 0..MMaxChanges
  /\ drift \subseteq Reasons

MtInit ==
  /\ platform \in {"windows", "macos", "linux"}
  /\ config = NoConfig
  /\ loaded = MOff /\ unit = MOff /\ cron = MOff
  /\ systemd \in (IF platform = "linux" THEN BOOLEAN ELSE {FALSE})
  /\ setter = [s \in MSetters |-> Idle]
  /\ run = [r \in MRuns |-> NoRun]
  /\ sets = 0 /\ changes = 0
  /\ drift = {}

\* What the operating system will start.
Started == {s \in MSchedules :
              \/ s = cron
              \/ s = loaded /\ (platform = "linux" => systemd)}

-----------------------------------------------------------------------------
\* The schedulers of the platforms.  Each relation gives the state a call leaves
\* and whether it reports success.

SameOs == UNCHANGED <<loaded, unit, cron>>

RegisterTask(s, ok) ==
  CASE platform = "windows" ->          \* schtasks /Create /F replaces the task
         IF ok THEN loaded' = s /\ unit' = s /\ UNCHANGED cron ELSE SameOs
    [] platform = "macos" ->            \* the plist, bootout, bootstrap
         \/ ok /\ loaded' = s /\ unit' = s /\ UNCHANGED cron
         \/ ~ ok /\ SameOs
         \/ ~ ok /\ unit' = s /\ loaded' \in {MOff, loaded} /\ UNCHANGED cron
    [] platform = "linux" /\ systemd -> \* the units, daemon-reload, enable --now
         \/ ok /\ loaded' = s /\ unit' = s /\ UNCHANGED cron
         \/ ~ ok /\ SameOs
         \/ ~ ok /\ unit' = s /\ UNCHANGED cron
            /\ loaded' = IF loaded = MOff THEN MOff ELSE s
    [] OTHER -> IF ok THEN cron' = s /\ UNCHANGED <<loaded, unit>> ELSE SameOs

\* The files go; that the facility lets go of the task is not checked.
UnregisterTask(ok) ==
  CASE platform = "windows" ->
         IF ok THEN loaded' = MOff /\ unit' = MOff /\ UNCHANGED cron ELSE SameOs
    [] platform = "macos" ->
         /\ loaded' \in {MOff, loaded} /\ UNCHANGED cron
         /\ unit' = IF ok THEN MOff ELSE unit
    [] platform = "linux" /\ systemd -> \* both facilities are tried; one error fails it
         /\ loaded' \in {MOff, loaded}
         /\ IF ok THEN unit' = MOff /\ cron' = MOff
            ELSE \/ unit' = unit /\ cron' \in {MOff, cron}
                 \/ unit' = MOff /\ cron' = cron
    [] OTHER -> IF ok THEN cron' = MOff /\ UNCHANGED <<loaded, unit>> ELSE SameOs

\* The systemd user instance comes or goes with the session; it starts what its
\* unit says.  launchd loads the plist at login.
FacilityChanges ==
  /\ changes < MMaxChanges /\ platform # "windows"
  /\ changes' = changes + 1
  /\ systemd' = IF platform = "linux" THEN ~ systemd ELSE FALSE
  /\ loaded' = unit
  /\ drift' = IF platform = "linux" \/ loaded # unit THEN drift \cup {"facility"} ELSE drift
  /\ UNCHANGED <<platform, config, unit, cron, setter, run, sets>>

-----------------------------------------------------------------------------
\* set_maintenance_schedule.

\* Mutant: the file is written before the task is registered.
SetLoadSaves(s, choice) ==
  /\ setter[s].at = "idle" /\ sets < MMaxSets
  /\ sets' = sets + 1
  /\ setter' = [setter EXCEPT ![s] = [at |-> "os", sched |-> choice, saw |-> config]]
  /\ config' = [config EXCEPT !.sched = choice]
  /\ drift' = IF \A t \in MSetters : setter[t].at = "idle" THEN drift
              ELSE drift \cup {"overlap"}
  /\ UNCHANGED <<platform, osVars, run, changes>>

SetLoad(s, choice) ==
  /\ setter[s].at = "idle" /\ sets < MMaxSets
  /\ sets' = sets + 1
  /\ setter' = [setter EXCEPT ![s] = [at |-> "os", sched |-> choice, saw |-> config]]
  /\ drift' = IF \A t \in MSetters : setter[t].at = "idle" THEN drift
              ELSE drift \cup {"overlap"}
  /\ UNCHANGED <<platform, config, osVars, run, changes>>

\* The task, on a blocking thread.  A failure leaves the file as it is.
SetTask(s, ok) ==
  /\ setter[s].at = "os"
  /\ IF setter[s].sched = MOff THEN UnregisterTask(ok)
     ELSE RegisterTask(setter[s].sched, ok)
  /\ setter' = [setter EXCEPT ![s] = IF ok THEN [@ EXCEPT !.at = "save"] ELSE Idle]
  /\ drift' = IF ok /\ loaded' = unit' THEN drift
              ELSE IF <<loaded', unit', cron'>> = <<loaded, unit, cron>> THEN drift
              ELSE drift \cup {"backend"}
  /\ UNCHANGED <<platform, config, systemd, run, sets, changes>>

\* A recorder that has loaded the file and not yet renamed its copy holds an older
\* schedule from here on.
Outdated == [r \in MRuns |->
               IF run[r].at = "records" THEN [run[r] EXCEPT !.fresh = FALSE] ELSE run[r]]

\* The task is as chosen, and the facility not in use holds none.
InStep(choice) ==
  /\ Started = {choice} \ {MOff}
  /\ loaded = unit
  /\ IF platform = "linux" /\ ~ systemd THEN unit = MOff ELSE cron = MOff

\* No other command or recorder has loaded the file.
Alone(s) == /\ \A t \in MSetters \ {s} : setter[t].at = "idle"
            /\ \A r \in MRuns : run[r].at # "records"

SetSave(s, ok) ==
  /\ setter[s].at = "save"
  /\ config' = IF ok THEN [setter[s].saw EXCEPT !.sched = setter[s].sched] ELSE config
  /\ run' = IF ok THEN Outdated ELSE run
  /\ setter' = [setter EXCEPT ![s] = Idle]
  /\ drift' = IF ~ ok THEN drift \cup {"save"}
              ELSE IF InStep(setter[s].sched) /\ Alone(s) THEN {} ELSE drift
  /\ UNCHANGED <<platform, osVars, sets, changes>>

\* The app closes with commands under way, and starts again: heal_registered_task
\* registers what the file says, unless it says off.
AppRestart(ok) ==
  /\ setter' = [s \in MSetters |-> Idle]
  /\ IF config.sched = MOff THEN ok /\ SameOs ELSE RegisterTask(config.sched, ok)
  /\ drift' = IF <<loaded', unit', cron'>> # <<loaded, unit, cron>>
                 \/ \E s \in MSetters : setter[s].at # "idle"
              THEN drift \cup {"backend"} ELSE drift
  /\ UNCHANGED <<platform, config, systemd, run, sets, changes>>

-----------------------------------------------------------------------------
\* A run.  The task or `Run now' starts the runner, which spawns vault-cli; the
\* owner lock lets one at a time work.

SomeoneRuns == \E r \in MRuns : run[r].at = "runs" /\ run[r].outcome = "none"

RunBegins(r) ==
  /\ run[r].at = "none"
  /\ run' = [run EXCEPT ![r] = [@ EXCEPT !.at = "runs",
                                         !.outcome = IF SomeoneRuns THEN "busy" ELSE "none"]]
  /\ UNCHANGED <<platform, config, osVars, setter, sets, changes, drift>>

\* The child completes, is refused (a server holds the vault), fails, or cannot
\* be spawned.
RunEnds(r) ==
  /\ run[r].at = "runs"
  /\ \E o \in {"completed", "busy", "failed"} :
       /\ run[r].outcome \in {"none", o}
       /\ run' = [run EXCEPT ![r] = [@ EXCEPT !.at = "ended", !.outcome = o]]
  /\ UNCHANGED <<platform, config, osVars, setter, sets, changes, drift>>

\* Mutant: the outcome is saved with the settings' defaults.
RecordLoadDefaults(r) ==
  /\ run[r].at = "ended"
  /\ run' = [run EXCEPT ![r] = [@ EXCEPT !.at = "records", !.saw = NoConfig]]
  /\ UNCHANGED <<platform, config, osVars, setter, sets, changes, drift>>

\* record_run, by the child when it completed, else by the runner: load ...
RecordLoad(r) ==
  /\ run[r].at = "ended"
  /\ run' = [run EXCEPT ![r] = [@ EXCEPT !.at = "records", !.saw = config]]
  /\ UNCHANGED <<platform, config, osVars, setter, sets, changes, drift>>

\* ... and rename, which may fail and is only logged.
RecordSave(r, ok) ==
  /\ run[r].at = "records"
  /\ config' = IF ok THEN [run[r].saw EXCEPT !.last = run[r].outcome] ELSE config
  /\ drift' = IF ok /\ ~ run[r].fresh THEN drift \cup {"record"} ELSE drift
  /\ run' = [(IF ok /\ run[r].saw.sched # config.sched THEN Outdated ELSE run)
               EXCEPT ![r] = [NoRun EXCEPT !.at = "over"]]
  /\ UNCHANGED <<platform, osVars, setter, sets, changes>>

-----------------------------------------------------------------------------
MtNext ==
  \/ FacilityChanges
  \/ \E s \in MSetters :
       \/ \E c \in MtChoices : SetLoad(s, c)
       \/ \E ok \in BOOLEAN : SetTask(s, ok) \/ SetSave(s, ok)
  \/ \E ok \in BOOLEAN : AppRestart(ok)
  \/ \E r \in MRuns :
       \/ RunBegins(r)
       \/ RunEnds(r)
       \/ RecordLoad(r)
       \/ \E ok \in BOOLEAN : RecordSave(r, ok)

MtSpec == MtInit /\ [][MtNext]_mtVars

-----------------------------------------------------------------------------
\* Properties.

\* "[T]he tab never claims a state the OS does not actually hold"
\* (commands/maintenance.rs): with no command under way the schedule in the file
\* is the one the operating system will start, except for a reason in `drift':
\* the save failed, two commands overlapped, a run put the file back, a backend
\* failed half-way or at a restart, or the facility that holds the task changed.
TabMatchesOs ==
  (\A s \in MSetters : setter[s].at = "idle") /\ drift = {} =>
    Started = {config.sched} \ {MOff}

\* Recording a run reverts a change of the schedule only when that change was
\* saved between the recorder's own read and rename, however long the run took.
RecordKeepsSchedule ==
  [][\A r \in MRuns :
       run[r].at = "records" /\ run'[r].at = "over" /\ run[r].fresh =>
         config'.sched = config.sched]_mtVars
=============================================================================
