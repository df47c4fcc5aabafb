------------------------------- MODULE Updater -------------------------------
(***************************************************************************)
(* The updater, src/update.sh: its lock, its steps, and the rollback that  *)
(* an error starts, against the services, the udev rule that starts them   *)
(* and the signals that end the script.                                    *)
(*                                                                         *)
(* A step is the commands between two points where a signal or a failure   *)
(* leaves something else behind: removing STATE_DIR and unpacking it are   *)
(* two steps, and so are git checkout, which brings the tracked            *)
(* config.json back, and git pull, which removes it.  A failure inside a   *)
(* step is a failure of the step that follows, or of the step itself       *)
(* before it changed anything; only the state backup may fail and leave a  *)
(* file behind.  The commands of the rollback, which runs under set +e,    *)
(* are taken to succeed.                                                   *)
(***************************************************************************)
EXTENDS Naturals, FiniteSets

CONSTANTS
  Updater,       \* runs of the script
  MaxFaults,     \* BOUND on failures, signals and udev events
  MaxSaves       \* BOUND on the number of saves of the services

ASSUME ConstantsAssumption ==
  /\ MaxFaults \in Nat
  /\ MaxSaves \in Nat \ {0}

VARIABLES
  up,            \* [Updater -> its variables]
  lock,          \* LOCK_DIR exists
  code,          \* the revision in INSTALL_DIR
  system,        \* the revision whose boot and UI integration is installed
  config,        \* config.json and config.json.legacy; does git track the first?
  state,         \* STATE_DIR: who saved last, and how much (0: it is empty)
  running,       \* the revision of the running manager
  owed,          \* HISTORY: how much the services had saved when last stopped
  disturbed,     \* HISTORY: what happened that the script does not expect
  faults         \* how much of MaxFaults was used

disk == <<code, system, config, state>>
vars == <<up, lock, disk, running, owed, disturbed, faults>>

Revision == {"old", "new"}
Config == [json: {"absent", "local", "tracked"}, legacy: {"absent", "local", "tracked"},
           tracked: BOOLEAN]
State == [by: Revision, saves: 0..MaxSaves]

\* STATE_BACKUP: no file, a truncated archive, or what STATE_DIR held
Backup == [kind: {"none", "truncated", "full"}, held: State]

NoBackup == [kind |-> "none", held |-> [by |-> "old", saves |-> 0]]
Full(s) == [kind |-> "full", held |-> s]

Step == {"checks", "backup", "migrate", "commit", "stop", "archive", "checkout",
         "pull", "integrate", "boot", "verify"}
Undo == {"undoStop", "undoCode", "undoState", "unpack", "undoConfig", "undoSystem", "undoBoot"}

Local == [pc: Step \cup Undo \cup {"off", "begin", "exit"},
          noRestart: BOOLEAN,
          started: BOOLEAN,           \* UPDATE_STARTED
          backup: Backup,
          saved: Revision,            \* SYSTEM_BACKUP_DIR
          result: {"none", "refused", "updated", "rolledBack", "interrupted"}]

(* The variables have their types, and a result is known when, and only    *)
(* when, a run has ended or is about to.                                   *)
TypeOK ==
  /\ up \in [Updater -> Local]
  /\ \A u \in Updater :
       /\ up[u].pc \in Step \cup Undo => up[u].result = "none"
       /\ up[u].pc = "exit" => up[u].result # "none"
       /\ up[u].pc \in Undo => up[u].started
  /\ lock \in BOOLEAN
  /\ {code, system} \subseteq Revision
  /\ config \in Config
  /\ state \in State
  /\ running \in Revision \cup {"none"}
  /\ owed \in 0..MaxSaves
  /\ disturbed \subseteq {"signal", "udev", "crowd", "backup", "unmigrated",
                        "leftTracked", "emptied"}
  /\ faults \in 0..MaxFaults

Fault == faults < MaxFaults /\ faults' = faults + 1
NoFault == UNCHANGED faults

At(u, pc) == up[u].pc = pc
Goto(u, pc) == up' = [up EXCEPT ![u].pc = pc]
Exit(u, result) == up' = [up EXCEPT ![u].pc = "exit", ![u].result = result]

Working == {u \in Updater : up[u].pc \in Step \cup Undo}

\* Between the stop and the start the updater counts on nobody to start them.
Stopped(u) == up[u].pc \in {"archive", "checkout", "pull", "integrate", "boot", "undoCode",
                            "undoState", "unpack", "undoConfig", "undoSystem", "undoBoot"}

\* STATE_DIR was removed and its archive is not unpacked yet.
Emptied == \E u \in Updater : At(u, "unpack")

Flag(flag, condition) == IF condition THEN {flag} ELSE {}

------------------------------------------------------------------------------
(* The services                                                            *)

\* What a controlled stop may leave: with or without something to save
AfterStop(s) ==
  IF running = "none" \/ s.saves = MaxSaves THEN {s}
  ELSE {s, [by |-> running, saves |-> s.saves + 1]}

\* A save adds to what STATE_DIR holds: at least that much, since a service
\* that runs knows all that was there when it started.
Save ==
  /\ running # "none"
  /\ state.saves < MaxSaves
  /\ state' = [by |-> running, saves |-> state.saves + 1]
  /\ UNCHANGED <<up, lock, code, system, config, running, owed, disturbed, faults>>

StopServices ==
  /\ state' \in AfterStop(state)
  /\ running' = "none"

\* start-dbus-mppsolar.sh does nothing if the pid file names a live process.
StartServices == running' = IF running = "none" THEN code ELSE running

\* The udev rule runs the same script when a hidraw device comes or goes.
\* Services that start on an empty STATE_DIR know nothing of the archive.
UdevEvent ==
  /\ running = "none"
  /\ Fault
  /\ StartServices
  /\ disturbed' = disturbed
       \cup Flag("udev", \E u \in Updater : Stopped(u) /\ ~up[u].noRestart)
       \cup Flag("emptied", Emptied)
  /\ UNCHANGED <<up, lock, disk, owed>>

------------------------------------------------------------------------------
(* The lock                                                                *)

Begin(u) ==
  /\ At(u, "off") /\ up[u].result \in {"none", "refused"}
  /\ \E noRestart \in BOOLEAN :
       up' = [up EXCEPT ![u] = [pc |-> "begin", noRestart |-> noRestart,
                                started |-> FALSE, backup |-> NoBackup,
                                saved |-> "old", result |-> "none"]]
  /\ UNCHANGED <<lock, disk, running, owed, disturbed, faults>>

\* mkdir LOCK_DIR
Lock(u) ==
  /\ At(u, "begin")
  /\ IF lock THEN Exit(u, "refused") /\ UNCHANGED disturbed
     ELSE /\ Goto(u, "checks")
          /\ disturbed' = IF Working = {} THEN disturbed ELSE disturbed \cup {"crowd"}
  /\ lock' = TRUE
  /\ UNCHANGED <<disk, running, owed, faults>>

\* cleanup(), the EXIT trap, set before the lock is taken
Cleanup(u) ==
  /\ At(u, "exit")
  /\ Goto(u, "off")
  /\ lock' = FALSE
  /\ UNCHANGED <<disk, running, owed, disturbed, faults>>

------------------------------------------------------------------------------
(* The steps                                                               *)

\* The checks refuse, or find nothing to do: up to date, or a dry run.
Refuse(u) ==
  /\ At(u, "checks")
  /\ Exit(u, "refused")
  /\ UNCHANGED <<lock, disk, running, owed, disturbed, faults>>

Checks(u) ==
  /\ At(u, "checks")
  /\ code = "old"
  /\ Goto(u, "backup")
  /\ UNCHANGED <<lock, disk, running, owed, disturbed, faults>>

\* The archive of the code, which nothing reads, and SYSTEM_BACKUP_DIR
BackUp(u) ==
  /\ At(u, "backup")
  /\ up' = [up EXCEPT ![u].pc = "migrate", ![u].saved = system]
  /\ UNCHANGED <<lock, disk, running, owed, disturbed, faults>>

\* Mutant: the file is removed, as the devices are in the manifest now.
NoLegacy == config.legacy

Legacy == config.json

\* migrate-config.py renames config.json, before the services are stopped.
Migrate(u) ==
  /\ At(u, "migrate")
  /\ config' = IF up[u].noRestart \/ config.json = "absent" THEN config
               ELSE [config EXCEPT !.json = "absent", !.legacy = Legacy]
  /\ Goto(u, "commit")
  /\ UNCHANGED <<lock, code, system, state, running, owed, disturbed, faults>>

\* Mutant: the services are never stopped.
StraightOn(u) == "archive"

AfterCommit(u) == IF up[u].noRestart THEN "archive" ELSE "stop"

\* EXPECTED_SERIALS are listed; UPDATE_STARTED=1
Commit(u) ==
  /\ At(u, "commit")
  /\ up' = [up EXCEPT ![u].pc = AfterCommit(u), ![u].started = TRUE]
  /\ UNCHANGED <<lock, disk, running, owed, disturbed, faults>>

\* Mutant: the state is archived before the services are stopped.
StopLate(u) ==
  /\ At(u, "stop")
  /\ StopServices
  /\ owed' = state'.saves
  /\ up' = [up EXCEPT ![u].pc = "checkout", ![u].backup = Full(state)]
  /\ UNCHANGED <<lock, code, system, config, disturbed, faults>>

Stop(u) ==
  /\ At(u, "stop")
  /\ StopServices
  /\ owed' = state'.saves
  /\ Goto(u, "archive")
  /\ UNCHANGED <<lock, code, system, config, disturbed, faults>>

\* tar -czf STATE_BACKUP
Archive(u) ==
  /\ At(u, "archive")
  /\ up' = [up EXCEPT ![u].pc = "checkout", ![u].backup = Full(state)]
  /\ UNCHANGED <<lock, disk, running, owed, disturbed, faults>>

\* ... fails half-way, or tar -tzf finds that it did.
ArchiveFails(u) ==
  /\ At(u, "archive")
  /\ Fault
  /\ up' = [up EXCEPT ![u].pc = "undoStop", ![u].backup.kind = "truncated"]
  /\ disturbed' = disturbed \cup {"backup"}
  /\ UNCHANGED <<lock, disk, running, owed>>

\* With --no-restart nobody has migrated an edited config.json.
Unmigrated(u) ==
  disturbed' = IF up[u].noRestart /\ config.json = "local" /\ config.legacy # "local"
               THEN disturbed \cup {"unmigrated"} ELSE disturbed

\* The old revision's config.json comes back: git checkout and git reset
Tracked == IF config.tracked THEN [config EXCEPT !.json = "tracked"] ELSE config

\* git checkout -- config.json, when git tracks it, and all the rest
Checkout(u) ==
  /\ At(u, "checkout")
  /\ config' = Tracked
  /\ Unmigrated(u)
  /\ Goto(u, "pull")
  /\ UNCHANGED <<lock, code, system, state, running, owed, faults>>

\* git pull to the new revision, which has no config.json
Pull(u) ==
  /\ At(u, "pull")
  /\ code' = "new"
  /\ config' = [config EXCEPT !.json = "absent"]
  /\ Goto(u, IF up[u].noRestart THEN "verify" ELSE "integrate")
  /\ UNCHANGED <<lock, system, state, running, owed, disturbed, faults>>

Integrate(u) ==
  /\ At(u, "integrate")
  /\ system' = "new"
  /\ Goto(u, "boot")
  /\ UNCHANGED <<lock, code, config, state, running, owed, disturbed, faults>>

Boot(u) ==
  /\ At(u, "boot")
  /\ StartServices
  /\ Goto(u, "verify")
  /\ UNCHANGED <<lock, disk, owed, disturbed, faults>>

Verified(u) ==
  /\ At(u, "verify")
  /\ Exit(u, "updated")
  /\ UNCHANGED <<lock, disk, running, owed, disturbed, faults>>

------------------------------------------------------------------------------
(* Errors and signals                                                      *)

\* Mutant: every error is rolled back, whatever was touched.
AlwaysUndo(u) == Goto(u, "undoStop")

\* on_error(), the ERR trap
OnError(u) == IF up[u].started THEN Goto(u, "undoStop") ELSE Exit(u, "refused")

StepFails(u) ==
  /\ up[u].pc \in Step
  /\ Fault
  /\ OnError(u)
  /\ UNCHANGED <<lock, disk, running, owed, disturbed>>

\* SIGINT or SIGTERM: exit, without a rollback, and with what the commands
\* so far have left: the tracked config.json, or an empty STATE_DIR
Interrupt(u) ==
  /\ u \in Working
  /\ Fault
  /\ Exit(u, "interrupted")
  /\ disturbed' = disturbed \cup {"signal"}
       \cup Flag("leftTracked", config.json = "tracked")
       \cup Flag("emptied", At(u, "unpack"))
  /\ UNCHANGED <<lock, disk, running, owed>>

\* rollback(), when SERVICES_TOUCHED
UndoStop(u) ==
  /\ At(u, "undoStop")
  /\ IF up[u].noRestart THEN UNCHANGED <<state, running>> ELSE StopServices
  /\ Goto(u, "undoCode")
  /\ UNCHANGED <<lock, code, system, config, owed, disturbed, faults>>

\* git reset --hard OLD_REVISION
UndoCode(u) ==
  /\ At(u, "undoCode")
  /\ code' = "old"
  /\ config' = Tracked
  /\ Unmigrated(u)
  /\ Goto(u, "undoState")
  /\ UNCHANGED <<lock, system, state, running, owed, faults>>

\* restore_state(): an archive that is there replaces all of STATE_DIR,
\* which is removed first.
UndoState(u) ==
  /\ At(u, "undoState")
  /\ IF up[u].backup.kind = "none" THEN Goto(u, "undoConfig") /\ UNCHANGED state
     ELSE Goto(u, "unpack") /\ state' = [state EXCEPT !.saves = 0]
  /\ UNCHANGED <<lock, code, system, config, running, owed, disturbed, faults>>

\* tar -xzf STATE_BACKUP over what is there, which may leave it as it is
Unpack(u) ==
  /\ At(u, "unpack")
  /\ state' = IF up[u].backup.kind = "full" THEN up[u].backup.held ELSE state
  /\ Goto(u, "undoConfig")
  /\ UNCHANGED <<lock, code, system, config, running, owed, disturbed, faults>>

\* config.json from config.json.legacy, when there are both
UndoConfig(u) ==
  /\ At(u, "undoConfig")
  /\ config' = IF "absent" \in {config.json, config.legacy} THEN config
               ELSE [config EXCEPT !.json = config.legacy]
  /\ Goto(u, "undoSystem")
  /\ UNCHANGED <<lock, code, system, state, running, owed, disturbed, faults>>

\* Mutant: the boot and UI integration stays as it is.
SystemKept(u) == system

SystemBackup(u) == up[u].saved

\* restore_system_integration()
UndoSystem(u) ==
  /\ At(u, "undoSystem")
  /\ system' = SystemBackup(u)
  /\ Goto(u, "undoBoot")
  /\ UNCHANGED <<lock, code, config, state, running, owed, disturbed, faults>>

UndoBoot(u) ==
  /\ At(u, "undoBoot")
  /\ IF up[u].noRestart THEN UNCHANGED running ELSE StartServices
  /\ Exit(u, "rolledBack")
  /\ UNCHANGED <<lock, disk, owed, disturbed, faults>>

------------------------------------------------------------------------------
\* An installation of the old revision: with a tracked config.json that was
\* edited, migrated earlier, or never in need of it
Init ==
  /\ up = [u \in Updater |-> [pc |-> "off", noRestart |-> FALSE, started |-> FALSE,
                              backup |-> NoBackup, saved |-> "old", result |-> "none"]]
  /\ lock = FALSE
  /\ code = "old"
  /\ system = "old"
  /\ config \in {[json |-> "local", legacy |-> "absent", tracked |-> TRUE],
                 [json |-> "absent", legacy |-> "local", tracked |-> FALSE],
                 [json |-> "absent", legacy |-> "absent", tracked |-> FALSE]}
  /\ state = [by |-> "old", saves |-> 1]
  /\ running = "old"
  /\ owed = 0
  /\ disturbed = {}
  /\ faults = 0

Forward(u) ==
  \/ Begin(u) \/ Lock(u) \/ Refuse(u) \/ Checks(u) \/ BackUp(u) \/ Migrate(u)
  \/ Commit(u) \/ Stop(u) \/ Archive(u) \/ Checkout(u) \/ Pull(u)
  \/ Integrate(u) \/ Boot(u) \/ Verified(u) \/ Cleanup(u)

Back(u) ==
  \/ StepFails(u) \/ ArchiveFails(u) \/ Interrupt(u)
  \/ UndoStop(u) \/ UndoCode(u) \/ UndoState(u) \/ Unpack(u) \/ UndoConfig(u)
  \/ UndoSystem(u) \/ UndoBoot(u)

Next == Save \/ UdevEvent \/ \E u \in Updater : Forward(u) \/ Back(u)

Spec == Init /\ [][Next]_vars

------------------------------------------------------------------------------
(* Properties                                                              *)

Without(what) == disturbed \cap what = {}

(* README.md: restores the previous revision and the persistent state on   *)
(* failure.  When a rollback is over, unless two runs overlapped, a udev   *)
(* event started a manager in between or the backup had failed, revision,  *)
(* integration and state are those of the old revision, the old manager    *)
(* runs, and an edited config.json that still exists is in its place.      *)
RollbackRestores ==
  [][\A u \in Updater :
       /\ up[u].result = "none" /\ up'[u].result = "rolledBack"
       /\ Without({"crowd", "udev", "backup", "signal"})
       => /\ code' = "old" /\ system' = "old" /\ state'.by = "old"
          /\ ~up[u].noRestart => running' = "old"
          /\ config.tracked /\ "local" \in {config.json, config.legacy}
               => config'.json = "local"]_vars

(* An update that is said to be complete has its revision installed, and   *)
(* unless --no-restart was given, running.                                 *)
SuccessRunsNew ==
  [][\A u \in Updater :
       /\ up[u].result = "none" /\ up'[u].result = "updated"
       /\ Without({"crowd", "udev"})
       => code' = "new" /\ (up[u].noRestart \/ (running' = "new" /\ system' = "new"))]_vars

(* What the services saved before an updater stopped them is never lost:   *)
(* through any failures, rollbacks and signals it is in STATE_DIR, or in   *)
(* the archive of the rollback that is about to unpack it there.           *)
(* Excepted are overlapping runs, an archive that could not be written,    *)
(* and a signal, or services that udev starts, between rm -rf STATE_DIR    *)
(* and the end of tar: nobody unpacks the archive of an ended run, and     *)
(* services that started on an empty directory save what they know.        *)
StateSurvives ==
  Without({"crowd", "backup", "emptied"}) =>
    \/ state.saves >= owed
    \/ \E u \in Updater : At(u, "unpack") /\ up[u].backup.kind = "full"
                          /\ up[u].backup.held.saves >= owed

(* "Another update is running": no two runs of the script work at a time.  *)
OneUpdater == Cardinality(Working) <= 1

(* "after its safe copy became config.json.legacy": however often updates  *)
(* fail, are rolled back, interrupted or repeated, an edited config.json   *)
(* exists under one of its names.  Excepted: overlapping runs, the         *)
(* migration that --no-restart skips, and a signal while the tracked       *)
(* config.json is back beside the edited one, which is from git checkout   *)
(* to the end of git pull, and in a rollback until the copy back: the next *)
(* migration copies it over the edited one.                                *)
LocalConfigKept ==
  config.tracked /\ Without({"crowd", "unmigrated", "leftTracked"}) =>
    "local" \in {config.json, config.legacy}
=============================================================================
