---------------------------- MODULE UpdaterProofs ----------------------------
(***************************************************************************)
(* Safety of the updater, for any number of runs, failures, signals, udev  *)
(* events and saves.                                                       *)
(***************************************************************************)
EXTENDS Updater, TLAPS

\* Where UPDATE_STARTED is set
Begun == {"stop", "archive", "checkout", "pull", "integrate", "boot", "verify"} \cup Undo

Before == {"begin", "checks", "backup", "migrate", "commit"}

\* A step is undone only if the update was started.
Committed ==
  \A u \in Updater :
    /\ up[u].pc \in Begun => up[u].started
    /\ up[u].pc \in Before => ~up[u].started
    /\ up[u].pc = "begin" => up[u].result = "none"

\* One run works, unless the lock was lost.
Sole == "crowd" \notin disturbed => \A u, v \in Working : u = v

-----------------------------------------------------------------------------
(* Type correctness                                                        *)

\* A step of one run is its own and forgets nothing that disturbed it.
LEMMA OwnStep ==
  ASSUME TypeOK, NEW u \in Updater, Forward(u) \/ Back(u)
  PROVE  /\ up' \in [Updater -> Local]
         /\ \A v \in Updater : v # u => up'[v] = up[v]
<1>1. ASSUME NEW l \in Local, up' = [up EXCEPT ![u] = l]
      PROVE  /\ up' \in [Updater -> Local]
             /\ \A v \in Updater : v # u => up'[v] = up[v]
  BY <1>1 DEF TypeOK
<1>2. up[u] \in Local
  BY DEF TypeOK
<1>3. ASSUME NEW pc \in Step \cup Undo \cup {"off", "begin", "exit"}, Goto(u, pc)
      PROVE  \E l \in Local : up' = [up EXCEPT ![u] = l]
  <2>1. [up[u] EXCEPT !.pc = pc] \in Local
    BY <1>2 DEF Local
  <2>2. QED
    BY <1>3, <2>1 DEF Goto
<1>4. ASSUME NEW r \in {"none", "refused", "updated", "rolledBack", "interrupted"}, Exit(u, r)
      PROVE  \E l \in Local : up' = [up EXCEPT ![u] = l]
  <2>1. [up[u] EXCEPT !.pc = "exit", !.result = r] \in Local
    BY <1>2 DEF Local
  <2>2. QED
    BY <1>4, <2>1 DEF Exit
<1>5. CASE Begin(u)
  <2>1. PICK b \in BOOLEAN :
          up' = [up EXCEPT ![u] = [pc |-> "begin", noRestart |-> b, started |-> FALSE,
                                   backup |-> NoBackup, saved |-> "old", result |-> "none"]]
    BY <1>5 DEF Begin
  <2>2. NoBackup \in Backup
    BY ConstantsAssumption DEF NoBackup, Backup, State, Revision
  <2>3. [pc |-> "begin", noRestart |-> b, started |-> FALSE, backup |-> NoBackup,
         saved |-> "old", result |-> "none"] \in Local
    BY <2>2 DEF Local, Revision
  <2>4. QED
    BY <1>1, <2>1, <2>3
<1>6. CASE Lock(u) \/ Checks(u) \/ Migrate(u) \/ Stop(u) \/ Checkout(u) \/ Pull(u) \/ Integrate(u)
           \/ Boot(u) \/ Cleanup(u) \/ UndoStop(u) \/ UndoCode(u) \/ UndoState(u) \/ Unpack(u)
           \/ UndoConfig(u) \/ UndoSystem(u) \/ Refuse(u) \/ Verified(u) \/ Interrupt(u) \/ UndoBoot(u) \/ StepFails(u)
  <2>1. \/ \E pc \in Step \cup Undo \cup {"off", "begin", "exit"} : Goto(u, pc)
        \/ \E r \in {"none", "refused", "updated", "rolledBack", "interrupted"} : Exit(u, r)
    BY <1>6 DEF Lock, Checks, Migrate, Stop, Checkout, Pull, Integrate, Boot, Cleanup, UndoStop,
       UndoCode, UndoState, Unpack, UndoConfig, UndoSystem, Refuse, Verified, Interrupt, UndoBoot, StepFails,
       OnError, Step, Undo
  <2>2. QED
    BY <1>1, <1>3, <1>4, <2>1
<1>7. CASE BackUp(u)
  <2>1. [up[u] EXCEPT !.pc = "migrate", !.saved = system] \in Local
    BY <1>2 DEF TypeOK, Local, Step
  <2>2. up' = [up EXCEPT ![u] = [up[u] EXCEPT !.pc = "migrate", !.saved = system]]
    BY <1>7 DEF BackUp
  <2>3. QED
    BY <1>1, <2>1, <2>2
<1>8. CASE Commit(u)
  <2>1. [up[u] EXCEPT !.pc = AfterCommit(u), !.started = TRUE] \in Local
    BY <1>2 DEF AfterCommit, Local, Step
  <2>2. up' = [up EXCEPT ![u] = [up[u] EXCEPT !.pc = AfterCommit(u), !.started = TRUE]]
    BY <1>8 DEF Commit
  <2>3. QED
    BY <1>1, <2>1, <2>2
<1>9. CASE Archive(u)
  <2>1. Full(state) \in Backup
    BY DEF TypeOK, Full, Backup
  <2>2. [up[u] EXCEPT !.pc = "checkout", !.backup = Full(state)] \in Local
    BY <1>2, <2>1 DEF Local, Step
  <2>3. up' = [up EXCEPT ![u] = [up[u] EXCEPT !.pc = "checkout", !.backup = Full(state)]]
    BY <1>9 DEF Archive
  <2>4. QED
    BY <1>1, <2>2, <2>3
<1>10. CASE ArchiveFails(u)
  <2>1. [up[u].backup EXCEPT !.kind = "truncated"] \in Backup
    BY <1>2 DEF Local, Backup
  <2>2. [up[u] EXCEPT !.pc = "undoStop", !.backup = [@ EXCEPT !.kind = "truncated"]] \in Local
    BY <1>2, <2>1 DEF Local, Undo
  <2>3. up' = [up EXCEPT ![u] = [up[u] EXCEPT !.pc = "undoStop",
                                              !.backup = [@ EXCEPT !.kind = "truncated"]]]
    BY <1>10 DEF ArchiveFails
  <2>4. QED
    BY <1>1, <2>2, <2>3
<1>11. QED
  BY <1>5, <1>6, <1>7, <1>8, <1>9, <1>10 DEF Forward, Back

LEMMA SavesTyped ==
  ASSUME TypeOK, NEW s \in AfterStop(state)
  PROVE  s \in State /\ s.saves >= state.saves
<1>1. state \in State /\ state.saves \in 0..MaxSaves
  BY DEF TypeOK, State
<1>2. CASE s = state
  BY <1>1, <1>2, ConstantsAssumption
<1>3. CASE s = [by |-> running, saves |-> state.saves + 1] /\ running # "none" /\ state.saves # MaxSaves
  BY <1>1, <1>3, ConstantsAssumption DEF TypeOK, State
<1>4. QED
  BY <1>2, <1>3 DEF AfterStop

LEMMA FaultTyped ==
  ASSUME TypeOK, Fault \/ NoFault
  PROVE  faults' \in 0..MaxFaults
BY ConstantsAssumption DEF TypeOK, Fault, NoFault

\* What is on the disk, and who runs
LEMMA DiskTyped ==
  ASSUME TypeOK, NEW u \in Updater, Forward(u) \/ Back(u)
  PROVE  /\ {code', system'} \subseteq Revision /\ config' \in Config
         /\ state' \in State /\ running' \in Revision \cup {"none"}
         /\ owed' \in 0..MaxSaves
<1>1. /\ {code, system} \subseteq Revision /\ config \in Config /\ state \in State
      /\ running \in Revision \cup {"none"} /\ owed \in 0..MaxSaves
      /\ up[u] \in Local
  BY DEF TypeOK
<1>2. CASE UNCHANGED <<disk, running, owed>>
  BY <1>1, <1>2 DEF disk
<1>3. CASE Stop(u) \/ UndoStop(u)
  <2>1. state' \in State /\ state'.saves \in 0..MaxSaves
    BY <1>1, <1>3, SavesTyped DEF Stop, UndoStop, StopServices, State
  <2>2. QED
    BY <1>1, <1>3, <2>1 DEF Stop, UndoStop, StopServices
<1>4. CASE Boot(u) \/ UndoBoot(u)
  BY <1>1, <1>4 DEF Boot, UndoBoot, StartServices, disk
<1>5. CASE Integrate(u) \/ UndoSystem(u)
  BY <1>1, <1>5 DEF Integrate, UndoSystem, SystemBackup, Revision, Local
<1>6. CASE Migrate(u) \/ Checkout(u) \/ Pull(u) \/ UndoCode(u) \/ UndoConfig(u)
  <2>1. config' \in Config
    BY <1>1, <1>6 DEF Migrate, Legacy, Checkout, Tracked, Pull, UndoCode, UndoConfig, Config
  <2>2. QED
    BY <1>1, <1>6, <2>1 DEF Migrate, Checkout, Pull, UndoCode, UndoConfig, Revision
<1>7. CASE UndoState(u) \/ Unpack(u)
  <2>1. up[u].backup.held \in State
    BY <1>1 DEF Local, Backup
  <2>2. [state EXCEPT !.saves = 0] \in State
    BY <1>1, ConstantsAssumption DEF State
  <2>3. state' \in State
    BY <1>1, <1>7, <2>1, <2>2 DEF UndoState, Unpack
  <2>4. QED
    BY <1>1, <1>7, <2>3 DEF UndoState, Unpack
<1>8. QED
  BY <1>2, <1>3, <1>4, <1>5, <1>6, <1>7 DEF Forward, Back, Begin, Lock, Refuse, Checks, BackUp,
     Commit, Archive, Verified, Cleanup, StepFails, ArchiveFails, Interrupt

\* What Goto and Exit leave alone
LEMMA Moves ==
  ASSUME TypeOK, NEW u \in Updater
  PROVE  /\ \A pc \in Step \cup Undo \cup {"off", "begin", "exit"} : Goto(u, pc) =>
              /\ up'[u].pc = pc
              /\ UNCHANGED <<up[u].noRestart, up[u].started, up[u].backup, up[u].saved, up[u].result>>
         /\ \A r \in {"none", "refused", "updated", "rolledBack", "interrupted"} : Exit(u, r) =>
              /\ up'[u].pc = "exit" /\ up'[u].result = r
              /\ UNCHANGED <<up[u].noRestart, up[u].started, up[u].backup, up[u].saved>>
BY DEF TypeOK, Local, Goto, Exit

\* What the steps do that set other variables of the script
LEMMA Sets ==
  ASSUME TypeOK, NEW u \in Updater
  PROVE  /\ Begin(u) => /\ up'[u].pc = "begin" /\ up'[u].result = "none"
                        /\ ~up'[u].started /\ up'[u].backup.kind = "none"
         /\ BackUp(u) => /\ up'[u].pc = "migrate" /\ up'[u].saved = system
                         /\ UNCHANGED <<up[u].noRestart, up[u].started, up[u].backup, up[u].result>>
         /\ Commit(u) => /\ up'[u].pc = AfterCommit(u) /\ up'[u].started
                         /\ UNCHANGED <<up[u].noRestart, up[u].backup, up[u].saved, up[u].result>>
         /\ Archive(u) => /\ up'[u].pc = "checkout" /\ up'[u].backup = Full(state)
                          /\ UNCHANGED <<up[u].noRestart, up[u].started, up[u].saved, up[u].result>>
         /\ ArchiveFails(u) => /\ up'[u].pc = "undoStop" /\ up'[u].backup.kind = "truncated"
                               /\ UNCHANGED <<up[u].noRestart, up[u].started, up[u].saved, up[u].result>>
<1>1. up \in [Updater -> Local]
  BY DEF TypeOK
<1>2. ASSUME Begin(u)
      PROVE  /\ up'[u].pc = "begin" /\ up'[u].result = "none"
             /\ ~up'[u].started /\ up'[u].backup.kind = "none"
  <2>1. PICK b \in BOOLEAN :
          up' = [up EXCEPT ![u] = [pc |-> "begin", noRestart |-> b, started |-> FALSE,
                                   backup |-> NoBackup, saved |-> "old", result |-> "none"]]
    BY <1>2 DEF Begin
  <2>2. up'[u] = [pc |-> "begin", noRestart |-> b, started |-> FALSE,
                  backup |-> NoBackup, saved |-> "old", result |-> "none"]
    BY <1>1, <2>1
  <2>3. QED
    BY <2>2 DEF NoBackup
<1>3. up[u] \in Local
  BY <1>1
<1>4. BackUp(u) => up'[u] = [up[u] EXCEPT !.pc = "migrate", !.saved = system]
  BY <1>1 DEF BackUp
<1>5. Commit(u) => up'[u] = [up[u] EXCEPT !.pc = AfterCommit(u), !.started = TRUE]
  BY <1>1 DEF Commit
<1>6. Archive(u) => up'[u] = [up[u] EXCEPT !.pc = "checkout", !.backup = Full(state)]
  BY <1>1 DEF Archive
<1>7. ASSUME ArchiveFails(u)
      PROVE  /\ up'[u].pc = "undoStop" /\ up'[u].backup.kind = "truncated"
             /\ UNCHANGED <<up[u].noRestart, up[u].started, up[u].saved, up[u].result>>
  <2>1. up'[u] = [up[u] EXCEPT !.pc = "undoStop", !.backup = [@ EXCEPT !.kind = "truncated"]]
    BY <1>1, <1>7 DEF ArchiveFails
  <2>2. up[u].backup \in Backup
    BY <1>3 DEF Local
  <2>3. QED
    BY <1>3, <2>1, <2>2 DEF Local, Backup
<1>8. BackUp(u) => /\ up'[u].pc = "migrate" /\ up'[u].saved = system
                   /\ UNCHANGED <<up[u].noRestart, up[u].started, up[u].backup, up[u].result>>
  BY <1>3, <1>4 DEF Local
<1>9. Commit(u) => /\ up'[u].pc = AfterCommit(u) /\ up'[u].started
                   /\ UNCHANGED <<up[u].noRestart, up[u].backup, up[u].saved, up[u].result>>
  BY <1>3, <1>5 DEF Local
<1>10. Archive(u) => /\ up'[u].pc = "checkout" /\ up'[u].backup = Full(state)
                     /\ UNCHANGED <<up[u].noRestart, up[u].started, up[u].saved, up[u].result>>
  BY <1>3, <1>6 DEF Local
<1>11. QED
  BY <1>2, <1>7, <1>8, <1>9, <1>10

\* A result is known at the end; only what was started is undone.
LEMMA ResultTyped ==
  ASSUME TypeOK, Committed, NEW u \in Updater, Forward(u) \/ Back(u)
  PROVE  /\ up'[u].pc \in Step \cup Undo => up'[u].result = "none"
         /\ up'[u].pc = "exit" => up'[u].result # "none"
         /\ up'[u].pc \in Undo => up'[u].started
         /\ up'[u].pc \in Begun => up'[u].started
         /\ up'[u].pc \in Before => ~up'[u].started
         /\ up'[u].pc = "begin" => up'[u].result = "none"
<1>1. /\ up \in [Updater -> Local] /\ up[u] \in Local
      /\ up[u].pc \in Step \cup Undo => up[u].result = "none"
      /\ up[u].pc \in Begun => up[u].started
      /\ up[u].pc \in Before => ~up[u].started
      /\ "begin" \notin Step \cup Undo \cup Begun /\ "exit" \notin Step \cup Undo \cup Begun
      /\ "off" \notin Step \cup Undo \cup Begun
  BY DEF TypeOK, Committed, Step, Undo, Begun
<1>2. CASE Begin(u)
  BY <1>1, <1>2, Sets DEF Step, Undo, Begun, Before
<1>3. CASE Lock(u) \/ Cleanup(u)
  <2>1. CASE Lock(u)
    <3>1. \/ up'[u].pc = "exit" /\ up'[u].result = "refused"
          \/ up'[u].pc = "checks"
      BY <2>1, Moves DEF Lock, Step
    <3>2. up[u].result = "none" /\ up'[u].pc = "checks" => up'[u].result = "none"
      BY <2>1, Moves DEF Lock, Step
    <3>3. up[u].result = "none"
      BY <2>1 DEF Lock, At, Committed
    <3>4. ~up'[u].started
      BY <1>1, <2>1, Moves DEF Lock, At, Before, Step
    <3>5. QED
      BY <1>1, <3>1, <3>2, <3>3, <3>4 DEF Step, Undo, Begun, Before
  <2>2. CASE Cleanup(u)
    BY <1>1, <2>2, Moves, Sets DEF Cleanup, Step, Undo, Begun, Before, At
  <2>3. QED
    BY <1>3, <2>1, <2>2
<1>4. CASE Refuse(u) \/ Verified(u) \/ Interrupt(u) \/ UndoBoot(u)
  BY <1>1, <1>4, Moves DEF Refuse, Verified, Interrupt, UndoBoot, Step, Undo, Begun, Before, Working
<1>5. CASE Checks(u) \/ BackUp(u) \/ Migrate(u)
  <2>1. CASE Checks(u)
    BY <1>1, <2>1, Moves, Sets DEF Checks, Step, Undo, Begun, Before, At
  <2>2. CASE BackUp(u)
    BY <1>1, <2>2, Moves, Sets DEF BackUp, Step, Undo, Begun, Before, At
  <2>3. CASE Migrate(u)
    BY <1>1, <2>3, Moves, Sets DEF Migrate, Step, Undo, Begun, Before, At
  <2>4. QED
    BY <1>5, <2>1, <2>2, <2>3
<1>6. CASE Commit(u)
  BY <1>1, <1>6 DEF Commit, AfterCommit, Step, Undo, Begun, Before, At
<1>7. CASE Stop(u) \/ Archive(u) \/ Checkout(u) \/ Pull(u) \/ Integrate(u) \/ Boot(u)
  <2>1. CASE Stop(u)
    BY <1>1, <2>1, Moves, Sets DEF Stop, Step, Undo, Begun, Before, At
  <2>2. CASE Archive(u)
    <3>1. up[u].pc = "archive"
      BY <2>2 DEF Archive, At
    <3>2. up'[u].pc = "checkout" /\ up'[u].started = up[u].started /\ up'[u].result = up[u].result
      BY <2>2, Sets
    <3>3. QED
      BY <1>1, <3>1, <3>2 DEF Step, Undo, Begun, Before
  <2>3. CASE Pull(u)
    BY <1>1, <2>3, Moves, Sets DEF Pull, Step, Undo, Begun, Before, At
  <2>4. CASE Integrate(u)
    BY <1>1, <2>4, Moves, Sets DEF Integrate, Step, Undo, Begun, Before, At
  <2>5. CASE Boot(u)
    BY <1>1, <2>5, Moves, Sets DEF Boot, Step, Undo, Begun, Before, At
  <2>6. CASE Checkout(u)
    BY <1>1, <2>6, Moves, Sets DEF Checkout, Step, Undo, Begun, Before, At
  <2>7. QED
    BY <1>7, <2>1, <2>2, <2>3, <2>4, <2>5, <2>6
<1>8. CASE ArchiveFails(u)
  BY <1>1, <1>8 DEF ArchiveFails, Step, Undo, Begun, Before, At
<1>9. CASE StepFails(u)
  BY <1>1, <1>9, Moves DEF StepFails, OnError, Step, Undo, Begun, Before
<1>10. CASE UndoStop(u) \/ UndoCode(u) \/ UndoState(u) \/ Unpack(u) \/ UndoConfig(u) \/ UndoSystem(u)
  BY <1>1, <1>10, Moves DEF UndoStop, UndoCode, UndoState, Unpack, UndoConfig, UndoSystem,
     Step, Undo, Begun, Before, At
<1>11. QED
  BY <1>2, <1>3, <1>4, <1>5, <1>6, <1>7, <1>8, <1>9, <1>10 DEF Forward, Back

Notes == {"signal", "udev", "crowd", "backup", "unmigrated", "leftTracked", "emptied"}

LEMMA TypeStep ==
  ASSUME TypeOK, Committed, [Next]_vars
  PROVE  TypeOK' /\ Committed'
<1>1. ASSUME NEW u \in Updater, Forward(u) \/ Back(u) PROVE TypeOK' /\ Committed'
  <2>1. disturbed' \subseteq Notes /\ lock' \in BOOLEAN
    BY <1>1 DEF TypeOK, Notes, Forward, Back, Begin, Lock, Refuse, Checks, BackUp, Migrate,
       Commit, Stop, Archive, Checkout, Pull, Integrate, Boot, Verified, Cleanup, StepFails,
       ArchiveFails, Interrupt, UndoStop, UndoCode, UndoState, Unpack,
       UndoConfig, UndoSystem, UndoBoot, Unmigrated, Flag
  <2>2. Fault \/ NoFault
    BY <1>1 DEF NoFault, Forward, Back, Begin, Lock, Refuse, Checks, BackUp, Migrate,
       Commit, Stop, Archive, Checkout, Pull, Integrate, Boot, Verified, Cleanup, StepFails,
       ArchiveFails, Interrupt, UndoStop, UndoCode, UndoState, Unpack, UndoConfig, UndoSystem,
       UndoBoot
  <2>3. faults' \in 0..MaxFaults
    BY <2>2, FaultTyped
  <2>4. Committed'
    BY <1>1, OwnStep, ResultTyped DEF Committed
  <2>5. \A v \in Updater :
          /\ up'[v].pc \in Step \cup Undo => up'[v].result = "none"
          /\ up'[v].pc = "exit" => up'[v].result # "none"
          /\ up'[v].pc \in Undo => up'[v].started
    BY <1>1, OwnStep, ResultTyped DEF TypeOK
  <2>6. QED
    BY <1>1, <2>1, <2>3, <2>4, <2>5, OwnStep, DiskTyped DEF TypeOK, Notes
<1>2. CASE Save \/ UdevEvent
  <2>1. faults' \in 0..MaxFaults
    BY <1>2, FaultTyped DEF Save, UdevEvent, NoFault
  <2>2. state' \in State
    <3>1. CASE Save
      BY <3>1, ConstantsAssumption DEF TypeOK, Save, State
    <3>2. CASE UdevEvent
      BY <3>2 DEF TypeOK, UdevEvent, disk
    <3>3. QED
      BY <1>2, <3>1, <3>2
  <2>3. running' \in Revision \cup {"none"} /\ disturbed' \subseteq Notes
    BY <1>2 DEF TypeOK, Save, UdevEvent, StartServices, Notes, Flag
  <2>4. UNCHANGED <<up, lock, code, system, config, owed>>
    BY <1>2 DEF Save, UdevEvent, disk
  <2>5. QED
    BY <2>1, <2>2, <2>3, <2>4 DEF TypeOK, Committed, Notes
<1>3. CASE UNCHANGED vars
  BY <1>3 DEF TypeOK, Committed, vars, disk
<1>4. QED
  BY <1>1, <1>2, <1>3 DEF Next

-----------------------------------------------------------------------------
(* One run at a time, unless the lock was lost                             *)

LEMMA WorkingStep ==
  ASSUME TypeOK, NEW u \in Updater, Forward(u) \/ Back(u)
  PROVE  /\ disturbed \subseteq disturbed'
         /\ \A v \in Updater : v # u => (v \in Working' <=> v \in Working)
         /\ u \in Working' /\ u \notin Working =>
              Lock(u) /\ up'[u].pc = "checks" /\ ("crowd" \in disturbed' \/ Working = {})
         /\ u \notin Working =>
              UNCHANGED <<disk, running, owed>> /\ (UNCHANGED disturbed \/ u \in Working')
<1>1. disturbed \subseteq disturbed'
  BY DEF Forward, Back, Begin, Lock, Refuse, Checks, BackUp, Migrate,
     Commit, Stop, Archive, Checkout, Pull, Integrate, Boot, Verified, Cleanup, StepFails,
     ArchiveFails, Interrupt, UndoStop, UndoCode, UndoState, Unpack,
       UndoConfig, UndoSystem, UndoBoot, Unmigrated, Flag
<1>2. \A v \in Updater : v # u => (v \in Working' <=> v \in Working)
  BY OwnStep DEF Working
<1>3. u \notin Working => Begin(u) \/ Lock(u) \/ Cleanup(u)
  BY DEF Forward, Back, Refuse, Checks, BackUp, Migrate, Commit, Stop, Archive, Checkout, Pull,
     Integrate, Boot, Verified, StepFails, ArchiveFails, Interrupt, UndoStop, UndoCode,
     UndoState, Unpack, UndoConfig, UndoSystem, UndoBoot, Working, At, Step, Undo
<1>4. CASE Begin(u) \/ Cleanup(u)
  <2>1. up'[u].pc \in {"begin", "off"}
    BY <1>4, Moves, Sets DEF Cleanup
  <2>2. u \notin Working'
    BY <2>1 DEF Working, Step, Undo
  <2>3. UNCHANGED <<disk, running, owed, disturbed>>
    BY <1>4 DEF Begin, Cleanup
  <2>4. QED
    BY <1>1, <1>2, <2>2, <2>3
<1>5. CASE Lock(u)
  <2>1. UNCHANGED <<disk, running, owed>>
    BY <1>5 DEF Lock
  <2>2. CASE lock
    <3>1. up'[u].pc = "exit" /\ UNCHANGED disturbed
      BY <1>5, <2>2, Moves DEF Lock
    <3>2. u \notin Working'
      BY <3>1 DEF Working, Step, Undo
    <3>3. QED
      BY <1>1, <1>2, <2>1, <3>1, <3>2
  <2>3. CASE ~lock
    <3>1. up'[u].pc = "checks" /\ ("crowd" \in disturbed' \/ Working = {})
      BY <1>5, <2>3, Moves DEF Lock, Step
    <3>2. u \in Working'
      BY <3>1 DEF Working, Step
    <3>3. QED
      BY <1>1, <1>2, <1>5, <2>1, <3>1, <3>2
  <2>4. QED
    BY <2>2, <2>3
<1>6. CASE u \in Working
  BY <1>1, <1>2, <1>6
<1>7. QED
  BY <1>3, <1>4, <1>5, <1>6

\* Either the step has no effect on what is shared, or nobody else works.
LEMMA NobodyElse ==
  ASSUME TypeOK, Sole, NEW u \in Updater, Forward(u) \/ Back(u), "crowd" \notin disturbed'
  PROVE  \/ /\ UNCHANGED <<disk, running, owed, disturbed>>
            /\ Working' = Working /\ \A v \in Working : up'[v] = up[v]
         \/ \A v \in Updater : v # u => v \notin Working /\ v \notin Working'
<1>1. "crowd" \notin disturbed
  BY WorkingStep
<1>2. CASE u \in Working
  BY <1>1, <1>2, WorkingStep DEF Sole, Working
<1>3. CASE u \notin Working
  <2>1. CASE u \in Working'
    BY <1>1, <1>3, <2>1, WorkingStep DEF Working
  <2>2. CASE u \notin Working'
    <3>1. Working' = Working
      BY <1>3, <2>2, WorkingStep DEF Working
    <3>2. \A v \in Working : up'[v] = up[v]
      BY <1>3, OwnStep DEF Working
    <3>3. QED
      BY <1>3, <2>2, <3>1, <3>2, WorkingStep
  <2>3. QED
    BY <2>1, <2>2
<1>4. QED
  BY <1>2, <1>3

LEMMA SoleStep ==
  ASSUME TypeOK, Sole, [Next]_vars
  PROVE  Sole'
<1>1. ASSUME NEW u \in Updater, Forward(u) \/ Back(u) PROVE Sole'
  <2>1. SUFFICES ASSUME "crowd" \notin disturbed' PROVE \A v, w \in Working' : v = w
    BY DEF Sole
  <2>2. \A v \in Working' : v \in Updater
    BY DEF Working
  <2>3. CASE Working' = Working /\ UNCHANGED disturbed
    BY <2>1, <2>3 DEF Sole
  <2>4. CASE \A v \in Updater : v # u => v \notin Working'
    BY <2>2, <2>4
  <2>5. QED
    BY <1>1, <2>1, <2>3, <2>4, NobodyElse
<1>2. CASE Save \/ UdevEvent
  BY <1>2 DEF Save, UdevEvent, Sole, Working
<1>3. CASE UNCHANGED vars
  BY <1>3 DEF vars, Sole, Working
<1>4. QED
  BY <1>1, <1>2, <1>3 DEF Next

-----------------------------------------------------------------------------
(* The state survives                                                      *)

\* No archive is older than the stop it was made after, and what is not in
\* STATE_DIR is in an archive that is about to be unpacked.
Held ==
  /\ \A u \in Updater :
       up[u].pc \in {"begin", "checks", "backup", "migrate", "commit", "stop", "archive"} =>
         up[u].backup.kind = "none"
  /\ "crowd" \notin disturbed /\ "backup" \notin disturbed =>
       \A u \in Working : up[u].backup.kind # "truncated"
  /\ "crowd" \notin disturbed /\ "backup" \notin disturbed /\ "emptied" \notin disturbed =>
       /\ \/ state.saves >= owed
          \/ \E u \in Working : up[u].pc = "unpack" /\ up[u].backup.kind = "full"
       /\ \A u \in Working : up[u].backup.kind = "full" => up[u].backup.held.saves >= owed

LEMMA EmptyStep ==
  ASSUME TypeOK, Held, NEW u \in Updater, Forward(u) \/ Back(u),
         up'[u].pc \in {"begin", "checks", "backup", "migrate", "commit", "stop", "archive"}
  PROVE  up'[u].backup.kind = "none"
<1> DEFINE Early == {"begin", "checks", "backup", "migrate", "commit", "stop", "archive"}
<1>1. up[u].pc \in Early => up[u].backup.kind = "none"
  BY DEF Held
<1>2. CASE Begin(u) \/ BackUp(u) \/ Commit(u)
  <2>1. Begin(u) \/ up[u].pc \in Early
    BY <1>2 DEF BackUp, Commit, At
  <2>2. QED
    BY <1>1, <1>2, <2>1, Sets
<1>3. CASE Lock(u) \/ Checks(u) \/ Migrate(u) \/ Stop(u)
  <2>1. up[u].pc \in Early
    BY <1>3 DEF Lock, Checks, Migrate, Stop, At
  <2>2. UNCHANGED up[u].backup
    BY <1>3, Moves DEF Lock, Checks, Migrate, Stop, Step
  <2>3. QED
    BY <1>1, <2>1, <2>2
<1>4. CASE Archive(u) \/ ArchiveFails(u)
  BY <1>4, Sets
<1>5. CASE Checkout(u) \/ Pull(u) \/ Integrate(u) \/ Boot(u) \/ Refuse(u) \/ Verified(u) \/ Cleanup(u)
  BY <1>5, Moves DEF Checkout, Pull, Integrate, Boot, Refuse, Verified, Cleanup, Step
<1>6. CASE StepFails(u) \/ Interrupt(u) \/ UndoStop(u) \/ UndoCode(u) \/ UndoState(u)
           \/ Unpack(u) \/ UndoConfig(u) \/ UndoSystem(u) \/ UndoBoot(u)
  BY <1>6, Moves DEF StepFails, OnError, Interrupt, UndoStop, UndoCode, UndoState, Unpack,
     UndoConfig, UndoSystem, UndoBoot, Undo
<1>7. QED
  BY <1>2, <1>3, <1>4, <1>5, <1>6 DEF Forward, Back

\* A step of the only run that works
LEMMA AloneHeldStep ==
  ASSUME TypeOK, TypeOK', Held, NEW u \in Updater, Forward(u) \/ Back(u),
         \A v \in Updater : v # u => v \notin Working,
         "crowd" \notin disturbed, "backup" \notin disturbed', "emptied" \notin disturbed',
         "backup" \notin disturbed, "emptied" \notin disturbed
  PROVE  /\ \/ state'.saves >= owed'
            \/ u \in Working' /\ up'[u].pc = "unpack" /\ up'[u].backup.kind = "full"
         /\ u \in Working' /\ up'[u].backup.kind = "full" => up'[u].backup.held.saves >= owed'
<1> DEFINE Good == up[u].backup.kind = "full" => up[u].backup.held.saves >= owed
<1>1. /\ state.saves >= owed \/ (u \in Working /\ up[u].pc = "unpack" /\ up[u].backup.kind = "full")
      /\ u \in Working => Good
      /\ {state.saves, owed} \subseteq Nat /\ up[u] \in Local
  BY ConstantsAssumption DEF Held, TypeOK, State, Working
<1>2. CASE Stop(u)
  <2>1. state'.saves = owed' /\ state'.saves \in Nat
    BY <1>2, ConstantsAssumption DEF Stop, TypeOK, State
  <2>2. up'[u].backup.kind = "none"
    BY <1>2, Moves DEF Stop, Held, At, Step
  <2>3. QED
    BY <2>1, <2>2
<1>3. CASE UndoStop(u)
  <2>1. state'.saves >= state.saves /\ state'.saves \in Nat /\ owed' = owed
    BY <1>1, <1>3, SavesTyped, ConstantsAssumption DEF UndoStop, StopServices, State, TypeOK
  <2>2. up'[u].backup = up[u].backup /\ u \in Working /\ up[u].pc = "undoStop"
    BY <1>3, Moves DEF UndoStop, Working, At, Undo
  <2>3. QED
    BY <1>1, <2>1, <2>2
<1>4. CASE Archive(u)
  <2>1. UNCHANGED <<state, owed>> /\ up'[u].backup = Full(state) /\ up[u].pc = "archive"
    BY <1>4, Sets DEF Archive, disk, At
  <2>2. QED
    BY <1>1, <2>1 DEF Full
<1>5. CASE ArchiveFails(u)
  BY <1>5 DEF ArchiveFails
<1>6. CASE UndoState(u)
  <2>1. up'[u].backup = up[u].backup /\ u \in Working /\ owed' = owed /\ up[u].pc = "undoState"
    BY <1>6, Moves DEF UndoState, Working, At, Undo
  <2>2. CASE up[u].backup.kind = "none"
    BY <1>1, <1>6, <2>1, <2>2 DEF UndoState
  <2>3. CASE up[u].backup.kind # "none"
    <3>1. up[u].backup.kind = "full"
      BY <1>1, <2>1, <2>3 DEF Held, Local, Backup
    <3>2. up'[u].pc = "unpack" /\ u \in Working'
      BY <1>6, <2>3, Moves DEF UndoState, Undo, Working
    <3>3. QED
      BY <1>1, <2>1, <3>1, <3>2
  <2>4. QED
    BY <2>2, <2>3
<1>7. CASE Unpack(u)
  <2>1. up'[u].backup = up[u].backup /\ u \in Working /\ owed' = owed
    BY <1>7, Moves DEF Unpack, Working, At, Undo
  <2>2. state'.saves >= owed
    BY <1>1, <1>7, <2>1 DEF Unpack
  <2>3. QED
    BY <1>1, <2>1, <2>2
<1>8. CASE Interrupt(u)
  <2>1. up[u].pc # "unpack" /\ UNCHANGED <<state, owed>> /\ up'[u].pc = "exit"
    BY <1>8, Moves DEF Interrupt, Flag, At, disk
  <2>2. QED
    BY <1>1, <2>1 DEF Working, Step, Undo
<1>9. CASE Lock(u)
  <2>1. UNCHANGED <<state, owed>> /\ up[u].backup.kind = "none" /\ up'[u].backup = up[u].backup
    BY <1>9, Moves DEF Lock, disk, Held, At, Step
  <2>2. QED
    BY <1>1, <2>1
<1>10. CASE Begin(u)
  <2>1. UNCHANGED <<state, owed>> /\ up'[u].backup.kind = "none" /\ up[u].pc = "off"
    BY <1>10, Sets DEF Begin, disk, At
  <2>2. QED
    BY <1>1, <2>1
<1>11. CASE Refuse(u) \/ Verified(u) \/ Cleanup(u) \/ UndoBoot(u)
  <2>1. UNCHANGED <<state, owed>> /\ up'[u].pc \in {"exit", "off"} /\ up[u].pc # "unpack"
    BY <1>11, Moves DEF Refuse, Verified, Cleanup, UndoBoot, disk, At
  <2>2. QED
    BY <1>1, <2>1 DEF Working, Step, Undo
<1>12. CASE BackUp(u) \/ Commit(u)
  <2>1. UNCHANGED <<state, owed>> /\ up'[u].backup = up[u].backup /\ u \in Working
        /\ up[u].pc # "unpack"
    BY <1>12, Sets DEF BackUp, Commit, disk, Working, At, Step
  <2>2. QED
    BY <1>1, <2>1
<1>13. CASE Checks(u) \/ Migrate(u) \/ Checkout(u) \/ Pull(u) \/ Integrate(u) \/ Boot(u) \/ StepFails(u)
            \/ UndoCode(u) \/ UndoConfig(u) \/ UndoSystem(u)
  <2>1. UNCHANGED <<state, owed>> /\ up'[u].backup = up[u].backup /\ u \in Working
        /\ up[u].pc # "unpack"
    BY <1>13, Moves DEF Checks, Migrate, Checkout, Pull, Integrate, Boot, StepFails, OnError, UndoCode,
       UndoConfig, UndoSystem, disk, Working, At, Step, Undo
  <2>2. QED
    BY <1>1, <2>1
<1>14. QED
  BY <1>2, <1>3, <1>4, <1>5, <1>6, <1>7, <1>8, <1>9, <1>10, <1>11, <1>12, <1>13 DEF Forward, Back

\* Only a failure to write the archive leaves a truncated one.
LEMMA WholeStep ==
  ASSUME TypeOK, TypeOK', Held, NEW u \in Updater, Forward(u) \/ Back(u), u \in Working',
         "crowd" \notin disturbed, "backup" \notin disturbed, "backup" \notin disturbed'
  PROVE  up'[u].backup.kind # "truncated"
<1>1. u \in Working => up[u].backup.kind # "truncated"
  BY DEF Held
<1>2. CASE Begin(u) \/ Archive(u)
  BY <1>2, Sets DEF Full
<1>3. CASE ArchiveFails(u)
  BY <1>3 DEF ArchiveFails
<1>4. CASE BackUp(u) \/ Commit(u)
  <2>1. up'[u].backup = up[u].backup /\ u \in Working
    BY <1>4, Sets DEF BackUp, Commit, Working, At, Step
  <2>2. QED
    BY <1>1, <2>1
<1>5. CASE Lock(u)
  <2>1. up[u].backup.kind = "none" /\ up'[u].backup = up[u].backup
    BY <1>5, Moves DEF Lock, Held, At, Step
  <2>2. QED
    BY <2>1
<1>6. CASE Refuse(u) \/ Verified(u) \/ Cleanup(u) \/ Interrupt(u) \/ UndoBoot(u)
  <2>1. up'[u].pc \in {"exit", "off"}
    BY <1>6, Moves DEF Refuse, Verified, Cleanup, Interrupt, UndoBoot
  <2>2. QED
    BY <2>1 DEF Working, Step, Undo
<1>7. CASE Checks(u) \/ Migrate(u) \/ Stop(u) \/ Checkout(u) \/ Pull(u) \/ Integrate(u) \/ Boot(u)
           \/ StepFails(u)
  <2>1. up'[u].backup = up[u].backup /\ u \in Working
    BY <1>7, Moves DEF Checks, Migrate, Stop, Checkout, Pull, Integrate, Boot, StepFails, OnError,
       Working, At, Step, Undo
  <2>2. QED
    BY <1>1, <2>1
<1>8. CASE UndoStop(u) \/ UndoCode(u) \/ UndoState(u) \/ Unpack(u) \/ UndoConfig(u) \/ UndoSystem(u)
  <2>1. up'[u].backup = up[u].backup /\ u \in Working
    BY <1>8, Moves DEF UndoStop, UndoCode, UndoState, Unpack, UndoConfig, UndoSystem,
       Working, At, Undo
  <2>2. QED
    BY <1>1, <2>1
<1>9. QED
  BY <1>2, <1>3, <1>4, <1>5, <1>6, <1>7, <1>8 DEF Forward, Back

LEMMA HeldStep ==
  ASSUME TypeOK, TypeOK', Sole, Held, [Next]_vars
  PROVE  Held'
<1> DEFINE Early == {"begin", "checks", "backup", "migrate", "commit", "stop", "archive"}
           Safe == \/ state.saves >= owed
                   \/ \E v \in Working : up[v].pc = "unpack" /\ up[v].backup.kind = "full"
           Good(v) == up[v].backup.kind = "full" => up[v].backup.held.saves >= owed
<1>1. ASSUME NEW u \in Updater, Forward(u) \/ Back(u) PROVE Held'
  <2>1. \A v \in Updater : up'[v].pc \in Early => up'[v].backup.kind = "none"
    BY <1>1, EmptyStep, OwnStep DEF Held
  <2>2. SUFFICES ASSUME "crowd" \notin disturbed', "backup" \notin disturbed'
                 PROVE  /\ \A v \in Working' : up'[v].backup.kind # "truncated"
                        /\ "emptied" \notin disturbed' => Safe' /\ \A v \in Working' : Good(v)'
    BY <2>1 DEF Held
  <2>3. disturbed \subseteq disturbed' /\ Working \subseteq Updater /\ Working' \subseteq Updater
    BY <1>1, WorkingStep DEF Working
  <2>4. CASE /\ UNCHANGED <<disk, running, owed, disturbed>>
             /\ Working' = Working /\ \A v \in Working : up'[v] = up[v]
    BY <2>2, <2>4 DEF disk, Held
  <2>5. CASE \A v \in Updater : v # u => v \notin Working /\ v \notin Working'
    <3>1. \A v \in Working' : up'[v].backup.kind # "truncated"
      BY <1>1, <2>2, <2>3, <2>5, WholeStep
    <3>2. ASSUME "emptied" \notin disturbed' PROVE Safe' /\ \A v \in Working' : Good(v)'
      BY <1>1, <2>2, <2>3, <2>5, <3>2, AloneHeldStep
    <3>3. QED
      BY <3>1, <3>2
  <2>6. QED
    BY <1>1, <2>2, <2>4, <2>5, NobodyElse
<1>2. CASE Save \/ UdevEvent
  <2>1. UNCHANGED <<up, owed>> /\ state'.saves >= state.saves /\ disturbed \subseteq disturbed'
        /\ {state.saves, state'.saves, owed} \subseteq Nat
    <3>1. CASE Save
      BY <3>1, ConstantsAssumption DEF Save, TypeOK, State
    <3>2. CASE UdevEvent
      <4>1. UNCHANGED <<up, owed, state>> /\ disturbed \subseteq disturbed'
        BY <3>2 DEF UdevEvent, disk
      <4>2. {state.saves, owed} \subseteq Nat
        BY ConstantsAssumption DEF TypeOK, State
      <4>3. QED
        BY <4>1, <4>2
    <3>3. QED
      BY <1>2, <3>1, <3>2
  <2>2. Safe => Safe'
    BY <2>1 DEF Working
  <2>3. QED
    BY <2>1, <2>2 DEF Held, Working
<1>3. CASE UNCHANGED vars
  BY <1>3 DEF vars, disk, Held, Working
<1>4. QED
  BY <1>1, <1>2, <1>3 DEF Next

-----------------------------------------------------------------------------
(* The edited config.json                                                  *)

\* The migration has put it away before anything else could overwrite it.
Migrated(u) ==
  up[u].pc = "pull" \/ (up[u].pc \in Begun \cup {"commit"} /\ ~up[u].noRestart)

\* Where the tracked config.json may be back: from git checkout to git pull,
\* and in a rollback until config.json.legacy replaces it
Beside == {"pull", "undoStop", "undoCode", "undoState", "unpack", "undoConfig"}

Right ==
  /\ "local" \in {config.json, config.legacy}
  /\ config.legacy # "tracked"
  /\ config.json = "tracked" =>
       config.legacy = "local" /\ \E u \in Working : up[u].pc \in Beside
  /\ \A u \in Working : Migrated(u) => config.legacy = "local"

Kept ==
  config.tracked /\ "crowd" \notin disturbed /\ "unmigrated" \notin disturbed
      /\ "leftTracked" \notin disturbed => Right

LEMMA ConfigStep ==
  ASSUME TypeOK, TypeOK', Committed, Right, config.tracked, NEW u \in Updater, Forward(u) \/ Back(u),
         \A v \in Updater : v # u => v \notin Working /\ v \notin Working',
         "crowd" \notin disturbed', "unmigrated" \notin disturbed', "leftTracked" \notin disturbed'
  PROVE  Right'
<1>1. config \in Config /\ up \in [Updater -> Local] /\ Working \subseteq Updater
      /\ Working' \subseteq Updater
  BY DEF TypeOK, Working
<1>2. config.json = "tracked" => up[u].pc \in Beside /\ u \in Working
  BY <1>1 DEF Right
<1>3. u \in Working /\ Migrated(u) => config.legacy = "local"
  BY DEF Right
<1>4. SUFFICES /\ "local" \in {config'.json, config'.legacy}
               /\ config'.legacy # "tracked"
               /\ config'.json = "tracked" => config'.legacy = "local" /\ up'[u].pc \in Beside
               /\ u \in Working' /\ Migrated(u)' => config'.legacy = "local"
  <2>1. up'[u].pc \in Beside => u \in Working'
    BY DEF Working, Undo, Step, Beside
  <2>2. QED
    BY <1>1, <1>4, <2>1 DEF Right
<1>5. CASE Migrate(u)
  <2>1. config.json # "tracked" /\ up[u].noRestart' = up[u].noRestart /\ up'[u].pc = "commit"
    BY <1>2, <1>5, Moves DEF Migrate, At, Step, Beside
  <2>2. CASE up[u].noRestart \/ config.json = "absent"
    BY <1>1, <1>5, <2>1, <2>2 DEF Migrate, Right, Migrated
  <2>3. CASE ~(up[u].noRestart \/ config.json = "absent")
    <3>1. config'.json = "absent" /\ config'.legacy = config.json /\ config.json = "local"
      BY <1>1, <1>5, <2>1, <2>3 DEF Migrate, Legacy, Config
    <3>2. QED
      BY <3>1
  <2>4. QED
    BY <2>2, <2>3
<1>6. CASE Pull(u)
  <2>1. config'.json = "absent" /\ config'.legacy = config.legacy
    BY <1>1, <1>6 DEF Pull, Config
  <2>2. u \in Working /\ Migrated(u)
    BY <1>6 DEF Pull, Working, At, Step, Migrated
  <2>3. QED
    BY <1>3, <2>1, <2>2
<1>7. CASE Checkout(u) \/ UndoCode(u)
  <2>1. config'.json = "tracked" /\ config'.legacy = config.legacy
    BY <1>1, <1>7 DEF Checkout, UndoCode, Tracked, Config
  <2>2. u \in Working /\ up[u].pc \in Begun
    BY <1>7 DEF Checkout, UndoCode, Working, At, Step, Undo, Begun
  <2>3. config.legacy = "local"
    <3>1. CASE up[u].noRestart
      BY <1>7, <3>1 DEF Checkout, UndoCode, Unmigrated, Right
    <3>2. CASE ~up[u].noRestart
      BY <1>3, <2>2, <3>2 DEF Migrated
    <3>3. QED
      BY <3>1, <3>2
  <2>4. up'[u].pc \in Beside
    BY <1>7, Moves DEF Checkout, UndoCode, Undo, Step, Beside
  <2>5. QED
    BY <2>1, <2>3, <2>4
<1>8. CASE UndoConfig(u)
  <2>1. config'.legacy = config.legacy
    BY <1>1, <1>8 DEF UndoConfig, Config
  <2>2. config.legacy = "absent" => config'.json = config.json /\ config.json = "local"
    BY <1>8 DEF UndoConfig, Right
  <2>3. config.legacy = "local" => config'.json # "tracked"
    BY <1>1, <1>8 DEF UndoConfig, Config
  <2>4. config.legacy \in {"absent", "local"}
    BY <1>1 DEF Config, Right
  <2>5. u \in Working /\ UNCHANGED up[u].noRestart /\ up[u].pc \in Begun /\ up'[u].pc = "undoSystem"
    BY <1>8, Moves DEF UndoConfig, Working, At, Undo, Begun
  <2>6. ~up[u].noRestart => config.legacy = "local"
    BY <1>3, <2>5 DEF Migrated
  <2>7. QED
    BY <2>1, <2>2, <2>3, <2>4, <2>5, <2>6 DEF Migrated
<1>9. ASSUME UNCHANGED config, config.json = "tracked" => up'[u].pc \in Beside,
             u \in Working' /\ Migrated(u)' => u \in Working /\ Migrated(u)
      PROVE  /\ "local" \in {config'.json, config'.legacy}
             /\ config'.legacy # "tracked"
             /\ config'.json = "tracked" => config'.legacy = "local" /\ up'[u].pc \in Beside
             /\ u \in Working' /\ Migrated(u)' => config'.legacy = "local"
  BY <1>3, <1>9 DEF Right
<1>10. CASE Begin(u) \/ Cleanup(u) \/ Refuse(u) \/ Verified(u) \/ UndoBoot(u)
  <2>1. UNCHANGED config /\ up[u].pc \notin Beside
    BY <1>10 DEF Begin, Cleanup, Refuse, Verified, UndoBoot, At, disk, Beside
  <2>2. up'[u].pc \in {"begin", "off", "exit"}
    BY <1>10, Moves, Sets DEF Cleanup, Refuse, Verified, UndoBoot
  <2>3. QED
    BY <1>2, <1>9, <2>1, <2>2 DEF Working, Step, Undo
<1>11. CASE Lock(u) \/ Checks(u)
  <2>1. UNCHANGED config /\ up[u].pc \notin Beside
    BY <1>11 DEF Lock, Checks, At, disk, Beside
  <2>2. up'[u].pc \in {"checks", "exit", "backup"}
    BY <1>11, Moves DEF Lock, Checks, Step
  <2>3. QED
    BY <1>2, <1>9, <2>1, <2>2 DEF Migrated, Begun, Undo
<1>12. CASE BackUp(u) \/ Commit(u)
  <2>1. UNCHANGED config /\ up[u].pc \in {"backup", "commit"} /\ u \in Working
        /\ UNCHANGED up[u].noRestart
        /\ ((up[u].pc = "commit" /\ up'[u].pc # "pull") \/ up'[u].pc = "migrate")
    BY <1>12, Sets DEF BackUp, Commit, AfterCommit, At, disk, Working, Step
  <2>2. QED
    BY <1>2, <1>9, <2>1 DEF Migrated, Begun, Undo, Beside
<1>13. CASE Archive(u) \/ ArchiveFails(u)
  <2>1. UNCHANGED config /\ up[u].pc = "archive" /\ u \in Working /\ UNCHANGED up[u].noRestart
        /\ up'[u].pc # "pull"
    BY <1>13, Sets DEF Archive, ArchiveFails, At, disk, Working, Step
  <2>2. QED
    BY <1>2, <1>9, <2>1 DEF Migrated, Begun, Beside
<1>14. CASE Stop(u) \/ Integrate(u) \/ Boot(u) \/ UndoSystem(u)
  <2>1. UNCHANGED config /\ up[u].pc \in Begun /\ up[u].pc \notin Beside /\ u \in Working
    BY <1>14 DEF Stop, Integrate, Boot, UndoSystem, At, disk, Working, Step, Begun, Undo, Beside
  <2>2. UNCHANGED up[u].noRestart /\ up'[u].pc # "pull"
    BY <1>14, Moves DEF Stop, Integrate, Boot, UndoSystem, Step, Undo
  <2>3. QED
    BY <1>2, <1>9, <2>1, <2>2 DEF Migrated
<1>15. CASE UndoStop(u) \/ UndoState(u) \/ Unpack(u)
  <2>1. UNCHANGED config /\ up[u].pc \in Begun /\ u \in Working
    BY <1>15 DEF UndoStop, UndoState, Unpack, At, Working, Begun, Undo
  <2>2. UNCHANGED up[u].noRestart /\ up'[u].pc \in {"undoCode", "unpack", "undoConfig"}
    BY <1>15, Moves DEF UndoStop, UndoState, Unpack, Undo
  <2>3. QED
    BY <1>9, <2>1, <2>2 DEF Migrated, Beside
<1>16. CASE Interrupt(u)
  <2>1. UNCHANGED config /\ config.json # "tracked" /\ up'[u].pc = "exit"
    BY <1>16, Moves DEF Interrupt, Flag, disk
  <2>2. QED
    BY <1>9, <2>1 DEF Working, Step, Undo
<1>17. CASE StepFails(u)
  <2>1. UNCHANGED config /\ up[u].pc \in Step /\ u \in Working
    BY <1>17 DEF StepFails, disk, Working
  <2>2. CASE up[u].started
    <3>1. up[u].pc \in Begun /\ UNCHANGED up[u].noRestart /\ up'[u].pc = "undoStop"
      BY <1>17, <2>1, <2>2, Moves DEF StepFails, OnError, Committed, Before, Step, Begun, Undo
    <3>2. QED
      BY <1>9, <2>1, <3>1 DEF Migrated, Beside
  <2>3. CASE ~up[u].started
    <3>1. up'[u].pc = "exit" /\ up[u].pc \notin Beside
      BY <1>17, <2>1, <2>3, Moves DEF StepFails, OnError, Committed, Begun, Beside, Undo
    <3>2. QED
      BY <1>2, <1>9, <2>1, <3>1 DEF Working, Step, Undo
  <2>4. QED
    BY <2>2, <2>3
<1>18. QED
  BY <1>5, <1>6, <1>7, <1>8, <1>10, <1>11, <1>12, <1>13, <1>14, <1>15, <1>16, <1>17 DEF Forward, Back

LEMMA KeptStep ==
  ASSUME TypeOK, TypeOK', Committed, Sole, Kept, [Next]_vars
  PROVE  Kept'
<1>1. ASSUME NEW u \in Updater, Forward(u) \/ Back(u) PROVE Kept'
  <2>1. config'.tracked = config.tracked
    BY <1>1 DEF TypeOK, Config, Tracked, Forward, Back, Begin, Lock, Refuse, Checks, BackUp, Migrate,
       Commit, Stop, Archive, Checkout, Pull, Integrate, Boot, Verified, Cleanup, StepFails, disk,
       ArchiveFails, Interrupt, UndoStop, UndoCode, UndoState, Unpack, UndoConfig, UndoSystem,
       UndoBoot
  <2>2. SUFFICES ASSUME config.tracked, "crowd" \notin disturbed', "unmigrated" \notin disturbed',
                        "leftTracked" \notin disturbed'
                 PROVE  Right'
    BY <2>1 DEF Kept
  <2>3. Right
    BY <1>1, <2>2, WorkingStep DEF Kept
  <2>4. CASE /\ UNCHANGED <<disk, running, owed, disturbed>>
             /\ Working' = Working /\ \A v \in Working : up'[v] = up[v]
    BY <2>3, <2>4 DEF disk, Right, Migrated
  <2>5. CASE \A v \in Updater : v # u => v \notin Working /\ v \notin Working'
    BY <1>1, <2>2, <2>3, <2>5, ConfigStep
  <2>6. QED
    BY <1>1, <2>2, <2>4, <2>5, NobodyElse
<1>2. CASE Save \/ UdevEvent
  <2>1. UNCHANGED <<up, config>> /\ disturbed \subseteq disturbed'
    BY <1>2 DEF Save, UdevEvent, disk
  <2>2. QED
    BY <2>1 DEF Kept, Right, Migrated, Working
<1>3. CASE UNCHANGED vars
  BY <1>3 DEF vars, disk, Kept, Right, Migrated, Working
<1>4. QED
  BY <1>1, <1>2, <1>3 DEF Next

-----------------------------------------------------------------------------
(* A completed update                                                      *)

\* What a run that has come that far has done
Done(u) ==
  /\ up[u].pc \in {"integrate", "boot", "verify"} => code = "new"
  /\ ~up[u].noRestart =>
       /\ up[u].pc \in {"boot", "verify"} => system = "new"
       /\ up[u].pc = "verify" => running = "new"
       /\ Stopped(u) => running = "none"

Forwards ==
  "crowd" \notin disturbed /\ "udev" \notin disturbed => \A u \in Working : Done(u)

\* Mind that --no-restart goes from the revision straight to the checks.
LEMMA DoneStep ==
  ASSUME TypeOK, TypeOK', Committed, NEW u \in Updater, Forward(u) \/ Back(u), u \in Working',
         u \in Working => Done(u)
  PROVE  Done(u)'
<1>1. u \in Working <=> up[u].pc \in Step \cup Undo
  BY DEF Working
<1>2. ASSUME up'[u].pc \in {"checks", "backup", "migrate", "commit", "stop", "undoStop"}
      PROVE  Done(u)'
  BY <1>2 DEF Done, Stopped
<1>3. CASE Begin(u) \/ Cleanup(u) \/ Refuse(u) \/ Verified(u) \/ UndoBoot(u) \/ Interrupt(u)
  <2>1. up'[u].pc \in {"begin", "off", "exit"}
    BY <1>3, Moves, Sets DEF Cleanup, Refuse, Verified, UndoBoot, Interrupt
  <2>2. QED
    BY <2>1 DEF Working, Step, Undo
<1>4. CASE Lock(u) \/ Checks(u) \/ BackUp(u) \/ Migrate(u) \/ StepFails(u) \/ ArchiveFails(u)
  <2>1. up'[u].pc \in {"checks", "backup", "migrate", "commit", "undoStop", "exit"}
    BY <1>4, Moves, Sets DEF Lock, Checks, BackUp, Migrate, StepFails, OnError, ArchiveFails,
       Step, Undo
  <2>2. QED
    BY <1>2, <2>1 DEF Working, Step, Undo
<1>5. CASE Commit(u)
  <2>1. IF up'[u].noRestart THEN up'[u].pc = "archive" ELSE up'[u].pc = "stop"
    BY <1>5, Sets DEF AfterCommit
  <2>2. QED
    BY <1>1, <2>1 DEF Done, Stopped, Undo
<1>6. CASE Stop(u)
  <2>1. up'[u].pc = "archive" /\ running' = "none"
    BY <1>6, Moves DEF Stop, StopServices, Step
  <2>2. QED
    BY <2>1 DEF Done
<1>7. CASE Archive(u)
  <2>1. up[u].pc = "archive" /\ up'[u].pc = "checkout" /\ UNCHANGED <<running, up[u].noRestart>>
    BY <1>7, Sets DEF Archive, At
  <2>2. QED
    BY <1>1, <2>1 DEF Done, Stopped, Step
<1>8. CASE Pull(u)
  <2>1. up[u].pc = "pull" /\ code' = "new" /\ UNCHANGED <<running, up[u].noRestart>>
        /\ up'[u].pc = IF up[u].noRestart THEN "verify" ELSE "integrate"
    BY <1>8, Moves DEF Pull, At, Step
  <2>2. QED
    BY <1>1, <2>1 DEF Done, Stopped, Step
<1>9. CASE Integrate(u)
  <2>1. up[u].pc = "integrate" /\ up'[u].pc = "boot" /\ system' = "new"
        /\ UNCHANGED <<code, running, up[u].noRestart>>
    BY <1>9, Moves DEF Integrate, At, Step
  <2>2. QED
    BY <1>1, <2>1 DEF Done, Stopped, Step
<1>10. CASE Boot(u)
  <2>1. up[u].pc = "boot" /\ up'[u].pc = "verify"
        /\ running' = (IF running = "none" THEN code ELSE running)
        /\ UNCHANGED <<code, system, up[u].noRestart>>
    BY <1>10, Moves DEF Boot, StartServices, At, Step, disk
  <2>2. QED
    BY <1>1, <2>1 DEF Done, Stopped, Step
<1>11. CASE UndoStop(u)
  <2>1. up'[u].pc = "undoCode" /\ UNCHANGED up[u].noRestart
        /\ (~up[u].noRestart => running' = "none")
    BY <1>11, Moves DEF UndoStop, StopServices, Undo
  <2>2. QED
    BY <2>1 DEF Done
<1>12. CASE UndoCode(u) \/ UndoState(u) \/ Unpack(u) \/ UndoConfig(u) \/ UndoSystem(u)
  <2>1. up[u].pc \in {"undoCode", "undoState", "unpack", "undoConfig", "undoSystem"}
        /\ up'[u].pc \in {"undoState", "unpack", "undoConfig", "undoSystem", "undoBoot"}
        /\ UNCHANGED <<running, up[u].noRestart>>
    BY <1>12, Moves DEF UndoCode, UndoState, Unpack, UndoConfig, UndoSystem, At, Undo
  <2>2. QED
    BY <1>1, <2>1 DEF Done, Stopped, Undo
<1>13. CASE Checkout(u)
  <2>1. up[u].pc = "checkout" /\ up'[u].pc = "pull" /\ UNCHANGED <<running, up[u].noRestart>>
    BY <1>13, Moves DEF Checkout, At, Step
  <2>2. QED
    BY <1>1, <2>1 DEF Done, Stopped, Step
<1>14. QED
  BY <1>3, <1>4, <1>5, <1>6, <1>7, <1>8, <1>9, <1>10, <1>11, <1>12, <1>13 DEF Forward, Back

LEMMA ForwardsStep ==
  ASSUME TypeOK, TypeOK', Committed, Sole, Forwards, [Next]_vars
  PROVE  Forwards'
<1>1. ASSUME NEW u \in Updater, Forward(u) \/ Back(u) PROVE Forwards'
  <2>1. SUFFICES ASSUME "crowd" \notin disturbed', "udev" \notin disturbed'
                 PROVE  \A v \in Working' : Done(v)'
    BY DEF Forwards
  <2>2. \A v \in Working : Done(v)
    BY <1>1, <2>1, WorkingStep DEF Forwards
  <2>3. CASE /\ UNCHANGED <<disk, running, owed, disturbed>>
             /\ Working' = Working /\ \A v \in Working : up'[v] = up[v]
    BY <2>2, <2>3 DEF disk, Done, Stopped
  <2>4. CASE \A v \in Updater : v # u => v \notin Working /\ v \notin Working'
    <3>1. u \in Working' => Done(u)'
      BY <1>1, <2>2, DoneStep
    <3>2. QED
      BY <2>4, <3>1 DEF Working
  <2>5. QED
    BY <1>1, <2>1, <2>3, <2>4, NobodyElse
<1>2. CASE Save
  BY <1>2 DEF Save, Forwards, Working, Done, Stopped
<1>3. CASE UdevEvent
  <2>1. SUFFICES ASSUME "crowd" \notin disturbed', "udev" \notin disturbed',
                        NEW u \in Working'
                 PROVE  Done(u)'
    BY DEF Forwards
  <2>2. u \in Working /\ u \in Updater /\ UNCHANGED <<up, code, system>> /\ running = "none"
    BY <1>3 DEF UdevEvent, disk, Working
  <2>3. Done(u) /\ ~(Stopped(u) /\ ~up[u].noRestart)
    BY <1>3, <2>1, <2>2 DEF UdevEvent, Forwards, Flag
  <2>4. QED
    BY <2>2, <2>3 DEF Done, Stopped
<1>4. CASE UNCHANGED vars
  BY <1>4 DEF vars, disk, Forwards, Working, Done, Stopped
<1>5. QED
  BY <1>1, <1>2, <1>3, <1>4 DEF Next

-----------------------------------------------------------------------------
(* A completed rollback                                                    *)

Quiet == disturbed \cap {"crowd", "udev", "backup", "signal"} = {}

\* While run u works, what is new and who runs tell how far it is.
Seen(u) ==
  /\ up[u].saved = "old"
  /\ code = "new" =>
       up[u].pc \in {"checks", "integrate", "boot", "verify", "undoStop", "undoCode"}
  /\ system = "new" =>
       code = "new" \/ up[u].pc \in {"undoState", "unpack", "undoConfig", "undoSystem"}
  /\ running = "none" => ~up[u].noRestart /\ (Stopped(u) \/ up[u].pc = "undoStop")
  /\ running = "new" => code = "new" /\ up[u].pc \in {"checks", "verify", "undoStop"}
  /\ state.by = "new" =>
       /\ code = "new" \/ up[u].pc \in {"undoState", "unpack"}
       /\ up[u].pc \in {"checks", "verify", "undoStop", "undoCode", "undoState", "unpack"}
  /\ "new" \in {running, state.by} => ~up[u].noRestart \/ up[u].pc = "checks"
  /\ up[u].pc \in {"stop", "integrate", "boot"} => ~up[u].noRestart
  /\ up[u].backup.kind = "full" => up[u].backup.held.by = "old"
  /\ (\/ up[u].pc \in {"checkout", "pull", "integrate", "boot", "verify"}
      \/ up[u].pc \in Undo /\ "new" \in {code, state.by})
     => up[u].backup.kind = "full"

\* While none works, all is new only if the code is.
Rest ==
  /\ "new" \in {system, running, state.by} => code = "new"
  /\ running # "none"

Known ==
  Quiet => /\ \A u \in Updater : up[u].pc = "begin" => up[u].saved = "old"
           /\ \A u \in Working : Seen(u)
           /\ Working = {} => Rest

LEMMA SeenStep ==
  ASSUME TypeOK, TypeOK', Committed, Held, Forwards, Quiet, Quiet',
         NEW u \in Updater, Forward(u) \/ Back(u),
         u \in Working => Seen(u), u \notin Working => Rest,
         up[u].pc = "begin" => up[u].saved = "old"
  PROVE  /\ u \in Working' => Seen(u)'
         /\ u \in Working /\ u \notin Working' => Rest'
<1>1. /\ u \in Working <=> up[u].pc \in Step \cup Undo
      /\ u \in Working' <=> up'[u].pc \in Step \cup Undo
  BY DEF Working
<1>2. /\ {code, system} \subseteq {"old", "new"} /\ state.by \in {"old", "new"}
      /\ running \in {"none", "old", "new"}
  BY DEF TypeOK, Revision, State
<1>3. u \in Working => Done(u)
  BY DEF Quiet, Forwards
<1>4. CASE Begin(u) \/ Cleanup(u)
  <2>1. up[u].pc \in {"off", "exit"} /\ up'[u].pc \in {"begin", "off"}
    BY <1>4, Moves, Sets DEF Begin, Cleanup, At
  <2>2. QED
    BY <1>1, <2>1 DEF Step, Undo
<1>5. CASE Lock(u)
  <2>1. UNCHANGED <<code, system, state, running>>
    BY <1>5 DEF Lock, disk
  <2>2. up[u].pc = "begin" /\ up'[u].pc \in {"checks", "exit"} /\ UNCHANGED <<up[u].saved, up[u].backup>>
    BY <1>5, Moves DEF Lock, At, Step
  <2>3. up[u].backup.kind = "none" /\ u \notin Working
    BY <1>1, <2>2 DEF Held, Step, Undo
  <2>4. QED
    BY <1>1, <1>2, <2>1, <2>2, <2>3 DEF Seen, Rest, Step, Undo, Stopped
<1>6. CASE Refuse(u) \/ Verified(u)
  <2>1. up[u].pc \in {"checks", "verify"} /\ up'[u].pc = "exit" /\ UNCHANGED <<code, system, state, running>>
    BY <1>6, Moves DEF Refuse, Verified, At, disk
  <2>2. QED
    BY <1>1, <1>2, <1>3, <2>1 DEF Seen, Rest, Step, Undo, Stopped, Done
<1>7. CASE Checks(u)
  <2>1. /\ up[u].pc = "checks" /\ up'[u].pc = "backup" /\ code = "old"
        /\ UNCHANGED <<code, system, state, running, up[u].noRestart, up[u].saved, up[u].backup>>
    BY <1>7, Moves DEF Checks, At, disk, Step
  <2>2. QED
    BY <1>1, <1>2, <2>1 DEF Seen, Rest, Step, Undo, Stopped
<1>8. CASE BackUp(u)
  <2>1. /\ up[u].pc = "backup" /\ up'[u].pc = "migrate" /\ up'[u].saved = system
        /\ UNCHANGED <<code, system, state, running, up[u].noRestart, up[u].backup>>
    BY <1>8, Sets DEF BackUp, At, disk
  <2>2. QED
    BY <1>1, <1>2, <2>1 DEF Seen, Rest, Step, Undo, Stopped
<1>9. CASE Migrate(u)
  <2>1. /\ up[u].pc = "migrate" /\ up'[u].pc = "commit"
        /\ UNCHANGED <<code, system, state, running, up[u].noRestart, up[u].saved, up[u].backup>>
    BY <1>9, Moves DEF Migrate, At, Step
  <2>2. QED
    BY <1>1, <1>2, <2>1 DEF Seen, Rest, Step, Undo, Stopped
<1>10. CASE Commit(u)
  <2>1. /\ up[u].pc = "commit" /\ up'[u].pc = IF up[u].noRestart THEN "archive" ELSE "stop"
        /\ UNCHANGED <<code, system, state, running, up[u].noRestart, up[u].saved, up[u].backup>>
    BY <1>10, Sets DEF Commit, AfterCommit, At, disk
  <2>2. QED
    BY <1>1, <1>2, <2>1 DEF Seen, Rest, Step, Undo, Stopped
<1>11. CASE Stop(u)
  <2>1. /\ up[u].pc = "stop" /\ up'[u].pc = "archive" /\ running' = "none"
        /\ UNCHANGED <<code, system, up[u].noRestart, up[u].saved, up[u].backup>>
    BY <1>11, Moves DEF Stop, StopServices, At, Step
  <2>2. u \in Working /\ running # "new" /\ state.by = "old"
    BY <1>1, <1>2, <2>1 DEF Seen, Step
  <2>3. state'.by = "old"
    BY <1>11, <2>2, <1>2 DEF Stop, StopServices, AfterStop
  <2>4. QED
    BY <1>1, <1>2, <2>1, <2>2, <2>3 DEF Seen, Rest, Step, Undo, Stopped
<1>12. CASE Archive(u)
  <2>1. /\ up[u].pc = "archive" /\ up'[u].pc = "checkout" /\ up'[u].backup = Full(state)
        /\ UNCHANGED <<code, system, state, running, up[u].noRestart, up[u].saved>>
    BY <1>12, Sets DEF Archive, At, disk
  <2>2. u \in Working /\ state.by = "old"
    BY <1>1, <1>2, <2>1 DEF Seen, Step
  <2>3. QED
    BY <1>1, <1>2, <2>1, <2>2 DEF Seen, Rest, Step, Undo, Stopped, Full
<1>13. CASE ArchiveFails(u) \/ Interrupt(u)
  BY <1>13 DEF ArchiveFails, Interrupt, Quiet
<1>14. CASE Pull(u)
  <2>1. /\ up[u].pc = "pull" /\ up'[u].pc = (IF up[u].noRestart THEN "verify" ELSE "integrate")
        /\ code' = "new"
        /\ UNCHANGED <<system, state, running, up[u].noRestart, up[u].saved, up[u].backup>>
    BY <1>14, Moves DEF Pull, At, Step
  <2>2. QED
    BY <1>1, <1>2, <2>1 DEF Seen, Rest, Step, Undo, Stopped
<1>15. CASE Integrate(u)
  <2>1. /\ up[u].pc = "integrate" /\ up'[u].pc = "boot" /\ system' = "new"
        /\ UNCHANGED <<code, state, running, up[u].noRestart, up[u].saved, up[u].backup>>
    BY <1>15, Moves DEF Integrate, At, Step
  <2>2. QED
    BY <1>1, <1>2, <1>3, <2>1 DEF Seen, Rest, Step, Undo, Stopped, Done
<1>16. CASE Boot(u)
  <2>1. /\ up[u].pc = "boot" /\ up'[u].pc = "verify"
        /\ running' = (IF running = "none" THEN code ELSE running)
        /\ UNCHANGED <<code, system, state, up[u].noRestart, up[u].saved, up[u].backup>>
    BY <1>16, Moves DEF Boot, StartServices, At, disk, Step
  <2>2. QED
    BY <1>1, <1>2, <1>3, <2>1 DEF Seen, Rest, Step, Undo, Stopped, Done
<1>17. CASE StepFails(u)
  <2>1. up[u].pc \in Step /\ UNCHANGED <<code, system, state, running>>
    BY <1>17 DEF StepFails, disk
  <2>2. CASE up[u].started
    <3>1. /\ up'[u].pc = "undoStop" /\ up[u].pc \notin Before
          /\ UNCHANGED <<up[u].noRestart, up[u].saved, up[u].backup>>
      BY <1>17, <2>2, Moves DEF StepFails, OnError, Committed, Undo
    <3>2. QED
      BY <1>1, <1>2, <2>1, <3>1 DEF Seen, Rest, Step, Undo, Stopped, Before
  <2>3. CASE ~up[u].started
    <3>1. up'[u].pc = "exit" /\ up[u].pc \in {"checks", "backup", "migrate", "commit"}
      BY <1>17, <2>1, <2>3, Moves DEF StepFails, OnError, Committed, Begun, Step
    <3>2. QED
      BY <1>1, <1>2, <2>1, <3>1 DEF Seen, Rest, Step, Undo, Stopped
  <2>4. QED
    BY <2>2, <2>3
<1>18. CASE UndoStop(u)
  <2>1. /\ up[u].pc = "undoStop" /\ up'[u].pc = "undoCode"
        /\ UNCHANGED <<code, system, up[u].noRestart, up[u].saved, up[u].backup>>
    BY <1>18, Moves DEF UndoStop, At, Undo
  <2>2. u \in Working /\ Seen(u)
    BY <1>1, <2>1 DEF Undo
  <2>3. CASE up[u].noRestart
    <3>1. UNCHANGED <<state, running>>
      BY <1>18, <2>3 DEF UndoStop
    <3>2. QED
      BY <1>1, <1>2, <2>1, <2>2, <2>3, <3>1 DEF Seen, Undo, Stopped
  <2>4. CASE ~up[u].noRestart
    <3>1. StopServices
      BY <1>18, <2>4 DEF UndoStop
    <3>2. running' = "none"
      BY <3>1 DEF StopServices
    <3>3. (state'.by = state.by) \/ (state'.by = running /\ running # "none")
      <4>1. \/ state' = state
            \/ state' = [by |-> running, saves |-> state.saves + 1] /\ running # "none"
        BY <3>1 DEF StopServices, AfterStop
      <4>2. CASE state' = state
        BY <4>2
      <4>3. CASE state' = [by |-> running, saves |-> state.saves + 1] /\ running # "none"
        BY <4>3
      <4>4. QED
        BY <4>1, <4>2, <4>3
    <3>4. QED
      BY <1>1, <1>2, <2>1, <2>2, <2>4, <3>2, <3>3 DEF Seen, Undo, Stopped
  <2>5. QED
    BY <2>3, <2>4
<1>19. CASE UndoCode(u)
  <2>1. /\ up[u].pc = "undoCode" /\ up'[u].pc = "undoState" /\ code' = "old"
        /\ UNCHANGED <<system, state, running, up[u].noRestart, up[u].saved, up[u].backup>>
    BY <1>19, Moves DEF UndoCode, At, Undo
  <2>2. QED
    BY <1>1, <1>2, <2>1 DEF Seen, Rest, Step, Undo, Stopped
<1>20. CASE UndoState(u)
  <2>1. /\ up[u].pc = "undoState" /\ state'.by = state.by
        /\ up'[u].pc = IF up[u].backup.kind = "none" THEN "undoConfig" ELSE "unpack"
        /\ UNCHANGED <<code, system, running, up[u].noRestart, up[u].saved, up[u].backup>>
    BY <1>20, Moves DEF UndoState, At, Undo, TypeOK, State
  <2>2. u \in Working /\ Seen(u)
    BY <1>1, <2>1 DEF Undo
  <2>3. QED
    BY <1>1, <1>2, <2>1, <2>2 DEF Seen, Undo, Stopped
<1>21. CASE UndoSystem(u)
  <2>1. /\ up[u].pc = "undoSystem" /\ up'[u].pc = "undoBoot" /\ system' = up[u].saved
        /\ UNCHANGED <<code, state, running, up[u].noRestart, up[u].saved, up[u].backup>>
    BY <1>21, Moves DEF UndoSystem, SystemBackup, At, Undo
  <2>2. QED
    BY <1>1, <1>2, <2>1 DEF Seen, Rest, Step, Undo, Stopped
<1>22. CASE UndoBoot(u)
  <2>1. /\ up[u].pc = "undoBoot" /\ up'[u].pc = "exit" /\ UNCHANGED <<code, system, state>>
        /\ running' = IF up[u].noRestart \/ running # "none" THEN running ELSE code
    BY <1>22, Moves DEF UndoBoot, StartServices, At, disk
  <2>2. QED
    BY <1>1, <1>2, <2>1 DEF Seen, Rest, Step, Undo, Stopped
<1>23. CASE Checkout(u)
  <2>1. /\ up[u].pc = "checkout" /\ up'[u].pc = "pull"
        /\ UNCHANGED <<code, system, state, running, up[u].noRestart, up[u].saved, up[u].backup>>
    BY <1>23, Moves DEF Checkout, At, Step
  <2>2. QED
    BY <1>1, <1>2, <2>1 DEF Seen, Rest, Step, Undo, Stopped
<1>24. CASE Unpack(u)
  <2>1. /\ up[u].pc = "unpack" /\ up'[u].pc = "undoConfig"
        /\ state' = IF up[u].backup.kind = "full" THEN up[u].backup.held ELSE state
        /\ UNCHANGED <<code, system, running, up[u].noRestart, up[u].saved, up[u].backup>>
    BY <1>24, Moves DEF Unpack, At, Undo
  <2>2. u \in Working /\ Seen(u)
    BY <1>1, <2>1 DEF Undo
  <2>3. state'.by = "old"
    BY <1>2, <2>1, <2>2 DEF Seen, Undo
  <2>4. QED
    BY <1>1, <1>2, <2>1, <2>2, <2>3 DEF Seen, Undo, Stopped
<1>25. CASE UndoConfig(u)
  <2>1. /\ up[u].pc = "undoConfig" /\ up'[u].pc = "undoSystem"
        /\ UNCHANGED <<code, system, state, running, up[u].noRestart, up[u].saved, up[u].backup>>
    BY <1>25, Moves DEF UndoConfig, At, Undo
  <2>2. QED
    BY <1>1, <1>2, <2>1 DEF Seen, Rest, Step, Undo, Stopped
<1>26. QED
  BY <1>4, <1>5, <1>6, <1>7, <1>8, <1>9, <1>10, <1>11, <1>12, <1>13, <1>14, <1>15, <1>16,
     <1>17, <1>18, <1>19, <1>20, <1>21, <1>22, <1>23, <1>24, <1>25 DEF Forward, Back

LEMMA KnownStep ==
  ASSUME TypeOK, TypeOK', Committed, Sole, Held, Forwards, Known, [Next]_vars
  PROVE  Known'
<1>1. ASSUME NEW u \in Updater, Forward(u) \/ Back(u) PROVE Known'
  <2>1. SUFFICES ASSUME Quiet'
                 PROVE  /\ \A v \in Updater : up'[v].pc = "begin" => up'[v].saved = "old"
                        /\ \A v \in Working' : Seen(v)'
                        /\ Working' = {} => Rest'
    BY DEF Known
  <2>2. Quiet /\ "crowd" \notin disturbed'
    BY <1>1, <2>1, WorkingStep DEF Quiet
  <2>3. \A v \in Updater : up'[v].pc = "begin" => up'[v].saved = "old"
    <3>1. Begin(u) => up'[u].saved = "old"
      <4>1. ASSUME NEW b \in BOOLEAN,
                   up' = [up EXCEPT ![u] = [pc |-> "begin", noRestart |-> b, started |-> FALSE,
                            backup |-> NoBackup, saved |-> "old", result |-> "none"]]
            PROVE  up'[u].saved = "old"
        <5>1. up'[u] = [pc |-> "begin", noRestart |-> b, started |-> FALSE,
                        backup |-> NoBackup, saved |-> "old", result |-> "none"]
          BY <4>1 DEF TypeOK
        <5>2. QED
          BY <5>1
      <4>2. QED
        BY <4>1 DEF Begin
    <3>2. ~Begin(u) => up'[u].pc # "begin"
      BY <1>1, Moves, Sets DEF Forward, Back, Lock, Refuse, Checks, Migrate, Stop, Checkout, Pull,
         Integrate, Boot, Verified, Cleanup, StepFails, OnError, Interrupt, UndoStop, UndoCode,
         UndoState, Unpack, UndoConfig, UndoSystem, UndoBoot, AfterCommit, Step, Undo
    <3>3. QED
      BY <1>1, <2>2, <3>1, <3>2, OwnStep DEF Known
  <2>4. CASE /\ UNCHANGED <<disk, running, owed, disturbed>>
             /\ Working' = Working /\ \A v \in Working : up'[v] = up[v]
    BY <2>2, <2>3, <2>4 DEF Known, disk, Seen, Rest, Stopped
  <2>5. CASE \A v \in Updater : v # u => v \notin Working /\ v \notin Working'
    <3>1. u \notin Working => Working = {}
      BY <2>5 DEF Working
    <3>2. /\ u \in Working' => Seen(u)'
          /\ u \in Working /\ u \notin Working' => Rest'
      BY <1>1, <2>1, <2>2, <3>1, SeenStep DEF Known
    <3>3. u \notin Working /\ u \notin Working' => Rest'
      <4>1. u \notin Working /\ u \notin Working' => UNCHANGED <<disk, running>>
        BY <1>1, WorkingStep
      <4>2. QED
        BY <2>2, <3>1, <4>1 DEF Known, Rest, disk
    <3>4. QED
      BY <2>3, <2>5, <3>2, <3>3 DEF Working
  <2>6. QED
    BY <1>1, <2>2, <2>4, <2>5, NobodyElse
<1>2. CASE Save
  <2>1. UNCHANGED <<up, code, system, running, disturbed>> /\ state'.by = running /\ running # "none"
    BY <1>2 DEF Save
  <2>2. Quiet => Forwards /\ \A u \in Working : Done(u)
    BY DEF Quiet, Forwards
  <2>3. ASSUME Quiet, NEW u \in Working PROVE Seen(u)'
    <3>1. Seen(u)
      BY <2>3 DEF Known
    <3>2. QED
      BY <2>1, <3>1 DEF Seen, Stopped, Undo
  <2>4. Quiet /\ Working = {} => Rest'
    BY <2>1 DEF Known, Rest
  <2>5. QED
    BY <2>1, <2>3, <2>4 DEF Known, Working, Quiet
<1>3. CASE UdevEvent
  <2>1. /\ UNCHANGED <<up, code, system, state>> /\ running = "none" /\ running' = code
        /\ Working' = Working
    BY <1>3 DEF UdevEvent, StartServices, disk, Working
  <2>2. SUFFICES ASSUME Quiet'
                 PROVE  /\ \A u \in Working : Seen(u)'
                        /\ Working = {} => Rest'
                        /\ Quiet
    BY <2>1 DEF Known
  <2>3. Quiet
    BY <1>3, <2>2 DEF UdevEvent, Quiet, Flag
  <2>4. ASSUME NEW u \in Working PROVE Seen(u)'
    <3>1. Seen(u) /\ u \in Updater
      BY <2>3, <2>4 DEF Known, Working
    <3>2. ~(Stopped(u) /\ ~up[u].noRestart)
      BY <1>3, <2>2, <3>1 DEF UdevEvent, Quiet, Flag
    <3>3. code \in {"old", "new"}
      BY DEF TypeOK, Revision
    <3>4. QED
      BY <2>1, <3>1, <3>2, <3>3 DEF Seen, Stopped, Undo
  <2>5. Working = {} => Rest'
    BY <2>1, <2>3 DEF Known, Rest
  <2>6. QED
    BY <2>3, <2>4, <2>5
<1>4. CASE UNCHANGED vars
  BY <1>4 DEF vars, disk, Known, Quiet, Working, Seen, Rest, Stopped
<1>5. QED
  BY <1>1, <1>2, <1>3, <1>4 DEF Next

\* After git reset, config.json is the tracked one until the legacy file
\* replaces it.
Replaced ==
  "crowd" \notin disturbed /\ config.tracked =>
    \A u \in Working :
      /\ up[u].pc \in {"undoState", "unpack", "undoConfig"} => config.json = "tracked"
      /\ up[u].pc \in {"undoSystem", "undoBoot"} /\ "local" \in {config.json, config.legacy} =>
           config.json = "local"

LEMMA ReplacedStep ==
  ASSUME TypeOK, TypeOK', Sole, Replaced, [Next]_vars
  PROVE  Replaced'
<1>1. ASSUME NEW u \in Updater, Forward(u) \/ Back(u) PROVE Replaced'
  <2> DEFINE Good(v) ==
        /\ up[v].pc \in {"undoState", "unpack", "undoConfig"} => config.json = "tracked"
        /\ up[v].pc \in {"undoSystem", "undoBoot"} /\ "local" \in {config.json, config.legacy} =>
             config.json = "local"
  <2>1. config \in Config /\ config'.tracked = config.tracked
    BY <1>1 DEF TypeOK, Config, Tracked, Forward, Back, Begin, Lock, Refuse, Checks, BackUp, Migrate,
       Commit, Stop, Archive, Checkout, Pull, Integrate, Boot, Verified, Cleanup, StepFails, disk,
       ArchiveFails, Interrupt, UndoStop, UndoCode, UndoState, Unpack, UndoConfig, UndoSystem,
       UndoBoot
  <2>2. SUFFICES ASSUME config.tracked, "crowd" \notin disturbed'
                 PROVE  \A v \in Working' : Good(v)'
    BY <2>1 DEF Replaced
  <2>3. \A v \in Working : Good(v)
    BY <1>1, <2>2, WorkingStep DEF Replaced
  <2>4. CASE /\ UNCHANGED <<disk, running, owed, disturbed>>
             /\ Working' = Working /\ \A v \in Working : up'[v] = up[v]
    BY <2>3, <2>4 DEF disk
  <2>5. CASE \A v \in Updater : v # u => v \notin Working /\ v \notin Working'
    <3>1. SUFFICES Good(u)'
      BY <2>5 DEF Working
    <3>2. CASE UndoCode(u)
      <4>1. up'[u].pc = "undoState" /\ config'.json = "tracked"
        BY <2>1, <2>2, <3>2, Moves DEF UndoCode, Tracked, Config, Undo
      <4>2. QED
        BY <4>1
    <3>3. CASE UndoConfig(u)
      <4>1. up'[u].pc = "undoSystem" /\ up[u].pc = "undoConfig" /\ u \in Working
        BY <3>3, Moves DEF UndoConfig, At, Working, Undo
      <4>2. config.json = "tracked"
        BY <2>3, <4>1
      <4>3. config'.legacy = config.legacy
            /\ (config.legacy # "absent" => config'.json = config.legacy)
            /\ (config.legacy = "absent" => config'.json = "tracked")
        BY <2>1, <3>3, <4>2 DEF UndoConfig, Config
      <4>4. QED
        BY <4>1, <4>3
    <3>4. CASE UndoSystem(u)
      <4>1. up'[u].pc = "undoBoot" /\ up[u].pc = "undoSystem" /\ u \in Working /\ UNCHANGED config
        BY <3>4, Moves DEF UndoSystem, At, Working, Undo
      <4>2. QED
        BY <2>3, <4>1
    <3>5. CASE Begin(u) \/ BackUp(u) \/ Commit(u) \/ Archive(u) \/ ArchiveFails(u)
      <4>1. up'[u].pc \notin {"undoState", "unpack", "undoConfig", "undoSystem", "undoBoot"}
        BY <3>5, Sets DEF AfterCommit
      <4>2. QED
        BY <4>1
    <3>6. CASE Lock(u) \/ Refuse(u) \/ Checks(u) \/ Migrate(u) \/ Stop(u) \/ Checkout(u) \/ Pull(u)
               \/ Integrate(u) \/ Boot(u) \/ Verified(u) \/ Cleanup(u) \/ StepFails(u) \/ Interrupt(u)
               \/ UndoStop(u) \/ UndoBoot(u)
      <4>1. up'[u].pc \notin {"undoState", "unpack", "undoConfig", "undoSystem", "undoBoot"}
        BY <3>6, Moves DEF Lock, Refuse, Checks, Migrate, Stop, Checkout, Pull, Integrate, Boot, Verified,
           Cleanup, StepFails, OnError, Interrupt, UndoStop, UndoBoot, Step, Undo
      <4>2. QED
        BY <4>1
    <3>7. CASE UndoState(u) \/ Unpack(u)
      <4>1. up'[u].pc \in {"unpack", "undoConfig"} /\ up[u].pc \in {"undoState", "unpack"}
            /\ u \in Working /\ UNCHANGED config
        BY <3>7, Moves DEF UndoState, Unpack, At, Working, Undo
      <4>2. QED
        BY <2>3, <4>1
    <3>8. QED
      BY <1>1, <3>2, <3>3, <3>4, <3>5, <3>6, <3>7 DEF Forward, Back
  <2>6. QED
    BY <1>1, <2>2, <2>4, <2>5, NobodyElse
<1>2. CASE Save \/ UdevEvent
  <2>1. UNCHANGED <<up, config>> /\ disturbed \subseteq disturbed'
    BY <1>2 DEF Save, UdevEvent, disk
  <2>2. QED
    BY <2>1 DEF Replaced, Working
<1>3. CASE UNCHANGED vars
  BY <1>3 DEF vars, disk, Replaced, Working
<1>4. QED
  BY <1>1, <1>2, <1>3 DEF Next

-----------------------------------------------------------------------------
IInv == TypeOK /\ Committed /\ Sole /\ Held /\ Kept /\ Forwards /\ Known /\ Replaced

LEMMA InitInv == Init => IInv
<1> SUFFICES ASSUME Init PROVE IInv
  OBVIOUS
<1>1. \A u \in Updater : /\ up[u].pc = "off" /\ up[u].result = "none" /\ ~up[u].started
                         /\ up[u].backup.kind = "none"
  BY DEF Init, NoBackup
<1>2. Working = {}
  BY <1>1 DEF Working, Step, Undo
<1>3. TypeOK
  <2>1. NoBackup \in Backup
    BY ConstantsAssumption DEF NoBackup, Backup, State, Revision
  <2>2. [pc |-> "off", noRestart |-> FALSE, started |-> FALSE, backup |-> NoBackup,
         saved |-> "old", result |-> "none"] \in Local
    BY <2>1 DEF Local, Revision
  <2>3. up \in [Updater -> Local]
    BY <2>2 DEF Init
  <2>4. state \in State /\ owed \in 0..MaxSaves /\ faults \in 0..MaxFaults
    BY ConstantsAssumption DEF Init, State, Revision
  <2>5. config \in Config
    <3>1. /\ [json |-> "local", legacy |-> "absent", tracked |-> TRUE] \in Config
          /\ [json |-> "absent", legacy |-> "local", tracked |-> FALSE] \in Config
          /\ [json |-> "absent", legacy |-> "absent", tracked |-> FALSE] \in Config
      BY DEF Config
    <3>2. QED
      BY <3>1 DEF Init
  <2>6. /\ lock \in BOOLEAN /\ {code, system} \subseteq Revision
        /\ running \in Revision \cup {"none"} /\ disturbed = {}
    BY DEF Init, Revision
  <2>7. QED
    BY <1>1, <2>3, <2>4, <2>5, <2>6 DEF TypeOK, Step, Undo
<1>4. Committed /\ Sole /\ Held /\ Forwards /\ Replaced
  BY <1>1, <1>2 DEF Committed, Sole, Held, Forwards, Replaced, Begun, Undo, Init
<1>5. Kept
  BY <1>2 DEF Kept, Right, Init
<1>6. Known
  BY <1>1, <1>2 DEF Known, Rest, Init
<1>7. QED
  BY <1>3, <1>4, <1>5, <1>6 DEF IInv

LEMMA InvStep == IInv /\ [Next]_vars => IInv'
<1> SUFFICES ASSUME IInv, [Next]_vars PROVE IInv'
  OBVIOUS
<1>1. TypeOK' /\ Committed'
  BY TypeStep DEF IInv
<1>2. Sole' /\ Held' /\ Kept' /\ Forwards' /\ Known' /\ Replaced'
  BY <1>1, SoleStep, HeldStep, KeptStep, ForwardsStep, KnownStep, ReplacedStep DEF IInv
<1>3. QED
  BY <1>1, <1>2 DEF IInv

LEMMA InvHolds == Spec => []IInv
BY InitInv, InvStep, PTL DEF Spec

(* The types are right, a result is known exactly at the end of a run, and *)
(* nothing is undone that was not started.                                 *)
THEOREM TypeCorrect == Spec => []TypeOK
<1>1. IInv => TypeOK
  BY DEF IInv
<1>2. QED
  BY InvHolds, <1>1, PTL

(* What the services saved before they were stopped is in STATE_DIR, or in *)
(* the archive that a rollback is about to unpack there: for any number of *)
(* runs, failures and signals, while the lock holds, archiving does not    *)
(* fail, and neither a signal nor a start of the services falls between    *)
(* the removal of STATE_DIR and the end of tar.                            *)
THEOREM SavedStateSurvives == Spec => []StateSurvives
<1>1. ASSUME IInv, Without({"crowd", "backup", "emptied"}), ~(state.saves >= owed)
      PROVE  \E u \in Updater : At(u, "unpack") /\ up[u].backup.kind = "full"
                                /\ up[u].backup.held.saves >= owed
  <2>1. PICK u \in Working : up[u].pc = "unpack" /\ up[u].backup.kind = "full"
    BY <1>1 DEF IInv, Held, Without
  <2>2. up[u].backup.held.saves >= owed /\ u \in Updater
    BY <1>1, <2>1 DEF IInv, Held, Without, Working
  <2>3. QED
    BY <2>1, <2>2 DEF At
<1>2. IInv => StateSurvives
  BY <1>1 DEF StateSurvives
<1>3. QED
  BY InvHolds, <1>2, PTL

(* An edited config.json exists under one of its names through any number  *)
(* of updates, failures, rollbacks and signals, but for the migration that *)
(* --no-restart skips and a signal while the tracked file is back beside   *)
(* the edited one, as LocalConfigKept names them.                          *)
THEOREM EditedConfigIsKept == Spec => []LocalConfigKept
<1>1. IInv => LocalConfigKept
  BY DEF IInv, Kept, Right, LocalConfigKept, Without
<1>2. QED
  BY InvHolds, <1>1, PTL

\* A step that gives a run its result is the last of its kind.
LEMMA Results ==
  ASSUME TypeOK, [Next]_vars, NEW u \in Updater, up[u].result = "none"
  PROVE  /\ up'[u].result = "updated" => Verified(u)
         /\ up'[u].result = "rolledBack" => UndoBoot(u)
<1>1. ASSUME NEW v \in Updater, Forward(v) \/ Back(v), v # u PROVE up'[u].result = "none"
  BY <1>1, OwnStep
<1>2. CASE Save \/ UdevEvent \/ UNCHANGED vars
  BY <1>2 DEF Save, UdevEvent, vars
<1>3. ASSUME Begin(u) \/ BackUp(u) \/ Commit(u) \/ Archive(u) PROVE up'[u].result = "none"
  BY <1>3, Sets
<1>4. ASSUME Checks(u) \/ Migrate(u) \/ Stop(u) \/ Checkout(u) \/ Pull(u) \/ Integrate(u) \/ Boot(u)
             \/ Cleanup(u) \/ UndoStop(u) \/ UndoCode(u) \/ UndoState(u) \/ Unpack(u) \/ UndoConfig(u)
             \/ UndoSystem(u) \/ Lock(u) \/ Refuse(u) \/ StepFails(u) \/ Interrupt(u)
      PROVE  up'[u].result \in {"none", "refused", "interrupted"}
  BY <1>4, Moves DEF Lock, Refuse, Checks, Migrate, Stop, Checkout, Pull, Integrate, Boot, Cleanup,
     StepFails, OnError, Interrupt, UndoStop, UndoCode, UndoState, Unpack, UndoConfig, UndoSystem,
     Step, Undo
<1>5. ASSUME ArchiveFails(u) PROVE up'[u].result = "none"
  BY <1>5, Sets
<1>6. Verified(u) => up'[u].result = "updated"
  BY Moves DEF Verified
<1>7. UndoBoot(u) => up'[u].result = "rolledBack"
  BY Moves DEF UndoBoot
<1>8. QED
  BY <1>1, <1>2, <1>3, <1>4, <1>5, <1>6, <1>7 DEF Next, Forward, Back

(* An update that ends as complete has its revision installed and, unless  *)
(* --no-restart was given, running: for any number of runs and failures,   *)
(* while the lock holds and no udev event starts the old one in between.   *)
THEOREM CompleteMeansNew == Spec => SuccessRunsNew
<1> DEFINE Success ==
      \A u \in Updater :
        /\ up[u].result = "none" /\ up'[u].result = "updated"
        /\ Without({"crowd", "udev"})
        => code' = "new" /\ (up[u].noRestart \/ (running' = "new" /\ system' = "new"))
<1>1. ASSUME IInv, [Next]_vars PROVE Success
  <2>1. SUFFICES ASSUME NEW u \in Updater, up[u].result = "none", up'[u].result = "updated",
                        Without({"crowd", "udev"})
                 PROVE  code' = "new" /\ (up[u].noRestart \/ (running' = "new" /\ system' = "new"))
    OBVIOUS
  <2>2. Verified(u)
    BY <1>1, <2>1, Results DEF IInv
  <2>3. up[u].pc = "verify" /\ u \in Working /\ UNCHANGED <<code, system, running>>
    BY <2>2 DEF Verified, At, Working, Step, disk
  <2>4. Done(u)
    BY <1>1, <2>1, <2>3 DEF IInv, Forwards, Without
  <2>5. QED
    BY <2>3, <2>4 DEF Done
<1>2. IInv /\ [Next]_vars => [Success]_vars
  BY <1>1
<1> HIDE DEF Success
<1>3. Spec => [][Success]_vars
  BY InvHolds, <1>2, PTL DEF Spec
<1>4. QED
  BY <1>3 DEF Success, SuccessRunsNew

(* A rollback that ends has restored revision, integration, state and an   *)
(* edited config.json, and the old manager runs: for any number of runs    *)
(* and failures, with the exceptions RollbackRestores names.               *)
THEOREM RollbackIsComplete == Spec => RollbackRestores
<1> DEFINE Restore ==
      \A u \in Updater :
        /\ up[u].result = "none" /\ up'[u].result = "rolledBack"
        /\ Without({"crowd", "udev", "backup", "signal"})
        => /\ code' = "old" /\ system' = "old" /\ state'.by = "old"
           /\ ~up[u].noRestart => running' = "old"
           /\ config.tracked /\ "local" \in {config.json, config.legacy}
                => config'.json = "local"
<1>1. ASSUME IInv, [Next]_vars PROVE Restore
  <2>1. SUFFICES ASSUME NEW u \in Updater, up[u].result = "none", up'[u].result = "rolledBack",
                        Without({"crowd", "udev", "backup", "signal"})
                 PROVE  /\ code' = "old" /\ system' = "old" /\ state'.by = "old"
                        /\ ~up[u].noRestart => running' = "old"
                        /\ config.tracked /\ "local" \in {config.json, config.legacy}
                             => config'.json = "local"
    OBVIOUS
  <2>2. UndoBoot(u)
    BY <1>1, <2>1, Results DEF IInv
  <2>3. up[u].pc = "undoBoot" /\ u \in Working /\ UNCHANGED <<code, system, state, config>>
        /\ (~up[u].noRestart => running' = IF running = "none" THEN code ELSE running)
    BY <2>2 DEF UndoBoot, At, Working, Undo, disk, StartServices
  <2>4. Seen(u)
    BY <1>1, <2>1, <2>3 DEF IInv, Known, Quiet, Without
  <2>5. Done(u)
    BY <1>1, <2>1, <2>3 DEF IInv, Forwards, Without
  <2>6. {code, system} \subseteq {"old", "new"} /\ state.by \in {"old", "new"}
    BY <1>1 DEF IInv, TypeOK, Revision, State
  <2>7. code = "old" /\ system = "old" /\ state.by = "old"
    BY <2>3, <2>4, <2>6 DEF Seen
  <2>8. ~up[u].noRestart => running = "none"
    BY <2>3, <2>5 DEF Done, Stopped
  <2>9. config.tracked /\ "local" \in {config.json, config.legacy} => config.json = "local"
    BY <1>1, <2>1, <2>3 DEF IInv, Replaced, Without
  <2>10. QED
    BY <2>3, <2>7, <2>8, <2>9
<1>2. IInv /\ [Next]_vars => [Restore]_vars
  BY <1>1
<1> HIDE DEF Restore
<1>3. Spec => [][Restore]_vars
  BY InvHolds, <1>2, PTL DEF Spec
<1>4. QED
  BY <1>3 DEF Restore, RollbackRestores

-----------------------------------------------------------------------------
(* Between the runs                                                        *)

(* README.md: a failed update leaves the previous installation.  Whenever  *)
(* no run works, and none was interrupted, overlapped or disturbed by      *)
(* udev, the services run, and what is new, the integration, the manager   *)
(* or the state it saved, is never there without the new code.             *)
THEOREM NothingIsHalfDone ==
  Spec => [](/\ Working = {}
             /\ Without({"crowd", "udev", "backup", "signal"})
             => /\ running # "none"
                /\ "new" \in {system, running, state.by} => code = "new")
<1> DEFINE Whole ==
      /\ Working = {}
      /\ Without({"crowd", "udev", "backup", "signal"})
      => /\ running # "none"
         /\ "new" \in {system, running, state.by} => code = "new"
<1>1. IInv => Whole
  BY DEF IInv, Known, Quiet, Rest, Without
<1> HIDE DEF Whole
<1>2. Spec => []Whole
  BY InvHolds, <1>1, PTL
<1> USE DEF Whole
<1>3. QED
  BY <1>2

\* Where a run is on its way, forward and then back
Way(pc) ==
  CASE pc = "checks"     -> 1
    [] pc = "backup"     -> 2
    [] pc = "migrate"    -> 3
    [] pc = "commit"     -> 4
    [] pc = "stop"       -> 5
    [] pc = "archive"    -> 6
    [] pc = "checkout"   -> 7
    [] pc = "pull"       -> 8
    [] pc = "integrate"  -> 9
    [] pc = "boot"       -> 10
    [] pc = "verify"     -> 11
    [] pc = "undoStop"   -> 12
    [] pc = "undoCode"   -> 13
    [] pc = "undoState"  -> 14
    [] pc = "unpack"     -> 15
    [] pc = "undoConfig" -> 16
    [] pc = "undoSystem" -> 17
    [] pc = "undoBoot"   -> 18
    [] OTHER             -> 19

(* Each step of a run that works takes it further on its way, a failure    *)
(* included: no step is done twice, no rollback is rolled back, and after  *)
(* eighteen steps at the most it ends.                                     *)
THEOREM RunsEnd ==
  Spec => [][\A u \in Working :
               up'[u] # up[u] => Way(up'[u].pc) > Way(up[u].pc)]_vars
<1> DEFINE Further == \A u \in Working : up'[u] # up[u] => Way(up'[u].pc) > Way(up[u].pc)
<1>1. ASSUME IInv, [Next]_vars PROVE Further
  <2>1. SUFFICES ASSUME NEW u \in Working, up'[u] # up[u] PROVE Way(up'[u].pc) > Way(up[u].pc)
    OBVIOUS
  <2>2. TypeOK /\ u \in Updater /\ up[u].pc \in Step \cup Undo
    BY <1>1, <2>1 DEF IInv, Working
  <2>3. Forward(u) \/ Back(u)
    <3>1. ~(Save \/ UdevEvent \/ UNCHANGED vars)
      BY <2>1 DEF Save, UdevEvent, vars
    <3>2. \A v \in Updater : v # u => ~(Forward(v) \/ Back(v))
      BY <2>1, <2>2, OwnStep
    <3>3. QED
      BY <1>1, <3>1, <3>2 DEF Next
  <2>4. CASE Checks(u) \/ Migrate(u) \/ Stop(u) \/ Checkout(u) \/ Pull(u) \/ Integrate(u) \/ Boot(u)
    BY <2>2, <2>4, Moves DEF Checks, Migrate, Stop, Checkout, Pull, Integrate, Boot, At, Step, Undo, Way
  <2>5. CASE UndoStop(u) \/ UndoCode(u) \/ UndoState(u) \/ Unpack(u) \/ UndoConfig(u) \/ UndoSystem(u)
             \/ UndoBoot(u)
    BY <2>2, <2>5, Moves DEF UndoStop, UndoCode, UndoState, Unpack, UndoConfig, UndoSystem, UndoBoot,
       At, Step, Undo, Way
  <2>6. CASE Refuse(u) \/ Verified(u) \/ Interrupt(u) \/ StepFails(u)
    <3>1. /\ Goto(u, "undoStop") => up'[u].pc = "undoStop"
          /\ Exit(u, "refused") => up'[u].pc = "exit"
          /\ Exit(u, "updated") => up'[u].pc = "exit"
          /\ Exit(u, "interrupted") => up'[u].pc = "exit"
      BY <2>2, Moves DEF Undo
    <3>2. up'[u].pc = "exit" \/ (up[u].pc \in Step /\ up'[u].pc = "undoStop")
      <4>1. CASE Refuse(u) \/ Verified(u) \/ Interrupt(u)
        <5>1. Exit(u, "refused") \/ Exit(u, "updated") \/ Exit(u, "interrupted")
          BY <4>1 DEF Refuse, Verified, Interrupt
        <5>2. QED
          BY <3>1, <5>1
      <4>2. CASE StepFails(u)
        <5>1. up[u].pc \in Step /\ (Goto(u, "undoStop") \/ Exit(u, "refused"))
          BY <4>2 DEF StepFails, OnError
        <5>2. QED
          BY <3>1, <5>1
      <4>3. QED
        BY <2>6, <4>1, <4>2
    <3>3. QED
      BY <2>2, <3>2 DEF Step, Undo, Way
  <2>7. CASE BackUp(u) \/ Commit(u) \/ Archive(u) \/ ArchiveFails(u)
    BY <2>2, <2>7, Sets DEF BackUp, Commit, Archive, ArchiveFails, AfterCommit, At, Way
  <2>8. CASE Begin(u) \/ Lock(u) \/ Cleanup(u)
    BY <2>2, <2>8 DEF Begin, Lock, Cleanup, At, Step, Undo
  <2>9. QED
    BY <2>3, <2>4, <2>5, <2>6, <2>7, <2>8 DEF Forward, Back
<1>2. IInv /\ [Next]_vars => [Further]_vars
  BY <1>1
<1> HIDE DEF Further
<1>3. Spec => [][Further]_vars
  BY InvHolds, <1>2, PTL DEF Spec
<1> USE DEF Further
<1>4. QED
  BY <1>3
=============================================================================
