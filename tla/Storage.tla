------------------------------- MODULE Storage -------------------------------
(***************************************************************************)
(* The history file of a device: HistoryStore, atomic_write_json() and     *)
(* quarantine_file() of src/mppsolar_common.py, and the driver that loads  *)
(* it, saves it every 300 s and saves it when it is stopped                *)
(* (src/dbus-mppsolar.py).  devices.json is written and read by the same   *)
(* functions.                                                              *)
(*                                                                         *)
(* A history is a version number: every poll makes the next one.  The file *)
(* system keeps a renamed file renamed only when its directory is synced,  *)
(* and the data of a file only when the file is.                           *)
(***************************************************************************)
EXTENDS Naturals, FiniteSets

CONSTANTS
  MaxVersion,    \* BOUND on the versions of the history
  Absent,        \* there is no file
  Bad,           \* a file that json.load() or the schema check refuses
  Torn,          \* data that was never synced, after a power loss
  MaxFaults      \* BOUND on what the environment does

ASSUME ConstantsAssumption ==
  /\ MaxVersion \in Nat \ {0}
  /\ MaxFaults \in Nat
  /\ Cardinality({Absent, Bad, Torn}) = 3
  /\ {Absent, Bad, Torn} \cap Nat = {}

VARIABLES
  pc,            \* what the driver is doing
  reason,        \* who called save(): the timer, or shutdown() once or twice
  mem,           \* the history on its D-Bus paths
  timer,         \* GLib.timeout_add_seconds(300, _save_history): "on", or why
                 \* it is not
  temp,          \* the temporary file
  dir,           \* the directory: the file, and the quarantined ones
  disk,          \* the directory as it is on the disk
  excused,       \* HISTORY: versions that were spoiled or could not be moved
  faults         \* how much of MaxFaults has been used

driver == <<pc, reason, mem, timer>>
vars == <<driver, temp, dir, disk, excused, faults>>

Version == 0..MaxVersion
File == [data : Version \cup {Absent, Bad, Torn}, synced : BOOLEAN]
Directory == [file : File, kept : SUBSET Version]
NoFile == [data |-> Absent, synced |-> TRUE]

Saving == {"opened", "written", "replaced"}

(* The variables have their types: save() has a temporary file exactly     *)
(* between open() and os.replace(), and only torn data has lost its sync.  *)
TypeOK ==
  /\ pc \in {"down", "init", "unreadable", "idle", "saved", "raised"} \cup Saving
  /\ reason \in {"timer", "stop", "exit"}
  /\ mem \in Version
  /\ timer \in {"none", "on", "raised"}
  /\ temp \in File
  /\ temp.data # Absent <=> pc \in {"opened", "written"}
  /\ dir \in Directory /\ disk \in Directory
  /\ excused \in SUBSET Version
  /\ faults \in 0..MaxFaults

Fault == faults < MaxFaults /\ faults' = faults + 1

------------------------------------------------------------------------------
(* load()                                                                  *)

Boot ==
  /\ pc = "down"
  /\ pc' = "init"
  /\ UNCHANGED <<reason, mem, timer, temp, dir, disk, excused, faults>>

\* The file is read, or there is none: the defaults.
Load ==
  /\ pc = "init"
  /\ dir.file.data \in Version \cup {Absent}
  /\ mem' = IF dir.file.data = Absent THEN 0 ELSE dir.file.data
  /\ pc' = "idle" /\ timer' = "on"
  /\ UNCHANGED <<reason, temp, dir, disk, excused, faults>>

\* json.load() or the schema check fails, or reading a good file does.
LoadFails ==
  /\ pc = "init"
  /\ dir.file.data # Absent
  /\ IF dir.file.data \in Version THEN Fault ELSE UNCHANGED faults
  /\ pc' = "unreadable"
  /\ UNCHANGED <<reason, mem, timer, temp, dir, disk, excused>>

\* Mutant: the file that cannot be read is removed.
Removed == [file |-> NoFile, kept |-> dir.kept]

\* os.replace(path, quarantine), under a name that is not taken
Moved == [file |-> NoFile, kept |-> dir.kept \cup ({dir.file.data} \cap Version)]

\* quarantine_file(); that the rename fails is ignored.
Quarantine ==
  /\ pc = "unreadable"
  /\ \/ dir' = Moved /\ UNCHANGED <<excused, faults>>
     \/ /\ Fault
        /\ excused' = excused \cup ({dir.file.data} \cap Version)
        /\ UNCHANGED dir
  /\ mem' = 0
  /\ pc' = "idle" /\ timer' = "on"
  /\ UNCHANGED <<reason, temp, disk>>

------------------------------------------------------------------------------
(* save(): atomic_write_json()                                             *)

Poll ==
  /\ pc = "idle"
  /\ mem < MaxVersion
  /\ mem' = mem + 1
  /\ UNCHANGED <<pc, reason, timer, temp, dir, disk, excused, faults>>

Open(why) ==
  /\ pc' = "opened" /\ reason' = why
  /\ temp' = [data |-> mem, synced |-> FALSE]
  /\ UNCHANGED <<mem, timer, dir, disk, excused, faults>>

TimerSave == pc = "idle" /\ timer = "on" /\ Open("timer")

\* SIGTERM ends the main loop, and main() calls shutdown().
Stop == pc = "idle" /\ Open("stop")

\* Mutant: flush() without fsync().
Flushed == temp' = temp

Synced == temp' = [temp EXCEPT !.synced = TRUE]

Fsync ==
  /\ pc = "opened"
  /\ Synced
  /\ pc' = "written"
  /\ UNCHANGED <<reason, mem, timer, dir, disk, excused, faults>>

Replace ==
  /\ pc = "written"
  /\ dir' = [dir EXCEPT !.file = temp]
  /\ temp' = NoFile
  /\ pc' = "replaced"
  /\ UNCHANGED <<reason, mem, timer, disk, excused, faults>>

\* fsync() of the directory; that it fails is ignored.
SyncDirectory ==
  /\ pc = "replaced"
  /\ \/ disk' = dir /\ UNCHANGED faults
     \/ UNCHANGED disk /\ Fault
  /\ pc' = "saved"
  /\ UNCHANGED <<reason, mem, timer, temp, dir, excused>>

\* Mutant: the temporary file stays.
LeftBehind == temp' = temp

\* finally: temp.unlink()
Unlinked == temp' = NoFile

\* A full disk: the temporary file is removed and the exception goes on.
SaveRaises ==
  /\ Fault
  /\ pc \in {"opened", "written"}
  /\ Unlinked
  /\ pc' = "raised"
  /\ UNCHANGED <<reason, mem, timer, dir, disk, excused>>

\* Mutant: the callback returns what save() returned, None.
TimerOnce == "none"

\* GLib keeps a timer whose callback returned True and drops one that raised.
TimerStays == IF pc = "saved" THEN "on" ELSE "raised"

\* _save_history() ends: back to the main loop, or on to the atexit handler,
\* which calls shutdown() again.
SaveEnds ==
  /\ pc \in {"saved", "raised"}
  /\ \/ /\ reason = "timer"
        /\ pc' = "idle" /\ timer' = TimerStays
        /\ UNCHANGED <<reason, mem, temp>>
     \/ /\ reason = "stop"
        /\ pc' = "opened" /\ reason' = "exit"
        /\ temp' = [data |-> mem, synced |-> FALSE]
        /\ UNCHANGED <<mem, timer>>
     \/ /\ reason = "exit"
        /\ pc' = "down" /\ mem' = 0 /\ timer' = "none"
        /\ UNCHANGED <<reason, temp>>
  /\ UNCHANGED <<dir, disk, excused, faults>>

------------------------------------------------------------------------------
(* Everything else                                                         *)

\* The temporary file of a process that is gone is never looked at again.
Dies == pc' = "down" /\ mem' = 0 /\ timer' = "none" /\ temp' = NoFile /\ UNCHANGED reason

\* SIGKILL
Crash ==
  /\ Fault
  /\ pc # "down"
  /\ Dies
  /\ UNCHANGED <<dir, disk, excused>>

\* The directory reaches the disk by itself.
WriteBack ==
  /\ disk # dir
  /\ disk' = dir
  /\ UNCHANGED <<driver, temp, dir, excused, faults>>

AfterLoss(f) == IF f.synced THEN f ELSE [data |-> Torn, synced |-> TRUE]

PowerLoss ==
  /\ Fault
  /\ Dies
  /\ dir' = [disk EXCEPT !.file = AfterLoss(@)]
  /\ disk' = dir'
  /\ UNCHANGED excused

\* An edit by hand or a worn flash memory; what was in the file is gone.
Damage ==
  /\ Fault
  /\ dir.file.data # Absent /\ disk.file.data # Absent
  /\ dir' = [dir EXCEPT !.file = [data |-> Bad, synced |-> TRUE]]
  /\ disk' = [disk EXCEPT !.file = [data |-> Bad, synced |-> TRUE]]
  /\ excused' = excused \cup ({dir.file.data, disk.file.data} \cap Version)
  /\ UNCHANGED <<driver, temp>>

------------------------------------------------------------------------------
Init ==
  /\ pc = "down" /\ reason = "timer"
  /\ mem = 0
  /\ timer = "none"
  /\ temp = NoFile
  /\ dir \in {[file |-> [data |-> d, synced |-> TRUE], kept |-> {}] :
                d \in {0, Absent, Bad}}
  /\ disk = dir
  /\ excused = {}
  /\ faults = 0

Driver ==
  \/ Boot \/ Load \/ LoadFails \/ Quarantine
  \/ TimerSave \/ Fsync \/ Replace \/ SyncDirectory \/ SaveEnds

Next ==
  \/ Driver \/ Poll \/ Stop \/ SaveRaises
  \/ Crash \/ WriteBack \/ PowerLoss \/ Damage

Spec == Init /\ [][Next]_vars

\* The driver's own steps, each of which ends
FairSpec == Spec /\ WF_vars(Driver)

------------------------------------------------------------------------------
(* Properties                                                              *)

AtomicFile == INSTANCE AtomicFile
  WITH Content <- Version \cup {Absent}, Bad <- Bad,
       visible <- dir.file.data, durable <- AfterLoss(disk.file).data

(* The history file is an atomic file: README.md has the history written   *)
(* atomically, and no crash, power loss or failed save leaves a torn one.  *)
IsAtomic == AtomicFile!Spec

(* A history that is safe on the disk stays, or a newer one, in the file   *)
(* or in a .corrupt-* file, unless something else spoiled it or its file   *)
(* could not be renamed: README.md has a corrupt state file renamed before *)
(* safe defaults are used.                                                 *)
NothingLost ==
  \A v \in Version \cap ({disk.file.data} \cup disk.kept) :
    \E w \in {dir.file.data} \cup dir.kept \cup excused : w \in Version /\ w >= v

(* While the driver lives, every poll is saved in the end unless a save    *)
(* failed before, which is what README.md's five minutes come to: the      *)
(* timer that saves is lost with the first exception.                      *)
Saved ==
  \A v \in Version :
    (pc = "idle" /\ mem >= v) ~>
      \/ dir.file.data \in Version /\ dir.file.data >= v
      \/ pc = "down" \/ timer = "raised"
=============================================================================
