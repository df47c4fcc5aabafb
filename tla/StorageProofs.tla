---------------------------- MODULE StorageProofs ----------------------------
(***************************************************************************)
(* The history file is an atomic file and loses nothing that was durable,  *)
(* for any number of versions and failures.                                *)
(***************************************************************************)
EXTENDS Storage, TLAPS

\* Only what fsync() has made durable gets the name of the file.
Durable ==
  /\ dir.file.synced /\ disk.file.synced
  /\ pc = "written" => temp.synced

\* save() writes the history there is.
Writing == pc \in {"opened", "written"} => temp.data = mem

\* v or a newer version is in S.
Safe(v, S) == \E w \in S : w \in Version /\ w >= v

\* A driver that has loaded the file knows what it would replace.
Remembers ==
  pc \in {"idle", "saved", "raised"} \cup Saving /\ dir.file.data \in Version =>
    Safe(dir.file.data, {mem} \cup dir.kept \cup excused)

IInv == TypeOK /\ Durable /\ Writing /\ Remembers /\ NothingLost

-----------------------------------------------------------------------------
LEMMA MarksAreNoVersions ==
  /\ Version \subseteq Nat /\ 0 \in Version
  /\ \A v \in Version : v \notin {Absent, Bad, Torn}
  /\ NoFile \in File
  /\ \A v \in Version : [data |-> v, synced |-> FALSE] \in File
BY ConstantsAssumption DEF Version, NoFile, File

LEMMA InitInv == Init => IInv
<1>1. Init => TypeOK
  <2>1. ASSUME Init PROVE dir \in Directory /\ disk \in Directory
    <3>1. PICK d \in {0, Absent, Bad} :
            dir = [file |-> [data |-> d, synced |-> TRUE], kept |-> {}]
      BY <2>1 DEF Init
    <3>2. [data |-> d, synced |-> TRUE] \in File
      BY MarksAreNoVersions DEF File
    <3>3. QED
      BY <2>1, <3>1, <3>2 DEF Init, Directory
  <2>2. QED
    BY <2>1, MarksAreNoVersions, ConstantsAssumption DEF Init, TypeOK, NoFile, Saving
<1>2. Init => Durable /\ Writing /\ Remembers /\ NothingLost
  BY MarksAreNoVersions DEF Init, Durable, Writing, Remembers, NothingLost, Saving
<1>3. QED
  BY <1>1, <1>2 DEF IInv

-----------------------------------------------------------------------------
(* Type correctness                                                        *)

LEMMA TypeStep ==
  ASSUME TypeOK, [Next]_vars
  PROVE  TypeOK'
<1>f. Fault => faults' \in 0..MaxFaults
  BY ConstantsAssumption DEF Fault, TypeOK
<1>1. CASE Boot \/ Load \/ LoadFails
  <2>1. CASE Boot
    BY <2>1 DEF TypeOK, Boot, Saving
  <2>2. CASE Load
    <3>1. mem' \in Version
      BY <2>2, MarksAreNoVersions DEF Load
    <3>2. QED
      BY <2>2, <3>1 DEF TypeOK, Load, Saving
  <2>3. CASE LoadFails
    <3>1. faults' \in 0..MaxFaults
      BY <2>3, <1>f DEF TypeOK, LoadFails
    <3>2. QED
      BY <2>3, <3>1 DEF TypeOK, LoadFails, Saving
  <2>4. QED
    BY <1>1, <2>1, <2>2, <2>3
<1>2. CASE Quarantine
  <2>1. Moved \in Directory
    BY MarksAreNoVersions DEF Moved, TypeOK, Directory, File
  <2>2. dir' \in Directory
    BY <1>2, <2>1 DEF Quarantine, TypeOK
  <2>3. /\ excused' \in SUBSET Version /\ faults' \in 0..MaxFaults
    BY <1>2, ConstantsAssumption DEF Quarantine, TypeOK, Fault
  <2>4. QED
    BY <1>2, <2>2, <2>3, MarksAreNoVersions DEF Quarantine, TypeOK, Saving
<1>3. CASE Poll
  BY <1>3, ConstantsAssumption DEF Poll, TypeOK, Version
<1>4. CASE TimerSave \/ Stop
  <2>1. temp' = [data |-> mem, synced |-> FALSE] /\ pc' = "opened" /\ reason' \in {"timer", "stop"}
    BY <1>4 DEF TimerSave, Stop, Open
  <2>2. temp' \in File /\ temp'.data # Absent
    BY <2>1, MarksAreNoVersions DEF TypeOK
  <2>3. QED
    BY <1>4, <2>1, <2>2 DEF TimerSave, Stop, Open, TypeOK, Saving
<1>5. CASE Fsync \/ Replace
  <2>1. CASE Fsync
    BY <2>1 DEF Fsync, Synced, TypeOK, Saving, File
  <2>2. CASE Replace
    BY <2>2, MarksAreNoVersions DEF Replace, TypeOK, Saving, Directory, NoFile
  <2>3. QED
    BY <1>5, <2>1, <2>2
<1>6. CASE SyncDirectory \/ SaveRaises
  <2>1. faults' \in 0..MaxFaults
    BY <1>6, <1>f DEF SyncDirectory, SaveRaises, TypeOK
  <2>2. CASE SyncDirectory
    BY <2>1, <2>2 DEF SyncDirectory, TypeOK, Saving
  <2>3. CASE SaveRaises
    BY <2>1, <2>3, MarksAreNoVersions DEF SaveRaises, Unlinked, TypeOK, Saving, NoFile
  <2>4. QED
    BY <1>6, <2>2, <2>3
<1>7. CASE SaveEnds
  <2>1. CASE reason = "stop"
    <3>1. temp' = [data |-> mem, synced |-> FALSE] /\ pc' = "opened" /\ reason' = "exit"
      BY <1>7, <2>1 DEF SaveEnds
    <3>2. temp' \in File /\ temp'.data # Absent
      BY <3>1, MarksAreNoVersions DEF TypeOK
    <3>3. QED
      BY <1>7, <2>1, <3>1, <3>2 DEF SaveEnds, TypeOK, Saving
  <2>2. CASE reason # "stop"
    BY <1>7, <2>2, MarksAreNoVersions DEF SaveEnds, TimerStays, TypeOK, Saving
  <2>3. QED
    BY <2>1, <2>2
<1>8. CASE Crash \/ WriteBack
  <2>1. CASE Crash
    BY <2>1, <1>f, MarksAreNoVersions DEF Crash, Dies, TypeOK, Saving, NoFile
  <2>2. CASE WriteBack
    BY <2>2 DEF WriteBack, driver, TypeOK
  <2>3. QED
    BY <1>8, <2>1, <2>2
<1>9. CASE PowerLoss
  <2>1. AfterLoss(disk.file) \in File
    BY DEF AfterLoss, TypeOK, Directory, File
  <2>2. dir' \in Directory /\ disk' \in Directory
    BY <1>9, <2>1 DEF PowerLoss, TypeOK, Directory
  <2>3. QED
    BY <1>9, <2>2, MarksAreNoVersions, ConstantsAssumption DEF PowerLoss, Dies, TypeOK, Saving, NoFile, Fault
<1>10. CASE Damage
  <2>1. dir' \in Directory /\ disk' \in Directory
    BY <1>10 DEF Damage, TypeOK, Directory, File
  <2>2. QED
    BY <1>10, <2>1, ConstantsAssumption DEF Damage, driver, TypeOK, Fault
<1>11. CASE UNCHANGED vars
  BY <1>11 DEF vars, driver, TypeOK
<1>12. QED
  BY <1>1, <1>2, <1>3, <1>4, <1>5, <1>6, <1>7, <1>8, <1>9, <1>10, <1>11 DEF Next, Driver

-----------------------------------------------------------------------------
(* What is durable                                                         *)

LEMMA DurableStep ==
  ASSUME TypeOK, Durable, Writing, [Next]_vars
  PROVE  Durable' /\ Writing'
<1>1. CASE Boot \/ Load \/ LoadFails \/ Poll \/ WriteBack \/ Crash \/ SyncDirectory
  BY <1>1 DEF Boot, Load, LoadFails, Poll, WriteBack, driver, Crash, Dies, SyncDirectory,
     Durable, Writing
<1>2. CASE Quarantine
  BY <1>2 DEF Quarantine, Moved, NoFile, Durable, Writing
<1>3. CASE TimerSave \/ Stop \/ Fsync
  BY <1>3 DEF TimerSave, Stop, Open, Fsync, Synced, Durable, Writing, TypeOK, File
<1>4. CASE Replace \/ SaveRaises \/ SaveEnds
  BY <1>4 DEF Replace, SaveRaises, SaveEnds, Durable, Writing, TypeOK, Directory
<1>5. CASE PowerLoss \/ Damage
  BY <1>5 DEF PowerLoss, Dies, Damage, AfterLoss, driver, Durable, Writing, TypeOK, Directory
<1>6. CASE UNCHANGED vars
  BY <1>6 DEF vars, driver, Durable, Writing
<1>7. QED
  BY <1>1, <1>2, <1>3, <1>4, <1>5, <1>6 DEF Next, Driver

\* A newer version of a newer one is newer.
LEMMA SafeTransitive ==
  ASSUME NEW S, NEW T, NEW v \in Version, Safe(v, S),
         \A w \in S : w \in Version => Safe(w, T)
  PROVE  Safe(v, T)
<1>1. PICK w \in S : w \in Version /\ w >= v
  BY DEF Safe
<1>2. PICK x \in T : x \in Version /\ x >= w
  BY <1>1 DEF Safe
<1>3. x >= v
  BY <1>1, <1>2, MarksAreNoVersions
<1>4. QED
  BY <1>2, <1>3 DEF Safe

LEMMA LostStep ==
  ASSUME IInv, [Next]_vars
  PROVE  Remembers' /\ NothingLost'
<1> DEFINE Old == Version \cap ({disk.file.data} \cup disk.kept)
           Have == {dir.file.data} \cup dir.kept \cup excused
<1> USE DEF IInv
<1>1. \A v \in Old : Safe(v, Have)
  BY DEF NothingLost, Safe
<1>2. \A S : \A v \in Version : v \in S => Safe(v, S)
  BY MarksAreNoVersions DEF Safe
<1>a. ASSUME \A w \in Have : w \in Version => Safe(w, Have'),
             UNCHANGED <<disk.file.data, disk.kept>>
      PROVE  NothingLost'
  <2>1. ASSUME NEW v \in Old PROVE Safe(v, Have')
    BY <1>1, <1>a, <2>1, SafeTransitive
  <2>2. QED
    BY <1>a, <2>1 DEF NothingLost, Safe
<1>b. NothingLost' <=> \A v \in Old' : Safe(v, Have')
  BY DEF NothingLost, Safe
<1>c. UNCHANGED <<dir, disk, excused>> => NothingLost'
  <2>1. ASSUME UNCHANGED <<dir, disk, excused>> PROVE Old' = Old /\ Have' = Have
    BY <2>1 DEF Version
  <2>2. QED
    BY <1>1, <1>b, <2>1
<1>3. CASE Boot \/ LoadFails \/ Crash \/ UNCHANGED vars
  <2>1. UNCHANGED <<dir, disk, excused>>
    BY <1>3 DEF Boot, LoadFails, Crash, vars
  <2>2. QED
    BY <1>3, <1>c, <2>1 DEF Boot, LoadFails, Crash, Dies, vars, driver, Remembers, Safe, Saving
<1>4. CASE Load \/ Poll
  <2>1. UNCHANGED <<dir, disk, excused>>
    BY <1>4 DEF Load, Poll
  <2>2. CASE Load
    BY <2>1, <2>2, <1>2, <1>c, MarksAreNoVersions DEF Load, Remembers
  <2>3. CASE Poll
    <3>1. mem \in Nat /\ mem' \in Version /\ mem' >= mem
      BY <2>3, ConstantsAssumption DEF Poll, TypeOK, Version
    <3>2. ASSUME NEW w \in {mem} \cup dir.kept \cup excused, w \in Version
          PROVE  Safe(w, {mem'} \cup dir.kept \cup excused)
      BY <1>2, <3>1, <3>2 DEF Safe
    <3>3. dir.file.data \in Version => Safe(dir.file.data, {mem'} \cup dir.kept \cup excused)
      BY <2>3, <3>2, SafeTransitive DEF Poll, Remembers
    <3>4. QED
      BY <1>c, <2>1, <3>3 DEF Remembers
  <2>4. QED
    BY <1>4, <2>2, <2>3
<1>5. CASE TimerSave \/ Stop \/ Fsync \/ SaveRaises \/ SaveEnds
  <2>1. UNCHANGED <<dir, disk, excused>>
    BY <1>5 DEF TimerSave, Stop, Open, Fsync, SaveRaises, SaveEnds
  <2>2. pc' = "down" \/ (UNCHANGED mem /\ pc \in {"idle", "saved", "raised"} \cup Saving)
    BY <1>5 DEF TimerSave, Stop, Open, Fsync, SaveRaises, SaveEnds, Saving
  <2>3. Remembers'
    BY <2>1, <2>2 DEF Remembers, Safe, Saving
  <2>4. QED
    BY <1>c, <2>1, <2>3
<1>6. CASE SyncDirectory \/ WriteBack
  <2>1. UNCHANGED <<dir, excused, mem>>
    BY <1>6 DEF SyncDirectory, WriteBack, driver
  <2>2. Remembers'
    BY <1>6, <2>1 DEF SyncDirectory, WriteBack, driver, Remembers, Saving, Safe
  <2>3. CASE disk' = dir
    <3>1. Old' \subseteq Have' /\ Old' \subseteq Version
      BY <2>1, <2>3 DEF Version
    <3>2. QED
      BY <1>2, <1>b, <2>2, <3>1
  <2>4. CASE UNCHANGED disk
    BY <1>c, <2>1, <2>2, <2>4
  <2>5. QED
    BY <1>6, <2>2, <2>3, <2>4 DEF SyncDirectory, WriteBack
<1>7. CASE Quarantine
  <2>1. UNCHANGED disk /\ pc' = "idle"
    BY <1>7 DEF Quarantine
  <2>2. CASE dir' = Moved /\ UNCHANGED excused
    <3>1. /\ dir'.file.data = Absent
          /\ dir'.kept = dir.kept \cup ({dir.file.data} \cap Version)
      BY <2>2 DEF Moved, NoFile
    <3>2. ASSUME NEW w \in Have, w \in Version PROVE w \in Have'
      BY <2>2, <3>1, <3>2
    <3>3. NothingLost'
      BY <1>2, <1>a, <2>1, <3>2
    <3>4. QED
      BY <3>1, <3>3, MarksAreNoVersions DEF Remembers
  <2>3. CASE UNCHANGED dir /\ excused' = excused \cup ({dir.file.data} \cap Version)
    BY <1>2, <1>a, <2>1, <2>3 DEF Remembers
  <2>4. QED
    BY <1>7, <2>2, <2>3 DEF Quarantine
<1>8. CASE Replace
  <2>1. /\ dir'.file = temp /\ dir'.kept = dir.kept
        /\ UNCHANGED <<disk, excused, mem>> /\ temp.data = mem
    BY <1>8 DEF Replace, TypeOK, Directory, Writing
  <2>2. mem \in Version
    BY DEF TypeOK
  <2>3. ASSUME NEW w \in Have, w \in Version PROVE Safe(w, Have')
    <3>1. CASE w = dir.file.data
      BY <1>8, <2>1, <2>3, <3>1 DEF Replace, Remembers, Saving
    <3>2. CASE w \in dir.kept \cup excused
      BY <1>2, <2>1, <2>3, <3>2
    <3>3. QED
      BY <2>3, <3>1, <3>2
  <2>4. NothingLost'
    BY <1>a, <2>1, <2>3
  <2>5. QED
    BY <1>2, <2>1, <2>2, <2>4 DEF Remembers
<1>9. CASE PowerLoss
  <2>1. dir' = disk' /\ pc' = "down"
    BY <1>9 DEF PowerLoss, Dies
  <2>2. QED
    BY <2>1, MarksAreNoVersions DEF Remembers, NothingLost, Saving
<1>10. CASE Damage
  <2>1. /\ dir'.file.data = Bad /\ disk'.file.data = Bad
        /\ dir'.kept = dir.kept /\ disk'.kept = disk.kept
        /\ excused' = excused \cup ({dir.file.data, disk.file.data} \cap Version)
    BY <1>10 DEF Damage, TypeOK, Directory
  <2>2. Remembers'
    BY <2>1, MarksAreNoVersions DEF Remembers
  <2>3. ASSUME NEW v \in Version \cap disk.kept PROVE Safe(v, Have')
    <3>1. Safe(v, Have)
      BY <1>1, <2>3
    <3>2. \A w \in Have : w \in Version => Safe(w, Have')
      BY <1>2, <2>1
    <3>3. QED
      BY <2>3, <3>1, <3>2, SafeTransitive
  <2>4. QED
    BY <2>1, <2>2, <2>3, MarksAreNoVersions DEF NothingLost, Safe
<1>11. QED
  BY <1>3, <1>4, <1>5, <1>6, <1>7, <1>8, <1>9, <1>10 DEF Next, Driver

-----------------------------------------------------------------------------
(* The steps of AtomicFile                                                 *)

LEMMA FileStep ==
  ASSUME TypeOK, Durable, Writing, [Next]_vars
  PROVE  [AtomicFile!Next]_(AtomicFile!vars)
<1>1. AfterLoss(disk.file).data = disk.file.data
  BY DEF Durable, AfterLoss
<1>2. AfterLoss(disk'.file).data = disk'.file.data
  BY DurableStep DEF Durable, AfterLoss
<1>a. ASSUME UNCHANGED <<dir, disk>> PROVE UNCHANGED AtomicFile!vars
  BY <1>a DEF AtomicFile!vars
<1>b. ASSUME NEW v \in Version \cup {Absent}, dir'.file.data = v, UNCHANGED disk
      PROVE  AtomicFile!Next
  BY <1>b DEF AtomicFile!Next, AtomicFile!Put
<1>c. ASSUME disk' = dir, UNCHANGED dir PROVE AtomicFile!Next
  BY <1>1, <1>2, <1>c DEF AtomicFile!Next, AtomicFile!Sync
<1>3. CASE Boot \/ Load \/ LoadFails \/ Poll \/ TimerSave \/ Stop \/ Fsync \/ SaveRaises
           \/ SaveEnds \/ Crash \/ UNCHANGED vars
  BY <1>3, <1>a DEF Boot, Load, LoadFails, Poll, TimerSave, Stop, Open, Fsync, SaveRaises,
     SaveEnds, Crash, vars
<1>4. CASE Quarantine
  BY <1>4, <1>a, <1>b DEF Quarantine, Moved, NoFile
<1>5. CASE Replace
  <2>1. dir'.file.data = mem /\ mem \in Version
    BY <1>5 DEF Replace, Writing, TypeOK, Directory
  <2>2. QED
    BY <1>5, <1>b, <2>1 DEF Replace
<1>6. CASE SyncDirectory \/ WriteBack
  BY <1>6, <1>a, <1>c DEF SyncDirectory, WriteBack
<1>7. CASE PowerLoss
  <2>1. /\ dir'.file.data = AfterLoss(disk.file).data
        /\ disk'.file.data = AfterLoss(disk.file).data
    BY <1>7 DEF PowerLoss, TypeOK, Directory
  <2>2. QED
    BY <1>1, <1>2, <2>1 DEF AtomicFile!Next, AtomicFile!PowerLoss
<1>8. CASE Damage
  <2>1. dir'.file.data = Bad /\ disk'.file.data = Bad
    BY <1>8 DEF Damage, TypeOK, Directory
  <2>2. QED
    BY <1>2, <2>1 DEF AtomicFile!Next, AtomicFile!Damage
<1>9. QED
  BY <1>3, <1>4, <1>5, <1>6, <1>7, <1>8 DEF Next, Driver

-----------------------------------------------------------------------------
LEMMA InvHolds == Spec => []IInv
<1>1. IInv /\ [Next]_vars => IInv'
  BY TypeStep, DurableStep, LostStep DEF IInv
<1>2. QED
  BY InitInv, <1>1, PTL DEF Spec

(* The types are right, and save() has its temporary file exactly between  *)
(* open() and os.replace().                                                *)
THEOREM TypeCorrect == Spec => []TypeOK
<1>1. IInv => TypeOK
  BY DEF IInv
<1>2. QED
  BY InvHolds, <1>1, PTL

(* What atomic_write_json() made durable is never lost, in whatever order  *)
(* saves, crashes, power losses, failed reads and damage come.             *)
THEOREM NothingIsLost == Spec => []NothingLost
<1>1. IInv => NothingLost
  BY DEF IInv
<1>2. QED
  BY InvHolds, <1>1, PTL

(* atomic_write_json() and quarantine_file() over a file system that       *)
(* forgets what was not synced implement the file of module AtomicFile.    *)
THEOREM FileIsAtomic == Spec => IsAtomic
<1>1. Init => AtomicFile!Init
  BY MarksAreNoVersions DEF Init, AtomicFile!Init, AfterLoss
<1>2. IInv /\ [Next]_vars => [AtomicFile!Next]_(AtomicFile!vars)
  BY FileStep DEF IInv
<1>3. QED
  BY InvHolds, <1>1, <1>2, PTL DEF Spec, IsAtomic, AtomicFile!Spec
=============================================================================
