---------------------------- MODULE HotplugProofs ----------------------------
(***************************************************************************)
(* Proofs about Hotplug: its type invariant, the uniqueness of the serials *)
(* and ports of the records, that a driver only ever publishes what was    *)
(* read from the device with its serial, what resets the backoff, and that *)
(* the manager implements Directory.                                       *)
(***************************************************************************)
EXTENDS Hotplug, FiniteSetTheorems, WellFoundedInduction, TLAPS

(* A nonempty set of naturals has a least element, so sorted(paths) has a  *)
(* first one and _free_port() returns a port that is free.                 *)
LEMMA LeastIsMember ==
  ASSUME NEW S, S \subseteq Nat, S # {}
  PROVE  Least(S) \in S
<1>1. PICK x \in S : \A y \in S : ~(<<y, x>> \in OpToRel(<, Nat))
  BY NatLessThanWellFounded, WFMin
<1>2. ASSUME NEW y \in S PROVE x <= y
  <2>1. <<y, x>> \in Nat \X Nat /\ <<y, x>> \notin OpToRel(<, Nat)
    BY <1>1
  <2>2. ~(y < x)
    BY <2>1 DEF OpToRel
  <2>3. QED
    BY <2>2
<1>3. QED
  BY <1>2 DEF Least

LEMMA FreePortIsFree ==
  ASSUME FreePorts # {}
  PROVE  FreePort \in Port /\ FreePort \notin UsedPorts
<1>1. FreePorts \subseteq Nat
  BY ConstantsAssumption DEF FreePorts
<1>2. FreePort \in FreePorts
  BY <1>1, LeastIsMember DEF FreePort
<1>3. QED
  BY <1>2 DEF FreePorts

LEMMA StartingIsPath ==
  ASSUME TypeOK, todo # {}
  PROVE  Starting \in todo /\ Starting \in Path
<1>1. todo \subseteq Path
  BY DEF TypeOK
<1>2. QED
  BY <1>1, LeastIsMember, ConstantsAssumption DEF Starting

LEMMA BackoffType ==
  /\ NoFailure \in Failure
  /\ \A a \in 0..MaxExponent : OneMore(a) \in 0..MaxExponent /\ Backoff(a) \in Failure
  BY ConstantsAssumption DEF NoFailure, Failure, OneMore, Backoff

------------------------------------------------------------------------------
(* Type correctness, one lemma for the steps of scan() and one for the     *)
(* steps of everything else.                                               *)

LEMMA RaiseType ==
  ASSUME TypeOK, NEW rs \in [Path -> Record \cup {NoRecord}],
         NEW fs \in [Path -> Failure],
         dev' \in [Path -> Device \cup {NoDevice}],
         listener' \in [Port -> Device \cup {Gone, NoProc}],
         owner' \in [Serial -> Port \cup {NoProc}],
         faults' \in 0..MaxFaults,
         Raise(rs, fs)
  PROVE  TypeOK'
<1>1. CASE booting
  <2>1. /\ records' \in [Path -> Record \cup {NoRecord}]
        /\ failed' \in [Path -> Failure]
        /\ manifest' \in SUBSET Serial
    BY <1>1, BackoffType DEF Raise, Forget, TypeOK
  <2>2. QED
    BY <1>1, <2>1 DEF Raise, Outside, TypeOK
<1>2. CASE ~booting
  BY <1>2 DEF Raise, Outside, TypeOK
<1>3. QED
  BY <1>1, <1>2

LEMMA ScanType ==
  ASSUME TypeOK, Scan
  PROVE  TypeOK'
<1> USE ConstantsAssumption
<1>a. Fault => faults' \in 0..MaxFaults
  BY DEF Fault, TypeOK
<1>b. \A p \in Path : Pop(p) \in [Path -> Record \cup {NoRecord}]
  BY DEF Pop, TypeOK
<1>c. ASSUME NEW p \in Recorded
      PROVE  Terminate(p) \/ StopDriverOnly(p) =>
               /\ listener' \in [Port -> Device \cup {Gone, NoProc}]
               /\ owner' \in [Serial -> Port \cup {NoProc}]
  BY DEF Terminate, StopDriverOnly, TypeOK
<1>d. CloseBackend => listener' \in [Port -> Device \cup {Gone, NoProc}]
  BY DEF CloseBackend, TypeOK
<1>1. CASE ScanBegin
  BY <1>1 DEF ScanBegin, TypeOK, memory, procs, Plugged, Recorded
<1>2. ASSUME NEW p \in Path, SweepRemoved(p) PROVE TypeOK'
  BY <1>2, <1>b, BackoffType DEF SweepRemoved, Terminate, TypeOK
<1>3. ASSUME NEW p \in Path, SweepExited(p) PROVE TypeOK'
  <2>a. failed[p].attempts \in 0..MaxExponent
    BY DEF TypeOK, Failure
  <2>b. OneMore(failed[p].attempts) \in 0..MaxExponent
    BY <2>a, BackoffType
  <2>c. 0 \in 0..MaxExponent
    OBVIOUS
  <2>1. Attempts(p) \in 0..MaxExponent
    BY <2>b, <2>c, Zenon DEF Attempts
  <2>2. QED
    BY <1>3, <1>b, <2>1, BackoffType DEF SweepExited, Terminate, TypeOK
<1>4. ASSUME NEW p \in Path, SweepHealthy(p) PROVE TypeOK'
  BY <1>4 DEF SweepHealthy, TypeOK, memory, procs
<1>5. ASSUME NEW p \in Path, SweepRaises(p) PROVE TypeOK'
  <2>1. /\ listener' \in [Port -> Device \cup {Gone, NoProc}]
        /\ owner' \in [Serial -> Port \cup {NoProc}]
    BY <1>5 DEF SweepRaises, Terminate, StopDriverOnly, TypeOK
  <2>2. QED
    BY <1>5, <1>a, <1>b, <2>1, RaiseType DEF SweepRaises, TypeOK
<1>6. CASE BeginStarts
  BY <1>6 DEF BeginStarts, Due, TypeOK, memory, procs
<1>7. CASE StartDevice
  <2>1. FreePort \in Port /\ Starting \in Path
    BY <1>7, FreePortIsFree, StartingIsPath DEF StartDevice
  <2>2. listener' \in [Port -> Device \cup {Gone, NoProc}] /\ own' \in BOOLEAN
    BY <1>7, <2>1 DEF StartDevice, StartBackend, TypeOK
  <2>3. QED
    BY <1>7, <2>1, <2>2 DEF StartDevice, TypeOK, memory
<1>8. CASE NoFreePort
  BY <1>8, RaiseType DEF NoFreePort, procs, TypeOK
<1>9. CASE ProbeSucceeds
  <2>1. PICK s \in Serial :
          /\ manifest' = manifest \cup {s}
          /\ saved' = IF s \in manifest THEN saved ELSE manifest \cup {s}
          /\ records' = [records EXCEPT ![Starting] =
                           [serial |-> s, port |-> port, backend |-> own,
                            driver |-> owner[s] = NoProc, stable |-> FALSE]]
          /\ owner' = [owner EXCEPT ![s] = IF @ = NoProc THEN port ELSE @]
    BY <1>9 DEF ProbeSucceeds
  <2>2. port \in Port /\ own \in BOOLEAN /\ Starting \in Path
    BY <1>9, StartingIsPath DEF ProbeSucceeds, TypeOK
  <2>3. [serial |-> s, port |-> port, backend |-> own,
         driver |-> owner[s] = NoProc, stable |-> FALSE] \in Record
    BY <2>2 DEF Record
  <2>4. /\ records' \in [Path -> Record \cup {NoRecord}]
        /\ owner' \in [Serial -> Port \cup {NoProc}]
    BY <2>1, <2>2, <2>3 DEF TypeOK
  <2>5. QED
    BY <1>9, <2>1, <2>4 DEF ProbeSucceeds, Return, TypeOK
<1>10. ASSUME StartFailed, pc = "probing", manifest' \in SUBSET Serial,
              faults' \in 0..MaxFaults
       PROVE  TypeOK'
  <2>1. failed' \in [Path -> Failure]
    BY <1>10, BackoffType, StartingIsPath DEF StartFailed, TypeOK, Failure
  <2>2. QED
    BY <1>10, <1>d, <2>1 DEF StartFailed, Return, TypeOK
<1>11. CASE StartFails
  BY <1>11, <1>10, <1>a DEF StartFails, TypeOK
<1>12. CASE SaveFails
  BY <1>12, <1>10, <1>a DEF SaveFails, TypeOK
<1>13. CASE StartRaises
  BY <1>13, <1>a, <1>d, RaiseType DEF StartRaises, TypeOK
<1>e. Pruned \in [Path -> Failure]
  BY BackoffType DEF Pruned, TypeOK
<1>14. CASE FinishScan
  BY <1>14, <1>e DEF FinishScan, Outside, TypeOK, procs
<1>15. CASE FinishRaises
  BY <1>15, <1>a, <1>e, RaiseType DEF FinishRaises, TypeOK, procs
<1>16. QED
  BY <1>1, <1>2, <1>3, <1>4, <1>5, <1>6, <1>7, <1>8, <1>9, <1>11, <1>12,
     <1>13, <1>14, <1>15 DEF Scan

LEMMA EnvironmentType ==
  ASSUME TypeOK, Environment
  PROVE  TypeOK'
<1> USE ConstantsAssumption
<1>a. Fault => faults' \in 0..MaxFaults
  BY DEF Fault, TypeOK
<1>b. Outside /\ Forget => /\ records' \in [Path -> Record \cup {NoRecord}]
                           /\ failed' \in [Path -> Failure]
                           /\ manifest' \in SUBSET Serial
  BY BackoffType DEF Forget, TypeOK
<1>1. CASE Shutdown
  BY <1>1, <1>a, <1>b DEF Shutdown, Outside, TypeOK
<1>2. CASE Crash
  BY <1>2, <1>a, <1>b DEF Crash, Outside, TypeOK, procs
<1>3. CASE Restart
  BY <1>3 DEF Restart, TypeOK, memory, procs
<1>4. CASE Tick
  <2>a. ASSUME NEW p \in Path
        PROVE  [failed[p] EXCEPT !.wait = IF @ > 0 THEN @ - 1 ELSE 0] \in Failure
    <3>1. failed[p] \in Failure
      BY DEF TypeOK
    <3>2. QED
      BY <3>1 DEF Failure
  <2>1. failed' \in [Path -> Failure]
    BY <1>4, <2>a DEF Tick
  <2>2. QED
    BY <1>4, <2>1 DEF Tick, TypeOK, locals, procs
<1>5. ASSUME NEW p \in Path, Stabilise(p) PROVE TypeOK'
  <2>1. records' \in [Path -> Record \cup {NoRecord}]
    BY <1>5 DEF Stabilise, Recorded, TypeOK, Record
  <2>2. QED
    BY <1>5, <2>1 DEF Stabilise, TypeOK, locals, procs
<1>6. ASSUME NEW p \in Path, Unplug(p) PROVE TypeOK'
  BY <1>6, <1>a DEF Unplug, TypeOK, locals, memory
<1>7. ASSUME NEW p \in Path, NEW d \in Device, Plug(p, d) PROVE TypeOK'
  BY <1>7, <1>a DEF Plug, TypeOK, locals, memory, procs
<1>8. ASSUME NEW q \in Port, BackendExits(q), faults' \in 0..MaxFaults
      PROVE  TypeOK'
  <2>1. records' \in [Path -> Record \cup {NoRecord}]
    BY <1>8 DEF BackendExits, Recorded, TypeOK, Record
  <2>2. listener' \in [Port -> Device \cup {Gone, NoProc}]
    BY <1>8 DEF BackendExits, TypeOK
  <2>3. own' \in BOOLEAN /\ (own' => pc' = "probing")
    BY <1>8, Zenon DEF BackendExits, TypeOK
  <2>4. QED
    BY <1>8, <2>1, <2>2, <2>3 DEF BackendExits, TypeOK
<1>9. ASSUME NEW s \in Serial, DriverExits(s), faults' \in 0..MaxFaults
      PROVE  TypeOK'
  <2>1. records' \in [Path -> Record \cup {NoRecord}]
    BY <1>9 DEF DriverExits, Recorded, TypeOK, Record
  <2>2. QED
    BY <1>9, <2>1 DEF DriverExits, TypeOK, locals
<1>10. ASSUME NEW q \in Port, BackendLosesDevice(q) \/ BackendFails(q)
       PROVE  TypeOK'
  BY <1>10, <1>8, <1>a DEF BackendLosesDevice, BackendFails, TypeOK
<1>11. ASSUME NEW s \in Serial, DriverGivesUp(s) \/ DriverFails(s)
       PROVE  TypeOK'
  BY <1>11, <1>9, <1>a DEF DriverGivesUp, DriverFails, TypeOK
<1>12. QED
  BY <1>1, <1>2, <1>3, <1>4, <1>5, <1>6, <1>7, <1>10, <1>11 DEF Environment

(* The type invariant of the manager and its processes, under every kind   *)
(* of failure the constants allow.                                         *)
THEOREM TypeCorrect == Spec => []TypeOK
<1>1. ASSUME Init PROVE TypeOK
  <2>1. failed \in [Path -> Failure]
    BY <1>1, BackoffType DEF Init
  <2>2. /\ records \in [Path -> Record \cup {NoRecord}]
        /\ listener \in [Port -> Device \cup {Gone, NoProc}]
        /\ owner \in [Serial -> Port \cup {NoProc}]
        /\ faults \in 0..MaxFaults
    BY <1>1, ConstantsAssumption DEF Init
  <2>3. QED
    BY <1>1, <2>1, <2>2 DEF Init, TypeOK
<1>2. TypeOK /\ [Next]_vars => TypeOK'
  <2>1. TypeOK /\ UNCHANGED vars => TypeOK'
    BY DEF TypeOK, vars, locals, memory, procs
  <2>2. QED
    BY <2>1, ScanType, EnvironmentType DEF Next
<1>3. QED
  BY <1>1, <1>2, PTL DEF Spec

------------------------------------------------------------------------------
(* Uniqueness of serials and ports.  Every step but two only drops records *)
(* or changes their flags, and leaves no port in use by _start_device().   *)

Shrinks ==
  \A p \in Recorded' : /\ p \in Recorded
                       /\ records'[p].serial = records[p].serial
                       /\ records'[p].port = records[p].port

LEMMA RaiseShrinks ==
  ASSUME TypeOK, NEW fs, Raise(records, fs) \/ \E p \in Path : Raise(Pop(p), fs)
  PROVE  Shrinks /\ port' = NoProc
  BY DEF Raise, Outside, Forget, Pop, Shrinks, Recorded, TypeOK

LEMMA ScanShrinks ==
  ASSUME TypeOK, Scan
  PROVE  \/ Shrinks /\ port' \in {port, NoProc}
         \/ StartDevice
         \/ ProbeSucceeds
<1>a. UNCHANGED records => Shrinks
  BY DEF Shrinks, Recorded
<1>b. ASSUME NEW p \in Path PROVE records' = Pop(p) => Shrinks
  BY DEF Shrinks, Recorded, Pop, TypeOK
<1>1. ScanBegin \/ BeginStarts \/ FinishScan => Shrinks /\ port' \in {port, NoProc}
  BY <1>a DEF ScanBegin, BeginStarts, FinishScan, Outside, memory
<1>2. ASSUME NEW p \in Path, SweepRemoved(p) \/ SweepExited(p) \/ SweepHealthy(p)
      PROVE  Shrinks /\ port' \in {port, NoProc}
  BY <1>2, <1>a, <1>b DEF SweepRemoved, SweepExited, SweepHealthy, memory
<1>3. ASSUME NEW p \in Path, SweepRaises(p)
      PROVE  Shrinks /\ port' \in {port, NoProc}
  BY <1>3, RaiseShrinks DEF SweepRaises
<1>4. NoFreePort \/ StartRaises \/ FinishRaises => Shrinks /\ port' \in {port, NoProc}
  BY RaiseShrinks DEF NoFreePort, StartRaises, FinishRaises
<1>5. StartFails \/ SaveFails => Shrinks /\ port' \in {port, NoProc}
  BY <1>a DEF StartFails, SaveFails, StartFailed, Return
<1>6. QED
  BY <1>1, <1>2, <1>3, <1>4, <1>5 DEF Scan

LEMMA EnvironmentShrinks ==
  ASSUME TypeOK, Environment
  PROVE  Shrinks /\ port' \in {port, NoProc}
<1>a. UNCHANGED records => Shrinks
  BY DEF Shrinks, Recorded
<1>1. Shutdown \/ Crash => Shrinks /\ port' \in {port, NoProc}
  BY DEF Shutdown, Crash, Outside, Forget, Shrinks, Recorded
<1>2. Restart \/ Tick => Shrinks /\ port' \in {port, NoProc}
  BY <1>a DEF Restart, Tick, memory, locals
<1>3. ASSUME NEW p \in Path, NEW d \in Device, Unplug(p) \/ Plug(p, d)
      PROVE  Shrinks /\ port' \in {port, NoProc}
  BY <1>3, <1>a DEF Unplug, Plug, memory, locals
<1>4. ASSUME NEW p \in Path, Unplug(p)
      PROVE  Shrinks /\ port' \in {port, NoProc}
  BY <1>4, <1>a DEF Unplug, memory, locals
<1>5. ASSUME NEW p \in Path, Stabilise(p)
      PROVE  Shrinks /\ port' \in {port, NoProc}
  <2>1. records[p] \in Record
    BY <1>5 DEF Stabilise, Recorded, TypeOK
  <2>2. QED
    BY <1>5, <2>1 DEF Stabilise, Shrinks, Recorded, TypeOK, Record, locals
<1>6. ASSUME NEW q \in Port, BackendLosesDevice(q) \/ BackendFails(q)
      PROVE  Shrinks /\ port' \in {port, NoProc}
  <2>1. \A p \in Recorded : records[p] \in Record
    BY DEF Recorded, TypeOK
  <2>2. QED
    BY <1>6, <2>1 DEF BackendLosesDevice, BackendFails, BackendExits, Shrinks,
                      Recorded, TypeOK, Record
<1>7. ASSUME NEW s \in Serial, DriverGivesUp(s) \/ DriverFails(s)
      PROVE  Shrinks /\ port' \in {port, NoProc}
  <2>1. \A p \in Recorded : records[p] \in Record
    BY DEF Recorded, TypeOK
  <2>2. QED
    BY <1>7, <2>1 DEF DriverGivesUp, DriverFails, DriverExits, Shrinks,
                      Recorded, TypeOK, Record, locals
<1>8. QED
  BY <1>1, <1>2, <1>3, <1>4, <1>5, <1>6, <1>7 DEF Environment

LEMMA ShrinkingKeepsUnique ==
  ASSUME TypeOK, TypeOK', Unique, Shrinks, port' \in {port, NoProc}
  PROVE  Unique'
<1>1. UniqueSerial' /\ \A p, r \in Recorded' : records'[p].port = records'[r].port => p = r
  BY DEF Unique, UniqueSerial, UniquePort, Shrinks
<1>2. NoProc \notin UsedPorts'
  BY ConstantsAssumption DEF UsedPorts, Recorded, TypeOK, Record
<1>3. UsedPorts' \subseteq UsedPorts
  BY DEF UsedPorts, Shrinks
<1>4. QED
  BY <1>1, <1>2, <1>3 DEF Unique, UniquePort

LEMMA StartKeepsUnique ==
  ASSUME TypeOK, TypeOK', Unique, StartDevice
  PROVE  Unique'
<1>1. UNCHANGED records /\ UNCHANGED Recorded /\ UNCHANGED UsedPorts
  BY DEF StartDevice, memory, Recorded, UsedPorts
<1>2. port' \notin UsedPorts
  BY FreePortIsFree DEF StartDevice
<1>3. QED
  BY <1>1, <1>2 DEF Unique, UniqueSerial, UniquePort

(* What ProbeSucceeds does to the records and to the owners of the names.  *)
Adds(s) ==
  /\ s \in Serial /\ Accepted(s)
  /\ Starting \in Path /\ Starting \in todo /\ port \in Port
  /\ Recorded' = Recorded \cup {Starting}
  /\ \A p \in Recorded \ {Starting} : records'[p] = records[p]
  /\ records'[Starting].serial = s
  /\ records'[Starting].port = port
  /\ records'[Starting].backend = own
  /\ records'[Starting].driver = (owner[s] = NoProc)
  /\ owner' = [owner EXCEPT ![s] = IF @ = NoProc THEN port ELSE @]

LEMMA ProbeAdds ==
  ASSUME TypeOK, ProbeSucceeds
  PROVE  \E s \in Serial : Adds(s)
<1>1. PICK s \in Serial :
        /\ Accepted(s)
        /\ records' = [records EXCEPT ![Starting] =
                         [serial |-> s, port |-> port, backend |-> own,
                          driver |-> owner[s] = NoProc, stable |-> FALSE]]
        /\ owner' = [owner EXCEPT ![s] = IF @ = NoProc THEN port ELSE @]
  BY DEF ProbeSucceeds
<1>2. port \in Port /\ own \in BOOLEAN /\ Starting \in Path /\ Starting \in todo
  BY StartingIsPath DEF ProbeSucceeds, TypeOK
<1>3. [serial |-> s, port |-> port, backend |-> own,
       driver |-> owner[s] = NoProc, stable |-> FALSE] \in Record
  BY <1>2 DEF Record
<1>4. Recorded' = Recorded \cup {Starting}
  <2>1. records'[Starting] # NoRecord
    BY <1>1, <1>2, <1>3, ConstantsAssumption DEF TypeOK
  <2>2. \A p \in Path \ {Starting} : records'[p] = records[p]
    BY <1>1 DEF TypeOK
  <2>3. QED
    BY <1>2, <2>1, <2>2 DEF Recorded
<1>5. \A p \in Recorded \ {Starting} : records'[p] = records[p]
  BY <1>1 DEF Recorded, TypeOK
<1>6. /\ records'[Starting].serial = s
      /\ records'[Starting].port = port
      /\ records'[Starting].backend = own
      /\ records'[Starting].driver = (owner[s] = NoProc)
  BY <1>1, <1>2 DEF TypeOK
<1>7. QED
  BY <1>1, <1>2, <1>4, <1>5, <1>6 DEF Adds

LEMMA ProbeKeepsUnique ==
  ASSUME TypeOK, TypeOK', Unique, ProbeSucceeds
  PROVE  Unique'
<1>1. PICK s \in Serial : Adds(s)
  BY ProbeAdds
<1>2. s \notin ActiveSerials /\ port \notin UsedPorts
  BY <1>1 DEF Adds, Accepted, Unique, UniquePort
<1>3. \A p \in Recorded : records[p].serial # s /\ records[p].port # port
  BY <1>2 DEF ActiveSerials, UsedPorts
<1>4. ASSUME NEW p \in Recorded', NEW r \in Recorded',
             \/ records'[p].serial = records'[r].serial
             \/ records'[p].port = records'[r].port
      PROVE  p = r
  BY <1>1, <1>3, <1>4 DEF Adds, Unique, UniqueSerial, UniquePort
<1>5. port' \notin UsedPorts'
  BY ConstantsAssumption DEF ProbeSucceeds, Return, UsedPorts, Recorded, TypeOK, Record
<1>6. QED
  BY <1>4, <1>5 DEF Unique, UniqueSerial, UniquePort

LEMMA UniqueStep ==
  ASSUME TypeOK, TypeOK', Unique, [Next]_vars
  PROVE  Unique'
<1>1. CASE UNCHANGED vars
  BY <1>1 DEF vars, locals, memory, Unique, UniqueSerial, UniquePort, UsedPorts, Recorded
<1>2. CASE Next
  BY <1>2, ScanShrinks, EnvironmentShrinks, ShrinkingKeepsUnique, StartKeepsUnique,
     ProbeKeepsUnique DEF Next
<1>3. QED
  BY <1>1, <1>2

(* No two records ever share a serial or a port, and the port of a device  *)
(* being started belongs to none: for any devices, paths, ports and        *)
(* failures, crashes included.                                             *)
THEOREM RecordsAreUnique == Spec => []Unique
<1>1. Init => Unique
  BY ConstantsAssumption DEF Init, Unique, UniqueSerial, UniquePort, UsedPorts, Recorded
<1>2. TypeOK /\ TypeOK' /\ Unique /\ [Next]_vars => Unique'
  BY UniqueStep
<1>3. QED
  BY <1>1, <1>2, TypeCorrect, PTL DEF Spec

------------------------------------------------------------------------------
(* Identity.  While SIGKILL works, devices.json can be written and the     *)
(* manager ends by its shutdown(), every process belongs to a record, and  *)
(* what answers at the port of a record is the device with its serial.     *)
(* The port search must succeed, or an exception in the first scan would   *)
(* leave processes behind: MAX_DEVICES * 2 ports for as many paths.        *)

Reliable ==
  /\ ~StuckProcs /\ ~DiskErrors /\ ~Crashes
  /\ IsFiniteSet(Path) /\ IsFiniteSet(Port)
  /\ Cardinality(Path) <= Cardinality(Port)

Pending == pc \in {"starting", "probing"} => todo \cap Recorded = {}

Truthful ==
  \A p \in Recorded :
    listener[records[p].port] \in Device =>
      SerialOf[listener[records[p].port]] = records[p].serial

Identity == Pending /\ NoOrphans /\ Truthful

(* Each recorded path uses one port, and the path being started none.      *)
LEMMA SomePortIsFree ==
  ASSUME Reliable, TypeOK, Pending, pc = "starting", todo # {}
  PROVE  FreePorts # {}
<1> DEFINE PortOf == [p \in Recorded |-> records[p].port]
<1>1. Starting \in Path \ Recorded
  BY StartingIsPath DEF Pending
<1>2. Recorded \subseteq Path \ {Starting}
  BY <1>1 DEF Recorded
<1>3. /\ IsFiniteSet(Path \ {Starting})
      /\ Cardinality(Path \ {Starting}) = Cardinality(Path) - 1
      /\ Cardinality(Path) \in Nat /\ Cardinality(Port) \in Nat
  BY <1>1, FS_RemoveElement, FS_CardinalityType DEF Reliable
<1>4. /\ IsFiniteSet(Recorded)
      /\ Cardinality(Recorded) \in Nat
      /\ Cardinality(Recorded) <= Cardinality(Path) - 1
  BY <1>2, <1>3, FS_Subset, FS_CardinalityType
<1>5. UsedPorts \subseteq Port
  BY DEF UsedPorts, Recorded, TypeOK, Record
<1>6. PortOf \in Surjection(Recorded, UsedPorts)
  BY DEF Surjection, UsedPorts
<1>7. Cardinality(UsedPorts) \in Nat /\ Cardinality(UsedPorts) <= Cardinality(Recorded)
  BY <1>4, <1>6, FS_Surjection, FS_CardinalityType
<1>8. UsedPorts # Port
  BY <1>3, <1>4, <1>7 DEF Reliable
<1>9. QED
  BY <1>5, <1>8 DEF FreePorts

LEMMA NoRaise ==
  ASSUME Reliable, TypeOK, Pending
  PROVE  /\ ~NoFreePort /\ ~SaveFails /\ ~StartRaises /\ ~FinishRaises /\ ~Crash
         /\ \A p \in Path : ~SweepRaises(p)
  BY SomePortIsFree DEF Reliable, NoFreePort, SaveFails, StartRaises, FinishRaises,
     Crash, SweepRaises

LEMMA QuietKeepsIdentity ==
  ASSUME TypeOK, Identity, UNCHANGED <<records, listener, owner, port, own>>, Pending'
  PROVE  Identity'
  BY DEF Identity, NoOrphans, Truthful, Recorded

LEMMA SweepKeepsIdentity ==
  ASSUME TypeOK, Unique, Identity, NEW p \in Path, SweepRemoved(p) \/ SweepExited(p)
  PROVE  Identity'
<1>1. /\ p \in Path /\ Terminate(p) /\ records' = Pop(p)
      /\ ~own /\ UNCHANGED <<own, port, pc>> /\ pc = "sweep"
  BY DEF SweepRemoved, SweepExited, TypeOK
<1>2. \A r \in Recorded' : r \in Recorded /\ r # p /\ records'[r] = records[r]
  BY <1>1 DEF Pop, Recorded, TypeOK
<1>3. \A r \in Recorded \ {p} : r \in Recorded' /\ records'[r] = records[r]
  BY <1>1 DEF Pop, Recorded, TypeOK
<1>4. Pending'
  BY <1>1 DEF Pending
<1>5. Truthful'
  <2>1. \A q \in Port : listener'[q] \in {listener[q], NoProc}
    BY <1>1 DEF Terminate
  <2>2. \A r \in Recorded' : records[r].port \in Port
    BY <1>2 DEF Recorded, TypeOK, Record
  <2>3. QED
    BY <1>2, <2>1, <2>2, ConstantsAssumption DEF Identity, Truthful
<1>6. NoOrphans'
  <2>1. ASSUME NEW q \in Port, listener'[q] # NoProc
        PROVE  \E r \in Recorded' : records'[r].backend /\ records'[r].port = q
    <3>1. listener[q] # NoProc /\ ~(q = records[p].port /\ records[p].backend)
      BY <1>1, <2>1 DEF Terminate
    <3>2. PICK r \in Recorded : records[r].backend /\ records[r].port = q
      BY <1>1, <3>1 DEF Identity, NoOrphans
    <3>3. QED
      BY <1>3, <3>1, <3>2
  <2>2. ASSUME NEW s \in Serial, owner'[s] # NoProc
        PROVE  \E r \in Recorded' : /\ records'[r].driver
                                    /\ records'[r].serial = s
                                    /\ records'[r].port = owner'[s]
    <3>1. /\ owner'[s] = owner[s] /\ owner[s] # NoProc
          /\ ~(s = records[p].serial /\ records[p].driver)
      BY <1>1, <2>2 DEF Terminate
    <3>2. PICK r \in Recorded : /\ records[r].driver
                                /\ records[r].serial = s
                                /\ records[r].port = owner[s]
      BY <3>1 DEF Identity, NoOrphans
    <3>3. QED
      BY <1>3, <3>1, <3>2
  <2>3. QED
    BY <2>1, <2>2 DEF NoOrphans
<1>7. QED
  BY <1>4, <1>5, <1>6 DEF Identity

LEMMA StartKeepsIdentity ==
  ASSUME TypeOK, Unique, Identity, StartDevice
  PROVE  Identity'
<1>1. /\ port' \in Port /\ port' \notin UsedPorts
      /\ ~own /\ UNCHANGED <<records, owner, todo>> /\ UNCHANGED Recorded
      /\ own' = (listener[port'] = NoProc)
      /\ \A q \in Port \ {port'} : listener'[q] = listener[q]
      /\ ~own' => listener' = listener
  BY FreePortIsFree DEF StartDevice, StartBackend, Recorded, memory, TypeOK
<1>2. Pending'
  BY <1>1 DEF StartDevice, Identity, Pending
<1>3. Truthful'
  <2>1. \A p \in Recorded : records[p].port \in Port \ {port'}
    BY <1>1 DEF Recorded, UsedPorts, TypeOK, Record
  <2>2. QED
    BY <1>1, <2>1 DEF Identity, Truthful
<1>4. NoOrphans'
  BY <1>1 DEF Identity, NoOrphans
<1>5. QED
  BY <1>2, <1>3, <1>4 DEF Identity

LEMMA ProbeKeepsIdentity ==
  ASSUME TypeOK, Unique, Identity, ProbeSucceeds
  PROVE  Identity'
<1>1. PICK s \in Serial : Adds(s)
  BY ProbeAdds
<1>2. Starting \notin Recorded /\ todo' = todo \ {Starting} /\ ~own' /\ UNCHANGED listener
  BY <1>1 DEF Adds, Identity, Pending, ProbeSucceeds, Return
<1>3. Pending'
  BY <1>1, <1>2 DEF Adds, Pending, Identity, ProbeSucceeds, Return
<1>4. Truthful'
  <2>1. listener[port] \in Device => SerialOf[listener[port]] = s
    BY <1>1 DEF Adds, Accepted, Answer
  <2>2. QED
    BY <1>1, <1>2, <2>1 DEF Adds, Identity, Truthful
<1>5. ASSUME NEW q \in Port, listener'[q] # NoProc
      PROVE  \E r \in Recorded' : records'[r].backend /\ records'[r].port = q
  BY <1>1, <1>2, <1>5 DEF Adds, Identity, NoOrphans
<1>6. ASSUME NEW t \in Serial, owner'[t] # NoProc
      PROVE  \E r \in Recorded' : /\ records'[r].driver
                                  /\ records'[r].serial = t
                                  /\ records'[r].port = owner'[t]
  <2>1. CASE owner[t] # NoProc
    <3>1. owner'[t] = owner[t]
      BY <1>1, <2>1 DEF Adds, TypeOK
    <3>2. QED
      BY <1>1, <1>2, <2>1, <3>1 DEF Adds, Identity, NoOrphans
  <2>2. CASE owner[t] = NoProc
    <3>1. t = s /\ owner'[t] = port
      BY <1>1, <1>6, <2>2 DEF Adds, TypeOK
    <3>2. QED
      BY <1>1, <2>2, <3>1 DEF Adds
  <2>3. QED
    BY <2>1, <2>2
<1>7. QED
  BY <1>3, <1>4, <1>5, <1>6 DEF Identity, NoOrphans

LEMMA FailureKeepsIdentity ==
  ASSUME TypeOK, Unique, Identity, StartFails
  PROVE  Identity'
<1>1. /\ UNCHANGED <<records, owner>> /\ UNCHANGED Recorded /\ ~own'
      /\ todo' \subseteq todo /\ pc = "probing"
      /\ listener' = [q \in Port |-> IF q = port /\ own THEN NoProc ELSE listener[q]]
  BY DEF StartFails, StartFailed, Return, CloseBackend, Recorded
<1>2. Pending'
  BY <1>1 DEF Identity, Pending
<1>3. \A p \in Recorded : records[p].port \in Port
  BY DEF Recorded, TypeOK, Record
<1>4. Truthful'
  BY <1>1, <1>3, ConstantsAssumption DEF Identity, Truthful
<1>5. NoOrphans'
  BY <1>1 DEF Identity, NoOrphans
<1>6. QED
  BY <1>2, <1>4, <1>5 DEF Identity

LEMMA ShutdownKeepsIdentity ==
  ASSUME TypeOK, Identity, Shutdown
  PROVE  Identity'
<1>1. Recorded' = {} /\ ~own /\ pc' = "down"
  BY DEF Shutdown, Forget, Recorded, TypeOK
<1>2. \A q \in Port : listener'[q] = NoProc
  BY <1>1 DEF Shutdown, Identity, NoOrphans
<1>3. \A s \in Serial : owner'[s] = NoProc
  BY DEF Shutdown, Identity, NoOrphans
<1>4. QED
  BY <1>1, <1>2, <1>3 DEF Identity, Pending, NoOrphans, Truthful

LEMMA UnplugKeepsIdentity ==
  ASSUME TypeOK, Identity, NEW p \in Path, Unplug(p)
  PROVE  Identity'
<1>1. UNCHANGED <<records, owner, own, port, pc, todo>> /\ UNCHANGED Recorded
  BY DEF Unplug, Recorded, memory, locals
<1>2. \A q \in Port : listener'[q] \in {listener[q], Gone} /\
                       (listener'[q] # NoProc => listener[q] # NoProc)
  BY ConstantsAssumption DEF Unplug, TypeOK
<1>3. \A r \in Recorded : records[r].port \in Port
  BY DEF Recorded, TypeOK, Record
<1>4. Pending'
  BY <1>1 DEF Identity, Pending
<1>5. Truthful'
  BY <1>1, <1>2, <1>3, ConstantsAssumption DEF Identity, Truthful
<1>6. NoOrphans'
  <2>1. ASSUME NEW q \in Port, listener'[q] # NoProc
        PROVE  (own /\ port = q) \/ \E r \in Recorded : records[r].backend /\ records[r].port = q
    BY <1>2, <2>1 DEF Identity, NoOrphans
  <2>2. QED
    BY <1>1, <2>1 DEF Identity, NoOrphans
<1>7. QED
  BY <1>4, <1>5, <1>6 DEF Identity

(* A step that changes only the flags of records *)
Flags ==
  /\ Recorded' = Recorded /\ UNCHANGED <<pc, todo, port>>
  /\ \A r \in Recorded : /\ records'[r].serial = records[r].serial
                          /\ records'[r].port = records[r].port
                          /\ records[r].port \in Port

LEMMA FlagsPreserve ==
  ASSUME TypeOK, Identity, Flags,
         \A q \in Port : listener'[q] \in {listener[q], NoProc}
  PROVE  Pending' /\ Truthful'
<1>1. Pending'
  BY DEF Flags, Identity, Pending
<1>2. ASSUME NEW r \in Recorded', listener'[records'[r].port] \in Device
      PROVE  SerialOf[listener'[records'[r].port]] = records'[r].serial
  <2>1. r \in Recorded /\ records'[r].port = records[r].port /\ records[r].port \in Port
        /\ records'[r].serial = records[r].serial
    BY DEF Flags
  <2>2. listener'[records[r].port] = listener[records[r].port]
    BY <1>2, <2>1, ConstantsAssumption
  <2>3. QED
    BY <1>2, <2>1, <2>2 DEF Identity, Truthful
<1>3. QED
  BY <1>1, <1>2 DEF Truthful

LEMMA StabiliseKeepsIdentity ==
  ASSUME TypeOK, Identity, NEW p \in Path, Stabilise(p)
  PROVE  Identity'
<1>1. \A r \in Recorded : records[r] \in Record
  BY DEF Recorded, TypeOK
<1>2. ASSUME NEW r \in Recorded
      PROVE  /\ records'[r] \in Record /\ records[r].port \in Port
             /\ records'[r].serial = records[r].serial
             /\ records'[r].port = records[r].port
             /\ records'[r].backend = records[r].backend
             /\ records'[r].driver = records[r].driver
  <2>1. records'[r] = IF r = p THEN [records[r] EXCEPT !.stable = TRUE] ELSE records[r]
    BY DEF Stabilise, Recorded, TypeOK
  <2>2. QED
    BY <1>1, <2>1 DEF Record
<1>3. Recorded' = Recorded
  BY <1>2, ConstantsAssumption DEF Stabilise, Recorded, TypeOK
<1>4. Flags /\ UNCHANGED <<listener, owner, own>>
  BY <1>2, <1>3 DEF Flags, Stabilise, locals, procs
<1>5. Pending' /\ Truthful'
  BY <1>4, FlagsPreserve
<1>6. NoOrphans'
  BY <1>2, <1>3, <1>4 DEF Flags, Identity, NoOrphans
<1>7. QED
  BY <1>5, <1>6 DEF Identity

LEMMA BackendExitKeepsIdentity ==
  ASSUME TypeOK, Identity, NEW q \in Port, BackendExits(q)
  PROVE  Identity'
<1>1. \A r \in Recorded : records[r] \in Record
  BY DEF Recorded, TypeOK
<1>2. ASSUME NEW r \in Recorded
      PROVE  /\ records'[r] \in Record /\ records[r].port \in Port
             /\ records'[r].serial = records[r].serial
             /\ records'[r].port = records[r].port
             /\ records'[r].driver = records[r].driver
             /\ records[r].port # q => records'[r].backend = records[r].backend
  <2>1. records'[r] = IF records[r].port = q THEN [records[r] EXCEPT !.backend = FALSE]
                      ELSE records[r]
    BY DEF BackendExits, Recorded
  <2>2. QED
    BY <1>1, <2>1 DEF Record
<1>3. \A r \in Path \ Recorded : records'[r] = NoRecord
  BY DEF BackendExits, Recorded
<1>4. Recorded' = Recorded
  BY <1>2, <1>3, ConstantsAssumption DEF Recorded
<1>5. Flags /\ UNCHANGED owner
  BY <1>2, <1>4 DEF Flags, BackendExits
<1>6. /\ listener'[q] = NoProc
      /\ \A r \in Port \ {q} : listener'[r] = listener[r]
  BY DEF BackendExits, TypeOK
<1>7. Pending' /\ Truthful'
  BY <1>5, <1>6, FlagsPreserve
<1>8. ASSUME NEW r \in Port, listener'[r] # NoProc
      PROVE  (own' /\ port' = r) \/ \E p \in Recorded' : records'[p].backend /\ records'[p].port = r
  <2>1. r # q /\ listener[r] # NoProc
    BY <1>6, <1>8
  <2>2. CASE own /\ port = r
    BY <2>1, <2>2 DEF BackendExits
  <2>3. ASSUME NEW p \in Recorded, records[p].backend, records[p].port = r
        PROVE  records'[p].backend /\ records'[p].port = r
    BY <1>2, <2>1, <2>3
  <2>4. QED
    BY <1>4, <2>1, <2>2, <2>3 DEF Identity, NoOrphans
<1>9. NoOrphans'
  BY <1>2, <1>4, <1>5, <1>8 DEF Identity, NoOrphans
<1>10. QED
  BY <1>7, <1>9 DEF Identity

LEMMA DriverExitKeepsIdentity ==
  ASSUME TypeOK, Identity, NEW s \in Serial, DriverExits(s)
  PROVE  Identity'
<1>1. \A r \in Recorded : records[r] \in Record
  BY DEF Recorded, TypeOK
<1>2. ASSUME NEW r \in Recorded
      PROVE  /\ records'[r] \in Record /\ records[r].port \in Port
             /\ records'[r].serial = records[r].serial
             /\ records'[r].port = records[r].port
             /\ records'[r].backend = records[r].backend
             /\ records[r].serial # s => records'[r].driver = records[r].driver
  <2>1. records'[r] = IF records[r].serial = s THEN [records[r] EXCEPT !.driver = FALSE]
                      ELSE records[r]
    BY DEF DriverExits, Recorded
  <2>2. QED
    BY <1>1, <2>1 DEF Record
<1>3. \A r \in Path \ Recorded : records'[r] = NoRecord
  BY DEF DriverExits, Recorded
<1>4. Recorded' = Recorded
  BY <1>2, <1>3, ConstantsAssumption DEF Recorded
<1>5. Flags /\ UNCHANGED <<listener, own>>
  BY <1>2, <1>4 DEF Flags, DriverExits, locals
<1>6. owner'[s] = NoProc /\ \A t \in Serial \ {s} : owner'[t] = owner[t]
  BY DEF DriverExits, TypeOK
<1>7. Pending' /\ Truthful'
  BY <1>5, FlagsPreserve
<1>8. ASSUME NEW t \in Serial, owner'[t] # NoProc
      PROVE  \E r \in Recorded' : /\ records'[r].driver
                                  /\ records'[r].serial = t
                                  /\ records'[r].port = owner'[t]
  <2>1. t # s /\ owner'[t] = owner[t] /\ owner[t] # NoProc
    BY <1>6, <1>8
  <2>2. PICK r \in Recorded : /\ records[r].driver
                              /\ records[r].serial = t
                              /\ records[r].port = owner[t]
    BY <2>1 DEF Identity, NoOrphans
  <2>3. QED
    BY <1>2, <1>4, <2>1, <2>2
<1>9. NoOrphans'
  BY <1>2, <1>4, <1>5, <1>8 DEF Flags, Identity, NoOrphans
<1>10. QED
  BY <1>7, <1>9 DEF Identity

LEMMA IdentityStep ==
  ASSUME Reliable, TypeOK, Unique, Identity, [Next]_vars
  PROVE  Identity'
<1>q. ASSUME UNCHANGED <<records, listener, owner, port, own>>, Pending'
      PROVE  Identity'
  BY <1>q, QuietKeepsIdentity
<1>1. CASE ScanBegin
  BY <1>1, <1>q DEF ScanBegin, Pending, memory, procs
<1>2. ASSUME NEW p \in Path, SweepHealthy(p) PROVE Identity'
  BY <1>2, <1>q DEF SweepHealthy, Pending, memory, procs
<1>3. CASE BeginStarts
  BY <1>3, <1>q DEF BeginStarts, Due, Pending, Recorded, memory, procs
<1>4. CASE FinishScan
  <2>1. ~own /\ port = NoProc
    BY <1>4 DEF FinishScan, TypeOK
  <2>2. QED
    BY <1>4, <1>q, <2>1 DEF FinishScan, Outside, Pending, procs, TypeOK
<1>5. CASE Restart
  BY <1>5, <1>q DEF Restart, Pending, memory, procs
<1>6. CASE Tick
  BY <1>6, <1>q DEF Tick, Identity, Pending, Recorded, locals, procs
<1>7. ASSUME NEW p \in Path, NEW d \in Device, Plug(p, d) PROVE Identity'
  BY <1>7, <1>q DEF Plug, Identity, Pending, Recorded, locals, memory, procs
<1>8. CASE UNCHANGED vars
  BY <1>8, <1>q DEF vars, Identity, Pending, Recorded, locals, memory, procs
<1>9. CASE Scan
  BY <1>9, <1>1, <1>2, <1>3, <1>4, NoRaise, SweepKeepsIdentity, StartKeepsIdentity,
     ProbeKeepsIdentity, FailureKeepsIdentity DEF Scan, Identity
<1>10. CASE Environment
  <2>1. ASSUME NEW q \in Port, BackendLosesDevice(q) \/ BackendFails(q) PROVE Identity'
    BY <2>1, BackendExitKeepsIdentity DEF BackendLosesDevice, BackendFails
  <2>2. ASSUME NEW s \in Serial, DriverGivesUp(s) \/ DriverFails(s) PROVE Identity'
    BY <2>2, DriverExitKeepsIdentity DEF DriverGivesUp, DriverFails
  <2>3. QED
    BY <1>10, <1>5, <1>6, <1>7, <2>1, <2>2, NoRaise, ShutdownKeepsIdentity,
       UnplugKeepsIdentity, StabiliseKeepsIdentity DEF Environment, Identity
<1>11. QED
  BY <1>8, <1>9, <1>10 DEF Next

LEMMA IdentityImplies ==
  ASSUME TypeOK, Unique, Identity
  PROVE  NoOrphans /\ DriverTalksToItsDevice
<1>1. ASSUME NEW s \in Serial, owner[s] # NoProc, listener[owner[s]] \in Device
      PROVE  SerialOf[listener[owner[s]]] = s
  <2>1. PICK p \in Recorded : records[p].serial = s /\ records[p].port = owner[s]
    BY <1>1 DEF Identity, NoOrphans
  <2>2. QED
    BY <1>1, <2>1 DEF Identity, Truthful
<1>2. QED
  BY <1>1 DEF Identity, DriverTalksToItsDevice

(* For any devices, serials and paths, and at least as many ports as       *)
(* paths: without crashes, stuck processes and disk errors nothing runs    *)
(* that no record knows, and a driver reads the device with its serial.    *)
THEOREM DriversKeepTheirDevice ==
  ASSUME Reliable
  PROVE  Spec => [](NoOrphans /\ DriverTalksToItsDevice)
<1>1. Init => Identity
  BY ConstantsAssumption DEF Init, Identity, Pending, NoOrphans, Truthful, Recorded
<1>2. TypeOK /\ Unique /\ Identity /\ [Next]_vars => Identity'
  BY IdentityStep
<1>3. TypeOK /\ Unique /\ Identity => NoOrphans /\ DriverTalksToItsDevice
  BY IdentityImplies
<1>4. QED
  BY <1>1, <1>2, <1>3, TypeCorrect, RecordsAreUnique, PTL DEF Spec

(* The half of it about processes: the sweep and the failed starts stop    *)
(* whatever they drop the record of.                                       *)
COROLLARY NothingIsOrphaned ==
  ASSUME Reliable
  PROVE  Spec => []NoOrphans
BY DriversKeepTheirDevice, PTL

------------------------------------------------------------------------------
(* The backoff.  The sweep visits paths that had a record when it began,   *)
(* and a record that waits for its visit is not dropped by anything else:  *)
(* so the record whose age resets the attempts is there.                   *)

Swept == pc = "sweep" => todo \subseteq Recorded

LEMMA ProcessesKeepRecorded ==
  ASSUME TypeOK,
         \/ \E p \in Path : Stabilise(p)
         \/ \E q \in Port : BackendExits(q)
         \/ \E s \in Serial : DriverExits(s)
  PROVE  Recorded \subseteq Recorded'
<1>1. ASSUME NEW r \in Recorded PROVE records'[r] # NoRecord
  <2>1. records[r] \in Record
    BY DEF Recorded, TypeOK
  <2>2. /\ [records[r] EXCEPT !.stable = TRUE] \in Record
        /\ [records[r] EXCEPT !.backend = FALSE] \in Record
        /\ [records[r] EXCEPT !.driver = FALSE] \in Record
    BY <2>1 DEF Record
  <2>3. \/ records'[r] = records[r]
        \/ records'[r] = [records[r] EXCEPT !.stable = TRUE]
        \/ records'[r] = [records[r] EXCEPT !.backend = FALSE]
        \/ records'[r] = [records[r] EXCEPT !.driver = FALSE]
    BY DEF Stabilise, BackendExits, DriverExits, Recorded, TypeOK
  <2>4. QED
    BY <2>1, <2>2, <2>3, ConstantsAssumption
<1>2. QED
  BY <1>1 DEF Recorded

LEMMA SweptStep ==
  ASSUME TypeOK, Swept, [Next]_vars
  PROVE  Swept'
<1>a. UNCHANGED <<pc, todo, records>> => Swept'
  BY DEF Swept, Recorded
<1>b. pc' # "sweep" => Swept'
  BY DEF Swept
<1>1. CASE UNCHANGED vars
  BY <1>1, <1>a DEF vars, locals, memory
<1>2. CASE ScanBegin
  BY <1>2 DEF ScanBegin, Swept, Recorded, memory
<1>3. ASSUME NEW p \in Path, SweepRemoved(p) \/ SweepExited(p) \/ SweepHealthy(p)
      PROVE  Swept'
  BY <1>3 DEF SweepRemoved, SweepExited, SweepHealthy, Pop, Swept, Recorded, TypeOK, memory
<1>4. ASSUME NEW p \in Path, SweepRaises(p) PROVE Swept'
  BY <1>4, <1>b DEF SweepRaises, Raise
<1>5. CASE NoFreePort \/ StartRaises \/ FinishRaises
  BY <1>5, <1>b DEF NoFreePort, StartRaises, FinishRaises, Raise
<1>6. CASE BeginStarts \/ StartDevice \/ FinishScan
  BY <1>6, <1>b DEF BeginStarts, StartDevice, FinishScan
<1>7. CASE ProbeSucceeds \/ StartFails \/ SaveFails
  BY <1>7, <1>b DEF ProbeSucceeds, StartFails, SaveFails, StartFailed, Return
<1>8. CASE Shutdown \/ Crash \/ Restart
  BY <1>8, <1>b DEF Shutdown, Crash, Restart
<1>9. CASE Tick
  BY <1>9, <1>a DEF Tick, locals
<1>10. ASSUME NEW p \in Path, NEW d \in Device, Plug(p, d) PROVE Swept'
  BY <1>10, <1>a DEF Plug, locals, memory
<1>11. ASSUME NEW p \in Path, Unplug(p) PROVE Swept'
  BY <1>11, <1>a DEF Unplug, locals, memory
<1>12. ASSUME NEW p \in Path, Stabilise(p) PROVE Swept'
  BY <1>12, ProcessesKeepRecorded DEF Stabilise, Swept, locals
<1>13. ASSUME NEW q \in Port, BackendLosesDevice(q) \/ BackendFails(q) PROVE Swept'
  <2>1. BackendExits(q)
    BY <1>13 DEF BackendLosesDevice, BackendFails
  <2>2. QED
    BY <2>1, ProcessesKeepRecorded DEF BackendExits, Swept
<1>14. ASSUME NEW s \in Serial, DriverGivesUp(s) \/ DriverFails(s) PROVE Swept'
  <2>1. DriverExits(s)
    BY <1>14 DEF DriverGivesUp, DriverFails
  <2>2. QED
    BY <2>1, ProcessesKeepRecorded DEF DriverExits, Swept, locals
<1>15. QED
  BY <1>1, <1>2, <1>3, <1>4, <1>5, <1>6, <1>7, <1>8, <1>9, <1>10, <1>11, <1>12,
     <1>13, <1>14 DEF Next, Scan, Environment

(* What a step may do to the attempts of one path                          *)
MayForget(p) ==
  \/ records[p] # NoRecord /\ records[p].stable
  \/ p \notin seen
  \/ pc' = "down"

Keeps(p) == ~(failed'[p].attempts < failed[p].attempts)

LEMMA BackoffStep ==
  ASSUME TypeOK, Swept, [Next]_vars, NEW p \in Path
  PROVE  Keeps(p) \/ MayForget(p)
<1>t. failed \in [Path -> Failure] /\ failed[p].attempts \in 0..MaxExponent
      /\ 0..MaxExponent \subseteq Nat
  BY ConstantsAssumption DEF TypeOK, Failure
<1>a. UNCHANGED failed => Keeps(p)
  BY <1>t DEF Keeps
<1>b. ASSUME NEW rs, NEW fs, Raise(rs, fs)
      PROVE  pc' = "down" \/ failed' = fs
  BY <1>b DEF Raise
<1>c. Pruned[p] = failed[p] \/ p \notin seen
  BY DEF Pruned
<1>1. CASE UNCHANGED vars
  BY <1>1, <1>a DEF vars, memory
<1>2. CASE ScanBegin \/ BeginStarts \/ StartDevice \/ ProbeSucceeds
  BY <1>2, <1>a DEF ScanBegin, BeginStarts, StartDevice, ProbeSucceeds, memory
<1>3. ASSUME NEW r \in Path, SweepRemoved(r) PROVE Keeps(p) \/ MayForget(p)
  <2>1. CASE r = p
    BY <1>3, <2>1 DEF SweepRemoved, MayForget
  <2>2. CASE r # p
    BY <1>3, <1>t, <2>2 DEF SweepRemoved, Keeps
  <2>3. QED
    BY <2>1, <2>2
<1>4. ASSUME NEW r \in Path, SweepExited(r) PROVE Keeps(p) \/ MayForget(p)
  <2>1. CASE r # p
    BY <1>4, <1>t, <2>1 DEF SweepExited, Keeps
  <2>2. CASE r = p /\ records[p].stable
    BY <1>4, <2>2 DEF SweepExited, Swept, Recorded, MayForget
  <2>3. CASE r = p /\ ~records[p].stable
    <3>1. Attempts(p) = OneMore(failed[p].attempts)
      BY <2>3 DEF Attempts
    <3>2. failed'[p].attempts = OneMore(failed[p].attempts)
      BY <1>4, <1>t, <2>3, <3>1 DEF SweepExited, Backoff
    <3>3. QED
      BY <1>t, <3>2 DEF OneMore, Keeps
  <2>4. QED
    BY <2>1, <2>2, <2>3
<1>5. ASSUME NEW r \in Path, SweepHealthy(r) PROVE Keeps(p) \/ MayForget(p)
  BY <1>5, <1>a DEF SweepHealthy, memory
<1>6. ASSUME NEW r \in Path, SweepRaises(r) PROVE Keeps(p) \/ MayForget(p)
  BY <1>6, <1>a, <1>b DEF SweepRaises, MayForget
<1>7. CASE NoFreePort \/ StartRaises
  BY <1>7, <1>a, <1>b DEF NoFreePort, StartRaises, MayForget
<1>8. CASE StartFails \/ SaveFails
  <2>1. Starting \in Path
        /\ failed' = [failed EXCEPT ![Starting] = Backoff(OneMore(@.attempts))]
    BY <1>8, StartingIsPath DEF StartFails, SaveFails, StartFailed, TypeOK
  <2>2. failed'[p].attempts \in {failed[p].attempts, OneMore(failed[p].attempts)}
    BY <1>t, <2>1 DEF Backoff
  <2>3. QED
    BY <1>t, <2>2 DEF OneMore, Keeps
<1>9. CASE FinishScan \/ FinishRaises
  <2>1. pc' = "down" \/ failed' = Pruned
    BY <1>9, <1>b DEF FinishScan, FinishRaises
  <2>2. QED
    BY <1>c, <1>t, <2>1 DEF Keeps, MayForget
<1>10. CASE Shutdown \/ Crash
  BY <1>10 DEF Shutdown, Crash, MayForget
<1>11. CASE Restart
  BY <1>11, <1>a DEF Restart, memory
<1>12. CASE Tick
  <2>1. failed[p] \in Failure
    BY <1>t
  <2>2. failed'[p].attempts = failed[p].attempts
    BY <1>12, <2>1 DEF Tick, Failure
  <2>3. QED
    BY <1>t, <2>2 DEF Keeps
<1>13. ASSUME NEW r \in Path, NEW d \in Device, Stabilise(r) \/ Unplug(r) \/ Plug(r, d)
       PROVE  Keeps(p)
  BY <1>13, <1>a DEF Stabilise, Unplug, Plug, memory
<1>14. ASSUME NEW r \in Path, Stabilise(r) \/ Unplug(r)
       PROVE  Keeps(p)
  BY <1>14, <1>a DEF Stabilise, Unplug, memory
<1>15. ASSUME NEW q \in Port, BackendLosesDevice(q) \/ BackendFails(q)
       PROVE  Keeps(p)
  BY <1>15, <1>a DEF BackendLosesDevice, BackendFails, BackendExits
<1>16. ASSUME NEW s \in Serial, DriverGivesUp(s) \/ DriverFails(s)
       PROVE  Keeps(p)
  BY <1>16, <1>a DEF DriverGivesUp, DriverFails, DriverExits
<1>17. QED
  BY <1>1, <1>2, <1>3, <1>4, <1>5, <1>6, <1>7, <1>8, <1>9, <1>10, <1>11, <1>12,
     <1>13, <1>14, <1>15, <1>16 DEF Next, Scan, Environment

(* For any devices and failures: the attempts behind the retry delay of a  *)
(* path go down only when its device lived 300 s, when a scan no longer    *)
(* listed it, or with the manager.                                         *)
THEOREM AttemptsAreKept == Spec => FlappingBacksOff
<1> DEFINE Step == \A p \in Path :
                     failed'[p].attempts < failed[p].attempts =>
                       \/ records[p] # NoRecord /\ records[p].stable
                       \/ p \notin seen
                       \/ pc' = "down"
<1>1. Init => Swept
  BY DEF Init, Swept
<1>2. TypeOK /\ Swept /\ [Next]_vars => Swept'
  BY SweptStep
<1>3. TypeOK /\ Swept /\ [Next]_vars => [Step]_vars
  BY BackoffStep DEF Keeps, MayForget
<1> HIDE DEF Step
<1>4. Spec => [][Step]_vars
  BY <1>1, <1>2, <1>3, TypeCorrect, PTL DEF Spec
<1>5. QED
  BY <1>4 DEF FlappingBacksOff, Step

------------------------------------------------------------------------------
(* What the manager knows.  A flag of a record is cleared by the step that *)
(* ends its process; ports and serials being unique, no step that ends a   *)
(* process or moves a device is about the process of another record.       *)

\* A step that leaves the processes alone, and of the records at most drops
\* some or changes their age
Watches ==
  /\ UNCHANGED <<dev, listener, owner>>
  /\ \A p \in Recorded' : /\ p \in Recorded
                          /\ records'[p].serial = records[p].serial
                          /\ records'[p].port = records[p].port
                          /\ records'[p].backend = records[p].backend
                          /\ records'[p].driver = records[p].driver
  /\ own' => own /\ UNCHANGED <<todo, port>>

LEMMA WatchingKeepsTrue ==
  ASSUME TypeOK, RecordsAreTrue, Watches
  PROVE  RecordsAreTrue'
BY DEF Watches, RecordsAreTrue, Reads, Starting

\* The processes of a record that is dropped end, or some of them.
LEMMA DroppedKeepsTrue ==
  ASSUME TypeOK, Unique, RecordsAreTrue, NEW p \in Recorded,
         Terminate(p) \/ StopDriverOnly(p), ~own', UNCHANGED dev,
         \A r \in Recorded' : r \in Recorded \ {p} /\ records'[r] = records[r]
  PROVE  RecordsAreTrue'
<1>1. ASSUME NEW r \in Recorded'
      PROVE  /\ listener'[records[r].port] = listener[records[r].port]
             /\ owner'[records[r].serial] = owner[records[r].serial]
  <2>1. r \in Recorded /\ records[r].port # records[p].port /\ records[r].serial # records[p].serial
    BY DEF Unique, UniqueSerial, UniquePort
  <2>2. records[r].port \in Port /\ records[r].serial \in Serial
    BY <2>1 DEF Recorded, TypeOK, Record
  <2>3. QED
    BY <2>1, <2>2 DEF Terminate, StopDriverOnly
<1>2. QED
  BY <1>1 DEF RecordsAreTrue, Reads

LEMMA SweepKeepsTrue ==
  ASSUME TypeOK, Unique, Swept, RecordsAreTrue, NEW p \in Path,
         SweepRemoved(p) \/ SweepExited(p) \/ SweepHealthy(p) \/ SweepRaises(p)
  PROVE  RecordsAreTrue'
<1>1. CASE SweepHealthy(p)
  <2>1. ~own
    BY <1>1 DEF SweepHealthy, TypeOK
  <2>2. Watches
    BY <1>1, <2>1 DEF SweepHealthy, Watches, memory, procs, Recorded
  <2>3. QED
    BY <2>2, WatchingKeepsTrue
<1>2. CASE SweepRemoved(p) \/ SweepExited(p)
  <2>1. p \in Recorded /\ ~own' /\ Terminate(p) /\ UNCHANGED dev /\ records' = Pop(p)
    BY <1>2 DEF SweepRemoved, SweepExited, Swept, TypeOK
  <2>2. \A r \in Recorded' : r \in Recorded \ {p} /\ records'[r] = records[r]
    BY <2>1 DEF Pop, Recorded, TypeOK
  <2>3. QED
    BY <2>1, <2>2, DroppedKeepsTrue
<1>3. CASE SweepRaises(p)
  <2>1. /\ p \in Recorded /\ ~own' /\ UNCHANGED dev
        /\ Terminate(p) \/ StopDriverOnly(p)
        /\ records' = Pop(p) \/ records' = [r \in Path |-> NoRecord]
    BY <1>3 DEF SweepRaises, Raise, Outside, Forget, Swept
  <2>2. \A r \in Recorded' : r \in Recorded \ {p} /\ records'[r] = records[r]
    BY <2>1 DEF Pop, Recorded, TypeOK
  <2>3. QED
    BY <2>1, <2>2, DroppedKeepsTrue
<1>4. QED
  BY <1>1, <1>2, <1>3

\* A backend is started at a port of no record, and one that found the port
\* taken is not taken for alive.
LEMMA StartKeepsTrue ==
  ASSUME TypeOK, RecordsAreTrue, StartDevice
  PROVE  RecordsAreTrue'
<1>1. FreePort \in Port /\ FreePort \notin UsedPorts /\ Starting \in Path
  BY FreePortIsFree, StartingIsPath DEF StartDevice
<1>2. /\ UNCHANGED <<dev, todo, records, owner>> /\ port' = FreePort
      /\ StartBackend(Starting, FreePort)
  BY DEF StartDevice, memory
<1>3. ASSUME NEW p \in Recorded
      PROVE  listener'[records[p].port] = listener[records[p].port]
  <2>1. records[p].port # FreePort
    BY <1>1 DEF UsedPorts
  <2>2. QED
    BY <1>2, <2>1 DEF StartBackend, TypeOK
<1>4. ASSUME own' PROVE Reads(Starting, port)'
  <2>1. listener'[FreePort] = IF dev[Starting] = NoDevice THEN Gone ELSE dev[Starting]
    BY <1>1, <1>2, <1>4 DEF StartBackend, TypeOK
  <2>2. dev[Starting] \in Device \cup {NoDevice}
    BY <1>1 DEF TypeOK
  <2>3. QED
    BY <1>2, <2>1, <2>2, ConstantsAssumption DEF Reads, Starting
<1>5. QED
  BY <1>2, <1>3, <1>4 DEF RecordsAreTrue, Reads, Recorded

\* A driver is started when the names of its serial are free, and they are
\* not those of another record.
LEMMA ProbeKeepsTrue ==
  ASSUME TypeOK, RecordsAreTrue, ProbeSucceeds
  PROVE  RecordsAreTrue'
<1>1. PICK s \in Serial : Adds(s)
  BY ProbeAdds
<1>2. UNCHANGED <<dev, listener>> /\ ~own'
  BY DEF ProbeSucceeds, Return
<1>3. ASSUME NEW p \in Recorded \ {Starting}
      PROVE  owner'[records[p].serial] = owner[records[p].serial]
  <2>1. records[p].serial # s
    BY <1>1 DEF Adds, Accepted, ActiveSerials
  <2>2. QED
    BY <1>1, <2>1 DEF Adds, TypeOK
<1>4. owner[s] = NoProc => owner'[s] = port
  BY <1>1 DEF Adds, TypeOK
<1>5. ASSUME NEW p \in Recorded', p # Starting
      PROVE  /\ records'[p].backend => Reads(p, records[p].port)'
             /\ records'[p].driver => owner'[records'[p].serial] = records'[p].port
  <2>1. p \in Recorded /\ records'[p] = records[p]
    BY <1>1, <1>5 DEF Adds
  <2>2. QED
    BY <1>2, <1>3, <1>5, <2>1 DEF RecordsAreTrue, Reads
<1>6. /\ records'[Starting].backend => Reads(Starting, port)
      /\ records'[Starting].driver => owner'[s] = port
  BY <1>1, <1>4 DEF Adds, RecordsAreTrue
<1>7. QED
  BY <1>1, <1>2, <1>5, <1>6 DEF Adds, RecordsAreTrue, Reads

\* A start that fails closes its own backend.
LEMMA FailureKeepsTrue ==
  ASSUME TypeOK, Unique, RecordsAreTrue, CloseBackend, UNCHANGED <<dev, owner>>, ~own',
         records' = records \/ records' = [p \in Path |-> NoRecord]
  PROVE  RecordsAreTrue'
<1>1. ASSUME NEW p \in Recorded
      PROVE  listener'[records[p].port] = listener[records[p].port]
  <2>1. records[p].port # port /\ records[p].port \in Port
    BY DEF Unique, UniquePort, UsedPorts, Recorded, TypeOK, Record
  <2>2. QED
    BY <2>1 DEF CloseBackend
<1>2. \A p \in Recorded' : p \in Recorded /\ records'[p] = records[p]
  BY DEF Recorded
<1>3. QED
  BY <1>1, <1>2 DEF RecordsAreTrue, Reads

LEMMA EnvironmentKeepsTrue ==
  ASSUME TypeOK, RecordsAreTrue, Environment
  PROVE  RecordsAreTrue'
<1>1. CASE Shutdown \/ Crash
  BY <1>1 DEF Shutdown, Crash, Outside, Forget, RecordsAreTrue, Recorded
<1>2. CASE Restart \/ Tick
  <2>1. Watches
    BY <1>2 DEF Restart, Tick, memory, procs, locals, Watches, Recorded
  <2>2. QED
    BY <2>1, WatchingKeepsTrue
<1>3. ASSUME NEW p \in Path, Stabilise(p) PROVE RecordsAreTrue'
  <2>1. /\ records[p] \in Record
        /\ records' = [records EXCEPT ![p].stable = TRUE]
        /\ UNCHANGED <<dev, locals, procs>> /\ p \in Recorded
    BY <1>3 DEF Stabilise, Recorded, TypeOK
  <2>2. Watches
    BY <2>1 DEF Watches, Recorded, TypeOK, Record, locals, procs
  <2>3. QED
    BY <2>2, WatchingKeepsTrue
<1>4. ASSUME NEW p \in Path, Unplug(p) PROVE RecordsAreTrue'
  <2>1. /\ \A r \in Path \ {p} : dev'[r] = dev[r]
        /\ \A q \in Port : listener'[q] = IF listener[q] = dev[p] THEN Gone ELSE listener[q]
        /\ UNCHANGED <<locals, records, owner>>
    BY <1>4 DEF Unplug, memory, TypeOK
  <2>2. ASSUME NEW r \in Path, NEW q \in Port, Reads(r, q) PROVE Reads(r, q)'
    BY <2>1, <2>2, ConstantsAssumption DEF Reads
  <2>3. \A r \in Recorded : r \in Path /\ records[r].port \in Port
    BY DEF Recorded, TypeOK, Record
  <2>4. own => Starting \in Path /\ port \in Port
    BY StartingIsPath DEF TypeOK
  <2>5. QED
    BY <2>1, <2>2, <2>3, <2>4 DEF RecordsAreTrue, Recorded, Starting, locals
<1>5. ASSUME NEW p \in Path, NEW d \in Device, Plug(p, d) PROVE RecordsAreTrue'
  <2>1. /\ \A r \in Path \ {p} : dev'[r] = dev[r]
        /\ dev[p] = NoDevice
        /\ UNCHANGED <<locals, records, listener, owner>>
    BY <1>5 DEF Plug, memory, procs, TypeOK
  <2>2. ASSUME NEW r \in Path, NEW q, Reads(r, q) PROVE Reads(r, q)'
    BY <2>1, <2>2, ConstantsAssumption DEF Reads
  <2>3. own => Starting \in Path
    BY StartingIsPath DEF TypeOK
  <2>4. QED
    BY <2>1, <2>2, <2>3 DEF RecordsAreTrue, Recorded, Starting, locals
<1>6. ASSUME NEW q \in Port, BackendLosesDevice(q) \/ BackendFails(q)
      PROVE  RecordsAreTrue'
  <2>1. BackendExits(q)
    BY <1>6 DEF BackendLosesDevice, BackendFails
  <2>2. /\ \A r \in Port \ {q} : listener'[r] = listener[r]
        /\ UNCHANGED <<dev, todo, port, owner>>
        /\ own' => own /\ port # q
    BY <2>1 DEF BackendExits, TypeOK
  <2>3. own => port \in Port
    BY DEF TypeOK
  <2>4. ASSUME NEW p \in Recorded'
        PROVE  /\ p \in Recorded /\ records[p].port \in Port
               /\ records'[p].port = records[p].port
               /\ records'[p].serial = records[p].serial
               /\ records'[p].driver = records[p].driver
               /\ records'[p].backend => records[p].backend /\ records[p].port # q
    <3>1. p \in Recorded /\ records[p] \in Record
      BY <2>1 DEF BackendExits, Recorded, TypeOK
    <3>2. QED
      BY <2>1, <3>1 DEF BackendExits, Recorded, Record
  <2>5. QED
    BY <2>2, <2>3, <2>4 DEF RecordsAreTrue, Reads, Starting
<1>7. ASSUME NEW s \in Serial, DriverGivesUp(s) \/ DriverFails(s)
      PROVE  RecordsAreTrue'
  <2>1. DriverExits(s)
    BY <1>7 DEF DriverGivesUp, DriverFails
  <2>2. /\ \A t \in Serial \ {s} : owner'[t] = owner[t]
        /\ UNCHANGED <<dev, locals, listener>>
    BY <2>1 DEF DriverExits, TypeOK
  <2>3. ASSUME NEW p \in Recorded'
        PROVE  /\ p \in Recorded /\ records[p].serial \in Serial
               /\ records'[p].port = records[p].port
               /\ records'[p].serial = records[p].serial
               /\ records'[p].backend = records[p].backend
               /\ records'[p].driver => records[p].driver /\ records[p].serial # s
    <3>1. p \in Recorded /\ records[p] \in Record
      BY <2>1 DEF DriverExits, Recorded, TypeOK
    <3>2. QED
      BY <2>1, <3>1 DEF DriverExits, Recorded, Record
  <2>4. QED
    BY <2>2, <2>3 DEF RecordsAreTrue, Reads, Starting, locals
<1>8. QED
  BY <1>1, <1>2, <1>3, <1>4, <1>5, <1>6, <1>7 DEF Environment

LEMMA TrueStep ==
  ASSUME TypeOK, Unique, Swept, RecordsAreTrue, [Next]_vars
  PROVE  RecordsAreTrue'
<1>1. CASE UNCHANGED vars
  BY <1>1 DEF vars, locals, memory, procs, RecordsAreTrue, Reads, Starting, Recorded
<1>2. CASE ScanBegin \/ BeginStarts
  <2>1. ~own
    BY <1>2 DEF ScanBegin, BeginStarts, TypeOK
  <2>2. Watches
    BY <1>2, <2>1 DEF ScanBegin, BeginStarts, memory, procs, Watches, Recorded
  <2>3. QED
    BY <2>2, WatchingKeepsTrue
<1>3. CASE NoFreePort \/ FinishScan \/ FinishRaises
  <2>1. /\ ~own' /\ UNCHANGED <<dev, procs>>
        /\ records' = records \/ records' = [p \in Path |-> NoRecord]
    BY <1>3 DEF NoFreePort, FinishScan, FinishRaises, Raise, Outside, Forget
  <2>2. Watches
    BY <2>1 DEF procs, Watches, Recorded
  <2>3. QED
    BY <2>2, WatchingKeepsTrue
<1>4. CASE StartFails \/ SaveFails \/ StartRaises
  <2>1. /\ CloseBackend /\ ~own' /\ UNCHANGED <<dev, owner>>
        /\ records' = records \/ records' = [p \in Path |-> NoRecord]
    BY <1>4 DEF StartFails, SaveFails, StartRaises, StartFailed, Return, Raise, Outside,
       Forget
  <2>2. QED
    BY <2>1, FailureKeepsTrue
<1>5. QED
  BY <1>1, <1>2, <1>3, <1>4, SweepKeepsTrue, StartKeepsTrue, ProbeKeepsTrue,
     EnvironmentKeepsTrue DEF Next, Scan

(* For any devices, ports and failures, crashes and orphans included: what *)
(* the manager takes for alive is, and a backend it takes for alive has    *)
(* the device of its path and no other.                                    *)
THEOREM TheManagerKnows == Spec => []RecordsAreTrue
<1>1. Init => Swept /\ RecordsAreTrue
  BY DEF Init, Swept, RecordsAreTrue, Recorded
<1>2. TypeOK /\ Swept /\ [Next]_vars => Swept'
  BY SweptStep
<1>3. TypeOK /\ Unique /\ Swept /\ RecordsAreTrue /\ [Next]_vars => RecordsAreTrue'
  BY TrueStep
<1>4. QED
  BY <1>1, <1>2, <1>3, TypeCorrect, RecordsAreUnique, PTL DEF Spec

------------------------------------------------------------------------------
(* What devices.json remembers.  _ensure_manifest_entry() puts the serial  *)
(* in memory before it is in a record, and what is saved is the memory.    *)

Entered == ActiveSerials \subseteq manifest /\ saved \subseteq manifest

\* What a step does to the memory and the file
Enters ==
  /\ Entered'
  /\ saved \subseteq saved'
  /\ ~DiskErrors /\ manifest = saved => manifest' = saved'

LEMMA EntersStep ==
  ASSUME TypeOK, Entered, [Next]_vars
  PROVE  Enters
<1>a. ASSUME UNCHANGED <<manifest, saved>>, Shrinks PROVE Enters
  <2>1. ActiveSerials' \subseteq ActiveSerials
    BY <1>a DEF ActiveSerials, Shrinks
  <2>2. QED
    BY <1>a, <2>1 DEF Enters, Entered
<1>b. ASSUME UNCHANGED saved, Forget PROVE Enters
  <2>1. ActiveSerials' = {}
    BY <1>b DEF Forget, ActiveSerials, Recorded
  <2>2. QED
    BY <1>b, <2>1 DEF Forget, Enters, Entered
<1>c. UNCHANGED records => Shrinks
  BY DEF Shrinks, Recorded
<1>d. ASSUME NEW fs, \/ Raise(records, fs) \/ \E p \in Path : Raise(Pop(p), fs)
      PROVE  Enters
  <2>1. Shrinks /\ UNCHANGED saved
    BY <1>d, RaiseShrinks DEF Raise
  <2>2. Forget \/ UNCHANGED manifest
    BY <1>d DEF Raise
  <2>3. QED
    BY <2>1, <2>2, <1>a, <1>b
<1>1. CASE UNCHANGED vars
  BY <1>1, <1>a, <1>c DEF vars, memory
<1>2. CASE ScanBegin \/ BeginStarts \/ StartDevice \/ StartFails \/ Restart \/ Tick
  BY <1>2, <1>a, <1>c DEF ScanBegin, BeginStarts, StartDevice, StartFails, StartFailed,
     Restart, Tick, memory
<1>3. ASSUME NEW p \in Path, SweepRemoved(p) \/ SweepExited(p) \/ SweepHealthy(p)
      PROVE  Enters
  <2>1. UNCHANGED <<manifest, saved>>
    BY <1>3 DEF SweepRemoved, SweepExited, SweepHealthy, memory
  <2>2. records' = Pop(p) \/ UNCHANGED records
    BY <1>3 DEF SweepRemoved, SweepExited, SweepHealthy, memory
  <2>3. Shrinks
    BY <1>c, <2>2 DEF Pop, Shrinks, Recorded, TypeOK
  <2>4. QED
    BY <1>a, <2>1, <2>3
<1>4. ASSUME NEW p \in Path, SweepRaises(p) PROVE Enters
  BY <1>4, <1>d DEF SweepRaises
<1>5. CASE NoFreePort \/ StartRaises \/ FinishRaises
  BY <1>5, <1>d DEF NoFreePort, StartRaises, FinishRaises
<1>6. CASE ProbeSucceeds
  <2>1. PICK s \in Serial :
          /\ Adds(s)
          /\ manifest' = manifest \cup {s}
          /\ saved' = IF s \in manifest THEN saved ELSE manifest \cup {s}
    <3>1. PICK s \in Serial :
            /\ Accepted(s)
            /\ manifest' = manifest \cup {s}
            /\ saved' = IF s \in manifest THEN saved ELSE manifest \cup {s}
      BY <1>6 DEF ProbeSucceeds
    <3>2. PICK t \in Serial : Adds(t)
      BY <1>6, ProbeAdds
    <3>3. s = t
      BY <3>1, <3>2 DEF Accepted, Adds
    <3>4. QED
      BY <3>1, <3>2, <3>3
  <2>2. ActiveSerials' \subseteq ActiveSerials \cup {s}
    BY <2>1 DEF Adds, ActiveSerials
  <2>3. QED
    BY <2>1, <2>2 DEF Enters, Entered
<1>7. CASE SaveFails
  <2>1. DiskErrors /\ UNCHANGED <<records, saved>> /\ manifest \subseteq manifest'
    BY <1>7 DEF SaveFails, StartFailed
  <2>2. QED
    BY <2>1 DEF Enters, Entered, ActiveSerials, Recorded
<1>8. CASE FinishScan
  <2>1. UNCHANGED <<records, manifest>> /\ saved' \in {saved, manifest}
    BY <1>8 DEF FinishScan
  <2>2. QED
    BY <2>1 DEF Enters, Entered, ActiveSerials, Recorded
<1>9. CASE Shutdown \/ Crash
  BY <1>9, <1>b DEF Shutdown, Crash
<1>10. ASSUME NEW p \in Path, NEW d \in Device, Plug(p, d) PROVE Enters
  BY <1>10, <1>a, <1>c DEF Plug, memory
<1>11. ASSUME NEW p \in Path, Unplug(p) PROVE Enters
  BY <1>11, <1>a, <1>c DEF Unplug, memory
<1>12. CASE \/ \E p \in Path : Stabilise(p)
            \/ \E q \in Port : BackendLosesDevice(q) \/ BackendFails(q)
            \/ \E s \in Serial : DriverGivesUp(s) \/ DriverFails(s)
  <2>1. UNCHANGED <<manifest, saved>>
    BY <1>12 DEF Stabilise, BackendLosesDevice, BackendFails, BackendExits,
       DriverGivesUp, DriverFails, DriverExits
  <2>2. Shrinks
    BY <1>12, EnvironmentShrinks DEF Environment
  <2>3. QED
    BY <1>a, <2>1, <2>2
<1>13. QED
  BY <1>1, <1>2, <1>3, <1>4, <1>5, <1>6, <1>7, <1>8, <1>9, <1>10, <1>11, <1>12
     DEF Next, Scan, Environment

LEMMA AlwaysEntered == Spec => [](Entered /\ TypeOK)
<1>1. Init => Entered
  BY DEF Init, Entered, ActiveSerials, Recorded
<1>2. TypeOK /\ Entered /\ [Next]_vars => Entered'
  BY EntersStep DEF Enters
<1>3. QED
  BY <1>1, <1>2, TypeCorrect, PTL DEF Spec

(* For any devices and failures, crashes and disk errors included: a       *)
(* serial that is in devices.json stays there, so a device that comes back *)
(* finds its Device Instance and its name (save_manifest()).               *)
THEOREM SerialsAreKept == Spec => [][saved \subseteq saved']_vars
<1>1. Entered /\ TypeOK /\ [Next]_vars => [saved \subseteq saved']_vars
  BY EntersStep DEF Enters
<1>2. QED
  BY <1>1, AlwaysEntered, PTL DEF Spec

(* While devices.json can be written, each serial that is served is in it, *)
(* crashes and stuck processes included: a restart knows every device it   *)
(* has shown.  (One failed write is enough to break it for good.)          *)
THEOREM ServedIsSaved ==
  ASSUME ~DiskErrors
  PROVE  Spec => [](ActiveSerials \subseteq saved)
<1> DEFINE Same == manifest = saved
<1>1. Init => Same
  BY DEF Init
<1>2. TypeOK /\ Entered /\ Same /\ [Next]_vars => Same'
  BY EntersStep DEF Enters
<1>3. Entered /\ Same => ActiveSerials \subseteq saved
  BY DEF Entered
<1> HIDE DEF Same
<1>4. QED
  BY <1>1, <1>2, <1>3, AlwaysEntered, PTL DEF Spec

------------------------------------------------------------------------------
(* The scan itself.                                                        *)

(* While every wait succeeds, devices.json can be written, nobody kills    *)
(* the manager and there are enough ports, no exception leaves scan(): the *)
(* manager never loses its timer, and only a signal ends it.               *)
THEOREM ScanningGoesOn ==
  ASSUME Reliable
  PROVE  Spec => [](pc # "halted") /\ [][pc' = "down" => pc = "down" \/ Shutdown]_vars
<1> DEFINE Running == pc # "halted"
             Ends == pc' = "down" => pc = "down" \/ Shutdown
<1>1. Init => Running /\ Identity
  BY ConstantsAssumption DEF Init, Identity, Pending, NoOrphans, Truthful, Recorded
<1>2. ASSUME TypeOK, Identity, Running, [Next]_vars PROVE Running' /\ [Ends]_vars
  <2>1. CASE Scan
    <3>1. /\ ~NoFreePort /\ ~SaveFails /\ ~StartRaises /\ ~FinishRaises
          /\ \A p \in Path : ~SweepRaises(p)
      BY <1>2, NoRaise DEF Identity
    <3>2. pc' \in {pc, "idle", "sweep", "starting", "probing"}
      BY <2>1, <3>1 DEF Scan, ScanBegin, SweepRemoved, SweepExited, SweepHealthy,
         BeginStarts, StartDevice, ProbeSucceeds, StartFails, StartFailed, Return,
         FinishScan
    <3>3. QED
      BY <1>2, <3>2
  <2>2. CASE Environment
    <3>1. ~Crash
      BY <1>2, NoRaise DEF Identity
    <3>2. Shutdown \/ Restart \/ UNCHANGED pc
      BY <2>2, <3>1 DEF Environment, Tick, Stabilise, Unplug, Plug, BackendLosesDevice,
         BackendFails, BackendExits, DriverGivesUp, DriverFails, DriverExits, locals
    <3>3. CASE Shutdown
      BY <3>3 DEF Shutdown
    <3>4. CASE Restart
      BY <3>4 DEF Restart
    <3>5. CASE UNCHANGED pc
      BY <1>2, <3>5
    <3>6. QED
      BY <3>2, <3>3, <3>4, <3>5
  <2>3. CASE UNCHANGED vars
    BY <1>2, <2>3 DEF vars, locals
  <2>4. QED
    BY <1>2, <2>1, <2>2, <2>3 DEF Next
<1>3. TypeOK /\ Unique /\ Identity /\ [Next]_vars => Identity'
  BY IdentityStep
<1> HIDE DEF Running, Ends
<1>4. Spec => []Running /\ [][Ends]_vars
  BY <1>1, <1>2, <1>3, TypeCorrect, RecordsAreUnique, PTL DEF Spec
<1> USE DEF Running, Ends
<1>5. QED
  BY <1>4

\* How much of a scan is left: the sweep, the starts, nothing
Left == CASE pc = "sweep" -> 2
          [] pc \in {"starting", "probing"} -> 1
          [] OTHER -> 0

(* For any devices and failures: a scan visits each record and each path   *)
(* at most once, whatever happens meanwhile, so it takes at most three     *)
(* steps per path; the retry of a device that fails is left to a later     *)
(* scan.                                                                   *)
THEOREM ScanVisitsOnce ==
  Spec => [][Scan /\ ~ScanBegin =>
               \/ Left' < Left
               \/ Left' = Left /\ todo' \subseteq todo /\ todo' # todo
               \/ pc = "starting" /\ pc' = "probing" /\ todo' = todo]_vars
<1> DEFINE Goes == \/ Left' < Left
                   \/ Left' = Left /\ todo' \subseteq todo /\ todo' # todo
                   \/ pc = "starting" /\ pc' = "probing" /\ todo' = todo
<1>1. ASSUME NEW p \in Path, SweepRemoved(p) \/ SweepExited(p) \/ SweepHealthy(p)
      PROVE  Goes
  BY <1>1 DEF SweepRemoved, SweepExited, SweepHealthy, Left
<1>2. ASSUME NEW p \in Path, SweepRaises(p) PROVE Goes
  BY <1>2 DEF SweepRaises, Raise, Left
<1>3. NoFreePort \/ StartRaises \/ FinishRaises \/ FinishScan \/ BeginStarts => Goes
  BY DEF NoFreePort, StartRaises, FinishRaises, FinishScan, BeginStarts, Raise, Left
<1>4. StartDevice => Goes
  BY DEF StartDevice
<1>5. ASSUME TypeOK, ProbeSucceeds \/ StartFails \/ SaveFails PROVE Goes
  <2>1. pc = "probing" /\ Return
    BY <1>5 DEF ProbeSucceeds, StartFails, SaveFails, StartFailed
  <2>2. Starting \in todo
    BY <1>5, <2>1, StartingIsPath DEF TypeOK
  <2>3. QED
    BY <2>1, <2>2 DEF Return, Left
<1>6. TypeOK /\ [Next]_vars => [Scan /\ ~ScanBegin => Goes]_vars
  BY <1>1, <1>2, <1>3, <1>4, <1>5 DEF Scan
<1> HIDE DEF Goes
<1>7. Spec => [][Scan /\ ~ScanBegin => Goes]_vars
  BY <1>6, TypeCorrect, PTL DEF Spec
<1>8. QED
  BY <1>7 DEF Goes

-----------------------------------------------------------------------------
(* The manager implements module Directory: under Reliable, every step is  *)
(* one of the four steps of Directory.  Most steps only end processes; a   *)
(* backend that starts gets a port no driver reads; a driver that starts   *)
(* reads the right device; and devices come and go.                        *)

\* A step that only ends processes and takes devices away from them
Falls ==
  /\ \A q \in Port : listener'[q] \in {listener[q], NoProc, Gone}
  /\ \A s \in Serial : owner'[s] \in {owner[s], NoProc}

\* One path per device, and a backend's device is plugged in.
Here ==
  /\ \A p, r \in Path : dev[p] = dev[r] => p = r \/ dev[p] = NoDevice
  /\ \A q \in Port : listener[q] \in Device => listener[q] \in Present

-----------------------------------------------------------------------------
(* What a step does to the processes and the devices                       *)

LEMMA ScanFalls ==
  ASSUME TypeOK, Scan
  PROVE  /\ UNCHANGED dev
         /\ Falls \/ StartDevice \/ ProbeSucceeds
<1>1. ASSUME NEW p \in Path,
             SweepRemoved(p) \/ SweepExited(p) \/ SweepHealthy(p) \/ SweepRaises(p)
      PROVE  UNCHANGED dev /\ Falls
  BY <1>1 DEF SweepRemoved, SweepExited, SweepHealthy, SweepRaises, Terminate,
     StopDriverOnly, procs, Falls
<1>2. ScanBegin \/ BeginStarts \/ NoFreePort \/ FinishScan \/ FinishRaises =>
        UNCHANGED dev /\ Falls
  BY DEF ScanBegin, BeginStarts, NoFreePort, FinishScan, FinishRaises, procs, Falls
<1>3. StartFails \/ SaveFails \/ StartRaises => UNCHANGED dev /\ Falls
  BY DEF StartFails, SaveFails, StartRaises, StartFailed, Return, CloseBackend, Falls
<1>4. StartDevice \/ ProbeSucceeds => UNCHANGED dev
  BY DEF StartDevice, ProbeSucceeds, Return
<1>5. QED
  BY <1>1, <1>2, <1>3, <1>4 DEF Scan

LEMMA EnvironmentFalls ==
  ASSUME TypeOK, Environment
  PROVE  /\ Falls
         /\ \/ UNCHANGED dev
            \/ \E p \in Path : Unplug(p)
            \/ \E p \in Path, d \in Device : Plug(p, d)
<1>1. Shutdown \/ Crash \/ Restart \/ Tick => UNCHANGED dev /\ Falls
  BY DEF Shutdown, Crash, Restart, Tick, procs, Falls
<1>2. ASSUME NEW p \in Path, Stabilise(p) PROVE UNCHANGED dev /\ Falls
  BY <1>2 DEF Stabilise, procs, Falls
<1>3. ASSUME NEW p \in Path, Unplug(p) PROVE Falls
  BY <1>3 DEF Unplug, Falls
<1>4. ASSUME NEW p \in Path, NEW d \in Device, Plug(p, d) PROVE Falls
  BY <1>4 DEF Plug, procs, Falls
<1>5. ASSUME NEW q \in Port, BackendLosesDevice(q) \/ BackendFails(q)
      PROVE  UNCHANGED dev /\ Falls
  <2>1. BackendExits(q)
    BY <1>5 DEF BackendLosesDevice, BackendFails
  <2>2. \A r \in Port : listener'[r] = IF r = q THEN NoProc ELSE listener[r]
    BY <2>1 DEF BackendExits, TypeOK
  <2>3. QED
    BY <2>1, <2>2 DEF BackendExits, Falls
<1>6. ASSUME NEW s \in Serial, DriverGivesUp(s) \/ DriverFails(s)
      PROVE  UNCHANGED dev /\ Falls
  <2>1. DriverExits(s)
    BY <1>6 DEF DriverGivesUp, DriverFails
  <2>2. \A t \in Serial : owner'[t] = IF t = s THEN NoProc ELSE owner[t]
    BY <2>1 DEF DriverExits, TypeOK
  <2>3. QED
    BY <2>1, <2>2 DEF DriverExits, Falls
<1>7. QED
  BY <1>1, <1>2, <1>3, <1>4, <1>5, <1>6 DEF Environment

\* A backend is started at a port that nobody listens at or reads.
LEMMA StartListens ==
  ASSUME TypeOK, StartDevice
  PROVE  \E q \in FreePorts :
           /\ \A r \in Port \ {q} : listener'[r] = listener[r]
           /\ listener'[q] \in {listener[q], Gone} \cup Present
           /\ UNCHANGED <<dev, owner>>
<1>1. FreePort \in FreePorts
  BY FreePortIsFree DEF StartDevice, FreePorts
<1>2. Starting \in Path
  BY StartingIsPath DEF StartDevice
<1>3. \A r \in Port \ {FreePort} : listener'[r] = listener[r]
  BY DEF StartDevice, StartBackend, TypeOK
<1>4. listener'[FreePort] \in {listener[FreePort], Gone} \cup Present
  BY <1>1, <1>2 DEF StartDevice, StartBackend, Present, Plugged, FreePorts, TypeOK
<1>5. QED
  BY <1>1, <1>3, <1>4 DEF StartDevice

LEMMA HereStep ==
  ASSUME TypeOK, Here, [Next]_vars
  PROVE  Here'
<1>a. ASSUME UNCHANGED dev, Falls PROVE Here'
  <2>1. Present' = Present
    BY <1>a DEF Present, Plugged
  <2>2. QED
    BY <1>a, <2>1, ConstantsAssumption DEF Falls, Here
<1>1. CASE Scan
  <2>1. CASE StartDevice
    <3>1. Present' = Present /\ UNCHANGED dev
      BY <2>1 DEF StartDevice, Present, Plugged
    <3>2. PICK q \in FreePorts :
            /\ \A r \in Port \ {q} : listener'[r] = listener[r]
            /\ listener'[q] \in {listener[q], Gone} \cup Present
      BY <2>1, StartListens
    <3>3. QED
      BY <3>1, <3>2, ConstantsAssumption DEF Here, FreePorts
  <2>2. CASE ProbeSucceeds
    <3>1. UNCHANGED <<dev, listener>>
      BY <2>2 DEF ProbeSucceeds, Return
    <3>2. QED
      BY <3>1 DEF Here, Present, Plugged
  <2>3. QED
    BY <1>1, <1>a, <2>1, <2>2, ScanFalls
<1>2. ASSUME NEW p \in Path, Unplug(p) PROVE Here'
  <2>1. /\ \A r \in Path : dev'[r] = IF r = p THEN NoDevice ELSE dev[r]
        /\ \A q \in Port : listener'[q] = IF listener[q] = dev[p] THEN Gone ELSE listener[q]
    BY <1>2 DEF Unplug, TypeOK
  <2>2. ASSUME NEW q \in Port, listener'[q] \in Device PROVE listener'[q] \in Present'
    <3>1. listener'[q] = listener[q] /\ listener[q] # dev[p] /\ listener[q] \in Present
      BY <2>1, <2>2, ConstantsAssumption DEF Here
    <3>2. PICK r \in Plugged : dev[r] = listener[q]
      BY <3>1 DEF Present
    <3>3. r # p /\ r \in Plugged' /\ dev'[r] = dev[r]
      BY <2>1, <3>1, <3>2 DEF Plugged
    <3>4. QED
      BY <3>1, <3>2, <3>3 DEF Present
  <2>3. QED
    BY <2>1, <2>2 DEF Here
<1>3. ASSUME NEW p \in Path, NEW d \in Device, Plug(p, d) PROVE Here'
  <2>1. /\ \A r \in Path : dev'[r] = IF r = p THEN d ELSE dev[r]
        /\ dev[p] = NoDevice /\ d # NoDevice /\ UNCHANGED listener
        /\ \A r \in Path : dev[r] # d
    BY <1>3, ConstantsAssumption DEF Plug, procs, TypeOK
  <2>2. Present \subseteq Present'
    BY <2>1 DEF Present, Plugged
  <2>3. QED
    BY <2>1, <2>2 DEF Here
<1>4. CASE UNCHANGED vars
  BY <1>4 DEF vars, procs, Here, Present, Plugged
<1>5. QED
  BY <1>1, <1>2, <1>3, <1>4, <1>a, EnvironmentFalls DEF Next

-----------------------------------------------------------------------------
(* The steps of Directory                                                  *)

LEMMA FallsShow ==
  ASSUME TypeOK, Falls, NEW s \in Serial
  PROVE  Shown(s)' \in {Shown(s), NoDevice}
BY ConstantsAssumption DEF Falls, Shown, TypeOK

LEMMA StopStep ==
  ASSUME UNCHANGED Present, \A s \in Serial : Shown(s)' \in {Shown(s), NoDevice}
  PROVE  Directory!Stop
<1> DEFINE S == {s \in Serial : Shown(s)' = NoDevice}
<1>1. [s \in Serial |-> Shown(s)]' = Directory!Without(S)
  BY DEF Directory!Without
<1>2. QED
  BY <1>1 DEF Directory!Stop

LEMMA ShowsIsStep ==
  ASSUME Reliable, TypeOK, Unique, Identity, Here, [Next]_vars
  PROVE  [Directory!Next]_(Directory!vars)
<1>a. ASSUME UNCHANGED dev, \A s \in Serial : Shown(s)' \in {Shown(s), NoDevice}
      PROVE  Directory!Next
  BY <1>a, StopStep DEF Present, Plugged, Directory!Next
<1>1. CASE StartDevice
  <2>1. PICK q \in FreePorts :
          /\ \A r \in Port \ {q} : listener'[r] = listener[r]
          /\ UNCHANGED <<dev, owner>>
    BY <1>1, StartListens
  <2>2. ASSUME NEW s \in Serial, owner[s] # NoProc PROVE owner[s] \in Port \ {q}
    <3>1. owner[s] \in UsedPorts
      BY <2>2 DEF Identity, NoOrphans, UsedPorts
    <3>2. QED
      BY <2>1, <2>2, <3>1 DEF FreePorts, TypeOK
  <2>3. \A s \in Serial : Shown(s)' = Shown(s)
    BY <2>1, <2>2 DEF Shown
  <2>4. QED
    BY <1>a, <2>1, <2>3
<1>2. CASE ProbeSucceeds
  <2>1. PICK s \in Serial : Accepted(s) /\ owner' = [owner EXCEPT ![s] = IF @ = NoProc THEN port ELSE @]
    BY <1>2 DEF ProbeSucceeds
  <2>2. /\ UNCHANGED <<dev, listener>> /\ port \in Port
        /\ \A t \in Serial \ {s} : Shown(t)' = Shown(t)
    BY <1>2, <2>1 DEF ProbeSucceeds, Return, Shown, TypeOK
  <2>3. CASE owner[s] # NoProc
    <3>1. owner' = owner
      BY <2>1, <2>3 DEF TypeOK
    <3>2. QED
      BY <1>a, <2>2, <3>1 DEF Shown
  <2>4. CASE owner[s] = NoProc
    <3>1. /\ listener[port] \in Present /\ listener[port] \in Device
          /\ SerialOf[listener[port]] = s
      BY <2>1, <2>2, ConstantsAssumption DEF Accepted, Answer, Here
    <3>2. owner'[s] = port /\ port # NoProc
      BY <2>1, <2>2, <2>4, ConstantsAssumption DEF TypeOK
    <3>3. Shown(s) = NoDevice /\ Shown(s)' = listener[port]
      BY <2>2, <2>4, <3>1, <3>2 DEF Shown
    <3>4. [t \in Serial |-> Shown(t)]' =
            [[t \in Serial |-> Shown(t)] EXCEPT ![s] = listener[port]]
      BY <2>2, <3>3
    <3>5. UNCHANGED Present
      BY <2>2 DEF Present, Plugged
    <3>6. Directory!Start
      BY <3>1, <3>3, <3>4, <3>5 DEF Directory!Start
    <3>7. QED
      BY <3>6 DEF Directory!Next
  <2>5. QED
    BY <2>3, <2>4
<1>3. ASSUME NEW p \in Path, NEW d \in Device, Plug(p, d) PROVE Directory!Next
  <2>1. /\ \A r \in Path : dev'[r] = IF r = p THEN d ELSE dev[r]
        /\ dev[p] = NoDevice /\ d # NoDevice /\ UNCHANGED <<listener, owner>>
    BY <1>3, ConstantsAssumption DEF Plug, procs, TypeOK
  <2>2. Present' = Present \cup {d}
    BY <2>1 DEF Present, Plugged
  <2>3. [s \in Serial |-> Shown(s)]' = [s \in Serial |-> Shown(s)]
    BY <2>1 DEF Shown
  <2>4. QED
    BY <2>2, <2>3 DEF Directory!Next, Directory!Arrive
<1>4. ASSUME NEW p \in Path, Unplug(p) PROVE Directory!Next
  <2>1. /\ \A r \in Path : dev'[r] = IF r = p THEN NoDevice ELSE dev[r]
        /\ \A q \in Port : listener'[q] = IF listener[q] = dev[p] THEN Gone ELSE listener[q]
        /\ UNCHANGED owner /\ dev[p] \in Device
    BY <1>4 DEF Unplug, TypeOK
  <2>2. Present' = Present \ {dev[p]}
    BY <2>1 DEF Present, Plugged, Here
  <2>3. \A s \in Serial : Shown(s)' = IF Shown(s) = dev[p] THEN NoDevice ELSE Shown(s)
    BY <2>1, ConstantsAssumption DEF Shown, TypeOK
  <2>4. [s \in Serial |-> Shown(s)]' = Directory!Without({s \in Serial : Shown(s) = dev[p]})
    BY <2>3 DEF Directory!Without
  <2>5. Directory!Leave
    BY <2>1, <2>2, <2>4 DEF Directory!Leave
  <2>6. QED
    BY <2>5 DEF Directory!Next
<1>5. CASE UNCHANGED vars
  BY <1>5 DEF vars, procs, Directory!vars, Present, Plugged, Shown
<1>6. CASE Falls /\ UNCHANGED dev
  BY <1>6, <1>a, FallsShow
<1>7. QED
  BY <1>1, <1>2, <1>3, <1>4, <1>5, <1>6, ScanFalls, EnvironmentFalls DEF Next

(* For any devices, serials and paths, and at least as many ports as       *)
(* paths, without crashes, stuck processes and disk errors: what the D-Bus *)
(* names of the serials show behaves as module Directory says.             *)
THEOREM ManagerIsDirectory ==
  ASSUME Reliable
  PROVE  Spec => IsDirectory
<1>1. Init => Directory!Init /\ Here /\ Identity
  <2>1. ASSUME Init PROVE Present \in SUBSET Device
    BY <2>1 DEF Init, Present, Plugged
  <2>2. ASSUME Init PROVE [s \in Serial |-> Shown(s)] = [s \in Serial |-> NoDevice]
    BY <2>2 DEF Init, Shown
  <2>3. Init => Here
    BY ConstantsAssumption DEF Init, Here
  <2>4. Init => Identity
    BY ConstantsAssumption DEF Init, Identity, Pending, NoOrphans, Truthful, Recorded
  <2>5. QED
    BY <2>1, <2>2, <2>3, <2>4 DEF Directory!Init
<1>2. TypeOK /\ Here /\ [Next]_vars => Here'
  BY HereStep
<1>3. TypeOK /\ Unique /\ Identity /\ [Next]_vars => Identity'
  BY IdentityStep
<1>4. TypeOK /\ Unique /\ Identity /\ Here /\ [Next]_vars => [Directory!Next]_(Directory!vars)
  BY ShowsIsStep
<1>5. QED
  BY <1>1, <1>2, <1>3, <1>4, TypeCorrect, RecordsAreUnique, PTL
     DEF Spec, IsDirectory, Directory!Spec
=============================================================================
