------------------------------- MODULE Hotplug -------------------------------
(***************************************************************************)
(* The hotplug manager, src/mppsolar-manager.py: the scan that starts and  *)
(* stops one inverterd backend and one driver per P18 device, its retry    *)
(* backoff, its TCP ports, and what the processes it started do meanwhile. *)
(*                                                                         *)
(* scan() runs for seconds (a probe alone may last a minute), so it is     *)
(* split where the world can change under it: one step per record swept    *)
(* and two per device started.                                             *)
(***************************************************************************)
EXTENDS Naturals, FiniteSets

CONSTANTS
  Path,          \* /dev/hidraw* names, numbered in the order of sorted()
  Port,          \* PORT_BASE .. PORT_BASE + MAX_DEVICES * 2 - 1
  Device,        \* the HID devices there are
  Serial,        \* the P18 serials there are
  SerialOf,      \* [Device -> Serial \cup {NoSerial}]
  NoSerial,      \* what a device that is not protocol 18 has for a serial
  NoDevice,      \* nothing is plugged in at the path
  NoProc,        \* no such process
  Gone,          \* the device a process had opened was unplugged
  NoRecord,      \* no DeviceRecord for the path
  MaxExponent,   \* 6: attempts count no further in the backoff
  Delay,         \* attempts -> seconds before the next start
  MaxFaults,     \* BOUND on what the environment does to the system
  StuckProcs,    \* may a process outlive SIGKILL by two seconds?
  DiskErrors,    \* may writing devices.json fail?
  Crashes        \* may the manager die without its shutdown()?

Record == [serial: Serial, port: Port, backend: BOOLEAN, driver: BOOLEAN,
           stable: BOOLEAN]

ASSUME ConstantsAssumption ==
  /\ Path \subseteq Nat
  /\ Port \subseteq Nat
  /\ SerialOf \in [Device -> Serial \cup {NoSerial}]
  /\ NoSerial \notin Serial
  /\ NoDevice \notin Device
  /\ {NoProc, Gone} \cap Device = {}
  /\ NoProc # Gone
  /\ NoProc \notin Port
  /\ NoRecord \notin Record
  /\ MaxExponent \in Nat \ {0}
  /\ Delay \in [0..MaxExponent -> Nat \ {0}]
  /\ MaxFaults \in Nat
  /\ {StuckProcs, DiskErrors, Crashes} \subseteq BOOLEAN

VARIABLES
  dev,           \* [Path -> Device \cup {NoDevice}]: what is plugged in
  pc,            \* where the manager is
  booting,       \* is this the scan main() makes before loop.run()?
  seen,          \* scan()'s `paths`
  todo,          \* paths the current loop of scan() has still to visit
  port,          \* _start_device()'s `port`, NoProc outside it
  own,           \* is the backend _start_device() started alive?
  records,       \* self.records
  failed,        \* self.failed; a missing entry is NoFailure
  manifest,      \* the serials in self.manifest
  saved,         \* the serials in devices.json
  listener,      \* [Port -> the device open in the inverterd listening there]
  owner,         \* [Serial -> the port of the driver owning the D-Bus names]
  faults         \* how much of MaxFaults the environment has used

locals == <<pc, booting, seen, todo, port, own>>
memory == <<records, failed, manifest, saved>>
procs  == <<listener, owner>>
vars   == <<dev, locals, memory, procs, faults>>

Failure == [attempts: 0..MaxExponent, wait: Nat]

\* self.failed.get(path, (0, 0)) of a path without an entry
NoFailure == [attempts |-> 0, wait |-> 0]

(* The variables have their types; the locals of _start_device() exist     *)
(* exactly while it runs, and those of scan() while it does.               *)
TypeOK ==
  /\ dev \in [Path -> Device \cup {NoDevice}]
  /\ pc \in {"idle", "sweep", "starting", "probing", "halted", "down"}
  /\ booting \in BOOLEAN
  /\ seen \in SUBSET Path
  /\ todo \in SUBSET seen \/ (todo \in SUBSET Path /\ pc = "sweep")
  /\ IF pc = "probing" THEN port \in Port /\ todo # {} ELSE port = NoProc
  /\ own \in BOOLEAN
  /\ own => pc = "probing"
  /\ records \in [Path -> Record \cup {NoRecord}]
  /\ failed \in [Path -> Failure]
  /\ manifest \in SUBSET Serial
  /\ saved \in SUBSET Serial
  /\ listener \in [Port -> Device \cup {Gone, NoProc}]
  /\ owner \in [Serial -> Port \cup {NoProc}]
  /\ faults \in 0..MaxFaults

------------------------------------------------------------------------------
(* What the code computes from its state.                                  *)

Plugged == {p \in Path : dev[p] # NoDevice}
Recorded == {p \in Path : records[p] # NoRecord}
ActiveSerials == {records[p].serial : p \in Recorded}

\* Mutant: a record whose backend exited gives its port back at once.
LivePorts == {records[p].port : p \in {r \in Recorded : records[r].backend}}

UsedPorts == {records[p].port : p \in Recorded}
FreePorts == Port \ UsedPorts

Least(S) == CHOOSE x \in S : \A y \in S : x <= y

\* _free_port(), where there is one
FreePort == Least(FreePorts)

\* The serial get-serial-number returns through a port; NoSerial when
\* nothing answers or what answers is not protocol 18.
Answer(q) == IF listener[q] \in Device THEN SerialOf[listener[q]] ELSE NoSerial

\* The path of the _start_device() under way: sorted(paths) in order
Starting == Least(todo)

\* self.failed[path] = (now + min(60, 2 ** min(attempts, 6)), attempts)
Backoff(attempts) == [attempts |-> attempts, wait |-> Delay[attempts]]
OneMore(attempts) == IF attempts < MaxExponent THEN attempts + 1 ELSE attempts

Fault == faults < MaxFaults /\ faults' = faults + 1

\* What the next process will find of the manager's memory
Forget ==
  /\ records' = [p \in Path |-> NoRecord]
  /\ failed' = [p \in Path |-> NoFailure]
  /\ manifest' = saved

\* The manager is not inside scan().
Outside ==
  /\ booting' = FALSE
  /\ seen' = {}
  /\ todo' = {}
  /\ port' = NoProc
  /\ own' = FALSE

\* An exception left scan() with the memory (rs, fs).  In main() it ends the
\* process without shutdown(); in the GLib timeout it removes the timer, and
\* the process lives on without scanning.
Raise(rs, fs) ==
  /\ Outside
  /\ UNCHANGED saved
  /\ IF booting
     THEN pc' = "down" /\ Forget
     ELSE pc' = "halted" /\ records' = rs /\ failed' = fs /\ UNCHANGED manifest

------------------------------------------------------------------------------
(* scan(), first loop: stop what was removed or has exited.                *)

ScanBegin ==
  /\ pc = "idle"
  /\ pc' = "sweep"
  /\ seen' = Plugged
  /\ todo' = Recorded
  /\ UNCHANGED <<dev, booting, port, own, memory, procs, faults>>

\* Mutant: only the backend is polled.
BackendExited(p) == ~records[p].backend

Exited(p) == ~records[p].backend \/ ~records[p].driver

\* The driver alone: what _stop_device() has done when it raises half-way.
\* As a mutant of Terminate, the backend is forgotten.
StopDriverOnly(p) ==
  /\ owner' = [s \in Serial |->
                 IF s = records[p].serial /\ records[p].driver THEN NoProc
                 ELSE owner[s]]
  /\ UNCHANGED listener

\* Mutant: the driver is left to notice that its backend went.
TerminateBackendOnly(p) ==
  /\ listener' = [q \in Port |->
                    IF q = records[p].port /\ records[p].backend THEN NoProc
                    ELSE listener[q]]
  /\ UNCHANGED owner

\* _terminate_process() of the driver, then of the backend
Terminate(p) ==
  /\ owner' = [s \in Serial |->
                 IF s = records[p].serial /\ records[p].driver THEN NoProc
                 ELSE owner[s]]
  /\ listener' = [q \in Port |->
                    IF q = records[p].port /\ records[p].backend THEN NoProc
                    ELSE listener[q]]

\* Mutant: the branches are swapped.
AttemptsSwapped(p) == IF records[p].stable THEN OneMore(failed[p].attempts) ELSE 0

\* attempts = 0 if lived >= 300 else attempts + 1
Attempts(p) == IF records[p].stable THEN 0 ELSE OneMore(failed[p].attempts)

Pop(p) == [records EXCEPT ![p] = NoRecord]

SweepRemoved(p) ==
  /\ pc = "sweep" /\ p \in todo \ seen
  /\ Terminate(p)
  /\ records' = Pop(p)
  /\ failed' = [failed EXCEPT ![p] = NoFailure]
  /\ todo' = todo \ {p}
  /\ UNCHANGED <<dev, pc, booting, seen, port, own, manifest, saved, faults>>

SweepExited(p) ==
  /\ pc = "sweep" /\ p \in todo \cap seen
  /\ Exited(p)
  /\ Terminate(p)
  /\ records' = Pop(p)
  /\ failed' = [failed EXCEPT ![p] = Backoff(Attempts(p))]
  /\ todo' = todo \ {p}
  /\ UNCHANGED <<dev, pc, booting, seen, port, own, manifest, saved, faults>>

SweepHealthy(p) ==
  /\ pc = "sweep" /\ p \in todo \cap seen
  /\ ~Exited(p)
  /\ todo' = todo \ {p}
  /\ UNCHANGED <<dev, pc, booting, seen, port, own, memory, procs, faults>>

\* wait(timeout=2) after SIGKILL raises TimeoutExpired: the record is popped,
\* and the backend of a stuck driver was never signalled.
SweepRaises(p) ==
  /\ StuckProcs /\ Fault
  /\ pc = "sweep" /\ p \in todo
  /\ p \notin seen \/ Exited(p)
  /\ \/ /\ records[p].driver
        /\ StopDriverOnly(p)
     \/ /\ records[p].backend
        /\ Terminate(p)
  /\ Raise(Pop(p), failed)
  /\ UNCHANGED dev

------------------------------------------------------------------------------
(* scan(), second loop: _start_device() for each path without a record     *)
(* whose retry_at has come.                                                *)

\* Mutant: paths with a failure are tried again although they are gone.
DueEver == {p \in Path : records[p] = NoRecord /\ failed[p].wait = 0}

\* The paths the second loop will start, by the time `now` it read once
Due == {p \in seen : records[p] = NoRecord /\ failed[p].wait = 0}

BeginStarts ==
  /\ pc = "sweep" /\ todo = {}
  /\ pc' = "starting"
  /\ todo' = Due
  /\ UNCHANGED <<dev, booting, seen, port, own, memory, procs, faults>>

\* Mutant: a backend that was started is taken to listen.
BackendAssumed(p, q) ==
  /\ own' = TRUE
  /\ listener' =
       IF listener[q] = NoProc
       THEN [listener EXCEPT ![q] = IF dev[p] = NoDevice THEN Gone ELSE dev[p]]
       ELSE listener

\* inverterd opens the path and listens, unless the port is taken: then it
\* exits, and what the port answers comes from the process that holds it.
StartBackend(p, q) ==
  /\ own' = (listener[q] = NoProc)
  /\ listener' =
       IF listener[q] = NoProc
       THEN [listener EXCEPT ![q] = IF dev[p] = NoDevice THEN Gone ELSE dev[p]]
       ELSE listener

StartDevice ==
  /\ pc = "starting" /\ todo # {}
  /\ FreePorts # {}
  /\ pc' = "probing"
  /\ port' = FreePort
  /\ StartBackend(Starting, FreePort)
  /\ UNCHANGED <<dev, booting, seen, todo, memory, owner, faults>>

\* _free_port() is called outside the try block.
NoFreePort ==
  /\ pc = "starting" /\ todo # {}
  /\ FreePorts = {}
  /\ Raise(records, failed)
  /\ UNCHANGED <<dev, procs, faults>>

\* Mutant: the duplicate check is dropped.
AcceptedTwice(s) == s = Answer(port) /\ s \in Serial

\* The serial the probe accepts
Accepted(s) == s = Answer(port) /\ s \in Serial \ ActiveSerials

\* _start_device() returns.
Return ==
  /\ pc' = "starting"
  /\ todo' = todo \ {Starting}
  /\ port' = NoProc
  /\ own' = FALSE
  /\ UNCHANGED <<dev, booting, seen>>

\* A serial of the manifest is not saved again.  A driver whose D-Bus names
\* are taken exits.
ProbeSucceeds ==
  /\ pc = "probing"
  /\ \E s \in Serial :
       /\ Accepted(s)
       /\ manifest' = manifest \cup {s}
       /\ saved' = IF s \in manifest THEN saved ELSE manifest \cup {s}
       /\ records' = [records EXCEPT ![Starting] =
                        [serial |-> s, port |-> port, backend |-> own,
                         driver |-> owner[s] = NoProc, stable |-> FALSE]]
       /\ owner' = [owner EXCEPT ![s] = IF @ = NoProc THEN port ELSE @]
  /\ Return
  /\ UNCHANGED <<failed, listener, faults>>

CloseBackend ==
  listener' = [q \in Port |-> IF q = port /\ own THEN NoProc ELSE listener[q]]

\* The except block
StartFailed ==
  /\ CloseBackend
  /\ failed' = [failed EXCEPT ![Starting] = Backoff(OneMore(@.attempts))]
  /\ Return
  /\ UNCHANGED <<records, saved, owner>>

\* Six probes failed, the serial is a duplicate, or no answer came although
\* one could (a fault).
StartFails ==
  /\ pc = "probing"
  /\ IF \E s \in Serial : Accepted(s) THEN Fault ELSE UNCHANGED faults
  /\ StartFailed
  /\ UNCHANGED manifest

\* save_manifest() raises: the entry stays in self.manifest.
SaveFails ==
  /\ DiskErrors /\ Fault
  /\ pc = "probing"
  /\ \E s \in Serial \ manifest :
       /\ Accepted(s)
       /\ manifest' = manifest \cup {s}
  /\ StartFailed

\* The except block raises TimeoutExpired.
StartRaises ==
  /\ StuckProcs /\ Fault
  /\ pc = "probing" /\ own
  /\ CloseBackend
  /\ Raise(records, failed)
  /\ UNCHANGED <<dev, owner>>

------------------------------------------------------------------------------
(* scan(), the end: forget failures of removed paths, _update_service().   *)

Pruned == [p \in Path |-> IF p \in seen THEN failed[p] ELSE NoFailure]

\* _update_service() saves the manifest when a setting of a recorded serial
\* differs from it; settings are not modelled here, so it may or may not.
FinishScan ==
  /\ pc = "starting" /\ todo = {}
  /\ pc' = "idle"
  /\ failed' = Pruned
  /\ saved' \in {saved} \cup {manifest : p \in Recorded}
  /\ Outside
  /\ UNCHANGED <<dev, records, manifest, procs, faults>>

FinishRaises ==
  /\ DiskErrors /\ Fault
  /\ pc = "starting" /\ todo = {}
  /\ Recorded # {}
  /\ Raise(records, Pruned)
  /\ UNCHANGED <<dev, procs>>

------------------------------------------------------------------------------
(* The manager's life and end.                                             *)

\* SIGTERM between scans; loop.quit() in the first scan is lost.
Shutdown ==
  /\ pc \in {"idle", "halted"} /\ ~booting
  /\ Fault
  /\ pc' = "down"
  /\ Outside /\ Forget
  /\ owner' = [s \in Serial |->
                 IF \E p \in Recorded : records[p].driver /\ records[p].serial = s
                 THEN NoProc ELSE owner[s]]
  /\ listener' = [q \in Port |->
                    IF \E p \in Recorded : records[p].backend /\ records[p].port = q
                    THEN NoProc ELSE listener[q]]
  /\ UNCHANGED <<dev, saved>>

\* SIGKILL, out of memory: what the manager started lives on.
Crash ==
  /\ Crashes /\ Fault
  /\ pc # "down"
  /\ pc' = "down"
  /\ Outside /\ Forget
  /\ UNCHANGED <<dev, saved, procs>>

Restart ==
  /\ pc = "down"
  /\ pc' = "idle"
  /\ booting' = TRUE
  /\ UNCHANGED <<dev, seen, todo, port, own, memory, procs, faults>>

\* A second of the monotonic clock
Tick ==
  /\ \E p \in Path : failed[p].wait > 0
  /\ failed' = [p \in Path |->
                  [failed[p] EXCEPT !.wait = IF @ > 0 THEN @ - 1 ELSE 0]]
  /\ UNCHANGED <<dev, locals, records, manifest, saved, procs, faults>>

\* 300 s since started_at
Stabilise(p) ==
  /\ p \in Recorded /\ ~records[p].stable
  /\ records' = [records EXCEPT ![p].stable = TRUE]
  /\ UNCHANGED <<dev, locals, failed, manifest, saved, procs, faults>>

------------------------------------------------------------------------------
(* Devices, backends and drivers.                                          *)

Plug(p, d) ==
  /\ Fault
  /\ dev[p] = NoDevice
  /\ \A r \in Path : dev[r] # d
  /\ dev' = [dev EXCEPT ![p] = d]
  /\ UNCHANGED <<locals, memory, procs>>

Unplug(p) ==
  /\ Fault
  /\ dev[p] # NoDevice
  /\ dev' = [dev EXCEPT ![p] = NoDevice]
  /\ listener' = [q \in Port |-> IF listener[q] = dev[p] THEN Gone ELSE listener[q]]
  /\ UNCHANGED <<locals, memory, owner>>

\* The inverterd at a port exits.
BackendExits(q) ==
  /\ listener' = [listener EXCEPT ![q] = NoProc]
  /\ records' = [p \in Path |->
                   IF p \in Recorded /\ records[p].port = q
                   THEN [records[p] EXCEPT !.backend = FALSE]
                   ELSE records[p]]
  /\ own' = (own /\ port # q)
  /\ UNCHANGED <<dev, pc, booting, seen, todo, port, failed, manifest, saved, owner>>

\* --device-error-limit 3
BackendLosesDevice(q) ==
  /\ listener[q] = Gone
  /\ BackendExits(q)
  /\ UNCHANGED faults

BackendFails(q) ==
  /\ listener[q] \in Device
  /\ BackendExits(q)
  /\ Fault

\* The driver of a serial exits.
DriverExits(s) ==
  /\ owner' = [owner EXCEPT ![s] = NoProc]
  /\ records' = [p \in Path |->
                   IF p \in Recorded /\ records[p].serial = s
                   THEN [records[p] EXCEPT !.driver = FALSE]
                   ELSE records[p]]
  /\ UNCHANGED <<dev, locals, failed, manifest, saved, listener>>

\* Three failed polls in a row
DriverGivesUp(s) ==
  /\ owner[s] # NoProc
  /\ listener[owner[s]] \notin Device
  /\ DriverExits(s)
  /\ UNCHANGED faults

\* A failure of its own, or the restart after a changed Device Instance
DriverFails(s) ==
  /\ owner[s] # NoProc
  /\ DriverExits(s)
  /\ Fault

------------------------------------------------------------------------------
Init ==
  /\ dev \in [Path -> Device \cup {NoDevice}]
  /\ \A p, r \in Path : dev[p] = dev[r] => p = r \/ dev[p] = NoDevice
  /\ pc = "idle"
  /\ booting = TRUE
  /\ seen = {}
  /\ todo = {}
  /\ port = NoProc
  /\ own = FALSE
  /\ records = [p \in Path |-> NoRecord]
  /\ failed = [p \in Path |-> NoFailure]
  /\ manifest = {}
  /\ saved = {}
  /\ listener = [q \in Port |-> NoProc]
  /\ owner = [s \in Serial |-> NoProc]
  /\ faults = 0

Scan ==
  \/ ScanBegin
  \/ \E p \in Path : \/ SweepRemoved(p) \/ SweepExited(p)
                     \/ SweepHealthy(p) \/ SweepRaises(p)
  \/ BeginStarts \/ StartDevice \/ NoFreePort
  \/ ProbeSucceeds \/ StartFails \/ SaveFails \/ StartRaises
  \/ FinishScan \/ FinishRaises

Environment ==
  \/ Shutdown \/ Crash \/ Restart \/ Tick
  \/ \E p \in Path : Stabilise(p) \/ Unplug(p) \/ \E d \in Device : Plug(p, d)
  \/ \E q \in Port : BackendLosesDevice(q) \/ BackendFails(q)
  \/ \E s \in Serial : DriverGivesUp(s) \/ DriverFails(s)

Next == Scan \/ Environment

Spec == Init /\ [][Next]_vars

(* The GLib timer, the clock, the supervisor and the two error limits keep *)
(* going; nothing else has to happen.                                      *)
Fairness ==
  /\ WF_vars(Scan)
  /\ WF_vars(Tick)
  /\ WF_vars(Restart)
  /\ \A q \in Port : WF_vars(BackendLosesDevice(q))
  /\ \A s \in Serial : WF_vars(DriverGivesUp(s))

FairSpec == Spec /\ Fairness

------------------------------------------------------------------------------
(* Properties                                                              *)

\* The check of _start_device(), which verify-runtime.py repeats on the slots
UniqueSerial ==
  \A p, r \in Recorded : records[p].serial = records[r].serial => p = r

\* The port of the device being started is in no record either.
UniquePort ==
  /\ \A p, r \in Recorded : records[p].port = records[r].port => p = r
  /\ port \notin UsedPorts

(* No two records share a serial or a port, whichever duplicates are       *)
(* plugged in, however ports are reused, and whatever dies in between.     *)
Unique == UniqueSerial /\ UniquePort

\* The backend at port q has opened the device at path p, which it may have
\* lost since.
Reads(p, q) ==
  /\ listener[q] # NoProc
  /\ listener[q] \in Device => listener[q] = dev[p]

(* What the manager takes for alive is: the backend of a record listens at *)
(* its port and has the device of its path, and no other; its driver has   *)
(* the names of its serial and polls that port.  Orphans, stolen ports and *)
(* half-done stops never make a record lie.                                *)
RecordsAreTrue ==
  /\ \A p \in Recorded :
       /\ records[p].backend => Reads(p, records[p].port)
       /\ records[p].driver => owner[records[p].serial] = records[p].port
  /\ own => Reads(Starting, port)

(* While SIGKILL works and the manager ends by its shutdown(), every       *)
(* backend and every driver that runs is one the manager knows and will    *)
(* stop: nothing outlives its record.                                      *)
NoOrphans ==
  /\ \A q \in Port : listener[q] # NoProc =>
       (own /\ port = q) \/ \E p \in Recorded : records[p].backend /\ records[p].port = q
  /\ \A s \in Serial : owner[s] # NoProc =>
       \E p \in Recorded : /\ records[p].driver
                          /\ records[p].serial = s
                          /\ records[p].port = owner[s]

(* What a driver publishes under a serial's D-Bus names was read from the  *)
(* device with that serial, through every unplugging, permutation of paths *)
(* and reuse of ports: README.md's permanent identity.                     *)
DriverTalksToItsDevice ==
  \A s \in Serial :
    owner[s] # NoProc /\ listener[owner[s]] \in Device =>
      SerialOf[listener[owner[s]]] = s

\* The devices that are plugged in, and what the D-Bus names of a serial show
Present == {dev[p] : p \in Plugged}
Shown(s) ==
  IF owner[s] # NoProc /\ listener[owner[s]] \in Device
  THEN listener[owner[s]] ELSE NoDevice

Directory == INSTANCE Directory
  WITH Nothing <- NoDevice, present <- Present, shows <- [s \in Serial |-> Shown(s)]

(* Whoever watches the D-Bus names of a serial sees the device with that   *)
(* serial come, while it is plugged in, and go, and never sees them pass   *)
(* from one device to another in one step.                                 *)
IsDirectory == Directory!Spec

(* A device that keeps dying is not started as eagerly as a new one: its   *)
(* attempts are forgotten only after 300 s of life, after the path was     *)
(* gone when a scan listed the paths, or with the manager.                 *)
FlappingBacksOff ==
  [][\A p \in Path :
       failed'[p].attempts < failed[p].attempts =>
         \/ records[p] # NoRecord /\ records[p].stable
         \/ p \notin seen
         \/ pc' = "down"]_vars

\* One device per path and serial is served: by the record, with both of its
\* processes, of the path where it is.
Served(p) ==
  /\ p \in Recorded
  /\ records[p].backend /\ records[p].driver
  /\ listener[records[p].port] = dev[p]
  /\ owner[records[p].serial] = records[p].port
  /\ records[p].serial = SerialOf[dev[p]]

Converged ==
  /\ Recorded \subseteq Plugged
  /\ \A p \in Recorded : Served(p)
  /\ {SerialOf[dev[p]] : p \in Plugged} \ {NoSerial} = ActiveSerials

(* When devices stop being plugged and processes stop failing, the records *)
(* end up as the P18 devices that are plugged in, each served.             *)
EventuallyConverged == <>[]Converged
=============================================================================
