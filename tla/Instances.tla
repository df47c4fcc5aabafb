------------------------------ MODULE Instances ------------------------------
(***************************************************************************)
(* The Device Instance of each P18 device: what localsettings stores, what *)
(* the manager's manifest remembers, what a driver allocates when it       *)
(* starts, and the three ways a user changes it: through the driver, in    *)
(* the manager's slot, or in localsettings (src/dbus-mppsolar.py,          *)
(* src/mppsolar-manager.py, allocate_instance() of                         *)
(* src/mppsolar_common.py).                                                *)
(*                                                                         *)
(* A step is what one process does between two D-Bus calls others can      *)
(* notice; scan() is one step per record here.  localsettings tells the    *)
(* driver of a change by a signal, which the driver handles later.         *)
(***************************************************************************)
EXTENDS Naturals, FiniteSets, Sequences

CONSTANTS
  Serial,        \* the P18 devices
  MaxInstance,   \* 255: instances are 1..MaxInstance, and 0 is none
  MaxFaults      \* BOUND on what users and the environment do

ASSUME ConstantsAssumption ==
  /\ IsFiniteSet(Serial)
  /\ MaxInstance \in Nat /\ MaxInstance >= 2 * Cardinality(Serial) - 1
  /\ MaxFaults \in Nat

VARIABLES
  setting,       \* [Serial -> /Settings/Devices/mppsolar_<serial>/DeviceInstance]
  manifest,      \* [Serial -> device_instance in devices.json]
  recorded,      \* the serials of self.records
  pc,            \* [Serial -> where its driver is]
  inst,          \* [Serial -> /DeviceInstance of its two services]
  seen,          \* [Serial -> the value its SettingsDevice last knew]
  signals,       \* [Serial -> changes localsettings told it, not handled yet]
  idles,         \* [Serial -> GLib.idle_add: a value to restore, or Quit]
  crowd,         \* HISTORY: a driver started without seeing all the others
  faults         \* how much of MaxFaults has been used

drivers == <<pc, inst, seen, signals, idles>>
vars == <<setting, manifest, recorded, drivers, crowd, faults>>

Instance == 1..MaxInstance
None == 0
Quit == 0

(* The variables have their types; a driver without a record does not run, *)
(* and one that does not run has nothing to handle.                        *)
TypeOK ==
  /\ setting \in [Serial -> Instance \cup {None}]
  /\ manifest \in [Serial -> Instance \cup {None}]
  /\ recorded \in SUBSET Serial
  /\ pc \in [Serial -> {"none", "started", "checked", "ready"}]
  /\ inst \in [Serial -> Instance \cup {None}]
  /\ seen \in [Serial -> Instance \cup {None}]
  /\ signals \in [Serial -> Seq(Instance)]
  /\ idles \in [Serial -> Seq(Instance \cup {Quit})]
  /\ crowd \in BOOLEAN
  /\ faults \in 0..MaxFaults
  /\ \A s \in Serial :
       /\ pc[s] # "none" => s \in recorded /\ manifest[s] # None
       /\ pc[s] \in {"checked", "ready"} <=> inst[s] # None
       /\ pc[s] \in {"none", "started"} => signals[s] = <<>>
       /\ pc[s] # "ready" => idles[s] = <<>>

------------------------------------------------------------------------------
Fault == faults < MaxFaults /\ faults' = faults + 1

Least(S) == CHOOSE x \in S : \A y \in S : x <= y

\* allocate_instance()
Allocate(used, preferred) ==
  IF preferred \in Instance \ used THEN preferred ELSE Least(Instance \ used)

\* A driver shows its instance from register() until its process ends.
Registered == {s \in Serial : pc[s] = "ready"}

\* Mutant: the driver does not leave out its own names.
BusWithSelf(s) == {inst[t] : t \in Registered}

\* _used_device_instances() of the driver, when every service answers
Bus(s) == {inst[t] : t \in Registered \ {s}}

\* What it returns: a service that does not answer in time ends the loop.
Enumerated(s, used) ==
  \/ used = Bus(s) /\ UNCHANGED faults
  \/ used # Bus(s) /\ Fault

\* _used_device_instances() of the manager.  One that misses a service lets
\* a write through as if it were a DirectWrite.
ManagerUsed(S) ==
  ({manifest[t] : t \in Serial \ S} \ {None}) \cup {inst[t] : t \in Registered \ S}

\* localsettings takes a value and tells the driver, if it listens, that it
\* changed.
Store(s, v) ==
  /\ setting' = [setting EXCEPT ![s] = v]
  /\ signals' = IF v # setting[s] /\ pc[s] \in {"checked", "ready"}
                THEN [signals EXCEPT ![s] = Append(@, v)] ELSE signals

\* The process of driver s ends.
End(s) ==
  /\ pc' = [pc EXCEPT ![s] = "none"]
  /\ inst' = [inst EXCEPT ![s] = None]
  /\ seen' = [seen EXCEPT ![s] = None]
  /\ signals' = [signals EXCEPT ![s] = <<>>]
  /\ idles' = [idles EXCEPT ![s] = <<>>]

------------------------------------------------------------------------------
(* The manager                                                             *)

\* Mutant: a device is started without its entry.
NotEnsured(s) == manifest[s]

\* _ensure_manifest_entry()
Ensured(s) ==
  IF manifest[s] = None THEN Allocate(ManagerUsed({}), setting[s]) ELSE manifest[s]

\* _start_device()
Start(s) ==
  /\ s \notin recorded
  /\ recorded' = recorded \cup {s}
  /\ manifest' = [manifest EXCEPT ![s] = Ensured(s)]
  /\ pc' = [pc EXCEPT ![s] = "started"]
  /\ UNCHANGED <<setting, inst, seen, signals, idles, crowd, faults>>

\* The record of a driver that exited is dropped; so is, with its driver,
\* that of a device that was removed, which comes back some day.
Sweep(s) ==
  /\ s \in recorded
  /\ IF pc[s] = "none" THEN UNCHANGED faults ELSE Fault
  /\ recorded' = recorded \ {s}
  /\ End(s)
  /\ UNCHANGED <<setting, manifest, crowd>>

\* _update_service() at the end of a scan
CopySettings ==
  /\ manifest' = [s \in Serial |->
                    IF s \in recorded /\ setting[s] # None THEN setting[s]
                    ELSE manifest[s]]
  /\ UNCHANGED <<setting, recorded, drivers, crowd, faults>>

\* _slot_writer(): a value other than the present one must not be used.
SlotWrite(s, v) ==
  /\ Fault
  /\ s \in recorded /\ setting[s] # None
  /\ v = setting[s] \/ v \notin ManagerUsed({s})
  /\ Store(s, v)
  /\ UNCHANGED <<manifest, recorded, pc, inst, seen, idles, crowd>>

------------------------------------------------------------------------------
(* The driver                                                              *)

\* Mutant: the stored value is used as it is.
StoredInstance(used, stored) == stored

\* Another one is taken if a service has the stored value.
Chosen(used, stored) == IF stored \in used THEN Allocate(used, None) ELSE stored

\* __init__() up to the services: a stored setting wins over the manifest.
\* The signal of the driver's own write is handled after registration.
Check(s) ==
  /\ pc[s] = "started"
  /\ \E used \in SUBSET Bus(s) :
       /\ Enumerated(s, used)
       /\ crowd' = (crowd \/ used # Bus(s) \/ \E t \in Serial \ {s} : pc[t] = "checked")
       /\ LET stored == IF setting[s] = None THEN Allocate(used, manifest[s])
                        ELSE setting[s]
              chosen == Chosen(used, stored)
          IN /\ setting' = [setting EXCEPT ![s] = chosen]
             /\ inst' = [inst EXCEPT ![s] = chosen]
             /\ seen' = [seen EXCEPT ![s] = stored]
             /\ signals' = [signals EXCEPT ![s] =
                              IF chosen = stored THEN <<>> ELSE <<chosen>>]
  /\ pc' = [pc EXCEPT ![s] = "checked"]
  /\ UNCHANGED <<manifest, recorded, idles>>

Register(s) ==
  /\ pc[s] = "checked"
  /\ pc' = [pc EXCEPT ![s] = "ready"]
  /\ UNCHANGED <<setting, manifest, recorded, inst, seen, signals, idles, crowd, faults>>

\* Mutant: a conflicting value is only logged.
NotRestored(s, old) == UNCHANGED idles

\* GLib.idle_add(self._restore_device_instance, oldvalue)
Restored(s, old) == idles' = [idles EXCEPT ![s] = Append(@, old)]

\* _setting_changed('device_instance', seen, new)
Changed(s) ==
  /\ pc[s] = "ready" /\ signals[s] # <<>>
  /\ LET new == Head(signals[s]) IN
       /\ seen' = [seen EXCEPT ![s] = new]
       /\ \E used \in SUBSET Bus(s) :
            /\ Enumerated(s, used)
            /\ IF new \notin used
               THEN idles' = [idles EXCEPT ![s] = Append(@, Quit)]
               ELSE IF seen[s] # new THEN Restored(s, seen[s]) ELSE UNCHANGED idles
  /\ signals' = [signals EXCEPT ![s] = Tail(@)]
  /\ UNCHANGED <<setting, manifest, recorded, pc, inst, crowd>>

\* _restore_device_instance() or the mainloop.quit() of _request_restart()
RunIdle(s) ==
  /\ idles[s] # <<>>
  /\ IF Head(idles[s]) = Quit
     THEN End(s) /\ UNCHANGED setting
     ELSE /\ Store(s, Head(idles[s]))
          /\ idles' = [idles EXCEPT ![s] = Tail(@)]
          /\ UNCHANGED <<pc, inst, seen>>
  /\ UNCHANGED <<manifest, recorded, crowd, faults>>

\* _change_device_instance()
DriverWrite(s, v) ==
  /\ Fault
  /\ pc[s] = "ready"
  /\ v # seen[s] /\ v \notin Bus(s)
  /\ Store(s, v)
  /\ UNCHANGED <<manifest, recorded, pc, inst, seen, idles, crowd>>

\* A driver that fails
Exit(s) ==
  /\ Fault
  /\ pc[s] # "none"
  /\ End(s)
  /\ UNCHANGED <<setting, manifest, recorded, crowd>>

\* A user or another program writes the setting itself: nothing checks it.
DirectWrite(s, v) ==
  /\ Fault
  /\ setting[s] # None
  /\ Store(s, v)
  /\ UNCHANGED <<manifest, recorded, pc, inst, seen, idles, crowd>>

------------------------------------------------------------------------------
\* Settings and manifest as any earlier installation left them
Init ==
  /\ setting \in [Serial -> Instance \cup {None}]
  /\ manifest \in [Serial -> Instance \cup {None}]
  /\ recorded = {}
  /\ pc = [s \in Serial |-> "none"]
  /\ inst = [s \in Serial |-> None]
  /\ seen = [s \in Serial |-> None]
  /\ signals = [s \in Serial |-> <<>>]
  /\ idles = [s \in Serial |-> <<>>]
  /\ crowd = FALSE
  /\ faults = 0

Manager(s) == Start(s) \/ Sweep(s)

Driver(s) == Check(s) \/ Register(s) \/ Changed(s)

Next ==
  \/ CopySettings
  \/ \E s \in Serial :
       \/ Manager(s) \/ Driver(s) \/ RunIdle(s) \/ Exit(s)
       \/ \E v \in Instance : SlotWrite(s, v) \/ DriverWrite(s, v) \/ DirectWrite(s, v)

Spec == Init /\ [][Next]_vars

(* The manager scans, and each driver's main loop handles what it gets.    *)
Fairness ==
  /\ WF_vars(CopySettings)
  /\ \A s \in Serial : WF_vars(Start(s)) /\ WF_vars(Sweep(s) /\ pc[s] = "none")
                       /\ WF_vars(Driver(s)) /\ WF_vars(RunIdle(s))

FairSpec == Spec /\ Fairness

------------------------------------------------------------------------------
(* Properties                                                              *)

(* Two registered drivers never have one Device Instance, whatever users   *)
(* write where and whatever the settings and the manifest said at first,   *)
(* unless a driver started while another was between its check and its     *)
(* registration, or could not read them all: README.md has a conflicting   *)
(* Device Instance rejected.                                               *)
Distinct ==
  crowd \/ \A s, t \in Registered : inst[s] = inst[t] => s = t

(* A driver with nothing left to handle shows the instance localsettings   *)
(* has stored, also after a value it refused: verify-runtime.py:194.       *)
Persisted ==
  \A s \in Registered : signals[s] = <<>> /\ idles[s] = <<>> => inst[s] = setting[s]

(* Changes, restores and restarts come to an end: without new writes and   *)
(* failures every driver runs, and service, setting and manifest agree.    *)
Settles ==
  <>[](\/ crowd
       \/ \A s \in Serial : /\ pc[s] = "ready"
                            /\ signals[s] = <<>> /\ idles[s] = <<>>
                            /\ inst[s] = setting[s] /\ setting[s] = manifest[s])
=============================================================================
