------------------------------ MODULE Topology ------------------------------
(***************************************************************************)
(* The number of parallel chargers: the manager's topology worker, the     *)
(* count it shows in a device's slot, and the count it sends to the driver *)
(* of the device, which divides the charge current by it                   *)
(* (src/mppsolar-manager.py, count_parallel_members() of                   *)
(* src/mppsolar_common.py, src/dbus-mppsolar.py).                          *)
(*                                                                         *)
(* scan(), _apply_topology() and the retries run in one main loop and are  *)
(* one step each.  The worker is a thread, the drivers are processes.      *)
(* Module Hotplug looks inside scan().                                     *)
(***************************************************************************)
EXTENDS Naturals, FiniteSets, Sequences, SequencesExt

CONSTANTS
  Serial,        \* the P18 devices, numbered in the order of their serials
  Port,          \* the ports of the backends
  NoPort,        \* the device has no record
  MaxUnits,      \* BOUND on the units a device lists as parallel
  MaxInbox,      \* BOUND on the calls under way to one driver
  MaxFaults      \* BOUND on what the environment does to the system

ASSUME ConstantsAssumption ==
  /\ Serial \subseteq 1..7      \* MAX_DEVICES
  /\ Port \subseteq Nat
  /\ Cardinality(Port) >= Cardinality(Serial)
  /\ NoPort \notin Port
  /\ MaxUnits \in 1..7          \* the parallel ids that are asked
  /\ {MaxInbox, MaxFaults} \subseteq Nat

VARIABLES
  plugged,       \* the devices there are
  moved,         \* devices with a record that are at another path by now
  wired,         \* [Serial -> units a device lists as existent, 0 if alone]
  records,       \* [Serial -> the port of its record, or NoPort]
  process,       \* [Serial -> its driver]
  chargers,      \* [Serial -> numberOfChargers of its driver]
  inbox,         \* [Serial -> the SetValue calls its driver has not answered]
  counts,        \* self._topology_counts; 0 for a missing entry
  last,          \* self._last_topology
  due,           \* has self._next_topology_refresh come?
  running,       \* self._topology_running
  worker,        \* the worker thread
  retries,       \* pending _retry_topology_publish(serial, count)
  late,          \* HISTORY: drivers only the next refresh will correct
  faults         \* how much of MaxFaults the environment has used

devices == <<plugged, moved, wired>>
drivers == <<process, chargers, inbox>>
manager == <<counts, last, due, running>>
vars == <<devices, records, drivers, manager, worker, retries, late, faults>>

Count == 1..7
Snapshot == [Serial -> Port \cup {NoPort}]
NoSnapshot == [s \in Serial |-> NoPort]
Idle == [pc |-> "idle", snapshot |-> NoSnapshot,
         counts |-> [s \in Serial |-> 0]]

(* The variables have their types, and the flag that keeps a second worker *)
(* from starting is set exactly while there is one.                        *)
TypeOK ==
  /\ plugged \in SUBSET Serial /\ moved \in SUBSET Serial
  /\ wired \in [Serial -> 0..MaxUnits]
  /\ records \in Snapshot
  /\ process \in [Serial -> {"none", "starting", "up"}]
  /\ chargers \in [Serial -> Count]
  /\ inbox \in [Serial -> Seq(Count)]
  /\ \A s \in Serial : Len(inbox[s]) <= MaxInbox /\ (inbox[s] # <<>> => process[s] = "up")
  /\ counts \in [Serial -> Count \cup {0}]
  /\ last \in SUBSET Serial
  /\ {due, running} \subseteq BOOLEAN
  /\ worker \in [pc : {"idle", "asking", "failed"}, snapshot : Snapshot,
                 counts : [Serial -> Count \cup {0}]]
  /\ running <=> worker.pc # "idle"
  /\ retries \subseteq Serial \X Count
  /\ late \in SUBSET Serial
  /\ faults \in 0..MaxFaults

------------------------------------------------------------------------------
RecordsOf(snapshot) == {s \in Serial : snapshot[s] # NoPort}
Recorded == RecordsOf(records)

Fault == faults < MaxFaults /\ faults' = faults + 1

\* The number of active P18 devices
Fallback(S) == IF S = {} THEN 1 ELSE Cardinality(S)

\* count_parallel_members(): n serials in the answers
Members(n, fallback) == IF n = 0 THEN fallback ELSE n

\* /Devices/<i>/NumberOfChargers, which _update_service() writes at the end
\* of whatever changes records or counts
Slot(s) == IF counts[s] = 0 THEN Fallback(Recorded) ELSE counts[s]

\* Mutant: a call that failed is only logged.
NotRetried(R) == retries' = retries

\* _topology_publish_failed()
Retried(R) == retries' = retries \cup R

\* Mutant: a driver that was started is taken to have its D-Bus name.
Started(s) == process[s] # "none"

\* A call to driver s gets there if the driver has its name.
Reaches(s) == process[s] = "up"
Send(s, c) == IF Reaches(s) THEN Append(inbox[s], c) ELSE inbox[s]
Room(s) == Reaches(s) => Len(inbox[s]) < MaxInbox

------------------------------------------------------------------------------
(* The manager                                                             *)

\* Records scan() keeps: the path is there and the processes are alive.
Kept == {s \in Recorded : s \in plugged \ moved /\ process[s] # "none"}

\* The devices scan() can start.  One that exited waits at least a second,
\* which has passed if another record took its time to be stopped.
Startable ==
  (plugged \ Kept)
    \ {s \in Recorded \cap plugged : s \notin moved /\ Recorded \ Kept = {s}}

\* _free_port() for the devices of S, in the order of their paths
PortsOf(S) ==
  LET free == Port \ {records[s] : s \in Kept}
      least == {p \in free : Cardinality({q \in free : q < p}) < Cardinality(S)}
  IN {f \in [S -> least] : \A s, t \in S : f[s] = f[t] => s = t}

\* The early returns of _schedule_topology_refresh()
NotNeeded(set) == running \/ (set = last /\ ~due)

Schedule(rs) ==
  LET set == RecordsOf(rs) IN
  \/ /\ set = {}
     /\ counts' = [s \in Serial |-> 0] /\ last' = {} /\ due' = FALSE
     /\ UNCHANGED <<running, worker>>
  \/ /\ set # {} /\ NotNeeded(set)
     /\ UNCHANGED <<manager, worker>>
  \/ /\ set # {} /\ ~NotNeeded(set)
     /\ running' = TRUE
     /\ worker' = [Idle EXCEPT !.pc = "asking", !.snapshot = rs]
     /\ UNCHANGED <<counts, last, due>>

\* A start that fails, or that the backoff delays, is a fault.  Calls to a
\* driver that is stopped fail.  What leaves scan() as an exception ends the
\* scans or the manager, which is for module Hotplug.
Scan ==
  /\ moved' = {}
  /\ UNCHANGED <<plugged, wired>>
  /\ \E S \in SUBSET Startable :
    /\ IF (plugged \ Recorded) \cup moved \subseteq S THEN UNCHANGED faults ELSE Fault
    /\ \E f \in PortsOf(S) :
         LET rs == [s \in Serial |-> IF s \in S THEN f[s]
                                     ELSE IF s \in Kept THEN records[s] ELSE NoPort]
         IN records' = rs /\ Schedule(rs)
    /\ process' = [s \in Serial |-> IF s \in S THEN "starting"
                                    ELSE IF s \in Kept THEN process[s] ELSE "none"]
    /\ inbox' = [s \in Serial |-> IF s \in Kept THEN inbox[s] ELSE <<>>]
    /\ Retried(UNION {{s} \X ToSet(inbox[s]) : s \in Serial \ Kept})
    /\ chargers' = [s \in Serial |-> IF s \in Kept THEN chargers[s] ELSE 1]
    /\ late' = (late \cap Kept) \cup (S \cap Recorded)

\* Snapshot entries the worker has no count for yet
Unasked == {s \in RecordsOf(worker.snapshot) : worker.counts[s] = 0}

\* Mutant: a worker that failed does not come back to the main loop.
Succeeded == worker.pc = "asking" /\ Unasked = {}

\* GLib.idle_add(self._apply_topology, ...) of the worker
Finished == worker.pc = "failed" \/ (worker.pc = "asking" /\ Unasked = {})

\* What the worker brought, with the next refresh 60 s away
TakeCounts ==
  /\ counts' = [s \in Serial |->
                  IF s \notin Recorded THEN 0
                  ELSE IF worker.counts[s] = 0 THEN Fallback(Recorded)
                  ELSE worker.counts[s]]
  /\ last' = Recorded
  /\ due' = FALSE

Apply ==
  /\ Finished
  /\ running' = FALSE
  /\ worker' = Idle
  /\ IF Recorded = RecordsOf(worker.snapshot)
     THEN /\ \A s \in Recorded : Room(s)
          /\ TakeCounts
          /\ inbox' = [s \in Serial |->
                         IF s \in Recorded THEN Send(s, counts'[s]) ELSE inbox[s]]
          /\ Retried({<<s, counts'[s]>> : s \in {r \in Recorded : ~Reaches(r)}})
          /\ late' = {}
     ELSE /\ due' = TRUE
          /\ UNCHANGED <<counts, last, inbox, retries, late>>
  /\ UNCHANGED <<devices, records, process, chargers, faults>>

\* save_manifest() raises at the end of _update_service(): the slots show the
\* counts, and nothing is published before the next refresh.
ApplyRaises ==
  /\ Fault
  /\ Finished
  /\ Recorded = RecordsOf(worker.snapshot)
  /\ running' = FALSE
  /\ worker' = Idle
  /\ TakeCounts
  /\ late' = late \cup Recorded
  /\ UNCHANGED <<devices, records, drivers, retries>>

\* _retry_topology_publish(), five seconds later: the count it was given
Retry(s, c) ==
  /\ <<s, c>> \in retries
  /\ s \in Recorded => Room(s)
  /\ IF s \in Recorded /\ ~Reaches(s)
     THEN UNCHANGED retries
     ELSE retries' = retries \ {<<s, c>>}
  /\ inbox' = IF s \in Recorded THEN [inbox EXCEPT ![s] = Send(s, c)] ELSE inbox
  /\ late' = IF s \in Recorded /\ c # Slot(s) THEN late \cup {s} ELSE late
  /\ UNCHANGED <<devices, records, process, chargers, manager, worker, faults>>

\* SetValue(timeout=5): the driver is busy with a poll and answers later.
TimesOut(s) ==
  /\ Fault
  /\ inbox[s] # <<>>
  /\ Retried({<<s, Head(inbox[s])>>})
  /\ UNCHANGED <<devices, records, drivers, manager, worker, late>>

\* TOPOLOGY_INTERVAL, 60 s; while a worker runs it makes no difference.
RefreshDue ==
  /\ ~due /\ ~running /\ last # {}
  /\ due' = TRUE
  /\ UNCHANGED <<devices, records, drivers, counts, last, running, worker,
                 retries, late, faults>>

------------------------------------------------------------------------------
(* The worker thread                                                       *)

\* The units the device behind a port lists; none if nothing answers there
Listed(p) ==
  LET t == {s \in plugged \ moved : records[s] = p}
  IN IF t = {} THEN 0 ELSE wired[CHOOSE s \in t : TRUE]

\* get-p-rated 0..6 through the port of the snapshot; an id that does not
\* answer is left out.
Ask ==
  /\ worker.pc = "asking" /\ Unasked # {}
  /\ LET s == CHOOSE x \in Unasked : \A y \in Unasked : x <= y
         full == Listed(worker.snapshot[s])
     IN \E n \in 0..full :
          /\ IF n < full THEN Fault ELSE UNCHANGED faults
          /\ worker' = [worker EXCEPT !.counts[s] =
                          Members(n, Fallback(RecordsOf(worker.snapshot)))]
  /\ UNCHANGED <<devices, records, drivers, manager, retries, late>>

\* What is raised leaves the manager with no counts.
WorkerFails ==
  /\ Fault
  /\ worker.pc = "asking"
  /\ worker' = [Idle EXCEPT !.pc = "failed", !.snapshot = worker.snapshot]
  /\ UNCHANGED <<devices, records, drivers, manager, retries, late>>

------------------------------------------------------------------------------
(* The drivers                                                             *)

Register(s) ==
  /\ process[s] = "starting"
  /\ process' = [process EXCEPT ![s] = "up"]
  /\ UNCHANGED <<devices, records, chargers, inbox, manager, worker, retries,
                 late, faults>>

\* _change_number_of_chargers(); no count here is outside 1..7.
Deliver(s) ==
  /\ inbox[s] # <<>>
  /\ chargers' = [chargers EXCEPT ![s] = Head(inbox[s])]
  /\ inbox' = [inbox EXCEPT ![s] = Tail(@)]
  /\ UNCHANGED <<devices, records, process, manager, worker, retries, late, faults>>

\* The driver or its backend ends; calls it has not answered fail.
Exit(s) ==
  /\ Fault
  /\ process[s] # "none"
  /\ process' = [process EXCEPT ![s] = "none"]
  /\ chargers' = [chargers EXCEPT ![s] = 1]
  /\ inbox' = [inbox EXCEPT ![s] = <<>>]
  /\ Retried({s} \X ToSet(inbox[s]))
  /\ UNCHANGED <<devices, records, manager, worker, late>>

------------------------------------------------------------------------------
(* The devices                                                             *)

Unplug(s) ==
  /\ Fault
  /\ s \in plugged
  /\ plugged' = plugged \ {s}
  /\ moved' = moved \ {s}
  /\ UNCHANGED <<wired, records, drivers, manager, worker, retries, late>>

\* At a path of its own; at the path its record still has, see Exit.
Plug(s) ==
  /\ Fault
  /\ s \notin plugged
  /\ plugged' = plugged \cup {s}
  /\ moved' = IF s \in Recorded THEN moved \cup {s} ELSE moved
  /\ UNCHANGED <<wired, records, drivers, manager, worker, retries, late>>

Rewire(s, n) ==
  /\ Fault
  /\ wired[s] # n
  /\ wired' = [wired EXCEPT ![s] = n]
  /\ UNCHANGED <<plugged, moved, records, drivers, manager, worker, retries, late>>

------------------------------------------------------------------------------
Init ==
  /\ plugged \in SUBSET Serial
  /\ moved = {}
  /\ wired \in [Serial -> 0..MaxUnits]
  /\ records = NoSnapshot
  /\ process = [s \in Serial |-> "none"]
  /\ chargers = [s \in Serial |-> 1]
  /\ inbox = [s \in Serial |-> <<>>]
  /\ counts = [s \in Serial |-> 0]
  /\ last = {}
  /\ due = TRUE
  /\ running = FALSE
  /\ worker = Idle
  /\ retries = {}
  /\ late = {}
  /\ faults = 0

Driver(s) == Register(s) \/ Deliver(s)

Retries(s) == \E r \in retries : r[1] = s /\ Retry(s, r[2])

Next ==
  \/ Scan \/ Apply \/ ApplyRaises \/ RefreshDue \/ Ask \/ WorkerFails
  \/ \E s \in Serial :
       \/ Driver(s) \/ Retries(s) \/ TimesOut(s) \/ Exit(s) \/ Unplug(s) \/ Plug(s)
       \/ \E n \in 0..MaxUnits : Rewire(s, n)

Spec == Init /\ [][Next]_vars

(* Timers fire, the worker's calls end, drivers register and read their    *)
(* messages; nothing else has to happen.                                   *)
Fairness ==
  /\ WF_vars(Scan) /\ WF_vars(Apply) /\ WF_vars(RefreshDue) /\ WF_vars(Ask)
  /\ \A s \in Serial : WF_vars(Driver(s)) /\ WF_vars(Retries(s))

FairSpec == Spec /\ Fairness

------------------------------------------------------------------------------
(* Properties                                                              *)

\* Something will still be done about the counts of all devices, or of s.
Pending(s) ==
  \/ running \/ due \/ Recorded # last
  \/ inbox[s] # <<>>
  \/ \E c \in Count : <<s, c>> \in retries

(* A driver divides by another count than the slot shows only while        *)
(* something is under way that will tell it, or until the 60 s refresh if  *)
(* it was replaced within one scan, a late retry brought an old count, or  *)
(* the manifest could not be saved when the counts were applied.           *)
(* verify-runtime.py:201-204 compares the two.                             *)
Agree ==
  \A s \in Recorded :
    process[s] = "up" /\ chargers[s] # Slot(s) => Pending(s) \/ s \in late

(* When devices and processes stop failing, every driver and every slot    *)
(* end up with the count the devices tell: their own list of parallel      *)
(* units, or the number of active P18 devices.                             *)
EventuallyAgree ==
  <>[](\A s \in plugged :
         /\ process[s] = "up"
         /\ chargers[s] = Slot(s)
         /\ Slot(s) = Members(wired[s], Fallback(plugged)))
=============================================================================
