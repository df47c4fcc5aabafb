------------------------------- MODULE Driver --------------------------------
(***************************************************************************)
(* The driver of one inverter, src/dbus-mppsolar.py: its polling cycle.    *)
(*                                                                         *)
(* The timer's _update() reads the battery's charge voltage and starts a   *)
(* worker thread; the worker reads the inverter and may write the voltage; *)
(* an idle callback in the main thread publishes what was read.  Three     *)
(* failed cycles in a row end the process, and the manager starts another. *)
(*                                                                         *)
(* The five reads are three steps here: the measurements (generated, data, *)
(* rated), the mode and the alerts, because the inverter may change        *)
(* between the last two and an answer without data has another effect in   *)
(* each.                                                                   *)
(***************************************************************************)
EXTENDS Naturals, FiniteSets

CONSTANTS
  Thread,        \* names for the worker threads
  Voltage,       \* charge voltages, as normalize_charge_voltage() rounds them
  NoVoltage,     \* missing, not finite, or not to be written
  Mode,          \* answers to get-mode: "Battery mode", "Fault mode", others
  Battery,       \* "Battery mode"
  FaultMode,     \* "Fault mode"
  Alerts,        \* answers to get-errors
  NoData,        \* an answer without data, or with incomplete data
  MaxFaults      \* BOUND on what the environment does to the driver

ASSUME ConstantsAssumption ==
  /\ NoVoltage \notin Voltage
  /\ {Battery, FaultMode} \subseteq Mode
  /\ Battery # FaultMode
  /\ Alerts \subseteq [fault: Nat, active: BOOLEAN]
  /\ NoData \notin Mode \cup Alerts
  /\ MaxFaults \in Nat

VARIABLES
  bms,           \* /Info/MaxChargeVoltage of the battery service
  inverter,      \* the inverter: charge voltage, mode and alerts it has
  backend,       \* does inverterd answer?
  phase,         \* of the driver process
  inProgress,    \* _poll_in_progress
  worker,        \* [Thread -> its cycle]
  last,          \* _last_charge_voltage
  errors,        \* _consecutive_errors
  dbus,          \* what the two services publish
  ackLost,       \* HISTORY: has the inverter obeyed a write whose answer was lost?
  faults         \* how much of MaxFaults the environment has used

vars == <<bms, inverter, backend, phase, inProgress, worker, last, errors, dbus, ackLost, faults>>

Cycle == [pc: {"none", "begin", "mode", "alerts", "write", "done", "failed"},
          voltage: Voltage \cup {NoVoltage},     \* asked for, then written
          measured: BOOLEAN,
          mode: Mode \cup {NoData},
          alerts: Alerts \cup {NoData}]

NoCycle == [pc |-> "none", voltage |-> NoVoltage, measured |-> FALSE,
            mode |-> NoData, alerts |-> NoData]

\* /State, FaultCode, AlertDataValid and one of the alarms
Published == [state: {0, 2, 9}, fault: Nat, valid: {0, 1}, alarm: 0..2]

AtStart == [state |-> 0, fault |-> 0, valid |-> 0, alarm |-> 0]

(* The variables have their types, and a driver that counted three         *)
(* failures does not go on.                                                *)
TypeOK ==
  /\ bms \in Voltage \cup {NoVoltage}
  /\ inverter \in [voltage: Voltage \cup {NoVoltage}, mode: Mode, alerts: Alerts]
  /\ backend \in BOOLEAN
  /\ phase \in {"running", "stopping", "gone"}
  /\ inProgress \in BOOLEAN
  /\ worker \in [Thread -> Cycle]
  /\ last \in Voltage \cup {NoVoltage}
  /\ errors \in 0..3
  /\ errors = 3 => phase # "running"
  /\ dbus \in Published
  /\ ackLost \in BOOLEAN
  /\ faults \in 0..MaxFaults

------------------------------------------------------------------------------
Fault == faults < MaxFaults /\ faults' = faults + 1
NoFault == UNCHANGED faults

Busy == {t \in Thread : worker[t].pc # "none"}

\* Mutant: only the first request is ever written.
ChangedOnce(previous, requested) ==
  IF previous = NoVoltage THEN requested ELSE NoVoltage

\* changed_charge_voltage()
Changed(previous, requested) ==
  IF requested = previous THEN NoVoltage ELSE requested

------------------------------------------------------------------------------
(* _update(): a tick is skipped while a cycle is in progress.              *)

\* Mutant: a tick never is.
AlwaysFree == TRUE

PollFree == ~inProgress

Tick(t) ==
  /\ phase = "running"
  /\ PollFree
  /\ worker[t].pc = "none"
  /\ inProgress' = TRUE
  /\ \E v \in {bms, NoVoltage} :          \* the battery may not be readable
       /\ IF v = bms THEN NoFault ELSE Fault
       /\ worker' = [worker EXCEPT ![t] =
                       [NoCycle EXCEPT !.pc = "begin", !.voltage = v]]
  /\ UNCHANGED <<bms, inverter, backend, phase, last, errors, dbus, ackLost>>

------------------------------------------------------------------------------
(* _read_PI18() in the worker thread.  A read raises when both attempts    *)
(* fail, and returns without data when inverterd answers with an error.    *)

Alive(t) == phase # "gone" /\ worker[t].pc # "none"

ReadRaises(t) ==
  /\ Alive(t) /\ worker[t].pc \in {"begin", "mode", "alerts"}
  /\ IF backend THEN Fault ELSE NoFault
  /\ worker' = [worker EXCEPT ![t] = [NoCycle EXCEPT !.pc = "failed"]]
  /\ UNCHANGED <<bms, inverter, backend, phase, inProgress, last, errors, dbus, ackLost>>

ReadMeasurements(t) ==
  /\ Alive(t) /\ worker[t].pc = "begin"
  /\ backend
  /\ \E ok \in BOOLEAN :
       /\ IF ok THEN NoFault ELSE Fault
       /\ worker' = [worker EXCEPT ![t].pc = "mode",
                                   ![t].voltage = Changed(last, @),
                                   ![t].measured = ok]
  /\ UNCHANGED <<bms, inverter, backend, phase, inProgress, last, errors, dbus, ackLost>>

ReadMode(t) ==
  /\ Alive(t) /\ worker[t].pc = "mode"
  /\ backend
  /\ \E answer \in {inverter.mode, NoData} :
       /\ IF answer = NoData THEN Fault ELSE NoFault
       /\ worker' = [worker EXCEPT ![t].pc = "alerts", ![t].mode = answer]
  /\ UNCHANGED <<bms, inverter, backend, phase, inProgress, last, errors, dbus, ackLost>>

ReadAlerts(t) ==
  /\ Alive(t) /\ worker[t].pc = "alerts"
  /\ backend
  /\ \E answer \in {inverter.alerts, NoData} :
       /\ IF answer = NoData THEN Fault ELSE NoFault
       /\ worker' = [worker EXCEPT ![t].pc = "write", ![t].alerts = answer]
  /\ UNCHANGED <<bms, inverter, backend, phase, inProgress, last, errors, dbus, ackLost>>

\* Mutant: the except block answers TRUE, as those of the currents do.
ReportedAnyway(voltage, ok) == voltage

\* charge_voltage_written
Reported(voltage, ok) == IF ok THEN voltage ELSE NoVoltage

\* setMaxChargingVoltage(), when there is something to write
Write(t) ==
  /\ Alive(t) /\ worker[t].pc = "write"
  /\ LET v == worker[t].voltage IN
     \E obeyed, answered \in BOOLEAN :
       /\ IF v = NoVoltage THEN obeyed /\ answered
          ELSE IF backend THEN obeyed \/ ~answered ELSE ~obeyed /\ ~answered
       /\ ackLost' = (ackLost \/ (obeyed /\ ~answered))
       /\ IF backend /\ ~answered THEN Fault ELSE NoFault
       /\ inverter' = IF obeyed /\ v # NoVoltage
                      THEN [inverter EXCEPT !.voltage = v] ELSE inverter
       /\ worker' = [worker EXCEPT ![t].pc = "done",
                                   ![t].voltage = Reported(v, answered)]
  /\ UNCHANGED <<bms, backend, phase, inProgress, last, errors, dbus>>

------------------------------------------------------------------------------
(* The idle callbacks in the main thread.                                  *)

\* '/State' from the mode; the default for an answer without data is the
\* number '/State' has, which is no mode.
StateOfMode(mode) ==
  CASE mode = Battery   -> 9
    [] mode = FaultMode -> 2
    [] OTHER            -> 0

Severity(mode, alerts) ==
  IF ~alerts.active THEN 0
  ELSE IF mode = FaultMode \/ alerts.fault # 0 THEN 2 ELSE 1

\* Mutant: '/State' stays as the mode says.
ModeAlone(state, alerts) == state

\* A fault code overrides the mode.
StateOf(state, alerts) == IF alerts.fault # 0 THEN 2 ELSE state

\* Mutant: alerts that cannot be read clear the alarms.
ClearAlarms(d, c) ==
  IF c.alerts = NoData THEN [d EXCEPT !.valid = 0, !.alarm = 0]
  ELSE [state |-> StateOf(d.state, c.alerts), fault |-> c.alerts.fault,
        valid |-> 1, alarm |-> Severity(c.mode, c.alerts)]

\* Alerts that cannot be read leave everything but AlertDataValid alone.
PublishAlerts(d, c) ==
  IF c.alerts = NoData THEN [d EXCEPT !.valid = 0]
  ELSE [state |-> StateOf(d.state, c.alerts), fault |-> c.alerts.fault,
        valid |-> 1, alarm |-> Severity(c.mode, c.alerts)]

\* Mutant: the process goes on after the third failure.
CountTwice ==
  /\ errors' = errors + 1
  /\ phase' = IF errors + 1 > 3 THEN "stopping" ELSE "running"

\* _poll_failed() counts, and ends the process at the third in a row.
CountFailure ==
  /\ errors' = errors + 1
  /\ phase' = IF errors + 1 >= 3 THEN "stopping" ELSE "running"

\* Mutant: a failure leaves the flag set.
ReleaseOnSuccess(c) == inProgress' = (c.pc = "failed")

\* Both callbacks, whatever the outcome
Release(c) == inProgress' = FALSE

\* _apply_PI18(): the voltage and the state are published first; missing
\* measurements then raise, and the alerts are not looked at.
PollSucceeded(t) ==
  /\ phase = "running" /\ worker[t].pc = "done"
  /\ LET c == worker[t]
         d == [dbus EXCEPT !.state = StateOfMode(c.mode)]
     IN /\ last' = IF c.voltage = NoVoltage THEN last ELSE c.voltage
        /\ IF c.measured
           THEN /\ dbus' = PublishAlerts(d, c)
                /\ errors' = 0
                /\ UNCHANGED phase
           ELSE dbus' = d /\ CountFailure
        /\ Release(c)
  /\ worker' = [worker EXCEPT ![t] = NoCycle]
  /\ UNCHANGED <<bms, inverter, backend, ackLost, faults>>

PollFailed(t) ==
  /\ phase = "running" /\ worker[t].pc = "failed"
  /\ CountFailure
  /\ Release(worker[t])
  /\ worker' = [worker EXCEPT ![t] = NoCycle]
  /\ UNCHANGED <<bms, inverter, backend, last, dbus, ackLost, faults>>

------------------------------------------------------------------------------
(* The process: the main loop may be quit at any time by a signal, a new   *)
(* Device Instance or /Settings/Reset; worker threads go on until the      *)
(* interpreter exits.                                                      *)

Quit ==
  /\ phase = "running"
  /\ Fault
  /\ phase' = "stopping"
  /\ UNCHANGED <<bms, inverter, backend, inProgress, worker, last, errors, dbus, ackLost>>

Exit ==
  /\ phase = "stopping"
  /\ phase' = "gone"
  /\ worker' = [t \in Thread |-> NoCycle]
  /\ UNCHANGED <<bms, inverter, backend, inProgress, last, errors, dbus, ackLost, faults>>

\* The manager starts a backend and a driver.
Start ==
  /\ phase = "gone"
  /\ phase' = "running"
  /\ backend' = TRUE
  /\ inProgress' = FALSE
  /\ last' = NoVoltage
  /\ errors' = 0
  /\ dbus' = AtStart
  /\ UNCHANGED <<bms, inverter, worker, ackLost, faults>>

BackendDies ==
  /\ backend
  /\ Fault
  /\ backend' = FALSE
  /\ UNCHANGED <<bms, inverter, phase, inProgress, worker, last, errors, dbus, ackLost>>

\* The battery asks for another voltage.
BmsChanges(v) ==
  /\ bms # v
  /\ Fault
  /\ bms' = v
  /\ UNCHANGED <<inverter, backend, phase, inProgress, worker, last, errors, dbus, ackLost>>

\* The inverter changes its mode or its alerts.
InverterChanges(mode, alerts) ==
  /\ <<mode, alerts>> # <<inverter.mode, inverter.alerts>>
  /\ Fault
  /\ inverter' = [inverter EXCEPT !.mode = mode, !.alerts = alerts]
  /\ UNCHANGED <<bms, backend, phase, inProgress, worker, last, errors, dbus, ackLost>>

------------------------------------------------------------------------------
Init ==
  /\ bms \in Voltage \cup {NoVoltage}
  /\ inverter \in [voltage: Voltage \cup {NoVoltage}, mode: Mode, alerts: Alerts]
  /\ backend = TRUE
  /\ phase = "running"
  /\ inProgress = FALSE
  /\ worker = [t \in Thread |-> NoCycle]
  /\ last = NoVoltage
  /\ errors = 0
  /\ dbus = AtStart
  /\ ackLost = FALSE
  /\ faults = 0

WorkerStep(t) ==
  ReadRaises(t) \/ ReadMeasurements(t) \/ ReadMode(t) \/ ReadAlerts(t) \/ Write(t)

Callback(t) == PollSucceeded(t) \/ PollFailed(t)

Next ==
  \/ \E t \in Thread : Tick(t) \/ WorkerStep(t) \/ Callback(t)
  \/ Quit \/ Exit \/ Start \/ BackendDies
  \/ \E v \in Voltage \cup {NoVoltage} : BmsChanges(v)
  \/ \E m \in Mode, a \in Alerts : InverterChanges(m, a)

Spec == Init /\ [][Next]_vars

(* The timer fires, sockets have timeouts, callbacks run, processes end    *)
(* and the manager scans.                                                  *)
Fairness ==
  /\ \A t \in Thread : WF_vars(WorkerStep(t)) /\ WF_vars(Callback(t))
  /\ WF_vars(\E t \in Thread : Tick(t))
  /\ WF_vars(Exit) /\ WF_vars(Start)

FairSpec == Spec /\ Fairness

------------------------------------------------------------------------------
(* Properties                                                              *)

(* The commands of two cycles never mix: however the timer, the worker and *)
(* the callbacks interleave, one worker at most has a cycle.               *)
OnePoll == Cardinality(Busy) <= 1

(* Between cycles _last_charge_voltage, against which the next request is  *)
(* compared, is what the inverter charges with: if it were not, a request  *)
(* could be taken for already written.  An answer that was lost makes it   *)
(* so: the driver cannot tell an obeyed write from a refused one.          *)
LastIsApplied ==
  phase = "running" /\ Busy = {} /\ ~ackLost => last \in {NoVoltage, inverter.voltage}

(* A driver that counts no failure and says its alerts are valid shows a   *)
(* fault state whenever it shows a fault code.                             *)
FaultShown ==
  errors = 0 /\ dbus.valid = 1 /\ dbus.fault # 0 => dbus.state = 2

(* Only alerts that were read completely lower an alarm; README.md: the    *)
(* last valid alarm values are preserved.  (A new driver starts without.)  *)
AlarmsPreserved ==
  [][dbus'.alarm < dbus.alarm =>
       \/ phase = "gone"
       \/ \E t \in Busy : /\ worker[t].alerts \in Alerts
                          /\ dbus'.alarm = Severity(worker[t].mode, worker[t].alerts)]_vars

(* README.md: the charge voltage is controlled based on the battery's      *)
(* requirements.  Once the battery keeps asking for one voltage, the       *)
(* inverter comes to charge with it, unless the answer to a write was      *)
(* lost after the inverter obeyed.                                         *)
FollowsBms == <>[](~ackLost /\ bms # NoVoltage => inverter.voltage = bms)

(* A driver whose backend is dead ends, so that the manager's next scan    *)
(* replaces both: no cycle hangs on and no failure goes uncounted.         *)
GivesUp == ~backend ~> phase = "gone"
=============================================================================
