---------------------------- MODULE DriverProofs -----------------------------
(***************************************************************************)
(* Safety of the driver's polling cycle, for any number of threads,        *)
(* voltages, modes and alerts and any number of failures.                  *)
(***************************************************************************)
EXTENDS Driver, TLAPS, FiniteSetTheorems

\* One worker at most has a cycle, and then the flag is set and the process
\* is there.
Alone ==
  /\ \A s, t \in Busy : s = t
  /\ Busy # {} => inProgress
  /\ phase = "gone" => Busy = {}

\* What the driver remembers is applied ...
Applied == last \in {NoVoltage, inverter.voltage}

\* ... or a worker that is done brings what is, unless an answer was lost.
Brought ==
  phase = "running" /\ ~ackLost =>
    /\ \A t \in Thread : worker[t].pc = "done" /\ worker[t].voltage # NoVoltage =>
                           worker[t].voltage = inverter.voltage
    /\ (\A t \in Thread : worker[t].pc = "done" => worker[t].voltage = NoVoltage) => Applied

IInv == TypeOK /\ Alone /\ Brought /\ FaultShown

-----------------------------------------------------------------------------
(* Type correctness                                                        *)

LEMMA FaultTyped ==
  ASSUME TypeOK, Fault \/ NoFault
  PROVE  faults' \in 0..MaxFaults
BY ConstantsAssumption DEF TypeOK, Fault, NoFault

\* What an idle callback publishes is a state, a fault code and an alarm.
LEMMA PublishTyped ==
  ASSUME TypeOK, NEW c \in Cycle, NEW d \in Published
  PROVE  PublishAlerts(d, c) \in Published
<1>1. CASE c.alerts = NoData
  BY <1>1 DEF PublishAlerts, Published
<1>2. CASE c.alerts # NoData
  <2>1. c.alerts.fault \in Nat
    BY <1>2, ConstantsAssumption DEF Cycle
  <2>2. StateOf(d.state, c.alerts) \in {0, 2, 9}
    BY DEF StateOf, Published
  <2>3. Severity(c.mode, c.alerts) \in 0..2
    BY DEF Severity
  <2>4. QED
    BY <1>2, <2>1, <2>2, <2>3 DEF PublishAlerts, Published
<1>3. QED
  BY <1>1, <1>2

LEMMA CountTyped ==
  ASSUME TypeOK, phase = "running", CountFailure
  PROVE  /\ errors' \in 0..3 /\ errors' # 0
         /\ phase' \in {"running", "stopping"}
         /\ errors' = 3 => phase' # "running"
BY DEF TypeOK, CountFailure

LEMMA TickTyped ==
  ASSUME TypeOK, NEW t \in Thread, Tick(t)
  PROVE  TypeOK'
<1>1. PICK v \in {bms, NoVoltage} :
        worker' = [worker EXCEPT ![t] = [NoCycle EXCEPT !.pc = "begin", !.voltage = v]]
  BY DEF Tick
<1>2. [NoCycle EXCEPT !.pc = "begin", !.voltage = v] \in Cycle
  BY DEF NoCycle, Cycle, TypeOK
<1>3. worker' \in [Thread -> Cycle]
  BY <1>1, <1>2 DEF TypeOK
<1>4. faults' \in 0..MaxFaults
  BY FaultTyped DEF Tick
<1>5. QED
  BY <1>3, <1>4 DEF Tick, TypeOK

LEMMA WorkerTyped ==
  ASSUME TypeOK, NEW t \in Thread, WorkerStep(t)
  PROVE  TypeOK'
<1>1. faults' \in 0..MaxFaults
  BY FaultTyped DEF WorkerStep, ReadRaises, ReadMeasurements, ReadMode, ReadAlerts, Write
<1>2. worker' \in [Thread -> Cycle]
  <2>1. CASE ReadRaises(t)
    BY <2>1 DEF ReadRaises, NoCycle, Cycle, TypeOK
  <2>2. CASE ReadMeasurements(t)
    <3>1. PICK ok \in BOOLEAN :
            worker' = [worker EXCEPT ![t].pc = "mode", ![t].voltage = Changed(last, @),
                                     ![t].measured = ok]
      BY <2>2 DEF ReadMeasurements
    <3>2. Changed(last, worker[t].voltage) \in Voltage \cup {NoVoltage}
      BY DEF Changed, TypeOK, Cycle
    <3> DEFINE c == [worker[t] EXCEPT !.pc = "mode", !.voltage = Changed(last, @),
                                      !.measured = ok]
    <3>3. worker' = [worker EXCEPT ![t] = c]
      BY <3>1 DEF TypeOK, Cycle
    <3>4. c \in Cycle
      BY <3>2 DEF Cycle, TypeOK
    <3>5. QED
      BY <3>3, <3>4 DEF TypeOK
  <2>3. CASE ReadMode(t)
    <3>1. PICK answer \in Mode \cup {NoData} :
            worker' = [worker EXCEPT ![t].pc = "alerts", ![t].mode = answer]
      BY <2>3 DEF ReadMode, TypeOK
    <3> DEFINE c == [worker[t] EXCEPT !.pc = "alerts", !.mode = answer]
    <3>2. worker' = [worker EXCEPT ![t] = c]
      BY <3>1 DEF TypeOK, Cycle
    <3>3. c \in Cycle
      BY DEF Cycle, TypeOK
    <3>4. QED
      BY <3>2, <3>3 DEF TypeOK
  <2>4. CASE ReadAlerts(t)
    <3>1. PICK answer \in Alerts \cup {NoData} :
            worker' = [worker EXCEPT ![t].pc = "write", ![t].alerts = answer]
      BY <2>4 DEF ReadAlerts, TypeOK
    <3> DEFINE c == [worker[t] EXCEPT !.pc = "write", !.alerts = answer]
    <3>2. worker' = [worker EXCEPT ![t] = c]
      BY <3>1 DEF TypeOK, Cycle
    <3>3. c \in Cycle
      BY DEF Cycle, TypeOK
    <3>4. QED
      BY <3>2, <3>3 DEF TypeOK
  <2>5. CASE Write(t)
    <3>1. PICK v \in Voltage \cup {NoVoltage} :
            worker' = [worker EXCEPT ![t].pc = "done", ![t].voltage = v]
      BY <2>5 DEF Write, Reported, TypeOK, Cycle
    <3> DEFINE c == [worker[t] EXCEPT !.pc = "done", !.voltage = v]
    <3>2. worker' = [worker EXCEPT ![t] = c]
      BY <3>1 DEF TypeOK, Cycle
    <3>3. c \in Cycle
      BY DEF Cycle, TypeOK
    <3>4. QED
      BY <3>2, <3>3 DEF TypeOK
  <2>6. QED
    BY <2>1, <2>2, <2>3, <2>4, <2>5 DEF WorkerStep
<1>3. inverter' \in [voltage: Voltage \cup {NoVoltage}, mode: Mode, alerts: Alerts] /\ ackLost' \in BOOLEAN
  <2>1. CASE Write(t)
    BY <2>1 DEF Write, Cycle, TypeOK
  <2>2. CASE ~Write(t)
    BY <2>2 DEF WorkerStep, ReadRaises, ReadMeasurements, ReadMode, ReadAlerts, TypeOK
  <2>3. QED
    BY <2>1, <2>2
<1>4. QED
  BY <1>1, <1>2, <1>3 DEF WorkerStep, ReadRaises, ReadMeasurements, ReadMode, ReadAlerts,
     Write, TypeOK

LEMMA CallbackTyped ==
  ASSUME TypeOK, NEW t \in Thread, Callback(t)
  PROVE  TypeOK'
<1>1. worker' \in [Thread -> Cycle]
  <2>1. worker' = [worker EXCEPT ![t] = NoCycle]
    BY DEF Callback, PollSucceeded, PollFailed
  <2>2. NoCycle \in Cycle
    BY DEF NoCycle, Cycle
  <2>3. QED
    BY <2>1, <2>2 DEF TypeOK
<1>2. CASE PollSucceeded(t)
  <2> DEFINE c == worker[t]
             d == [dbus EXCEPT !.state = StateOfMode(c.mode)]
  <2>1. c \in Cycle /\ d \in Published
    BY DEF TypeOK, Published, StateOfMode
  <2>2. dbus' \in Published
    BY <1>2, <2>1, PublishTyped DEF PollSucceeded
  <2>3. last' \in Voltage \cup {NoVoltage}
    BY <1>2, <2>1 DEF PollSucceeded, TypeOK, Cycle
  <2>4. /\ errors' \in 0..3 /\ phase' \in {"running", "stopping"}
        /\ errors' = 3 => phase' # "running"
    BY <1>2, CountTyped DEF PollSucceeded
  <2>5. QED
    BY <1>1, <1>2, <2>2, <2>3, <2>4 DEF PollSucceeded, Release, TypeOK
<1>3. CASE PollFailed(t)
  BY <1>1, <1>3, CountTyped DEF PollFailed, Release, TypeOK
<1>4. QED
  BY <1>2, <1>3 DEF Callback

\* The process, the backend, the battery and the inverter
Around ==
  \/ Quit \/ Exit \/ Start \/ BackendDies
  \/ \E v \in Voltage \cup {NoVoltage} : BmsChanges(v)
  \/ \E m \in Mode, a \in Alerts : InverterChanges(m, a)

LEMMA AroundTyped ==
  ASSUME TypeOK, Around
  PROVE  TypeOK'
<1>1. CASE Quit \/ BackendDies \/ \E v \in Voltage \cup {NoVoltage} : BmsChanges(v)
  <2>1. faults' \in 0..MaxFaults
    BY <1>1, FaultTyped DEF Quit, BackendDies, BmsChanges
  <2>2. QED
    BY <1>1, <2>1 DEF Quit, BackendDies, BmsChanges, TypeOK
<1>2. CASE \E m \in Mode, a \in Alerts : InverterChanges(m, a)
  <2>1. faults' \in 0..MaxFaults
    BY <1>2, FaultTyped DEF InverterChanges
  <2>2. QED
    BY <1>2, <2>1 DEF InverterChanges, TypeOK
<1>3. CASE Exit
  BY <1>3 DEF Exit, NoCycle, Cycle, TypeOK
<1>4. CASE Start
  <2>1. dbus' \in Published
    BY <1>4 DEF Start, AtStart, Published
  <2>2. last' \in Voltage \cup {NoVoltage} /\ errors' \in 0..3 /\ errors' # 3
    BY <1>4 DEF Start
  <2>3. UNCHANGED <<bms, inverter, worker, ackLost, faults>> /\ phase' = "running"
        /\ backend' \in BOOLEAN /\ inProgress' \in BOOLEAN
    BY <1>4 DEF Start
  <2>4. QED
    BY <2>1, <2>2, <2>3 DEF TypeOK
<1>5. QED
  BY <1>1, <1>2, <1>3, <1>4 DEF Around

-----------------------------------------------------------------------------
(* One cycle at a time                                                     *)

LEMMA AloneStep ==
  ASSUME TypeOK, Alone, [Next]_vars
  PROVE  Alone'
<1>1. ASSUME NEW t \in Thread, Tick(t) PROVE Alone'
  <2>1. Busy = {} /\ inProgress' /\ phase' = "running"
    BY <1>1 DEF Tick, PollFree, Alone
  <2>2. \A s \in Thread : s # t => worker'[s] = worker[s]
    BY <1>1 DEF Tick, TypeOK
  <2>3. QED
    BY <2>1, <2>2 DEF Busy, Alone
<1>2. ASSUME NEW t \in Thread, WorkerStep(t) PROVE Alone'
  <2>1. t \in Busy /\ UNCHANGED <<inProgress, phase>>
    BY <1>2 DEF WorkerStep, ReadRaises, ReadMeasurements, ReadMode, ReadAlerts, Write, Alive, Busy
  <2>2. \A s \in Thread : s # t => worker'[s] = worker[s]
    BY <1>2 DEF WorkerStep, ReadRaises, ReadMeasurements, ReadMode, ReadAlerts, Write, TypeOK
  <2>3. Busy' \subseteq Busy
    BY <2>1, <2>2 DEF Busy
  <2>4. QED
    BY <2>1, <2>3 DEF Alone
<1>3. ASSUME NEW t \in Thread, Callback(t) PROVE Alone'
  <2>1. t \in Busy
    BY <1>3 DEF Callback, PollSucceeded, PollFailed, Busy
  <2>2. worker' = [worker EXCEPT ![t] = NoCycle]
    BY <1>3 DEF Callback, PollSucceeded, PollFailed
  <2>3. Busy' = {}
    BY <2>1, <2>2 DEF Busy, Alone, NoCycle, TypeOK
  <2>4. QED
    BY <2>3 DEF Alone
<1>4. CASE Exit
  BY <1>4 DEF Exit, Alone, Busy, NoCycle
<1>5. CASE Start
  BY <1>5 DEF Start, Alone, Busy
<1>6. CASE UNCHANGED vars
  BY <1>6 DEF vars, Alone, Busy
<1>7. CASE Quit \/ BackendDies \/ (\E v \in Voltage \cup {NoVoltage} : BmsChanges(v))
           \/ \E m \in Mode, a \in Alerts : InverterChanges(m, a)
  <2>1. UNCHANGED <<worker, inProgress>> /\ (phase' = phase \/ phase' = "stopping")
    BY <1>7 DEF Quit, BackendDies, BmsChanges, InverterChanges
  <2>2. QED
    BY <2>1 DEF Alone, Busy
<1>8. QED
  BY <1>1, <1>2, <1>3, <1>4, <1>5, <1>6, <1>7 DEF Next

-----------------------------------------------------------------------------
(* The remembered voltage                                                  *)

LEMMA BroughtStep ==
  ASSUME TypeOK, Alone, Brought, [Next]_vars
  PROVE  Brought'
<1>1. ASSUME NEW t \in Thread, Tick(t) PROVE Brought'
  <2>1. /\ Busy = {} /\ UNCHANGED <<phase, ackLost, last, inverter>>
        /\ \A s \in Thread : worker'[s].pc # "done"
    BY <1>1 DEF Tick, PollFree, Alone, Busy, NoCycle, TypeOK
  <2>2. phase = "running" /\ ~ackLost => Applied
    BY <2>1 DEF Brought, Busy
  <2>3. QED
    BY <2>1, <2>2 DEF Brought, Applied
<1>2. ASSUME NEW t \in Thread, WorkerStep(t) PROVE Brought'
  <2>1. /\ worker[t].pc # "done" /\ UNCHANGED <<phase, last>> /\ (ackLost => ackLost')
        /\ \A s \in Thread : s # t => worker'[s] = worker[s] /\ worker[s].pc = "none"
    BY <1>2 DEF WorkerStep, ReadRaises, ReadMeasurements, ReadMode, ReadAlerts, Write, Alive,
       Alone, Busy, TypeOK
  <2>2. phase = "running" /\ ~ackLost => Applied
    BY <2>1 DEF Brought
  <2>3. CASE Write(t)
    <3>1. PICK obeyed \in BOOLEAN, answered \in BOOLEAN :
            /\ worker[t].voltage # NoVoltage => obeyed \/ ~answered
            /\ ackLost' = (ackLost \/ (obeyed /\ ~answered))
            /\ inverter' = IF obeyed /\ worker[t].voltage # NoVoltage
                           THEN [inverter EXCEPT !.voltage = worker[t].voltage] ELSE inverter
            /\ worker'[t].voltage = Reported(worker[t].voltage, answered)
      BY <2>3 DEF Write, TypeOK, Cycle
    <3>2. worker'[t].pc = "done"
      BY <2>3 DEF Write, TypeOK, Cycle
    <3>3. CASE answered /\ worker[t].voltage # NoVoltage
      <4>1. worker'[t].voltage = inverter'.voltage /\ worker'[t].voltage # NoVoltage
        BY <3>1, <3>3 DEF Reported, TypeOK
      <4>2. QED
        BY <2>1, <3>2, <4>1 DEF Brought
    <3>4. CASE ~(answered /\ worker[t].voltage # NoVoltage)
      <4>1. worker'[t].voltage = NoVoltage
        BY <3>1, <3>4 DEF Reported
      <4>2. ~ackLost' => inverter' = inverter /\ ~ackLost
        BY <3>1, <3>4
      <4>3. QED
        BY <2>1, <2>2, <3>2, <4>1, <4>2 DEF Brought, Applied
    <3>5. QED
      BY <3>3, <3>4
  <2>4. CASE ~Write(t)
    <3>1. UNCHANGED <<inverter, ackLost>> /\ worker'[t].pc # "done"
      BY <1>2, <2>4 DEF WorkerStep, ReadRaises, ReadMeasurements, ReadMode, ReadAlerts,
         NoCycle, TypeOK, Cycle
    <3>2. QED
      BY <2>1, <2>2, <3>1 DEF Brought, Applied
  <2>5. QED
    BY <2>3, <2>4
<1>3. ASSUME NEW t \in Thread, Callback(t) PROVE Brought'
  <2>1. /\ t \in Busy /\ phase = "running" /\ UNCHANGED <<ackLost, inverter>>
        /\ worker' = [worker EXCEPT ![t] = NoCycle]
    BY <1>3 DEF Callback, PollSucceeded, PollFailed, Busy
  <2>2. \A s \in Thread : worker'[s].pc # "done" /\ (s # t => worker[s].pc # "done")
    BY <2>1 DEF Alone, Busy, NoCycle, TypeOK
  <2>3. ~ackLost => Applied'
    <3>1. CASE PollSucceeded(t) /\ worker[t].voltage # NoVoltage
      BY <2>1, <3>1 DEF PollSucceeded, Brought, Applied
    <3>2. CASE PollSucceeded(t) /\ worker[t].voltage = NoVoltage
      BY <2>1, <2>2, <3>2 DEF PollSucceeded, Brought, Applied
    <3>3. CASE PollFailed(t)
      BY <2>1, <2>2, <3>3 DEF PollFailed, Brought, Applied
    <3>4. QED
      BY <1>3, <3>1, <3>2, <3>3 DEF Callback
  <2>4. QED
    BY <2>1, <2>2, <2>3 DEF Brought
<1>4. CASE Quit \/ Exit
  BY <1>4 DEF Quit, Exit, Brought
<1>5. CASE Start
  BY <1>5 DEF Start, Brought, Applied, Alone, Busy
<1>6. CASE BackendDies \/ (\E v \in Voltage \cup {NoVoltage} : BmsChanges(v))
           \/ \E m \in Mode, a \in Alerts : InverterChanges(m, a)
  <2>1. UNCHANGED <<worker, phase, last, ackLost>> /\ inverter'.voltage = inverter.voltage
    BY <1>6 DEF BackendDies, BmsChanges, InverterChanges, TypeOK
  <2>2. QED
    BY <2>1 DEF Brought, Applied
<1>7. CASE UNCHANGED vars
  BY <1>7 DEF vars, Brought, Applied
<1>8. QED
  BY <1>1, <1>2, <1>3, <1>4, <1>5, <1>6, <1>7 DEF Next

-----------------------------------------------------------------------------
(* What is published                                                       *)

LEMMA FaultShownStep ==
  ASSUME TypeOK, FaultShown, [Next]_vars
  PROVE  FaultShown'
<1>1. ASSUME NEW t \in Thread, PollSucceeded(t) PROVE FaultShown'
  <2> DEFINE c == worker[t]
             d == [dbus EXCEPT !.state = StateOfMode(c.mode)]
  <2>1. CASE c.measured /\ c.alerts = NoData
    <3>1. dbus' = [d EXCEPT !.valid = 0]
      BY <1>1, <2>1 DEF PollSucceeded, PublishAlerts
    <3>2. d \in Published
      BY DEF TypeOK, Published, StateOfMode
    <3>3. dbus'.valid = 0
      BY <3>1, <3>2 DEF Published
    <3>4. QED
      BY <3>3 DEF FaultShown
  <2>2. CASE c.measured /\ c.alerts # NoData
    BY <1>1, <2>2 DEF PollSucceeded, PublishAlerts, StateOf, FaultShown
  <2>3. CASE ~c.measured
    BY <1>1, <2>3, CountTyped DEF PollSucceeded, FaultShown
  <2>4. QED
    BY <2>1, <2>2, <2>3
<1>2. ASSUME NEW t \in Thread, PollFailed(t) PROVE FaultShown'
  BY <1>2, CountTyped DEF PollFailed, FaultShown
<1>3. CASE Start
  BY <1>3 DEF Start, AtStart, FaultShown
<1>4. ASSUME NEW t \in Thread, Tick(t) \/ WorkerStep(t) PROVE FaultShown'
  BY <1>4 DEF Tick, WorkerStep, ReadRaises, ReadMeasurements, ReadMode, ReadAlerts, Write, FaultShown
<1>5. CASE Quit \/ Exit \/ BackendDies \/ (\E v \in Voltage \cup {NoVoltage} : BmsChanges(v))
           \/ (\E m \in Mode, a \in Alerts : InverterChanges(m, a)) \/ UNCHANGED vars
  BY <1>5 DEF Quit, Exit, BackendDies, BmsChanges, InverterChanges, vars, FaultShown
<1>6. QED
  BY <1>1, <1>2, <1>3, <1>4, <1>5 DEF Next, Callback

\* The formula inside of AlarmsPreserved
Lowered ==
  dbus'.alarm < dbus.alarm =>
    \/ phase = "gone"
    \/ \E t \in Busy : /\ worker[t].alerts \in Alerts
                       /\ dbus'.alarm = Severity(worker[t].mode, worker[t].alerts)

LEMMA LoweredStep ==
  ASSUME TypeOK, [Next]_vars
  PROVE  Lowered
<1>1. ASSUME NEW t \in Thread, PollSucceeded(t) PROVE Lowered
  <2> DEFINE c == worker[t]
             d == [dbus EXCEPT !.state = StateOfMode(c.mode)]
  <2>1. t \in Busy /\ c.alerts \in Alerts \cup {NoData} /\ dbus.alarm \in Nat
    BY <1>1 DEF PollSucceeded, Busy, TypeOK, Cycle, Published
  <2>2. CASE c.measured /\ c.alerts # NoData
    BY <1>1, <2>1, <2>2 DEF PollSucceeded, PublishAlerts, Lowered
  <2>3. CASE ~c.measured \/ c.alerts = NoData
    <3>1. dbus'.alarm = dbus.alarm
      BY <1>1, <2>3 DEF PollSucceeded, PublishAlerts, TypeOK, Published
    <3>2. QED
      BY <2>1, <3>1 DEF Lowered
  <2>4. QED
    BY <2>2, <2>3
<1>2. CASE Start
  BY <1>2 DEF Start, Lowered
<1>3. CASE UNCHANGED dbus
  BY <1>3 DEF Lowered, TypeOK, Published
<1>4. ASSUME NEW t \in Thread, Tick(t) \/ WorkerStep(t) \/ PollFailed(t) PROVE UNCHANGED dbus
  BY <1>4 DEF Tick, WorkerStep, ReadRaises, ReadMeasurements, ReadMode, ReadAlerts, Write, PollFailed
<1>5. Quit \/ Exit \/ BackendDies \/ (\E v \in Voltage \cup {NoVoltage} : BmsChanges(v))
        \/ (\E m \in Mode, a \in Alerts : InverterChanges(m, a)) \/ UNCHANGED vars => UNCHANGED dbus
  BY DEF Quit, Exit, BackendDies, BmsChanges, InverterChanges, vars
<1>6. QED
  BY <1>1, <1>2, <1>3, <1>4, <1>5 DEF Next, Callback

-----------------------------------------------------------------------------
LEMMA InitInv == Init => IInv
<1>1. Init => TypeOK
  <2>1. NoCycle \in Cycle /\ AtStart \in Published
    BY DEF NoCycle, Cycle, AtStart, Published
  <2>2. [t \in Thread |-> NoCycle] \in [Thread -> Cycle]
    BY <2>1
  <2>3. 0 \in 0..MaxFaults
    BY ConstantsAssumption
  <2>4. SUFFICES ASSUME Init PROVE TypeOK
    OBVIOUS
  <2>5. dbus \in Published /\ worker \in [Thread -> Cycle] /\ faults \in 0..MaxFaults
    BY <2>1, <2>2, <2>3, <2>4 DEF Init
  <2>6. errors \in 0..3 /\ errors # 3 /\ last \in Voltage \cup {NoVoltage}
    BY <2>4 DEF Init
  <2>7. QED
    BY <2>4, <2>5, <2>6 DEF Init, TypeOK
<1>2. Init => Alone /\ Brought /\ FaultShown
  BY DEF Init, Alone, Busy, Brought, Applied, FaultShown, NoCycle, AtStart
<1>3. QED
  BY <1>1, <1>2 DEF IInv

LEMMA InvHolds == Spec => []IInv
<1>1. TypeOK /\ [Next]_vars => TypeOK'
  <2>1. UNCHANGED vars /\ TypeOK => TypeOK'
    BY DEF vars, TypeOK
  <2>2. QED
    BY <2>1, TickTyped, WorkerTyped, CallbackTyped, AroundTyped DEF Next, Around
<1>2. IInv /\ [Next]_vars => IInv'
  BY <1>1, AloneStep, BroughtStep, FaultShownStep DEF IInv
<1>3. QED
  BY InitInv, <1>2, PTL DEF Spec

(* The types are right, and the third failure in a row always ends the     *)
(* driver, for any threads, voltages, modes, alerts and failures.          *)
THEOREM TypeCorrect == Spec => []TypeOK
<1>1. IInv => TypeOK
  BY DEF IInv
<1>2. QED
  BY InvHolds, <1>1, PTL

(* _poll_in_progress keeps the cycles apart: two never overlap.            *)
THEOREM NeverTwoCycles == Spec => []OnePoll
<1>1. ASSUME Alone PROVE OnePoll
  <2>1. CASE Busy = {}
    BY <2>1, FS_EmptySet DEF OnePoll
  <2>2. CASE Busy # {}
    <3>1. PICK t \in Busy : Busy = {t}
      BY <1>1, <2>2 DEF Alone
    <3>2. Cardinality(Busy) = 1
      BY <3>1, FS_Singleton
    <3>3. QED
      BY <3>2 DEF OnePoll
  <2>3. QED
    BY <2>1, <2>2
<1>2. IInv => OnePoll
  BY <1>1 DEF IInv
<1>3. QED
  BY InvHolds, <1>2, PTL

(* Between two cycles _last_charge_voltage is what the inverter charges    *)
(* with, unless the answer to a write it obeyed was lost.                  *)
THEOREM RememberedIsApplied == Spec => []LastIsApplied
<1>1. IInv => LastIsApplied
  BY DEF IInv, Brought, Applied, Busy, LastIsApplied
<1>2. QED
  BY InvHolds, <1>1, PTL

(* A driver without a failure and with valid alerts shows a fault state    *)
(* with every fault code.                                                  *)
THEOREM FaultsAreShown == Spec => []FaultShown
<1>1. IInv => FaultShown
  BY DEF IInv
<1>2. QED
  BY InvHolds, <1>1, PTL

(* Only alerts that were read completely lower an alarm.                   *)
THEOREM AlarmsArePreserved == Spec => AlarmsPreserved
<1>1. IInv /\ [Next]_vars => [Lowered]_vars
  BY LoweredStep DEF IInv
<1>2. QED
  BY InvHolds, <1>1, PTL DEF Spec, AlarmsPreserved, Lowered

-----------------------------------------------------------------------------
(* What is written                                                         *)

\* What a worker is going to write was compared with the remembered voltage,
\* and nothing is written between the comparison and the command.
Chosen ==
  \A t \in Thread :
    /\ worker[t].pc \in {"begin", "mode", "alerts", "write"} /\ ~ackLost => Applied
    /\ worker[t].pc \in {"mode", "alerts", "write"} =>
         worker[t].voltage = NoVoltage \/ worker[t].voltage # last

LEMMA ChosenStep ==
  ASSUME IInv, Chosen, [Next]_vars
  PROVE  Chosen'
<1>1. ASSUME NEW t \in Thread, Tick(t) PROVE Chosen'
  <2>1. /\ phase = "running" /\ Busy = {} /\ UNCHANGED <<last, inverter, ackLost>>
        /\ worker'[t].pc = "begin"
        /\ \A s \in Thread : s # t => worker'[s] = worker[s] /\ worker[s].pc = "none"
    BY <1>1 DEF Tick, PollFree, IInv, Alone, Busy, NoCycle, TypeOK
  <2>2. ~ackLost => Applied
    BY <2>1 DEF IInv, Brought, Busy
  <2>3. QED
    BY <2>1, <2>2 DEF Chosen, Applied
<1>2. ASSUME NEW t \in Thread, WorkerStep(t) PROVE Chosen'
  <2>1. /\ UNCHANGED last
        /\ \A s \in Thread : s # t => worker'[s] = worker[s] /\ worker[s].pc = "none"
    BY <1>2 DEF WorkerStep, ReadRaises, ReadMeasurements, ReadMode, ReadAlerts, Write, Alive,
       IInv, Alone, Busy, TypeOK
  <2>2. CASE Write(t) \/ ReadRaises(t)
    <3>1. worker'[t].pc \in {"done", "failed"}
      BY <2>2 DEF Write, ReadRaises, NoCycle, IInv, TypeOK, Cycle
    <3>2. QED
      BY <2>1, <3>1 DEF Chosen
  <2>3. CASE ReadMeasurements(t)
    <3>1. /\ worker[t].pc = "begin" /\ UNCHANGED <<inverter, ackLost>>
          /\ worker'[t].pc = "mode" /\ worker'[t].voltage = Changed(last, worker[t].voltage)
      BY <2>3 DEF ReadMeasurements, IInv, TypeOK, Cycle
    <3>2. QED
      BY <2>1, <3>1 DEF Chosen, Changed, Applied
  <2>4. CASE ReadMode(t) \/ ReadAlerts(t)
    <3>1. /\ worker[t].pc \in {"mode", "alerts"} /\ UNCHANGED <<inverter, ackLost>>
          /\ worker'[t].pc \in {"alerts", "write"} /\ worker'[t].voltage = worker[t].voltage
      BY <2>4 DEF ReadMode, ReadAlerts, IInv, TypeOK, Cycle
    <3>2. QED
      BY <2>1, <3>1 DEF Chosen, Applied
  <2>5. QED
    BY <1>2, <2>2, <2>3, <2>4 DEF WorkerStep
<1>3. ASSUME NEW t \in Thread, Callback(t) PROVE Chosen'
  <2>1. worker' = [worker EXCEPT ![t] = NoCycle] /\ t \in Busy
    BY <1>3 DEF Callback, PollSucceeded, PollFailed, Busy
  <2>2. \A s \in Thread : worker'[s].pc = "none"
    BY <2>1 DEF IInv, Alone, Busy, NoCycle, TypeOK
  <2>3. QED
    BY <2>2 DEF Chosen
<1>4. CASE Exit
  BY <1>4 DEF Exit, Chosen, NoCycle
<1>5. CASE Start
  <2>1. \A s \in Thread : worker'[s].pc = "none"
    BY <1>5 DEF Start, IInv, Alone, Busy
  <2>2. QED
    BY <2>1 DEF Chosen
<1>6. CASE Quit \/ BackendDies \/ (\E v \in Voltage \cup {NoVoltage} : BmsChanges(v))
           \/ \E m \in Mode, a \in Alerts : InverterChanges(m, a)
  <2>1. UNCHANGED <<worker, last, ackLost>> /\ inverter'.voltage = inverter.voltage
    BY <1>6 DEF Quit, BackendDies, BmsChanges, InverterChanges, IInv, TypeOK
  <2>2. QED
    BY <2>1 DEF Chosen, Applied
<1>7. CASE UNCHANGED vars
  BY <1>7 DEF vars, Chosen, Applied
<1>8. QED
  BY <1>1, <1>2, <1>3, <1>4, <1>5, <1>6, <1>7 DEF Next

(* The charge voltage is sent only when it is another than the inverter    *)
(* has, but for the first one of a driver and the answers that were lost:  *)
(* changed_charge_voltage() compares it at the beginning of the cycle, and *)
(* the comparison still holds when the command is sent.                    *)
THEOREM WritesAreNeeded ==
  Spec => [](\A t \in Thread :
               worker[t].pc = "write" /\ worker[t].voltage # NoVoltage =>
                 last = NoVoltage \/ ackLost \/ worker[t].voltage # inverter.voltage)
<1> DEFINE Needed == \A t \in Thread :
               worker[t].pc = "write" /\ worker[t].voltage # NoVoltage =>
                 last = NoVoltage \/ ackLost \/ worker[t].voltage # inverter.voltage
<1>1. Init => Chosen
  BY DEF Init, NoCycle, Chosen
<1>2. IInv /\ Chosen /\ [Next]_vars => Chosen'
  BY ChosenStep
<1>3. Chosen => Needed
  BY DEF Chosen, Applied
<1> HIDE DEF Needed
<1>4. Spec => []Needed
  BY <1>1, <1>2, <1>3, InvHolds, PTL DEF Spec
<1> USE DEF Needed
<1>5. QED
  BY <1>4
=============================================================================
