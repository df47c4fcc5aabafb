--------------------------- MODULE SupervisorProofs ---------------------------
(***************************************************************************)
(* Proofs about the supervisor, for any set of manager names and any       *)
(* number of crashes and failed starts.                                    *)
(***************************************************************************)
EXTENDS Supervisor, FiniteSetTheorems, TLAPS

(* The only manager that may be alive is self.child, and there is none     *)
(* when run() is about to start one, waits to, or is over.                 *)
Sole ==
  /\ Alive \subseteq {child}
  /\ pc \in {"check", "spawn", "backoff", "done"} => Alive = {}

(* A manager starts without children, and while time was never short what  *)
(* is left belongs to a manager that lives or crashed.                     *)
Accounted ==
  /\ \A m \in Manager : phase[m] = "init" => m \notin children
  /\ haste = "none" => children \subseteq crashed \cup Alive

(* A stop that was not early has reached the loop of the living manager.   *)
Told ==
  stop /\ haste = "none" =>
    /\ pc # "spawn"
    /\ \A m \in Alive : /\ phase[m] \in {"loop", "scan", "shutdown"}
                        /\ phase[m] \in {"loop", "scan"} => quit[m]

IInv == TypeOK /\ Sole /\ Accounted /\ Told

USE DEF Alive, ChildAlive

LEMMA InitIInv == Init => IInv
<1> SUFFICES ASSUME Init PROVE IInv
  OBVIOUS
<1> USE ConstantsAssumption DEF Init
<1>1. Alive = {}
  OBVIOUS
<1>2. TypeOK
  <2>1. quit \in [Manager -> BOOLEAN] /\ \A m \in Manager : ~quit[m]
    OBVIOUS
  <2>2. phase \in [Manager -> {"init", "boot", "loop", "scan", "shutdown", "gone"}]
    OBVIOUS
  <2>3. faults \in 0..MaxFaults
    OBVIOUS
  <2>4. pc = "check" /\ stop = FALSE /\ child = NoManager /\ haste = "none"
    OBVIOUS
  <2>5. children \in SUBSET Manager /\ crashed \in SUBSET Manager
    OBVIOUS
  <2> QED
    BY <2>1, <2>2, <2>3, <2>4, <2>5 DEF TypeOK
<1> QED
  BY <1>1, <1>2 DEF IInv, Sole, Accounted, Told

------------------------------------------------------------------------------
(* The steps of run()                                                      *)

LEMMA RunKeepsIInv == IInv /\ Run => IInv'
<1> SUFFICES ASSUME IInv, Run PROVE IInv'
  OBVIOUS
<1> USE ConstantsAssumption DEF IInv, TypeOK, Sole, Accounted, Told, supervisor, managers, history
<1>1. CASE Check
  BY <1>1 DEF Check
<1>2. CASE Spawn
  BY <1>2 DEF Spawn
<1>3. CASE SpawnFails
  BY <1>3 DEF SpawnFails, Fault, AfterOSError
<1>4. CASE Wait
  BY <1>4 DEF Wait, Waited
<1>5. CASE Backoff
  BY <1>5 DEF Backoff
<1>6. CASE StopChild
  <2>1. CASE child \notin Alive
    BY <1>6, <2>1 DEF StopChild, NoChild
  <2>2. CASE child \in Alive
    <3>1. child \in Manager /\ child # NoManager /\ pc' = "grace" /\ Term(child)
      BY <1>6, <2>2 DEF StopChild, NoChild
    <3>2. TypeOK'
      BY <1>6, <3>1 DEF StopChild, Term
    <3>3. Sole' /\ Accounted'
      BY <1>6, <3>1 DEF StopChild, Term
    <3>4. Told'
      BY <1>6, <3>1 DEF StopChild, Term
    <3> QED
      BY <3>2, <3>3, <3>4
  <2> QED
    BY <2>1, <2>2
<1>7. CASE ChildStopped
  BY <1>7 DEF ChildStopped
<1>8. CASE Kill
  BY <1>8 DEF Kill, TimeIsUp, Deaf, Dies
<1> QED
  BY <1>1, <1>2, <1>3, <1>4, <1>5, <1>6, <1>7, <1>8 DEF Run

LEMMA StopKeepsIInv == IInv /\ RequestStop => IInv'
BY ConstantsAssumption
DEF IInv, TypeOK, Sole, Accounted, Told, RequestStop, Early, Term, managers

------------------------------------------------------------------------------
(* The steps of a manager                                                  *)

LEMMA ManagerKeepsIInv ==
  ASSUME NEW m \in Manager, IInv,
         \/ (Main(m) \/ StartDevice(m) \/ ScanBegins(m)) /\ UNCHANGED <<supervisor, history, faults>>
         \/ Crash(m) \/ OutsideTerm(m)
  PROVE  IInv'
<1> USE ConstantsAssumption DEF IInv, TypeOK, Sole, Accounted, Told, supervisor, managers, history, Step
<1> DEFINE Rest == UNCHANGED <<supervisor, history, faults>>
<1>1. CASE Ready(m) /\ Rest
  BY <1>1 DEF Ready
<1>2. CASE Booted(m) /\ Rest
  BY <1>2 DEF Booted
<1>3. CASE ScanBegins(m) /\ Rest
  BY <1>3 DEF ScanBegins
<1>4. CASE ScanEnds(m) /\ Rest
  BY <1>4 DEF ScanEnds
<1>5. CASE LoopEnds(m) /\ Rest
  BY <1>5 DEF LoopEnds
<1>6. CASE ShutdownEnds(m) /\ Rest
  BY <1>6 DEF ShutdownEnds
<1>7. CASE StartDevice(m) /\ Rest
  BY <1>7 DEF StartDevice
<1>8. CASE Crash(m)
  BY <1>8 DEF Crash, Dies, Fault
<1>9. CASE OutsideTerm(m)
  BY <1>9 DEF OutsideTerm, Term, Fault
<1> QED
  BY <1>1, <1>2, <1>3, <1>4, <1>5, <1>6, <1>7, <1>8, <1>9 DEF Main

LEMMA Inductive == IInv /\ [Next]_vars => IInv'
<1>1. ASSUME IInv, UNCHANGED vars PROVE IInv'
  BY <1>1 DEF IInv, TypeOK, Sole, Accounted, Told, vars, supervisor, managers, history
<1> QED
  BY <1>1, RunKeepsIInv, StopKeepsIInv, ManagerKeepsIInv DEF Next

------------------------------------------------------------------------------
(* The theorems                                                            *)

(* The supervisor and the managers keep their types.                       *)
THEOREM TypeCorrect == Spec => []TypeOK
<1>1. IInv => TypeOK
  BY DEF IInv
<1> QED
  BY <1>1, InitIInv, Inductive, PTL DEF Spec

(* However signals, exits, crashes and failed starts fall, the supervisor  *)
(* never has two managers: run() starts one only when none is alive.       *)
THEOREM NeverTwoManagers == Spec => []OneManager
<1>1. IInv => OneManager
  <2> SUFFICES ASSUME IInv PROVE Cardinality(Alive) <= 1
    BY DEF OneManager
  <2>1. IsFiniteSet({child}) /\ Cardinality({child}) = 1
    BY FS_Singleton
  <2>2. Alive \subseteq {child}
    BY DEF IInv, Sole
  <2> QED
    BY <2>1, <2>2, FS_Subset
<1> QED
  BY <1>1, InitIInv, Inductive, PTL DEF Spec

(* A stop that finds the manager's loop running, and a manager that is     *)
(* quick enough, leave nothing behind: the loop was told to quit, so the   *)
(* only way out is shutdown().                                             *)
THEOREM ControlledStopIsClean == Spec => []StopLeavesNothing
<1>1. IInv => StopLeavesNothing
  BY DEF IInv, Sole, Accounted, StopLeavesNothing, NothingLeft
<1> QED
  BY <1>1, InitIInv, Inductive, PTL DEF Spec

\* How far run() is from its end once a stop was asked for
Left(at) ==
  CASE at = "spawn"    -> 6
    [] at = "wait"     -> 5
    [] at = "backoff"  -> 4
    [] at = "check"    -> 3
    [] at = "stopping" -> 2
    [] at = "grace"    -> 1
    [] OTHER           -> 0

\* What a stop that was asked for means for each step: it is not forgotten,
\* run() comes nearer to its end, and only a Popen that was due adds a manager.
Nearer ==
  stop => /\ stop'
          /\ pc' # pc => Left(pc') < Left(pc)
          /\ Alive' \subseteq Alive \/ (pc = "spawn" /\ pc' = "wait")

(* A stop is never forgotten, and from then on each step of run() takes it *)
(* nearer to its end, from whatever point the stop interrupts: no step of  *)
(* the loop is repeated, and one manager at the most is still started, by  *)
(* a run() that was about to.                                              *)
THEOREM StopIsCarriedOut == Spec => [][Nearer]_vars
<1>1. ASSUME TypeOK, Next PROVE Nearer
  <2>1. CASE Check \/ SpawnFails \/ Wait \/ Backoff \/ ChildStopped
    <3>1. UNCHANGED <<stop, managers>>
      BY <2>1 DEF Check, SpawnFails, Wait, Backoff, ChildStopped
    <3>2. stop => \/ pc = "check" /\ pc' = "stopping"
                  \/ pc = "spawn" /\ pc' = "backoff"
                  \/ pc = "wait" /\ pc' = "stopping"
                  \/ pc = "backoff" /\ pc' = "check"
                  \/ pc = "grace" /\ pc' = "done"
      BY <2>1 DEF Check, SpawnFails, AfterOSError, Wait, Backoff, ChildStopped
    <3>3. stop => Left(pc') < Left(pc)
      BY <3>2 DEF Left
    <3>4. QED
      BY <3>1, <3>3 DEF managers, Alive, Nearer
  <2>2. CASE Spawn
    BY <2>2 DEF Spawn, Left, Nearer
  <2>3. CASE StopChild
    BY <1>1, <2>3 DEF StopChild, Term, managers, Alive, TypeOK, Left, Nearer
  <2>4. CASE Kill
    BY <1>1, <2>4 DEF Kill, Dies, Alive, TypeOK, Left, Nearer
  <2>5. CASE RequestStop
    BY <2>5 DEF RequestStop, Nearer
  <2>6. ASSUME NEW m \in Manager,
               \/ (Main(m) \/ StartDevice(m) \/ ScanBegins(m)) /\ UNCHANGED <<supervisor, history, faults>>
               \/ Crash(m) \/ OutsideTerm(m)
        PROVE  Nearer
    <3>1. UNCHANGED supervisor
      BY <2>6 DEF Crash, OutsideTerm
    <3>2. Alive' \subseteq Alive
      BY <1>1, <2>6 DEF Main, Ready, Booted, ScanEnds, LoopEnds, ShutdownEnds, StartDevice,
         ScanBegins, Step, Crash, OutsideTerm, Dies, Term, Alive, TypeOK
    <3>3. QED
      BY <3>1, <3>2 DEF supervisor, Nearer
  <2>7. QED
    BY <1>1, <2>1, <2>2, <2>3, <2>4, <2>5, <2>6 DEF Next, Run
<1>2. TypeOK /\ [Next]_vars => [Nearer]_vars
  BY <1>1
<1>3. QED
  BY TypeCorrect, <1>2, PTL DEF Spec
=============================================================================
