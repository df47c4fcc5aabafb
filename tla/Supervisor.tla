----------------------------- MODULE Supervisor ------------------------------
(***************************************************************************)
(* The supervisor, src/mppsolar-supervisor.py, and the life of the manager *)
(* it keeps running: when a signal reaches main() of mppsolar-manager.py,  *)
(* and what is left behind when the processes are gone.                    *)
(***************************************************************************)
EXTENDS Naturals, FiniteSets

CONSTANTS
  Manager,       \* names for manager processes, more than can leave orphans
  NoManager,     \* self.child before the first start
  MaxFaults      \* BOUND on crashes and failed starts

ASSUME ConstantsAssumption ==
  /\ NoManager \notin Manager
  /\ MaxFaults \in Nat
  /\ Cardinality(Manager) > MaxFaults

VARIABLES
  pc,            \* where run() is
  stop,          \* stop_event
  child,         \* self.child
  phase,         \* [Manager -> where its main() is]
  quit,          \* [Manager -> did loop.quit() end the running loop?]
  children,      \* managers with backends and drivers alive
  crashed,       \* managers that ended without being asked to
  haste,         \* HISTORY: what was short of time when the stop came
  faults         \* how much of MaxFaults was used

supervisor == <<pc, stop, child>>
managers == <<phase, quit, children>>
history == <<crashed, haste>>
vars == <<supervisor, managers, history, faults>>

Alive == {m \in Manager : phase[m] # "gone"}

(* The variables have their types; self.child is a process once run()      *)
(* waits for one, and a manager is waited for or stopped only then.        *)
TypeOK ==
  /\ pc \in {"check", "spawn", "wait", "backoff", "stopping", "grace", "done"}
  /\ stop \in BOOLEAN
  /\ pc \in {"stopping", "grace", "done"} => stop
  /\ child \in Manager \cup {NoManager}
  /\ pc \in {"wait", "grace"} => child # NoManager
  /\ phase \in [Manager -> {"init", "boot", "loop", "scan", "shutdown", "gone"}]
  /\ quit \in [Manager -> BOOLEAN]
  /\ \A m \in Manager : quit[m] => phase[m] \in {"loop", "scan", "shutdown"}
  /\ children \in SUBSET Manager
  /\ crashed \in SUBSET Manager
  /\ haste \in {"none", "early", "slow"}
  /\ faults \in 0..MaxFaults

Fault == faults < MaxFaults /\ faults' = faults + 1

ChildAlive == child \in Alive

------------------------------------------------------------------------------
(* SIGTERM to a manager.  Before main() has installed its handler it kills *)
(* the process; in the first scan the handler calls loop.quit(), which the *)
(* loop.run() that follows does not know of; afterwards it ends the loop.  *)

\* Mutant: the handler is installed but a scan in the loop swallows it too.
TermUnlessScanning(m) ==
  /\ phase' = [phase EXCEPT ![m] = IF @ = "init" THEN "gone" ELSE @]
  /\ quit' = [quit EXCEPT ![m] = @ \/ phase[m] = "loop"]
  /\ UNCHANGED children

Term(m) ==
  /\ phase' = [phase EXCEPT ![m] = IF @ = "init" THEN "gone" ELSE @]
  /\ quit' = [quit EXCEPT ![m] = @ \/ phase[m] \in {"loop", "scan"}]
  /\ UNCHANGED children

\* SIGKILL, or any other end without shutdown(): backends and drivers live on.
Dies(m) ==
  /\ phase' = [phase EXCEPT ![m] = "gone"]
  /\ quit' = [quit EXCEPT ![m] = FALSE]
  /\ UNCHANGED children

------------------------------------------------------------------------------
(* run()                                                                   *)

\* while not self.stop_event.is_set()
Check ==
  /\ pc = "check"
  /\ pc' = IF stop THEN "stopping" ELSE "spawn"
  /\ UNCHANGED <<stop, child, managers, history, faults>>

Spawn ==
  /\ pc = "spawn"
  /\ \E m \in Manager \ (Alive \cup children) :
       /\ child' = m
       /\ phase' = [phase EXCEPT ![m] = "init"]
  /\ pc' = "wait"
  /\ UNCHANGED <<stop, quit, children, history, faults>>

\* Mutant: the OSError goes through the finally clause and out of run().
Uncaught == "stopping"

AfterOSError == "backoff"

\* Popen raises OSError.
SpawnFails ==
  /\ pc = "spawn"
  /\ Fault
  /\ pc' = AfterOSError
  /\ UNCHANGED <<stop, child, managers, history>>

\* Mutant: the wait gives up after its second.
WaitOver == TRUE

\* _wait_for_child() returns.
Waited == stop \/ ~ChildAlive

Wait ==
  /\ pc = "wait"
  /\ Waited
  /\ pc' = IF stop THEN "stopping" ELSE "backoff"
  /\ UNCHANGED <<stop, child, managers, history, faults>>

\* self.stop_event.wait(delay) is over, because of the delay or of the stop.
Backoff ==
  /\ pc = "backoff"
  /\ pc' = "check"
  /\ UNCHANGED <<stop, child, managers, history, faults>>

\* _stop_child() has nothing to do.
NoChild == child = NoManager \/ ~ChildAlive

StopChild ==
  /\ pc = "stopping"
  /\ IF NoChild
     THEN pc' = "done" /\ UNCHANGED managers
     ELSE pc' = "grace" /\ Term(child)
  /\ UNCHANGED <<stop, child, history, faults>>

\* wait(timeout=STOP_TIMEOUT) returns.
ChildStopped ==
  /\ pc = "grace"
  /\ ~ChildAlive
  /\ pc' = "done"
  /\ UNCHANGED <<stop, child, managers, history, faults>>

\* Mutant: wait() without a timeout.
NeverUp == FALSE

\* STOP_TIMEOUT may be over at any time: a scan or shutdown() may be slow.
TimeIsUp == TRUE

\* The loop runs and was never told to quit, so no time would be enough.
Deaf(m) == phase[m] = "loop" /\ ~quit[m]

Kill ==
  /\ pc = "grace"
  /\ ChildAlive
  /\ TimeIsUp
  /\ pc' = "done"
  /\ Dies(child)
  /\ haste' = IF Deaf(child) THEN haste ELSE "slow"
  /\ UNCHANGED <<stop, child, crashed, faults>>

\* There is no loop to quit yet.
Early == pc = "spawn" \/ (pc = "wait" /\ phase[child] \in {"init", "boot"})

\* The handler of SIGTERM and SIGINT, at any point of run()
RequestStop ==
  /\ pc # "done" /\ ~stop
  /\ stop' = TRUE
  /\ haste' = IF Early THEN "early" ELSE haste
  /\ IF ChildAlive THEN Term(child) ELSE UNCHANGED managers
  /\ UNCHANGED <<pc, child, crashed, faults>>

------------------------------------------------------------------------------
(* The manager's main()                                                    *)

Step(m, from, to) ==
  /\ phase[m] = from
  /\ phase' = [phase EXCEPT ![m] = to]

Ready(m) == Step(m, "init", "boot") /\ UNCHANGED <<quit, children>>

StartDevice(m) ==
  /\ phase[m] \in {"boot", "scan"}
  /\ m \notin children
  /\ children' = children \cup {m}
  /\ UNCHANGED <<phase, quit>>

\* manager.scan() returns to main().
Booted(m) == Step(m, "boot", "loop") /\ UNCHANGED <<quit, children>>

ScanBegins(m) == Step(m, "loop", "scan") /\ ~quit[m] /\ UNCHANGED <<quit, children>>

ScanEnds(m) == Step(m, "scan", "loop") /\ UNCHANGED <<quit, children>>

LoopEnds(m) == Step(m, "loop", "shutdown") /\ quit[m] /\ UNCHANGED <<quit, children>>

ShutdownEnds(m) ==
  /\ Step(m, "shutdown", "gone")
  /\ quit' = [quit EXCEPT ![m] = FALSE]
  /\ children' = children \ {m}

Main(m) ==
  \/ Ready(m) \/ Booted(m) \/ ScanEnds(m) \/ LoopEnds(m) \/ ShutdownEnds(m)

Crash(m) ==
  /\ m \in Alive
  /\ Fault
  /\ Dies(m)
  /\ crashed' = crashed \cup {m}
  /\ UNCHANGED <<supervisor, haste>>

\* install.sh terminates the manager, but not its supervisor.
OutsideTerm(m) ==
  /\ m \in Alive
  /\ Fault
  /\ Term(m)
  /\ UNCHANGED <<supervisor, history>>

------------------------------------------------------------------------------
Init ==
  /\ pc = "check"
  /\ stop = FALSE
  /\ child = NoManager
  /\ phase = [m \in Manager |-> "gone"]
  /\ quit = [m \in Manager |-> FALSE]
  /\ children = {}
  /\ crashed = {}
  /\ haste = "none"
  /\ faults = 0

Run == Check \/ Spawn \/ SpawnFails \/ Wait \/ Backoff \/ StopChild \/ ChildStopped \/ Kill

Next ==
  \/ Run \/ RequestStop
  \/ \E m \in Manager :
       \/ (Main(m) \/ StartDevice(m) \/ ScanBegins(m)) /\ UNCHANGED <<supervisor, history, faults>>
       \/ Crash(m) \/ OutsideTerm(m)

Spec == Init /\ [][Next]_vars

(* run() goes on, and so do the managers: the timeouts of scan() and       *)
(* shutdown() are finite.                                                  *)
Fairness ==
  /\ WF_vars(Run)
  /\ \A m \in Manager : WF_vars(Main(m) /\ UNCHANGED <<supervisor, history, faults>>)

FairSpec == Spec /\ Fairness

------------------------------------------------------------------------------
(* Properties                                                              *)

(* The supervisor never runs two managers, whenever signals and exits fall *)
(* between its checks and its starts.                                      *)
OneManager == Cardinality(Alive) <= 1

(* Nothing of a manager is left when the supervisor has stopped, but for   *)
(* what a crash left.                                                      *)
NothingLeft == Alive = {} /\ children \subseteq crashed

(* A stop that finds the manager's loop running, in a scan or between two, *)
(* and a manager that needs no more than its 25 seconds, takes down the    *)
(* manager and every backend and driver.                                   *)
StopLeavesNothing == pc = "done" /\ haste = "none" => NothingLeft

(* The supervisor's docstring: it forwards controlled shutdowns; here also *)
(* those that come while the manager starts.                               *)
ForwardsStop == pc = "done" /\ haste # "slow" => NothingLeft

(* A stop is carried out, from whatever point of run() it interrupts.      *)
StopEnds == stop ~> pc = "done"

(* Until it is stopped the supervisor replaces a manager that is gone.     *)
KeepsAlive == Alive = {} ~> Alive # {} \/ stop
=============================================================================
