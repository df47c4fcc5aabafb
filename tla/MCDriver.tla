------------------------------- MODULE MCDriver ------------------------------
(***************************************************************************)
(* Values of the constants of Driver for TLC.                              *)
(***************************************************************************)
EXTENDS Driver

CONSTANTS battery, fault, line

\* An inverter without a fault, with and without an active warning, and one
\* with a fault code
SomeAlerts == {[fault |-> 0, active |-> FALSE], [fault |-> 0, active |-> TRUE],
               [fault |-> 5, active |-> TRUE]}

NoAlerts == {[fault |-> 0, active |-> FALSE]}
=============================================================================
