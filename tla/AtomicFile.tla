------------------------------ MODULE AtomicFile ------------------------------
(***************************************************************************)
(* What atomic_write_json() promises of a state file: at every moment, and *)
(* also after a power loss, the file holds as a whole something that was   *)
(* put there, and a power loss goes back at most to what was durable.      *)
(***************************************************************************)
CONSTANTS
  Content,       \* what can be put: every value, and no file at all
  Bad            \* a file that is not valid, from outside of the program

VARIABLES
  visible,       \* what a reader finds
  durable        \* what a reader finds after a power loss

vars == <<visible, durable>>

Init == visible \in Content \cup {Bad} /\ durable = visible

\* A save, or a rename that takes the file away
Put(v) == visible' = v /\ UNCHANGED durable

\* The directory reaches the disk, when asked to or by itself.
Sync == durable' = visible /\ UNCHANGED visible

PowerLoss == visible' = durable /\ UNCHANGED durable

\* Something else spoils the file.
Damage == visible' = Bad /\ durable' = Bad

Next == Sync \/ PowerLoss \/ Damage \/ \E v \in Content : Put(v)

Spec == Init /\ [][Next]_vars
=============================================================================
