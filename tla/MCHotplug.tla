------------------------------ MODULE MCHotplug ------------------------------
(***************************************************************************)
(* Values of the constants of Hotplug for TLC.                             *)
(***************************************************************************)
EXTENDS Hotplug, TLC

CONSTANTS d0, d1, d2, s0, s1

\* Two P18 devices and one that claims the serial of the first
SerialOfDuplicate == (d0 :> s0) @@ (d1 :> s1) @@ (d2 :> s0)

\* Two P18 devices and one that is not protocol 18
SerialOfAlien == (d0 :> s0) @@ (d1 :> s1) @@ (d2 :> NoSerial)

SerialOfPair == (d0 :> s0) @@ (d1 :> s1)

\* Seconds before the next start, scaled down: positive and not decreasing
ShortDelay == [a \in 0..MaxExponent |-> IF a < 2 THEN 1 ELSE 2]
=============================================================================
