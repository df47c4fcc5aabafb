------------------------------ MODULE Directory ------------------------------
(***************************************************************************)
(* What the hotplug manager promises to whoever reads D-Bus: a serial's    *)
(* services show the device with that serial, while it is there, and never *)
(* turn from one device to another without being gone in between.          *)
(***************************************************************************)
CONSTANTS
  Device, Serial,
  SerialOf,      \* [Device -> the serial of a device, or something else]
  Nothing        \* a serial shows no device

VARIABLES
  present,       \* the devices that are plugged in
  shows          \* [Serial -> Device \cup {Nothing}]

vars == <<present, shows>>

Init == present \in SUBSET Device /\ shows = [s \in Serial |-> Nothing]

\* What the serials show when those of S have lost their device
Without(S) == [s \in Serial |-> IF s \in S THEN Nothing ELSE shows[s]]

Arrive == \E d \in Device : present' = present \cup {d} /\ UNCHANGED shows

Leave ==
  \E d \in Device :
    /\ present' = present \ {d}
    /\ shows' = Without({s \in Serial : shows[s] = d})

\* Services stop, of any number of serials at once.
Stop == UNCHANGED present /\ \E S \in SUBSET Serial : shows' = Without(S)

Start ==
  \E d \in present, s \in Serial :
    /\ SerialOf[d] = s
    /\ shows[s] = Nothing
    /\ shows' = [shows EXCEPT ![s] = d]
    /\ UNCHANGED present

Next == Arrive \/ Leave \/ Stop \/ Start

Spec == Init /\ [][Next]_vars
=============================================================================
