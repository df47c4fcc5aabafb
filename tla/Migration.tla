------------------------------ MODULE Migration ------------------------------
(***************************************************************************)
(* src/migrate-config.py: the one-shot migration from config.json, which   *)
(* knows devices by their hidraw name, to devices.json and the histories,  *)
(* which know them by serial.  It may be stopped anywhere and run again,   *)
(* by hand or by the installer, while the legacy services keep counting.   *)
(* Its two kinds of JSON files are atomic (module Storage).                *)
(***************************************************************************)
EXTENDS Naturals

CONSTANTS
  Serial,        \* the devices config.json has entries for
  None,          \* no history: no file, or nothing captured
  MaxTotal,      \* BOUND on the counter of a history
  MaxMin,        \* BOUND on its least battery voltage
  MaxFaults      \* BOUND on what goes wrong

ASSUME ConstantsAssumption ==
  /\ {MaxTotal, MaxMin, MaxFaults} \subseteq Nat
  /\ None \notin [total : Nat, min : Nat]

VARIABLES
  config,        \* is config.json there?
  legacy,        \* config.json.legacy
  manifest,      \* the serials in devices.json
  store,         \* [Serial -> its history file]
  live,          \* [Serial -> what its legacy service shows on D-Bus]
  pc,            \* where the script is
  mode,          \* its arguments
  found,         \* its `manifest`
  left,          \* the entries or serials its loop has still to visit
  captured,      \* its `captured`
  faults         \* how much of MaxFaults has been used

files == <<config, legacy, manifest, store>>
script == <<pc, mode, found, left, captured>>
vars == <<files, live, script, faults>>

\* A counter that only grows, and MinBatteryVoltage, where 0 is not known
History == [total : 0..MaxTotal, min : 0..MaxMin]

Retaining == {"retain", "copying", "copied"}

(* The variables have their types; config.json is gone when a run without  *)
(* --keep-config or --dry-run has come to its end.                         *)
TypeOK ==
  /\ config \in BOOLEAN
  /\ legacy \in {"absent", "partial", "full"}
  /\ manifest \in SUBSET Serial
  /\ store \in [Serial -> History \cup {None}]
  /\ live \in [Serial -> History \cup {None}]
  /\ pc \in {"stopped", "asking", "merging", "done"} \cup Retaining
  /\ mode \in {"migrate", "dry", "keep"}
  /\ found \in SUBSET Serial
  /\ left \in SUBSET Serial
  /\ captured \in [Serial -> History \cup {None}]
  /\ faults \in 0..MaxFaults
  /\ pc = "copying" => legacy = "partial"
  /\ pc = "copied" => legacy = "full"
  /\ pc \in Retaining => mode = "migrate" /\ left = {}
  /\ pc = "done" /\ mode = "migrate" => ~config

Fault == faults < MaxFaults /\ faults' = faults + 1

------------------------------------------------------------------------------
(* merge_history()                                                         *)

Greater(a, b) == IF a < b THEN b ELSE a
Lesser(a, b) == IF a < b THEN a ELSE b

\* Mutant: min() of the two, also when one of them is not known.
PlainMin(a, b) == Lesser(a, b)

\* min() of the positive ones
LeastPositive(a, b) == IF a = 0 THEN b ELSE IF b = 0 THEN a ELSE Lesser(a, b)

Merge(old, new) ==
  IF old = None THEN new
  ELSE IF new = None THEN old
  ELSE [total |-> Greater(old.total, new.total), min |-> LeastPositive(old.min, new.min)]

\* h knows all that g does.
Covers(h, g) ==
  g # None => /\ h # None
              /\ h.total >= g.total
              /\ g.min > 0 => h.min > 0 /\ h.min <= g.min

\* A store without any known value is written all the same.
Written(h) == IF h = None THEN [total |-> 0, min |-> 0] ELSE h

------------------------------------------------------------------------------
(* migrate()                                                               *)

Begin(m) ==
  /\ pc \in {"stopped", "done"} /\ config
  /\ pc' = "asking" /\ mode' = m
  /\ found' = {} /\ left' = Serial
  /\ captured' = [s \in Serial |-> None]
  /\ UNCHANGED <<files, live, faults>>

\* get-serial-number and dbus_history(): {} if the service is not there or
\* one of its paths does not answer.
Ask(s) ==
  /\ pc = "asking" /\ s \in left
  /\ \E h \in {live[s], None} :
       /\ IF h = live[s] THEN UNCHANGED faults ELSE Fault
       /\ captured' = [captured EXCEPT ![s] = h]
  /\ found' = found \cup {s}
  /\ left' = left \ {s}
  /\ UNCHANGED <<files, live, pc, mode>>

\* Mutant: an entry whose inverter does not answer is left out.
LeftOut(s) == left' = left \ {s} /\ UNCHANGED pc

\* RuntimeError: no answer after five attempts, or a serial it already has
Raised(s) == pc' = "stopped" /\ UNCHANGED left

AskFails(s) ==
  /\ Fault
  /\ pc = "asking" /\ s \in left
  /\ Raised(s)
  /\ UNCHANGED <<files, live, mode, found, captured>>

\* save_manifest(), unless --dry-run
SaveManifest ==
  /\ pc = "asking" /\ left = {}
  /\ IF mode = "dry"
     THEN pc' = "done" /\ UNCHANGED <<manifest, left>>
     ELSE pc' = "merging" /\ manifest' = found /\ left' = found
  /\ UNCHANGED <<config, legacy, store, live, mode, found, captured, faults>>

\* store.save(merge_history(store.load(), values))
SaveHistory(s) ==
  /\ pc = "merging" /\ s \in left
  /\ store' = [store EXCEPT ![s] = Written(Merge(@, captured[s]))]
  /\ left' = left \ {s}
  /\ UNCHANGED <<config, legacy, manifest, live, pc, mode, found, captured, faults>>

\* Mutant: the sense of the argument is turned round.
KeepsMigrated == mode = "migrate"

\* --keep-config
Keeps == mode = "keep"

HistoriesSaved ==
  /\ pc = "merging" /\ left = {}
  /\ pc' = IF Keeps THEN "done" ELSE "retain"
  /\ UNCHANGED <<files, live, mode, found, left, captured, faults>>

Rename ==
  /\ pc = "retain" /\ legacy = "absent"
  /\ config' = FALSE /\ legacy' = "full"
  /\ pc' = "done"
  /\ UNCHANGED <<manifest, store, live, mode, found, left, captured, faults>>

\* Mutant: the file is moved over the old one, across file systems.
Moved == config' = FALSE

Copied == config' = config

\* shutil.copy2() over an older config.json.legacy
CopyBegins ==
  /\ pc = "retain" /\ legacy # "absent"
  /\ legacy' = "partial"
  /\ Copied
  /\ pc' = "copying"
  /\ UNCHANGED <<manifest, store, live, mode, found, left, captured, faults>>

CopyEnds ==
  /\ pc = "copying"
  /\ legacy' = "full"
  /\ pc' = "copied"
  /\ UNCHANGED <<config, manifest, store, live, mode, found, left, captured, faults>>

Unlink ==
  /\ pc = "copied"
  /\ config' = FALSE
  /\ pc' = "done"
  /\ UNCHANGED <<legacy, manifest, store, live, mode, found, left, captured, faults>>

\* A signal, or a disk that takes no more
Stopped ==
  /\ Fault
  /\ pc \notin {"stopped", "done"}
  /\ pc' = "stopped"
  /\ UNCHANGED <<files, live, mode, found, left, captured>>

------------------------------------------------------------------------------
(* The legacy services, and whoever puts config.json back                  *)

Poll(s) ==
  /\ live[s] # None
  /\ \E h \in History :
       /\ Covers(h, live[s]) /\ h # live[s]
       /\ h.total <= live[s].total + 1
       /\ live' = [live EXCEPT ![s] = h]
  /\ UNCHANGED <<files, script, faults>>

\* A legacy service starts again from nothing, or is gone.
ServiceRestarts(s) ==
  /\ Fault
  /\ \E h \in {None, [total |-> 0, min |-> 0]} : live' = [live EXCEPT ![s] = h]
  /\ UNCHANGED <<files, script>>

\* git checkout of the old revision, a rollback: the legacy file stays.
ConfigReturns ==
  /\ Fault
  /\ ~config /\ pc = "done"
  /\ config' = TRUE
  /\ pc' = "stopped"
  /\ UNCHANGED <<legacy, manifest, store, live, mode, found, left, captured>>

------------------------------------------------------------------------------
Init ==
  /\ config = TRUE
  /\ legacy \in {"absent", "full"}
  /\ manifest \in {{}, Serial}
  /\ store = [s \in Serial |-> None]
  /\ live = [s \in Serial |-> [total |-> 0, min |-> 0]]
  /\ pc = "stopped" /\ mode = "migrate"
  /\ found = {} /\ left = {}
  /\ captured = [s \in Serial |-> None]
  /\ faults = 0

Next ==
  \/ \E m \in {"migrate", "dry", "keep"} : Begin(m)
  \/ SaveManifest \/ HistoriesSaved
  \/ Rename \/ CopyBegins \/ CopyEnds \/ Unlink
  \/ Stopped \/ ConfigReturns
  \/ \E s \in Serial :
       Ask(s) \/ AskFails(s) \/ SaveHistory(s) \/ Poll(s) \/ ServiceRestarts(s)

Spec == Init /\ [][Next]_vars

------------------------------------------------------------------------------
(* Properties                                                              *)

(* Wherever the script is stopped, the old configuration exists as a whole *)
(* under one of its two names, also when there was a .legacy file before.  *)
ConfigKept == config \/ legacy = "full"

(* config.json is only gone when every entry has its serial in             *)
(* devices.json and every history that was captured is in its store:       *)
(* README.md:121-123 retains the file only after every entry has one.      *)
DoneMeansAll ==
  ~config => manifest = Serial /\ \A s \in Serial : Covers(store[s], captured[s])

(* A history never loses what it knows, however often the migration is     *)
(* stopped and repeated and whatever the legacy services forget.           *)
NoHistoryLost ==
  [][\A s \in Serial : Covers(store'[s], store[s])]_vars
=============================================================================
