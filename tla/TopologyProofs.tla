---------------------------- MODULE TopologyProofs ----------------------------
(***************************************************************************)
(* Proofs about Topology: its type invariant, and that a driver which      *)
(* divides by another count than its slot shows is going to be told.       *)
(***************************************************************************)
EXTENDS Topology, FiniteSetTheorems, SequenceTheorems, TLAPS

-----------------------------------------------------------------------------
(* Counts                                                                  *)

LEMMA FallbackType ==
  ASSUME NEW S, S \subseteq Serial
  PROVE  Fallback(S) \in Count
<1>1. IsFiniteSet(1..7) /\ Cardinality(1..7) = 7
  <2>1. 1 \in Int /\ 7 \in Int /\ ~(1 > 7) /\ 7 - 1 + 1 = 7
    OBVIOUS
  <2>2. QED
    BY <2>1, FS_Interval
<1>2. IsFiniteSet(S) /\ Cardinality(S) <= 7
  BY <1>1, FS_Subset, ConstantsAssumption
<1>3. Cardinality(S) \in Nat /\ (S # {} => Cardinality(S) # 0)
  BY <1>2, FS_CardinalityType, FS_EmptySet
<1>4. QED
  BY <1>2, <1>3 DEF Fallback, Count

LEMMA RecordsOfType ==
  ASSUME NEW rs
  PROVE  RecordsOf(rs) \subseteq Serial
BY DEF RecordsOf

LEMMA SlotType ==
  ASSUME TypeOK, NEW s \in Serial
  PROVE  Slot(s) \in Count
BY FallbackType, RecordsOfType DEF TypeOK, Slot, Recorded

\* A unit that does not answer is not counted; with no answer at all the
\* fallback is.
LEMMA AskedType ==
  ASSUME TypeOK, NEW p, NEW n \in 0..Listed(p), NEW S \in SUBSET Serial
  PROVE  Members(n, Fallback(S)) \in Count
<1> DEFINE t == {s \in plugged \ moved : records[s] = p}
<1>1. Listed(p) \in 0..MaxUnits
  <2>1. CASE t = {}
    BY <2>1, ConstantsAssumption DEF Listed
  <2>2. CASE t # {}
    <3>1. (CHOOSE s \in t : TRUE) \in Serial
      BY <2>2 DEF TypeOK
    <3>2. QED
      BY <2>2, <3>1 DEF Listed, TypeOK
  <2>3. QED
    BY <2>1, <2>2
<1>2. Fallback(S) \in Count
  BY FallbackType
<1>3. n = 0 \/ n \in 1..7
  BY <1>1, ConstantsAssumption
<1>4. QED
  BY <1>2, <1>3 DEF Members, Count

-----------------------------------------------------------------------------
(* Calls under way                                                         *)

LEMMA CallsType ==
  ASSUME TypeOK, NEW s \in Serial
  PROVE  {s} \X ToSet(inbox[s]) \subseteq Serial \X Count
BY DEF ToSet, TypeOK

LEMMA SendType ==
  ASSUME TypeOK, NEW s \in Serial, NEW c \in Count, Room(s)
  PROVE  /\ Send(s, c) \in Seq(Count)
         /\ Len(Send(s, c)) <= MaxInbox
         /\ Send(s, c) # <<>> => process[s] = "up"
<1>1. CASE Reaches(s)
  <2>1. /\ Append(inbox[s], c) \in Seq(Count)
        /\ Len(Append(inbox[s], c)) = Len(inbox[s]) + 1
    BY AppendProperties DEF TypeOK
  <2>2. Len(inbox[s]) \in Nat /\ Len(inbox[s]) < MaxInbox
    BY <1>1, LenProperties DEF TypeOK, Room
  <2>3. QED
    BY <1>1, <2>1, <2>2, ConstantsAssumption DEF Send, Reaches
<1>2. CASE ~Reaches(s)
  BY <1>2 DEF Send, TypeOK
<1>3. QED
  BY <1>1, <1>2

-----------------------------------------------------------------------------
(* Types                                                                   *)

LEMMA InitType ==
  ASSUME Init
  PROVE  TypeOK
<1>1. \A s \in Serial : inbox[s] = <<>> /\ Len(inbox[s]) = 0
  BY DEF Init
<1>2. Idle \in [pc : {"idle", "asking", "failed"}, snapshot : Snapshot,
                counts : [Serial -> Count \cup {0}]] /\ Idle.pc = "idle"
  BY DEF Idle, NoSnapshot, Snapshot
<1>3. /\ inbox \in [Serial -> Seq(Count)]
      /\ \A s \in Serial : Len(inbox[s]) <= MaxInbox /\ (inbox[s] # <<>> => process[s] = "up")
  BY <1>1, ConstantsAssumption DEF Init
<1>4. /\ plugged \in SUBSET Serial /\ moved \in SUBSET Serial
      /\ wired \in [Serial -> 0..MaxUnits]
      /\ records \in Snapshot
      /\ last \in SUBSET Serial /\ late \in SUBSET Serial
      /\ retries \subseteq Serial \X Count
  BY DEF Init, NoSnapshot, Snapshot
<1>5. /\ process \in [Serial -> {"none", "starting", "up"}]
      /\ chargers \in [Serial -> Count]
      /\ counts \in [Serial -> Count \cup {0}]
      /\ faults \in 0..MaxFaults
  BY ConstantsAssumption DEF Init, Count
<1>6. {due, running} \subseteq BOOLEAN /\ worker = Idle /\ running = FALSE
  BY DEF Init
<1>7. QED
  BY <1>2, <1>3, <1>4, <1>5, <1>6 DEF TypeOK

LEMMA ScanType ==
  ASSUME TypeOK, Scan
  PROVE  TypeOK'
<1>1. PICK S \in SUBSET Startable :
        /\ IF (plugged \ Recorded) \cup moved \subseteq S THEN UNCHANGED faults ELSE Fault
        /\ \E f \in PortsOf(S) :
             LET rs == [s \in Serial |-> IF s \in S THEN f[s]
                                         ELSE IF s \in Kept THEN records[s] ELSE NoPort]
             IN records' = rs /\ Schedule(rs)
        /\ process' = [s \in Serial |-> IF s \in S THEN "starting"
                                        ELSE IF s \in Kept THEN process[s] ELSE "none"]
        /\ inbox' = [s \in Serial |-> IF s \in Kept THEN inbox[s] ELSE <<>>]
        /\ Retried(UNION {{s} \X ToSet(inbox[s]) : s \in Serial \ Kept})
        /\ chargers' = [s \in Serial |-> IF s \in Kept THEN chargers[s] ELSE 1]
        /\ late' = (late \cap Kept) \cup (S \cap Recorded)
  BY DEF Scan
<1>2. S \subseteq Serial /\ S \cap Kept = {} /\ Kept \subseteq Serial /\ Recorded \subseteq Serial
  BY <1>1 DEF Startable, Kept, Recorded, RecordsOf, TypeOK
<1>3. faults' \in 0..MaxFaults
  BY <1>1, ConstantsAssumption DEF Fault, TypeOK
<1>4. PICK f \in PortsOf(S) :
        LET rs == [s \in Serial |-> IF s \in S THEN f[s]
                                    ELSE IF s \in Kept THEN records[s] ELSE NoPort]
        IN records' = rs /\ Schedule(rs)
  BY <1>1
<1>5. \A s \in S : f[s] \in Port
  BY DEF PortsOf
<1>6. records' \in Snapshot /\ Schedule(records')
  BY <1>2, <1>4, <1>5 DEF Snapshot, TypeOK
<1>7. /\ counts' \in [Serial -> Count \cup {0}]
      /\ last' \in SUBSET Serial
      /\ {due', running'} \subseteq BOOLEAN
      /\ worker' \in [pc : {"idle", "asking", "failed"}, snapshot : Snapshot,
                      counts : [Serial -> Count \cup {0}]]
      /\ running' <=> worker'.pc # "idle"
  <2>1. CASE RecordsOf(records') = {}
    <3>1. \/ UNCHANGED <<manager, worker>>
          \/ /\ counts' = [s \in Serial |-> 0] /\ last' = {} /\ due' = FALSE
             /\ UNCHANGED <<running, worker>>
      BY <1>6, <2>1 DEF Schedule
    <3>2. CASE UNCHANGED <<manager, worker>>
      BY <3>2 DEF manager, TypeOK
    <3>3. CASE /\ counts' = [s \in Serial |-> 0] /\ last' = {} /\ due' = FALSE
               /\ UNCHANGED <<running, worker>>
      <4>1. counts' \in [Serial -> Count \cup {0}]
        BY <3>3
      <4>2. QED
        BY <3>3, <4>1 DEF TypeOK
    <3>4. QED
      BY <3>1, <3>2, <3>3
  <2>2. CASE UNCHANGED <<manager, worker>>
    BY <2>2 DEF manager, TypeOK
  <2>3. CASE /\ running' = TRUE
             /\ worker' = [Idle EXCEPT !.pc = "asking", !.snapshot = records']
             /\ UNCHANGED <<counts, last, due>>
    <3>1. /\ worker'.pc = "asking"
          /\ worker' \in [pc : {"idle", "asking", "failed"}, snapshot : Snapshot,
                          counts : [Serial -> Count \cup {0}]]
      BY <1>6, <2>3 DEF Idle
    <3>2. QED
      BY <2>3, <3>1 DEF TypeOK
  <2>4. QED
    BY <1>6, <2>1, <2>2, <2>3 DEF Schedule
<1>8. /\ process' \in [Serial -> {"none", "starting", "up"}]
      /\ chargers' \in [Serial -> Count]
  BY <1>1, <1>2 DEF TypeOK, Count
<1>9. \A s \in Serial :
        /\ inbox'[s] \in Seq(Count)
        /\ Len(inbox'[s]) <= MaxInbox
        /\ inbox'[s] # <<>> => process'[s] = "up"
  <2>1. ASSUME NEW s \in Serial, s \notin Kept PROVE inbox'[s] = <<>>
    BY <1>1, <2>1
  <2>2. ASSUME NEW s \in Kept PROVE inbox'[s] = inbox[s] /\ process'[s] = process[s]
    BY <1>1, <1>2, <2>2
  <2>3. <<>> \in Seq(Count) /\ Len(<<>>) = 0 /\ 0 <= MaxInbox
    BY ConstantsAssumption
  <2>4. ASSUME NEW s \in Kept
        PROVE  /\ inbox'[s] \in Seq(Count)
               /\ Len(inbox'[s]) <= MaxInbox
               /\ inbox'[s] # <<>> => process'[s] = "up"
    BY <1>2, <2>2 DEF TypeOK
  <2>5. QED
    BY <2>1, <2>3, <2>4
<1>10. inbox' \in [Serial -> Seq(Count)]
  BY <1>1, <1>9
<1>11. retries' \subseteq Serial \X Count
  BY <1>1, CallsType DEF Retried, TypeOK
<1>12. QED
  BY <1>1, <1>2, <1>3, <1>6, <1>7, <1>8, <1>9, <1>10, <1>11 DEF Scan, TypeOK

LEMMA ApplyType ==
  ASSUME TypeOK, Apply
  PROVE  TypeOK'
<1>1. Idle \in [pc : {"idle", "asking", "failed"}, snapshot : Snapshot,
                counts : [Serial -> Count \cup {0}]] /\ Idle.pc = "idle"
  BY DEF Idle, NoSnapshot, Snapshot
<1>2. CASE Recorded = RecordsOf(worker.snapshot)
  <2>1. /\ \A s \in Recorded : Room(s)
        /\ counts' = [s \in Serial |->
                        IF s \notin Recorded THEN 0
                        ELSE IF worker.counts[s] = 0 THEN Fallback(Recorded)
                        ELSE worker.counts[s]]
        /\ last' = Recorded
        /\ due' = FALSE
        /\ inbox' = [s \in Serial |->
                       IF s \in Recorded THEN Send(s, counts'[s]) ELSE inbox[s]]
        /\ Retried({<<s, counts'[s]>> : s \in {r \in Recorded : ~Reaches(r)}})
        /\ late' = {}
    BY <1>2 DEF Apply, TakeCounts
  <2>2. Recorded \subseteq Serial
    BY RecordsOfType DEF Recorded
  <2>3. \A s \in Recorded : counts'[s] \in Count
    BY <2>1, <2>2, FallbackType DEF TypeOK
  <2>4. counts' \in [Serial -> Count \cup {0}]
    BY <2>1, <2>3
  <2>5. \A s \in Serial :
          /\ inbox'[s] \in Seq(Count)
          /\ Len(inbox'[s]) <= MaxInbox
          /\ inbox'[s] # <<>> => process[s] = "up"
    <3>1. ASSUME NEW s \in Recorded PROVE inbox'[s] = Send(s, counts'[s])
      BY <2>1, <2>2, <3>1
    <3>2. ASSUME NEW s \in Serial \ Recorded PROVE inbox'[s] = inbox[s]
      BY <2>1, <3>2
    <3>3. QED
      BY <2>1, <2>2, <2>3, <3>1, <3>2, SendType DEF TypeOK
  <2>6. inbox' \in [Serial -> Seq(Count)]
    BY <2>1, <2>5
  <2>7. retries' \subseteq Serial \X Count
    <3>1. {<<s, counts'[s]>> : s \in {r \in Recorded : ~Reaches(r)}} \subseteq Serial \X Count
      BY <2>2, <2>3
    <3>2. QED
      BY <2>1, <3>1 DEF Retried, TypeOK
  <2>8. QED
    BY <1>1, <2>1, <2>2, <2>4, <2>5, <2>6, <2>7 DEF Apply, devices, TypeOK
<1>3. CASE Recorded # RecordsOf(worker.snapshot)
  BY <1>1, <1>3 DEF Apply, devices, TypeOK
<1>4. QED
  BY <1>2, <1>3

LEMMA ApplyRaisesType ==
  ASSUME TypeOK, ApplyRaises
  PROVE  TypeOK'
<1>1. /\ Idle \in [pc : {"idle", "asking", "failed"}, snapshot : Snapshot,
                   counts : [Serial -> Count \cup {0}]]
      /\ Idle.pc = "idle"
  BY DEF Idle, NoSnapshot, Snapshot
<1>2. Recorded \subseteq Serial
  BY RecordsOfType DEF Recorded
<1>3. counts' \in [Serial -> Count \cup {0}]
  BY <1>2, FallbackType DEF ApplyRaises, TakeCounts, TypeOK
<1>4. last' \in SUBSET Serial /\ late' \in SUBSET Serial /\ due' \in BOOLEAN
  BY <1>2 DEF ApplyRaises, TakeCounts, TypeOK
<1>5. faults' \in 0..MaxFaults
  BY ConstantsAssumption DEF ApplyRaises, Fault, TypeOK
<1>6. QED
  BY <1>1, <1>3, <1>4, <1>5 DEF ApplyRaises, devices, drivers, TypeOK

LEMMA WorkerType ==
  ASSUME TypeOK, Ask \/ WorkerFails
  PROVE  TypeOK'
<1>1. faults' \in 0..MaxFaults
  <2>1. UNCHANGED faults \/ Fault
    BY DEF Ask, WorkerFails
  <2>2. QED
    BY <2>1, ConstantsAssumption DEF Fault, TypeOK
<1>2. CASE Ask
  <2> DEFINE s == CHOOSE x \in Unasked : \A y \in Unasked : x <= y
             W == [pc : {"idle", "asking", "failed"}, snapshot : Snapshot,
                   counts : [Serial -> Count \cup {0}]]
  <2>1. PICK n \in 0..Listed(worker.snapshot[s]) :
          worker' = [worker EXCEPT !.counts[s] =
                       Members(n, Fallback(RecordsOf(worker.snapshot)))]
    BY <1>2 DEF Ask
  <2>2. Members(n, Fallback(RecordsOf(worker.snapshot))) \in Count
    BY AskedType, RecordsOfType
  <2> HIDE DEF s
  <2>3. worker' \in W /\ worker'.pc = worker.pc
    BY <2>1, <2>2 DEF TypeOK
  <2>4. QED
    BY <1>1, <1>2, <2>3 DEF Ask, devices, drivers, manager, TypeOK
<1>3. CASE WorkerFails
  BY <1>1, <1>3 DEF WorkerFails, Idle, devices, drivers, manager, TypeOK
<1>4. QED
  BY <1>2, <1>3

LEMMA CallType ==
  ASSUME TypeOK, NEW s \in Serial, Retries(s) \/ TimesOut(s)
  PROVE  TypeOK'
<1>1. ASSUME NEW r \in retries, r[1] = s, Retry(s, r[2]) PROVE TypeOK'
  <2> DEFINE c == r[2]
  <2>1. c \in Count
    BY <1>1 DEF TypeOK
  <2> HIDE DEF c
  <2>2. Retry(s, c)
    BY <1>1 DEF c
  <2>3. ASSUME s \in Recorded
        PROVE  /\ inbox' \in [Serial -> Seq(Count)]
               /\ \A t \in Serial : Len(inbox'[t]) <= MaxInbox /\ (inbox'[t] # <<>> => process[t] = "up")
    <3>1. inbox' = [inbox EXCEPT ![s] = Send(s, c)] /\ Room(s)
      BY <2>2, <2>3 DEF Retry
    <3>2. QED
      BY <2>1, <3>1, SendType DEF TypeOK
  <2>4. CASE s \in Recorded
    BY <2>2, <2>3, <2>4 DEF Retry, devices, manager, TypeOK
  <2>5. CASE s \notin Recorded
    BY <2>2, <2>5 DEF Retry, devices, manager, TypeOK
  <2>6. QED
    BY <2>4, <2>5
<1>2. CASE TimesOut(s)
  <2>1. Head(inbox[s]) \in Count
    BY <1>2, HeadTailProperties DEF TimesOut, TypeOK
  <2>2. faults' \in 0..MaxFaults
    BY <1>2, ConstantsAssumption DEF TimesOut, Fault, TypeOK
  <2>3. QED
    BY <1>2, <2>1, <2>2 DEF TimesOut, Retried, devices, drivers, manager, TypeOK
<1>3. QED
  BY <1>1, <1>2 DEF Retries

LEMMA DriverType ==
  ASSUME TypeOK, NEW s \in Serial, Driver(s) \/ Exit(s)
  PROVE  TypeOK'
<1>1. CASE Register(s)
  <2>1. inbox[s] = <<>>
    BY <1>1 DEF Register, TypeOK
  <2>2. QED
    BY <1>1, <2>1 DEF Register, devices, manager, TypeOK
<1>2. CASE Deliver(s)
  <2>1. /\ Head(inbox[s]) \in Count
        /\ Tail(inbox[s]) \in Seq(Count)
        /\ Len(Tail(inbox[s])) = Len(inbox[s]) - 1
        /\ Len(inbox[s]) \in Nat
    BY <1>2, HeadTailProperties, LenProperties DEF Deliver, TypeOK
  <2>2. Len(inbox[s]) - 1 <= MaxInbox
    BY <2>1, ConstantsAssumption DEF TypeOK
  <2>3. QED
    BY <1>2, <2>1, <2>2 DEF Deliver, devices, manager, TypeOK
<1>3. CASE Exit(s)
  <2>1. faults' \in 0..MaxFaults
    BY <1>3, ConstantsAssumption DEF Exit, Fault, TypeOK
  <2>2. retries' \subseteq Serial \X Count
    BY <1>3, CallsType DEF Exit, Retried, TypeOK
  <2>3. <<>> \in Seq(Count) /\ Len(<<>>) = 0
    OBVIOUS
  <2>4. QED
    <3>1. /\ process' \in [Serial -> {"none", "starting", "up"}]
          /\ chargers' \in [Serial -> Count]
          /\ inbox' \in [Serial -> Seq(Count)]
      BY <1>3, <2>3 DEF Exit, TypeOK, Count
    <3>2. \A t \in Serial : Len(inbox'[t]) <= MaxInbox /\ (inbox'[t] # <<>> => process'[t] = "up")
      BY <1>3, <2>3, ConstantsAssumption DEF Exit, TypeOK
    <3>3. QED
      BY <1>3, <2>1, <2>2, <3>1, <3>2 DEF Exit, devices, manager, TypeOK
<1>4. QED
  BY <1>1, <1>2, <1>3 DEF Driver

LEMMA DeviceType ==
  ASSUME TypeOK, NEW s \in Serial,
         Unplug(s) \/ Plug(s) \/ \E n \in 0..MaxUnits : Rewire(s, n)
  PROVE  TypeOK'
<1>1. faults' \in 0..MaxFaults
  BY ConstantsAssumption DEF Unplug, Plug, Rewire, Fault, TypeOK
<1>2. /\ plugged' \in SUBSET Serial /\ moved' \in SUBSET Serial
      /\ wired' \in [Serial -> 0..MaxUnits]
  BY DEF Unplug, Plug, Rewire, TypeOK
<1>3. UNCHANGED <<records, drivers, manager, worker, retries, late>>
  BY DEF Unplug, Plug, Rewire
<1>4. QED
  BY <1>1, <1>2, <1>3 DEF drivers, manager, TypeOK

(* For any devices, ports, units and bounds: the variables have their      *)
(* types, and the flag that keeps a second topology worker from starting   *)
(* is set exactly while there is one.                                      *)
THEOREM TypeCorrect == Spec => []TypeOK
<1>1. Init => TypeOK
  BY InitType
<1>2. TypeOK /\ [Next]_vars => TypeOK'
  <2>1. RefreshDue /\ TypeOK => TypeOK'
    BY DEF RefreshDue, devices, drivers, TypeOK
  <2>2. UNCHANGED vars /\ TypeOK => TypeOK'
    BY DEF vars, devices, drivers, manager, TypeOK
  <2>3. QED
    BY <2>1, <2>2, ScanType, ApplyType, ApplyRaisesType, WorkerType, CallType, DriverType, DeviceType DEF Next
<1>3. QED
  BY <1>1, <1>2, PTL DEF Spec

-----------------------------------------------------------------------------
(* Drivers are told                                                        *)

\* The counts are for the serials of the last refresh.
Counted == \A s \in last : counts[s] # 0

\* A set of serials without a refresh has one running or due.
Scheduled == Recorded = last \/ running \/ due

\* What driver s will divide by when it has handled its calls
Newest(s) == IF inbox[s] = <<>> THEN chargers[s] ELSE inbox[s][Len(inbox[s])]

\* More calls to driver s are to come.
Coming(s) ==
  \/ running \/ due \/ Recorded # last
  \/ \E c \in Count : <<s, c>> \in retries
  \/ s \in late

\* A process that has no D-Bus name yet counts, too.
Promised ==
  \A s \in Recorded : process[s] # "none" => Newest(s) = Slot(s) \/ Coming(s)

Informed == Counted /\ Scheduled /\ Promised

\* A step that changes nothing of what the slots show and of what is planned
Calm == UNCHANGED <<records, process, counts, last, due, running, late>>

LEMMA CalmKeepsInformed ==
  ASSUME TypeOK, Informed, Calm, retries \subseteq retries',
         \A s \in Recorded : process[s] # "none" => Newest(s)' = Newest(s)
  PROVE  Informed'
<1>1. Recorded' = Recorded
  BY DEF Calm, Recorded, RecordsOf
<1>2. \A s \in Serial : Slot(s)' = Slot(s)
  BY <1>1 DEF Calm, Slot
<1>3. \A s \in Serial : Coming(s) => Coming(s)'
  BY <1>1 DEF Calm, Coming
<1>4. Counted' /\ Scheduled'
  BY <1>1 DEF Calm, Informed, Counted, Scheduled
<1>5. Promised'
  BY <1>1, <1>2, <1>3 DEF Calm, Informed, Promised, Recorded, RecordsOf
<1>6. QED
  BY <1>4, <1>5 DEF Informed

\* The last of a sequence of calls
LEMMA NewestIsSent ==
  ASSUME TypeOK, NEW s \in Serial, NEW c \in Count, Reaches(s), inbox'[s] = Send(s, c)
  PROVE  Newest(s)' = c
<1>1. /\ Len(Append(inbox[s], c)) = Len(inbox[s]) + 1
      /\ Append(inbox[s], c)[Len(inbox[s]) + 1] = c
      /\ Append(inbox[s], c) # <<>>
  BY AppendProperties DEF TypeOK
<1>2. QED
  BY <1>1 DEF Newest, Send

\* A call that is handled leaves the last one as it is, or was the last.
LEMMA TailKeepsLast ==
  ASSUME NEW q \in Seq(Count), q # <<>>
  PROVE  IF Tail(q) = <<>>
         THEN Head(q) = q[Len(q)]
         ELSE Tail(q)[Len(Tail(q))] = q[Len(q)]
<1> DEFINE n == Len(q)
<1>1. n \in Nat /\ n # 0
  BY EmptySeq, LenProperties
<1>2. Head(q) = q[1]
  OBVIOUS
<1>3. Tail(q) \in Seq(Count) /\ Len(Tail(q)) = n - 1
  BY HeadTailProperties
<1>4. \A i \in 1 .. Len(Tail(q)) : Tail(q)[i] = q[i + 1]
  BY HeadTailProperties
<1> HIDE DEF n
<1>5. n - 1 = 0 <=> Tail(q) = <<>>
  BY <1>3, EmptySeq
<1>6. ASSUME n # 1 PROVE n - 1 \in 1 .. n - 1 /\ (n - 1) + 1 = n
  BY <1>1, <1>6
<1>7. CASE n = 1
  BY <1>2, <1>5, <1>7 DEF n
<1>8. CASE n # 1
  <2>1. Tail(q) # <<>>
    BY <1>1, <1>5, <1>8
  <2>2. Tail(q)[n - 1] = q[n]
    BY <1>3, <1>4, <1>6, <1>8
  <2>3. QED
    BY <1>3, <2>1, <2>2 DEF n
<1>9. QED
  BY <1>7, <1>8

LEMMA ScanInforms ==
  ASSUME TypeOK, Informed, Scan
  PROVE  Informed'
<1>1. PICK S \in SUBSET Startable :
        /\ \E f \in PortsOf(S) :
             LET rs == [s \in Serial |-> IF s \in S THEN f[s]
                                         ELSE IF s \in Kept THEN records[s] ELSE NoPort]
             IN records' = rs /\ Schedule(rs)
        /\ process' = [s \in Serial |-> IF s \in S THEN "starting"
                                        ELSE IF s \in Kept THEN process[s] ELSE "none"]
        /\ inbox' = [s \in Serial |-> IF s \in Kept THEN inbox[s] ELSE <<>>]
        /\ Retried(UNION {{s} \X ToSet(inbox[s]) : s \in Serial \ Kept})
        /\ chargers' = [s \in Serial |-> IF s \in Kept THEN chargers[s] ELSE 1]
        /\ late' = (late \cap Kept) \cup (S \cap Recorded)
  BY DEF Scan
<1>2. Schedule(records')
  BY <1>1
<1>3. Recorded' = RecordsOf(records')
  BY DEF Recorded, RecordsOf
<1>4. Kept \subseteq Recorded /\ Recorded \subseteq Serial /\ Recorded' \subseteq Serial
  BY RecordsOfType DEF Kept, Recorded
<1>5. CASE Recorded' = {}
  <2>1. last' = {} \/ UNCHANGED manager
    BY <1>2, <1>3, <1>5 DEF Schedule
  <2>2. Counted'
    BY <2>1 DEF Counted, Informed, manager
  <2>3. Scheduled'
    BY <1>2, <1>3, <1>5 DEF Schedule, Scheduled, NotNeeded, manager
  <2>4. QED
    BY <1>5, <2>2, <2>3 DEF Promised, Informed
<1>6. CASE Recorded' # {} /\ NotNeeded(Recorded')
  <2>1. UNCHANGED manager
    BY <1>2, <1>3, <1>6 DEF Schedule
  <2>2. Counted' /\ Scheduled'
    BY <1>6, <2>1 DEF manager, NotNeeded, Informed, Counted, Scheduled
  <2>3. ASSUME NEW s \in Recorded', process'[s] # "none", ~Coming(s)'
        PROVE  Newest(s)' = Slot(s)'
    <3>1. Recorded = last /\ Recorded' = last /\ ~running /\ ~due
      BY <1>6, <2>1, <2>3 DEF Coming, NotNeeded, Informed, Scheduled, manager
    <3>2. s \in Kept
      BY <1>1, <1>4, <2>3, <3>1 DEF Coming
    <3>3. /\ process'[s] = process[s] /\ inbox'[s] = inbox[s] /\ chargers'[s] = chargers[s]
          /\ process[s] # "none"
      BY <1>1, <1>4, <3>2 DEF Kept, Startable
    <3>4. ~Coming(s)
      <4>1. s \notin late
        BY <1>1, <2>3, <3>2 DEF Coming
      <4>2. retries \subseteq retries'
        BY <1>1 DEF Retried
      <4>3. ~\E c \in Count : <<s, c>> \in retries
        BY <2>3, <4>2 DEF Coming
      <4>4. QED
        BY <3>1, <4>1, <4>3 DEF Coming
    <3>5. Newest(s) = Slot(s)
      BY <3>1, <3>3, <3>4, <2>3 DEF Informed, Promised
    <3>6. Slot(s)' = Slot(s)
      BY <2>1, <3>1 DEF Slot, manager
    <3>7. QED
      BY <3>3, <3>5, <3>6 DEF Newest
  <2>4. QED
    BY <2>2, <2>3 DEF Promised, Informed
<1>7. CASE Recorded' # {} /\ ~NotNeeded(Recorded')
  <2>1. running' = TRUE /\ UNCHANGED <<counts, last, due>>
    BY <1>2, <1>3, <1>7 DEF Schedule
  <2>2. QED
    BY <2>1 DEF Informed, Counted, Scheduled, Promised, Coming
<1>8. QED
  BY <1>5, <1>6, <1>7

\* An outcome that is applied reaches every driver, or will be retried.
LEMMA ApplyInforms ==
  ASSUME TypeOK, Informed, Apply
  PROVE  Informed'
<1>1. Recorded' = Recorded /\ Recorded \subseteq Serial
  BY RecordsOfType DEF Apply, Recorded, RecordsOf
<1>2. CASE Recorded = RecordsOf(worker.snapshot)
  <2>1. /\ counts' = [s \in Serial |->
                        IF s \notin Recorded THEN 0
                        ELSE IF worker.counts[s] = 0 THEN Fallback(Recorded)
                        ELSE worker.counts[s]]
        /\ last' = Recorded
        /\ inbox' = [s \in Serial |->
                       IF s \in Recorded THEN Send(s, counts'[s]) ELSE inbox[s]]
        /\ Retried({<<s, counts'[s]>> : s \in {r \in Recorded : ~Reaches(r)}})
    BY <1>2 DEF Apply, TakeCounts
  <2>2. \A s \in Recorded : counts'[s] \in Count
    BY <1>1, <2>1, FallbackType DEF TypeOK
  <2>3. Counted' /\ Scheduled'
    <3>1. 0 \notin Count
      BY DEF Count
    <3>2. Counted'
      BY <2>1, <2>2, <3>1 DEF Counted
    <3>3. Scheduled'
      BY <1>1, <2>1 DEF Scheduled
    <3>4. QED
      BY <3>2, <3>3
  <2>4. ASSUME NEW s \in Recorded PROVE Newest(s)' = Slot(s)' \/ Coming(s)'
    <3>1. Slot(s)' = counts'[s]
      BY <2>2, <2>4 DEF Slot, Count
    <3>2. CASE Reaches(s)
      <4>1. inbox'[s] = Send(s, counts'[s])
        BY <1>1, <2>1, <2>4
      <4>2. QED
        BY <1>1, <2>2, <3>1, <3>2, <4>1, NewestIsSent
    <3>3. CASE ~Reaches(s)
      <4>1. <<s, counts'[s]>> \in retries'
        BY <2>1, <2>4, <3>3 DEF Retried
      <4>2. QED
        BY <2>2, <2>4, <4>1 DEF Coming
    <3>4. QED
      BY <3>2, <3>3
  <2>5. QED
    BY <1>1, <2>3, <2>4 DEF Promised, Informed
<1>3. CASE Recorded # RecordsOf(worker.snapshot)
  <2>1. due' = TRUE /\ UNCHANGED <<counts, last>>
    BY <1>3 DEF Apply
  <2>2. QED
    BY <2>1 DEF Informed, Counted, Scheduled, Promised, Coming
<1>4. QED
  BY <1>2, <1>3

\* An outcome that is not published is left to the refresh.
LEMMA ApplyRaisesInforms ==
  ASSUME TypeOK, Informed, ApplyRaises
  PROVE  Informed'
<1>1. Recorded' = Recorded /\ Recorded \subseteq Serial /\ Recorded \subseteq late'
  BY RecordsOfType DEF ApplyRaises, Recorded, RecordsOf
<1>2. \A s \in Recorded : counts'[s] \in Count
  BY <1>1, FallbackType DEF ApplyRaises, TakeCounts, TypeOK
<1>3. Counted' /\ Scheduled'
  <2>1. last' = Recorded
    BY DEF ApplyRaises, TakeCounts
  <2>2. QED
    BY <1>1, <1>2, <2>1 DEF Counted, Scheduled, Count
<1>4. Promised'
  BY <1>1 DEF Promised, Coming
<1>5. QED
  BY <1>3, <1>4 DEF Informed

\* A retry brings the count of the slot, or leaves the driver to the refresh.
LEMMA RetryInforms ==
  ASSUME TypeOK, Informed, NEW s \in Serial, NEW c \in Count, Retry(s, c)
  PROVE  Informed'
<1>1. /\ UNCHANGED <<records, process, chargers, manager>>
      /\ Recorded' = Recorded /\ Recorded \subseteq Serial
  BY RecordsOfType DEF Retry, Recorded, RecordsOf
<1>2. /\ \A t \in Serial : Slot(t)' = Slot(t)
      /\ Counted' /\ Scheduled'
  BY <1>1 DEF manager, Slot, Informed, Counted, Scheduled
<1>3. ASSUME NEW t \in Recorded, process[t] # "none"
      PROVE  Newest(t)' = Slot(t) \/ Coming(t)'
  <2>1. CASE t # s \/ ~Reaches(s)
    <3>1. inbox'[t] = inbox[t]
      BY <1>1, <1>3, <2>1 DEF Retry, Send, TypeOK
    <3>2. Coming(t) => Coming(t)'
      <4>1. late \subseteq late'
        BY DEF Retry
      <4>2. \A d \in Count : <<t, d>> \in retries => <<t, d>> \in retries'
        BY <1>3, <2>1 DEF Retry
      <4>3. QED
        BY <1>1, <4>1, <4>2 DEF Coming, manager
    <3>3. QED
      BY <1>1, <1>3, <3>1, <3>2 DEF Newest, Informed, Promised
  <2>2. CASE t = s /\ Reaches(s)
    <3>1. inbox'[s] = Send(s, c)
      BY <1>3, <2>2 DEF Retry, TypeOK
    <3>2. Newest(s)' = c
      BY <2>2, <3>1, NewestIsSent
    <3>3. c = Slot(s) \/ s \in late'
      BY <1>3, <2>2 DEF Retry
    <3>4. QED
      BY <2>2, <3>2, <3>3 DEF Coming
  <2>3. QED
    BY <2>1, <2>2
<1>4. Promised'
  BY <1>1, <1>2, <1>3 DEF Promised
<1>5. QED
  BY <1>2, <1>4 DEF Informed

LEMMA DriverInforms ==
  ASSUME TypeOK, Informed, NEW s \in Serial, Driver(s) \/ Exit(s)
  PROVE  Informed'
<1>1. Recorded' = Recorded /\ UNCHANGED <<records, counts, last, due, running, late>>
  BY DEF Driver, Register, Deliver, Exit, Recorded, RecordsOf, manager
<1>2. /\ \A t \in Serial : Slot(t)' = Slot(t)
      /\ Counted' /\ Scheduled'
  BY <1>1 DEF Slot, Informed, Counted, Scheduled
<1>3. retries \subseteq retries'
  BY DEF Driver, Register, Deliver, Exit, Retried
<1>4. \A t \in Serial : Coming(t) => Coming(t)'
  BY <1>1, <1>3 DEF Coming
<1>5. \A t \in Serial : process'[t] # "none" => process[t] # "none"
  BY DEF Driver, Register, Deliver, Exit, TypeOK
<1>6. ASSUME NEW t \in Serial, process'[t] # "none" PROVE Newest(t)' = Newest(t)
  <2>1. CASE Register(s)
    BY <2>1 DEF Register, Newest
  <2>2. CASE Exit(s)
    <3>1. t # s
      BY <1>6, <2>2 DEF Exit, TypeOK
    <3>2. inbox'[t] = inbox[t] /\ chargers'[t] = chargers[t]
      BY <2>2, <3>1 DEF Exit, TypeOK
    <3>3. QED
      BY <3>2 DEF Newest
  <2>3. CASE Deliver(s) /\ t # s
    BY <2>3 DEF Deliver, Newest, TypeOK
  <2>4. CASE Deliver(s) /\ t = s
    <3>1. /\ inbox[s] # <<>> /\ inbox[s] \in Seq(Count)
          /\ chargers'[s] = Head(inbox[s]) /\ inbox'[s] = Tail(inbox[s])
      BY <2>4 DEF Deliver, TypeOK
    <3>2. IF Tail(inbox[s]) = <<>>
          THEN Head(inbox[s]) = inbox[s][Len(inbox[s])]
          ELSE Tail(inbox[s])[Len(Tail(inbox[s]))] = inbox[s][Len(inbox[s])]
      BY <3>1, TailKeepsLast
    <3>3. QED
      BY <2>4, <3>1, <3>2 DEF Newest
  <2>5. QED
    BY <2>1, <2>2, <2>3, <2>4 DEF Driver
<1>7. Promised'
  BY <1>1, <1>2, <1>4, <1>5, <1>6, RecordsOfType DEF Informed, Promised, Recorded
<1>8. QED
  BY <1>2, <1>7 DEF Informed

LEMMA InformedStep ==
  ASSUME TypeOK, Informed, [Next]_vars
  PROVE  Informed'
<1>1. ASSUME NEW s \in Serial, Retries(s) PROVE Informed'
  <2>1. PICK r \in retries : r[1] = s /\ Retry(s, r[2])
    BY <1>1 DEF Retries
  <2>2. r[2] \in Count
    BY <2>1 DEF TypeOK
  <2>3. QED
    BY <2>1, <2>2, RetryInforms
<1>2. CASE RefreshDue
  BY <1>2 DEF RefreshDue, Informed, Counted, Scheduled, Promised, Coming
<1>3. CASE \/ Ask \/ WorkerFails \/ UNCHANGED vars
           \/ \E s \in Serial : \/ TimesOut(s) \/ Unplug(s) \/ Plug(s)
                                \/ \E n \in 0..MaxUnits : Rewire(s, n)
  <2>1. Calm /\ UNCHANGED <<chargers, inbox>>
    BY <1>3 DEF Ask, WorkerFails, TimesOut, Unplug, Plug, Rewire, vars, devices,
       drivers, manager, Calm
  <2>2. retries \subseteq retries'
    BY <1>3 DEF Ask, WorkerFails, TimesOut, Unplug, Plug, Rewire, vars, Retried
  <2>3. QED
    BY <2>1, <2>2, CalmKeepsInformed DEF Newest
<1>4. QED
  BY <1>1, <1>2, <1>3, ScanInforms, ApplyInforms, ApplyRaisesInforms, DriverInforms DEF Next

(* For any devices, ports, units and bounds: a driver that divides by      *)
(* another count than the slot of its device shows is going to be told,    *)
(* except between a replacement within one scan, an old count that a retry *)
(* brought, or a manifest that could not be saved, and the next refresh.   *)
THEOREM DriversAreTold == Spec => []Agree
<1>1. Init => Informed
  BY DEF Init, Informed, Counted, Scheduled, Promised, Coming
<1>2. TypeOK /\ Informed /\ [Next]_vars => Informed'
  BY InformedStep
<1>3. Informed => Agree
  <2>1. ASSUME Informed, NEW s \in Recorded, process[s] = "up", chargers[s] # Slot(s)
        PROVE  Pending(s) \/ s \in late
    <3>1. Newest(s) = Slot(s) \/ Coming(s)
      BY <2>1 DEF Informed, Promised
    <3>2. CASE inbox[s] # <<>>
      BY <3>2 DEF Pending
    <3>3. CASE inbox[s] = <<>>
      BY <2>1, <3>1, <3>3 DEF Newest, Coming, Pending
    <3>4. QED
      BY <3>2, <3>3
  <2>2. QED
    BY <2>1 DEF Agree
<1>4. QED
  BY <1>1, <1>2, <1>3, TypeCorrect, PTL DEF Spec
=============================================================================
