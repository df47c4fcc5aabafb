---------------------------- MODULE InstancesProofs ----------------------------
(***************************************************************************)
(* Proofs about module Instances, for any devices, any range of instances  *)
(* wide enough for them, and any number of writes and failures.            *)
(***************************************************************************)
EXTENDS Instances, FiniteSetTheorems, SequenceTheorems, WellFoundedInduction, TLAPS

Awake(s) == pc[s] \in {"checked", "ready"}

\* The instances a sequence of changes goes through, from first to latest,
\* with no change that is none
Chain(first, changes, latest) ==
  /\ \A i \in 1..Len(changes) :
       changes[i] # (IF i = 1 THEN first ELSE changes[i - 1])
  /\ latest = IF changes = <<>> THEN first ELSE changes[Len(changes)]

\* A driver will hear of every change that its settings object does not know.
Told(s) == Chain(seen[s], signals[s], setting[s])

\* What is to be restored last is not what the driver knows.
Restless(s) ==
  idles[s] # <<>> => idles[s][Len(idles[s])] \in (Instance \cup {Quit}) \ {seen[s]}

\* A driver that shows another instance than the stored one has work to do.
Restful(s) == signals[s] = <<>> /\ idles[s] = <<>> => inst[s] = setting[s]

Following(s) == Awake(s) => seen[s] # None /\ Told(s) /\ Restless(s) /\ Restful(s)

Follows == \A s \in Serial : Following(s)

\* No two drivers with services, and no two on their way to them
Apart ==
  crowd \/ \A s, t \in Serial :
    Awake(s) /\ Awake(t) /\ (inst[s] = inst[t] \/ (pc[s] = "checked" /\ pc[t] = "checked"))
      => s = t

IInv == TypeOK /\ Apart /\ Follows

-----------------------------------------------------------------------------
(* allocate_instance()                                                     *)

LEMMA LeastIsMember ==
  ASSUME NEW S, S \subseteq Nat, S # {}
  PROVE  Least(S) \in S
<1>1. PICK x \in S : \A y \in S : ~(<<y, x>> \in OpToRel(<, Nat))
  BY NatLessThanWellFounded, WFMin
<1>2. ASSUME NEW y \in S PROVE x <= y
  <2>1. ~(y < x)
    BY <1>1 DEF OpToRel
  <2>2. QED
    BY <2>1
<1>3. QED
  BY <1>2 DEF Least

\* A range that is wider than what is used has an instance left.
LEMMA AllocateIsFree ==
  ASSUME NEW used, IsFiniteSet(used), Cardinality(used) < MaxInstance, NEW preferred
  PROVE  Allocate(used, preferred) \in Instance \ used
<1>1. IsFiniteSet(Instance) /\ Cardinality(Instance) = MaxInstance
  BY ConstantsAssumption, FS_Interval DEF Instance
<1>2. Instance \ used # {}
  <2>1. SUFFICES ASSUME Instance \subseteq used PROVE FALSE
    OBVIOUS
  <2>2. Cardinality(Instance) <= Cardinality(used)
    BY <2>1, FS_Subset
  <2>3. Cardinality(used) \in Nat
    BY FS_CardinalityType
  <2>4. QED
    BY <1>1, <2>2, <2>3, ConstantsAssumption
<1>3. Instance \ used \subseteq Nat
  BY ConstantsAssumption DEF Instance
<1>4. Least(Instance \ used) \in Instance \ used
  BY <1>2, <1>3, LeastIsMember
<1>5. QED
  BY <1>4 DEF Allocate

LEMMA ImageIsSmaller ==
  ASSUME NEW A, IsFiniteSet(A), NEW f
  PROVE  IsFiniteSet({f[x] : x \in A}) /\ Cardinality({f[x] : x \in A}) <= Cardinality(A)
<1> DEFINE g == [x \in A |-> f[x]]
<1>1. g \in Surjection(A, {f[x] : x \in A})
  BY DEF Surjection
<1>2. QED
  BY <1>1, FS_Surjection

\* What the other devices use is less than the range.
LEMMA OthersUseLess ==
  ASSUME NEW s \in Serial, NEW f, NEW g, NEW used,
         used \subseteq {f[t] : t \in Serial \ {s}} \cup {g[t] : t \in Serial \ {s}}
  PROVE  IsFiniteSet(used) /\ Cardinality(used) < MaxInstance
<1> DEFINE O == Serial \ {s}
           F == {f[t] : t \in O}
           G == {g[t] : t \in O}
<1>1. IsFiniteSet(O) /\ Cardinality(O) = Cardinality(Serial) - 1 /\ Cardinality(Serial) \in Nat
  BY ConstantsAssumption, FS_RemoveElement, FS_CardinalityType
<1>2. /\ IsFiniteSet(F) /\ Cardinality(F) <= Cardinality(O)
      /\ IsFiniteSet(G) /\ Cardinality(G) <= Cardinality(O)
  BY <1>1, ImageIsSmaller
<1>3. IsFiniteSet(F \cup G)
      /\ Cardinality(F \cup G) = Cardinality(F) + Cardinality(G) - Cardinality(F \cap G)
  BY <1>2, FS_Union
<1>4. IsFiniteSet(F \cap G)
  BY <1>2, FS_Subset
<1>5. /\ Cardinality(F) \in Nat /\ Cardinality(G) \in Nat /\ Cardinality(O) \in Nat
      /\ Cardinality(F \cap G) \in Nat /\ Cardinality(F \cup G) \in Nat
  BY <1>1, <1>2, <1>3, <1>4, FS_CardinalityType
<1>6. IsFiniteSet(used) /\ Cardinality(used) <= Cardinality(F \cup G)
  BY <1>3, FS_Subset
<1>7. Cardinality(used) \in Nat
  BY <1>6, FS_CardinalityType
<1> HIDE DEF O, F, G
<1>8. QED
  BY <1>1, <1>2, <1>3, <1>5, <1>6, <1>7, ConstantsAssumption

-----------------------------------------------------------------------------
(* Sequences of changes                                                    *)

LEMMA ChainGrows ==
  ASSUME NEW S, NEW q \in Seq(S), NEW v \in S, NEW first, NEW latest,
         Chain(first, q, latest), v # latest
  PROVE  Append(q, v) \in Seq(S) /\ Append(q, v) # <<>> /\ Chain(first, Append(q, v), v)
<1> DEFINE r == Append(q, v)
<1>1. /\ r \in Seq(S) /\ r # <<>> /\ Len(r) = Len(q) + 1 /\ Len(q) \in Nat
      /\ \A i \in 1..Len(q) : r[i] = q[i]
      /\ r[Len(q) + 1] = v
  BY AppendProperties
<1>2. q = <<>> <=> Len(q) = 0
  BY EmptySeq
<1> HIDE DEF r
<1>3. ASSUME NEW i \in 1..Len(r) PROVE r[i] # (IF i = 1 THEN first ELSE r[i - 1])
  <2>1. CASE i \in 1..Len(q)
    <3>1. i = 1 \/ i - 1 \in 1..Len(q)
      BY <1>1, <2>1
    <3>2. QED
      BY <1>1, <2>1, <3>1 DEF Chain
  <2>2. CASE i = Len(q) + 1
    <3>1. CASE q = <<>>
      BY <1>1, <1>2, <2>2, <3>1 DEF Chain
    <3>2. CASE q # <<>>
      <4>1. i # 1 /\ i - 1 = Len(q) /\ Len(q) \in 1..Len(q)
        BY <1>1, <1>2, <2>2, <3>2
      <4>2. QED
        BY <1>1, <2>2, <3>2, <4>1 DEF Chain
    <3>3. QED
      BY <3>1, <3>2
  <2>3. QED
    BY <1>1, <2>1, <2>2
<1>4. QED
  BY <1>1, <1>3 DEF Chain, r

LEMMA ChainShrinks ==
  ASSUME NEW S, NEW q \in Seq(S), q # <<>>, NEW first, NEW latest, Chain(first, q, latest)
  PROVE  /\ Head(q) \in S /\ Head(q) # first /\ Tail(q) \in Seq(S)
         /\ Chain(Head(q), Tail(q), latest)
<1> DEFINE r == Tail(q)
<1>1. /\ Head(q) \in S /\ r \in Seq(S) /\ Len(r) = Len(q) - 1
      /\ \A i \in 1..Len(r) : r[i] = q[i + 1]
  BY HeadTailProperties
<1>2. Head(q) = q[1] /\ Len(q) \in Nat \ {0} /\ (r = <<>> <=> Len(r) = 0)
  BY <1>1, EmptySeq
<1> HIDE DEF r
<1>3. Head(q) # first
  BY <1>2 DEF Chain
<1>4. ASSUME NEW i \in 1..Len(r) PROVE r[i] # (IF i = 1 THEN Head(q) ELSE r[i - 1])
  <2>1. i + 1 \in 1..Len(q) /\ i + 1 # 1 /\ (i + 1) - 1 = i
    BY <1>1, <1>2
  <2>2. q[i + 1] # q[i]
    BY <2>1 DEF Chain
  <2>3. CASE i = 1
    BY <1>1, <1>2, <2>2, <2>3
  <2>4. CASE i # 1
    <3>1. i - 1 \in 1..Len(r) /\ (i - 1) + 1 = i
      BY <1>1, <1>2, <2>4
    <3>2. QED
      BY <1>1, <2>2, <2>4, <3>1
  <2>5. QED
    BY <2>3, <2>4
<1>5. latest = IF r = <<>> THEN Head(q) ELSE r[Len(r)]
  <2>1. CASE r = <<>>
    BY <1>1, <1>2, <2>1 DEF Chain
  <2>2. CASE r # <<>>
    <3>1. Len(r) \in 1..Len(r) /\ Len(r) + 1 = Len(q)
      BY <1>1, <1>2, <2>2
    <3>2. QED
      BY <1>1, <1>2, <2>2, <3>1 DEF Chain
  <2>3. QED
    BY <2>1, <2>2
<1>6. QED
  BY <1>1, <1>3, <1>4, <1>5 DEF Chain, r

-----------------------------------------------------------------------------
(* What the steps have in common                                           *)

\* A device that a step leaves alone stays as it is.
LEMMA FollowingKept ==
  ASSUME NEW t \in Serial, Following(t),
         UNCHANGED <<pc[t], inst[t], seen[t], signals[t], idles[t], setting[t]>>
  PROVE  Following(t)'
BY DEF Following, Awake, Told, Restless, Restful

\* Drivers that end or go on do not come together.
LEMMA ApartKept ==
  ASSUME Apart, UNCHANGED crowd,
         \A t \in Serial : Awake(t)' =>
           Awake(t) /\ inst'[t] = inst[t] /\ (pc'[t] = "checked" => pc[t] = "checked")
  PROVE  Apart'
BY DEF Apart

LEMMA StoreStep ==
  ASSUME TypeOK, NEW s \in Serial, NEW v \in Instance, Store(s, v), Following(s)
  PROVE  /\ setting' \in [Serial -> Instance \cup {None}] /\ setting'[s] = v
         /\ signals' \in [Serial -> Seq(Instance)]
         /\ \A t \in Serial \ {s} : UNCHANGED <<setting[t], signals[t]>>
         /\ ~Awake(s) => UNCHANGED signals[s]
         /\ Awake(s) => /\ Chain(seen[s], signals'[s], v)
                        /\ signals'[s] = <<>> => signals[s] = <<>> /\ v = setting[s]
<1>1. /\ setting \in [Serial -> Instance \cup {None}] /\ signals \in [Serial -> Seq(Instance)]
      /\ signals[s] \in Seq(Instance)
  BY DEF TypeOK
<1>2. setting' \in [Serial -> Instance \cup {None}] /\ setting'[s] = v
      /\ \A t \in Serial \ {s} : setting'[t] = setting[t]
  BY <1>1 DEF Store
<1>3. CASE v # setting[s] /\ Awake(s)
  <2>1. signals' = [signals EXCEPT ![s] = Append(signals[s], v)]
    BY <1>3 DEF Store, Awake
  <2>2. Append(signals[s], v) \in Seq(Instance) /\ Append(signals[s], v) # <<>>
        /\ Chain(seen[s], Append(signals[s], v), v)
    BY <1>1, <1>3, ChainGrows DEF Following, Told
  <2>3. QED
    BY <1>1, <1>2, <1>3, <2>1, <2>2
<1>4. CASE ~(v # setting[s] /\ Awake(s))
  <2>1. signals' = signals
    BY <1>4 DEF Store, Awake
  <2>2. Awake(s) => Chain(seen[s], signals[s], v)
    BY <1>4 DEF Following, Told
  <2>3. QED
    BY <1>1, <1>2, <1>4, <2>1, <2>2
<1>5. QED
  BY <1>3, <1>4

LEMMA EndStep ==
  ASSUME TypeOK, NEW s \in Serial, End(s)
  PROVE  /\ pc' \in [Serial -> {"none", "started", "checked", "ready"}]
         /\ inst' \in [Serial -> Instance \cup {None}]
         /\ seen' \in [Serial -> Instance \cup {None}]
         /\ signals' \in [Serial -> Seq(Instance)]
         /\ idles' \in [Serial -> Seq(Instance \cup {Quit})]
         /\ pc'[s] = "none" /\ inst'[s] = None /\ signals'[s] = <<>> /\ idles'[s] = <<>>
         /\ \A t \in Serial \ {s} :
              UNCHANGED <<pc[t], inst[t], seen[t], signals[t], idles[t]>>
<1>1. <<>> \in Seq(Instance) /\ <<>> \in Seq(Instance \cup {Quit})
  BY EmptySeq
<1>2. QED
  BY <1>1 DEF End, TypeOK

\* A driver that ends leaves the others alone.
LEMMA EndKeeps ==
  ASSUME IInv, NEW s \in Serial, End(s), UNCHANGED <<setting, manifest, crowd>>,
         recorded' \in {recorded, recorded \ {s}}, faults' \in 0..MaxFaults
  PROVE  IInv'
<1>1. TypeOK'
  <2>1. \A t \in Serial \ {s} : t \in recorded => t \in recorded'
    OBVIOUS
  <2>2. recorded' \in SUBSET Serial
    BY DEF IInv, TypeOK
  <2>3. QED
    BY <2>1, <2>2, EndStep DEF IInv, TypeOK
<1>2. Apart'
  BY EndStep, ApartKept DEF IInv, Awake
<1>3. Follows'
  <2>1. SUFFICES ASSUME NEW t \in Serial PROVE Following(t)'
    BY DEF Follows
  <2>2. CASE t = s
    BY <2>2, EndStep DEF IInv, Following, Awake
  <2>3. CASE t # s
    BY <2>3, EndStep, FollowingKept DEF IInv, Follows
  <2>4. QED
    BY <2>2, <2>3
<1>4. QED
  BY <1>1, <1>2, <1>3 DEF IInv

\* A value is stored by someone else than the driver's idle callback.
LEMMA StoreKeeps ==
  ASSUME IInv, NEW s \in Serial, NEW v \in Instance, Store(s, v),
         UNCHANGED <<manifest, recorded, pc, inst, seen, idles, crowd>>, faults' \in 0..MaxFaults
  PROVE  IInv'
<1>1. TypeOK /\ Following(s)
  BY DEF IInv, Follows
<1>2. TypeOK'
  <2>1. \A t \in Serial : pc[t] \in {"none", "started"} => signals'[t] = <<>>
    BY <1>1, StoreStep DEF TypeOK, Awake
  <2>2. QED
    BY <1>1, <2>1, StoreStep DEF TypeOK
<1>3. Apart'
  BY ApartKept DEF IInv, Awake
<1>4. Follows'
  <2>1. SUFFICES ASSUME NEW t \in Serial PROVE Following(t)'
    BY DEF Follows
  <2>2. CASE t = s
    BY <1>1, <2>2, StoreStep DEF Following, Awake, Told, Restless, Restful
  <2>3. CASE t # s
    BY <1>1, <2>3, StoreStep, FollowingKept DEF IInv, Follows
  <2>4. QED
    BY <2>2, <2>3
<1>5. QED
  BY <1>2, <1>3, <1>4 DEF IInv

LEMMA FaultTyped ==
  ASSUME TypeOK, Fault \/ UNCHANGED faults
  PROVE  faults' \in 0..MaxFaults
BY ConstantsAssumption DEF TypeOK, Fault

-----------------------------------------------------------------------------
(* The manager                                                             *)

LEMMA StartKeeps ==
  ASSUME IInv, NEW s \in Serial, Start(s)
  PROVE  IInv'
<1>1. TypeOK /\ pc[s] = "none" /\ inst[s] = None /\ s \notin Registered
  BY DEF IInv, TypeOK, Start, Registered
<1>2. Ensured(s) \in Instance
  <2>1. CASE manifest[s] = None
    <3>1. ManagerUsed({}) \subseteq {manifest[t] : t \in Serial \ {s}}
                                      \cup {inst[t] : t \in Serial \ {s}}
      BY <1>1, <2>1 DEF ManagerUsed, Registered
    <3>2. IsFiniteSet(ManagerUsed({})) /\ Cardinality(ManagerUsed({})) < MaxInstance
      BY <3>1, OthersUseLess
    <3>3. QED
      BY <2>1, <3>2, AllocateIsFree DEF Ensured
  <2>2. CASE manifest[s] # None
    BY <1>1, <2>2 DEF Ensured, TypeOK
  <2>3. QED
    BY <2>1, <2>2
<1>3. Ensured(s) # None
  BY <1>2 DEF Instance, None
<1>4. TypeOK'
  BY <1>1, <1>2, <1>3 DEF Start, TypeOK
<1>5. Apart'
  BY <1>1, ApartKept DEF IInv, Start, Awake, TypeOK
<1>6. Follows'
  <2>1. SUFFICES ASSUME NEW t \in Serial PROVE Following(t)'
    BY DEF Follows
  <2>2. CASE t = s
    BY <1>1, <2>2 DEF Start, Following, Awake, TypeOK
  <2>3. CASE t # s
    BY <1>1, <2>3, FollowingKept DEF IInv, Follows, Start, TypeOK
  <2>4. QED
    BY <2>2, <2>3
<1>7. QED
  BY <1>4, <1>5, <1>6 DEF IInv

LEMMA SweepKeeps ==
  ASSUME IInv, NEW s \in Serial, Sweep(s)
  PROVE  IInv'
BY EndKeeps, FaultTyped DEF IInv, Sweep

LEMMA CopySettingsKeeps ==
  ASSUME IInv, CopySettings
  PROVE  IInv'
<1>1. TypeOK'
  BY DEF IInv, TypeOK, CopySettings, drivers
<1>2. Apart'
  BY ApartKept DEF IInv, CopySettings, drivers, Awake
<1>3. Follows'
  BY FollowingKept DEF IInv, Follows, CopySettings, drivers
<1>4. QED
  BY <1>1, <1>2, <1>3 DEF IInv

-----------------------------------------------------------------------------
(* A driver's start                                                        *)

LEMMA CheckKeeps ==
  ASSUME IInv, NEW s \in Serial, Check(s)
  PROVE  IInv'
<1> DEFINE Stored(used) == IF setting[s] = None THEN Allocate(used, manifest[s]) ELSE setting[s]
<1>1. /\ TypeOK /\ pc[s] = "started" /\ idles[s] = <<>> /\ ~Awake(s)
      /\ s \in recorded /\ manifest[s] # None
  BY DEF IInv, TypeOK, Check, Awake
<1>2. PICK used \in SUBSET Bus(s) :
        /\ Enumerated(s, used)
        /\ crowd' = (crowd \/ used # Bus(s) \/ \E t \in Serial \ {s} : pc[t] = "checked")
        /\ setting' = [setting EXCEPT ![s] = Chosen(used, Stored(used))]
        /\ inst' = [inst EXCEPT ![s] = Chosen(used, Stored(used))]
        /\ seen' = [seen EXCEPT ![s] = Stored(used)]
        /\ signals' = [signals EXCEPT ![s] =
                         IF Chosen(used, Stored(used)) = Stored(used) THEN <<>>
                         ELSE <<Chosen(used, Stored(used))>>]
  BY DEF Check
<1>3. pc' = [pc EXCEPT ![s] = "checked"] /\ UNCHANGED <<manifest, recorded, idles>>
  BY DEF Check
<1> DEFINE stored == Stored(used)
           chosen == Chosen(used, stored)
<1>4. IsFiniteSet(used) /\ Cardinality(used) < MaxInstance
  <2>1. used \subseteq {inst[t] : t \in Serial \ {s}} \cup {inst[t] : t \in Serial \ {s}}
    BY <1>2, <1>1 DEF Bus, Registered
  <2>2. QED
    BY <2>1, OthersUseLess
<1>5. stored \in Instance
  BY <1>1, <1>4, AllocateIsFree DEF TypeOK
<1> HIDE DEF stored
<1>6. chosen \in Instance \ used
  BY <1>4, <1>5, AllocateIsFree DEF Chosen
<1>7. None \notin Instance
  BY DEF None, Instance
<1> DEFINE q == IF chosen = stored THEN <<>> ELSE <<chosen>>
<1>8. /\ setting' = [setting EXCEPT ![s] = chosen] /\ inst' = [inst EXCEPT ![s] = chosen]
      /\ seen' = [seen EXCEPT ![s] = stored] /\ signals' = [signals EXCEPT ![s] = q]
  BY <1>2 DEF stored
<1> HIDE DEF chosen
<1>9. q \in Seq(Instance) /\ Chain(stored, q, chosen)
  <2>1. CASE chosen = stored
    <3>1. q = <<>> /\ Len(q) = 0 /\ q \in Seq(Instance)
      BY <2>1, EmptySeq
    <3>2. QED
      BY <2>1, <3>1 DEF Chain
  <2>2. CASE chosen # stored
    <3>1. q = <<chosen>> /\ Len(q) = 1 /\ q[1] = chosen /\ q # <<>> /\ q \in Seq(Instance)
      BY <1>6, <2>2
    <3>2. QED
      BY <2>2, <3>1 DEF Chain
  <2>3. QED
    BY <2>1, <2>2
<1> HIDE DEF q
<1>10. TypeOK'
  <2>1. faults' \in 0..MaxFaults
    BY <1>1, <1>2, FaultTyped DEF Enumerated
  <2>2. crowd' \in BOOLEAN
    BY <1>1, <1>2 DEF TypeOK
  <2>3. /\ setting' \in [Serial -> Instance \cup {None}] /\ inst' \in [Serial -> Instance \cup {None}]
        /\ seen' \in [Serial -> Instance \cup {None}] /\ signals' \in [Serial -> Seq(Instance)]
        /\ pc' \in [Serial -> {"none", "started", "checked", "ready"}]
    BY <1>1, <1>3, <1>5, <1>6, <1>8, <1>9 DEF TypeOK
  <2>4. inst'[s] # None /\ pc'[s] = "checked"
    BY <1>1, <1>3, <1>6, <1>7, <1>8 DEF TypeOK
  <2>5. \A t \in Serial \ {s} : UNCHANGED <<pc[t], inst[t], signals[t]>>
    BY <1>1, <1>3, <1>8 DEF TypeOK
  <2>6. QED
    BY <1>1, <1>3, <2>1, <2>2, <2>3, <2>4, <2>5 DEF TypeOK
<1>11. Apart'
  <2>1. SUFFICES ASSUME ~crowd', NEW t \in Serial, t # s, Awake(t)'
                 PROVE  inst'[t] # inst'[s] /\ pc'[t] # "checked"
    <3>1. ~crowd' => ~crowd
      BY <1>1, <1>2 DEF TypeOK
    <3>2. \A t \in Serial \ {s} : UNCHANGED <<pc[t], inst[t]>>
      BY <1>1, <1>3, <1>8 DEF TypeOK
    <3>3. QED
      BY <2>1, <3>1, <3>2 DEF IInv, Apart, Awake
  <2>2. used = Bus(s) /\ pc[t] # "checked"
    BY <1>2, <2>1
  <2>3. UNCHANGED <<pc[t], inst[t]>> /\ inst'[s] = chosen
    BY <1>1, <1>3, <1>8, <2>1 DEF TypeOK
  <2>4. inst[t] \in Bus(s)
    BY <2>1, <2>2, <2>3 DEF Awake, Bus, Registered
  <2>5. QED
    BY <1>6, <2>2, <2>3, <2>4
<1>12. Follows'
  <2>1. SUFFICES ASSUME NEW t \in Serial PROVE Following(t)'
    BY DEF Follows
  <2>2. CASE t = s
    <3>1. /\ seen'[s] = stored /\ signals'[s] = q /\ setting'[s] = chosen /\ inst'[s] = chosen
          /\ idles'[s] = <<>>
      BY <1>1, <1>3, <1>8 DEF TypeOK
    <3>2. QED
      BY <1>5, <1>7, <1>9, <2>2, <3>1 DEF Following, Told, Restless, Restful
  <2>3. CASE t # s
    <3>1. UNCHANGED <<pc[t], inst[t], seen[t], signals[t], idles[t], setting[t]>>
      BY <1>1, <1>3, <1>8, <2>3 DEF TypeOK
    <3>2. QED
      BY <3>1, FollowingKept DEF IInv, Follows
  <2>4. QED
    BY <2>2, <2>3
<1>13. QED
  BY <1>10, <1>11, <1>12 DEF IInv

LEMMA RegisterKeeps ==
  ASSUME IInv, NEW s \in Serial, Register(s)
  PROVE  IInv'
<1>1. TypeOK /\ pc[s] = "checked"
  BY DEF IInv, Register
<1>2. TypeOK'
  BY <1>1 DEF Register, TypeOK
<1>3. Apart'
  BY <1>1, ApartKept DEF IInv, Register, Awake, TypeOK
<1>4. Follows'
  <2>1. SUFFICES ASSUME NEW t \in Serial PROVE Following(t)'
    BY DEF Follows
  <2>2. Following(t) /\ (Awake(t)' => Awake(t))
    BY <1>1 DEF IInv, Follows, Awake, Register, TypeOK
  <2>3. QED
    BY <2>2 DEF Following, Told, Restless, Restful, Register
<1>5. QED
  BY <1>2, <1>3, <1>4 DEF IInv

-----------------------------------------------------------------------------
(* A change and what the driver does about it                              *)

LEMMA ChangedKeeps ==
  ASSUME IInv, NEW s \in Serial, Changed(s)
  PROVE  IInv'
<1> DEFINE new == Head(signals[s])
<1>1. /\ TypeOK /\ pc[s] = "ready" /\ signals[s] # <<>> /\ signals[s] \in Seq(Instance)
      /\ idles[s] \in Seq(Instance \cup {Quit}) /\ Awake(s) /\ seen[s] \in Instance
      /\ Told(s)
  BY DEF IInv, Follows, Following, TypeOK, Changed, Awake
<1>2. /\ new \in Instance /\ new # seen[s] /\ Tail(signals[s]) \in Seq(Instance)
      /\ Chain(new, Tail(signals[s]), setting[s])
  BY <1>1, ChainShrinks DEF Told
<1>3. PICK x \in {Quit, seen[s]} : idles' = [idles EXCEPT ![s] = Append(idles[s], x)]
  BY <1>2 DEF Changed, Restored
<1>4. x \in (Instance \cup {Quit}) \ {new}
  BY <1>1, <1>2, <1>3 DEF Quit, Instance
<1>5. /\ seen' = [seen EXCEPT ![s] = new] /\ signals' = [signals EXCEPT ![s] = Tail(signals[s])]
      /\ UNCHANGED <<setting, manifest, recorded, pc, inst, crowd>>
  BY DEF Changed
<1>6. faults' \in 0..MaxFaults
  BY <1>1, FaultTyped DEF Changed, Enumerated
<1> DEFINE q == Append(idles[s], x)
<1>7. q \in Seq(Instance \cup {Quit}) /\ q # <<>> /\ q[Len(q)] = x
  BY <1>1, <1>4, AppendProperties
<1> HIDE DEF new, q
<1>8. idles' = [idles EXCEPT ![s] = q]
  BY <1>3 DEF q
<1>9. TypeOK'
  BY <1>1, <1>2, <1>5, <1>6, <1>7, <1>8 DEF TypeOK
<1>10. Apart'
  BY <1>5, ApartKept DEF IInv, Awake
<1>11. Follows'
  <2>1. SUFFICES ASSUME NEW t \in Serial PROVE Following(t)'
    BY DEF Follows
  <2>2. CASE t = s
    <3>1. seen'[s] = new /\ signals'[s] = Tail(signals[s]) /\ idles'[s] = q
      BY <1>1, <1>5, <1>8 DEF TypeOK
    <3>2. new # None
      BY <1>2 DEF None, Instance
    <3>3. QED
      BY <1>2, <1>4, <1>5, <1>7, <2>2, <3>1, <3>2 DEF Following, Told, Restless, Restful
  <2>3. CASE t # s
    <3>1. UNCHANGED <<pc[t], inst[t], seen[t], signals[t], idles[t], setting[t]>>
      BY <1>1, <1>5, <1>8, <2>3 DEF TypeOK
    <3>2. QED
      BY <3>1, FollowingKept DEF IInv, Follows
  <2>4. QED
    BY <2>2, <2>3
<1>12. QED
  BY <1>9, <1>10, <1>11 DEF IInv

\* A value that is restored is either news to the driver or not its last.
LEMMA RestoreKeeps ==
  ASSUME IInv, NEW s \in Serial, RunIdle(s), Head(idles[s]) # Quit
  PROVE  IInv'
<1> DEFINE v == Head(idles[s])
           q == Tail(idles[s])
<1>1. /\ TypeOK /\ idles[s] # <<>> /\ idles[s] \in Seq(Instance \cup {Quit})
      /\ pc[s] = "ready" /\ Awake(s) /\ Following(s)
  BY DEF IInv, Follows, TypeOK, RunIdle, Awake
<1>2. /\ Store(s, v) /\ idles' = [idles EXCEPT ![s] = q]
      /\ UNCHANGED <<manifest, recorded, pc, inst, seen, crowd, faults>>
  BY DEF RunIdle
<1>3. /\ v \in Instance /\ q \in Seq(Instance \cup {Quit}) /\ Len(q) = Len(idles[s]) - 1
      /\ \A i \in 1..Len(q) : q[i] = idles[s][i + 1]
  BY <1>1, HeadTailProperties
<1>4. v = idles[s][1] /\ Len(idles[s]) \in Nat /\ (q = <<>> <=> Len(q) = 0)
  <2>1. v = idles[s][1] /\ Len(idles[s]) \in Nat
    BY <1>1
  <2>2. q = <<>> <=> Len(q) = 0
    <3>1. q \in Seq(Instance \cup {Quit})
      BY <1>3
    <3> HIDE DEF q
    <3>2. QED
      BY <3>1, EmptySeq
  <2>3. QED
    BY <2>1, <2>2
<1> HIDE DEF v, q
<1>5. TypeOK'
  <2>1. \A t \in Serial : pc[t] \in {"none", "started"} => signals'[t] = <<>>
    BY <1>1, <1>2, <1>3, StoreStep DEF TypeOK
  <2>2. QED
    BY <1>1, <1>2, <1>3, <2>1, StoreStep DEF TypeOK
<1>6. Apart'
  BY <1>2, ApartKept DEF IInv, Awake
<1>7. Follows'
  <2>1. SUFFICES ASSUME NEW t \in Serial PROVE Following(t)'
    BY DEF Follows
  <2>2. CASE t = s
    <3>1. /\ setting'[s] = v /\ Chain(seen[s], signals'[s], v)
          /\ signals'[s] = <<>> => signals[s] = <<>> /\ v = setting[s]
      BY <1>1, <1>2, <1>3, StoreStep
    <3>2. idles'[s] = q
      BY <1>1, <1>2 DEF TypeOK
    <3>3. Restless(s)'
      <4>1. q # <<>> => q[Len(q)] = idles[s][Len(idles[s])]
        BY <1>3, <1>4
      <4>2. QED
        BY <1>1, <1>2, <3>2, <4>1 DEF Following, Restless
    <3>4. Restful(s)'
      <4>1. SUFFICES ASSUME signals'[s] = <<>>, q = <<>> PROVE FALSE
        BY <3>2 DEF Restful
      <4>2. v # seen[s]
        BY <1>1, <1>3, <1>4, <4>1 DEF Following, Restless
      <4>3. QED
        BY <1>1, <3>1, <4>1, <4>2 DEF Following, Told, Chain
    <3>5. QED
      BY <1>1, <1>2, <2>2, <3>1, <3>3, <3>4 DEF Following, Told
  <2>3. CASE t # s
    <3>1. UNCHANGED <<pc[t], inst[t], seen[t], signals[t], idles[t], setting[t]>>
      BY <1>1, <1>2, <1>3, <2>3, StoreStep DEF TypeOK
    <3>2. QED
      BY <3>1, FollowingKept DEF IInv, Follows
  <2>4. QED
    BY <2>2, <2>3
<1>8. QED
  BY <1>5, <1>6, <1>7 DEF IInv

LEMMA RunIdleKeeps ==
  ASSUME IInv, NEW s \in Serial, RunIdle(s)
  PROVE  IInv'
<1>1. CASE Head(idles[s]) = Quit
  <2>1. End(s) /\ UNCHANGED <<setting, manifest, recorded, crowd, faults>>
    BY <1>1 DEF RunIdle
  <2>2. QED
    BY <2>1, EndKeeps, FaultTyped DEF IInv
<1>2. QED
  BY <1>1, RestoreKeeps

-----------------------------------------------------------------------------
LEMMA InitInv == Init => IInv
<1> SUFFICES ASSUME Init PROVE IInv
  OBVIOUS
<1>1. <<>> \in Seq(Instance) /\ <<>> \in Seq(Instance \cup {Quit})
  BY EmptySeq
<1>2. \A s \in Serial : ~Awake(s)
  BY DEF Init, Awake
<1>3. TypeOK
  <2>1. signals \in [Serial -> Seq(Instance)] /\ idles \in [Serial -> Seq(Instance \cup {Quit})]
    BY <1>1 DEF Init
  <2>2. faults \in 0..MaxFaults
    BY ConstantsAssumption DEF Init
  <2>3. \A s \in Serial : /\ pc[s] = "none" /\ inst[s] = None
                          /\ signals[s] = <<>> /\ idles[s] = <<>>
    BY DEF Init
  <2>4. QED
    BY <2>1, <2>2, <2>3 DEF Init, TypeOK
<1>4. Apart /\ Follows
  BY <1>2 DEF Apart, Follows, Following
<1>5. QED
  BY <1>3, <1>4 DEF IInv

LEMMA NextKeeps == IInv /\ [Next]_vars => IInv'
<1> SUFFICES ASSUME IInv, [Next]_vars PROVE IInv'
  OBVIOUS
<1>1. CASE CopySettings
  BY <1>1, CopySettingsKeeps
<1>2. ASSUME NEW s \in Serial, Manager(s) \/ Driver(s) \/ RunIdle(s) \/ Exit(s)
      PROVE  IInv'
  <2>1. CASE Manager(s)
    BY <2>1, StartKeeps, SweepKeeps DEF Manager
  <2>2. CASE Driver(s)
    BY <2>2, CheckKeeps, RegisterKeeps, ChangedKeeps DEF Driver
  <2>3. CASE RunIdle(s)
    BY <2>3, RunIdleKeeps
  <2>4. CASE Exit(s)
    BY <2>4, EndKeeps, FaultTyped DEF Exit, IInv
  <2>5. QED
    BY <1>2, <2>1, <2>2, <2>3, <2>4
<1>3. ASSUME NEW s \in Serial, NEW v \in Instance,
             SlotWrite(s, v) \/ DriverWrite(s, v) \/ DirectWrite(s, v)
      PROVE  IInv'
  <2>1. Store(s, v) /\ UNCHANGED <<manifest, recorded, pc, inst, seen, idles, crowd>> /\ Fault
    BY <1>3 DEF SlotWrite, DriverWrite, DirectWrite
  <2>2. QED
    BY <2>1, StoreKeeps, FaultTyped DEF IInv
<1>4. CASE UNCHANGED vars
  <2>1. Apart'
    BY <1>4, ApartKept DEF IInv, vars, drivers, Awake
  <2>2. Follows'
    BY <1>4, FollowingKept DEF IInv, Follows, vars, drivers
  <2>3. QED
    BY <1>4, <2>1, <2>2 DEF IInv, TypeOK, vars, drivers
<1>5. QED
  BY <1>1, <1>2, <1>3, <1>4 DEF Next

LEMMA InvHolds == Spec => []IInv
BY InitInv, NextKeeps, PTL DEF Spec

(* The types are right: allocate_instance() always finds an instance, as   *)
(* the range is nearly twice as wide as there are devices, or wider.       *)
THEOREM TypeCorrect == Spec => []TypeOK
<1>1. IInv => TypeOK
  BY DEF IInv
<1>2. QED
  BY InvHolds, <1>1, PTL

(* Two registered drivers never show one Device Instance, whatever is      *)
(* written where and whatever the settings said at first, unless two       *)
(* drivers checked at the same time or one could not see them all.         *)
THEOREM InstancesAreDistinct == Spec => []Distinct
<1>1. IInv => Distinct
  BY DEF IInv, Apart, Distinct, Awake, Registered
<1>2. QED
  BY InvHolds, <1>1, PTL

(* A driver with nothing left to handle shows the instance localsettings   *)
(* has stored, however writes, refusals, restores and restarts interleave. *)
THEOREM ShownIsStored == Spec => []Persisted
<1>1. IInv => Persisted
  BY DEF IInv, Follows, Following, Restful, Persisted, Awake, Registered
<1>2. QED
  BY InvHolds, <1>1, PTL
=============================================================================
