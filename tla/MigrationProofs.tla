--------------------------- MODULE MigrationProofs ---------------------------
(***************************************************************************)
(* The migration loses neither the configuration nor a history, for any    *)
(* number of entries, runs and failures.                                   *)
(***************************************************************************)
EXTENDS Migration, TLAPS

\* A dry run never gets as far as merging.
DryRuns == pc = "merging" => mode # "dry"

\* While the script works config.json is where it was.
Untouched == pc \in {"asking", "merging"} \cup Retaining => config

\* No entry is skipped, and none is saved before all have answered.
Complete ==
  /\ pc = "asking" => found \cup left = Serial
  /\ pc \in {"merging"} \cup Retaining =>
       /\ manifest = Serial
       /\ \A s \in Serial \ left : Covers(store[s], captured[s])

IInv == TypeOK /\ DryRuns /\ Untouched /\ Complete /\ ConfigKept /\ DoneMeansAll

-----------------------------------------------------------------------------
(* merge_history()                                                         *)

LEMMA HistoryIsKnown ==
  /\ None \notin History
  /\ [total |-> 0, min |-> 0] \in History
  /\ \A h \in History : h.total \in Nat /\ h.min \in Nat
BY ConstantsAssumption DEF History

LEMMA CoversItself ==
  ASSUME NEW h \in History \cup {None}
  PROVE  Covers(h, h)
BY HistoryIsKnown DEF Covers

\* What is merged is a history again and knows what the two knew.
LEMMA MergeCovers ==
  ASSUME NEW old \in History \cup {None}, NEW new \in History \cup {None}
  PROVE  LET h == Written(Merge(old, new))
         IN  h \in History /\ Covers(h, old) /\ Covers(h, new)
<1>1. CASE old = None
  BY <1>1, HistoryIsKnown DEF Merge, Written, Covers
<1>2. CASE old # None /\ new = None
  BY <1>2, HistoryIsKnown DEF Merge, Written, Covers
<1>3. CASE old \in History /\ new \in History
  <2> DEFINE h == [total |-> Greater(old.total, new.total),
                   min |-> LeastPositive(old.min, new.min)]
  <2>1. /\ {old.total, new.total} \subseteq 0..MaxTotal
        /\ {old.min, new.min} \subseteq 0..MaxMin
    BY <1>3 DEF History
  <2>2. /\ Greater(old.total, new.total) \in 0..MaxTotal
        /\ Greater(old.total, new.total) >= old.total
        /\ Greater(old.total, new.total) >= new.total
    BY <2>1, ConstantsAssumption DEF Greater
  <2>3. LET m == LeastPositive(old.min, new.min)
        IN  /\ m \in 0..MaxMin
            /\ old.min > 0 => m > 0 /\ m <= old.min
            /\ new.min > 0 => m > 0 /\ m <= new.min
    BY <2>1, ConstantsAssumption DEF LeastPositive, Lesser
  <2>4. h \in History
    BY <2>2, <2>3 DEF History
  <2>5. Written(Merge(old, new)) = h
    BY <1>3, <2>4, HistoryIsKnown DEF Merge, Written
  <2>6. Covers(h, old) /\ Covers(h, new)
    BY <2>2, <2>3, <2>4, HistoryIsKnown DEF Covers
  <2>7. QED
    BY <2>4, <2>5, <2>6
<1>4. QED
  BY <1>1, <1>2, <1>3

(* merge_history() joins what two sources know: it does not matter in      *)
(* which order stores and services are merged, or how often, and nothing   *)
(* is in the result that neither of them knew.                             *)
THEOREM MergeIsJoin ==
  ASSUME NEW a \in History \cup {None}, NEW b \in History \cup {None},
         NEW c \in History \cup {None}
  PROVE  /\ Merge(a, a) = a
         /\ Merge(a, b) = Merge(b, a)
         /\ Merge(a, Merge(b, c)) = Merge(Merge(a, b), c)
         /\ Covers(c, a) /\ Covers(c, b) => Covers(c, Merge(a, b))
<1>1. \A x, y, z \in Nat :
        /\ Greater(x, x) = x /\ Greater(x, y) = Greater(y, x)
        /\ Greater(x, Greater(y, z)) = Greater(Greater(x, y), z)
        /\ z >= x /\ z >= y => z >= Greater(x, y)
  BY DEF Greater
<1>2. \A x, y, z \in Nat :
        /\ LeastPositive(x, x) = x /\ LeastPositive(x, y) = LeastPositive(y, x)
        /\ LeastPositive(x, LeastPositive(y, z)) = LeastPositive(LeastPositive(x, y), z)
        /\ (x > 0 => z > 0 /\ z <= x) /\ (y > 0 => z > 0 /\ z <= y) =>
             (LeastPositive(x, y) > 0 => z > 0 /\ z <= LeastPositive(x, y))
  BY DEF LeastPositive, Lesser
\* Two known histories are merged value by value.
<1> DEFINE Both(h, g) == [total |-> Greater(h.total, g.total),
                         min |-> LeastPositive(h.min, g.min)]
<1>3. \A h, g \in History : Merge(h, g) = Both(h, g) /\ Both(h, g) \in History
  <2>1. \A x, y \in Nat : Greater(x, y) \in {x, y} /\ LeastPositive(x, y) \in {x, y}
    BY DEF Greater, LeastPositive, Lesser
  <2>2. \A h, g \in History : Both(h, g) \in History
    BY <2>1, HistoryIsKnown DEF History
  <2>3. QED
    BY <2>2, HistoryIsKnown DEF Merge
<1>4. \A h \in History : h = [total |-> h.total, min |-> h.min]
  BY DEF History
<1>5. CASE None \in {a, b, c}
  <2>1. Merge(a, a) = a
    BY <1>1, <1>2, <1>3, <1>4, HistoryIsKnown DEF Merge
  <2>2. Merge(a, b) = Merge(b, a)
    BY <1>1, <1>2, <1>3, HistoryIsKnown DEF Merge
  <2>3. Merge(a, Merge(b, c)) = Merge(Merge(a, b), c)
    BY <1>3, <1>5, HistoryIsKnown DEF Merge
  <2>4. Covers(c, a) /\ Covers(c, b) => Covers(c, Merge(a, b))
    BY <1>5 DEF Covers, Merge
  <2>5. QED
    BY <2>1, <2>2, <2>3, <2>4
<1>6. CASE a \in History /\ b \in History /\ c \in History
  <2>1. Merge(a, a) = a
    BY <1>1, <1>2, <1>3, <1>4, <1>6, HistoryIsKnown
  <2>2. Merge(a, b) = Merge(b, a)
    <3>1. Merge(a, b) = Both(a, b) /\ Merge(b, a) = Both(b, a)
      BY <1>3, <1>6
    <3>2. QED
      BY <1>1, <1>2, <1>6, <3>1, HistoryIsKnown
  <2>3. Merge(a, Merge(b, c)) = Merge(Merge(a, b), c)
    <3>1. /\ Merge(a, Merge(b, c)) = Both(a, Both(b, c))
          /\ Merge(Merge(a, b), c) = Both(Both(a, b), c)
      BY <1>3, <1>6
    <3>2. QED
      BY <1>1, <1>2, <1>6, <3>1, HistoryIsKnown
  <2>4. ASSUME Covers(c, a), Covers(c, b) PROVE Covers(c, Merge(a, b))
    <3>1. /\ c.total >= Greater(a.total, b.total)
          /\ LeastPositive(a.min, b.min) > 0 =>
               c.min > 0 /\ c.min <= LeastPositive(a.min, b.min)
      BY <1>1, <1>2, <1>6, <2>4, HistoryIsKnown DEF Covers
    <3>2. /\ Merge(a, b) = Both(a, b) /\ c # None
          /\ Both(a, b).total = Greater(a.total, b.total)
          /\ Both(a, b).min = LeastPositive(a.min, b.min)
      BY <1>3, <1>6, HistoryIsKnown
    <3>3. QED
      BY <3>1, <3>2 DEF Covers
  <2>5. QED
    BY <2>1, <2>2, <2>3, <2>4
<1>7. QED
  BY <1>5, <1>6

-----------------------------------------------------------------------------
LEMMA InitInv == Init => IInv
BY HistoryIsKnown, ConstantsAssumption
   DEF Init, IInv, TypeOK, DryRuns, Untouched, Complete, ConfigKept, DoneMeansAll, Retaining

LEMMA BeginKeeps ==
  ASSUME IInv, NEW m \in {"migrate", "dry", "keep"}, Begin(m)
  PROVE  IInv'
<1>1. TypeOK'
  BY DEF IInv, TypeOK, Begin, files, Retaining
<1>2. (DryRuns /\ Untouched /\ Complete)'
  BY DEF IInv, TypeOK, Begin, files, Retaining, DryRuns, Untouched, Complete
<1>3. (ConfigKept /\ DoneMeansAll)'
  BY DEF IInv, Begin, files, ConfigKept, DoneMeansAll
<1>4. QED
  BY <1>1, <1>2, <1>3 DEF IInv

LEMMA AskKeeps ==
  ASSUME IInv, NEW s \in Serial, Ask(s)
  PROVE  IInv'
<1>1. config /\ UNCHANGED <<config, legacy>>
  BY DEF IInv, Untouched, Ask, files
<1>2. TypeOK'
  BY ConstantsAssumption DEF IInv, TypeOK, Ask, Fault, files, Retaining
<1>3. (DryRuns /\ Untouched /\ Complete)'
  BY <1>1 DEF IInv, Ask, Retaining, DryRuns, Untouched, Complete
<1>4. QED
  BY <1>1, <1>2, <1>3 DEF IInv, ConfigKept, DoneMeansAll

LEMMA SaveManifestKeeps ==
  ASSUME IInv, SaveManifest
  PROVE  IInv'
<1>1. config /\ UNCHANGED <<config, legacy>>
  BY DEF IInv, Untouched, SaveManifest
<1>2. TypeOK'
  BY DEF IInv, TypeOK, SaveManifest, Retaining
<1>3. (DryRuns /\ Untouched /\ Complete)'
  BY <1>1 DEF IInv, TypeOK, SaveManifest, Retaining, DryRuns, Untouched, Complete
<1>4. QED
  BY <1>1, <1>2, <1>3 DEF IInv, ConfigKept, DoneMeansAll

LEMMA SaveHistoryKeeps ==
  ASSUME IInv, NEW s \in Serial, SaveHistory(s)
  PROVE  IInv' /\ Covers(store'[s], store[s])
<1>1. config /\ UNCHANGED <<config, legacy>>
  BY DEF IInv, Untouched, SaveHistory
<1>2. store'[s] = Written(Merge(store[s], captured[s]))
  BY DEF IInv, TypeOK, SaveHistory
<1>3. /\ store'[s] \in History
      /\ Covers(store'[s], store[s]) /\ Covers(store'[s], captured[s])
  BY <1>2, MergeCovers DEF IInv, TypeOK
<1>4. TypeOK'
  BY <1>2, <1>3 DEF IInv, TypeOK, SaveHistory, Retaining
<1>5. (DryRuns /\ Untouched)'
  BY <1>1 DEF IInv, SaveHistory, Retaining, DryRuns, Untouched
<1>6. Complete'
  <2>1. ASSUME NEW t \in Serial \ left' PROVE Covers(store'[t], captured'[t])
    BY <1>3, <2>1 DEF IInv, TypeOK, SaveHistory, Complete
  <2>2. QED
    BY <2>1 DEF IInv, SaveHistory, Retaining, Complete
<1>7. QED
  BY <1>1, <1>3, <1>4, <1>5, <1>6 DEF IInv, ConfigKept, DoneMeansAll

\* The end of a run, in all its ways
LEMMA PuttingAwayKeeps ==
  ASSUME IInv, HistoriesSaved \/ Rename \/ CopyBegins \/ CopyEnds \/ Unlink
  PROVE  IInv'
<1>1. config /\ manifest = Serial
  BY DEF IInv, Untouched, Complete, Retaining, HistoriesSaved, Rename, CopyBegins,
     CopyEnds, Unlink
<1>2. left = {} /\ \A s \in Serial : Covers(store[s], captured[s])
  BY DEF IInv, TypeOK, Complete, Retaining, HistoriesSaved, Rename, CopyBegins,
     CopyEnds, Unlink
<1>3. UNCHANGED <<manifest, store, live, mode, found, left, captured, faults>>
  BY DEF files, HistoriesSaved, Rename, CopyBegins, CopyEnds, Unlink
<1>4. CASE HistoriesSaved
  BY <1>1, <1>2, <1>3, <1>4
     DEF IInv, TypeOK, DryRuns, Untouched, Complete, ConfigKept, DoneMeansAll,
         Retaining, HistoriesSaved, Keeps, files
<1>5. CASE Rename
  BY <1>1, <1>2, <1>3, <1>5
     DEF IInv, TypeOK, DryRuns, Untouched, Complete, ConfigKept, DoneMeansAll,
         Retaining, Rename
<1>6. CASE CopyBegins \/ CopyEnds
  BY <1>1, <1>2, <1>3, <1>6
     DEF IInv, TypeOK, DryRuns, Untouched, Complete, ConfigKept, DoneMeansAll,
         Retaining, CopyBegins, CopyEnds, Copied
<1>7. CASE Unlink
  BY <1>1, <1>2, <1>3, <1>7
     DEF IInv, TypeOK, DryRuns, Untouched, Complete, ConfigKept, DoneMeansAll,
         Retaining, Unlink
<1>8. QED
  BY <1>4, <1>5, <1>6, <1>7

\* A run that ends early, and what goes on around the script
LEMMA OthersKeep ==
  ASSUME IInv,
         \/ Stopped \/ ConfigReturns
         \/ \E s \in Serial : AskFails(s) \/ Poll(s) \/ ServiceRestarts(s)
  PROVE  IInv' /\ UNCHANGED store
<1>1. CASE Stopped \/ \E s \in Serial : AskFails(s)
  <2>1. /\ config /\ pc' = "stopped"
        /\ UNCHANGED <<config, legacy, manifest, store, live, mode, found, left, captured>>
        /\ faults' \in 0..MaxFaults
    BY <1>1, ConstantsAssumption DEF IInv, TypeOK, Untouched, Retaining, Stopped, AskFails, Raised, Fault, files
  <2>2. QED
    BY <2>1 DEF IInv, TypeOK, DryRuns, Untouched, Complete, ConfigKept, DoneMeansAll, Retaining
<1>2. CASE ConfigReturns
  BY <1>2, ConstantsAssumption DEF IInv, TypeOK, DryRuns, Untouched, Complete, ConfigKept, DoneMeansAll,
     Retaining, ConfigReturns, Fault
<1>3. CASE \E s \in Serial : Poll(s) \/ ServiceRestarts(s)
  <2>1. /\ live' \in [Serial -> History \cup {None}]
        /\ faults' \in 0..MaxFaults
        /\ UNCHANGED <<files, script>>
    BY <1>3, HistoryIsKnown, ConstantsAssumption DEF IInv, TypeOK, Poll, ServiceRestarts, Fault, script
  <2>2. QED
    BY <2>1 DEF IInv, TypeOK, DryRuns, Untouched, Complete, ConfigKept, DoneMeansAll,
       Retaining, files, script
<1>4. QED
  BY <1>1, <1>2, <1>3

LEMMA NextKeeps ==
  ASSUME IInv, [Next]_vars
  PROVE  IInv' /\ \A s \in Serial : Covers(store'[s], store[s])
<1>a. ASSUME UNCHANGED store, NEW s \in Serial PROVE Covers(store'[s], store[s])
  BY <1>a, CoversItself DEF IInv, TypeOK
<1>1. ASSUME NEW m \in {"migrate", "dry", "keep"}, Begin(m)
      PROVE  IInv' /\ UNCHANGED store
  BY <1>1, BeginKeeps DEF Begin, files
<1>2. ASSUME NEW s \in Serial, Ask(s) PROVE IInv' /\ UNCHANGED store
  BY <1>2, AskKeeps DEF Ask, files
<1>3. CASE SaveManifest
  BY <1>3, <1>a, SaveManifestKeeps DEF SaveManifest
<1>4. ASSUME NEW s \in Serial, SaveHistory(s)
      PROVE  IInv' /\ \A t \in Serial : Covers(store'[t], store[t])
  <2>1. ASSUME NEW t \in Serial, t # s PROVE Covers(store'[t], store[t])
    BY <1>4, <2>1, CoversItself DEF IInv, TypeOK, SaveHistory
  <2>2. QED
    BY <1>4, <2>1, SaveHistoryKeeps
<1>5. CASE HistoriesSaved \/ Rename \/ CopyBegins \/ CopyEnds \/ Unlink
  <2>1. UNCHANGED store
    BY <1>5 DEF files, HistoriesSaved, Rename, CopyBegins, CopyEnds, Unlink
  <2>2. QED
    BY <1>5, <1>a, <2>1, PuttingAwayKeeps
<1>6. CASE UNCHANGED vars
  <2>1. UNCHANGED store
    BY <1>6 DEF vars, files
  <2>2. IInv'
    BY <1>6 DEF IInv, TypeOK, DryRuns, Untouched, Complete, ConfigKept, DoneMeansAll,
       Retaining, vars, files, script
  <2>3. QED
    BY <1>a, <2>1, <2>2
<1>7. CASE Stopped \/ ConfigReturns \/ \E s \in Serial : AskFails(s) \/ Poll(s) \/ ServiceRestarts(s)
  BY <1>7, <1>a, OthersKeep
<1>8. QED
  BY <1>1, <1>2, <1>3, <1>4, <1>5, <1>6, <1>7, <1>a DEF Next

-----------------------------------------------------------------------------
LEMMA InvHolds == Spec => []IInv
<1>1. IInv /\ [Next]_vars => IInv'
  BY NextKeeps
<1>2. QED
  BY InitInv, <1>1, PTL DEF Spec

(* The types are right, and config.json is gone at the end of a run that   *)
(* was to put it away, for any entries, bounds and failures.               *)
THEOREM TypeCorrect == Spec => []TypeOK
<1>1. IInv => TypeOK
  BY DEF IInv
<1>2. QED
  BY InvHolds, <1>1, PTL

(* Wherever migrate() is stopped, and however often it is repeated, one of *)
(* the two names holds the whole configuration.                            *)
THEOREM ConfigurationIsKept == Spec => []ConfigKept
<1>1. IInv => ConfigKept
  BY DEF IInv
<1>2. QED
  BY InvHolds, <1>1, PTL

(* config.json goes only after every entry has its serial in devices.json  *)
(* and every captured history is in its store.                             *)
THEOREM PutAwayLast == Spec => []DoneMeansAll
<1>1. IInv => DoneMeansAll
  BY DEF IInv
<1>2. QED
  BY InvHolds, <1>1, PTL

(* merge_history() never takes anything from a store: no step does.        *)
THEOREM HistoriesOnlyGrow == Spec => NoHistoryLost
<1>1. IInv /\ [Next]_vars => [\A s \in Serial : Covers(store'[s], store[s])]_vars
  BY NextKeeps
<1>2. QED
  BY InvHolds, <1>1, PTL DEF Spec, NoHistoryLost
=============================================================================
