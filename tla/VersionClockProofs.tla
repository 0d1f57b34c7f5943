------------------------- MODULE VersionClockProofs -------------------------
(***************************************************************************)
(* The version clock never reissues a token and never issues one a power    *)
(* loss could take back, for any number of threads, crashes and failures.   *)
(*                                                                          *)
(* The inductive invariant has two modes.  Normally every record a power    *)
(* loss may leave is at or above the ceiling in memory.  A store reopened   *)
(* on a record whose rename was not known durable lacks that, but then no   *)
(* token below its ceiling is left to take: the first one extends it.       *)
(***************************************************************************)
EXTENDS VersionClock, TLAPS

\* The mutex belongs to the thread inside the critical section.
MutexHeld ==
  \A t \in Threads : pc[t] \in {"extend", "raiseextend", "raise"} <=> holder = t

\* A thread about to persist a ceiling asks for one above the current one.
ExtendsUpwards ==
  \A t \in Threads : pc[t] \in {"extend", "raiseextend"} => cand[t] >= ceiling

\* What the constructor has established once the store is not closed.
Opened ==
  phase # "closed" =>
    /\ rec # NoRecord
    /\ ceiling > 0
    /\ clock > 0
    /\ \A x \in issued : x < clock /\ x < ceiling
OnlyOpenRuns == phase # "open" => \A t \in Threads : pc[t] = "idle"

\* A candidate lies below the clock and is not zero.
CandidatesTaken ==
  \A t \in Threads : Taking(t) => cand[t] > 0 /\ cand[t] < clock

RecordsReachCeiling == \A v \in recOut : v >= ceiling
NothingBelowCeiling ==
  /\ clock >= ceiling
  /\ \A t \in Threads : Taking(t) => cand[t] >= ceiling
CeilingCovered ==
  phase # "closed" => RecordsReachCeiling \/ NothingBelowCeiling

\* Once a token is out, the record is durable, or it was lost beside a marker or
\* chunk files that make the next start refuse.
LossNoticed ==
  issued # {} /\ NoRecord \in recOut =>
    recOut = {NoRecord} /\ (artifacts \/ markerOut = {TRUE})

\* Revisions are remembered while the store is open, and a load asks for the
\* clock just above its revision.
ClosedForgets == phase # "open" => raised = {}
RaiseAsked ==
  \A t \in Threads : pc[t] \in {"raiselock", "raiseextend", "raise"}
                       => cand[t] - 1 \in Revisions

IInv ==
  /\ TypeOK
  /\ IssuedBelowDurable
  /\ TokensUnique
  /\ RaisedBelowClock
  /\ MutexHeld
  /\ ExtendsUpwards
  /\ Opened
  /\ OnlyOpenRuns
  /\ CandidatesTaken
  /\ CeilingCovered
  /\ LossNoticed
  /\ ClosedForgets
  /\ RaiseAsked

\* The invariant is inductive: one step per action, and under it one per
\* conjunct whose variables the action changes.
LEMMA InvariantInductive == IInv /\ [Next]_vars => IInv'
<1> SUFFICES ASSUME IInv, [Next]_vars PROVE IInv'
  BY Zenon
<1>0. TypeOK /\ IssuedBelowDurable /\ TokensUnique /\ RaisedBelowClock
      /\ MutexHeld /\ ExtendsUpwards /\ Opened /\ OnlyOpenRuns /\ CandidatesTaken
      /\ CeilingCovered /\ LossNoticed /\ ClosedForgets /\ RaiseAsked
  BY Zenon DEF IInv
<1>1. ASSUME OpenFresh PROVE IInv'
  <2>0. Larger(1, Floor) \in Nat /\ Larger(1, Floor) > 0
    BY ClockAssumption DEF Larger
  <2>a. issued = {}
    BY <1>0, <1>1, Zenon DEF OpenFresh, LossNoticed, TypeOK, NoRecord
  <2>1. TypeOK'
    <3>1. recOut' \subseteq Nat /\ rec' \in recOut'
      BY <1>0, <1>1, <2>0, Zenon DEF OpenFresh, RecordPersisted, RecordFails, TypeOK
    <3> QED
      BY <1>0, <1>1, <2>0, <3>1 DEF OpenFresh, RecordPersisted, RecordFails,
        threads, TypeOK
  <2>2. IssuedBelowDurable'
   BY <1>0, <1>1, Zenon DEF OpenFresh, RecordPersisted, RecordFails, Larger, threads,
       IssuedBelowDurable, TypeOK, LossNoticed, NoRecord
  <2>3. RaisedBelowClock'
   BY <1>0, <1>1, Zenon DEF OpenFresh, RecordPersisted, RecordFails, Larger, threads,
       RaisedBelowClock, TypeOK
  <2>4. ExtendsUpwards'
   BY <1>0, <1>1, Zenon DEF OpenFresh, RecordPersisted, RecordFails, Larger, threads,
       ExtendsUpwards, TypeOK, OnlyOpenRuns
  <2>5. Opened'
    BY <1>0, <1>1, <2>0, <2>a DEF OpenFresh, RecordPersisted, RecordFails, Opened,
      NoRecord
  <2>6. OnlyOpenRuns'
   BY <1>0, <1>1, Zenon DEF OpenFresh, RecordPersisted, RecordFails, Larger, threads,
       OnlyOpenRuns, TypeOK
  <2>7. CandidatesTaken'
   BY <1>0, <1>1, Zenon DEF OpenFresh, RecordPersisted, RecordFails, Larger, threads,
       CandidatesTaken, TypeOK, OnlyOpenRuns, Taking
  <2>8. CeilingCovered'
    BY <1>0, <1>1, <2>0 DEF OpenFresh, RecordPersisted, RecordFails, threads,
      CeilingCovered, RecordsReachCeiling
  <2>9. LossNoticed'
   BY <1>0, <1>1, Zenon DEF OpenFresh, RecordPersisted, RecordFails, Larger, threads,
       LossNoticed, TypeOK, NoRecord
  <2>10. ClosedForgets'
   BY <1>0, <1>1, Zenon DEF OpenFresh, RecordPersisted, RecordFails, Larger, threads,
       ClosedForgets, TypeOK
  <2>11. TokensUnique' /\ MutexHeld' /\ RaiseAsked'
   BY <1>0, <1>1, Zenon DEF OpenFresh, RecordPersisted, RecordFails, Larger, threads,
       TokensUnique, MutexHeld, RaiseAsked, Taking
  <2> QED
    BY <2>1, <2>2, <2>3, <2>4, <2>5, <2>6, <2>7, <2>8, <2>9, <2>10, <2>11, Zenon DEF IInv
<1>2. ASSUME OpenExisting PROVE IInv'
  <2>1. TypeOK'
   BY <1>0, <1>2, ClockAssumption, Zenon DEF OpenExisting, files, threads, TypeOK
  <2>2. RaisedBelowClock'
   BY <1>0, <1>2, Zenon DEF OpenExisting, files, threads, RaisedBelowClock, TypeOK,
       ClosedForgets
  <2>3. ExtendsUpwards'
   BY <1>0, <1>2, Zenon DEF OpenExisting, files, threads, ExtendsUpwards, TypeOK,
       OnlyOpenRuns
  <2>4. Opened'
   BY <1>0, <1>2 DEF OpenExisting, files, threads, Opened, TypeOK,
       IssuedBelowDurable, NoRecord
  <2>5. OnlyOpenRuns'
   BY <1>0, <1>2, Zenon DEF OpenExisting, files, threads, OnlyOpenRuns, TypeOK
  <2>6. CandidatesTaken'
   BY <1>0, <1>2, Zenon DEF OpenExisting, files, threads, CandidatesTaken, TypeOK,
       OnlyOpenRuns, Taking
  <2>7. CeilingCovered'
   BY <1>0, <1>2 DEF OpenExisting, files, threads, CeilingCovered, TypeOK,
       OnlyOpenRuns, RecordsReachCeiling, NothingBelowCeiling, Taking
  <2>8. ClosedForgets'
   BY <1>0, <1>2, Zenon DEF OpenExisting, files, threads, ClosedForgets, TypeOK
  <2>9. IssuedBelowDurable' /\ TokensUnique' /\ MutexHeld' /\ LossNoticed' /\ RaiseAsked'
   BY <1>0, <1>2, Zenon DEF OpenExisting, files, threads, IssuedBelowDurable,
       TokensUnique, MutexHeld, LossNoticed, RaiseAsked, NoRecord, Taking
  <2> QED
    BY <2>1, <2>2, <2>3, <2>4, <2>5, <2>6, <2>7, <2>8, <2>9, Zenon DEF IInv
<1>3. ASSUME PersistMarker PROVE IInv'
  <2>1. TypeOK'
    <3>1. markerOut' \subseteq BOOLEAN /\ marker' \in markerOut'
      BY <1>0, <1>3, Zenon DEF PersistMarker, TypeOK
    <3>2. phase' \in {"closed", "marker", "open"} /\ faults' \in {faults, faults + 1}
      BY <1>3, Zenon DEF PersistMarker
    <3>3. faults' \in Nat
      BY <1>0, <3>2 DEF TypeOK
    <3> QED
      BY <1>0, <1>3, <3>1, <3>2, <3>3, Zenon DEF PersistMarker, counter, threads, TypeOK
  <2>2. RaisedBelowClock'
   BY <1>0, <1>3, Zenon DEF PersistMarker, counter, threads, RaisedBelowClock,
       TypeOK, ClosedForgets
  <2>3. Opened'
   BY <1>0, <1>3, Zenon DEF PersistMarker, counter, threads, Opened, TypeOK, NoRecord
  <2>4. OnlyOpenRuns'
   BY <1>0, <1>3, Zenon DEF PersistMarker, counter, threads, OnlyOpenRuns, TypeOK
  <2>5. CeilingCovered'
   BY <1>0, <1>3, Zenon DEF PersistMarker, counter, threads, CeilingCovered, TypeOK,
       RecordsReachCeiling, NothingBelowCeiling, Taking
  <2>6. LossNoticed'
   BY <1>0, <1>3, Zenon DEF PersistMarker, counter, threads, LossNoticed, TypeOK,
       Opened, NoRecord
  <2>7. ClosedForgets'
   BY <1>0, <1>3, Zenon DEF PersistMarker, counter, threads, ClosedForgets, TypeOK
  <2>8. IssuedBelowDurable' /\ TokensUnique' /\ MutexHeld' /\ ExtendsUpwards' /\ CandidatesTaken' /\ RaiseAsked'
   BY <1>0, <1>3, Zenon DEF PersistMarker, counter, threads, IssuedBelowDurable,
       TokensUnique, MutexHeld, ExtendsUpwards, CandidatesTaken, RaiseAsked,
       NoRecord, Taking
  <2> QED
    BY <2>1, <2>2, <2>3, <2>4, <2>5, <2>6, <2>7, <2>8, Zenon DEF IInv
<1>4. ASSUME NEW t \in Threads, FetchAdd(t) PROVE IInv'
  <2>1. TypeOK'
   BY <1>0, <1>4, ClockAssumption DEF FetchAdd, files, TypeOK
  <2>2. TokensUnique'
   BY <1>0, <1>4 DEF FetchAdd, files, TokensUnique, TypeOK, Opened,
       CandidatesTaken, Taking, NoRecord
  <2>3. RaisedBelowClock'
    BY <1>0, <1>4, ClockAssumption DEF FetchAdd, files, RaisedBelowClock, TypeOK
  <2>4. MutexHeld'
   BY <1>0, <1>4, Zenon DEF FetchAdd, files, MutexHeld, TypeOK
  <2>5. ExtendsUpwards'
   BY <1>0, <1>4, Zenon DEF FetchAdd, files, ExtendsUpwards, TypeOK
  <2>6. Opened'
   BY <1>0, <1>4 DEF FetchAdd, files, Opened, TypeOK, NoRecord
  <2>7. OnlyOpenRuns'
   BY <1>0, <1>4, Zenon DEF FetchAdd, files, OnlyOpenRuns, TypeOK
  <2>8. CandidatesTaken'
   BY <1>0, <1>4 DEF FetchAdd, files, CandidatesTaken, TypeOK, Opened, Taking,
       NoRecord
  <2>9. CeilingCovered'
   BY <1>0, <1>4 DEF FetchAdd, files, CeilingCovered, TypeOK, Opened,
       RecordsReachCeiling, NothingBelowCeiling, Taking, NoRecord
  <2>10. RaiseAsked'
   BY <1>0, <1>4, Zenon DEF FetchAdd, files, RaiseAsked, TypeOK
  <2>11. IssuedBelowDurable' /\ LossNoticed' /\ ClosedForgets'
   BY <1>0, <1>4, Zenon DEF FetchAdd, files, IssuedBelowDurable, LossNoticed,
       ClosedForgets, NoRecord
  <2> QED
    BY <2>1, <2>2, <2>3, <2>4, <2>5, <2>6, <2>7, <2>8, <2>9, <2>10, <2>11, Zenon DEF IInv
<1>5. ASSUME NEW t \in Threads, CheckCeiling(t) PROVE IInv'
  <2>0. issued' = issued \/ (issued' = issued \cup {cand[t]} /\ cand[t] < ceiling)
    BY <1>5, Zenon DEF CheckCeiling, Issue
  <2>a. cand[t] \in Nat /\ cand[t] > 0 /\ phase = "open" /\ ceiling > 0
    BY <1>0, <1>5, Zenon DEF CheckCeiling, TypeOK, CandidatesTaken, Taking, OnlyOpenRuns, Opened
  <2>b. cand[t] < ceiling => \A v \in recOut : v >= ceiling
    BY <1>0, <1>5, <2>a DEF CheckCeiling, TypeOK, CeilingCovered, RecordsReachCeiling,
      NothingBelowCeiling, Taking
  <2>1. TypeOK'
    <3>1. artifacts' \in BOOLEAN
      BY <1>0, <1>5, Zenon DEF CheckCeiling, Issue, TypeOK
    <3>2. issued' \subseteq Nat \ {0}
      <4>1. issued \subseteq Nat \ {0}
        BY <1>0, Zenon DEF TypeOK
      <4>2. cand[t] \in Nat \ {0}
        BY <2>a
      <4> QED
        BY <2>0, <4>1, <4>2, Zenon
    <3>3. pc' \in [Threads -> {"idle", "check", "lock", "extend",
                              "raiselock", "raiseextend", "raise"}]
      BY <1>0, <1>5, Zenon DEF CheckCeiling, Issue, TypeOK
    <3>4. holder' \in Threads \cup {Nobody}
      BY <1>0, <1>5, Zenon DEF CheckCeiling, TypeOK
    <3> QED
      BY <1>0, <1>5, <3>1, <3>2, <3>3, <3>4, Zenon DEF CheckCeiling, counter, TypeOK
  <2>2. IssuedBelowDurable'
    <3> SUFFICES ASSUME NEW x \in issued', NEW v \in recOut, v # NoRecord
                 PROVE  x < v
      BY <1>5, Zenon DEF CheckCeiling, IssuedBelowDurable
    <3>1. CASE x \in issued
      BY <1>0, <3>1, Zenon DEF IssuedBelowDurable
    <3>2. CASE x = cand[t] /\ cand[t] < ceiling
      BY <1>0, <2>a, <2>b, <3>2 DEF TypeOK
    <3> QED
      BY <2>0, <3>1, <3>2, Zenon
  <2>3. TokensUnique'
   BY <1>0, <1>5, ZenonT(60) DEF CheckCeiling, Issue, counter, TokensUnique, TypeOK,
       Taking
  <2>4. MutexHeld'
   BY <1>0, <1>5, Zenon DEF CheckCeiling, Issue, counter, MutexHeld, TypeOK
  <2>5. ExtendsUpwards'
   BY <1>0, <1>5, Zenon DEF CheckCeiling, Issue, counter, ExtendsUpwards, TypeOK
  <2>6. Opened'
   BY <1>0, <1>5, Zenon DEF CheckCeiling, Issue, counter, Opened, TypeOK,
       CandidatesTaken, NoRecord, Taking
  <2>7. OnlyOpenRuns'
   BY <1>0, <1>5, Zenon DEF CheckCeiling, Issue, counter, OnlyOpenRuns, TypeOK
  <2>8. CandidatesTaken'
   BY <1>0, <1>5, Zenon DEF CheckCeiling, Issue, counter, CandidatesTaken, TypeOK,
       Taking
  <2>9. CeilingCovered'
   BY <1>0, <1>5, Zenon DEF CheckCeiling, Issue, counter, CeilingCovered, TypeOK,
       RecordsReachCeiling, NothingBelowCeiling, Taking
  <2>10. LossNoticed'
    <3>1. CASE issued' = issued
      BY <1>0, <1>5, <3>1, Zenon DEF CheckCeiling, Issue, LossNoticed
    <3>2. CASE cand[t] < ceiling
      BY <1>0, <1>5, <2>a, <2>b, <3>2 DEF CheckCeiling, LossNoticed, TypeOK, NoRecord
    <3> QED
      BY <2>0, <3>1, <3>2, Zenon
  <2>11. RaiseAsked'
   BY <1>0, <1>5, Zenon DEF CheckCeiling, Issue, counter, RaiseAsked, TypeOK
  <2>12. RaisedBelowClock' /\ ClosedForgets'
   BY <1>0, <1>5, Zenon DEF CheckCeiling, Issue, counter, RaisedBelowClock,
       ClosedForgets
  <2> QED
    BY <2>1, <2>2, <2>3, <2>4, <2>5, <2>6, <2>7, <2>8, <2>9, <2>10, <2>11, <2>12, Zenon DEF IInv
<1>6. ASSUME NEW t \in Threads, LockClock(t) PROVE IInv'
  <2>0. issued' = issued \/ (issued' = issued \cup {cand[t]} /\ cand[t] < ceiling)
    BY <1>6, Zenon DEF LockClock, Issue
  <2>a. cand[t] \in Nat /\ cand[t] > 0 /\ phase = "open" /\ ceiling > 0
    BY <1>0, <1>6, Zenon DEF LockClock, TypeOK, CandidatesTaken, Taking, OnlyOpenRuns, Opened
  <2>b. cand[t] < ceiling => \A v \in recOut : v >= ceiling
    BY <1>0, <1>6, <2>a DEF LockClock, TypeOK, CeilingCovered, RecordsReachCeiling,
      NothingBelowCeiling, Taking
  <2>1. TypeOK'
    <3>1. artifacts' \in BOOLEAN
      BY <1>0, <1>6, Zenon DEF LockClock, Issue, TypeOK
    <3>2. issued' \subseteq Nat \ {0}
      <4>1. issued \subseteq Nat \ {0}
        BY <1>0, Zenon DEF TypeOK
      <4>2. cand[t] \in Nat \ {0}
        BY <2>a
      <4> QED
        BY <2>0, <4>1, <4>2, Zenon
    <3>3. pc' \in [Threads -> {"idle", "check", "lock", "extend",
                              "raiselock", "raiseextend", "raise"}]
      BY <1>0, <1>6, Zenon DEF LockClock, Issue, TypeOK
    <3>4. holder' \in Threads \cup {Nobody}
      BY <1>0, <1>6, Zenon DEF LockClock, TypeOK
    <3> QED
      BY <1>0, <1>6, <3>1, <3>2, <3>3, <3>4, Zenon DEF LockClock, counter, TypeOK
  <2>2. IssuedBelowDurable'
    <3> SUFFICES ASSUME NEW x \in issued', NEW v \in recOut, v # NoRecord
                 PROVE  x < v
      BY <1>6, Zenon DEF LockClock, IssuedBelowDurable
    <3>1. CASE x \in issued
      BY <1>0, <3>1, Zenon DEF IssuedBelowDurable
    <3>2. CASE x = cand[t] /\ cand[t] < ceiling
      BY <1>0, <2>a, <2>b, <3>2 DEF TypeOK
    <3> QED
      BY <2>0, <3>1, <3>2, Zenon
  <2>3. TokensUnique'
   BY <1>0, <1>6, ZenonT(60) DEF LockClock, Issue, counter, TokensUnique, TypeOK, Taking
  <2>4. MutexHeld'
    <3>1. \/ holder' = Nobody /\ pc' = [pc EXCEPT ![t] = "idle"]
          \/ holder' = t /\ pc' = [pc EXCEPT ![t] = "extend"]
      BY <1>6, Zenon DEF LockClock, Issue
    <3>2. \A u \in Threads : pc[u] \notin {"extend", "raiseextend", "raise"} /\ u # Nobody
      BY <1>0, <1>6, ClockAssumption, Zenon DEF LockClock, MutexHeld
    <3>3. \A u \in Threads : u # t => pc'[u] = pc[u]
      BY <1>0, <3>1, Zenon DEF TypeOK
    <3>4. \/ holder' = Nobody /\ pc'[t] = "idle"
          \/ holder' = t /\ pc'[t] = "extend"
      BY <1>0, <1>6, <3>1, Zenon DEF TypeOK
    <3> QED
      BY <3>2, <3>3, <3>4, Zenon DEF MutexHeld
  <2>5. ExtendsUpwards'
   BY <1>0, <1>6, Zenon DEF LockClock, Issue, counter, ExtendsUpwards, TypeOK
  <2>6. Opened'
   BY <1>0, <1>6, Zenon DEF LockClock, Issue, counter, Opened, TypeOK,
       CandidatesTaken, NoRecord, Taking
  <2>7. OnlyOpenRuns'
   BY <1>0, <1>6, Zenon DEF LockClock, Issue, counter, OnlyOpenRuns, TypeOK
  <2>8. CandidatesTaken'
   BY <1>0, <1>6, Zenon DEF LockClock, Issue, counter, CandidatesTaken, TypeOK,
       Taking
  <2>9. CeilingCovered'
   BY <1>0, <1>6, Zenon DEF LockClock, Issue, counter, CeilingCovered, TypeOK,
       RecordsReachCeiling, NothingBelowCeiling, Taking
  <2>10. LossNoticed'
    <3>1. CASE issued' = issued
      BY <1>0, <1>6, <3>1, Zenon DEF LockClock, Issue, LossNoticed
    <3>2. CASE cand[t] < ceiling
      BY <1>0, <1>6, <2>a, <2>b, <3>2 DEF LockClock, LossNoticed, TypeOK, NoRecord
    <3> QED
      BY <2>0, <3>1, <3>2, Zenon
  <2>11. RaiseAsked'
   BY <1>0, <1>6, Zenon DEF LockClock, Issue, counter, RaiseAsked, TypeOK
  <2>12. RaisedBelowClock' /\ ClosedForgets'
   BY <1>0, <1>6, Zenon DEF LockClock, Issue, counter, RaisedBelowClock,
       ClosedForgets
  <2> QED
    BY <2>1, <2>2, <2>3, <2>4, <2>5, <2>6, <2>7, <2>8, <2>9, <2>10, <2>11, <2>12, Zenon DEF IInv
<1>7. ASSUME NEW t \in Threads, ExtendCeiling(t) PROVE IInv'
  <2>0. cand[t] \in Nat /\ cand[t] > 0 /\ phase = "open" /\ cand[t] >= ceiling
    BY <1>0, <1>7, Zenon DEF ExtendCeiling, TypeOK, CandidatesTaken, Taking, OnlyOpenRuns,
      ExtendsUpwards
  <2>a. cand[t] + Batch \in Nat /\ cand[t] + Batch > cand[t]
    BY <2>0, ClockAssumption
  <2>b. \/ /\ recOut' = {cand[t] + Batch} /\ rec' = cand[t] + Batch
           /\ ceiling' = cand[t] + Batch
           /\ issued' = issued \cup {cand[t]}
        \/ /\ recOut' \in {recOut, recOut \cup {cand[t] + Batch}}
           /\ rec' \in {rec, cand[t] + Batch}
           /\ ceiling' = ceiling
           /\ issued' = issued /\ artifacts' = artifacts
    BY <1>7, Zenon DEF ExtendCeiling, RecordPersisted, RecordFails, Issue
  <2>c. \A x \in issued : x \in Nat /\ x < clock /\ x < ceiling
    BY <1>0, <2>0, Zenon DEF Opened, TypeOK
  <2>1. TypeOK'
    <3>1. artifacts' \in BOOLEAN
      BY <1>0, <1>7, Zenon DEF ExtendCeiling, Issue, TypeOK
    <3>2. issued' \subseteq Nat \ {0}
      <4>1. issued \subseteq Nat \ {0}
        BY <1>0, Zenon DEF TypeOK
      <4>2. cand[t] \in Nat \ {0}
        BY <2>0
      <4> QED
        BY <2>b, <4>1, <4>2, Zenon
    <3>3. pc' \in [Threads -> {"idle", "check", "lock", "extend",
                              "raiselock", "raiseextend", "raise"}]
      BY <1>0, <1>7, Zenon DEF ExtendCeiling, Issue, TypeOK
    <3>4. recOut' \subseteq Nat /\ rec' \in recOut'
      BY <1>0, <1>7, <2>a, Zenon DEF ExtendCeiling, RecordPersisted, RecordFails, TypeOK
    <3>5. ceiling' \in Nat /\ faults' \in Nat
      BY <1>0, <1>7, <2>a DEF ExtendCeiling, RecordPersisted, RecordFails, TypeOK
    <3> QED
      BY <1>0, <1>7, <3>1, <3>2, <3>3, <3>4, <3>5, Zenon DEF ExtendCeiling, TypeOK
  <2>2. IssuedBelowDurable'
    <3> SUFFICES ASSUME NEW x \in issued', NEW v \in recOut', v # NoRecord
                 PROVE  x < v
      BY Zenon DEF IssuedBelowDurable
    <3>1. CASE v = cand[t] + Batch
      <4>1. x \in issued => x \in Nat /\ x < v
        BY <1>0, <2>0, <2>a, <2>c, <3>1 DEF TypeOK
      <4> QED
        BY <2>0, <2>a, <2>b, <3>1, <4>1, Zenon
    <3>2. CASE v \in recOut /\ issued' = issued
      BY <1>0, <3>2, Zenon DEF IssuedBelowDurable
    <3> QED
      BY <2>b, <3>1, <3>2
  <2>3. TokensUnique'
   BY <1>0, <1>7, ZenonT(60) DEF ExtendCeiling, Issue, RecordPersisted, RecordFails,
       TokensUnique, TypeOK, Taking
  <2>4. MutexHeld'
   BY <1>0, <1>7, ClockAssumption, Zenon DEF ExtendCeiling, Issue, RecordPersisted,
       RecordFails, MutexHeld, TypeOK
  <2>5. ExtendsUpwards'
   BY <1>0, <1>7, ClockAssumption, Zenon DEF ExtendCeiling, Issue, RecordPersisted,
       RecordFails, ExtendsUpwards, TypeOK, MutexHeld
  <2>6. Opened'
    <3>1. ceiling' \in Nat /\ ceiling' >= ceiling
      BY <1>0, <2>0, <2>a, <2>b DEF TypeOK
    <3>2. rec' # NoRecord
      BY <1>0, <2>0, <2>a, <2>b DEF Opened, NoRecord
    <3>3. \A x \in issued' : x < clock /\ x < ceiling'
      <4>1. cand[t] < clock
        BY <1>0, <1>7, Zenon DEF ExtendCeiling, CandidatesTaken, Taking
      <4>2. \A x \in issued : x < clock /\ x < ceiling'
        BY <1>0, <2>c, <3>1 DEF TypeOK
      <4>3. cand[t] \in issued' => cand[t] \in issued \/ cand[t] < ceiling'
        BY <2>a, <2>b, Zenon
      <4> QED
        BY <2>b, <4>1, <4>2, <4>3, Zenon
    <3> QED
      BY <1>0, <1>7, <2>0, <3>1, <3>2, <3>3 DEF ExtendCeiling, Opened, TypeOK
  <2>7. OnlyOpenRuns'
   BY <1>0, <1>7, Zenon DEF ExtendCeiling, Issue, RecordPersisted, RecordFails,
       OnlyOpenRuns, TypeOK
  <2>8. CandidatesTaken'
   BY <1>0, <1>7, Zenon DEF ExtendCeiling, Issue, RecordPersisted, RecordFails,
       CandidatesTaken, TypeOK, Taking
  <2>9. CeilingCovered'
    <3>1. CASE recOut' = {cand[t] + Batch} /\ ceiling' = cand[t] + Batch
      BY <2>a, <3>1 DEF CeilingCovered, RecordsReachCeiling
    <3>2. CASE recOut' \in {recOut, recOut \cup {cand[t] + Batch}} /\ ceiling' = ceiling
      <4>1. RecordsReachCeiling => RecordsReachCeiling'
        BY <1>0, <2>0, <2>a, <3>2 DEF RecordsReachCeiling, TypeOK
      <4>2. NothingBelowCeiling => NothingBelowCeiling'
        BY <1>0, <1>7, <3>2, Zenon DEF ExtendCeiling, Issue, NothingBelowCeiling, Taking, TypeOK
      <4> QED
        BY <1>0, <1>7, <4>1, <4>2, Zenon DEF ExtendCeiling, CeilingCovered
    <3> QED
      BY <2>b, <3>1, <3>2, Zenon
  <2>10. LossNoticed'
    <3>1. CASE recOut' = {cand[t] + Batch}
      BY <2>0, <2>a, <3>1 DEF LossNoticed, NoRecord
    <3>2. CASE recOut' \in {recOut, recOut \cup {cand[t] + Batch}} /\ issued' = issued
      <4>1. issued # {} => NoRecord \notin recOut
        BY <1>0, <2>0, Zenon DEF LossNoticed, Opened, TypeOK
      <4> QED
        BY <2>0, <2>a, <3>2, <4>1 DEF LossNoticed, NoRecord
    <3> QED
      BY <2>b, <3>1, <3>2, Zenon
  <2>11. RaiseAsked'
   BY <1>0, <1>7, Zenon DEF ExtendCeiling, Issue, RecordPersisted, RecordFails,
       RaiseAsked, TypeOK
  <2>12. RaisedBelowClock' /\ ClosedForgets'
   BY <1>0, <1>7, Zenon DEF ExtendCeiling, Issue, RecordPersisted, RecordFails,
       RaisedBelowClock, ClosedForgets
  <2> QED
    BY <2>1, <2>2, <2>3, <2>4, <2>5, <2>6, <2>7, <2>8, <2>9, <2>10, <2>11, <2>12, Zenon DEF IInv
<1>8. ASSUME NEW t \in Threads, RaiseLock(t) PROVE IInv'
  <2>1. TypeOK'
   BY <1>0, <1>8, ClockAssumption, Zenon DEF RaiseLock, Loaded, counter, files,
       TypeOK, RaiseAsked
  <2>2. TokensUnique'
   BY <1>0, <1>8 DEF RaiseLock, Loaded, counter, files, TokensUnique, TypeOK,
       Taking
  <2>3. RaisedBelowClock'
   BY <1>0, <1>8 DEF RaiseLock, Loaded, counter, files, RaisedBelowClock,
       TypeOK
  <2>4. MutexHeld'
   BY <1>0, <1>8, ClockAssumption DEF RaiseLock, Loaded, counter, files,
       MutexHeld, TypeOK
  <2>5. ExtendsUpwards'
   BY <1>0, <1>8 DEF RaiseLock, Loaded, counter, files, ExtendsUpwards, TypeOK
  <2>6. OnlyOpenRuns'
   BY <1>0, <1>8, Zenon DEF RaiseLock, Loaded, counter, files, OnlyOpenRuns, TypeOK
  <2>7. CandidatesTaken'
   BY <1>0, <1>8, Zenon DEF RaiseLock, Loaded, counter, files, CandidatesTaken,
       TypeOK, Taking
  <2>8. CeilingCovered'
   BY <1>0, <1>8, Zenon DEF RaiseLock, Loaded, counter, files, CeilingCovered,
       TypeOK, RecordsReachCeiling, NothingBelowCeiling, Taking
  <2>9. ClosedForgets'
    BY <1>0, <1>8, Zenon DEF RaiseLock, ClosedForgets, OnlyOpenRuns
  <2>10. RaiseAsked'
   BY <1>0, <1>8, Zenon DEF RaiseLock, Loaded, counter, files, RaiseAsked, TypeOK
  <2>11. IssuedBelowDurable' /\ Opened' /\ LossNoticed'
   BY <1>0, <1>8, Zenon DEF RaiseLock, Loaded, counter, files, IssuedBelowDurable,
       Opened, LossNoticed, NoRecord
  <2> QED
    BY <2>1, <2>2, <2>3, <2>4, <2>5, <2>6, <2>7, <2>8, <2>9, <2>10, <2>11, Zenon DEF IInv
<1>9. ASSUME NEW t \in Threads, RaiseExtend(t) PROVE IInv'
  <2>0. cand[t] \in Nat /\ phase = "open" /\ cand[t] >= ceiling
    BY <1>0, <1>9, Zenon DEF RaiseExtend, TypeOK, OnlyOpenRuns, ExtendsUpwards
  <2>a. cand[t] + Batch \in Nat /\ cand[t] + Batch > cand[t]
    BY <2>0, ClockAssumption
  <2>b. \/ /\ recOut' = {cand[t] + Batch} /\ rec' = cand[t] + Batch
           /\ ceiling' = cand[t] + Batch
           /\ issued' = issued
        \/ /\ recOut' \in {recOut, recOut \cup {cand[t] + Batch}}
           /\ rec' \in {rec, cand[t] + Batch}
           /\ ceiling' = ceiling
           /\ issued' = issued /\ artifacts' = artifacts
    BY <1>9, Zenon DEF RaiseExtend, RecordPersisted, RecordFails
  <2>c. \A x \in issued : x \in Nat /\ x < clock /\ x < ceiling
    BY <1>0, <2>0, Zenon DEF Opened, TypeOK
  <2>1. TypeOK'
    <3>1. pc' \in [Threads -> {"idle", "check", "lock", "extend",
                              "raiselock", "raiseextend", "raise"}]
      BY <1>0, <1>9, Zenon DEF RaiseExtend, TypeOK
    <3>2. recOut' \subseteq Nat /\ rec' \in recOut'
      BY <1>0, <1>9, <2>a, Zenon DEF RaiseExtend, RecordPersisted, RecordFails, TypeOK
    <3>3. ceiling' \in Nat /\ faults' \in Nat /\ holder' \in Threads \cup {Nobody}
      BY <1>0, <1>9, <2>a DEF RaiseExtend, RecordPersisted, RecordFails, TypeOK
    <3> QED
      BY <1>0, <1>9, <3>1, <3>2, <3>3, Zenon DEF RaiseExtend, TypeOK
  <2>2. IssuedBelowDurable'
    <3> SUFFICES ASSUME NEW x \in issued, NEW v \in recOut', v # NoRecord
                 PROVE  x < v
      BY <2>b, Zenon DEF IssuedBelowDurable
    <3>1. CASE v = cand[t] + Batch
      BY <1>0, <2>0, <2>a, <2>c, <3>1 DEF TypeOK
    <3>2. CASE v \in recOut
      BY <1>0, <3>2, Zenon DEF IssuedBelowDurable
    <3> QED
      BY <2>b, <3>1, <3>2
  <2>3. TokensUnique'
   BY <1>0, <1>9 DEF RaiseExtend, RecordPersisted, RecordFails, TokensUnique,
       TypeOK, Taking
  <2>4. MutexHeld'
   BY <1>0, <1>9, ClockAssumption, Zenon DEF RaiseExtend, RecordPersisted,
       RecordFails, MutexHeld, TypeOK
  <2>5. ExtendsUpwards'
   BY <1>0, <1>9, ClockAssumption, ZenonT(60) DEF RaiseExtend, RecordPersisted,
       RecordFails, ExtendsUpwards, TypeOK, MutexHeld
  <2>6. Opened'
    <3>1. ceiling' \in Nat /\ ceiling' >= ceiling
      BY <1>0, <2>0, <2>a, <2>b DEF TypeOK
    <3>2. rec' # NoRecord
      BY <1>0, <2>0, <2>a, <2>b DEF Opened, NoRecord
    <3>3. \A x \in issued' : x < clock /\ x < ceiling'
      <4>1. issued' = issued
        BY <2>b, Zenon
      <4> QED
        BY <1>0, <2>c, <3>1, <4>1 DEF TypeOK
    <3> QED
      BY <1>0, <1>9, <2>0, <3>1, <3>2, <3>3 DEF RaiseExtend, Opened, TypeOK
  <2>7. OnlyOpenRuns'
   BY <1>0, <1>9, Zenon DEF RaiseExtend, RecordPersisted, RecordFails, OnlyOpenRuns,
       TypeOK
  <2>8. CandidatesTaken'
   BY <1>0, <1>9, Zenon DEF RaiseExtend, RecordPersisted, RecordFails,
       CandidatesTaken, TypeOK, Taking
  <2>9. CeilingCovered'
    <3>1. CASE recOut' = {cand[t] + Batch} /\ ceiling' = cand[t] + Batch
      BY <2>a, <3>1 DEF CeilingCovered, RecordsReachCeiling
    <3>2. CASE recOut' \in {recOut, recOut \cup {cand[t] + Batch}} /\ ceiling' = ceiling
      <4>1. RecordsReachCeiling => RecordsReachCeiling'
        BY <1>0, <2>0, <2>a, <3>2 DEF RecordsReachCeiling, TypeOK
      <4>2. NothingBelowCeiling => NothingBelowCeiling'
        BY <1>0, <1>9, <3>2, Zenon DEF RaiseExtend, Issue, NothingBelowCeiling, Taking, TypeOK
      <4> QED
        BY <1>0, <1>9, <4>1, <4>2, Zenon DEF RaiseExtend, CeilingCovered
    <3> QED
      BY <2>b, <3>1, <3>2, Zenon
  <2>10. LossNoticed'
    <3>1. CASE recOut' = {cand[t] + Batch}
      BY <2>0, <2>a, <3>1 DEF LossNoticed, NoRecord
    <3>2. CASE recOut' \in {recOut, recOut \cup {cand[t] + Batch}} /\ issued' = issued
      <4>1. issued # {} => NoRecord \notin recOut
        BY <1>0, <2>0, Zenon DEF LossNoticed, Opened, TypeOK
      <4> QED
        BY <2>0, <2>a, <3>2, <4>1 DEF LossNoticed, NoRecord
    <3> QED
      BY <2>b, <3>1, <3>2, Zenon
  <2>11. RaiseAsked'
   BY <1>0, <1>9, Zenon DEF RaiseExtend, RecordPersisted, RecordFails, RaiseAsked,
       TypeOK
  <2>12. RaisedBelowClock' /\ ClosedForgets'
   BY <1>0, <1>9, Zenon DEF RaiseExtend, RecordPersisted, RecordFails,
       RaisedBelowClock, ClosedForgets
  <2> QED
    BY <2>1, <2>2, <2>3, <2>4, <2>5, <2>6, <2>7, <2>8, <2>9, <2>10, <2>11, <2>12, Zenon DEF IInv
<1>10. ASSUME NEW t \in Threads, RaiseClock(t) PROVE IInv'
  <2>1. TypeOK'
   BY <1>0, <1>10, ClockAssumption, Zenon DEF RaiseClock, RaiseStored, Larger,
       Loaded, files, TypeOK, RaiseAsked
  <2>2. TokensUnique'
   BY <1>0, <1>10, Zenon DEF RaiseClock, RaiseStored, Larger, Loaded, files,
       TokensUnique, TypeOK, Taking
  <2>3. RaisedBelowClock'
    BY <1>0, <1>10, ClockAssumption DEF RaiseClock, RaiseStored, Larger, Loaded,
      files, RaisedBelowClock, TypeOK
  <2>4. MutexHeld'
   BY <1>0, <1>10, ClockAssumption, Zenon DEF RaiseClock, RaiseStored, Larger,
       Loaded, files, MutexHeld, TypeOK
  <2>5. ExtendsUpwards'
   BY <1>0, <1>10, Zenon DEF RaiseClock, RaiseStored, Larger, Loaded, files,
       ExtendsUpwards, TypeOK
  <2>6. Opened'
   BY <1>0, <1>10 DEF RaiseClock, RaiseStored, Larger, Loaded, files, Opened,
       TypeOK, NoRecord
  <2>7. OnlyOpenRuns'
   BY <1>0, <1>10, Zenon DEF RaiseClock, RaiseStored, Larger, Loaded, files,
       OnlyOpenRuns, TypeOK
  <2>8. CandidatesTaken'
   BY <1>0, <1>10 DEF RaiseClock, RaiseStored, Larger, Loaded, files,
       CandidatesTaken, TypeOK, Taking
  <2>9. CeilingCovered'
   BY <1>0, <1>10 DEF RaiseClock, RaiseStored, Larger, Loaded, files,
       CeilingCovered, TypeOK, RecordsReachCeiling, NothingBelowCeiling,
       Taking
  <2>10. ClosedForgets'
    BY <1>0, <1>10, Zenon DEF RaiseClock, ClosedForgets, OnlyOpenRuns
  <2>11. RaiseAsked'
   BY <1>0, <1>10, Zenon DEF RaiseClock, RaiseStored, Larger, Loaded, files,
       RaiseAsked, TypeOK
  <2>12. IssuedBelowDurable' /\ LossNoticed'
   BY <1>0, <1>10, Zenon DEF RaiseClock, RaiseStored, Larger, Loaded, files,
       IssuedBelowDurable, LossNoticed, NoRecord
  <2> QED
    BY <2>1, <2>2, <2>3, <2>4, <2>5, <2>6, <2>7, <2>8, <2>9, <2>10, <2>11, <2>12, Zenon DEF IInv
<1>11. ASSUME NEW t \in Threads, NEW r \in Revisions, StartRaise(t, r) PROVE IInv'
  <2>1. TypeOK'
    <3>1. pc' \in [Threads -> {"idle", "check", "lock", "extend",
                              "raiselock", "raiseextend", "raise"}]
      BY <1>0, <1>11, Zenon DEF StartRaise, TypeOK
    <3>2. cand' \in [Threads -> Nat]
      BY <1>0, <1>11, ClockAssumption DEF StartRaise, TypeOK
    <3>3. raised' \subseteq Revisions
      BY <1>0, <1>11, Zenon DEF StartRaise, Loaded, TypeOK
    <3> QED
      BY <1>0, <1>11, <3>1, <3>2, <3>3, Zenon DEF StartRaise, counter, files, TypeOK
  <2>2. TokensUnique'
   BY <1>0, <1>11 DEF StartRaise, Loaded, counter, files, TokensUnique,
       TypeOK, Taking
  <2>3. RaisedBelowClock'
   BY <1>0, <1>11, Zenon DEF StartRaise, Loaded, counter, files, RaisedBelowClock,
       TypeOK
  <2>4. MutexHeld'
   BY <1>0, <1>11, Zenon DEF StartRaise, Loaded, counter, files, MutexHeld, TypeOK
  <2>5. ExtendsUpwards'
   BY <1>0, <1>11, Zenon DEF StartRaise, Loaded, counter, files, ExtendsUpwards,
       TypeOK
  <2>6. OnlyOpenRuns'
   BY <1>0, <1>11, Zenon DEF StartRaise, Loaded, counter, files, OnlyOpenRuns, TypeOK
  <2>7. CandidatesTaken'
   BY <1>0, <1>11, Zenon DEF StartRaise, Loaded, counter, files, CandidatesTaken,
       TypeOK, Taking
  <2>8. CeilingCovered'
   BY <1>0, <1>11, Zenon DEF StartRaise, Loaded, counter, files, CeilingCovered,
       TypeOK, RecordsReachCeiling, NothingBelowCeiling, Taking
  <2>9. ClosedForgets'
   BY <1>0, <1>11, Zenon DEF StartRaise, Loaded, counter, files, ClosedForgets,
       TypeOK
  <2>10. RaiseAsked'
    BY <1>0, <1>11, ClockAssumption DEF StartRaise, RaiseAsked, TypeOK
  <2>11. IssuedBelowDurable' /\ Opened' /\ LossNoticed'
   BY <1>0, <1>11, Zenon DEF StartRaise, Loaded, counter, files, IssuedBelowDurable,
       Opened, LossNoticed, NoRecord
  <2> QED
    BY <2>1, <2>2, <2>3, <2>4, <2>5, <2>6, <2>7, <2>8, <2>9, <2>10, <2>11, Zenon DEF IInv
<1>12. ASSUME ProcessCrash PROVE IInv'
  <2>1. TypeOK'
   BY <1>0, <1>12, ClockAssumption, SMTT(30) DEF ProcessCrash, Stop, Idle, counter,
       TypeOK
  <2>2. TokensUnique'
   BY <1>0, <1>12, Zenon DEF ProcessCrash, Stop, Idle, counter, TokensUnique, TypeOK,
       Taking
  <2>3. RaisedBelowClock'
   BY <1>0, <1>12, Zenon DEF ProcessCrash, Stop, Idle, counter, RaisedBelowClock,
       TypeOK
  <2>4. MutexHeld'
   BY <1>0, <1>12, ClockAssumption, Zenon DEF ProcessCrash, Stop, Idle, counter,
       MutexHeld, TypeOK
  <2>5. ExtendsUpwards'
   BY <1>0, <1>12, Zenon DEF ProcessCrash, Stop, Idle, counter, ExtendsUpwards,
       TypeOK
  <2>6. Opened'
   BY <1>0, <1>12, Zenon DEF ProcessCrash, Stop, Idle, counter, Opened, TypeOK,
       NoRecord
  <2>7. OnlyOpenRuns'
   BY <1>0, <1>12, Zenon DEF ProcessCrash, Stop, Idle, counter, OnlyOpenRuns, TypeOK
  <2>8. CandidatesTaken'
   BY <1>0, <1>12, Zenon DEF ProcessCrash, Stop, Idle, counter, CandidatesTaken,
       TypeOK, Taking
  <2>9. CeilingCovered'
   BY <1>0, <1>12, Zenon DEF ProcessCrash, Stop, Idle, counter, CeilingCovered,
       TypeOK, RecordsReachCeiling, NothingBelowCeiling, Taking
  <2>10. ClosedForgets'
   BY <1>0, <1>12, Zenon DEF ProcessCrash, Stop, Idle, counter, ClosedForgets, TypeOK
  <2>11. RaiseAsked'
   BY <1>0, <1>12, Zenon DEF ProcessCrash, Stop, Idle, counter, RaiseAsked, TypeOK
  <2>12. IssuedBelowDurable' /\ LossNoticed'
   BY <1>0, <1>12, Zenon DEF ProcessCrash, Stop, Idle, counter, IssuedBelowDurable,
       LossNoticed, NoRecord
  <2> QED
    BY <2>1, <2>2, <2>3, <2>4, <2>5, <2>6, <2>7, <2>8, <2>9, <2>10, <2>11, <2>12, Zenon DEF IInv
<1>13. ASSUME PowerLoss PROVE IInv'
  <2>1. TypeOK'
   BY <1>0, <1>13, ClockAssumption DEF PowerLoss, Stop, Idle, counter, TypeOK
  <2>2. IssuedBelowDurable'
   BY <1>0, <1>13, Zenon DEF PowerLoss, Stop, Idle, counter, IssuedBelowDurable,
       TypeOK, NoRecord
  <2>3. TokensUnique'
   BY <1>0, <1>13, Zenon DEF PowerLoss, Stop, Idle, counter, TokensUnique, TypeOK,
       Taking
  <2>4. RaisedBelowClock'
   BY <1>0, <1>13, Zenon DEF PowerLoss, Stop, Idle, counter, RaisedBelowClock, TypeOK
  <2>5. MutexHeld'
   BY <1>0, <1>13, ClockAssumption, Zenon DEF PowerLoss, Stop, Idle, counter,
       MutexHeld, TypeOK
  <2>6. ExtendsUpwards'
   BY <1>0, <1>13, Zenon DEF PowerLoss, Stop, Idle, counter, ExtendsUpwards, TypeOK
  <2>7. Opened'
   BY <1>0, <1>13, Zenon DEF PowerLoss, Stop, Idle, counter, Opened, TypeOK, NoRecord
  <2>8. OnlyOpenRuns'
   BY <1>0, <1>13, Zenon DEF PowerLoss, Stop, Idle, counter, OnlyOpenRuns, TypeOK
  <2>9. CandidatesTaken'
   BY <1>0, <1>13, Zenon DEF PowerLoss, Stop, Idle, counter, CandidatesTaken, TypeOK,
       Taking
  <2>10. CeilingCovered'
   BY <1>0, <1>13, Zenon DEF PowerLoss, Stop, Idle, counter, CeilingCovered, TypeOK,
       RecordsReachCeiling, NothingBelowCeiling, Taking
  <2>11. LossNoticed'
   BY <1>0, <1>13, Zenon DEF PowerLoss, Stop, Idle, counter, LossNoticed, TypeOK,
       NoRecord
  <2>12. ClosedForgets'
   BY <1>0, <1>13, Zenon DEF PowerLoss, Stop, Idle, counter, ClosedForgets, TypeOK
  <2>13. RaiseAsked'
   BY <1>0, <1>13, Zenon DEF PowerLoss, Stop, Idle, counter, RaiseAsked, TypeOK
  <2> QED
    BY <2>1, <2>2, <2>3, <2>4, <2>5, <2>6, <2>7, <2>8, <2>9, <2>10, <2>11, <2>12, <2>13, Zenon DEF IInv
<1>14. ASSUME NEW lost \in SUBSET {"clock", "marker"}, LoseRecords(lost) PROVE IInv'
  <2>1. TypeOK'
    <3>1. recOut' \subseteq Nat /\ rec' \in recOut'
      BY <1>0, <1>14 DEF LoseRecords, TypeOK, NoRecord
    <3>2. markerOut' \subseteq BOOLEAN /\ marker' \in markerOut'
      BY <1>0, <1>14, Zenon DEF LoseRecords, TypeOK
    <3>3. crashes' \in Nat
      BY <1>0, <1>14, SMTT(30) DEF LoseRecords, TypeOK
    <3> QED
      BY <1>0, <1>14, <3>1, <3>2, <3>3, Zenon DEF LoseRecords, counter, threads, TypeOK
  <2>2. IssuedBelowDurable'
   BY <1>0, <1>14, Zenon DEF LoseRecords, counter, threads, IssuedBelowDurable,
       TypeOK, NoRecord
  <2>3. Opened'
   BY <1>0, <1>14, Zenon DEF LoseRecords, counter, threads, Opened, TypeOK, NoRecord
  <2>4. CeilingCovered'
   BY <1>0, <1>14, Zenon DEF LoseRecords, counter, threads, CeilingCovered, TypeOK,
       RecordsReachCeiling, NothingBelowCeiling, Taking
  <2>5. LossNoticed'
   BY <1>0, <1>14, Zenon DEF LoseRecords, counter, threads, LossNoticed, TypeOK,
       NoRecord
  <2>6. TokensUnique' /\ RaisedBelowClock' /\ MutexHeld' /\ ExtendsUpwards' /\ OnlyOpenRuns' /\ CandidatesTaken' /\ ClosedForgets' /\ RaiseAsked'
   BY <1>0, <1>14, Zenon DEF LoseRecords, counter, threads, TokensUnique,
       RaisedBelowClock, MutexHeld, ExtendsUpwards, OnlyOpenRuns,
       CandidatesTaken, ClosedForgets, RaiseAsked, Taking
  <2> QED
    BY <2>1, <2>2, <2>3, <2>4, <2>5, <2>6, Zenon DEF IInv
<1>15. CASE UNCHANGED vars
   BY <1>0, <1>15, ZenonT(60) DEF IInv, vars, Taking, RecordsReachCeiling,
       NothingBelowCeiling, TypeOK, IssuedBelowDurable, TokensUnique,
       RaisedBelowClock, MutexHeld, ExtendsUpwards, Opened, OnlyOpenRuns,
       CandidatesTaken, CeilingCovered, LossNoticed, ClosedForgets, RaiseAsked
<1> QED
   BY <1>1, <1>2, <1>3, <1>4, <1>5, <1>6, <1>7, <1>8, <1>9, <1>10, <1>11,
     <1>12, <1>13, <1>14, <1>15, Zenon DEF Next

\* A store that was never opened: no record, no token, every thread idle.
LEMMA InvariantInitially == Init => IInv
<1> SUFFICES ASSUME Init PROVE IInv
  BY Zenon
<1>1. TypeOK
  <2>1. markerOut \subseteq BOOLEAN /\ marker \in markerOut /\ artifacts \in BOOLEAN
    BY Zenon DEF Init
  <2>2. recOut \subseteq Nat /\ rec \in recOut /\ issued \subseteq Nat \ {0}
    BY DEF Init, NoRecord
  <2> QED
    BY <2>1, <2>2, Zenon DEF Init, TypeOK, Idle
<1>2. IssuedBelowDurable /\ TokensUnique /\ RaisedBelowClock
  BY Zenon DEF Init, IssuedBelowDurable, TokensUnique, RaisedBelowClock, Taking, Idle
<1>3. MutexHeld /\ ExtendsUpwards /\ CandidatesTaken /\ RaiseAsked
  BY ClockAssumption, Zenon DEF Init, MutexHeld, ExtendsUpwards, CandidatesTaken, RaiseAsked,
    Taking, Idle
<1>4. Opened /\ OnlyOpenRuns /\ CeilingCovered /\ LossNoticed /\ ClosedForgets
  BY Zenon DEF Init, Opened, OnlyOpenRuns, CeilingCovered, LossNoticed, ClosedForgets, Idle
<1> QED
  BY <1>1, <1>2, <1>3, <1>4, Zenon DEF IInv

\* Every reachable state of InitializeVersionClock, NextChunkVersion and
\* RaiseVersionClockAbove satisfies the inductive invariant.
THEOREM InvariantAlways == Spec => []IInv
  BY InvariantInitially, InvariantInductive, PTL DEF Spec

\* The clock's variables keep their types.
THEOREM TypeCorrect == Spec => []TypeOK
<1>1. IInv => TypeOK
  BY Zenon DEF IInv
<1> QED
  BY <1>1, InvariantAlways, PTL

\* ExtendVersionClockCeilingLocked persists before it publishes: no power loss
\* leaves a ceiling at or below a token that was returned.
THEOREM IssuedStaysBelowDurable == Spec => []IssuedBelowDurable
<1>1. IInv => IssuedBelowDurable
  BY Zenon DEF IInv
<1> QED
  BY <1>1, InvariantAlways, PTL

\* NextChunkVersion never hands out a token twice, across threads and restarts.
THEOREM TokensNeverReissued == Spec => []TokensUnique
<1>1. IInv => TokensUnique
  BY Zenon DEF IInv
<1> QED
  BY <1>1, InvariantAlways, PTL

\* RaiseVersionClockAbove leaves the clock above every revision it was given.
THEOREM LoadsRaiseTheClock == Spec => []RaisedBelowClock
<1>1. IInv => RaisedBelowClock
  BY Zenon DEF IInv
<1> QED
  BY <1>1, InvariantAlways, PTL
=============================================================================
