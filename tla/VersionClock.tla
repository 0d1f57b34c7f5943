---------------------------- MODULE VersionClock ----------------------------
(***************************************************************************)
(* The version clock of one table (version_clock.cpp): the tokens every     *)
(* write, load of an absent chunk and commit takes without a lock, the      *)
(* ceiling persisted in chunkdb.version before a token above it is issued,  *)
(* the initialized-store marker, and what reopening makes of the two after  *)
(* a crash, a power loss or the loss of one of them.                        *)
(***************************************************************************)
EXTENDS Integers

CONSTANTS
  Threads,     \* the threads that take tokens or load chunks
  Nobody,      \* the holder of a free mutex
  Batch,       \* kVersionClockReservationBatch
  Floor,       \* initial_version_floor_, the directory's version floor
  MaxToken,    \* the largest uint64_t
  Revisions,   \* the revisions of chunk files that loads come across
  MaxFaults,   \* bound: persists that fail
  MaxCrashes   \* bound: crashes, power losses and lost records

ASSUME ClockAssumption ==
  /\ Batch \in Nat \ {0}
  /\ MaxToken \in Nat \ {0}
  /\ Floor \in 0..(MaxToken - 1)
  /\ Revisions \subseteq 1..(MaxToken - 1)
  /\ MaxFaults \in Nat
  /\ MaxCrashes \in Nat
  /\ Nobody \notin Threads

VARIABLES
  phase,      \* "closed", "marker" while the constructor persists it, "open"
  clock,      \* version_clock_, the next token
  ceiling,    \* version_clock_ceiling_
  rec,        \* the ceiling chunkdb.version holds, NoRecord if it is absent
  recOut,     \* what a power loss may leave in chunkdb.version
  marker,     \* .chunkdb.initialized is there
  markerOut,  \* what a power loss may leave of it
  artifacts,  \* the startup scan finds chunk files
  holder,     \* the holder of version_clock_mutex_
  pc,         \* where each thread is
  cand,       \* the token a thread took, or the clock value a load asks for
  issued,     \* history: the tokens returned, in any incarnation
  raised,     \* history: the revisions loaded since the store was opened
  faults, crashes

vars == <<phase, clock, ceiling, rec, recOut, marker, markerOut, artifacts,
          holder, pc, cand, issued, raised, faults, crashes>>

counter == <<clock, ceiling>>
files == <<rec, recOut, marker, markerOut, artifacts>>
threads == <<holder, pc, cand>>

NoRecord == 0   \* TryParseVersionClockRecord refuses a zero ceiling
Larger(a, b) == IF a < b THEN b ELSE a
Idle == [t \in Threads |-> "idle"]

Init ==
  /\ phase = "closed"
  /\ clock = 0
  /\ ceiling = 0
  /\ rec = NoRecord
  /\ recOut = {NoRecord}
  /\ marker = FALSE
  /\ markerOut = {FALSE}
  /\ artifacts = FALSE
  /\ holder = Nobody
  /\ pc = Idle
  /\ cand = [t \in Threads |-> 0]
  /\ issued = {}
  /\ raised = {}
  /\ faults = 0
  /\ crashes = 0

-----------------------------------------------------------------------------
(* AtomicWrite of the record, synced: it fails before the rename, or after it
   with the directory entry not known durable. *)

RecordPersisted(v) == rec' = v /\ recOut' = {v} /\ UNCHANGED faults
RecordFails(v) ==
  /\ faults < MaxFaults
  /\ faults' = faults + 1
  /\ \/ UNCHANGED <<rec, recOut>>
     \/ rec' = v /\ recOut' = recOut \cup {v}

-----------------------------------------------------------------------------
(* InitializeVersionClock *)

\* Neither record, and no chunk file: a new store.  Either record or a chunk
\* file without the clock is refused.
OpenIgnoringMarker ==
  LET first == Larger(1, Floor)
  IN  /\ phase = "closed"
      /\ rec = NoRecord
      /\ ~artifacts
      /\ clock' = first
      /\ ceiling' = first
      /\ \/ RecordPersisted(first) /\ phase' = "marker"
         \/ RecordFails(first) /\ UNCHANGED phase
      /\ UNCHANGED <<marker, markerOut, artifacts, threads, issued, raised, crashes>>
OpenFresh ==
  LET first == Larger(1, Floor)
  IN  /\ phase = "closed"
      /\ rec = NoRecord
      /\ ~marker
      /\ ~artifacts
      /\ clock' = first
      /\ ceiling' = first
      /\ \/ RecordPersisted(first) /\ phase' = "marker"
         \/ RecordFails(first) /\ UNCHANGED phase
      /\ UNCHANGED <<marker, markerOut, artifacts, threads, issued, raised, crashes>>

\* The clock resumes at the persisted ceiling: the first token extends it.
OpenExisting ==
  /\ phase = "closed"
  /\ rec # NoRecord
  /\ clock' = rec
  /\ ceiling' = rec
  /\ phase' = IF marker THEN "open" ELSE "marker"
  /\ UNCHANGED <<files, threads, issued, raised, faults, crashes>>

PersistMarker ==
  /\ phase = "marker"
  /\ \/ /\ marker' = TRUE
        /\ markerOut' = {TRUE}
        /\ phase' = "open"
        /\ UNCHANGED faults
     \/ /\ faults < MaxFaults
        /\ faults' = faults + 1
        /\ marker' \in {marker, TRUE}
        /\ markerOut' = markerOut \cup {marker'}
        /\ phase' = "closed"
  /\ UNCHANGED <<counter, rec, recOut, artifacts, threads, issued, raised, crashes>>

-----------------------------------------------------------------------------
(* NextChunkVersion *)

\* The fetch_add.  The bound stands for the wrap at 2^64, which takes another
\* Batch calls that fail once the clock is exhausted.
FetchAdd(t) ==
  /\ phase = "open"
  /\ pc[t] = "idle"
  /\ clock < MaxToken
  /\ cand' = [cand EXCEPT ![t] = clock]
  /\ clock' = clock + 1
  /\ pc' = [pc EXCEPT ![t] = "check"]
  /\ UNCHANGED <<phase, ceiling, files, holder, issued, raised, faults, crashes>>

\* The token is returned; the write that took it may leave a chunk file.
Issue(t) ==
  /\ issued' = issued \cup {cand[t]}
  /\ artifacts' \in {artifacts, TRUE}
  /\ pc' = [pc EXCEPT ![t] = "idle"]

CheckCeiling(t) ==
  /\ pc[t] = "check"
  /\ \/ cand[t] < ceiling /\ Issue(t)
     \/ /\ cand[t] >= ceiling
        /\ pc' = [pc EXCEPT ![t] = "lock"]
        /\ UNCHANGED <<issued, artifacts>>
  /\ UNCHANGED <<phase, counter, rec, recOut, marker, markerOut, holder, cand,
                 raised, faults, crashes>>

\* ExtendVersionClockCeilingLocked's exhaustion test comes before its write.
Exhausted(minimum) == minimum > MaxToken - Batch

LockClock(t) ==
  /\ pc[t] = "lock"
  /\ holder = Nobody
  /\ \/ cand[t] < ceiling /\ Issue(t) /\ UNCHANGED holder
     \/ /\ cand[t] >= ceiling
        /\ holder' = IF Exhausted(cand[t]) THEN Nobody ELSE t
        /\ pc' = [pc EXCEPT ![t] = IF Exhausted(cand[t]) THEN "idle" ELSE "extend"]
        /\ UNCHANGED <<issued, artifacts>>
  /\ UNCHANGED <<phase, counter, rec, recOut, marker, markerOut, cand, raised,
                 faults, crashes>>

\* The new ceiling is durable before the token below it is returned.
ExtendCeiling(t) ==
  LET new == cand[t] + Batch
  IN  /\ pc[t] = "extend"
      /\ \/ /\ RecordPersisted(new)
            /\ ceiling' = new
            /\ Issue(t)
         \/ /\ RecordFails(new)
            /\ pc' = [pc EXCEPT ![t] = "idle"]
            /\ UNCHANGED <<ceiling, issued, artifacts>>
      /\ holder' = Nobody
      /\ UNCHANGED <<phase, clock, marker, markerOut, cand, raised, crashes>>

-----------------------------------------------------------------------------
(* RaiseVersionClockAbove: a load has come across revision r. *)

Loaded(r) == raised' = raised \cup {r}

StartRaise(t, r) ==
  /\ phase = "open"
  /\ pc[t] = "idle"
  /\ \/ /\ clock > r
        /\ Loaded(r)
        /\ UNCHANGED <<pc, cand>>
     \/ /\ clock <= r
        /\ cand' = [cand EXCEPT ![t] = r + 1]
        /\ pc' = [pc EXCEPT ![t] = "raiselock"]
        /\ UNCHANGED raised
  /\ UNCHANGED <<phase, counter, files, holder, issued, faults, crashes>>

RaiseLock(t) ==
  /\ pc[t] = "raiselock"
  /\ holder = Nobody
  /\ \/ /\ clock >= cand[t]
        /\ Loaded(cand[t] - 1)
        /\ pc' = [pc EXCEPT ![t] = "idle"]
        /\ UNCHANGED holder
     \/ /\ clock < cand[t]
        /\ cand[t] >= ceiling /\ Exhausted(cand[t])
        /\ pc' = [pc EXCEPT ![t] = "idle"]
        /\ UNCHANGED <<holder, raised>>
     \/ /\ clock < cand[t]
        /\ cand[t] < ceiling \/ ~Exhausted(cand[t])
        /\ holder' = t
        /\ pc' = [pc EXCEPT ![t] = IF cand[t] < ceiling THEN "raise" ELSE "raiseextend"]
        /\ UNCHANGED raised
  /\ UNCHANGED <<phase, counter, files, cand, issued, faults, crashes>>

RaiseExtend(t) ==
  LET new == cand[t] + Batch
  IN  /\ pc[t] = "raiseextend"
      /\ \/ /\ RecordPersisted(new)
            /\ ceiling' = new
            /\ pc' = [pc EXCEPT ![t] = "raise"]
            /\ UNCHANGED holder
         \/ /\ RecordFails(new)
            /\ pc' = [pc EXCEPT ![t] = "idle"]
            /\ holder' = Nobody
            /\ UNCHANGED ceiling
      /\ UNCHANGED <<phase, clock, marker, markerOut, artifacts, cand, issued,
                     raised, crashes>>

\* The compare-exchange loop only ever raises the clock: takers do not hold
\* the mutex and may have moved it past the value read under it.
RaiseOneShort(t) == clock' = Larger(clock, cand[t] - 1)   (* Mutant: to the revision itself *)
RaiseStored(t) == clock' = Larger(clock, cand[t])

RaiseClock(t) ==
  /\ pc[t] = "raise"
  /\ RaiseStored(t)
  /\ Loaded(cand[t] - 1)
  /\ pc' = [pc EXCEPT ![t] = "idle"]
  /\ holder' = Nobody
  /\ UNCHANGED <<phase, ceiling, files, cand, issued, faults, crashes>>

-----------------------------------------------------------------------------
(* Crashes, and records lost while the store is closed.  An orderly close
   persists nothing and is a process crash to the clock. *)

Stop ==
  /\ crashes < MaxCrashes
  /\ crashes' = crashes + 1
  /\ phase' = "closed"
  /\ holder' = Nobody
  /\ pc' = Idle
  /\ raised' = {}
  /\ UNCHANGED <<counter, artifacts, cand, issued, faults>>

ProcessCrash == Stop /\ UNCHANGED <<rec, recOut, marker, markerOut>>

PowerLoss ==
  /\ Stop
  /\ rec' \in recOut /\ recOut' = {rec'}
  /\ marker' \in markerOut /\ markerOut' = {marker'}

\* One of the two records goes missing beside the other, or any beside chunk
\* files: what the marker and the startup scan are there to notice.
LoseRecords(lost) ==
  /\ phase = "closed"
  /\ \/ artifacts
     \/ lost = {"clock"} /\ markerOut = {TRUE}
     \/ lost = {"marker"} /\ NoRecord \notin recOut
  /\ crashes < MaxCrashes
  /\ crashes' = crashes + 1
  /\ rec' = IF "clock" \in lost THEN NoRecord ELSE rec
  /\ recOut' = IF "clock" \in lost THEN {NoRecord} ELSE recOut
  /\ marker' = ("marker" \notin lost /\ marker)
  /\ markerOut' = IF "marker" \in lost THEN {FALSE} ELSE markerOut
  /\ UNCHANGED <<phase, counter, artifacts, threads, issued, raised, faults>>

Next ==
  \/ OpenFresh \/ OpenExisting \/ PersistMarker
  \/ \E t \in Threads :
       \/ FetchAdd(t) \/ CheckCeiling(t) \/ LockClock(t) \/ ExtendCeiling(t)
       \/ RaiseLock(t) \/ RaiseExtend(t) \/ RaiseClock(t)
       \/ \E r \in Revisions : StartRaise(t, r)
  \/ ProcessCrash \/ PowerLoss
  \/ \E lost \in {{"clock"}, {"marker"}, {"clock", "marker"}} : LoseRecords(lost)

Spec == Init /\ [][Next]_vars

-----------------------------------------------------------------------------
(* Properties *)

Taking(t) == pc[t] \in {"check", "lock", "extend"}

\* Every variable holds what version_clock.cpp's types allow, and what the
\* process sees of a record is one of the outcomes of a power loss.
TypeOK ==
  /\ phase \in {"closed", "marker", "open"}
  /\ clock \in Nat
  /\ ceiling \in Nat
  /\ recOut \subseteq Nat
  /\ rec \in recOut
  /\ markerOut \subseteq BOOLEAN
  /\ marker \in markerOut
  /\ artifacts \in BOOLEAN
  /\ holder \in Threads \cup {Nobody}
  /\ pc \in [Threads -> {"idle", "check", "lock", "extend",
                         "raiselock", "raiseextend", "raise"}]
  /\ cand \in [Threads -> Nat]
  /\ issued \subseteq Nat \ {0}
  /\ raised \subseteq Revisions
  /\ faults \in Nat
  /\ crashes \in Nat

\* chunk_store.hpp: "the ceiling is persisted (fsynced)" before a token is
\* issued: whatever record a power loss leaves, a store opened from it starts
\* its clock above every token any earlier incarnation returned.
IssuedBelowDurable ==
  \A x \in issued, v \in recOut : v # NoRecord => x < v

\* No token is returned twice, by two threads, by a thread that a concurrent
\* RaiseVersionClockAbove overtakes, or by two incarnations, "a lost or corrupted
\* record" between them included: the tokens being taken are distinct and new.
TokensUnique ==
  \A t \in Threads :
    Taking(t) => /\ cand[t] \notin issued
                 /\ \A u \in Threads : Taking(u) /\ cand[u] = cand[t] => u = t

\* A write that follows a load takes a token above the loaded revision, so the
\* frames of a chunk stay ordered.
RaisedBelowClock ==
  phase = "open" => \A r \in raised : r < clock
=============================================================================
