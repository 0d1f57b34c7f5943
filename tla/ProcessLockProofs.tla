------------------------- MODULE ProcessLockProofs -------------------------
(***************************************************************************)
(* At most one process of those that share an OS lock writes a data        *)
(* directory, and at most one at all while starts do not overlap and       *)
(* heartbeats are in time, for any processes, hosts and locks.             *)
(*                                                                         *)
(* The OS lock alone separates the processes that share it.  Between hosts *)
(* the argument is about time: a start that judges the metadata of a live  *)
(* writer finds in it a heartbeat at most BeatWithin old when it was read, *)
(* and judges it at most JudgeWithin later, so it never looks stale.  A    *)
(* start past its judgement has therefore seen that nobody was settled,    *)
(* and while it goes on nobody else settles, since starts do not overlap.  *)
(***************************************************************************)
EXTENDS ProcessLock, TLAPS

Metadata ==
  [by : Procs \cup {"nobody"}, host : {Host[p] : p \in Procs} \cup {"none"}, beat : Nat]

TypeOK ==
  /\ now \in Nat
  /\ pc \in [Procs -> {"down", "load", "judge", "take", "build", "write", "run",
                       "beat", "stop", "undo", "leave"}]
  /\ meta \in Metadata
  /\ seen \in [Procs -> [meta : Metadata, at : Nat]]
  /\ text \in [Procs -> Nat]
  /\ calm \in BOOLEAN

\* The kernel grants a lock to one process at a time.
LocksApart ==
  \A p, q \in Procs : p # q /\ Holds(p) /\ Holds(q) => LockOf[p] # LockOf[q]

OneOpening ==
  \A p, q \in Procs : p # q => ~(Opening(p) /\ Opening(q))

\* The file names the process that settled, by a heartbeat in time.
SettledNamed ==
  \A q \in Procs : Settled(q) =>
    /\ meta.by = q /\ meta.host = Host[q]
    /\ meta.beat <= now /\ now - meta.beat <= BeatWithin

\* The text a process is about to write is of its own time, and a heartbeat
\* never goes back.
TextsFresh ==
  \A q \in Procs :
    /\ pc[q] \in {"write", "beat"} => text[q] <= now
    /\ pc[q] = "write" => now - text[q] <= BeatWithin
    /\ pc[q] = "beat" => meta.beat <= text[q]

\* Past its judgement, a start is alone.
TakenAlone ==
  \A p, q \in Procs :
    p # q /\ pc[p] \in {"take", "build", "write", "undo"} => ~Settled(q)

\* Before it, a start has read a heartbeat that cannot look stale to it.
JudgesLive ==
  \A p, q \in Procs : p # q /\ pc[p] = "judge" /\ Settled(q) =>
    /\ seen[p].meta.by = q /\ seen[p].meta.host = Host[q]
    /\ seen[p].at <= now /\ now - seen[p].at <= JudgeWithin
    /\ seen[p].at - seen[p].meta.beat <= BeatWithin

Calm == OneOpening /\ SettledNamed /\ TextsFresh /\ TakenAlone /\ JudgesLive

LockInv == TypeOK /\ LocksApart /\ (calm => Calm)

-----------------------------------------------------------------------------
\* A start never judges the metadata of a live writer stale: its host is
\* another one, and its heartbeat is younger than the threshold (Judge).
LEMMA LiveIsRefused ==
  ASSUME LockInv, calm, NEW p \in Procs, NEW q \in Procs, p # q,
         pc[p] = "judge", Settled(q)
  PROVE  /\ MetadataNamesOtherHost(seen[p].meta, p)
         /\ ~MetadataLooksStale(seen[p].meta, p)
<1>1. Holds(p) /\ Holds(q)
  BY Zenon DEF Holds, Settled
<1>2. Host[p] # Host[q]
  BY <1>1, LockAssumption, Zenon DEF LockInv, LocksApart
<1>3. seen[p].meta.by = q /\ seen[p].meta.host = Host[q]
  BY Zenon DEF LockInv, Calm, JudgesLive
<1>4. Named(seen[p].meta)
  BY <1>3, LockAssumption DEF Named, NoMeta
<1>5. ~HeartbeatStale(seen[p].meta)
  <2>1. now \in Nat /\ seen[p].at \in Nat /\ seen[p].meta.beat \in Nat
    BY Zenon DEF LockInv, TypeOK, Metadata
  <2>2. now - seen[p].at <= JudgeWithin /\ seen[p].at - seen[p].meta.beat <= BeatWithin
    BY Zenon DEF LockInv, Calm, JudgesLive
  <2> QED
    BY <2>1, <2>2, LockAssumption DEF HeartbeatStale
<1> QED
  BY <1>2, <1>3, <1>4, <1>5, Zenon DEF MetadataNamesOtherHost, MetadataLooksStale

LEMMA TypeInductive == TypeOK /\ [Next]_vars => TypeOK'
<1> SUFFICES ASSUME TypeOK, [Next]_vars PROVE TypeOK'
  BY Zenon
<1>0. NoMeta \in Metadata /\ NotRead \in [meta : Metadata, at : Nat]
  BY Zenon DEF NoMeta, NotRead, Metadata
<1>1. CASE UNCHANGED vars
  BY <1>1, Zenon DEF TypeOK, vars
<1>2. CASE Tick
  BY <1>2 DEF Tick, TypeOK
<1>3. ASSUME NEW p \in Procs, Step(p) PROVE TypeOK'
  <2>1. CASE Lock(p)
    BY <2>1, Zenon DEF Lock, Go, TypeOK
  <2>2. CASE LoadTextFile(p)
    BY <2>2, Zenon DEF LoadTextFile, Go, TypeOK
  <2>3. CASE Judge(p)
    BY <2>3, Zenon DEF Judge, Go, Refused, TypeOK
  <2>4. CASE MoveStale(p)
    BY <2>4, <1>0, Zenon DEF MoveStale, Go, ForgetRead, TypeOK
  <2>5. CASE BuildWriterMetadata(p)
    BY <2>5, Zenon DEF BuildWriterMetadata, Go, TypeOK
  <2>6. CASE WriteWriterMetadata(p)
    <3>1. meta' \in Metadata
      BY <2>6, Zenon DEF WriteWriterMetadata, TypeOK, Metadata
    <3> QED
      BY <2>6, <3>1, Zenon DEF WriteWriterMetadata, Go, ForgetText, TypeOK
  <2>7. CASE DropHeartbeat(p)
    BY <2>7, Zenon DEF DropHeartbeat, Go, ForgetText, TypeOK
  <2>8. CASE Fail(p)
    BY <2>8, <1>0, Zenon DEF Fail, Go, ForgetRead, ForgetText, TypeOK
  <2>9. CASE StopWriterHeartbeat(p)
    BY <2>9, Zenon DEF StopWriterHeartbeat, Go, TypeOK
  <2>10. CASE RemoveMeta(p)
    BY <2>10, <1>0, Zenon DEF RemoveMeta, Go, TypeOK
  <2>11. CASE Unlock(p)
    BY <2>11, <1>0, Zenon DEF Unlock, Go, ForgetRead, ForgetText, TypeOK
  <2>12. CASE Crash(p)
    BY <2>12, <1>0, Zenon DEF Crash, Go, ForgetRead, ForgetText, TypeOK
  <2> QED
    BY <1>3, <2>1, <2>2, <2>3, <2>4, <2>5, <2>6, <2>7, <2>8, <2>9, <2>10, <2>11, <2>12, Zenon
       DEF Step
<1> QED
  BY <1>1, <1>2, <1>3, Zenon DEF Next

\* Only Lock takes a lock, and only one that nobody holds.
LEMMA LocksInductive == TypeOK /\ LocksApart /\ [Next]_vars => LocksApart'
<1> SUFFICES ASSUME TypeOK, LocksApart, [Next]_vars PROVE LocksApart'
  BY Zenon
<1>1. ASSUME UNCHANGED pc PROVE LocksApart'
  BY <1>1, Zenon DEF LocksApart, Holds
<1>2. ASSUME NEW p \in Procs, Lock(p) PROVE LocksApart'
  BY <1>2 DEF LocksApart, Holds, Lock, Go, TypeOK
<1>3. ASSUME NEW p \in Procs, Step(p), ~Lock(p) PROVE LocksApart'
  <2>1. pc[p] # "down" /\ \E where : Go(p, where)
    BY <1>3, Zenon DEF Step, LoadTextFile, Judge, MoveStale, BuildWriterMetadata,
      WriteWriterMetadata, DropHeartbeat, Fail, StopWriterHeartbeat, RemoveMeta,
      Unlock, Crash
  <2> QED
    BY <2>1, Zenon DEF Go, LocksApart, Holds, TypeOK
<1> QED
  BY <1>1, <1>2, <1>3, Zenon DEF Next, Tick, vars

-----------------------------------------------------------------------------
\* While the timing holds, its consequences are preserved: one step per
\* action, and under it one per conjunct the action can disturb.
LEMMA CalmInductive == LockInv /\ [Next]_vars /\ calm' => Calm'
<1> SUFFICES ASSUME LockInv, [Next]_vars, calm' PROVE Calm'
  BY Zenon
<1>0. TypeOK /\ LocksApart
  BY Zenon DEF LockInv
<1>1. CASE UNCHANGED vars
  BY <1>1 DEF vars, LockInv, Calm, OneOpening, SettledNamed, TextsFresh, TakenAlone,
    JudgesLive, Opening, Settled
<1>2. CASE Tick
  <2>0. calm /\ Calm
    BY <1>2, Zenon DEF Tick, LockInv
  <2>1. OneOpening' /\ TakenAlone'
    BY <1>2, <2>0, Zenon DEF Tick, Calm, OneOpening, TakenAlone, Opening, Settled
  <2>a. /\ now' = now + 1 /\ UNCHANGED <<pc, meta, seen, text>>
        /\ \A q \in Procs :
             /\ Settled(q) => now' - meta.beat <= BeatWithin
             /\ pc[q] = "write" => now' - text[q] <= BeatWithin
             /\ pc[q] = "judge" => now' - seen[q].at <= JudgeWithin
    BY <1>2, Zenon DEF Tick
  <2>b. /\ now \in Nat /\ meta.beat \in Nat
        /\ \A q \in Procs : text[q] \in Nat /\ seen[q].at \in Nat
    BY <1>0, Zenon DEF TypeOK, Metadata
  <2>2. SettledNamed'
    BY <2>a, <2>b, <2>0 DEF Calm, SettledNamed, Settled
  <2>3. TextsFresh'
    BY <2>a, <2>b, <2>0 DEF Calm, TextsFresh
  <2>4. JudgesLive'
    BY <2>a, <2>b, <2>0 DEF Calm, JudgesLive, Settled
  <2> QED
    BY <2>1, <2>2, <2>3, <2>4, Zenon DEF Calm
<1>3. ASSUME NEW p \in Procs, Step(p) PROVE Calm'
  <2>0. calm /\ Calm /\ now' = now
    BY <1>3, Zenon DEF Step, Lock, LoadTextFile, Judge, MoveStale, BuildWriterMetadata,
      WriteWriterMetadata, DropHeartbeat, Fail, StopWriterHeartbeat, RemoveMeta,
      Unlock, Crash, LockInv, TypeOK
  <2>a. OneOpening /\ SettledNamed /\ TextsFresh /\ TakenAlone /\ JudgesLive
    BY <2>0, Zenon DEF Calm
  <2>1. CASE Lock(p)
    BY <1>0, <2>1, <2>a DEF Lock, Go, TypeOK, Calm, OneOpening, SettledNamed,
      TextsFresh, TakenAlone, JudgesLive, Opening, Settled
  <2>2. CASE LoadTextFile(p)
    <3>a. OneOpening'
      BY <1>0, <2>2, <2>a, Zenon DEF LoadTextFile, Go, TypeOK, OneOpening, Opening
    <3>b. SettledNamed'
      BY <1>0, <2>2, <2>a, Zenon DEF LoadTextFile, Go, TypeOK, SettledNamed, Settled
    <3>c. TextsFresh'
      BY <1>0, <2>2, <2>a, Zenon DEF LoadTextFile, Go, TypeOK, TextsFresh
    <3>d. TakenAlone'
      BY <1>0, <2>2, <2>a, Zenon DEF LoadTextFile, Go, TypeOK, TakenAlone, Opening, Settled
    <3>1. OneOpening' /\ SettledNamed' /\ TextsFresh' /\ TakenAlone'
      BY <3>a, <3>b, <3>c, <3>d, Zenon
    <3>2. JudgesLive'
      BY <1>0, <2>2, <2>a, LockAssumption DEF LoadTextFile, Go, TypeOK, Metadata,
        SettledNamed, JudgesLive, Settled
    <3> QED
      BY <3>1, <3>2, Zenon DEF Calm
  <2>3. CASE Judge(p)
    <3>1. (\E q \in Procs : q # p /\ Settled(q)) => pc'[p] = "leave"
      BY <1>0, <2>0, <2>3, LiveIsRefused, Zenon DEF Judge, Go, Refused, TypeOK
    <3>2. TakenAlone'
      BY <1>0, <2>3, <2>a, <3>1, ZenonT(60) DEF Judge, Go, Refused, TypeOK, TakenAlone, Settled
    <3>3. OneOpening' /\ SettledNamed' /\ TextsFresh' /\ JudgesLive'
      BY <1>0, <2>3, <2>a DEF Judge, Go, Refused, TypeOK, OneOpening, SettledNamed,
        TextsFresh, JudgesLive, Opening, Settled
    <3> QED
      BY <3>2, <3>3, Zenon DEF Calm
  <2>4. CASE MoveStale(p)
    <3>1. \A q \in Procs : ~Settled(q) /\ ~Settled(q)'
      BY <1>0, <2>4, <2>a, Zenon DEF MoveStale, Go, TypeOK, TakenAlone, Settled
    <3>2. OneOpening' /\ TakenAlone'
      BY <1>0, <2>4, <2>a, <3>1 DEF MoveStale, Go, TypeOK, OneOpening, TakenAlone, Opening
    <3>3. TextsFresh'
      BY <1>0, <2>4, <2>a, <3>1, Zenon DEF MoveStale, Go, TypeOK, TextsFresh, Settled
    <3> QED
      BY <3>1, <3>2, <3>3, Zenon DEF Calm, SettledNamed, JudgesLive
  <2>5. CASE BuildWriterMetadata(p)
    <3>1. OneOpening' /\ SettledNamed' /\ TakenAlone' /\ JudgesLive'
      BY <1>0, <2>5, <2>a DEF BuildWriterMetadata, Go, TypeOK, OneOpening, SettledNamed,
        TakenAlone, JudgesLive, Opening, Settled
    <3>2. TextsFresh'
      BY <1>0, <2>5, <2>a, LockAssumption DEF BuildWriterMetadata, Go, TypeOK,
        SettledNamed, TextsFresh, Settled
    <3> QED
      BY <3>1, <3>2, Zenon DEF Calm
  <2>6. CASE WriteWriterMetadata(p)
    <3>1. \A q \in Procs : q # p => ~Settled(q) /\ ~Settled(q)'
      BY <1>0, <2>6, <2>a, Zenon DEF WriteWriterMetadata, Go, TypeOK, TakenAlone, SettledNamed, Settled
    <3>2. /\ pc' = [pc EXCEPT ![p] = "run"] /\ pc'[p] = "run"
          /\ \A q \in Procs : q # p => pc'[q] = pc[q]
      BY <1>0, <2>6, Zenon DEF WriteWriterMetadata, Go, TypeOK
    <3>3. SettledNamed'
      <4>0. now \in Nat /\ meta.beat \in Nat /\ text[p] \in Nat /\ BeatWithin \in Nat
        BY <1>0, LockAssumption, Zenon DEF TypeOK, Metadata
      <4>1. text[p] <= now /\ now - text[p] <= BeatWithin
        <5>1. CASE pc[p] = "write"
          BY <5>1, <2>a, Zenon DEF TextsFresh
        <5>2. CASE pc[p] = "beat"
          BY <4>0, <5>2, <2>a DEF TextsFresh, SettledNamed, Settled
        <5> QED
          BY <2>6, <5>1, <5>2, Zenon DEF WriteWriterMetadata
      <4> QED
        BY <2>6, <3>1, <4>1, <2>0, Zenon DEF WriteWriterMetadata, SettledNamed
    <3>4. OneOpening'
      BY <2>a, <3>2, Zenon DEF OneOpening, Opening
    <3>5. TextsFresh'
      BY <1>0, <2>6, <2>a, <3>1, <3>2, Zenon DEF WriteWriterMetadata, ForgetText, TypeOK,
        TextsFresh, Settled
    <3>6. TakenAlone'
      BY <2>6, <2>a, <3>1, <3>2, SMTT(30) DEF WriteWriterMetadata, TakenAlone, OneOpening, Opening, Settled
    <3>7. JudgesLive'
      BY <2>6, <2>a, <3>1, <3>2, SMTT(30) DEF WriteWriterMetadata, JudgesLive, OneOpening, Opening, Settled
    <3> QED
      BY <3>3, <3>4, <3>5, <3>6, <3>7, Zenon DEF Calm
  <2>7. CASE DropHeartbeat(p)
    BY <1>0, <2>7, <2>a, SMTT(30) DEF DropHeartbeat, Go, ForgetText, TypeOK, Calm, OneOpening,
      SettledNamed, TextsFresh, TakenAlone, JudgesLive, Opening, Settled
  <2>8. CASE Fail(p)
    BY <1>0, <2>8, <2>a, SMTT(30) DEF Fail, Go, ForgetRead, ForgetText, TypeOK, Calm, OneOpening,
      SettledNamed, TextsFresh, TakenAlone, JudgesLive, Opening, Settled
  <2>9. CASE StopWriterHeartbeat(p)
    BY <1>0, <2>9, <2>a DEF StopWriterHeartbeat, Go, TypeOK, Calm, OneOpening,
      SettledNamed, TextsFresh, TakenAlone, JudgesLive, Opening, Settled
  <2>10. CASE RemoveMeta(p)
    <3>1. \A q \in Procs : ~Settled(q)'
      BY <1>0, <2>10, <2>a, ZenonT(60) DEF RemoveMeta, Go, TypeOK, TakenAlone, SettledNamed, Settled
    <3>2. OneOpening' /\ TakenAlone'
      BY <1>0, <2>10, <2>a, <3>1, ZenonT(60) DEF RemoveMeta, Go, TypeOK, OneOpening, TakenAlone, Opening
    <3>3. TextsFresh'
      BY <1>0, <2>10, <2>a, <3>1, Zenon DEF RemoveMeta, Go, TypeOK, TextsFresh, Settled
    <3> QED
      BY <3>1, <3>2, <3>3, Zenon DEF Calm, SettledNamed, JudgesLive
  <2>11. CASE Unlock(p)
    BY <1>0, <2>11, <2>a, SMTT(30) DEF Unlock, Go, ForgetRead, ForgetText, TypeOK, Calm, OneOpening,
      SettledNamed, TextsFresh, TakenAlone, JudgesLive, Opening, Settled
  <2>12. CASE Crash(p)
    BY <1>0, <2>12, <2>a DEF Crash, Go, ForgetRead, ForgetText, TypeOK, Calm, OneOpening,
      SettledNamed, TextsFresh, TakenAlone, JudgesLive, Opening, Settled
  <2> QED
    BY <1>3, <2>1, <2>2, <2>3, <2>4, <2>5, <2>6, <2>7, <2>8, <2>9, <2>10, <2>11, <2>12, Zenon
       DEF Step
<1> QED
  BY <1>1, <1>2, <1>3, Zenon DEF Next

-----------------------------------------------------------------------------
\* The inductive invariant: who holds locks, who has settled, and how old what
\* the others have read of it is (process_lock.cpp, constructor and Release).
THEOREM LockInvariant == Spec => []LockInv
<1>1. Init => LockInv
  BY DEF Init, LockInv, TypeOK, Metadata, NoMeta, NotRead, LocksApart, Calm, OneOpening,
    SettledNamed, TextsFresh, TakenAlone, JudgesLive, Holds, Opening, Settled
<1>2. LockInv /\ [Next]_vars => LockInv'
  BY TypeInductive, LocksInductive, CalmInductive, Zenon DEF LockInv
<1> QED
  BY <1>1, <1>2, PTL DEF Spec

\* Two processes that share an OS lock never both write a directory.  Two on
\* different hosts, without a lock in common, never do while calm holds (no two
\* starts have overlapped, every heartbeat and judgement was in time), and
\* writer.meta then names the one writer; without calm nothing is claimed of
\* them (ProcessLock's constructor and Release).
THEOREM DirectoryHasOneWriter == Spec => []OneWriter
<1>1. LockInv => OneWriter
  <2> SUFFICES ASSUME LockInv PROVE OneWriter
    BY Zenon
  <2>1. \A p \in Procs : Writing(p) => Holds(p) /\ Settled(p)
    BY Zenon DEF Writing, Holds, Settled
  <2>2. calm => \A p \in Procs : Writing(p) => meta.by = p
    BY <2>1, Zenon DEF LockInv, Calm, SettledNamed
  <2> QED
    BY <2>1, <2>2, Zenon DEF OneWriter, LockInv, LocksApart, TypeOK
<1> QED
  BY <1>1, LockInvariant, PTL
=============================================================================
