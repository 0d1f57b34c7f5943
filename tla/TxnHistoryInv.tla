--------------------------- MODULE TxnHistoryInv ---------------------------
(***************************************************************************)
(* The inductive invariant behind snapshot isolation and serializable       *)
(* commits, and the steps of snapshots and their reads, and of writes and   *)
(* commits up to the application of their changes, that preserve it.        *)
(*                                                                          *)
(* The heart of the inductive invariant is HistoryComplete: for a snapshot  *)
(* that has its version, a chunk that changed above it has a kept state     *)
(* above it, and the oldest of these is what the chunk showed at the        *)
(* snapshot.  Writers that found no snapshot open when they looked have     *)
(* versions that every snapshot since includes (UnkeptBelow).               *)
(***************************************************************************)
EXTENDS TxnHistory, TLAPS

\* The chunks a thread has a version for and has not changed yet.
Pending(p) ==
  IF op[p].step = "count" THEN op[p].writes
  ELSE IF op[p].step = "apply" THEN op[p].todo ELSE {}

\* A chunk written by one thread is locked by no other.
LocksExclusive ==
  \A p, q \in Threads : p # q => \A c \in op[p].held : ~HoldsExclusive(q, c)

\* Locks are held for the chunks of the operation only, and from the validation
\* on for all of them.
LocksHeld ==
  \A p \in Threads :
    /\ op[p].held \subseteq op[p].writes \cup op[p].reads
    /\ op[p].step \notin {"idle", "lock"} => op[p].writes \cup op[p].reads \subseteq op[p].held
    /\ op[p].todo \subseteq op[p].writes

\* A snapshot reads after it is registered, and its transaction's commit runs
\* after its reads, over the chunks it read.
SessionOrder ==
  \A t \in Txns :
    /\ snap[t].phase \in {"none", "counted", "read"} =>
         seen[t] = {} /\ copy[t] = NoCopy /\ op[t] = Idle
    /\ copy[t] # NoCopy => op[t] = Idle /\ snap[t].phase # "closed"
    /\ op[t].step \in {"version", "count", "apply"} => snap[t].phase = "closed"
    /\ done[t] > 0 => snap[t].phase = "closed"
    /\ op[t] # Idle => op[t].writes \cup op[t].reads = {r[1] : r \in seen[t]}

\* Everything with a version lies below the clock.
BelowClock ==
  /\ \A c \in Chunks : \A x \in log[c] : x < clock
  /\ \A t \in Txns : snap[t].version < clock /\ done[t] < clock
  /\ \A p \in Threads : op[p].step \in {"count", "apply"} =>
                         op[p].version < clock /\ op[p].version > 0

\* A chunk in memory has its last change, and a pending version is above it.
CurrentIsLast ==
  \A c \in Chunks : /\ current[c] \in log[c] \cup {0}
                    /\ \A x \in log[c] : x <= current[c]
PendingIsNew ==
  \A p \in Threads : \A c \in Pending(p) : \A x \in log[c] : x < op[p].version

\* A kept state was replaced by a change of its chunk.
KeptLogged == \A k \in kept : k.tag \in log[k.coord]

\* A snapshot that has its version, and what the history holds for it.
Placed(t) == snap[t].phase \in {"read", "open"}
HistoryComplete ==
  \A t \in Txns, c \in Chunks : Placed(t) =>
    /\ (\E x \in log[c] : x > snap[t].version) => OldestAbove(kept, c, snap[t].version) # {}
    /\ \A k \in OldestAbove(kept, c, snap[t].version) :
         IsStateAt(c, snap[t].version, k.state)

\* A writer that keeps nothing has a version every such snapshot includes.
UnkeptBelow ==
  \A p \in Threads, t \in Txns :
    op[p].step = "apply" /\ ~op[p].keep /\ Placed(t) => op[p].version <= snap[t].version

\* What a transaction read or copied changes only above its snapshot.
ReadsSettled ==
  \A t \in Txns, p \in Threads : \A c \in Pending(p) :
    HasRead(t, c) \/ (copy[t] # NoCopy /\ copy[t][1] = c) => op[p].version > snap[t].version

\* A copy is right unless the chunk has changed since the snapshot.
CopyRight ==
  \A t \in Txns : copy[t] # NoCopy =>
    \/ IsStateAt(copy[t][1], snap[t].version, copy[t][2])
    \/ \E x \in log[copy[t][1]] : x > snap[t].version

\* From its validation to its end a commit is the only one to change what its
\* transaction read.
Validated ==
  \A t \in Txns : op[t].step \in {"version", "count", "apply"} =>
    \A r \in seen[t] : \A x \in log[r[1]] :
      x <= snap[t].version \/ (op[t].step = "apply" /\ x = op[t].version)

\* Later changes of what a committed transaction read are above its version.
CommitsOrdered ==
  \A t \in Txns, p \in Threads : \A c \in Pending(p) :
    done[t] > 0 /\ HasRead(t, c) => op[p].version >= done[t]

\* The inductive invariant.
IInv ==
  /\ TypeOK
  /\ LocksExclusive /\ LocksHeld
  /\ SessionOrder
  /\ BelowClock /\ CurrentIsLast /\ PendingIsNew
  /\ KeptLogged
  /\ HistoryComplete /\ UnkeptBelow
  /\ ReadsSettled /\ CopyRight
  /\ Validated /\ CommitsOrdered
  /\ SnapshotReads /\ Serializable
  /\ ConflictsAreReal

-----------------------------------------------------------------------------
(* Facts about the operators *)

\* Pruning keeps every state above a registered snapshot.
LEMMA PruneKeeps ==
  ASSUME NEW ks, NEW sn, NEW t \in Open(sn), NEW c
  PROVE  KeptAbove(Prune(ks, sn), c, sn[t].version) = KeptAbove(ks, c, sn[t].version)
BY Zenon DEF KeptAbove, Prune

\* What is pending is locked by its writer, and by nobody else.
LEMMA PendingLocked ==
  ASSUME TypeOK, LocksExclusive, LocksHeld, NEW p \in Threads, NEW c \in Pending(p)
  PROVE  /\ HoldsExclusive(p, c)
         /\ \A q \in Threads : q # p => c \notin op[q].held
<1>1. HoldsExclusive(p, c)
  BY Zenon DEF TypeOK, LocksHeld, Pending, HoldsExclusive
<1> QED
  BY <1>1, Zenon DEF LocksExclusive

\* The type of what a thread is in, and a change of one thread.
Op == [step : {"idle", "lock", "validate", "version", "count", "apply"},
       writes : SUBSET Chunks, reads : SUBSET Chunks,
       held : SUBSET Chunks, todo : SUBSET Chunks,
       version : 0..MaxVersion, keep : BOOLEAN]
\* The record of an idle thread is one of an operation.
LEMMA IdleIsOp ==
  /\ Idle \in Op
  /\ Idle.step = "idle" /\ Idle.writes = {} /\ Idle.reads = {} /\ Idle.held = {} /\ Idle.todo = {}
<1>1. /\ Idle.step = "idle" /\ Idle.writes = {} /\ Idle.reads = {} /\ Idle.held = {}
      /\ Idle.todo = {}
  BY Zenon DEF Idle
<1>2. Idle \in Op
  BY ConstantsAssumption DEF Idle, Op
<1> QED
  BY <1>1, <1>2, Zenon

\* A step that changes the operation of one thread leaves the others' alone.
LEMMA OpChange ==
  ASSUME TypeOK, NEW p \in Threads, NEW o \in Op, o.step = "idle" => o = Idle,
         op' = [op EXCEPT ![p] = o]
  PROVE  /\ op' \in [Threads -> Op]
         /\ \A q \in Threads : op'[q].step = "idle" => op'[q] = Idle
         /\ op'[p] = o
         /\ \A q \in Threads : q # p => op'[q] = op[q]
<1> DEFINE T == Op
<1> HIDE DEF T
<1>1. op \in [Threads -> T] /\ o \in T
  BY Zenon DEF TypeOK, Op, T
<1>2. /\ op' \in [Threads -> T]
      /\ op'[p] = o
      /\ \A q \in Threads : q # p => op'[q] = op[q]
  BY <1>1, Zenon
<1>3. \A q \in Threads : op'[q].step = "idle" => op'[q] = Idle
  BY <1>2, Zenon DEF TypeOK
<1> QED
  BY <1>2, <1>3, Zenon DEF T

-----------------------------------------------------------------------------
(* The initial states *)

\* The initial state satisfies the invariant.
LEMMA InitInv == Init => IInv
<1> SUFFICES ASSUME Init PROVE IInv
  BY Zenon
<1> USE ConstantsAssumption DEF Init
<1>1. TypeOK
  BY DEF TypeOK, Idle, NoCopy, Threads
<1>2. \A p \in Threads : op[p] = Idle /\ Pending(p) = {}
  BY Zenon DEF Pending, Idle
<1>3. LocksExclusive /\ LocksHeld
  BY <1>2, Zenon DEF LocksExclusive, LocksHeld, Idle
<1>4. SessionOrder
  BY <1>2 DEF SessionOrder, Threads, Idle
<1>5. BelowClock /\ CurrentIsLast /\ PendingIsNew
  BY <1>2 DEF BelowClock, CurrentIsLast, PendingIsNew, Idle
<1>6. KeptLogged
  BY Zenon DEF KeptLogged
<1>7. HistoryComplete /\ UnkeptBelow
  BY Zenon DEF HistoryComplete, UnkeptBelow, Placed
<1>8. ReadsSettled /\ CopyRight /\ Validated /\ CommitsOrdered
  BY <1>2, Zenon DEF ReadsSettled, CopyRight, Validated, CommitsOrdered
<1>9. SnapshotReads /\ Serializable /\ ConflictsAreReal
  BY Zenon DEF SnapshotReads, Serializable, ConflictsAreReal
<1> QED
  BY <1>1, <1>3, <1>4, <1>5, <1>6, <1>7, <1>8, <1>9, Zenon DEF IInv

-----------------------------------------------------------------------------
(* The steps of a snapshot's life.  They move snap and drop kept states. *)

\* Register, up to open_count_, preserves the invariant.
LEMMA CountSnapshotStep ==
  ASSUME IInv, NEW t \in Txns, CountSnapshot(t)
  PROVE  IInv'
<1> USE DEF IInv, CountSnapshot
<1>1. TypeOK'
  BY DEF TypeOK
<1>2. \A u \in Txns : /\ snap'[u].version = snap[u].version
                      /\ u # t => snap'[u] = snap[u]
                      /\ snap'[t].phase = "counted"
  BY ZenonT(60) DEF TypeOK
<1>3. Open(snap') = Open(snap) /\ \A u \in Txns : Placed(u)' <=> Placed(u)
  BY <1>2, Zenon DEF Open, Placed
<1>4. \A p \in Threads : Pending(p)' = Pending(p)
  BY Zenon DEF Pending
<1>5. LocksExclusive' /\ LocksHeld' /\ SessionOrder'
  BY <1>2 DEF LocksExclusive, LocksHeld, HoldsExclusive, SessionOrder
<1>6. BelowClock' /\ CurrentIsLast' /\ PendingIsNew' /\ KeptLogged'
  BY <1>2, <1>4, Zenon DEF BelowClock, CurrentIsLast, PendingIsNew, KeptLogged
<1>7. HistoryComplete' /\ UnkeptBelow'
  BY <1>2, <1>3, SMTT(30) DEF HistoryComplete, UnkeptBelow, IsStateAt
<1>8. ReadsSettled' /\ CopyRight' /\ Validated' /\ CommitsOrdered'
  BY <1>2, <1>4 DEF ReadsSettled, CopyRight, Validated, CommitsOrdered, IsStateAt, HasRead
<1>9. SnapshotReads' /\ Serializable' /\ ConflictsAreReal'
  BY <1>2, <1>3, ZenonT(60) DEF SnapshotReads, Serializable, ConflictsAreReal, IsStateAt, TypeOK, Open
<1> QED
  BY <1>1, <1>5, <1>6, <1>7, <1>8, <1>9, Zenon

\* Register reads the clock: every version issued so far is the snapshot's, so
\* it needs no kept state yet.
LEMMA ReadClockStep ==
  ASSUME IInv, NEW t \in Txns, ReadClock(t)
  PROVE  IInv'
<1> USE DEF IInv, ReadClock
<1>1. TypeOK'
  <2>1. clock - 1 \in 0..MaxVersion
    BY ConstantsAssumption DEF TypeOK
  <2>2. [snap[t] EXCEPT !.phase = "read", !.version = clock - 1]
          \in [phase : {"none", "counted", "read", "open", "ended", "closed"},
               version : 0..MaxVersion]
    BY <2>1, ZenonT(60) DEF TypeOK
  <2>3. snap' = [snap EXCEPT ![t] = [snap[t] EXCEPT !.phase = "read", !.version = clock - 1]]
    BY Zenon
  <2> QED
    BY <2>2, <2>3 DEF TypeOK
<1>2. /\ \A u \in Txns : u # t => snap'[u] = snap[u]
      /\ snap'[t].phase = "read" /\ snap'[t].version = clock - 1
  BY DEF TypeOK
<1>3. Open(snap') = Open(snap) /\ \A u \in Open(snap) : u # t /\ snap'[u] = snap[u]
  BY <1>2, Zenon DEF Open
<1>4. \A p \in Threads : Pending(p)' = Pending(p)
  BY Zenon DEF Pending
<1>5. seen[t] = {} /\ copy[t] = NoCopy /\ op[t] = Idle /\ done[t] = 0
  BY SMTT(30) DEF SessionOrder, TypeOK
<1>6. LocksExclusive' /\ LocksHeld'
  BY Zenon DEF LocksExclusive, LocksHeld, HoldsExclusive
<1>13. SessionOrder'
  BY <1>2, <1>5, ZenonT(60) DEF SessionOrder, Idle
<1>7. BelowClock' /\ CurrentIsLast' /\ PendingIsNew' /\ KeptLogged'
  BY <1>2, <1>4, ConstantsAssumption
     DEF BelowClock, CurrentIsLast, PendingIsNew, KeptLogged, TypeOK
<1>8. HistoryComplete'
  <2> SUFFICES ASSUME NEW u \in Txns, NEW c \in Chunks, Placed(u)'
               PROVE  /\ (\E x \in log[c] : x > snap'[u].version)
                           => OldestAbove(kept, c, snap'[u].version) # {}
                      /\ \A k \in OldestAbove(kept, c, snap'[u].version) :
                           IsStateAt(c, snap'[u].version, k.state)
    BY ZenonT(60) DEF HistoryComplete, IsStateAt
  <2>1. CASE u = t
    \* every version issued so far is at or below the snapshot
    <3>1. \A x \in log[c] : ~(x > clock - 1)
      BY DEF BelowClock, TypeOK
    <3>2. KeptAbove(kept, c, clock - 1) = {}
      BY <3>1, Zenon DEF KeptAbove, KeptLogged
    <3> QED
      BY <1>2, <2>1, <3>1, <3>2, Zenon DEF OldestAbove
  <2>2. CASE u # t
    BY <1>2, <2>2, Zenon DEF HistoryComplete, Placed
  <2> QED
    BY <2>1, <2>2, Zenon
<1>9. UnkeptBelow'
  BY <1>2, ConstantsAssumption DEF UnkeptBelow, Placed, BelowClock, TypeOK
<1>10. ReadsSettled' /\ CommitsOrdered'
  BY <1>2, <1>4, <1>5, ZenonT(60) DEF ReadsSettled, CommitsOrdered, HasRead
<1>14. CopyRight'
  BY <1>2, <1>5, Zenon DEF CopyRight, IsStateAt
<1>15. Validated'
  BY <1>2, <1>5, ZenonT(60) DEF Validated, Idle
<1>11. SnapshotReads' /\ Serializable' /\ ConflictsAreReal'
  BY <1>2, <1>5, ZenonT(60) DEF SnapshotReads, Serializable, ConflictsAreReal, IsStateAt, TypeOK
<1> QED
  BY <1>1, <1>6, <1>7, <1>8, <1>9, <1>10, <1>11, <1>13, <1>14, <1>15, Zenon

\* Register inserts the snapshot.
LEMMA InsertSnapshotStep ==
  ASSUME IInv, NEW t \in Txns, InsertSnapshot(t)
  PROVE  IInv'
<1> USE DEF IInv, InsertSnapshot
<1>1. TypeOK'
  BY DEF TypeOK
<1>2. \A u \in Txns : /\ snap'[u].version = snap[u].version
                      /\ u # t => snap'[u] = snap[u]
                      /\ snap'[t].phase = "open"
  BY ZenonT(60) DEF TypeOK
<1>3. Open(snap) \subseteq Open(snap') /\ \A u \in Txns : Placed(u)' <=> Placed(u)
  BY <1>2, Zenon DEF Open, Placed
<1>4. \A p \in Threads : Pending(p)' = Pending(p)
  BY Zenon DEF Pending
<1>5. LocksExclusive' /\ LocksHeld' /\ SessionOrder'
  BY <1>2 DEF LocksExclusive, LocksHeld, HoldsExclusive, SessionOrder
<1>6. BelowClock' /\ CurrentIsLast' /\ PendingIsNew' /\ KeptLogged'
  BY <1>2, <1>4, Zenon DEF BelowClock, CurrentIsLast, PendingIsNew, KeptLogged
<1>7. HistoryComplete' /\ UnkeptBelow'
  BY <1>2, <1>3 DEF HistoryComplete, UnkeptBelow, IsStateAt
<1>8. ReadsSettled' /\ CopyRight' /\ Validated' /\ CommitsOrdered'
  BY <1>2, <1>4 DEF ReadsSettled, CopyRight, Validated, CommitsOrdered, IsStateAt, HasRead
<1>9. SnapshotReads' /\ Serializable' /\ ConflictsAreReal'
  BY <1>2, <1>3, ZenonT(60)
     DEF SnapshotReads, Serializable, ConflictsAreReal, IsStateAt, TypeOK, Open
<1> QED
  BY <1>1, <1>5, <1>6, <1>7, <1>8, <1>9, Zenon

\* What the end of a snapshot does to the snapshots and the kept states: nothing
\* that another registered snapshot reads goes.
LEMMA EndingKeeps ==
  ASSUME IInv, HistoryFree, NEW t \in Txns, NEW phase \in {"ended", "closed"},
         snap' = Unregister(snap, {t}, phase),
         kept' = IF t \in Open(snap) THEN Prune(kept, snap') ELSE kept
  PROVE  /\ snap' \in [Txns -> [phase : {"none", "counted", "read", "open", "ended", "closed"},
                                version : 0..MaxVersion]]
         /\ \A u \in Txns : /\ snap'[u].version = snap[u].version
                            /\ u # t => snap'[u] = snap[u]
         /\ snap'[t].phase = phase
         /\ kept' \subseteq kept
         /\ \A u \in Txns : Placed(u)' =>
              Placed(u) /\ \A c \in Chunks : KeptAbove(kept', c, snap'[u].version)
                                               = KeptAbove(kept, c, snap[u].version)
<1> USE DEF IInv
<1>1. /\ snap' \in [Txns -> [phase : {"none", "counted", "read", "open", "ended", "closed"},
                             version : 0..MaxVersion]]
      /\ \A u \in Txns : /\ snap'[u].version = snap[u].version
                         /\ u # t => snap'[u] = snap[u]
      /\ snap'[t].phase = phase
  BY DEF Unregister, TypeOK
<1>2. kept' \subseteq kept
  BY Zenon DEF Prune
<1>3. ASSUME NEW u \in Txns, Placed(u)'
      PROVE  Placed(u) /\ \A c \in Chunks : KeptAbove(kept', c, snap'[u].version)
                                              = KeptAbove(kept, c, snap[u].version)
  <2>1. u # t /\ snap'[u] = snap[u] /\ Placed(u)
    BY <1>1, <1>3, Zenon DEF Placed
  <2>2. u \in Open(snap')
    BY <2>1, Zenon DEF Placed, HistoryFree, Open
  <2>3. \A c : KeptAbove(Prune(kept, snap'), c, snap'[u].version) = KeptAbove(kept, c, snap'[u].version)
    BY <2>2, PruneKeeps
  <2> QED
    BY <2>1, <2>3, Zenon
<1> QED
  BY <1>1, <1>2, <1>3, Zenon

\* When only snap and kept change, and a snapshot ends, the invariant stays.
LEMMA EndingStep ==
  ASSUME IInv, HistoryFree, NEW t \in Txns, NEW phase \in {"ended", "closed"},
         snap' = Unregister(snap, {t}, phase),
         kept' = IF t \in Open(snap) THEN Prune(kept, snap') ELSE kept,
         UNCHANGED <<clock, current, copy, op, seen, log, done, refused>>,
         snap[t].phase \in {"open", "ended"},
         phase = "closed" => copy[t] = NoCopy
  PROVE  IInv'
<1> USE DEF IInv
<1>1. /\ snap' \in [Txns -> [phase : {"none", "counted", "read", "open", "ended", "closed"},
                             version : 0..MaxVersion]]
      /\ \A u \in Txns : /\ snap'[u].version = snap[u].version
                         /\ u # t => snap'[u] = snap[u]
      /\ snap'[t].phase = phase
      /\ kept' \subseteq kept
      /\ \A u \in Txns : Placed(u)' =>
           Placed(u) /\ \A c \in Chunks : KeptAbove(kept', c, snap'[u].version)
                                            = KeptAbove(kept, c, snap[u].version)
  BY EndingKeeps, Zenon
<1>3. TypeOK'
  BY <1>1, Zenon DEF TypeOK
<1>4. \A p \in Threads : Pending(p)' = Pending(p)
  BY Zenon DEF Pending
<1>5. LocksExclusive' /\ LocksHeld'
  BY Zenon DEF LocksExclusive, LocksHeld, HoldsExclusive
<1>10. SessionOrder'
  BY <1>1, ZenonT(60) DEF SessionOrder
<1>6. BelowClock' /\ CurrentIsLast' /\ PendingIsNew' /\ KeptLogged'
  BY <1>1, <1>4, ZenonT(60) DEF BelowClock, CurrentIsLast, PendingIsNew, KeptLogged
<1>7. HistoryComplete'
  <2> SUFFICES ASSUME NEW u \in Txns, NEW c \in Chunks, Placed(u)'
               PROVE  /\ (\E x \in log[c] : x > snap'[u].version)
                           => OldestAbove(kept', c, snap'[u].version) # {}
                      /\ \A k \in OldestAbove(kept', c, snap'[u].version) :
                           IsStateAt(c, snap'[u].version, k.state)
    BY ZenonT(60) DEF HistoryComplete, IsStateAt
  <2>1. Placed(u) /\ snap'[u].version = snap[u].version
    BY <1>1, Zenon
  <2>2. KeptAbove(kept', c, snap[u].version) = KeptAbove(kept, c, snap[u].version)
    BY <1>1, <2>1, Zenon
  <2>3. OldestAbove(kept', c, snap[u].version) = OldestAbove(kept, c, snap[u].version)
    BY <2>2, Zenon DEF OldestAbove
  <2> QED
    BY <2>1, <2>2, <2>3, Zenon DEF HistoryComplete
<1>11. UnkeptBelow'
  BY <1>1, Zenon DEF UnkeptBelow
<1>8. ReadsSettled' /\ CommitsOrdered'
  BY <1>1, <1>4, ZenonT(60) DEF ReadsSettled, CommitsOrdered, HasRead
<1>12. CopyRight'
  BY <1>1, Zenon DEF CopyRight, IsStateAt
<1>13. Validated'
  BY <1>1, ZenonT(60) DEF Validated
<1>9. SnapshotReads' /\ Serializable' /\ ConflictsAreReal'
  BY <1>1, ZenonT(60) DEF SnapshotReads, Serializable, ConflictsAreReal, IsStateAt, TypeOK
<1> QED
  BY <1>3, <1>5, <1>6, <1>7, <1>8, <1>9, <1>10, <1>11, <1>12, <1>13, Zenon

\* ExpireLocked preserves the invariant.
LEMMA ExpireStep ==
  ASSUME IInv, NEW t \in Txns, Expire(t)
  PROVE  IInv'
BY EndingStep, Zenon DEF Expire, Open

\* ROLLBACK preserves the invariant.
LEMMA RollbackStep ==
  ASSUME IInv, NEW t \in Txns, Rollback(t)
  PROVE  IInv'
BY EndingStep, Zenon DEF Rollback, CloseSnapshot

-----------------------------------------------------------------------------
(* Reads at a snapshot *)

\* The copy of a chunk under its shared lock preserves the invariant.
LEMMA CopyStateStep ==
  ASSUME IInv, NEW t \in Txns, NEW c \in Chunks, CopyState(t, c)
  PROVE  IInv'
<1> USE DEF IInv, CopyState
<1>1. TypeOK'
  <2>1. <<c, current[c]>> \in Chunks \X (0..MaxVersion)
    BY Zenon DEF TypeOK
  <2> QED
    BY <2>1, Zenon DEF TypeOK
<1>2. /\ copy'[t] = <<c, current[c]>>
      /\ \A u \in Txns : u # t => copy'[u] = copy[u]
  BY Zenon DEF TypeOK
<1>3. \A p \in Threads : Pending(p)' = Pending(p) /\ c \notin Pending(p)
  BY PendingLocked, Zenon DEF Pending
<1>4. LocksExclusive' /\ LocksHeld'
  BY Zenon DEF LocksExclusive, LocksHeld, HoldsExclusive
<1>5. SessionOrder'
  BY <1>2, ZenonT(60) DEF SessionOrder, Open
<1>6. BelowClock' /\ CurrentIsLast' /\ PendingIsNew' /\ KeptLogged'
  BY <1>3, Zenon DEF BelowClock, CurrentIsLast, PendingIsNew, KeptLogged
<1>7. HistoryComplete' /\ UnkeptBelow'
  BY ZenonT(60) DEF HistoryComplete, UnkeptBelow, Placed, IsStateAt
<1>8. ReadsSettled'
  BY <1>2, <1>3 DEF ReadsSettled, HasRead
<1>9. CommitsOrdered' /\ Validated'
  BY <1>3, Zenon DEF CommitsOrdered, Validated, HasRead
<1>10. CopyRight'
  <2>1. IsStateAt(c, snap[t].version, current[c]) \/ \E x \in log[c] : x > snap[t].version
    BY ConstantsAssumption, SMTT(30) DEF CurrentIsLast, IsStateAt, TypeOK
  <2> QED
    BY <1>2, <2>1 DEF CopyRight, IsStateAt
<1>11. SnapshotReads' /\ Serializable' /\ ConflictsAreReal'
  BY Zenon DEF SnapshotReads, Serializable, ConflictsAreReal, IsStateAt
<1> QED
  BY <1>1, <1>4, <1>5, <1>6, <1>7, <1>8, <1>9, <1>10, <1>11, Zenon

\* What VisitAt returns is the state of its chunk at the snapshot.
LEMMA VisitedIsState ==
  ASSUME IInv, NEW t \in Open(snap), copy[t] # NoCopy
  PROVE  /\ copy[t][1] \in Chunks
         /\ OldestAbove(kept, copy[t][1], snap[t].version) = {} =>
              IsStateAt(copy[t][1], snap[t].version, copy[t][2])
         /\ \A k \in OldestAbove(kept, copy[t][1], snap[t].version) :
              IsStateAt(copy[t][1], snap[t].version, k.state)
<1> DEFINE c == copy[t][1]
<1> USE DEF IInv
<1>1. t \in Txns /\ Placed(t) /\ c \in Chunks
  BY Zenon DEF Open, Placed, TypeOK
<1>2. ASSUME OldestAbove(kept, c, snap[t].version) = {}
      PROVE  IsStateAt(c, snap[t].version, copy[t][2])
  <2>1. ~ \E x \in log[c] : x > snap[t].version
    BY <1>1, <1>2, Zenon DEF HistoryComplete
  <2> QED
    BY <1>1, <2>1, Zenon DEF CopyRight
<1> QED
  BY <1>1, <1>2, Zenon DEF HistoryComplete

\* VisitAt gives the reader the state at its snapshot.
LEMMA VisitAtStep ==
  ASSUME IInv, NEW t \in Txns, VisitAt(t)
  PROVE  IInv'
<1> DEFINE c == copy[t][1]
<1> USE DEF IInv, VisitAt
<1>1. PICK new \in SUBSET (Chunks \X (0..MaxVersion)) :
         /\ seen' = [seen EXCEPT ![t] = @ \cup new]
         /\ \A r \in new : r[1] = c /\ IsStateAt(c, snap[t].version, r[2])
  <2>1. CASE t \in Open(snap) /\ OldestAbove(kept, c, snap[t].version) = {}
                /\ seen' = [seen EXCEPT ![t] = @ \cup {copy[t]}]
    <3>1. {copy[t]} \in SUBSET (Chunks \X (0..MaxVersion))
      BY SMTT(30) DEF TypeOK
    <3>2. \A r \in {copy[t]} : r[1] = c /\ IsStateAt(c, snap[t].version, r[2])
      BY <2>1, VisitedIsState, Zenon
    <3> QED
      BY <2>1, <3>1, <3>2, Zenon
  <2>2. CASE t \in Open(snap) /\ \E k \in OldestAbove(kept, c, snap[t].version) :
                                    seen' = [seen EXCEPT ![t] = @ \cup {<<c, k.state>>}]
    <3>1. PICK k \in OldestAbove(kept, c, snap[t].version) :
                 seen' = [seen EXCEPT ![t] = @ \cup {<<c, k.state>>}]
      BY <2>2, Zenon
    <3>2. k \in Kept /\ c \in Chunks /\ IsStateAt(c, snap[t].version, k.state)
      BY <2>2, VisitedIsState, Zenon DEF OldestAbove, KeptAbove, TypeOK
    <3>3. {<<c, k.state>>} \in SUBSET (Chunks \X (0..MaxVersion))
      BY <3>2 DEF Kept
    <3>4. \A r \in {<<c, k.state>>} : r[1] = c /\ IsStateAt(c, snap[t].version, r[2])
      BY <3>2, SMTT(30)
    <3> QED
      BY <3>1, <3>3, <3>4, Zenon
  <2>3. CASE UNCHANGED seen
    <3>1. seen' = [seen EXCEPT ![t] = @ \cup {}]
      BY <2>3, Zenon DEF TypeOK
    <3>2. {} \in SUBSET (Chunks \X (0..MaxVersion))
          /\ \A r \in {} : r[1] = c /\ IsStateAt(c, snap[t].version, r[2])
      BY Zenon
    <3> QED
      BY <3>1, <3>2, Zenon
  <2> QED
    BY <2>1, <2>2, <2>3, Zenon
<1>2. /\ copy'[t] = NoCopy /\ \A u \in Txns : u # t => copy'[u] = copy[u]
      /\ seen'[t] = seen[t] \cup new /\ \A u \in Txns : u # t => seen'[u] = seen[u]
  BY <1>1, Zenon DEF TypeOK
<1>3. op[t] = Idle /\ done[t] = 0 /\ snap[t].phase \in {"open", "ended"}
  BY SMTT(30) DEF SessionOrder, TypeOK
<1>4. TypeOK'
  <2>1. seen[t] \cup new \in SUBSET (Chunks \X (0..MaxVersion))
    BY Zenon DEF TypeOK
  <2> QED
    BY <1>1, <2>1, Zenon DEF TypeOK
<1>5. \A p \in Threads : Pending(p)' = Pending(p)
  BY Zenon DEF Pending
<1>6. LocksExclusive' /\ LocksHeld'
  BY Zenon DEF LocksExclusive, LocksHeld, HoldsExclusive
<1>7. SessionOrder'
  BY <1>2, <1>3, SMTT(30) DEF SessionOrder, Idle
<1>8. BelowClock' /\ CurrentIsLast' /\ PendingIsNew' /\ KeptLogged'
  BY <1>5, Zenon DEF BelowClock, CurrentIsLast, PendingIsNew, KeptLogged
<1>9. HistoryComplete' /\ UnkeptBelow'
  BY ZenonT(60) DEF HistoryComplete, UnkeptBelow, Placed, IsStateAt
<1>10. ReadsSettled'
  BY <1>1, <1>2, <1>5, SMTT(30) DEF ReadsSettled, HasRead
<1>11. CommitsOrdered' /\ Validated'
  <2>1. \A u \in Txns : done[u] > 0 => u # t /\ seen'[u] = seen[u]
    BY <1>2, <1>3, SMTT(30) DEF TypeOK
  <2>2. CommitsOrdered'
    BY <1>5, <2>1, ZenonT(60) DEF CommitsOrdered, HasRead
  <2>3. \A u \in Txns : op[u].step \in {"version", "count", "apply"} => u # t
    BY <1>3, SMTT(30) DEF Idle
  <2>4. Validated'
    BY <1>2, <2>3, SMTT(30) DEF Validated
  <2> QED
    BY <2>2, <2>4, Zenon
<1>12. CopyRight'
  BY <1>2, Zenon DEF CopyRight, IsStateAt
<1>13. SnapshotReads'
  BY <1>1, <1>2, SMTT(30) DEF SnapshotReads, IsStateAt
<1>14. Serializable'
  BY <1>2, <1>3, SMTT(30) DEF Serializable, IsStateAt
<1>15. ConflictsAreReal'
  BY <1>2, Zenon DEF ConflictsAreReal, TypeOK
<1> QED
  BY <1>4, <1>6, <1>7, <1>8, <1>9, <1>10, <1>11, <1>12, <1>13, <1>14, <1>15, Zenon

-----------------------------------------------------------------------------
(* Writes and commits *)

\* An ordinary write locks its chunk.
LEMMA StartWriteStep ==
  ASSUME IInv, NEW w \in Writers, NEW c \in Chunks, StartWrite(w, c)
  PROVE  IInv'
<1> DEFINE new == [Idle EXCEPT !.step = "version", !.writes = {c}, !.held = {c}]
<1> USE DEF IInv, StartWrite
<1>1. w \in Threads /\ w \notin Txns
  BY ConstantsAssumption, Zenon DEF Threads
<1>2. /\ new \in Op
      /\ new.step = "version" /\ new.writes = {c} /\ new.reads = {} /\ new.held = {c}
      /\ new.todo = {}
  BY IdleIsOp, Zenon DEF Op
<1> HIDE DEF new
<1>3. /\ op' \in [Threads -> Op] /\ \A q \in Threads : op'[q].step = "idle" => op'[q] = Idle
      /\ op'[w] = new /\ \A q \in Threads : q # w => op'[q] = op[q]
      /\ \A t \in Txns : t \in Threads /\ op'[t] = op[t]
  <2>1. op' = [op EXCEPT ![w] = new]
    BY Zenon DEF new
  <2> QED
    BY <1>1, <1>2, <2>1, OpChange, ZenonT(60) DEF Threads
<1>4. TypeOK'
  BY <1>3, Zenon DEF TypeOK, Op
<1>5. \A p \in Threads : Pending(p)' = Pending(p)
  BY <1>2, <1>3 DEF Pending, Idle
<1>6. LocksExclusive'
  BY <1>2, <1>3 DEF LocksExclusive, HoldsExclusive
<1>14. LocksHeld'
  BY <1>2, <1>3, ZenonT(60) DEF LocksHeld
<1>7. SessionOrder'
  BY <1>2, <1>3 DEF SessionOrder
<1>8. BelowClock' /\ CurrentIsLast' /\ KeptLogged'
  BY <1>2, <1>3, ZenonT(60) DEF BelowClock, CurrentIsLast, KeptLogged
<1>9. PendingIsNew' /\ ReadsSettled' /\ CommitsOrdered'
  BY <1>2, <1>3, <1>5 DEF PendingIsNew, ReadsSettled, CommitsOrdered, HasRead, Pending
<1>10. HistoryComplete'
  BY DEF HistoryComplete, Placed, IsStateAt
<1>11. UnkeptBelow'
  BY <1>2, <1>3, Zenon DEF UnkeptBelow, Placed
<1>12. CopyRight' /\ Validated'
  BY <1>2, <1>3 DEF CopyRight, Validated, IsStateAt
<1>13. SnapshotReads' /\ Serializable' /\ ConflictsAreReal'
  BY Zenon DEF SnapshotReads, Serializable, ConflictsAreReal, IsStateAt
<1> QED
  BY <1>4, <1>6, <1>7, <1>8, <1>9, <1>10, <1>11, <1>12, <1>13, <1>14, Zenon

\* CommitTransaction gathers the chunks its transaction read.
LEMMA StartCommitStep ==
  ASSUME IInv, NEW t \in Txns, NEW ws \in SUBSET Chunks, StartCommit(t, ws)
  PROVE  IInv'
<1> DEFINE rs == {v[1] : v \in seen[t]} \ ws
           new == [Idle EXCEPT !.step = "lock", !.writes = ws, !.reads = rs]
<1> USE DEF IInv
<1>1. t \in Threads /\ rs \in SUBSET Chunks /\ ws \cup rs = {v[1] : v \in seen[t]}
  BY DEF StartCommit, Threads, TypeOK, HasRead
<1>2. /\ op' = [op EXCEPT ![t] = new]
      /\ snap[t].phase \in {"open", "ended"} /\ op[t] = Idle /\ copy[t] = NoCopy
      /\ UNCHANGED <<clock, current, kept, snap, copy, seen, log, done, refused>>
  BY Zenon DEF StartCommit
<1> HIDE DEF rs
<1>3. /\ new \in Op
      /\ new.step = "lock" /\ new.writes = ws /\ new.reads = rs /\ new.held = {}
      /\ new.todo = {}
  BY <1>1, IdleIsOp, Zenon DEF Op
<1> HIDE DEF new
<1>4. /\ op' \in [Threads -> Op] /\ \A q \in Threads : op'[q].step = "idle" => op'[q] = Idle
      /\ op'[t] = new /\ \A q \in Threads : q # t => op'[q] = op[q]
  BY <1>1, <1>2, <1>3, OpChange, Zenon
<1>5. TypeOK'
  BY <1>2, <1>4, Zenon DEF TypeOK, Op
<1>6. \A p \in Threads : /\ Pending(p)' = Pending(p)
                         /\ Pending(p) # {} => op'[p].version = op[p].version
  BY <1>2, <1>3, <1>4, IdleIsOp, Zenon DEF Pending
<1>7. LocksExclusive'
  BY <1>3, <1>4, Zenon DEF LocksExclusive, HoldsExclusive
<1>8. LocksHeld'
  BY <1>3, <1>4, Zenon DEF LocksHeld
<1>9. SessionOrder'
  <2> SUFFICES ASSUME NEW u \in Txns
      PROVE  /\ snap[u].phase \in {"none", "counted", "read"} =>
                  seen[u] = {} /\ copy[u] = NoCopy /\ op'[u] = Idle
             /\ copy[u] # NoCopy => op'[u] = Idle /\ snap[u].phase # "closed"
             /\ op'[u].step \in {"version", "count", "apply"} => snap[u].phase = "closed"
             /\ done[u] > 0 => snap[u].phase = "closed"
             /\ op'[u] # Idle => op'[u].writes \cup op'[u].reads = {r[1] : r \in seen[u]}
    BY <1>2, Zenon DEF SessionOrder
  <2>1. CASE u = t
    BY <1>1, <1>2, <1>3, <1>4, <2>1, Zenon DEF SessionOrder
  <2>2. CASE u # t
    BY <1>4, <2>2, Zenon DEF SessionOrder, Threads
  <2> QED
    BY <2>1, <2>2, Zenon
<1>10. BelowClock' /\ CurrentIsLast' /\ KeptLogged'
  BY <1>2, <1>3, <1>4, Zenon DEF BelowClock, CurrentIsLast, KeptLogged
<1>11. PendingIsNew' /\ ReadsSettled' /\ CommitsOrdered'
  BY <1>2, <1>6, ZenonT(60) DEF PendingIsNew, ReadsSettled, CommitsOrdered, HasRead
<1>12. HistoryComplete'
  BY <1>2, Zenon DEF HistoryComplete, Placed, IsStateAt
<1>13. UnkeptBelow'
  BY <1>2, <1>3, <1>4, Zenon DEF UnkeptBelow, Placed
<1>14. CopyRight'
  BY <1>2, Zenon DEF CopyRight, IsStateAt
<1>15. Validated'
  BY <1>2, <1>3, <1>4, SMTT(30) DEF Validated, Threads
<1>16. SnapshotReads' /\ Serializable' /\ ConflictsAreReal'
  BY <1>2, Zenon DEF SnapshotReads, Serializable, ConflictsAreReal, IsStateAt
<1> QED
  BY <1>5, <1>7, <1>8, <1>9, <1>10, <1>11, <1>12, <1>13, <1>14, <1>15, <1>16, Zenon

\* A commit locks the next chunk in order.
LEMMA LockStep ==
  ASSUME IInv, NEW t \in Txns, Lock(t)
  PROVE  IInv'
<1> USE DEF IInv, Lock
<1>1. t \in Threads
  BY Zenon DEF Threads
<1>2. PICK c \in NextChunk(t) :
         /\ \A q \in Threads : ~Blocks(q, t, c)
         /\ op' = [op EXCEPT ![t].held = @ \cup {c},
                             ![t].step = IF Wants(t) = {c} THEN "validate" ELSE "lock"]
  BY Zenon
<1> DEFINE st == IF Wants(t) = {c} THEN "validate" ELSE "lock"
           new == [op[t] EXCEPT !.held = @ \cup {c}, !.step = st]
<1>3. c \in Chunks /\ c \in op[t].writes \cup op[t].reads
  BY <1>1, Zenon DEF NextChunk, Wants, TypeOK
<1>4. /\ op' \in [Threads -> Op] /\ \A q \in Threads : op'[q].step = "idle" => op'[q] = Idle
      /\ op'[t] = new /\ \A q \in Threads : q # t => op'[q] = op[q]
  <2>1. op' = [op EXCEPT ![t] = new]
    BY <1>2, Zenon
  <2>2. st \in {"lock", "validate"} /\ op[t] \in Op
    BY <1>1, Zenon DEF TypeOK, Op
  <2> HIDE DEF st
  <2>3. new \in Op /\ new.step # "idle"
    BY <1>3, <2>2, Zenon DEF Op
  <2> QED
    BY <1>1, <2>1, <2>3, OpChange, Zenon
<1>5. /\ op'[t].held = op[t].held \cup {c}
      /\ op'[t].step \in {"lock", "validate"}
      /\ op'[t].step = "validate" => Wants(t) = {c}
      /\ op'[t].writes = op[t].writes /\ op'[t].reads = op[t].reads
      /\ op'[t].todo = op[t].todo /\ op'[t].version = op[t].version
  BY <1>1, <1>4, ZenonT(60) DEF TypeOK, Op
<1> HIDE DEF new
<1>16. TypeOK'
  BY <1>4, Zenon DEF TypeOK, Op
<1>6. \A p \in Threads : Pending(p)' = Pending(p) /\ op'[p].version = op[p].version
  BY <1>4, <1>5, Zenon DEF Pending
<1>7. LocksExclusive'
  BY <1>2, <1>3, <1>4, <1>5, SMTT(30) DEF LocksExclusive, Blocks, HoldsExclusive
<1>8. LocksHeld'
  <2>1. op'[t].step = "validate" => op[t].writes \cup op[t].reads \subseteq op[t].held \cup {c}
    BY <1>5, Zenon DEF Wants
  <2> QED
    BY <1>3, <1>4, <1>5, <2>1, SMTT(30) DEF LocksHeld
<1>9. SessionOrder'
  <2>1. op[t] # Idle /\ op'[t] # Idle
    BY <1>5, IdleIsOp, Zenon
  <2> QED
    BY <1>1, <1>4, <1>5, <2>1, SMTT(30) DEF SessionOrder, Threads
<1>10. BelowClock' /\ CurrentIsLast' /\ KeptLogged'
  BY <1>4, <1>5, Zenon DEF BelowClock, CurrentIsLast, KeptLogged
<1>11. PendingIsNew' /\ ReadsSettled' /\ CommitsOrdered'
  BY <1>6, ZenonT(60) DEF PendingIsNew, ReadsSettled, CommitsOrdered, HasRead
<1>12. HistoryComplete'
  BY ZenonT(60) DEF HistoryComplete, Placed, IsStateAt
<1>13. UnkeptBelow'
  BY <1>4, <1>5, ZenonT(60) DEF UnkeptBelow, Placed
<1>14. CopyRight'
  BY Zenon DEF CopyRight, IsStateAt
<1>17. Validated'
  BY <1>4, <1>5, SMTT(30) DEF Validated, Threads
<1>15. SnapshotReads' /\ Serializable' /\ ConflictsAreReal'
  BY Zenon DEF SnapshotReads, Serializable, ConflictsAreReal, IsStateAt
<1> QED
  BY <1>16, <1>7, <1>8, <1>9, <1>10, <1>11, <1>12, <1>13, <1>14, <1>15, <1>17, Zenon

\* Release leaves a thread idle, without locks and with nothing pending.
LEMMA ReleaseFacts ==
  ASSUME TypeOK, NEW p \in Threads, Release(p)
  PROVE  /\ op' \in [Threads -> Op] /\ \A q \in Threads : op'[q].step = "idle" => op'[q] = Idle
         /\ op'[p] = Idle /\ \A q \in Threads : q # p => op'[q] = op[q]
         /\ Pending(p)' = {}
         /\ \A q \in Threads : q # p => Pending(q)' = Pending(q)
<1>1. /\ op' \in [Threads -> Op] /\ \A q \in Threads : op'[q].step = "idle" => op'[q] = Idle
      /\ op'[p] = Idle /\ \A q \in Threads : q # p => op'[q] = op[q]
  BY IdleIsOp, OpChange, Zenon DEF Release
<1> QED
  BY <1>1, IdleIsOp, Zenon DEF Pending

\* The release of a thread's locks keeps the locks of the others right.
LEMMA ReleaseLocks ==
  ASSUME IInv, NEW p \in Threads, Release(p)
  PROVE  LocksExclusive' /\ LocksHeld'
<1> USE DEF IInv
<1>1. LocksExclusive'
  BY ReleaseFacts, IdleIsOp, Zenon DEF LocksExclusive, HoldsExclusive
<1>2. LocksHeld'
  BY ReleaseFacts, IdleIsOp, Zenon DEF LocksHeld
<1> QED
  BY <1>1, <1>2, Zenon

\* A commit that ends at its validation, refused or not: its snapshot goes and
\* its locks with it.
LEMMA EndCommitStep ==
  ASSUME IInv, NEW t \in Txns, op[t].step = "validate", CloseSnapshot(t), Release(t),
         UNCHANGED <<clock, current, copy, seen, log, done>>,
         refused' = refused \/ (refused' = refused \cup {t} /\ Changed(t))
  PROVE  IInv'
<1> USE DEF IInv
<1>1. /\ snap' \in [Txns -> [phase : {"none", "counted", "read", "open", "ended", "closed"},
                             version : 0..MaxVersion]]
      /\ \A u \in Txns : /\ snap'[u].version = snap[u].version
                         /\ u # t => snap'[u] = snap[u]
      /\ snap'[t].phase = "closed"
      /\ kept' \subseteq kept
      /\ \A u \in Txns : Placed(u)' =>
           Placed(u) /\ \A c \in Chunks : KeptAbove(kept', c, snap'[u].version)
                                            = KeptAbove(kept, c, snap[u].version)
  BY EndingKeeps, Zenon DEF CloseSnapshot
<1>3. t \in Threads /\ op[t] # Idle /\ copy[t] = NoCopy
  BY IdleIsOp, Zenon DEF Threads, SessionOrder
<1>4. /\ op' \in [Threads -> Op] /\ \A q \in Threads : op'[q].step = "idle" => op'[q] = Idle
      /\ op'[t] = Idle /\ \A q \in Threads : q # t => op'[q] = op[q]
      /\ Pending(t)' = {}
      /\ \A q \in Threads : q # t => Pending(q)' = Pending(q)
  BY <1>3, ReleaseFacts, Zenon
<1>5. TypeOK'
  BY <1>1, <1>4, Zenon DEF TypeOK, Op
<1>6. LocksExclusive' /\ LocksHeld'
  BY <1>3, ReleaseLocks, Zenon
<1>7. SessionOrder'
  BY <1>1, <1>3, <1>4, IdleIsOp, SMTT(30) DEF SessionOrder, Threads
<1>8. BelowClock' /\ CurrentIsLast' /\ PendingIsNew' /\ KeptLogged'
  BY <1>1, <1>4, IdleIsOp, ZenonT(60) DEF BelowClock, CurrentIsLast, PendingIsNew, KeptLogged
<1>9. HistoryComplete'
  <2> SUFFICES ASSUME NEW u \in Txns, NEW c \in Chunks, Placed(u)'
               PROVE  /\ (\E x \in log[c] : x > snap'[u].version)
                           => OldestAbove(kept', c, snap'[u].version) # {}
                      /\ \A k \in OldestAbove(kept', c, snap'[u].version) :
                           IsStateAt(c, snap'[u].version, k.state)
    BY Zenon DEF HistoryComplete, IsStateAt
  <2>1. Placed(u) /\ snap'[u].version = snap[u].version
    BY <1>1, Zenon
  <2>2. KeptAbove(kept', c, snap[u].version) = KeptAbove(kept, c, snap[u].version)
    BY <1>1, <2>1, Zenon
  <2>3. OldestAbove(kept', c, snap[u].version) = OldestAbove(kept, c, snap[u].version)
    BY <2>2, Zenon DEF OldestAbove
  <2> QED
    BY <2>1, <2>2, <2>3, Zenon DEF HistoryComplete
<1>10. UnkeptBelow'
  BY <1>1, <1>4, IdleIsOp, Zenon DEF UnkeptBelow
<1>11. ReadsSettled' /\ CommitsOrdered'
  BY <1>1, <1>4, ZenonT(60) DEF ReadsSettled, CommitsOrdered, HasRead
<1>12. CopyRight'
  BY <1>1, Zenon DEF CopyRight, IsStateAt
<1>13. Validated'
  BY <1>1, <1>4, IdleIsOp, SMTT(30) DEF Validated, Threads
<1>14. SnapshotReads' /\ Serializable'
  BY <1>1, Zenon DEF SnapshotReads, Serializable, IsStateAt
<1>15. ConflictsAreReal'
  <2>1. ASSUME Changed(t) PROVE \E r \in seen[t] : \E x \in log[r[1]] : x > snap[t].version
    <3>1. PICK c \in op[t].held, k \in kept : k.coord = c /\ k.tag > snap[t].version
      BY <2>1, Zenon DEF Changed, KeptAbove
    <3>2. k.tag \in log[c]
      BY <3>1, Zenon DEF KeptLogged
    <3>3. c \in op[t].writes \cup op[t].reads
      BY <1>3, <3>1, Zenon DEF LocksHeld
    <3>4. PICK r \in seen[t] : r[1] = c
      BY <1>3, <3>3 DEF SessionOrder
    <3> QED
      BY <3>1, <3>2, <3>4, Zenon
  <2> QED
    BY <1>1, <2>1, SMTT(30) DEF ConflictsAreReal, TypeOK
<1> QED
  BY <1>5, <1>6, <1>7, <1>8, <1>9, <1>10, <1>11, <1>12, <1>13, <1>14, <1>15, Zenon

\* A commit refused under its locks preserves the invariant.
LEMMA CommitRefusedStep ==
  ASSUME IInv, NEW t \in Txns, CommitRefused(t)
  PROVE  IInv'
BY EndCommitStep, Zenon DEF CommitRefused

\* A commit that passes its validation: nothing it read has changed above its
\* snapshot, for a change above it would have left a kept state (HistoryComplete).
LEMMA ValidatedStep ==
  ASSUME IInv, NEW t \in Open(snap), op[t].step = "validate", CloseSnapshot(t), ~Changed(t),
         Step(t, "version"), UNCHANGED <<clock, current, copy, seen, log, done, refused>>
  PROVE  IInv'
<1> DEFINE new == [op[t] EXCEPT !.step = "version"]
<1> USE DEF IInv
<1>1. t \in Txns /\ t \in Threads /\ op[t] # Idle /\ copy[t] = NoCopy /\ Placed(t)
  BY IdleIsOp, Zenon DEF Threads, SessionOrder, Open, Placed
<1>2. /\ snap' \in [Txns -> [phase : {"none", "counted", "read", "open", "ended", "closed"},
                             version : 0..MaxVersion]]
      /\ \A u \in Txns : /\ snap'[u].version = snap[u].version
                         /\ u # t => snap'[u] = snap[u]
      /\ snap'[t].phase = "closed"
      /\ kept' \subseteq kept
      /\ \A u \in Txns : Placed(u)' =>
           Placed(u) /\ \A c \in Chunks : KeptAbove(kept', c, snap'[u].version)
                                            = KeptAbove(kept, c, snap[u].version)
  BY <1>1, EndingKeeps, Zenon DEF CloseSnapshot
<1>4. /\ new \in Op /\ new.step = "version"
      /\ new.writes = op[t].writes /\ new.reads = op[t].reads /\ new.held = op[t].held
      /\ new.todo = op[t].todo
  BY <1>1, ZenonT(60) DEF TypeOK, Op
<1>5. /\ op' \in [Threads -> Op] /\ \A q \in Threads : op'[q].step = "idle" => op'[q] = Idle
      /\ op'[t] = new /\ \A q \in Threads : q # t => op'[q] = op[q]
  <2>1. op' = [op EXCEPT ![t] = new]
    BY Zenon DEF Step
  <2> HIDE DEF new
  <2> QED
    BY <1>1, <1>4, <2>1, OpChange, Zenon
<1> HIDE DEF new
<1>6. /\ Pending(t)' = {} /\ Pending(t) = {}
      /\ \A q \in Threads : q # t => Pending(q)' = Pending(q)
  BY <1>4, <1>5, Zenon DEF Pending
<1>7. TypeOK'
  BY <1>2, <1>5, Zenon DEF TypeOK, Op
<1>8. LocksExclusive'
  BY <1>4, <1>5, ZenonT(40) DEF LocksExclusive, HoldsExclusive
<1>9. LocksHeld'
  BY <1>1, <1>4, <1>5, ZenonT(60) DEF LocksHeld
<1>10. SessionOrder'
  BY <1>1, <1>2, <1>4, <1>5, IdleIsOp, SMTT(30) DEF SessionOrder, Threads
<1>11. BelowClock' /\ CurrentIsLast' /\ PendingIsNew' /\ KeptLogged'
  BY <1>2, <1>4, <1>5, <1>6, ZenonT(60) DEF BelowClock, CurrentIsLast, PendingIsNew, KeptLogged
<1>12. HistoryComplete'
  <2> SUFFICES ASSUME NEW u \in Txns, NEW c \in Chunks, Placed(u)'
               PROVE  /\ (\E x \in log[c] : x > snap'[u].version)
                           => OldestAbove(kept', c, snap'[u].version) # {}
                      /\ \A k \in OldestAbove(kept', c, snap'[u].version) :
                           IsStateAt(c, snap'[u].version, k.state)
    BY Zenon DEF HistoryComplete, IsStateAt
  <2>1. Placed(u) /\ snap'[u].version = snap[u].version
    BY <1>2, Zenon
  <2>2. KeptAbove(kept', c, snap[u].version) = KeptAbove(kept, c, snap[u].version)
    BY <1>2, <2>1, Zenon
  <2>3. OldestAbove(kept', c, snap[u].version) = OldestAbove(kept, c, snap[u].version)
    BY <2>2, Zenon DEF OldestAbove
  <2> QED
    BY <2>1, <2>2, <2>3, Zenon DEF HistoryComplete
<1>13. UnkeptBelow'
  BY <1>2, <1>4, <1>5, ZenonT(60) DEF UnkeptBelow
<1>14. ReadsSettled' /\ CommitsOrdered'
  BY <1>2, <1>5, <1>6, ZenonT(60) DEF ReadsSettled, CommitsOrdered, HasRead
<1>15. CopyRight'
  BY <1>2, Zenon DEF CopyRight, IsStateAt
<1>16. Validated'
  <2>1. ASSUME NEW r \in seen[t], NEW x \in log[r[1]] PROVE x <= snap[t].version
    <3>1. r[1] \in Chunks /\ r[1] \in op[t].held
      BY <1>1, Zenon DEF SessionOrder, LocksHeld, TypeOK
    <3>2. KeptAbove(kept, r[1], snap[t].version) = {}
      BY <3>1, Zenon DEF Changed
    <3>3. ~(x > snap[t].version)
      BY <1>1, <3>1, <3>2, Zenon DEF HistoryComplete, OldestAbove
    <3> QED
      BY <1>1, <3>1, <3>3, ConstantsAssumption, SMTT(30) DEF TypeOK
  <2> QED
    BY <1>2, <1>5, <2>1, SMTT(30) DEF Validated, Threads
<1>17. SnapshotReads' /\ Serializable'
  BY <1>2, Zenon DEF SnapshotReads, Serializable, IsStateAt
<1>18. ConflictsAreReal'
  BY <1>2, Zenon DEF ConflictsAreReal, TypeOK
<1> QED
  BY <1>7, <1>8, <1>9, <1>10, <1>11, <1>12, <1>13, <1>14, <1>15, <1>16, <1>17, <1>18, Zenon

\* ValidateAndEnd preserves the invariant, whatever it answers.
LEMMA ValidateStep ==
  ASSUME IInv, NEW t \in Txns, Validate(t)
  PROVE  IInv'
<1>1. CASE Release(t)
  BY <1>1, EndCommitStep, Zenon DEF Validate
<1>2. CASE t \in Open(snap) /\ ~Changed(t) /\ Step(t, "version") /\ UNCHANGED refused
  BY <1>2, ValidatedStep, Zenon DEF Validate
<1> QED
  BY <1>1, <1>2, Zenon DEF Validate

\* The version taken under the locks is above everything.
LEMMA TakeVersionStep ==
  ASSUME IInv, NEW p \in Threads, TakeVersion(p)
  PROVE  IInv'
<1> DEFINE new == [op[p] EXCEPT !.step = "count", !.version = clock]
<1> USE DEF IInv, TakeVersion
<1>1. clock \in 0..MaxVersion /\ clock > 0 /\ clock' = clock + 1 /\ clock' \in 1..MaxVersion + 1
  BY ConstantsAssumption DEF TypeOK
<1>2. /\ new \in Op /\ new.step = "count" /\ new.version = clock
      /\ new.writes = op[p].writes /\ new.reads = op[p].reads /\ new.held = op[p].held
      /\ new.todo = op[p].todo
  BY <1>1, ZenonT(60) DEF TypeOK, Op
<1>3. /\ op' \in [Threads -> Op] /\ \A q \in Threads : op'[q].step = "idle" => op'[q] = Idle
      /\ op'[p] = new /\ \A q \in Threads : q # p => op'[q] = op[q]
  <2>1. op' = [op EXCEPT ![p] = new]
    BY Zenon
  <2> HIDE DEF new
  <2> QED
    BY <1>2, <2>1, OpChange, Zenon
<1> HIDE DEF new
<1>4. /\ Pending(p)' = op[p].writes
      /\ \A q \in Threads : q # p => Pending(q)' = Pending(q)
  BY <1>2, <1>3, Zenon DEF Pending
<1>5. TypeOK'
  BY <1>1, <1>3, Zenon DEF TypeOK, Op
<1>6. LocksExclusive'
  BY <1>2, <1>3 DEF LocksExclusive, HoldsExclusive
<1>7. LocksHeld'
  BY <1>2, <1>3, SMTT(30) DEF LocksHeld
<1>8. SessionOrder'
  BY <1>2, <1>3, IdleIsOp DEF SessionOrder, Threads
<1>9. BelowClock'
  <2>1. \A c \in Chunks : \A x \in log[c] : x < clock'
    BY <1>1, ConstantsAssumption DEF BelowClock, TypeOK
  <2>2. \A t \in Txns : snap[t].version < clock' /\ done[t] < clock'
    BY <1>1, ConstantsAssumption, SMTT(30) DEF BelowClock, TypeOK
  <2>3. ASSUME NEW q \in Threads, op'[q].step \in {"count", "apply"}
        PROVE  op'[q].version < clock' /\ op'[q].version > 0
    <3>1. op'[q].version \in 0..MaxVersion
      BY <1>3, Zenon DEF Op
    <3> QED
      BY <1>1, <1>2, <1>3, <2>3, <3>1, ConstantsAssumption DEF BelowClock
  <2> QED
    BY <2>1, <2>2, <2>3, Zenon DEF BelowClock
<1>10. CurrentIsLast' /\ KeptLogged'
  BY Zenon DEF CurrentIsLast, KeptLogged
<1>11. PendingIsNew'
  <2>1. \A c \in op[p].writes : c \in Chunks
    BY Zenon DEF TypeOK
  <2> QED
    BY <1>2, <1>3, <1>4, <2>1 DEF PendingIsNew, BelowClock
<1>12. HistoryComplete'
  BY SMTT(30) DEF HistoryComplete, Placed, IsStateAt
<1>13. UnkeptBelow'
  BY <1>2, <1>3, Zenon DEF UnkeptBelow, Placed
<1>14. ReadsSettled' /\ CommitsOrdered'
  <2>1. \A t \in Txns : clock > snap[t].version /\ clock >= done[t]
    BY <1>1, ConstantsAssumption DEF BelowClock, TypeOK
  <2> QED
    BY <1>2, <1>3, <1>4, <2>1, SMTT(30) DEF ReadsSettled, CommitsOrdered, HasRead
<1>15. CopyRight'
  BY Zenon DEF CopyRight, IsStateAt
<1>16. Validated'
  BY <1>2, <1>3 DEF Validated, Threads
<1>17. SnapshotReads' /\ Serializable' /\ ConflictsAreReal'
  BY Zenon DEF SnapshotReads, Serializable, ConflictsAreReal, IsStateAt
<1> QED
  BY <1>5, <1>6, <1>7, <1>8, <1>9, <1>10, <1>11, <1>12, <1>13, <1>14, <1>15, <1>16, <1>17, Zenon

\* A thread that finds no snapshot open keeps nothing: no snapshot has a version
\* yet, and one that takes a version from now on includes the thread's.
LEMMA LoadCountStep ==
  ASSUME IInv, NEW p \in Threads, LoadCount(p)
  PROVE  IInv'
<1> USE DEF IInv
<1>1. PICK changed \in SUBSET op[p].writes \ {{}} :
         op' = [op EXCEPT ![p].step = "apply", ![p].todo = changed, ![p].keep = OpenCount # {}]
  BY Zenon DEF LoadCount
<1>2. /\ op[p].step = "count"
      /\ UNCHANGED <<clock, current, kept, snap, copy, seen, log, done, refused>>
  BY Zenon DEF LoadCount
<1> DEFINE keep == OpenCount # {}
           new == [op[p] EXCEPT !.step = "apply", !.todo = changed, !.keep = keep]
<1>3. op' = [op EXCEPT ![p] = new] /\ keep \in BOOLEAN
  BY <1>1, Zenon
<1>4. ~keep => \A t \in Txns : ~Placed(t)
  BY Zenon DEF OpenCount, Placed
<1> HIDE DEF keep
<1>5. new \in Op
  <2>1. op[p] \in Op /\ changed \in SUBSET Chunks
    BY Zenon DEF TypeOK, Op
  <2> QED
    BY <1>3, <2>1, Zenon DEF Op
<1>6. /\ new.step = "apply" /\ new.todo = changed /\ new.keep = keep
      /\ new.version = op[p].version
      /\ new.writes = op[p].writes /\ new.reads = op[p].reads /\ new.held = op[p].held
  BY SMTT(30) DEF TypeOK, Op
<1> HIDE DEF new
<1>7. /\ op' \in [Threads -> Op] /\ \A q \in Threads : op'[q].step = "idle" => op'[q] = Idle
      /\ op'[p] = new /\ \A q \in Threads : q # p => op'[q] = op[q]
  BY <1>3, <1>5, <1>6, OpChange, Zenon
<1>8. \A q \in Threads : Pending(q)' \subseteq Pending(q) /\ op'[q].version = op[q].version
  BY <1>2, <1>6, <1>7, Zenon DEF Pending
<1>9. TypeOK'
  BY <1>2, <1>7, Zenon DEF TypeOK, Op
<1>10. LocksExclusive'
  BY <1>6, <1>7, SMTT(30) DEF LocksExclusive, HoldsExclusive
<1>11. LocksHeld'
  BY <1>2, <1>6, <1>7, ZenonT(60) DEF LocksHeld
<1>12. SessionOrder'
  BY <1>2, <1>6, <1>7, IdleIsOp, SMTT(30) DEF SessionOrder, Threads
<1>13. BelowClock' /\ CurrentIsLast' /\ KeptLogged'
  BY <1>2, <1>6, <1>7, Zenon DEF BelowClock, CurrentIsLast, KeptLogged
<1>14. PendingIsNew' /\ ReadsSettled' /\ CommitsOrdered'
  BY <1>2, <1>8, Zenon DEF PendingIsNew, ReadsSettled, CommitsOrdered, HasRead
<1>15. HistoryComplete'
  BY <1>2, Zenon DEF HistoryComplete, Placed, IsStateAt
<1>16. UnkeptBelow'
  BY <1>2, <1>4, <1>6, <1>7, Zenon DEF UnkeptBelow, Placed
<1>17. CopyRight'
  BY <1>2, Zenon DEF CopyRight, IsStateAt
<1>18. Validated'
  BY <1>2, <1>6, <1>7, SMTT(30) DEF Validated, Threads
<1>19. SnapshotReads' /\ Serializable' /\ ConflictsAreReal'
  BY <1>2, Zenon DEF SnapshotReads, Serializable, ConflictsAreReal, IsStateAt
<1> QED
  BY <1>9, <1>10, <1>11, <1>12, <1>13, <1>14, <1>15, <1>16, <1>17, <1>18, <1>19, Zenon

\* A write or commit that gives up changes nothing.
LEMMA GiveUpStep ==
  ASSUME IInv, NEW p \in Threads, GiveUp(p)
  PROVE  IInv'
<1> USE DEF IInv, GiveUp
<1>1. /\ op' \in [Threads -> Op] /\ \A q \in Threads : op'[q].step = "idle" => op'[q] = Idle
      /\ op'[p] = Idle /\ \A q \in Threads : q # p => op'[q] = op[q]
      /\ Pending(p)' = {}
      /\ \A q \in Threads : q # p => Pending(q)' = Pending(q)
  BY ReleaseFacts, Zenon
<1>2. TypeOK'
  BY <1>1, Zenon DEF TypeOK, Op
<1>3. LocksExclusive' /\ LocksHeld'
  BY ReleaseLocks, Zenon
<1>4. SessionOrder'
  BY <1>1, IdleIsOp, ZenonT(60) DEF SessionOrder, Threads
<1>5. BelowClock' /\ CurrentIsLast' /\ KeptLogged'
  BY <1>1, IdleIsOp, Zenon DEF BelowClock, CurrentIsLast, KeptLogged
<1>6. PendingIsNew' /\ ReadsSettled' /\ CommitsOrdered'
  BY <1>1, ZenonT(60) DEF PendingIsNew, ReadsSettled, CommitsOrdered, HasRead
<1>7. HistoryComplete'
  BY Zenon DEF HistoryComplete, Placed, IsStateAt
<1>8. UnkeptBelow'
  BY <1>1, IdleIsOp, Zenon DEF UnkeptBelow, Placed
<1>9. CopyRight'
  BY Zenon DEF CopyRight, IsStateAt
<1>10. Validated'
  BY <1>1, IdleIsOp, SMTT(30) DEF Validated, Threads
<1>11. SnapshotReads' /\ Serializable' /\ ConflictsAreReal'
  BY Zenon DEF SnapshotReads, Serializable, ConflictsAreReal, IsStateAt
<1> QED
  BY <1>2, <1>3, <1>4, <1>5, <1>6, <1>7, <1>8, <1>9, <1>10, <1>11, Zenon
=============================================================================
