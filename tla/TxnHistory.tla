---------------------------- MODULE TxnHistory ----------------------------
(***************************************************************************)
(* The isolation of transactions in one table: snapshots (txn_history.cpp), *)
(* the reads at a snapshot (ReadChunkStateAt, GetBlockAt), and the          *)
(* validation, locking and application of CommitTransaction                 *)
(* (txn_commit.cpp), beside ordinary writes of other threads.               *)
(*                                                                          *)
(* A snapshot is one number, S: the last version issued when it was         *)
(* registered.  Nobody waits for a snapshot.  A write that replaces a       *)
(* chunk's state while a snapshot is open keeps the replaced state, tagged  *)
(* with its own version, and a reader at S takes the oldest kept state      *)
(* tagged above S, or the chunk's current state if there is none.           *)
(*                                                                          *)
(* The files, their failures and crashes are in ChunkDurability and         *)
(* CommitIntents; here a commit that fails there ends without a change.     *)
(***************************************************************************)
EXTENDS Integers, FiniteSets

CONSTANTS
  Chunks,      \* the chunk coordinates; their order is the order of locking
  Txns,        \* sessions, each running one transaction
  Writers,     \* threads of ordinary writes
  HistoryLimit,\* limit_bytes_, in kept states
  MaxVersion   \* bound: the versions issued

ASSUME ConstantsAssumption ==
  /\ Chunks \subseteq Nat
  /\ Txns \cap Writers = {}
  /\ HistoryLimit \in Nat
  /\ MaxVersion \in Nat

\* Coordinates are integers of a fixed width.
ASSUME CoordinatesAssumption == IsFiniteSet(Chunks)

VARIABLES
  clock,    \* version_clock_: the next version
  current,  \* the version of each chunk's state in memory
  kept,     \* kept_: the replaced states
  snap,     \* the TxnSnapshot of each transaction
  copy,     \* the state a reader copied under the chunk's lock
  op,       \* the write or commit each thread is in
  seen,     \* history: the states each transaction read, as <<chunk, version>>
  log,      \* history: the versions that changed each chunk
  done,     \* history: the version of each committed transaction, or 0
  refused   \* history: the transactions answered with chunk_changed

vars == <<clock, current, kept, snap, copy, op, seen, log, done, refused>>

Threads == Txns \cup Writers
NoCopy == <<>>
Idle == [step |-> "idle", writes |-> {}, reads |-> {}, held |-> {}, todo |-> {},
         version |-> 0, keep |-> FALSE]

-----------------------------------------------------------------------------
(* Snapshots and kept states.  A snapshot is "counted" in open_count_ before it
   reads the clock, then "read", then registered ("open"); the history's mutex
   is held from the first to the last. *)

Open(sn) == {t \in Txns : sn[t].phase = "open"}
CountRegistered == {t \in Txns : snap[t].phase = "open"}
OpenCount == {t \in Txns : snap[t].phase \in {"counted", "read", "open"}}
HistoryFree == \A t \in Txns : snap[t].phase \notin {"counted", "read"}

\* UnregisterLocked: the snapshots in ts are "ended" by their deadline or by the
\* limit, or "closed" with their transaction.
Unregister(sn, ts, phase) ==
  [t \in Txns |-> IF t \in ts THEN [sn[t] EXCEPT !.phase = phase] ELSE sn[t]]

\* PruneLocked: a state no registered snapshot is older than is dropped.
Prune(ks, sn) == {k \in ks : \E t \in Open(sn) : sn[t].version < k.tag}

KeptAbove(ks, c, version) == {k \in ks : k.coord = c /\ k.tag > version}
OldestAbove(ks, c, version) ==
  {k \in KeptAbove(ks, c, version) : \A j \in KeptAbove(ks, c, version) : k.tag <= j.tag}

\* A state tagged tag is needed while a registered snapshot is older than it
\* and some registered snapshot is not older than every kept state of c.
Needed(ks, sn, c, tag) ==
  /\ \E t \in Open(sn) : sn[t].version < tag
  /\ \A k \in ks : k.coord = c => \E t \in Open(sn) : sn[t].version >= k.tag

\* Publish: the oldest snapshots give way while the state is needed and does
\* not fit.  Gives(ts) says that the loop may end with the snapshots ts ended.
Gives(ks, sn, c, tag, ts) ==
  LET sn2 == Unregister(sn, ts, "ended")
      ks2 == Prune(ks, sn2)
  IN  /\ ts \subseteq Open(sn)
      /\ \A t \in ts, u \in Open(sn) \ ts : sn[t].version <= sn[u].version
      /\ ~Needed(ks2, sn2, c, tag) \/ Cardinality(ks2) + 1 <= HistoryLimit
PublishUnbounded(ks, sn, k) ==
  /\ kept' = IF Needed(ks, sn, k.coord, k.tag) THEN ks \cup {k} ELSE ks
  /\ snap' = sn
Publish(ks, sn, k) ==
  \E ts \in SUBSET Open(sn) :
    LET sn2 == Unregister(sn, ts, "ended")
        ks2 == IF ts = {} THEN ks ELSE Prune(ks, sn2)
    IN  /\ Gives(ks, sn, k.coord, k.tag, ts)
        /\ \A us \in SUBSET Open(sn) :
             Gives(ks, sn, k.coord, k.tag, us) => Cardinality(ts) <= Cardinality(us)
        /\ kept' = IF Needed(ks2, sn2, k.coord, k.tag) THEN ks2 \cup {k} ELSE ks2
        /\ snap' = sn2

-----------------------------------------------------------------------------
Init ==
  /\ clock = 1
  /\ current = [c \in Chunks |-> 0]
  /\ kept = {}
  /\ snap = [t \in Txns |-> [phase |-> "none", version |-> 0]]
  /\ copy = [t \in Txns |-> NoCopy]
  /\ op = [p \in Threads |-> Idle]
  /\ seen = [t \in Txns |-> {}]
  /\ log = [c \in Chunks |-> {}]
  /\ done = [t \in Txns |-> 0]
  /\ refused = {}

\* TxnHistory::Register, in the steps a writer can see.
CountSnapshot(t) ==
  /\ snap[t].phase = "none"
  /\ HistoryFree
  /\ snap' = [snap EXCEPT ![t].phase = "counted"]
  /\ UNCHANGED <<clock, current, kept, copy, op, seen, log, done, refused>>

ReadClock(t) ==
  /\ snap[t].phase = "counted"
  /\ snap' = [snap EXCEPT ![t].phase = "read", ![t].version = clock - 1]
  /\ UNCHANGED <<clock, current, kept, copy, op, seen, log, done, refused>>

InsertSnapshot(t) ==
  /\ snap[t].phase = "read"
  /\ snap' = [snap EXCEPT ![t].phase = "open"]
  /\ UNCHANGED <<clock, current, kept, copy, op, seen, log, done, refused>>

\* ExpireLocked, at the start of whatever takes the history's mutex next.
Expire(t) ==
  LET sn == Unregister(snap, {t}, "ended")
  IN  /\ HistoryFree
      /\ t \in Open(snap)
      /\ snap' = sn
      /\ kept' = Prune(kept, sn)
      /\ UNCHANGED <<clock, current, copy, op, seen, log, done, refused>>

\* End: the session's transaction goes, and its snapshot with it.
CloseSnapshot(t) ==
  LET sn == Unregister(snap, {t}, "closed")
  IN  /\ HistoryFree
      /\ snap' = sn
      /\ kept' = IF t \in Open(snap) THEN Prune(kept, sn) ELSE kept

\* ROLLBACK, or the COMMIT of a transaction that wrote nothing.
Rollback(t) ==
  /\ snap[t].phase \in {"open", "ended"}
  /\ op[t] = Idle
  /\ copy[t] = NoCopy
  /\ CloseSnapshot(t)
  /\ UNCHANGED <<clock, current, copy, op, seen, log, done, refused>>

-----------------------------------------------------------------------------
(* Reads at a snapshot *)

HoldsExclusive(p, c) == c \in op[p].held \cap op[p].writes
HasRead(t, c) == \E v \in seen[t] : v[1] = c

\* ReadChunkStateAt and GetBlockAt: the current state is copied under the
\* chunk's shared lock, and the lock released.
CopyState(t, c) ==
  /\ t \in Open(snap)
  /\ op[t] = Idle
  /\ copy[t] = NoCopy
  /\ ~HasRead(t, c)
  /\ \A p \in Threads : ~HoldsExclusive(p, c)
  /\ copy' = [copy EXCEPT ![t] = <<c, current[c]>>]
  /\ UNCHANGED <<clock, current, kept, snap, op, seen, log, done, refused>>

\* VisitAt: a kept state replaces the copy; a snapshot that has ended throws.
VisitAt(t) ==
  LET c == copy[t][1]
      older == OldestAbove(kept, c, snap[t].version)
  IN  /\ HistoryFree
      /\ copy[t] # NoCopy
      /\ copy' = [copy EXCEPT ![t] = NoCopy]
      /\ \/ /\ t \in Open(snap)
            /\ older = {}
            /\ seen' = [seen EXCEPT ![t] = @ \cup {copy[t]}]
         \/ /\ t \in Open(snap)
            /\ \E k \in older : seen' = [seen EXCEPT ![t] = @ \cup {<<c, k.state>>}]
         \/ /\ t \notin Open(snap)
            /\ UNCHANGED seen
      /\ UNCHANGED <<clock, current, kept, snap, op, log, done, refused>>

-----------------------------------------------------------------------------
(* Writes and commits *)

Step(p, s) == op' = [op EXCEPT ![p].step = s]
Release(p) == op' = [op EXCEPT ![p] = Idle]

\* An ordinary write locks its chunk.  The retirement of a collected chunk from
\* the cache is one as well (TryEvictCandidate).
StartWrite(w, c) ==
  /\ op[w] = Idle
  /\ \A q \in Threads : c \notin op[q].held
  /\ op' = [op EXCEPT ![w] = [Idle EXCEPT !.step = "version", !.writes = {c}, !.held = {c}]]
  /\ UNCHANGED <<clock, current, kept, snap, copy, seen, log, done, refused>>

\* CommitTransaction: every chunk written was read at the snapshot before.
StartCommit(t, ws) ==
  /\ snap[t].phase \in {"open", "ended"}
  /\ op[t] = Idle
  /\ copy[t] = NoCopy
  /\ ws # {}
  /\ \A c \in ws : HasRead(t, c)
  /\ op' = [op EXCEPT ![t] = [Idle EXCEPT !.step = "lock", !.writes = ws,
                                          !.reads = {v[1] : v \in seen[t]} \ ws]]
  /\ UNCHANGED <<clock, current, kept, snap, copy, seen, log, done, refused>>

\* The chunks are locked in coordinate order, the ones written exclusively.
Wants(p) == (op[p].writes \cup op[p].reads) \ op[p].held
NextChunk(p) == {c \in Wants(p) : \A d \in Wants(p) : c <= d}
Blocks(q, p, c) ==
  q # p /\ (IF c \in op[p].writes THEN c \in op[q].held ELSE HoldsExclusive(q, c))
LockAny(t) ==
  /\ op[t].step = "lock"
  /\ \E c \in Wants(t) :
       /\ \A q \in Threads : ~Blocks(q, t, c)
       /\ op' = [op EXCEPT ![t].held = @ \cup {c},
                           ![t].step = IF Wants(t) = {c} THEN "validate" ELSE "lock"]
  /\ UNCHANGED <<clock, current, kept, snap, copy, seen, log, done, refused>>
Lock(t) ==
  /\ op[t].step = "lock"
  /\ \E c \in NextChunk(t) :
       /\ \A q \in Threads : ~Blocks(q, t, c)
       /\ op' = [op EXCEPT ![t].held = @ \cup {c},
                           ![t].step = IF Wants(t) = {c} THEN "validate" ELSE "lock"]
  /\ UNCHANGED <<clock, current, kept, snap, copy, seen, log, done, refused>>

\* ValidateAndEnd under the locks: a chunk read or written that has a kept
\* state above the snapshot has changed since.
AnyChanged(t) == \E k \in kept : k.tag > snap[t].version
WrittenChanged(t) == \E c \in op[t].writes : KeptAbove(kept, c, snap[t].version) # {}
Changed(t) == \E c \in op[t].held : KeptAbove(kept, c, snap[t].version) # {}
Validate(t) ==
  /\ op[t].step = "validate"
  /\ CloseSnapshot(t)
  /\ \/ /\ t \notin Open(snap)
        /\ Release(t)
        /\ UNCHANGED refused
     \/ /\ t \in Open(snap)
        /\ Changed(t)
        /\ Release(t)
        /\ refused' = refused \cup {t}
     \/ /\ t \in Open(snap)
        /\ ~Changed(t)
        /\ Step(t, "version")
        /\ UNCHANGED refused
  /\ UNCHANGED <<clock, current, copy, seen, log, done>>

\* A poisoned store, a chunk that is fail-closed or a value too large is found
\* under the locks, before the validation; COMMIT ends the transaction.
CommitRefused(t) ==
  /\ op[t].step = "validate"
  /\ CloseSnapshot(t)
  /\ Release(t)
  /\ UNCHANGED <<clock, current, copy, seen, log, done, refused>>

\* NextChunkVersion, with every lock held.
TakeVersion(p) ==
  /\ op[p].step = "version"
  /\ clock <= MaxVersion
  /\ clock' = clock + 1
  /\ op' = [op EXCEPT ![p].step = "count", ![p].version = clock]
  /\ UNCHANGED <<current, kept, snap, copy, seen, log, done, refused>>

\* OpenCount() is read after the version is taken: a snapshot counted later
\* includes this version.  Chunks written as they were are not changed.
LoadCount(p) ==
  /\ op[p].step = "count"
  /\ \E changed \in SUBSET op[p].writes \ {{}} :
       op' = [op EXCEPT ![p].step = "apply", ![p].todo = changed,
                        ![p].keep = OpenCount # {}]
  /\ UNCHANGED <<clock, current, kept, snap, copy, seen, log, done, refused>>

\* A commit without a change returns before it takes a version; one that fails
\* before its commit point (a boundary, an intent, an append) changes nothing.
GiveUp(p) ==
  /\ op[p].step \in {"version", "count"}
  /\ Release(p)
  /\ UNCHANGED <<clock, current, kept, snap, copy, seen, log, done, refused>>

\* Past the commit point memory takes the new state of one chunk after the
\* other, and the replaced states go to the history.
ApplyChunk(p, c) ==
  LET v == op[p].version
      last == op[p].todo = {c}
  IN  /\ op[p].step = "apply"
      /\ c \in op[p].todo
      /\ \A d \in op[p].todo : c <= d
      /\ current' = [current EXCEPT ![c] = v]
      /\ log' = [log EXCEPT ![c] = @ \cup {v}]
      /\ \/ /\ op[p].keep
            /\ HistoryFree
            /\ Publish(kept, snap, [coord |-> c, tag |-> v, state |-> current[c]])
         \/ /\ ~op[p].keep
            /\ UNCHANGED <<kept, snap>>
      /\ IF last THEN Release(p) ELSE op' = [op EXCEPT ![p].todo = @ \ {c}]
      /\ done' = [t \in Txns |-> IF t = p THEN v ELSE done[t]]
      /\ UNCHANGED <<clock, copy, seen, refused>>

Next ==
  \/ \E t \in Txns : \/ CountSnapshot(t) \/ ReadClock(t) \/ InsertSnapshot(t)
                     \/ Expire(t) \/ Rollback(t) \/ VisitAt(t)
                     \/ Lock(t) \/ Validate(t) \/ CommitRefused(t)
                     \/ \E c \in Chunks : CopyState(t, c)
                     \/ \E ws \in SUBSET Chunks : StartCommit(t, ws)
  \/ \E w \in Writers, c \in Chunks : StartWrite(w, c)
  \/ \E p \in Threads : \/ TakeVersion(p) \/ LoadCount(p) \/ GiveUp(p)
                        \/ \E c \in Chunks : ApplyChunk(p, c)

Spec == Init /\ [][Next]_vars

-----------------------------------------------------------------------------
(* Properties *)

\* v is the state of chunk c at version s: the last change at or below it.
IsStateAt(c, s, v) ==
  /\ v \in log[c] \cup {0}
  /\ v <= s
  /\ \A x \in log[c] : x <= s => x <= v

Kept == [coord : Chunks, tag : 1..MaxVersion, state : 0..MaxVersion]

\* Every variable holds what the code's types allow, and a thread that is not in
\* a write or commit holds no chunk's lock.
TypeOK ==
  /\ clock \in 1..MaxVersion + 1
  /\ current \in [Chunks -> 0..MaxVersion]
  /\ kept \subseteq Kept
  /\ snap \in [Txns -> [phase : {"none", "counted", "read", "open", "ended", "closed"},
                        version : 0..MaxVersion]]
  /\ copy \in [Txns -> {NoCopy} \cup (Chunks \X (0..MaxVersion))]
  /\ op \in [Threads -> [step : {"idle", "lock", "validate", "version", "count", "apply"},
                         writes : SUBSET Chunks, reads : SUBSET Chunks,
                         held : SUBSET Chunks, todo : SUBSET Chunks,
                         version : 0..MaxVersion, keep : BOOLEAN]]
  /\ \A p \in Threads : op[p].step = "idle" => op[p] = Idle
  /\ seen \in [Txns -> SUBSET (Chunks \X (0..MaxVersion))]
  /\ log \in [Chunks -> SUBSET (1..MaxVersion)]
  /\ done \in [Txns -> 0..MaxVersion]
  /\ refused \subseteq Txns

\* Snapshot isolation: whatever a transaction read, in whatever order beside
\* other commits, is the state its chunk had at the snapshot's version.  Hence
\* reads repeat, and another transaction is seen in all its chunks or in none.
SnapshotReads ==
  \A t \in Txns : \A r \in seen[t] : IsStateAt(r[1], snap[t].version, r[2])

\* ValidateAndEnd under the locks makes committed transactions serializable in
\* the order of their versions: each one read exactly what was current just
\* before its own version.
Serializable ==
  \A t \in Txns : done[t] > 0 =>
    \A r \in seen[t] : IsStateAt(r[1], done[t] - 1, r[2])

\* A transaction is refused with chunk_changed only if a chunk it read or wrote
\* really changed after its snapshot: failed writes and other chunks cause none.
ConflictsAreReal ==
  \A t \in refused : \E r \in seen[t] : \E x \in log[r[1]] : x > snap[t].version

\* The history stays within its limit, and every kept state is above the oldest
\* registered snapshot: nothing stays behind when snapshots end.
HistoryBounded ==
  /\ Cardinality(kept) <= HistoryLimit
  /\ \A k \in kept : \E t \in Open(snap) : snap[t].version < k.tag

\* Commits and writes never wait for each other's chunks in a circle: whatever
\* was locked in whatever order of steps, one of the threads that hold or want
\* chunks is not waiting for one (the coordinate order of CommitTransaction).
Waiting(p) == op[p].step = "lock"
              /\ \A c \in NextChunk(p) : \E q \in Threads : Blocks(q, p, c)
NeverAllWaiting ==
  LET busy == {p \in Threads : op[p] # Idle}
  IN  busy # {} => \E p \in busy : ~Waiting(p)
=============================================================================
