------------------------ MODULE SnapshotGeneration ------------------------
(***************************************************************************)
(* How a read-only process reads the files of a table while a writer in    *)
(* another process changes them (snapshot_generation.cpp, and the          *)
(* read-only loads of chunk_cache.cpp).                                    *)
(*                                                                          *)
(* A writer takes two OS locks, publishes an odd session in the durable     *)
(* record chunkdb.snapshot, recovers, and then brackets every change of a   *)
(* chunk's files by a guard on a counter in a mapped file: the counter is   *)
(* odd while a guard is open, and a guard abandoned half way leaves it odd  *)
(* and failed.  A clean close publishes an even session.  A reader takes    *)
(* the session and the counter before and after it reads the files and      *)
(* accepts them when both are equal and even; it keeps the copy and checks  *)
(* it against the session and the counter at the next read.                 *)
(*                                                                          *)
(* The processes may die between any two steps; the OS then releases their  *)
(* locks.  A power loss ends the readers too and is not modelled.           *)
(***************************************************************************)
EXTENDS Integers, Sequences, FiniteSets

CONSTANTS
  Chunks,       \* the chunks of the table; the chunk mutex admits one change at a time
  Writers,      \* processes that open the table read-write
  Readers,      \* reads of one read-only process; they share its kept copies
  Nobody,       \* no process
  MaxAttempts,  \* the bracketed collections a read makes before it fails
  MaxStarts,    \* bound: starts of writers
  MaxChanges,   \* bound: changes of a chunk's files
  MaxReads,     \* bound: reads started
  MaxMishaps    \* bound: writes that fail, writers that die, drops of the table

\* A table has a chunk and finitely many; Nobody is no process.
ASSUME SnapshotAssumption ==
  /\ IsFiniteSet(Chunks) /\ Chunks # {}
  /\ Nobody \notin Writers

VARIABLES
  store,      \* the directory: whether it is there, the id of its store, and which
              \* inode is chunkdb.snapshot.live (0: none)
  record,     \* chunkdb.snapshot: the session, or -1 when absent
  lives,      \* the inodes chunkdb.snapshot.live has named
  art,        \* the image and the WAL of each chunk: the state they hold
  lock,       \* snapshot.owner, snapshot.writer, and the readers inside their probe
  writer,     \* where each writer is
  op,         \* the change of each chunk's files in progress
  opened,     \* the read-only store: where its opening is, its store id
  reader,     \* the reads in progress
  kept,       \* the chunks the read-only store keeps
  ghost,      \* history: the committed state of each chunk; those of each read's time
  spent       \* what of the bounds is used

vars == <<store, record, lives, art, lock, writer, op, opened, reader, kept, ghost, spent>>

-----------------------------------------------------------------------------
(* The counter, kept in one 64-bit word: an epoch, the guards open, and the
   flags kGenerationFailed and kGenerationOdd. *)

NoRecord == -1
Fresh(session) ==
  [session |-> session, epoch |-> 0, count |-> 0, failed |-> FALSE, odd |-> TRUE]
Live == lives[store.live]
SetLive(l) == lives' = [lives EXCEPT ![store.live] = l]

\* IsFailed: a guard was abandoned, or recovery has not finished.
IsFailed(l) == l.failed \/ (l.odd /\ l.count = 0)

\* BeginSnapshotGenerationWrite's compare-exchange.
Entered(l) == [l EXCEPT !.count = @ + 1, !.odd = TRUE]

\* FinishSnapshotGenerationWrite's: the last guard out makes the counter even
\* in a new epoch, unless another guard was abandoned.
Left(l) ==
  IF l.count = 1 /\ ~l.failed
  THEN [l EXCEPT !.count = 0, !.epoch = @ + 1, !.odd = FALSE]
  ELSE [l EXCEPT !.count = @ - 1]

\* AbandonSnapshotGenerationWrite: a guard inside another leaves the verdict to it.
Abandoned(l, fail_epoch) ==
  [l EXCEPT !.count = IF @ > 0 THEN @ - 1 ELSE 0,
            !.failed = @ \/ fail_epoch, !.odd = @ \/ fail_epoch]

-----------------------------------------------------------------------------
(* A state of a chunk's files is the id of its store and how often the chunk was
   changed; never changed, it has no files. *)
Gone == <<0, 0>>
Mixed == <<0, 1>>      \* an image and a WAL that hold different states
NoGen == <<-1, 0>>     \* an observation that is not stable

NoOp == [at |-> "idle", from |-> 0]
NoWriter == [at |-> "none", session |-> NoRecord]
NoRead == [at |-> "idle", sub |-> "record", chunk |-> CHOOSE c \in Chunks : TRUE,
           session |-> NoRecord, inode |-> 0, before |-> NoGen, image |-> Gone,
           wal |-> Gone, first |-> TRUE, attempt |-> 0, result |-> Gone]
NoCopy == [gen |-> NoGen, state |-> Gone]

Init ==
  /\ store = [there |-> TRUE, id |-> 1, live |-> 0]
  /\ record \in {NoRecord, 2}
  /\ lives = <<>>
  /\ art = [c \in Chunks |-> [image |-> <<1, 0>>, wal |-> <<1, 0>>]]
  /\ lock = [owner |-> Nobody, lease |-> Nobody, probes |-> {}]
  /\ writer = [p \in Writers |-> NoWriter]
  /\ op = [c \in Chunks |-> NoOp]
  /\ opened = [at |-> "closed", id |-> 0, seen |-> FALSE, session |-> NoRecord]
  /\ reader = [r \in Readers |-> NoRead]
  /\ kept = [c \in Chunks |-> NoCopy]
  /\ ghost = [now |-> [c \in Chunks |-> <<1, 0>>], during |-> [r \in Readers |-> {}]]
  /\ spent = [starts |-> 0, changes |-> 0, reads |-> 0, mishaps |-> 0]

Spend(field) == spent' = [spent EXCEPT ![field] = @ + 1]
Mishap == spent.mishaps < MaxMishaps /\ Spend("mishaps")

\* The committed state of chunk c becomes s; every read of c under way may return it.
Committed(c, s) ==
  ghost' = [now |-> [ghost.now EXCEPT ![c] = s],
            during |-> [r \in Readers |->
                          IF reader[r].at # "idle" /\ reader[r].chunk = c
                          THEN ghost.during[r] \cup {s} ELSE ghost.during[r]]]

-----------------------------------------------------------------------------
(* A writer's start: the owner lock, the lease, the mapped file, the odd
   session, recovery. *)

At(p, at) == writer[p].at = at
Go(p, at) == writer' = [writer EXCEPT ![p].at = at]
Files == <<store, record, lives, art>>
ReadSide == <<opened, reader, kept>>

AnyOwner == TRUE                                      (* Mutant: no owner file *)
\* The owner file excludes a second writer without waiting.
OwnerFree == lock.owner = Nobody
TakeOwner(p) ==
  /\ At(p, "none") /\ store.there /\ spent.starts < MaxStarts
  /\ Spend("starts")
  /\ IF OwnerFree THEN lock' = [lock EXCEPT !.owner = p] /\ Go(p, "owner")
     ELSE UNCHANGED <<lock, writer>>
  /\ UNCHANGED <<Files, op, ReadSide, ghost>>

\* The shared test lock refuses an exclusive holder, and is dropped at once.
TestLease(p) ==
  /\ At(p, "owner")
  /\ IF lock.lease = Nobody THEN Go(p, "tested") /\ UNCHANGED lock
     ELSE Go(p, "none") /\ lock' = [lock EXCEPT !.owner = Nobody]
  /\ UNCHANGED <<Files, op, ReadSide, ghost, spent>>

\* WaitForExclusive: polls until no probe and no writer holds the lease, and
\* gives up at its bound.
WaitForExclusive(p) ==
  /\ At(p, "tested")
  /\ \/ /\ lock.lease = Nobody /\ lock.probes = {}
        /\ lock' = [lock EXCEPT !.lease = p]
        /\ Go(p, "lease")
     \/ /\ lock.lease # Nobody \/ lock.probes # {}
        /\ lock' = [lock EXCEPT !.owner = Nobody]
        /\ Go(p, "none")
  /\ UNCHANGED <<Files, op, ReadSide, ghost, spent>>

\* The locks a process gives up: the lease before the owner file.
Released(p) ==
  [lock EXCEPT !.owner = IF @ = p THEN Nobody ELSE @, !.lease = IF @ = p THEN Nobody ELSE @]

\* A writer never reuses the session of one that died odd.
RecoverySession(s) == LET n == IF s = NoRecord THEN 0 ELSE s IN IF n % 2 = 0 THEN n + 1 ELSE n + 2

\* SnapshotGenerationMapping::Initialize replaces the mapped file, odd.
InitializeLive(p) ==
  /\ At(p, "lease")
  /\ lives' = Append(lives, Fresh(RecoverySession(record)))
  /\ store' = [store EXCEPT !.live = Len(lives) + 1]
  /\ writer' = [writer EXCEPT ![p] = [at |-> "live", session |-> RecoverySession(record)]]
  /\ UNCHANGED <<record, art, lock, op, ReadSide, ghost, spent>>

\* The durable odd record precedes every change recovery makes.  When it
\* fails the start fails, the record perhaps replaced.
PublishSession(p) ==
  /\ At(p, "live")
  /\ \/ record' = writer[p].session /\ Go(p, "recovering") /\ UNCHANGED <<lock, spent>>
     \/ /\ Mishap
        /\ record' \in {record, writer[p].session}
        /\ lock' = Released(p)
        /\ writer' = [writer EXCEPT ![p] = NoWriter]
  /\ UNCHANGED <<store, lives, art, op, ReadSide, ghost>>

\* Recovery repairs a chunk a dead writer left half changed.
Torn(c) == art[c].image # art[c].wal
Recover(p) ==
  /\ At(p, "recovering")
  /\ \E c \in Chunks : \E s \in {art[c].image, art[c].wal} :
       /\ Torn(c)
       /\ art' = [art EXCEPT ![c] = [image |-> s, wal |-> s]]
       /\ Committed(c, s)
  /\ UNCHANGED <<store, record, lives, lock, writer, op, ReadSide, spent>>

FinishSnapshotGenerationRecovery(p) ==
  /\ At(p, "recovering") /\ ~ \E c \in Chunks : Torn(c)
  /\ SetLive([Live EXCEPT !.epoch = 1, !.odd = FALSE])
  /\ Go(p, "serving")
  /\ UNCHANGED <<store, record, art, lock, op, ReadSide, ghost, spent>>

-----------------------------------------------------------------------------
(* Changes under a guard: the image first, then the WAL.  A change that
   fails half way is repaired under a guard of its own inside the first. *)

Serving == \E p \in Writers : At(p, "serving")
Next_(s) == <<s[1], s[2] + 1>>
Step(c, at) == op' = [op EXCEPT ![c].at = at]

\* Refused while the counter is failed, or odd with no guard open.
BeginSnapshotGenerationWrite(c) ==
  /\ Serving /\ op[c] = NoOp /\ spent.changes < MaxChanges
  /\ ~IsFailed(Live)
  /\ Spend("changes")
  /\ SetLive(Entered(Live))
  /\ op' = [op EXCEPT ![c] = [at |-> "image", from |-> art[c].image[2]]]
  /\ UNCHANGED <<store, record, art, lock, writer, ReadSide, ghost>>

ChangeImage(c) ==
  /\ op[c].at = "image"
  /\ art' = [art EXCEPT ![c].image = Next_(@)]
  /\ Step(c, "wal")
  /\ UNCHANGED <<store, record, lives, lock, writer, ReadSide, ghost, spent>>

ChangeWal(c) ==
  /\ op[c].at = "wal"
  /\ \/ /\ art' = [art EXCEPT ![c].wal = Next_(@)]
        /\ Committed(c, Next_(art[c].wal))
        /\ Step(c, "finish")
        /\ UNCHANGED <<lives, spent>>
     \/ /\ Mishap
        /\ SetLive(Entered(Live))
        /\ Step(c, "repair")
        /\ UNCHANGED <<art, ghost>>
  /\ UNCHANGED <<store, record, lock, writer, ReadSide>>

\* TruncateWalTail under its nested guard; when it fails the outer guard is
\* abandoned with it and the store fails closed.
Repair(c) ==
  /\ op[c].at = "repair"
  /\ \/ /\ art' = [art EXCEPT ![c].image = art[c].wal]
        /\ SetLive(Left(Live))
        /\ Step(c, "finish")
        /\ UNCHANGED spent
     \/ /\ Mishap
        /\ SetLive(Abandoned(Abandoned(Live, FALSE), TRUE))
        /\ op' = [op EXCEPT ![c] = NoOp]
        /\ UNCHANGED art
  /\ UNCHANGED <<store, record, lock, writer, ReadSide, ghost>>

FinishSnapshotGenerationWrite(c) ==
  /\ op[c].at = "finish"
  /\ SetLive(Left(Live))
  /\ op' = [op EXCEPT ![c] = NoOp]
  /\ UNCHANGED <<store, record, art, lock, writer, ReadSide, ghost, spent>>

-----------------------------------------------------------------------------
(* The end of a writer, and of the table. *)

\* CloseSnapshotGeneration: an even session only when the counter is even.
\* The write may fail, the record perhaps replaced; the close goes on.
Closable(l) == ~l.odd /\ ~l.failed /\ l.count = 0
CloseSnapshotGeneration(p) ==
  /\ At(p, "serving") /\ \A c \in Chunks : op[c] = NoOp
  /\ IF Closable(Live)
     THEN \/ record' = writer[p].session + 1 /\ UNCHANGED spent
          \/ Mishap /\ record' \in {record, writer[p].session + 1}
     ELSE UNCHANGED <<record, spent>>
  /\ Go(p, "closed")
  /\ UNCHANGED <<store, lives, art, lock, op, ReadSide, ghost>>

ReleaseLease(p) ==
  /\ At(p, "closed")
  /\ lock' = Released(p)
  /\ writer' = [writer EXCEPT ![p] = NoWriter]
  /\ UNCHANGED <<Files, op, ReadSide, ghost, spent>>

\* The process dies: its changes stop where they are.
Die(p) ==
  /\ ~At(p, "none") /\ Mishap
  /\ lock' = Released(p)
  /\ writer' = [writer EXCEPT ![p] = NoWriter]
  /\ op' = IF At(p, "serving") THEN [c \in Chunks |-> NoOp] ELSE op
  /\ UNCHANGED <<Files, ReadSide, ghost>>

\* DROP TABLE moves the directory of a closed store away; CREATE TABLE puts a
\* new store, whose sessions start over, under the name (here as its server
\* closed it).
DropTable ==
  /\ store.there /\ lock.owner = Nobody /\ lock.lease = Nobody /\ Mishap
  /\ store' = [store EXCEPT !.there = FALSE, !.live = 0]
  /\ record' = NoRecord
  /\ lock' = [lock EXCEPT !.probes = {}]
  /\ art' = [c \in Chunks |-> [image |-> <<store.id + 1, 0>>, wal |-> <<store.id + 1, 0>>]]
  /\ ghost' = [now |-> [c \in Chunks |-> Gone],
               during |-> [r \in Readers |->
                             IF reader[r].at \in {"image", "wal", "after"}
                             THEN ghost.during[r] \cup {Gone} ELSE ghost.during[r]]]
  /\ UNCHANGED <<lives, writer, op, ReadSide>>

CreateTable ==
  /\ ~store.there
  /\ store' = [store EXCEPT !.there = TRUE, !.id = @ + 1]
  /\ record' = 2
  /\ ghost' = [ghost EXCEPT !.now = [c \in Chunks |-> <<store.id + 1, 0>>]]
  /\ UNCHANGED <<lives, art, lock, writer, op, ReadSide, spent>>

-----------------------------------------------------------------------------
(* The read-only store opens: InitializeSnapshotGeneration refuses a session
   whose writer died, seen odd before and after the lease is found free. *)

OpenReadOnly ==
  /\ opened.at \in {"closed", "probe", "again"} /\ store.there
  /\ CASE opened.at = "closed" ->
            opened' = [at |-> IF record # NoRecord /\ record % 2 = 1 THEN "probe" ELSE "open",
                       id |-> store.id, seen |-> record # NoRecord, session |-> record]
       [] opened.at = "probe" ->
            opened' = [opened EXCEPT !.at = IF lock.lease # Nobody THEN "open" ELSE "again"]
       [] opened.at = "again" ->
            opened' = [opened EXCEPT !.at = IF record = opened.session THEN "closed" ELSE "open"]
  /\ UNCHANGED <<Files, lock, writer, op, reader, kept, ghost, spent>>

-----------------------------------------------------------------------------
(* A read.  at is where it is: the check of a kept copy ("now", "store"), or
   the bracketed collection ("before", "image", "wal", "after", "parse").  An
   observation of the generation takes steps of its own (sub). *)

OtherSide == <<Files, writer, op, opened>>
Set(r, rec) == reader' = [reader EXCEPT ![r] = rec]

StartRead(r) ==
  /\ opened.at = "open" /\ reader[r].at = "idle" /\ spent.reads < MaxReads
  /\ Spend("reads")
  /\ \E c \in Chunks :
       /\ Set(r, [NoRead EXCEPT !.at = IF kept[c] = NoCopy THEN "before" ELSE "now",
                                !.chunk = c, !.first = kept[c] = NoCopy])
       /\ ghost' = [ghost EXCEPT !.during[r] = {ghost.now[c]} \ {Gone}]
  /\ UNCHANGED <<OtherSide, lock, kept>>

\* LoadStableReadOnlyChunkDiskSnapshot tries again, and fails in the end.
Retry(q) ==
  IF q.attempt + 1 < MaxAttempts
  THEN [q EXCEPT !.at = "before", !.sub = "record", !.attempt = @ + 1] ELSE NoRead

SameSession(before, after) == after # NoGen /\ before[1] = after[1]   (* Mutant *)
\* Whether two stable observations bracket files that did not change.
Same(before, after) == after # NoGen /\ before = after

\* What the read does with the observation g.  An observation that is not
\* stable before the collection rejects it whatever the files hold.
Observed(q, g) ==
  LET next == [q EXCEPT !.sub = "record"] IN
  CASE q.at = "now" -> [next EXCEPT !.at = IF Same(kept[q.chunk].gen, g) THEN "store" ELSE "before"]
    [] q.at = "before" -> IF g = NoGen THEN Retry(q) ELSE [next EXCEPT !.at = "image", !.before = g]
    [] q.at = "after" -> IF Same(q.before, g) THEN [next EXCEPT !.at = "parse"] ELSE Retry(q)

Observing(r, sub) == reader[r].at \in {"now", "before", "after"} /\ reader[r].sub = sub

\* ReadSnapshotGeneration.  A record that was seen and is gone fails the read.
ReadRecord(r) ==
  /\ Observing(r, "record")
  /\ Set(r, CASE record = NoRecord -> IF opened.seen THEN NoRead ELSE Observed(reader[r], <<0, 0>>)
              [] record # NoRecord /\ record % 2 = 0 -> Observed(reader[r], <<record, 0>>)
              [] record # NoRecord /\ record % 2 = 1 ->
                   [reader[r] EXCEPT !.sub = "probe", !.session = record])
  /\ UNCHANGED <<OtherSide, lock, kept, ghost, spent>>

\* ReadLiveSnapshotGeneration's probe: an odd session that no writer holds is
\* not stable.  The shared lock is held until the probe is dropped.
ProbeLease(r) ==
  /\ Observing(r, "probe")
  /\ \/ lock.lease # Nobody /\ Set(r, [reader[r] EXCEPT !.sub = "map"]) /\ UNCHANGED lock
     \/ /\ lock.lease = Nobody /\ store.there
        /\ lock' = [lock EXCEPT !.probes = @ \cup {r}]
        /\ Set(r, [reader[r] EXCEPT !.sub = "drop"])
     \/ ~store.there /\ Set(r, Observed(reader[r], NoGen)) /\ UNCHANGED lock
  /\ UNCHANGED <<OtherSide, kept, ghost, spent>>

DropProbe(r) ==
  /\ Observing(r, "drop")
  /\ lock' = [lock EXCEPT !.probes = @ \ {r}]
  /\ Set(r, Observed(reader[r], NoGen))
  /\ UNCHANGED <<OtherSide, kept, ghost, spent>>

\* MappedSnapshotCounter: a mapped file of another session is not stable.
MapLive(r) ==
  /\ Observing(r, "map")
  /\ Set(r, IF store.live # 0 /\ Live.session = reader[r].session
            THEN [reader[r] EXCEPT !.sub = "load", !.inode = store.live]
            ELSE Observed(reader[r], NoGen))
  /\ UNCHANGED <<OtherSide, lock, kept, ghost, spent>>

LoadCounter(r) ==
  /\ Observing(r, "load")
  /\ LET l == lives[reader[r].inode] IN
       Set(r, Observed(reader[r], IF l.odd THEN NoGen ELSE <<l.session, l.epoch>>))
  /\ UNCHANGED <<OtherSide, lock, kept, ghost, spent>>

\* CollectReadOnlyChunkDiskSnapshot: the image, then the WAL with the intents.
Collect(r) ==
  /\ \/ reader[r].at = "image" /\ Set(r, [reader[r] EXCEPT !.image = art[reader[r].chunk].image, !.at = "wal"])
     \/ reader[r].at = "wal" /\ Set(r, [reader[r] EXCEPT !.wal = art[reader[r].chunk].wal, !.at = "after"])
  /\ UNCHANGED <<OtherSide, lock, kept, ghost, spent>>

-----------------------------------------------------------------------------
StillOnDisk == store.there /\ store.id = opened.id
Absent(s) == s[2] = 0
Later(g, h) == g[1] > h[1] \/ (g[1] = h[1] /\ g[2] > h[2])

\* LoadChunkPayload names the store it reads: an image or WAL of another store
\* is refused, and a chunk with no files needs the manifest check.
RightStore(q) ==
  IF Absent(q.image) /\ Absent(q.wal) THEN StillOnDisk
  ELSE \A s \in {q.image, q.wal} : Absent(s) \/ s[1] = opened.id

\* The collection is parsed and kept: a chunk's first load is dropped when
\* another read inserted the chunk meanwhile; a reload never replaces a copy of
\* a later generation.
Parse(r) ==
  LET q == reader[r]
      loaded == [gen |-> q.before, state |-> IF q.image = q.wal THEN q.image ELSE Mixed]
      newer == Later(q.before, kept[q.chunk].gen)
  IN  /\ q.at = "parse"
      /\ CASE ~RightStore(q) -> Set(r, NoRead) /\ UNCHANGED kept
           [] RightStore(q) /\ q.first /\ kept[q.chunk] # NoCopy ->
                Set(r, [q EXCEPT !.at = "now", !.first = FALSE, !.attempt = 0]) /\ UNCHANGED kept
           [] RightStore(q) /\ ~(q.first /\ kept[q.chunk] # NoCopy) ->
                /\ kept' = IF newer THEN [kept EXCEPT ![q.chunk] = loaded] ELSE kept
                /\ Set(r, [q EXCEPT !.at = "done", !.result = kept'[q.chunk].state])
      /\ UNCHANGED <<OtherSide, lock, ghost, spent>>

\* RefreshReadOnlyChunk keeps an unchanged copy of a store still on disk.
KeepCopy(r) ==
  /\ reader[r].at = "store"
  /\ Set(r, IF StillOnDisk THEN [reader[r] EXCEPT !.at = "done", !.result = kept[reader[r].chunk].state]
            ELSE NoRead)
  /\ UNCHANGED <<OtherSide, lock, kept, ghost, spent>>

Return(r) ==
  /\ reader[r].at = "done"
  /\ Set(r, NoRead)
  /\ ghost' = [ghost EXCEPT !.during[r] = {}]
  /\ UNCHANGED <<OtherSide, lock, kept, spent>>

-----------------------------------------------------------------------------
WriterStep(p) ==
  \/ TakeOwner(p) \/ TestLease(p) \/ WaitForExclusive(p) \/ InitializeLive(p)
  \/ PublishSession(p) \/ Recover(p) \/ FinishSnapshotGenerationRecovery(p)
  \/ CloseSnapshotGeneration(p) \/ ReleaseLease(p) \/ Die(p)
ChangeStep(c) ==
  \/ BeginSnapshotGenerationWrite(c) \/ ChangeImage(c) \/ ChangeWal(c) \/ Repair(c)
  \/ FinishSnapshotGenerationWrite(c)
ReaderStep(r) ==
  \/ StartRead(r) \/ ReadRecord(r) \/ ProbeLease(r) \/ DropProbe(r) \/ MapLive(r)
  \/ LoadCounter(r) \/ Collect(r) \/ Parse(r) \/ KeepCopy(r) \/ Return(r)

Next ==
  \/ \E p \in Writers : WriterStep(p)
  \/ \E c \in Chunks : ChangeStep(c)
  \/ \E r \in Readers : ReaderStep(r)
  \/ DropTable \/ CreateTable \/ OpenReadOnly

Spec == Init /\ [][Next]_vars

-----------------------------------------------------------------------------
(* Properties. *)

\* A read of a read-only process returns a state the chunk committed while the
\* read ran, of the store the process opened: never an image and a WAL of
\* different moments, never a change in progress or one that failed half way,
\* never a kept copy that changed since, never another store's chunk (the
\* bracket of LoadStableReadOnlyChunkDiskSnapshot and RefreshReadOnlyChunk).  A
\* collection during which the table is dropped is the exception: created again,
\* the table may repeat its session, and only absent files ask for the manifest.
ReadsCommitted ==
  \A r \in Readers : reader[r].at = "done" /\ Gone \notin ghost.during[r] =>
    reader[r].result \in ghost.during[r] /\ reader[r].result[1] = opened.id

\* A copy whose generation is the one a reader would now observe as stable, on
\* the same store, is what the files hold (the argument of RefreshReadOnlyChunk,
\* across closes, crashes and restarts of the writer).
StableCopyIsCurrent ==
  LET session == IF record = NoRecord THEN 0 ELSE record
      held == lock.lease # Nobody /\ store.live # 0 /\ Live.session = session
      stable == IF session % 2 = 0 THEN <<session, 0>>
                ELSE IF held /\ ~Live.odd THEN <<session, Live.epoch>> ELSE NoGen
  IN  StillOnDisk /\ stable # NoGen =>
        \A c \in Chunks : kept[c].gen = stable =>
          art[c] = [image |-> kept[c].state, wal |-> kept[c].state]

=============================================================================
