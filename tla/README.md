# chunkdb: TLA+ models, model checks and proofs

chunkdb is a storage server for two-dimensional tables of fixed-size blocks.
Blocks live in *chunks*; each chunk has an image (`.chk`) and a write-ahead log
(`.wal`) in the directory of its *large chunk*.  This directory holds TLA+
modules for the parts of chunkdb where concurrency, failing system calls,
crashes and power loss meet, the TLC configurations that check them on small
instances, and TLAPS proofs that hold for every instance.

`PROJECT.json` is the machine-readable side: components, runs, the map from
definitions to source lines, mutants, hazards, findings and theorems.

    tlc -workers 2 -config Tables.cfg MCTables     # one run
    tlapm TableLeaseProofs.tla                     # one module of proofs

1. The system and its modules
2. The runs
3. The modules: state, actions, abstractions
4. Fairness
5. The proofs
6. Where the code and its documents disagree
7. What is not shown

## 1. The system and its modules

A client's connection is accepted, queued and served by a worker, or by the feed
thread while it watches a table (`ServerConnections`).  It logs in under the
limits on failures (`LoginBans`) and acts by rights that other connections change
(`UserRights`).  A statement runs on a table it holds a lease of, which control
operations, backups and the linger timer take away and give back (`TableLease`);
which tables there are is decided by the catalog's files (`Catalog`).

A write takes its version from the clock (`VersionClock`), keeps the state it
replaces when a snapshot is open (`TxnHistory`), announces a bound to the change
feed (`ChangeFeed`), changes the bytes of the chunk and records a frame
(`BlockWrites`), and flushes a batch of frames to the WAL through the pool of open
streams (`WalStreams`).  What of that survives which failure is `ChunkDurability`;
writes that must be all or nothing over several WALs go through intents
(`CommitIntents`).  The private copies of a session's transaction and the bytes
they may take are `TxnSessions`.

Chunks are loaded, kept and evicted (`ChunkCache`), read past the cache by scans
(`WorldScan`), and read by processes of their own under a shared counter
(`SnapshotGeneration`).  Changes go to readers through the ring (`ChangeFeed`), or
through durable slots (`FeedSlots`, `SlotWatch`) within a budget of memory
(`FeedPool`).  A backup takes a cut of a table that is written (`BackupCut`) and a
restore publishes a directory (`BackupPublish`).  One process at a time writes a
data directory (`ProcessLock`).

| Module | Code (`src/src/`) | Proofs |
|---|---|---|
| ChunkDurability | block_ops, chunk_ops, wal_writer, checkpoint, barrier, durability_io, eviction | |
| CommitIntents | conditional_intent, txn_intent, txn_commit, chunk_ops | |
| BlockWrites | block_ops, chunk_layout, chunk_vars, wal_writer, wal_replay, schema | |
| VersionClock | version_clock | VersionClockProofs |
| TxnHistory | txn_history, txn_commit | TxnHistoryInv, TxnHistoryProofs |
| TxnSessions | engine_cql, engine | |
| SnapshotGeneration | snapshot_generation, chunk_cache | SnapshotGenerationProofs |
| ChunkCache | chunk_cache, eviction, maintenance, world_read | |
| WorldScan | world_read | |
| WalStreams | wal_stream_pool, store_resources | |
| ChangeFeed, FeedLog | change_feed, table_catalog | |
| FeedSlots | feed_slots, feed_archive, feed_prefix, checkpoint | |
| SlotWatch, FeedPool | slot_watch, server_feed, feed_slots | |
| Catalog | table_catalog, table_catalog_migrations, migrations_*, feature_activation_records | |
| TableLease | table_catalog | TableLeaseProofs |
| BackupCut, BackupPublish | backup_create, backup_records, backup_restore | |
| ProcessLock | process_lock | ProcessLockProofs |
| UserRights | user_registry, users, engine, engine_cql, server_feed | UserRightsProofs |
| LoginBans | engine | LoginBansProofs |
| ServerConnections | server, server_connection, server_feed | |

Where two components meet, one has the steps and the other takes the result as
one step: `ChunkDurability` has the steps of a flush, a checkpoint and a boundary
that `CommitIntents` uses whole; `CommitIntents` has the commit that `TxnHistory`
and `TxnSessions` use whole; `FeedSlots` has the frontier and the archive that
`SlotWatch` reads; `ChangeFeed` has the ring it joins.

## 2. The runs

Every module `MC...` gives a specification its small instance.  Some of them hold
several components: a variable `part` says which of them a behaviour runs, the
others stand still, and a property named here is the conjunction of what the
component's module states.  No component is weakened by it; the instances below
are what each of them runs with.

| Run | Instance | What it shows |
|---|---|---|
| `durability` | one chunk of two blocks and 2 revisions: in relaxed mode with groups of two, under every operation with 1 failing call or with 1 crash or power loss, and under checkpoints and barriers with both (one block); in a synced mode under all of it; barriers alone in relaxed mode, and checkpoints and barriers in a synced one, with 2 failing calls and a crash; and two chunks that share a directory and an unsynced set of at most one file | `PromisedWritesSurvive`: what a reply, a barrier or a COMMIT promised is in every outcome of a power loss.  `RejectedLeavesNothing`.  `ReloadAgrees`: files and batch replay to memory, and no WAL is left that the replay refuses.  `FloorMakesPublishStrict`: a publication after the drain of a barrier is durable by itself |
| `intents` | two transactions over two chunks beside writes, with 2 crashes and either 3 revisions or 2 and 1 fault; conditional writes, a transaction and checkpoints of one chunk, 3 revisions, 2 crashes, synced with 4 faults and relaxed with 2 | `TxnAllOrNothing`, `AnswersHold` (acknowledged is kept, rejected never returns, a rollback reaches no other write), `OpensAgain` |
| `tables` | clock: 2 threads, batches of 2, tokens to 8, 1 failing record, 2 crashes or losses. Catalog: 2 ids, 1 migration, 3 operations, 1 crash, and 2 names with 1 fault or 1 name with 2. Sessions: 2 sessions, 3 bytes, and 4 statements of every kind on 2 chunks and 2 stores; 4 of transactions whose copies have 1 or 2 bytes; 5 of transactions that may write one chunk; or 6 of transactions that write the same one | `TokensUnique`, `RaisedBelowClock`, `TablesAsAcknowledged`, `TxnsAsTold` |
| `txn_history` | 2 transactions, 1 writer, 2 chunks, a history of one state, 3 versions | `SnapshotReads`, `Serializable`, `ConflictsAreReal`, `HistoryBounded`, `NeverAllWaiting` |
| `change_feed` | 2 producers, 1 reader, 2 revisions, budgets of 1 and 2; an oversized entry, or an exclusive section with a resumption | `FollowsLog`: the feed implements `FeedLog` |
| `slots` | 2 chunks, 1 slot, groups of 2, 2 revisions, 1 failure, crash or power loss; 2 watches of a slot, 1 overrun of the ring; with 1 revision also a place of another epoch, a lost slot and overdue acknowledgements | `FrontierIsDurable`, `SlotHistoryKept`, `SlotDeliversExactly` |
| `storage` | generation: 1 chunk, 2 writers, 1 reader, 2 starts, 2 mishaps; 1 writer and 2 reads in turn; 1 writer and 3 reads of which 2 at once; and 2 chunks with overlapping guards. Cache: 2 chunks in 2 large chunks, 1 loaded at a time, seven loads of threads, writes and faults. Blocks: bytes of 2 bits, 3 blocks, 2 tables with two schema versions, 2 stops | `ReadersSeeCommitted`, `StableCopyIsCurrent`, `CacheKeepsWrites`, `RowsAsWritten`, `FilesReplay` |
| `world` | scan of 3 coordinates at the edge of the integers, pages of 1, 2 changes by threads of the process that scans or of another. Backup: 2 chunks, 2 writers, 3 writes and 1 checkpoint, or 2 and 2 with 1 failure. Publication: 2 processes, 2 faults, 2 starts. Lock: 3 processes on 2 hosts, a threshold of 2 ticks, 4 starts | `ScanComplete`, `CutIsExact`, `RestoredWhole`, `OneWriter` |
| `server` | users: 2 sessions, 1 or 2 changes, a watch, a failed write, a restart. Connections, queue of 1 and at most 1 watch: 2 workers, 2 accepts behind a proxy; 1 worker, 2 accepts, 2 requests; 2 workers, 1 accept, 3 requests. Logins: 3 connections of 2 sources, 2 names, 6 lines, or of 2 or 3 sources, 1 name, 8 lines; bans of 2 ticks, a table of 2 sources | `DecidedByRights`, `WatchWithRight`, `ConnectionsHeld`, `GuessesBounded`, `BanHolds` (an action property) |
| `progress` | a command, a DDL statement, a backup, a watch and the timer on a table; 2 threads and 3 chunks on a pool of one stream; a backup beside 2 writes; the stop of a server with one worker; a watch whose right goes | `LeasedStoreInPlace`, `ServesWhole`, `StreamsWithinCap`, and `WaitsEnd`: whoever waits in one of them is served |
| `feed_progress` | the feed with 2 producers and 1 revision; 2 watches of a slot; 2 watches of a pool of 6 bytes with frames of 1 and 4 | `ChargesBalance`, and `ConsumersServed`: what a consumer is owed arrives |
| `feed_floor` | the feed with an oversized entry, an exclusive section and a resumption together | a violation of `FollowsLog`: section 6 |

*Why the bounds are enough.*  Two revisions let a frame be lost behind a later
one, a group be half full and a collection follow a write; a third is needed for
a write acknowledged behind a stale intent.  One failing call and one crash put a
failure and a loss between any two steps; two crashes are needed to crash inside a
recovery, and four faults for a conditional write whose commit form and whose
release can neither be synced nor synced again.  Two chunks are used where state is
shared (a directory, the unsynced set, the publish mutex, the order of locks, a cut
over several files): with two, write skew, opposite lock orders and torn reads of a
commit happen.  A history of one state overflows, a pool of one stream and a queue
of one connection are full at once, and a cache of one chunk evicts at every load.
Two sessions, producers, watches or processes are what a race takes; the process
lock has three, since a takeover can be taken over.  A connection
needs two requests to be handed to the feed thread and to come back, and a third to
be served again; two reads in turn are needed to find a kept copy, and two at once to
share one.  The properties proved in section 5 do not depend on bounds of this kind.

Where a component has more than one instance, each of them has a question the others
have no room for, and an action may be out of the reach of one of them and in that of
another.  
A few branches that the code has, and the modules with it, are reached by no instance:
the cancellation of the timer's own drain (TableLease); a chunk that got a stream while
its thread went for a ticket, and a directory that fails again at the second try
(WalStreams); a raise that exhausts the clock (VersionClock); a name that is taken
between the checks and the rename of a CREATE (Catalog); the head of the queue that
finds no room for its receipt (FeedPool); and in ChangeFeed an entry that finds neither
room nor anything to give up, and the error thrown for a change out of order.  The
runs say nothing of what the code does there; the proofs of TableLease and VersionClock
include theirs.

All runs have CHECK_DEADLOCK FALSE: every bound on revisions, faults, crashes or
calls makes a state in which nothing is left to do.  Waiting in a circle is covered
by `NeverAllWaiting`, `WaitsEnd` and `ConsumersServed`.

## 3. The modules: state, actions, abstractions

An action is a whole handler, or the part of one between two points at which
another thread, another process, a failure or a crash can come in.  A mutex is
modelled by the atomicity of what happens under it, unless code that holds it makes
system calls or waits; then its holder is part of the state.  The map in
`PROJECT.json` has the lines of each definition; a helper whose lines lie inside
those of the definition that uses it has no row of its own.

**Files and power loss.**  For a file the models keep what the process sees and the
set of contents a power loss may leave.  A sync of a file or of its directory
removes choices; an unsynced append may leave any prefix of its whole frames, an
unsynced image may be torn, an unsynced rename or unlink may or may not have
happened.  A process crash keeps what the process saw; a power loss picks one
outcome per file or directory.

**ChunkDurability.**  The loaded chunks of one table, their files, `op[c]` (the
operation that holds the chunk's mutex and its step), the barrier and the unsynced
set.  A chunk's contents map each block to the revision that wrote it.

| Actions | Code |
|---|---|
| `SetBlock`, `Commit`, `AfterFlush`, `AfterFailedFlush` | `WriteBlockColumnsLocked`, `FinishOrdinaryMutationLocked` |
| `FlushNothing`, `AppendBatch`, `SyncBatch`, `SyncBatchDir`, `TruncateWalTail` | `FlushWalBatch` and its repair |
| `StartCheckpoint` ... `FinishCheckpoint`, `CheckpointFails` | `MaybeCheckpointChunk`, `CheckpointChunk` |
| `StartTxn`, `ForgetUnsynced`, `ResyncBoundary`, `FinishForgottenUnsynced`, `AppendTxnFrame` | `MakeWalBoundaryDurableLocked`, `AppendTxnFrameLocked` |
| `StartEviction`, `Unload` | `TryEvictCandidate` |
| `StartBarrier`, `BarrierFlush`, `BarrierDrain`, `BarrierSyncFile`, `BarrierSyncDirs`, `BarrierSyncFails` | `WalBarrier` |
| `ProcessCrash`, `PowerLoss` | the constructor of the next start |

`bad_alloc`, the entries of the large chunk's own directory, the trimming of a torn
frame at a load, and hard links to a WAL are left out.  `exposed` collects the
chunks that the disagreements of section 6 are about, so that the properties say
what holds elsewhere.  A repair that failed leaves the snapshot
generation failed, and the guard that a later flush opens first then refuses it.

**CommitIntents.**  Conditional writes and transactions over the WALs of several
chunks; a chunk's contents are the revisions applied to it, and every conditional
write or transaction owns an intent file.  The actions follow
`ApplyFullChunkStateLocked` and `CommitTransaction`: boundary, rollback form,
frames, commit form, memory, release, removal; each may fail, and the repair of a
failed step may fail.  `PassPoisonCheck` separates the check of
`durability_poisoned_` from taking the mutex.  Recovery runs chunk by chunk and can
crash at each.  The order in which a transaction appends to its chunks is not fixed.

**BlockWrites.**  The bits, presence and variable-length values of one chunk, its
frames, its image, and the ghost `rows` that its writers believe in.  `WriteBlock`,
`ApplyChunkState` and `CommitTxn` pack values into byte-aligned columns and record
frames of whole bytes; `FlushWalBatch`, `PublishImage`, `RemoveWal`, `KeepWal`,
`Crash` and `Reload` move them to the files and back; `Alter` and the narrowing
actions move the schema version under frames of an older one.  A byte has two bits,
a text is its length.  Flagged collection frames of archives, damage inside a
frame and the tags of conditional writes are left out.

**VersionClock.**  `clock`, `ceiling`, the two records with their power-loss
outcomes, the clock mutex and a program counter per thread.  `FetchAdd`,
`CheckCeiling`, `LockClock`, `ExtendCeiling` are `NextChunkVersion`; `StartRaise`
... `RaiseClock` are `RaiseVersionClockAbove`; `OpenFresh`, `OpenExisting`,
`PersistMarker` are `InitializeVersionClock`; `LoseRecords` is the loss of records
that the startup scan is there for.

**TxnHistory.**  `clock`, the version each chunk shows, kept states, snapshots, a
copy in flight per reader, and the write or commit each thread is in.  Registration
is three steps under the history's mutex (count, read the clock, insert), since
writers see them without it; a write is lock, version, count, apply; a read is a
copy under the chunk's lock and a visit to the history after it.  A kept state
counts one toward the limit; a failed commit ends without a change; the retirement
of a tombstone by an eviction is a write.

**TxnSessions.**  `txn` with its snapshot and its copies, the statement of each
session, the bytes of the shared budget, and `content`, the writes that the store
shows of each chunk.  A write looks for room, applies to the copy (SET CHUNK replaces,
SET BLOCK adds) and charges; a refused one takes back what it did.  A full budget ends
the transactions past their duration that are not in use.  COMMIT validates against
the store, installs the copies or fails, and the transaction is gone either way.
Statements outside of a transaction are not modelled here.  `TxnsAsTold`: a client is
never told its transaction is open when it is not; the budget is the sum of the
copies; and the store shows what the answered commits make of it, each with exactly
the acknowledged writes of its transaction.  The charge is made after the write and may refuse a write that would have fitted a moment later; that is
what the code does.  The outcome of a commit is one step: its files are CommitIntents,
its locks and versions TxnHistory.

**SnapshotGeneration.**  The record and the mapped word of a table directory, the
two file locks, the files of each chunk, writers that start, change chunks under a
guard, stop, crash, or find the repair of a dead writer's session to do, and
read-only stores that read the generation, the files, and the generation again.  A
directory can be dropped and created again under an opened read-only store.  A
generation is <<session, epoch>>; a file holds the number of a committed state, and
an image and a WAL that do not belong together read as `Mixed`.  The writer lock is
polled with `LOCK_NB` under a shared probe.  Power loss is not modelled here.

**ChunkCache.**  Container and chunk objects with their numbers of holders, the
maps that lead to them, the candidates of the eviction, the maintenance thread.  A
thread may hold an object that left its map; `CacheKeepsWrites` is that no write
goes to such an object and nothing is lost by its eviction.  A pass ends at
the first chunk whose eviction fails: the load that ran it fails, and the maintenance
thread takes its next job.  The retirement of a deleted chunk is a write of TxnHistory.

**WorldScan.**  Populated, cached and dirty chunks, the files and directories, the
scan catalog with the generation it was built at, and the scan, page by page: the
catalog is built or serves, each large chunk is looked at in the cache and then in its
directory, and the candidates of the window are read.  The writers are threads of the
process that scans or, for a read-only process, of another one.  A listing is not
atomic: a name that comes or goes while it runs may or may not be in it.
`ScanComplete` is about each page: it has every chunk of its range that was populated
throughout it.  The exception are the chunks of `ghost.moved`, not in the cache when
it was looked at, whose last name went during the listing: the name that
replaced it may be missed.  No document promises more (`docs/KNOWN_LIMITATIONS.md:7`).

**WalStreams.**  The tickets, the open streams in LRU order, the chunk mutexes and
the directory's entry.  `ForgetWalStreams`, `CloseAllWalStreams` and the clamp by
RLIMIT are left out.

**ChangeFeed and FeedLog.**  Producers' bounds and queues, the sender's pass, the
ring with its floor and watermark, subscriptions, exclusive sections that pause,
resume, end or replace the feed.  `FeedLog` is what a client may rely on: it moves
on by receiving the next committed change, by skipping revisions without a change,
or by being told to start again; and nothing commits at or below the position of a
client that is following.  The refinement is

    Log == INSTANCE FeedLog WITH position <- [c \in Clients |-> sub[c].position]

with `committed` and `last` as history variables; `FollowsLog` is `Log!Spec`.

**FeedSlots.**  Per chunk the image, the live WAL, archived segments and linked
bases, with power-loss outcomes; the frontier (`SyncBegin`, `SyncFiles`,
`SyncPersist`), the positions and staged acknowledgements, retention, and the
archive reader.  The migration of a slot is left out.

**SlotWatch and FeedPool.**  Worker, socket loop and claiming session of a slot's
watch; the shares, the pool and its queue of waiters.  The set of watches of a pool
is fixed; a reader that holds the whole budget, and the final control replies,
which are not charged, are outside the model.

**Catalog.**  Root files, places of table directories and manifests with their
power-loss outcomes, the operation in progress and what clients were told.  One
action per file operation of CREATE, DROP, ALTER, the narrowing, RECOVER TABLE,
ENABLE FEATURE, MIGRATE and of a start.  `ghost.sure` marks the tables whose
creation was made durable; section 6 says what happens without it.

**TableLease.**  `Table::state_`, its leases and pins, the feed with its
subscriptions, the linger timer and its two mutexes.  Sleeping on `cv_` and being
woken are steps.  `StopFeed`, slots inside the table, the cancellation of a backup
and a quarantine that was never admitted are left out; a cancelled drain of the
timer cannot happen, since whoever stops the timer has the table.

**BackupCut, BackupPublish.**  Writers with their bounds, the gate, the cut and the
hard links of a chunk's files; and a program of file operations that may fail,
crash or lose power at each, for one or two processes with the same target.  Before
it is published the directory is compared with the inventory, and refused if it has
less or more.  One
chunk per container; several tables, cancellation, poison, and the life of a
staging directory are left out.

**ProcessLock.**  Every file operation of the constructor, the heartbeat and
`Release`, for processes of several hosts.  The choice of the directory, opens
without a lock, clocks that disagree and malformed metadata are left out.

**UserRights.**  The registry with its published view and generation, the outcomes
of `chunkdb.users`, the sessions' cached rights, and the feed thread.  `ForgetTable`,
`SetVerifier` and `SetMigrationHealth` are left out.

**LoginBans, ServerConnections.**  Failures per connection and per source, with
ticks for time, which a failed login reads before it waits for the mutex of the table;
connections and descriptors that are reused, the pending queue,
workers, the feed thread and `Stop`.  Connections that come back from the feed
thread are queued without regard to `max_pending`, as in the code.  A broken wake
channel and the bytes of TLS and PROXY are left out.

## 4. Fairness

Only `progress` and `feed_progress` check liveness, and their specifications are the
only ones with fairness.  It is weak fairness, per thread, of the steps a running
thread takes by itself: a lease holder, the DDL thread, the backup, the timer, an
appending thread, a writer and the copy of a backup, the accept loop, workers, the
feed thread, the sender, producers that are inside a write, the worker and the
socket loop of a watch.  Their threads run code without unbounded waits except the
ones that are modelled, and the scheduler of the platform runs every runnable
thread.  Deadlines that the code sets pass (`DeadlinePasses`, `Expire`), so these are
weakly fair too.

Nothing is assumed about clients, except that a *consumer* who is owed something
reads its socket (`Receive`, `Send`; a client that does not is timed out by `Expire`
and counted as stalled), about new statements, writes, connections, faults or
crashes.  `WorkerReleased` is the end of a blocking read or write on a descriptor
on which `Stop` called `shutdown()`.  No strong fairness is used: where a thread
waits for a mutex the wait is for a state that persists until the thread moves, or
the queue gives it a turn.

## 5. The proofs

TLAPS proves the following for every value of the constants that the named
assumption allows; nothing is taken on trust.  Each proof is the usual one: an
inductive invariant that the initial states satisfy and every action keeps, one
lemma per action, and the property as a consequence.  Every invariant was an
invariant of a TLC run before it was proved.  None of the properties is inductive
by itself; what had to be added says why the code is right.

| Theorem | States | Module |
|---|---|---|
| `TokensNeverReissued`, `LoadsRaiseTheClock` | `TokensUnique`, `RaisedBelowClock` | VersionClockProofs |
| `SnapshotIsolation`, `CommitsSerializable`, `RefusalsJustified`, `HistoryWithinLimit` | `SnapshotReads`, `Serializable`, `ConflictsAreReal`, `HistoryBounded` | TxnHistoryProofs |
| `NoCircularWait` | `NeverAllWaiting` | TxnHistoryProofs |
| `DirectoryHasOneWriter` | `OneWriter` | ProcessLockProofs |
| `StoreStaysUnderLeases`, `OpenTablesServeWhole` | `LeasedStoreInPlace`, `ServesWhole` | TableLeaseProofs |
| `StatementsDecidedByRights`, `WatchesServedWithRight` | `DecidedByRights`, `WatchWithRight` | UserRightsProofs |
| `OwnPasswordsOnly`, `UsersFileKept` | `OwnPasswordOnly`, `ManagerRemains` and `MemoryOnDisk` | UserRightsProofs |
| `StableCopiesCurrent` | `StableCopyIsCurrent` | SnapshotGenerationProofs |
| `BansLast`, `BansForCause` | `BanHolds` (of steps) and `BannedForCause` of LoginBans, which run `server` checks of its instance | LoginBansProofs |

**VersionClock** (`ClockAssumption`: a batch and a largest token of at least 1, a
floor and revisions below it).  The invariant `IInv` adds that who is past the lock
holds the mutex; records are at or above the ceiling in memory; nothing was issued
at or above the ceiling except what an extension under way covers; candidates are
below the clock; and a missing record with a marker or with artifacts is noticed by
the next start.  Uniqueness needs that the clock starts above every durable ceiling,
which needs that every issued token is below each ceiling a power loss may leave
(`IssuedStaysBelowDurable`).

**TxnHistory** (`ConstantsAssumption`: chunks are numbers, in the order in which
coordinates are compared, and no thread is both a session and a writer;
`CoordinatesAssumption`: there are finitely many).  `TxnHistoryInv` has the invariant
and the steps of snapshots, reads, writes and commits before they change anything;
`TxnHistoryProofs` the application of a change and the theorems.  A read is right
because the history held the right state before it.  The centre is
`HistoryComplete`: once a snapshot has its version, a chunk that changed above it has
a kept state above it, and the oldest of these is the state at the snapshot.  It
survives a write that keeps nothing because of `UnkeptBelow` (such a writer read the
count of snapshots after its version was taken, so every snapshot since includes that
version), a pruning because only states go that no registered snapshot is older than,
and a second write because the oldest kept state above the snapshot stays the oldest.
`Serializable` rests on `Validated` (from its validation on a commit holds the locks
of all it read, so nothing else changes them) and `CommitsOrdered` (later changes
have larger versions because a version is taken under the locks).
The last theorem adds `LockOrder`: what a commit holds lies below what it wants.
Were every thread with an operation waiting, the largest chunk waited for would be
held by a thread that waits for a larger one.

**ProcessLock** (`LockAssumption`: a heartbeat is renewed within `BeatWithin`, a
metadata file judged within `JudgeWithin` of being read, and the sum of the two is
at most the threshold; processes of a host share the OS lock).  The OS lock separates
the processes that share it (`LocksApart`).  Between hosts the argument is about time
and holds while the ghost `calm` says that nobody overstepped those bounds: starts do
not overlap (`OneOpening`), the metadata names the settled writer (`SettledNamed`),
a text that was read is no older than a beat allows (`TextsFresh`), and a start past
its judgement has seen that nobody was settled and is alone (`TakenAlone`,
`JudgesLive`).  So of one host the theorem says that there is never a second writer;
of several it says so only while `calm` holds.  Any two starts that overlap end the
calm, and `docs/KNOWN_LIMITATIONS.md:4` says that two hosts that start together are
not excluded; nor are they here.

**TableLease** (`ThreadAssumption`: finitely many commands, and none is a control
thread).  `LeaseInv` counts: `active_leases_` is the number of commands between their
two atomic operations (`ActiveCounts`); one operation at a time is between
BeginExclusive and EndExclusive (`OneInside`); past the drain it is alone with the
table (`TakenAlone`), since the state stays busy and turns later commands back; the
store is home whenever the table is open (`HomeServes`); a pin is counted while the
backup has it (`PinCounts`); and a table that was given up stays fenced (`Fenced`).
`FeedInv` adds the subscriptions, the ring and the timer, with the mutexes they are
under.

**UserRights** (`UserAssumption`: the first user and the grantees are names, and the
right on every table is not a table).  Neither a statement nor the feed thread reads
the generation and the rights in one step; both read the generation first.  So the
invariant says of a cached right not the generation it belongs to but that it was in
force at some generation at or after the one it was cached under (`SessionsOK`,
`WatchesOK`, `FeedOK`), and that the generation is never behind an answered change
(`Generations`).  `FileInv` relates the users in memory to the file and to the change
being written.

**SnapshotGeneration** (`SnapshotAssumption`: a table has a chunk and finitely many,
and nobody is not a process).  A generation is *current* (`Cur`) when it is the even
session of the record or the even counter of the mapped file.  The invariant says
that files are whole while a generation is current (`Whole`); that the counter counts
the guards, a repair being a second guard of its chunk, and is odd while there is one
(`Guarded`); that a writer holds the locks its place in the protocol needs
(`LocksHeld`) and has the mapped file and the record of its own session (`Sessions`);
and of the readers that everything they ever observed is at or below what can be
current (`Bound`), that a copy whose generation is current is what the files hold
(`Kept`), and the same of a collection under way (`Bracket`).  Every step of a writer
is an `Advance`: a generation that was observed is current after it only if it was
before, and then the files did not change.  Hence a generation that was observed and
is current has been current since, also after closes, deaths, recoveries and
abandoned guards.  A reader may hold the mapped file of a session left behind; its
even counter is a generation below the record's and never current (`Mapped`).  A
table that is dropped never comes back under its id, and nothing is claimed of a
read-only process whose store is gone.

**LoginBans** (`BanConstants`, a hypothesis of the theorems: a connection has a source,
the ban is a number of ticks, and the limit per source is not 0, which in the code
turns the table off).  `RecordAuthFailure` reads the time before it takes the mutex, so
a failure may be recorded late.  A connection that was past the ban check may record
one while its source is banned, and sets the end of the ban anew from the time it had
read; that brings the end forward by no more than the time it waited, because no ban
ends later than `now + BanTicks`.  For the same reason an ended ban may begin a new
period by a late failure, which `GuessesBounded` counts.  An entry with an end has
seen the limit's number of failures in its period, and the failures it shows are at
most those, since logins take some back (`Due`).  An entry dropped for another source
is banned only if all were banned at the time that failure had read
(`EvictedNotBanned`).

## 6. Where the code and its documents disagree

One run is a counterexample.  `feed_floor`: a bound stored late makes a later
watermark lower than an earlier one; the reset after an oversized entry then puts the
floor of the ring below a change that it clears (`change_feed.cpp:613`), and a reader
that resumes there is passed over that change without the resync that
`docs/CHANGE_FEED.md:58` promises.  `change_feed` checks the same refinement with the
oversized entry and the resumption in behaviours of their own, where it holds.

The others are kept out of the passing runs, by `exposed`, by a ghost or by a plan,
so that what these runs show is not about them.  They are reproduced with the
definition named here in place of the property of the run.

* FLUSH WAL can succeed while the collection of an empty chunk removes a WAL with
  frames that were never synced (`checkpoint.cpp:177`; `docs/DURABILITY_CONTRACT.md:17`):
  ChunkDurability, relaxed, `AcknowledgedSurvives`.
* A synced write into a WAL that a crashed process created never syncs the directory
  entry (`wal_stream_pool.cpp:326`; `docs/DURABILITY_CONTRACT.md:15`): synced, 2
  crashes, `AcknowledgedSurvives`.
* A COMMIT in a relaxed table with no barrier before it, then a checkpoint that is not
  strict (`checkpoint.cpp:219`; `docs/TRANSACTIONS.md:31`): relaxed,
  `CommittedSurvives`.
* FLUSH WAL after a process crash knows nothing of what the crashed process left
  unsynced (`chunk_store.cpp:582`; `docs/DURABILITY_CONTRACT.md:17`): relaxed, 2
  crashes, `AcknowledgedSurvives`.
* A relaxed conditional write is rolled back without a sync and its intent removed
  with one (`chunk_ops.cpp:160`; `docs/DURABILITY_CONTRACT.md:58`): CommitIntents,
  relaxed, `RejectedNeverReturns`.
* Recovery does not sync the directory of a WAL that is absent with boundary 0
  (`conditional_intent.cpp:277`; `docs/design/PERSISTENCE.md:55`): synced,
  `RejectedNeverReturns`.
* A rollback intent that could not be removed only poisons the store; a write that
  passed its poison check before is acknowledged and cut by the next start
  (`conditional_intent.cpp:397`, against its comment at 383): `AcknowledgedNeverLost`.
* A COMMIT releases its chunks before it poisons the store for a commit form that may
  not be durable (`txn_commit.cpp:761`; `docs/DURABILITY_CONTRACT.md:3`):
  `AcknowledgedNeverLost`.
* A crash between the unlink of a rollback intent and its directory sync lets the
  intent come back after acknowledged writes (`txn_intent.cpp:268`;
  `docs/DURABILITY_CONTRACT.md:3`): 2 crashes, `AcknowledgedNeverLost`.
* After an exact narrowing, a crash between the removal of an empty chunk's image and
  of its WAL leaves frames of the old version; their replay over no image meets a
  value that does not fit, and `ConvertValue` throws (`schema.cpp:1025`, against
  `checkpoint.cpp:153` and `wal_replay.cpp:378`): BlockWrites with `halves` in the
  narrowing plan of `MCStorage`.
* A directory sync that failed, or that a crash left out, is repaired neither by the
  next statement nor by the next start, so a table that was written can be missing
  after a power loss (`table_catalog.cpp:1747`; `docs/DURABILITY_CONTRACT.md:3`):
  Catalog, `WrittenTablesStay` without `ghost.sure`.
* A narrowing whose first record is renamed but not synced fails and leaves its table
  served with the narrowing recorded (`table_catalog.cpp:2092`, against the comment at
  2064): Catalog, `NarrowingEnds`.
* A subscription that fails after line 462 of `table_catalog.cpp` ends the history
  that lingers for the next watch, however young it is (`docs/reference/FEED.md:166`).
* A collection of a read-only process during which its table is dropped and created
  again can be of two stores, since the sessions of the new store start over:
  `ReadersSeeCommitted` excludes it (`Gone`).
* A start that is stalled for longer than `JudgeWithin` between reading the metadata
  and judging it by a clock read afterwards can take over a live writer: ProcessLock
  without `calm`.

## 7. What is not shown

* Liveness (`WaitsEnd`, `ConsumersServed`) is model-checked only: fairness and
  ENABLED are outside of what the prover does.
* That the feed implements `FeedLog` is model-checked only, and no general theorem
  exists: `feed_floor` refutes it.
* The invariants of ChunkDurability, CommitIntents, Catalog, TxnSessions, FeedSlots,
  SlotWatch, FeedPool, WalStreams, ChunkCache, BlockWrites, WorldScan, BackupCut,
  BackupPublish and ServerConnections, and the bound on guesses of LoginBans
  (`GuessesBounded`), are model-checked only.  Some of them are about sums, frames and
  layouts, that is, about recursively defined data, for which the prover has no
  induction.
* `ReadersSeeCommitted` is model-checked only: with one reader, with reads in turn,
  with two at once of a table that is not dropped, and with overlapping guards.  With
  a drop it does not hold for readers at once: they share their copies, and after a
  drop and a creation that repeats a generation one of them can be given the mixed
  copy of another, although nothing was dropped during its own collection.  What holds
  for any number of readers is `StableCopyIsCurrent`, which is proved.
* The version clock wraps after 2^64 tokens; the model has the exhaustion check and
  not the wrap.
* `PROJECT.json` lists the parts that are not modelled: geometry and codecs, the bytes
  on sockets (requests, PROXY headers, TLS), offline tools and logging.  Section 3
  says what is left out inside each module.
