------------------------------ MODULE FeedSlots ------------------------------
(***************************************************************************)
(* Durable feed slots (feed_slots.cpp), the archive of WAL segments that   *)
(* checkpoints leave for them, and the archive reader.                     *)
(*                                                                         *)
(* fs[c] is what a process sees of a chunk's files: the revision of its    *)
(* image (0: none), the frames of its live WAL, the archived segments (a   *)
(* segment is the sequence of its frames) and the linked bases             *)
(* <<first revision of the segment, revision of the linked image>>.        *)
(* out[c] is the set of file states a power loss may leave; a sync         *)
(* makes it a singleton.  `history` holds the commits that still exist.    *)
(***************************************************************************)
EXTENDS Integers, Sequences, SequencesExt, FiniteSets, FiniteSetsExt

CONSTANTS Chunks, Slots,
          GroupCommit,      \* frames that make a write flush its batch
          MaxBytes,         \* slot_max_bytes, counted in archived frames
          MaxRevision, MaxMishaps    \* bounds

VARIABLES clock, pending, batch, history, fs, out, tracked,
          ckpt, publisher, sync, fullySynced,
          records, slotFile, acks, reader, phase, mishaps

files == <<fs, out, tracked>>
slots == <<records, slotFile, acks>>
steps == <<ckpt, publisher, sync, fullySynced, reader>>
world == <<phase, mishaps>>
vars == <<clock, pending, batch, history, files, slots, steps, world>>

Revisions == 0 .. MaxRevision
NoSlot == [written |-> 0, state |-> "none"]
NoSync == [pc |-> "idle", completed |-> 0, todo |-> {}]
NoReader == [pc |-> "off", after |-> 0, through |-> 0, position |-> 0, cursors |-> {}]
Empty == [image |-> 0, wal |-> <<>>, segs |-> {}, bases |-> {}]

-----------------------------------------------------------------------------
(* What the files hold. *)

Held(f, r) == r <= f.image \/ r \in Range(f.wal) \/ \E s \in f.segs : r \in Range(s)
CommitsOf(c) == {h[2] : h \in {x \in history : x[1] = c}}
Newest(S) == IF S = {} THEN 0 ELSE Max(S)
First(s) == s[1]
LinkedBase(f, first) == {b \in f.bases : b[1] = first}

Up == phase = "up"
Live(rec) == {s \in Slots : rec.slot[s].state = "live"}
Active == Live(records) # {}
ArchiveRequired == Active \/ reader.pc # "off"

(* ChangeFeed::CompletedWatermark: below every write still being published. *)
CompletedWatermark == Min({clock - 1} \cup {pending[c] - 1 : c \in {x \in Chunks : pending[x] # 0}})

(* FeedSlots::Persist: the record file is replaced atomically.  A failure    *)
(* after the rename leaves either file and poisons the store.                *)
Persist(next) ==
    \/ /\ records' = next /\ slotFile' = next
       /\ UNCHANGED world
    \/ /\ mishaps < MaxMishaps
       /\ mishaps' = mishaps + 1
       /\ slotFile' \in {slotFile, next}
       /\ phase' = "poisoned"
       /\ UNCHANGED records

-----------------------------------------------------------------------------
(* Writers.  A write reserves its revision and commits it under the chunk    *)
(* lock; FlushWalBatch appends the staged frames in one unsynced write, of   *)
(* which a power loss may keep any prefix.                                   *)

Appended(f, frames) == [f EXCEPT !.wal = @ \o frames]
FlushWalBatch(c, staged) ==
    /\ batch' = [batch EXCEPT ![c] = <<>>]
    /\ fs' = [fs EXCEPT ![c] = Appended(@, staged)]
    /\ out' = [out EXCEPT ![c] = @ \cup {Appended(fs[c], SubSeq(staged, 1, n)) : n \in 1 .. Len(staged)}]
    /\ tracked' = IF staged = <<>> THEN tracked ELSE tracked \cup {c}

Begin(c) ==
    /\ Up /\ ckpt[c] = "idle" /\ pending[c] = 0
    /\ clock <= MaxRevision
    /\ pending' = [pending EXCEPT ![c] = clock]
    /\ clock' = clock + 1
    /\ UNCHANGED <<batch, history, files, slots, steps, world>>

Commit(c) ==
    LET staged == Append(batch[c], pending[c])
    IN /\ Up /\ pending[c] # 0
       /\ pending' = [pending EXCEPT ![c] = 0]
       /\ history' = history \cup {<<c, pending[c]>>}
       /\ IF Len(staged) >= GroupCommit
          THEN FlushWalBatch(c, staged)
          ELSE batch' = [batch EXCEPT ![c] = staged] /\ UNCHANGED files
       /\ UNCHANGED <<clock, slots, steps, world>>

-----------------------------------------------------------------------------
(* A checkpoint, in the steps between which a crash tells: flush what the    *)
(* archive must keep; link the base and sync the WAL (PrepareArchive);       *)
(* publish the image; move the WAL into the archive or remove it; sync.      *)

(* PrepareArchive links the image as the base of the live WAL, unless it     *)
(* already holds the WAL's frames or an earlier attempt linked one.          *)
LinkBase(f) ==
    IF f.image # 0 /\ f.image < First(f.wal) /\ LinkedBase(f, First(f.wal)) = {}
    THEN [f EXCEPT !.bases = @ \cup {<<First(f.wal), f.image>>}]
    ELSE f

Archived(f) == [f EXCEPT !.wal = <<>>, !.segs = @ \cup {f.wal}]
WalRemoved(f) == [f EXCEPT !.wal = <<>>]
Imaged(c, f) == [f EXCEPT !.image = Newest(CommitsOf(c))]

CheckpointChunk(c) ==
    /\ Up /\ ckpt[c] = "idle" /\ pending[c] = 0
    /\ batch[c] # <<>> \/ fs[c].wal # <<>>
    /\ ckpt' = [ckpt EXCEPT ![c] = "flushed"]
    /\ IF ArchiveRequired THEN FlushWalBatch(c, batch[c]) ELSE UNCHANGED <<batch, files>>
    /\ UNCHANGED <<clock, pending, history, slots, publisher, sync, fullySynced, reader, world>>

PrepareArchive(c) ==
    /\ Up /\ ckpt[c] = "flushed" /\ publisher = {}
    /\ publisher' = {c}
    /\ IF ArchiveRequired /\ fs[c].wal # <<>>
       THEN /\ fs' = [fs EXCEPT ![c] = LinkBase(@)]
            /\ out' = [out EXCEPT ![c] = {fs'[c]}]
            /\ ckpt' = [ckpt EXCEPT ![c] = "archive"]
       ELSE /\ ckpt' = [ckpt EXCEPT ![c] = "plain"]
            /\ UNCHANGED <<fs, out>>
    /\ UNCHANGED <<clock, pending, batch, history, tracked, slots, sync, fullySynced, reader, world>>

(* An archiving checkpoint publishes its image synced, any other unsynced    *)
(* (the relaxed mode): its image holds the staged frames too.                *)
PublishImage(c) ==
    /\ Up /\ ckpt[c] \in {"archive", "plain"}
    /\ batch' = [batch EXCEPT ![c] = <<>>]
    /\ fs' = [fs EXCEPT ![c] = Imaged(c, @)]
    /\ out' = [out EXCEPT ![c] = IF ckpt[c] = "archive" THEN {fs'[c]} ELSE @ \cup {fs'[c]}]
    /\ tracked' = tracked \cup {c}
    /\ ckpt' = [ckpt EXCEPT ![c] = IF @ = "archive" THEN "move" ELSE "remove"]
    /\ UNCHANGED <<clock, pending, history, slots, publisher, sync, fullySynced, reader, world>>

(* A rename across directories may leave either name, or both.               *)
MoveWal(c) ==
    /\ Up /\ ckpt[c] = "move"
    /\ fs' = [fs EXCEPT ![c] = Archived(@)]
    /\ out' = [out EXCEPT ![c] = @ \cup {fs'[c], [fs[c] EXCEPT !.segs = @ \cup {fs[c].wal}]}]
    /\ ckpt' = [ckpt EXCEPT ![c] = "sync"]
    /\ UNCHANGED <<clock, pending, batch, history, tracked, slots, publisher, sync, fullySynced, reader, world>>

FinishCheckpoint(c) ==
    /\ Up /\ ckpt[c] \in {"sync", "remove"}
    /\ fs' = [fs EXCEPT ![c] = IF ckpt[c] = "sync" THEN @ ELSE WalRemoved(@)]
    /\ out' = [out EXCEPT ![c] = IF ckpt[c] = "sync" THEN {fs'[c]} ELSE @ \cup {fs'[c]}]
    /\ ckpt' = [ckpt EXCEPT ![c] = "idle"]
    /\ publisher' = {}
    /\ UNCHANGED <<clock, pending, batch, history, tracked, slots, sync, fullySynced, reader, world>>

-----------------------------------------------------------------------------
(* FeedSlots::SyncImpl: sample the completed watermark, flush every batch    *)
(* under its chunk's lock, sync what is tracked (everything on the first     *)
(* pass) while no checkpoint publishes, then persist the frontier.           *)

SyncBegin ==
    /\ Up /\ Active /\ sync.pc = "idle"
    /\ sync' = [pc |-> "flush", completed |-> CompletedWatermark, todo |-> Chunks]
    /\ UNCHANGED <<clock, pending, batch, history, files, slots, ckpt, publisher, fullySynced, reader, world>>

SyncFlush(c) ==
    /\ Up /\ sync.pc = "flush" /\ c \in sync.todo
    /\ pending[c] = 0 /\ ckpt[c] = "idle"
    /\ FlushWalBatch(c, batch[c])
    /\ sync' = [sync EXCEPT !.todo = @ \ {c}]
    /\ UNCHANGED <<clock, pending, history, slots, ckpt, publisher, fullySynced, reader, world>>

(* Mutant: a store's first pass syncs only what this process wrote. *)
TrackedOnly == tracked

(* The files a pass syncs. *)
ToSync == IF fullySynced THEN tracked ELSE Chunks
Synced(g, S) == out' = [c \in Chunks |-> IF c \in S THEN {g[c]} ELSE out[c]]

SyncFiles ==
    /\ Up /\ sync.pc = "flush" /\ sync.todo = {} /\ publisher = {}
    /\ \/ /\ Synced(fs, ToSync)
          /\ tracked' = {} /\ fullySynced' = TRUE
          /\ sync' = [sync EXCEPT !.pc = "persist"]
          /\ publisher' = Chunks
          /\ UNCHANGED world
       \/ /\ mishaps < MaxMishaps
          /\ mishaps' = mishaps + 1 /\ phase' = "poisoned"
          /\ sync' = NoSync
          /\ UNCHANGED <<out, tracked, fullySynced, publisher>>
    /\ UNCHANGED <<clock, pending, batch, history, fs, slots, ckpt, reader>>

SyncPersist ==
    /\ Up /\ sync.pc = "persist"
    /\ publisher' = {} /\ sync' = NoSync
    /\ IF sync.completed > records.durable
       THEN Persist([records EXCEPT !.durable = sync.completed])
       ELSE UNCHANGED <<records, slotFile, world>>
    /\ UNCHANGED <<clock, pending, batch, history, files, acks, ckpt, fullySynced, reader>>

-----------------------------------------------------------------------------
(* FeedSlots::Retain, under the publish lock: slots whose history exceeds    *)
(* the limit are lost; without readers, the segments below every slot go,    *)
(* and so do their bases and those no live WAL may still need.               *)

RetainedBytes(g, written) ==
    MapThenSumSet(LAMBDA c :
        MapThenSumSet(Len, {s \in g[c].segs : Last(s) > written})
        + Cardinality({b \in g[c].bases : g[c].wal # <<>> /\ \A s \in g[c].segs : First(s) # b[1]}), Chunks)

WithLoss(g, rec) ==
    [rec EXCEPT !.slot = [s \in Slots |->
        IF rec.slot[s].state = "live" /\ RetainedBytes(g, rec.slot[s].written) > MaxBytes
        THEN [@[s] EXCEPT !.state = "lost"] ELSE @[s]]]

(* Mutant: retention goes up to the durable frontier. *)
DurableMinimum(rec) == IF Live(rec) = {} THEN MaxRevision + 1 ELSE rec.durable

Minimum(rec) == IF Live(rec) = {} THEN MaxRevision + 1 ELSE Min({rec.slot[s].written : s \in Live(rec)})

Trim(f, least) ==
    LET kept == {s \in f.segs : Last(s) > least}
        gone == {First(s) : s \in f.segs \ kept}
        needed(b) == \/ b[1] > least \/ f.wal # <<>>
                     \/ \E s \in kept : First(s) = b[1]
    IN [f EXCEPT !.segs = kept, !.bases = {b \in @ : b[1] \notin gone /\ needed(b)}]

Trimmed(rec) ==
    IF reader.pc # "off" THEN UNCHANGED <<fs, out>>
    ELSE /\ fs' = [c \in Chunks |-> Trim(fs[c], Minimum(rec))]
         /\ out' = [c \in Chunks |-> {Trim(o, Minimum(rec)) : o \in out[c]}]

PersistAndRetain(changed) ==
    LET next == WithLoss(fs, changed)
    IN /\ publisher = {}
       /\ IF next = records THEN UNCHANGED <<records, slotFile, world>> ELSE Persist(next)
       /\ IF phase' = "poisoned" THEN UNCHANGED <<fs, out, acks>>
          ELSE /\ Trimmed(records')
               /\ acks' = [s \in Slots |-> IF s \in Live(records') THEN acks[s] ELSE 0]

(* The worker retains after a pass, and whoever wrote acknowledgements after *)
(* that: a critical section of its own.                                      *)
Retain ==
    /\ Up /\ PersistAndRetain(records)
    /\ UNCHANGED <<clock, pending, batch, history, tracked, steps>>

-----------------------------------------------------------------------------
(* Slots.  Create, Drop and Advance hold the table exclusively; the last     *)
(* two retain before they let go of it.                                      *)

Quiet ==
    /\ Up /\ sync.pc = "idle" /\ publisher = {}
    /\ \A c \in Chunks : pending[c] = 0 /\ ckpt[c] = "idle"

(* Table::PrepareFeedSlotBaseline checkpoints every chunk that has a WAL or  *)
(* a batch before the first slot, so that every later segment's base is its  *)
(* exact predecessor; with slots the batches are only flushed.               *)
Baseline(c) ==
    LET f == Appended(fs[c], batch[c])
    IN IF Active \/ f.wal = <<>> THEN f
       ELSE IF ArchiveRequired THEN Archived(Imaged(c, LinkBase(f)))
       ELSE WalRemoved(Imaged(c, f))

CreateFeedSlot(s) ==
    /\ Quiet /\ records.slot[s].state = "none"
    /\ fs' = [c \in Chunks |-> Baseline(c)]
    /\ batch' = [c \in Chunks |-> <<>>]
    /\ Synced(fs', ToSync \cup {c \in Chunks : fs'[c] # fs[c]})
    /\ tracked' = {} /\ fullySynced' = TRUE
    /\ Persist([records EXCEPT !.durable = clock - 1,
                               !.slot[s] = [written |-> clock - 1, state |-> "live"]])
    /\ UNCHANGED <<clock, pending, history, acks, ckpt, publisher, sync, reader>>

Drop(s) ==
    /\ Quiet /\ records.slot[s].state # "none"
    /\ PersistAndRetain([records EXCEPT !.slot[s] = NoSlot])
    /\ UNCHANGED <<clock, pending, batch, history, tracked, steps>>

Advance(s, r) ==
    /\ Quiet /\ s \in Live(records)
    /\ records.slot[s].written < r /\ r <= records.durable
    /\ PersistAndRetain([records EXCEPT !.slot[s].written = r])
    /\ UNCHANGED <<clock, pending, batch, history, tracked, steps>>

StageAck(s, r) ==
    /\ Up /\ s \in Live(records)
    /\ r > records.slot[s].written /\ r > acks[s]
    /\ acks' = [acks EXCEPT ![s] = r]
    /\ UNCHANGED <<clock, pending, batch, history, files, records, slotFile, steps, world>>

(* Only acknowledgements at or below the durable frontier are written.       *)
Due(s) == s \in Live(records) /\ acks[s] > records.slot[s].written /\ acks[s] <= records.durable
FlushAcks ==
    /\ Up /\ \E s \in Slots : Due(s)
    /\ Persist([records EXCEPT !.slot = [s \in Slots |-> IF Due(s) THEN [@[s] EXCEPT !.written = acks[s]] ELSE @[s]]])
    /\ acks' = IF phase' = "poisoned" THEN acks
               ELSE [s \in Slots |-> IF s \in Live(records') /\ acks[s] > records'.slot[s].written THEN acks[s] ELSE 0]
    /\ UNCHANGED <<clock, pending, batch, history, files, steps>>

-----------------------------------------------------------------------------
(* ReaderCompletedPrefix and FeedArchiveReader.  The pin and the frontier    *)
(* are taken together; the live prefixes are captured afterwards, the        *)
(* archive listed after that and the files opened one by one as they are     *)
(* needed, a live WAL under the name its segment has by then.  A cursor is   *)
(* <<chunk, first revision>>.                                                *)

OpenReader(s) ==
    /\ Up /\ publisher = {} /\ reader.pc = "off" /\ s \in Live(records)
    /\ \E after \in Minimum(records) .. records.durable :
          reader' = [NoReader EXCEPT !.pc = "pinned", !.after = after, !.position = after, !.through = records.durable]
    /\ UNCHANGED <<clock, pending, batch, history, files, slots, ckpt, publisher, sync, fullySynced, world>>

Capture ==
    /\ Up /\ reader.pc = "pinned" /\ publisher = {}
    /\ reader' = [reader EXCEPT !.pc = "captured",
          !.cursors = {<<c, First(fs[c].wal)>> : c \in {x \in Chunks : fs[x].wal # <<>> /\ First(fs[x].wal) <= reader.through}}]
    /\ UNCHANGED <<clock, pending, batch, history, files, slots, ckpt, publisher, sync, fullySynced, world>>

ListArchive ==
    /\ Up /\ reader.pc = "captured"
    /\ reader' = [reader EXCEPT !.pc = "reading",
          !.cursors = @ \cup UNION {{<<c, First(s)>> : s \in {x \in fs[c].segs : Last(x) > reader.after /\ First(x) <= reader.through}} : c \in Chunks}]
    /\ UNCHANGED <<clock, pending, batch, history, files, slots, ckpt, publisher, sync, fullySynced, world>>

(* The frames behind a cursor: the archived segment of that name, or the     *)
(* live WAL while it still begins with that revision.                        *)
FramesAt(c, first) ==
    LET f == fs[c]
        named == {s \in f.segs : First(s) = first}
    IN UNION {Range(s) : s \in named} \cup (IF named = {} /\ f.wal # <<>> /\ First(f.wal) = first THEN Range(f.wal) ELSE {})

Readable == {r \in UNION {FramesAt(k[1], k[2]) : k \in reader.cursors} : reader.position < r /\ r <= reader.through}

ReadNext ==
    /\ Up /\ reader.pc = "reading"
    /\ reader' = IF Readable = {} THEN NoReader ELSE [reader EXCEPT !.position = Min(Readable)]
    /\ UNCHANGED <<clock, pending, batch, history, files, slots, ckpt, publisher, sync, fullySynced, world>>

-----------------------------------------------------------------------------
(* A crash of the process keeps the files, a power loss one of their         *)
(* outcomes; the constructor reads the records, drops live names a power     *)
(* loss left beside their archived ones, and retains.                        *)

MayCrash == phase = "poisoned" \/ (phase = "up" /\ mishaps < MaxMishaps)
Crash(g) ==
    /\ mishaps' = IF phase = "poisoned" THEN mishaps ELSE mishaps + 1    \* counted already
    /\ fs' = g
    /\ history' = {h \in history : Held(g[h[1]], h[2])}
    /\ phase' = "down"
    /\ pending' = [c \in Chunks |-> 0] /\ batch' = [c \in Chunks |-> <<>>]
    /\ ckpt' = [c \in Chunks |-> "idle"] /\ publisher' = {}
    /\ sync' = NoSync /\ fullySynced' = FALSE /\ tracked' = {}
    /\ reader' = NoReader /\ acks' = [s \in Slots |-> 0]
    /\ records' = slotFile
    /\ UNCHANGED <<clock, slotFile>>

ProcessCrash == MayCrash /\ Crash(fs) /\ UNCHANGED out

PowerLoss ==
    /\ MayCrash
    /\ \E g \in [Chunks -> UNION {out[c] : c \in Chunks}] :
         /\ \A c \in Chunks : g[c] \in out[c]
         /\ Crash(g)
         /\ out' = [c \in Chunks |-> {g[c]}]

IsAlias(f) == f.wal # <<>> /\ f.wal \in f.segs
Overlaps(f) == f.wal # <<>> /\ ~IsAlias(f) /\ \E s \in f.segs : First(f.wal) <= Last(s)
RecoverAlias(f) == IF IsAlias(f) THEN WalRemoved(f) ELSE f

Open ==
    /\ phase = "down"
    /\ LET g == [c \in Chunks |-> RecoverAlias(fs[c])]
           next == WithLoss(g, records)
       IN /\ phase' = IF \E c \in Chunks : Overlaps(fs[c]) THEN "refused" ELSE "up"
          /\ records' = next /\ slotFile' = next
          /\ fs' = [c \in Chunks |-> Trim(g[c], Minimum(next))]
          /\ out' = [c \in Chunks |-> {Trim(RecoverAlias(o), Minimum(next)) : o \in out[c]}]
    /\ UNCHANGED <<clock, pending, batch, history, tracked, acks, steps, mishaps>>

-----------------------------------------------------------------------------
Init ==
    /\ clock = 1 /\ pending = [c \in Chunks |-> 0] /\ batch = [c \in Chunks |-> <<>>]
    /\ history = {} /\ fs = [c \in Chunks |-> Empty] /\ out = [c \in Chunks |-> {Empty}] /\ tracked = {}
    /\ ckpt = [c \in Chunks |-> "idle"] /\ publisher = {} /\ sync = NoSync /\ fullySynced = FALSE
    /\ records = [durable |-> 0, slot |-> [s \in Slots |-> NoSlot]] /\ slotFile = records
    /\ acks = [s \in Slots |-> 0] /\ reader = NoReader
    /\ phase = "up" /\ mishaps = 0

Next ==
    \/ \E c \in Chunks : \/ Begin(c) \/ Commit(c) \/ CheckpointChunk(c) \/ PrepareArchive(c)
                         \/ PublishImage(c) \/ MoveWal(c) \/ FinishCheckpoint(c) \/ SyncFlush(c)
    \/ SyncBegin \/ SyncFiles \/ SyncPersist
    \/ \E s \in Slots : \/ CreateFeedSlot(s) \/ Drop(s) \/ OpenReader(s)
                        \/ \E r \in 1 .. clock - 1 : Advance(s, r) \/ StageAck(s, r)
    \/ FlushAcks \/ Retain
    \/ Capture \/ ListArchive \/ ReadNext
    \/ ProcessCrash \/ PowerLoss \/ Open

Spec == Init /\ [][Next]_vars

-----------------------------------------------------------------------------
TypeOK ==
    /\ clock \in 1 .. MaxRevision + 1 /\ pending \in [Chunks -> Revisions]
    /\ history \subseteq Chunks \X Revisions
    /\ records \in [durable : Revisions, slot : [Slots -> [written : Revisions, state : {"none", "live", "lost"}]]]
    /\ slotFile \in [durable : Revisions, slot : [Slots -> [written : Revisions, state : {"none", "live", "lost"}]]]
    /\ acks \in [Slots -> Revisions]
    /\ phase \in {"up", "poisoned", "down", "refused"}
    /\ \A c \in Chunks : ckpt[c] \in {"idle", "flushed", "archive", "plain", "move", "remove", "sync"}

(* Every outcome of a power loss holds every commit at or below the durable  *)
(* frontier the records promise: a consumer is never told of a change that   *)
(* a restart takes back (FeedSlots::SyncImpl).                               *)
FrontierIsDurable ==
    phase \in {"up", "poisoned"} => \A c \in Chunks : \A r \in CommitsOf(c) :
        r <= slotFile.durable => \A o \in out[c] : Held(o, r)

(* Every commit between a slot's position and the frontier is still in a     *)
(* frame that can be read, in the archive or the live WAL, whatever          *)
(* checkpoints, retention, crashes and power losses did (FeedSlots::Retain,  *)
(* PrepareArchive).                                                          *)
HistoryRetained ==
    \A s \in Live(slotFile), c \in Chunks : \A r \in CommitsOf(c) :
        slotFile.slot[s].written < r /\ r <= slotFile.durable =>
            \A o \in out[c] : r \in Range(o.wal) \/ \E g \in o.segs : r \in Range(g)

(* The state a reader starts a segment from, its linked base or else the     *)
(* older current image or else nothing, is the chunk just before the         *)
(* segment's first frame: FeedArchiveReader's LoadBase gives exact `before'  *)
(* rows, also when a crashed checkpoint is retried.                          *)
LoadBase(f, first) ==
    IF LinkedBase(f, first) # {} THEN (CHOOSE b \in LinkedBase(f, first) : TRUE)[2]
    ELSE IF f.image < first THEN f.image ELSE 0
BasesExact ==
    Active /\ Up => \A c \in Chunks : \A s \in fs[c].segs \cup ({fs[c].wal} \ {<<>>}) :
        Last(s) > Minimum(records) => LoadBase(fs[c], First(s)) = Newest({r \in CommitsOf(c) : r < First(s)})

(* A reader's cursors yield exactly the commits between its position and     *)
(* the frontier it captured, although checkpoints move the live WALs it      *)
(* holds and retention runs (FeedSlots::ReaderCompletedPrefix).              *)
ReaderExact ==
    reader.pc = "reading" =>
        Readable = {r \in {h[2] : h \in history} : reader.position < r /\ r <= reader.through}

(* No crash leaves a live WAL that overlaps an archived segment without      *)
(* being its second name: RecoverAliases never refuses the table.            *)
AlwaysOpens == phase # "refused"
=============================================================================
