-------------------------- MODULE ChunkDurability --------------------------
(***************************************************************************)
(* The write path of one table, from an acknowledged block write to what a *)
(* power loss leaves on the disk: the in-memory chunk and its WAL batch,    *)
(* the batch flush and its repair (wal_writer.cpp), the checkpoint that     *)
(* replaces the WAL by an image or collects an empty chunk                  *)
(* (checkpoint.cpp), the rollback boundary, eviction, and the WAL barrier   *)
(* behind FLUSH WAL with its set of unsynced artifacts (barrier.cpp).       *)
(*                                                                          *)
(* The chunk mutex serialises the operations on one chunk: op[c] is the     *)
(* operation that holds it and the step it is at.  Operations on different  *)
(* chunks, and the barrier, interleave at every step.                       *)
(***************************************************************************)
EXTENDS Integers, Sequences, FiniteSets, SequencesExt, TLC

CONSTANT Settings   \* the stores, by configuration and bounds, one per behaviour

Operations == {"checkpoint", "txn", "evict", "barrier"}

ASSUME SettingsAssumption ==
  \A s \in Settings :
    /\ s.relaxed \in BOOLEAN /\ s.group \in Nat \ {0} /\ s.limit \in Nat
    /\ s.ops \subseteq Operations /\ {s.revs, s.faults, s.crashes} \subseteq Nat

VARIABLES
  setting,    \* the configuration of the store
  chunk,      \* the loaded RegularChunk of each coordinate
  op,         \* the operation holding each chunk's mutex
  disk,       \* the files of each chunk, and what a power loss may leave of them
  unsynced,   \* unsynced_files_, unsynced_dirs_, swept_dirs_, overflow_
  forgotten,  \* the artifacts each rollback boundary has in flight
  floor,      \* barrier_durability_floor_
  poisoned,   \* durability_poisoned_
  publisher,  \* the chunks whose checkpoint holds checkpoint_publish_mutex_
  barrier,    \* the running WalBarrier
  clock,      \* the last revision issued
  acked,      \* history: the last acknowledged revision of each chunk
  must,       \* history: the revision of each chunk promised to survive power
              \* loss: by a synced reply or a barrier (ack), by a COMMIT (txn)
  hist,       \* history: the states each chunk may have been left in
  rejected,   \* history: the revisions whose write was answered with an error
  exposed,    \* history: chunks with files a crashed process, a collection or a
              \* failed checkpoint left unsynced where no barrier syncs them
  faults, crashes

Chunks == setting.chunks         \* their files share a directory
Blocks == setting.blocks         \* the blocks of a chunk
Relaxed == setting.relaxed       \* durability_mode_ == kRelaxed (else a synced mode)
GroupCommit == setting.group     \* wal_group_commit_updates_
UnsyncedLimit == setting.limit   \* unsynced_limit_
Ops == setting.ops               \* bound: the operations started beside writes
MaxRev == setting.revs           \* bound: revisions issued
MaxFaults == setting.faults      \* bound: system calls that fail
MaxCrashes == setting.crashes    \* bound: process crashes and power losses

vars == <<setting, chunk, op, disk, unsynced, forgotten, floor, poisoned, publisher,
          barrier, clock, acked, must, hist, rejected, exposed,
          faults, crashes>>

memory == <<chunk, op>>
tracking == <<unsynced, forgotten>>
history == <<acked, must, hist, rejected, exposed>>

-----------------------------------------------------------------------------
(* Contents.  A chunk state maps each block to the revision that wrote it, or
   to 0 when the block is unset.  A frame carries the blocks it changes. *)

Empty == [b \in Blocks |-> 0]
ChunkPresent(st) == st # Empty
Apply(st, put) == [b \in Blocks |-> IF b \in DOMAIN put THEN put[b] ELSE st[b]]

NoImage == [present |-> FALSE, rev |-> 0, st |-> Empty]
TornImage == [present |-> TRUE, rev |-> -1, st |-> Empty]   \* ParseChunkImage refuses it
NoWal == [present |-> FALSE, frames |-> <<>>]

\* LoadChunkPayload and ReplayWal: the frames newer than the image, in order.
Replay(img, wal) ==
  FoldLeft(LAMBDA s, f : IF f.rev <= img.rev THEN s
                         ELSE [rev |-> f.rev, st |-> Apply(s.st, f.put)],
           [rev |-> img.rev, st |-> img.st], wal.frames)

\* A frame whose revision does not follow its predecessor's is damage.
FramesOrdered(frames) ==
  \A i \in 2..Len(frames) : frames[i - 1].rev < frames[i].rev

-----------------------------------------------------------------------------
(* Files.  img and wal are what the running system sees.  imgOut and walOut
   are the contents a power loss may leave in the file now under the name;
   imgDir and walDir those under the directory entries not yet superseded
   durably.  Syncing a file or the directory empties the matching choice. *)

NewDisk == [img |-> NoImage, imgOut |-> {NoImage}, imgDir |-> {},
            wal |-> NoWal, walOut |-> {NoWal}, walDir |-> {}]

ImageOutcomes(d) == d.imgOut \cup d.imgDir
WalOutcomes(d) == d.walOut \cup d.walDir
\* The chunk states a power loss may leave, once replayed.
Survivors(d) == {Replay(i, w) : i \in ImageOutcomes(d), w \in WalOutcomes(d)}
Settled(d) == ImageOutcomes(d) = {d.img} /\ WalOutcomes(d) = {d.wal}

SyncImage(d) == [d EXCEPT !.imgOut = {d.img}]
SyncWal(d) == [d EXCEPT !.walOut = {d.wal}]
SyncDir(ds) == [c \in Chunks |-> [ds[c] EXCEPT !.imgDir = {}, !.walDir = {}]]

\* AtomicWrite: a temporary file, synced when the write is strict, renamed.
ReplaceImage(d, img, strict) ==
  [d EXCEPT !.img = img,
            !.imgOut = IF strict THEN {img} ELSE {img, TornImage},
            !.imgDir = @ \cup d.imgOut]
RemoveImage(d) ==
  [d EXCEPT !.img = NoImage, !.imgOut = {NoImage}, !.imgDir = @ \cup d.imgOut]
RemoveWal(d) ==
  [d EXCEPT !.wal = NoWal, !.walOut = {NoWal}, !.walDir = @ \cup d.walOut]

\* A power loss may leave any whole-frame prefix of an unsynced append; a torn
\* frame behind it is trimmed by the load (TrimWalForAppend).
AppendWal(d, frames) ==
  LET grown(k) == [present |-> TRUE, frames |-> d.wal.frames \o SubSeq(frames, 1, k)]
      left == {grown(k) : k \in 0..Len(frames)}
  IN  IF d.wal.present
      THEN [d EXCEPT !.wal = grown(Len(frames)), !.walOut = @ \cup left]
      ELSE [d EXCEPT !.wal = grown(Len(frames)), !.walOut = left,
                     !.walDir = @ \cup d.walOut]

\* TruncateWalTail: back to the WAL before the flush, or no WAL at all.
CutWal(d, pre) ==
  IF pre.present THEN [d EXCEPT !.wal = pre, !.walOut = @ \cup {pre}]
  ELSE RemoveWal(d)

-----------------------------------------------------------------------------
(* The unsynced artifacts a barrier has to sync: files, the directory, the
   directory swept in place of its files, or everything. *)

Files == {"image", "wal"} \X Chunks
NoUnsynced == [files |-> {}, dir |-> FALSE, swept |-> FALSE, overflow |-> FALSE]
AllUnsynced == [NoUnsynced EXCEPT !.overflow = TRUE]

TrackedCount(u) ==
  Cardinality(u.files) + (IF u.dir THEN 1 ELSE 0) + (IF u.swept THEN 1 ELSE 0)

LimitUnsynced(u) ==
  LET sweep == IF u.files = {} THEN u ELSE [NoUnsynced EXCEPT !.swept = TRUE]
  IN  IF TrackedCount(u) <= UnsyncedLimit THEN u
      ELSE IF TrackedCount(sweep) <= UnsyncedLimit THEN sweep ELSE AllUnsynced

NoteUnsyncedFile(u, f) ==
  IF u.overflow \/ u.swept THEN u ELSE LimitUnsynced([u EXCEPT !.files = @ \cup {f}])
NoteUnsyncedDir(u) ==
  IF u.overflow \/ u.swept THEN u ELSE LimitUnsynced([u EXCEPT !.dir = TRUE])

DropFailedDrain(u, a) == u
InsertUnsynced(u, a) ==
  LET swept == u.swept \/ a.swept
  IN  IF u.overflow \/ a.overflow THEN AllUnsynced
      ELSE LimitUnsynced([u EXCEPT !.swept = swept,
                                   !.files = IF swept THEN @ ELSE @ \cup a.files,
                                   !.dir = ~swept /\ (@ \/ a.dir)])

\* The artifacts a drain moves out, and the ones boundaries have in flight.
TakeUnsynced ==
  [unsynced EXCEPT !.files = @ \cup UNION {forgotten[c].files : c \in Chunks},
                   !.dir = @ \/ \E c \in Chunks : forgotten[c].dir]

\* SyncUnsynced: which files a drained set makes the barrier sync, and whether
\* it syncs the directory.
FilesToSync(drained) ==
  IF drained.overflow \/ drained.swept THEN Files ELSE drained.files
DirToSync(drained) == drained.overflow \/ drained.swept \/ drained.dir

SyncFile(f) ==
  [disk EXCEPT ![f[2]] = IF f[1] = "image" THEN SyncImage(@) ELSE SyncWal(@)]

-----------------------------------------------------------------------------
(* Operations.  op[c] is Idle while no operation holds the chunk's mutex. *)

Idle == [kind |-> "none", step |-> "idle", force |-> FALSE, strict |-> FALSE,
         first |-> FALSE, rev |-> 0, pre |-> NoWal, saved |-> Empty]
CheckpointOp == [Idle EXCEPT !.kind = "checkpoint", !.step = "begin"]
FlushOp(kind, force) == [Idle EXCEPT !.kind = kind, !.step = "append", !.force = force]

NoBarrier == [step |-> "idle", left |-> {}, drained |-> NoUnsynced,
              todo |-> {}, cover |-> [c \in Chunks |-> 0]]

Loaded(d) ==
  LET s == Replay(d.img, d.wal)
  IN  [rev |-> s.rev, st |-> s.st, batch |-> <<>>, boundaryDurable |-> FALSE,
       repairFailed |-> FALSE]

Init ==
  /\ setting \in Settings
  /\ chunk = [c \in Chunks |-> Loaded(NewDisk)]
  /\ op = [c \in Chunks |-> Idle]
  /\ disk = [c \in Chunks |-> NewDisk]
  /\ unsynced = NoUnsynced
  /\ forgotten = [c \in Chunks |-> NoUnsynced]
  /\ floor = FALSE
  /\ poisoned = FALSE
  /\ publisher = {}
  /\ barrier = NoBarrier
  /\ clock = 0
  /\ acked = [c \in Chunks |-> 0]
  /\ must = [c \in Chunks |-> [ack |-> 0, txn |-> 0]]
  /\ hist = [c \in Chunks |-> {[rev |-> 0, st |-> Empty]}]
  /\ rejected = {}
  /\ exposed = {}
  /\ faults = 0
  /\ crashes = 0

Fault == faults < MaxFaults /\ faults' = faults + 1
NoFault == UNCHANGED faults
Release(c) == op' = [op EXCEPT ![c] = Idle]
Step(c, s) == op' = [op EXCEPT ![c].step = s]

\* FinishOrdinaryMutationLocked past its commit point: the write is
\* acknowledged, in a synced mode as durable, and its checkpoint may be due.
Commit(c, ch, rev, txn) ==
  /\ chunk' = [chunk EXCEPT ![c] = [ch EXCEPT !.rev = rev]]
  /\ acked' = [acked EXCEPT ![c] = rev]
  /\ must' = [must EXCEPT ![c].ack = IF ~Relaxed \/ (txn /\ floor) THEN rev ELSE @,
                          ![c].txn = IF txn THEN rev ELSE @]
  /\ \E due \in {FALSE, "checkpoint" \in Ops} :
       op' = [op EXCEPT ![c] = IF due THEN CheckpointOp ELSE Idle]

\* SetBlock and UnsetBlock: a new revision, the block changed in memory, its
\* frame staged in the batch, and the batch flushed when the mode or the group
\* commit asks for it.  The poison check comes before the chunk's mutex, so a
\* write that passed it earlier may still run; a chunk whose WAL could not be
\* repaired refuses.
SetBlock(c, b, set) ==
  LET rev == clock + 1
      val == IF set THEN rev ELSE 0
      ch == [chunk[c] EXCEPT !.st[b] = val,
                             !.batch = Append(@, [rev |-> rev, put |-> b :> val])]
  IN  /\ op[c] = Idle
      /\ ~chunk[c].repairFailed
      /\ clock < MaxRev
      /\ chunk[c].st[b] # val
      /\ clock' = rev
      /\ hist' = [hist EXCEPT ![c] = @ \cup {[rev |-> rev, st |-> ch.st]}]
      /\ IF ~Relaxed \/ Len(ch.batch) >= GroupCommit
         THEN /\ chunk' = [chunk EXCEPT ![c] = ch]
              /\ op' = [op EXCEPT ![c] = [FlushOp("write", ~Relaxed) EXCEPT
                                            !.rev = rev, !.saved = chunk[c].st]]
              /\ UNCHANGED <<acked, must>>
         ELSE Commit(c, ch, rev, FALSE)
      /\ UNCHANGED <<disk, tracking, floor, poisoned, publisher, barrier,
                     rejected, exposed, faults, crashes, setting>>

-----------------------------------------------------------------------------
(* FlushWalBatch *)

\* What follows a successful flush, in the operation that asked for it.
AfterFlush(c, ch) ==
  \/ /\ op[c].kind = "write"
     /\ Commit(c, ch, op[c].rev, FALSE)
     /\ UNCHANGED barrier
  \/ /\ op[c].kind \in {"checkpoint", "txn", "evict"}
     /\ chunk' = [chunk EXCEPT ![c] = ch]
     /\ Step(c, CASE op[c].kind = "checkpoint" -> "publish"
                  [] op[c].kind = "txn" -> "forget"
                  [] op[c].kind = "evict" -> "unload")
     /\ UNCHANGED <<barrier, acked, must>>
  \/ /\ op[c].kind = "barrier"
     /\ chunk' = [chunk EXCEPT ![c] = ch]
     /\ Release(c)
     /\ barrier' = [barrier EXCEPT !.left = @ \ {c}]
     /\ UNCHANGED <<acked, must>>

KeepRejectedFrame(c, ch) == [ch EXCEPT !.st = op[c].saved]
\* A rejected write leaves neither its block nor its frame.
RolledBack(c, ch) == [ch EXCEPT !.st = op[c].saved, !.batch = Front(@)]

\* The caller's side of a failed flush: a write rolls its block and its frame
\* back, a barrier gives up; every other frame of the batch is kept.  An
\* unknown outcome is not a rejection.
AfterFailedFlush(c, ch, unknown) ==
  LET rev == op[c].rev
      write == op[c].kind = "write"
  IN  /\ chunk' = [chunk EXCEPT ![c] = IF write THEN RolledBack(c, ch) ELSE ch]
      /\ rejected' = IF write /\ ~unknown THEN rejected \cup {rev} ELSE rejected
      /\ hist' = IF write /\ ~unknown
                 THEN [hist EXCEPT ![c] = {s \in @ : s.rev # rev}] ELSE hist
      /\ barrier' = IF op[c].kind = "barrier" THEN NoBarrier ELSE barrier
      /\ Release(c)
      /\ UNCHANGED <<acked, must, exposed>>

FlushNothing(c) ==
  /\ op[c].step = "append"
  /\ chunk[c].batch = <<>>
  /\ AfterFlush(c, chunk[c])
  /\ UNCHANGED <<disk, tracking, floor, poisoned, publisher, clock, hist,
                 rejected, exposed, faults, crashes, setting>>

\* The stream opens and takes the batch; a write that fails leaves the file
\* untouched or with a part of the batch, its last frame never whole.  A repair
\* that failed left its snapshot generation failed, and the guard the flush
\* opens first then refuses, which is all that stops a barrier under way.
AppendBatch(c) ==
  LET batch == chunk[c].batch
      o == [op[c] EXCEPT !.first = ~disk[c].wal.present, !.pre = disk[c].wal]
      callers == <<chunk, barrier, acked, must, hist, rejected, exposed>>
  IN  /\ op[c].step = "append"
      /\ batch # <<>>
      /\ \/ /\ poisoned
            /\ NoFault
            /\ AfterFailedFlush(c, chunk[c], FALSE)
            /\ UNCHANGED disk
         \/ /\ ~chunk[c].repairFailed
            /\ NoFault
            /\ disk' = [disk EXCEPT ![c] = AppendWal(@, batch)]
            /\ op' = [op EXCEPT ![c] = [o EXCEPT !.step = "sync"]]
            /\ UNCHANGED callers
         \/ /\ ~chunk[c].repairFailed
            /\ Fault
            /\ \E part \in Prefixes(Front(batch)) :
                 disk' = [disk EXCEPT ![c] = AppendWal(@, part)]
            /\ op' = [op EXCEPT ![c] = [o EXCEPT !.step = "repair"]]
            /\ UNCHANGED callers
         \/ /\ ~chunk[c].repairFailed
            /\ Fault
            /\ AfterFailedFlush(c, chunk[c], FALSE)
            /\ UNCHANGED disk
      /\ UNCHANGED <<tracking, floor, poisoned, publisher, clock, crashes, setting>>

\* The appended bytes are synced, or noted for the next barrier.  A new WAL's
\* entry needs its directory as well.
KeepBatch(c) == [chunk[c] EXCEPT !.boundaryDurable = @ /\ op[c].force /\ ~op[c].first]
FlushedChunk(c) ==
  [chunk[c] EXCEPT !.batch = <<>>,
                   !.boundaryDurable = @ /\ op[c].force /\ ~op[c].first]

SyncBatch(c) ==
  /\ op[c].step = "sync"
  /\ \/ /\ op[c].force
        /\ NoFault
        /\ disk' = [disk EXCEPT ![c] = SyncWal(@)]
        /\ \/ /\ op[c].first
              /\ Step(c, "syncdir")
              /\ UNCHANGED <<chunk, barrier, acked, must>>
           \/ /\ ~op[c].first
              /\ AfterFlush(c, FlushedChunk(c))
        /\ UNCHANGED unsynced
     \/ /\ ~op[c].force
        /\ NoFault
        /\ LET u == NoteUnsyncedFile(unsynced, <<"wal", c>>)
           IN  unsynced' = IF op[c].first THEN NoteUnsyncedDir(u) ELSE u
        /\ AfterFlush(c, FlushedChunk(c))
        /\ UNCHANGED disk
     \/ /\ op[c].force
        /\ Fault
        /\ Step(c, "repair")
        /\ UNCHANGED <<chunk, barrier, acked, must, disk, unsynced>>
  /\ UNCHANGED <<forgotten, floor, poisoned, publisher, clock, hist, rejected,
                 exposed, crashes, setting>>

SyncBatchDir(c) ==
  /\ op[c].step = "syncdir"
  /\ \/ /\ NoFault
        /\ disk' = SyncDir(disk)
        /\ AfterFlush(c, FlushedChunk(c))
     \/ /\ Fault
        /\ Step(c, "repair")
        /\ UNCHANGED <<chunk, barrier, acked, must, disk>>
  /\ UNCHANGED <<tracking, floor, poisoned, publisher, clock, hist, rejected,
                 exposed, crashes, setting>>

\* TruncateWalTail after a failed append.  A cut that fails, or whose sync
\* fails, leaves the store fail-closed with the outcome unknown.
TruncateWalTail(c) ==
  LET ch == [chunk[c] EXCEPT !.boundaryDurable = FALSE]
      pre == op[c].pre
      cut == [disk EXCEPT ![c] = CutWal(@, pre)]
      noted == IF pre.present THEN NoteUnsyncedFile(unsynced, <<"wal", c>>)
               ELSE NoteUnsyncedDir(unsynced)
  IN  /\ op[c].step = "repair"
      /\ \/ /\ NoFault
            /\ disk' = IF ~op[c].force THEN cut
                       ELSE IF pre.present THEN [cut EXCEPT ![c] = SyncWal(@)]
                       ELSE SyncDir(cut)
            /\ unsynced' = IF op[c].force THEN unsynced ELSE noted
            /\ AfterFailedFlush(c, ch, FALSE)
            /\ UNCHANGED poisoned
         \/ /\ Fault
            /\ disk' \in {disk} \cup (IF op[c].force THEN {cut} ELSE {})
            /\ poisoned' = TRUE
            /\ AfterFailedFlush(c, [ch EXCEPT !.repairFailed = TRUE], TRUE)
            /\ UNCHANGED unsynced
      /\ UNCHANGED <<forgotten, floor, publisher, clock, crashes, setting>>

-----------------------------------------------------------------------------
(* CheckpointChunk *)

\* RunBackgroundCheckpoint takes the chunk's mutex; a write whose checkpoint
\* is due inline keeps it (Commit).
StartCheckpoint(c) ==
  /\ "checkpoint" \in Ops
  /\ op[c] = Idle
  /\ op' = [op EXCEPT ![c] = CheckpointOp]
  /\ UNCHANGED <<chunk, disk, tracking, floor, poisoned, publisher, barrier,
                 clock, history, faults, crashes, setting>>

\* An empty chunk with an image first logs its whole empty state, so that the
\* WAL ends empty over any image it may be replayed over.
BeginCheckpoint(c) ==
  LET gc == [rev |-> clock + 1, put |-> Empty]
      collect == ~ChunkPresent(chunk[c].st) /\ disk[c].img.present
      ch == [chunk[c] EXCEPT !.boundaryDurable = FALSE,
                             !.batch = IF collect THEN Append(@, gc) ELSE @]
  IN  /\ op[c].step = "begin"
      /\ \/ /\ poisoned
            /\ Release(c)
            /\ UNCHANGED <<chunk, clock, hist>>
         \/ /\ ~poisoned
            /\ chunk' = [chunk EXCEPT ![c] = ch]
            /\ clock' = IF collect THEN gc.rev ELSE clock
            /\ hist' = IF collect
                       THEN [hist EXCEPT ![c] = @ \cup {[rev |-> gc.rev, st |-> Empty]}]
                       ELSE hist
            /\ IF ChunkPresent(chunk[c].st) THEN Step(c, "publish")
               ELSE op' = [op EXCEPT ![c] = FlushOp("checkpoint", ~Relaxed \/ floor)]
      /\ UNCHANGED <<disk, tracking, floor, poisoned, publisher, barrier, acked,
                     must, rejected, exposed, faults, crashes, setting>>

UnlockPublish == publisher' = {}

CheckpointFails(c) ==
  /\ Fault
  /\ Release(c)
  /\ UnlockPublish
  /\ UNCHANGED <<chunk, disk, unsynced>>

\* Under checkpoint_publish_mutex_ the image is replaced, or removed for an
\* empty chunk; the floor decides there whether the step is strict.
PublishImage(c) ==
  LET strict == ~Relaxed \/ floor
      image == [present |-> TRUE, rev |-> chunk[c].rev, st |-> chunk[c].st]
  IN  /\ op[c].step = "publish"
      /\ publisher = {}
      /\ \/ /\ NoFault
            /\ publisher' = {c}
            /\ disk' = [disk EXCEPT ![c] = IF ChunkPresent(chunk[c].st)
                                           THEN ReplaceImage(@, image, strict)
                                           ELSE RemoveImage(@)]
            /\ op' = [op EXCEPT ![c].step = "imagesync", ![c].strict = strict]
            /\ UNCHANGED <<chunk, unsynced>>
         \/ CheckpointFails(c)
      /\ UNCHANGED <<forgotten, floor, poisoned, barrier, clock, history, crashes, setting>>

SyncPublishedImage(c) ==
  /\ op[c].step = "imagesync"
  /\ \/ /\ NoFault
        /\ IF op[c].strict THEN disk' = SyncDir(disk) /\ UNCHANGED unsynced
           ELSE /\ unsynced' = IF ChunkPresent(chunk[c].st)
                               THEN NoteUnsyncedFile(unsynced, <<"image", c>>)
                               ELSE NoteUnsyncedDir(unsynced)
                /\ UNCHANGED disk
        /\ Step(c, "walremove")
        /\ UNCHANGED <<chunk, publisher>>
     \/ op[c].strict /\ CheckpointFails(c)
  /\ UNCHANGED <<forgotten, floor, poisoned, barrier, clock, history, crashes, setting>>

\* A collected chunk whose WAL holds unsynced frames is exposed until the
\* removal is synced: the older WAL may come back without them.  So is a chunk
\* whose relaxed checkpoint fails here: the directory that names the new image
\* is not in the unsynced set.
RemoveCheckpointedWal(c) ==
  /\ op[c].step = "walremove"
  /\ \/ /\ NoFault
        /\ disk' = [disk EXCEPT ![c] = RemoveWal(@)]
        /\ exposed' = IF disk[c].img.present \/ disk[c].walOut = {disk[c].wal}
                      THEN exposed ELSE exposed \cup {c}
        /\ Step(c, "walsync")
        /\ UNCHANGED <<chunk, unsynced, publisher>>
     \/ /\ CheckpointFails(c)
        /\ exposed' = IF op[c].strict \/ ~disk[c].img.present
                      THEN exposed ELSE exposed \cup {c}
  /\ UNCHANGED <<forgotten, floor, poisoned, barrier, clock, acked, must, hist,
                 rejected, crashes, setting>>

FinishCheckpoint(c) ==
  /\ op[c].step = "walsync"
  /\ \/ /\ NoFault
        /\ IF op[c].strict THEN disk' = SyncDir(disk) /\ UNCHANGED unsynced
           ELSE unsynced' = NoteUnsyncedDir(unsynced) /\ UNCHANGED disk
        /\ exposed' = exposed \ {c}
        /\ chunk' = [chunk EXCEPT ![c].batch = <<>>]
        /\ UnlockPublish
        /\ Release(c)
     \/ op[c].strict /\ CheckpointFails(c) /\ exposed' = exposed \cup {c}
  /\ UNCHANGED <<forgotten, floor, poisoned, barrier, clock, acked, must, hist,
                 rejected, crashes, setting>>

-----------------------------------------------------------------------------
(* A transaction's COMMIT on one chunk: MakeWalBoundaryDurableLocked, then the
   frame appended and synced.  CommitIntents has its intents and several chunks. *)

StartTxn(c) ==
  /\ "txn" \in Ops
  /\ op[c] = Idle
  /\ ~chunk[c].repairFailed
  /\ ~poisoned
  /\ clock < MaxRev
  /\ op' = [op EXCEPT ![c] = FlushOp("txn", ~Relaxed)]
  /\ UNCHANGED <<chunk, disk, tracking, floor, poisoned, publisher, barrier,
                 clock, history, faults, crashes, setting>>

\* The chunk's artifacts leave the unsynced set before they are synced, and
\* are in flight until then.
ForgetUnsynced(c) ==
  LET mine == [NoUnsynced EXCEPT
                 !.files = unsynced.files \cap {<<"image", c>>, <<"wal", c>>},
                 !.dir = unsynced.dir]
  IN  /\ op[c].step = "forget"
      /\ Step(c, IF chunk[c].boundaryDurable THEN "resync" ELSE "boundarysync")
      /\ IF chunk[c].boundaryDurable THEN UNCHANGED tracking
         ELSE /\ forgotten' = [forgotten EXCEPT ![c] = mine]
              /\ unsynced' = [unsynced EXCEPT !.files = @ \ mine.files, !.dir = FALSE]
      /\ UNCHANGED <<chunk, disk, floor, poisoned, publisher, barrier, clock,
                     history, faults, crashes, setting>>

ResyncBoundary(c) ==
  /\ op[c].step = "resync"
  /\ \/ /\ NoFault
        /\ disk' = [disk EXCEPT ![c] = IF Relaxed THEN SyncWal(@) ELSE @]
        /\ Step(c, "txnappend")
     \/ /\ Relaxed
        /\ Fault
        /\ Release(c)
        /\ UNCHANGED disk
  /\ UNCHANGED <<chunk, tracking, floor, poisoned, publisher, barrier, clock,
                 history, crashes, setting>>

FinishForgottenUnsynced(c) ==
  /\ op[c].step = "boundarysync"
  /\ \/ /\ NoFault
        /\ disk' = SyncDir([disk EXCEPT ![c] = SyncWal(SyncImage(@))])
        /\ chunk' = [chunk EXCEPT ![c].boundaryDurable = TRUE]
        /\ exposed' = exposed \ {c}
        /\ Step(c, "txnappend")
        /\ UNCHANGED unsynced
     \/ /\ Fault
        /\ unsynced' = InsertUnsynced(unsynced, forgotten[c])
        /\ Release(c)
        /\ UNCHANGED <<chunk, disk, exposed>>
  /\ forgotten' = [forgotten EXCEPT ![c] = NoUnsynced]
  /\ UNCHANGED <<floor, poisoned, publisher, barrier, clock, acked, must,
                 hist, rejected, crashes, setting>>

\* AppendTxnFrameLocked and the commit point behind it; a failed append is cut
\* back to the boundary, durably.
AppendTxnFrame(c, b, set) ==
  LET rev == clock + 1
      val == IF set THEN rev ELSE 0
      ch == [chunk[c] EXCEPT !.st[b] = val]
      grown == SyncWal(AppendWal(disk[c], <<[rev |-> rev, put |-> b :> val]>>))
  IN  /\ op[c].step = "txnappend"
      /\ chunk[c].st[b] # val
      /\ clock' = rev
      /\ \/ /\ NoFault
            /\ disk' = LET ds == [disk EXCEPT ![c] = grown]
                       IN  IF disk[c].wal.present THEN ds ELSE SyncDir(ds)
            /\ hist' = [hist EXCEPT ![c] = @ \cup {[rev |-> rev, st |-> ch.st]}]
            /\ Commit(c, ch, rev, TRUE)
            /\ UNCHANGED rejected
         \/ /\ Fault
            /\ chunk' = [chunk EXCEPT ![c].boundaryDurable = FALSE]
            /\ rejected' = rejected \cup {rev}
            /\ Release(c)
            /\ UNCHANGED <<disk, hist, acked, must>>
      /\ UNCHANGED <<tracking, floor, poisoned, publisher, barrier, exposed,
                     crashes, setting>>

-----------------------------------------------------------------------------
(* Eviction: the batch is flushed and the instance dropped; the next access
   loads the chunk from its files. *)

StartEviction(c) ==
  /\ "evict" \in Ops
  /\ op[c] = Idle
  /\ ~chunk[c].repairFailed
  /\ op' = [op EXCEPT ![c] = FlushOp("evict", ~Relaxed)]
  /\ UNCHANGED <<chunk, disk, tracking, floor, poisoned, publisher, barrier,
                 clock, history, faults, crashes, setting>>

Unload(c) ==
  /\ op[c].step = "unload"
  /\ chunk' = [chunk EXCEPT ![c] = Loaded(disk[c])]
  /\ Release(c)
  /\ UNCHANGED <<disk, tracking, floor, poisoned, publisher, barrier, clock,
                 history, faults, crashes, setting>>

-----------------------------------------------------------------------------
(* WalBarrier *)

StartBarrier ==
  /\ "barrier" \in Ops
  /\ barrier.step = "idle"
  /\ ~poisoned
  /\ barrier' = [NoBarrier EXCEPT !.step = "flush", !.left = Chunks, !.cover = acked]
  /\ UNCHANGED <<memory, disk, tracking, floor, poisoned, publisher, clock,
                 history, faults, crashes, setting>>

\* A batch is written without a sync, unless the chunk's boundary is durable.
BarrierFlush(c) ==
  /\ barrier.step = "flush"
  /\ c \in barrier.left
  /\ op[c] = Idle
  /\ op' = [op EXCEPT ![c] = FlushOp("barrier", chunk[c].boundaryDurable)]
  /\ UNCHANGED <<chunk, disk, tracking, floor, poisoned, publisher, barrier,
                 clock, history, faults, crashes, setting>>

\* Under checkpoint_publish_mutex_: the floor is set and the set drained.
DrainWithoutPublishMutex ==
  /\ barrier.step = "flush"
  /\ barrier.left = {}
  /\ floor' = TRUE
  /\ barrier' = [barrier EXCEPT !.step = "files", !.drained = TakeUnsynced,
                                !.todo = FilesToSync(TakeUnsynced)]
  /\ unsynced' = NoUnsynced
  /\ UNCHANGED <<memory, disk, forgotten, poisoned, publisher, clock, history,
                 faults, crashes, setting>>
BarrierDrain ==
  /\ barrier.step = "flush"
  /\ barrier.left = {}
  /\ publisher = {}
  /\ floor' = TRUE
  /\ barrier' = [barrier EXCEPT !.step = "files", !.drained = TakeUnsynced,
                                !.todo = FilesToSync(TakeUnsynced)]
  /\ unsynced' = NoUnsynced
  /\ UNCHANGED <<memory, disk, forgotten, poisoned, publisher, clock, history,
                 faults, crashes, setting>>

\* The syncs run without a lock, one file after another, then the directory.
BarrierSyncFile(f) ==
  /\ barrier.step = "files"
  /\ f \in barrier.todo
  /\ disk' = SyncFile(f)
  /\ barrier' = [barrier EXCEPT !.todo = @ \ {f}]
  /\ UNCHANGED <<memory, tracking, floor, poisoned, publisher, clock, history,
                 faults, crashes, setting>>

BarrierSyncDirs ==
  /\ barrier.step = "files"
  /\ barrier.todo = {}
  /\ disk' = IF DirToSync(barrier.drained) THEN SyncDir(disk) ELSE disk
  /\ must' = [c \in Chunks |-> [must[c] EXCEPT !.ack = Max({@, barrier.cover[c]})]]
  /\ barrier' = NoBarrier
  /\ UNCHANGED <<memory, tracking, floor, poisoned, publisher, clock, acked,
                 hist, rejected, exposed, faults, crashes, setting>>

BarrierSyncFails ==
  /\ barrier.step = "files"
  /\ Fault
  /\ unsynced' = InsertUnsynced(unsynced, barrier.drained)
  /\ barrier' = NoBarrier
  /\ UNCHANGED <<memory, disk, forgotten, floor, poisoned, publisher, clock,
                 history, crashes, setting>>

-----------------------------------------------------------------------------
(* Crashes.  A process crash keeps what the system saw of the files; a power
   loss keeps one outcome of each.  The store opened again starts with an
   empty unsynced set and, being initialised, with the floor set; a chunk left
   with an image it cannot parse is never loaded. *)

\* A collected chunk is empty without a revision; it counts as the empty state
\* it was promised in.
AtLeast(rev, s) == [rev |-> Max({rev, s.rev}), st |-> s.st]

Restart(ds) ==
  /\ crashes < MaxCrashes
  /\ crashes' = crashes + 1
  /\ UNCHANGED setting
  /\ disk' = ds
  /\ chunk' = [c \in Chunks |-> Loaded(ds[c])]
  /\ op' = [c \in Chunks |-> Idle]
  /\ unsynced' = NoUnsynced
  /\ forgotten' = [c \in Chunks |-> NoUnsynced]
  /\ floor' = TRUE
  /\ poisoned' = FALSE
  /\ publisher' = {}
  /\ barrier' = NoBarrier
  /\ acked' = [c \in Chunks |->
                Max({must[c].ack, Min({acked[c], Replay(ds[c].img, ds[c].wal).rev})})]
  /\ hist' = [c \in Chunks |-> {AtLeast(must[c].ack, s) : s \in Survivors(ds[c])}]
  /\ exposed' = {c \in Chunks : IF Relaxed THEN ~Settled(ds[c]) ELSE ds[c].walDir # {}}
  /\ UNCHANGED <<clock, must, rejected, faults>>

ProcessCrash == Restart(disk)

PowerLoss ==
  \E ds \in [Chunks -> UNION {{[img |-> i, imgOut |-> {i}, imgDir |-> {},
                                wal |-> w, walOut |-> {w}, walDir |-> {}] :
                                 i \in ImageOutcomes(disk[c]) \ {TornImage},
                                 w \in WalOutcomes(disk[c])} : c \in Chunks}] :
    /\ \A c \in Chunks : ds[c].img \in ImageOutcomes(disk[c])
                         /\ ds[c].wal \in WalOutcomes(disk[c])
    /\ Restart(ds)

ChunkNext(c) ==
  \/ \E b \in Blocks, set \in BOOLEAN : SetBlock(c, b, set)
  \/ FlushNothing(c) \/ AppendBatch(c) \/ SyncBatch(c) \/ SyncBatchDir(c)
  \/ TruncateWalTail(c)
  \/ StartCheckpoint(c) \/ BeginCheckpoint(c) \/ PublishImage(c)
  \/ SyncPublishedImage(c) \/ RemoveCheckpointedWal(c) \/ FinishCheckpoint(c)
  \/ StartTxn(c) \/ ForgetUnsynced(c) \/ ResyncBoundary(c)
  \/ FinishForgottenUnsynced(c)
  \/ \E b \in Blocks, set \in BOOLEAN : AppendTxnFrame(c, b, set)
  \/ StartEviction(c) \/ Unload(c)
  \/ BarrierFlush(c)

Next ==
  \/ \E c \in Chunks : ChunkNext(c)
  \/ StartBarrier \/ BarrierDrain \/ BarrierSyncDirs \/ BarrierSyncFails
  \/ \E f \in Files : BarrierSyncFile(f)
  \/ ProcessCrash \/ PowerLoss

Spec == Init /\ [][Next]_vars

AllChunks == UNION {s.chunks : s \in Settings}

\* The steps of an operation that holds its chunk's mutex.
Holder(c) ==
  /\ c \in Chunks
  /\ \/ FlushNothing(c) \/ AppendBatch(c) \/ SyncBatch(c) \/ SyncBatchDir(c)
     \/ TruncateWalTail(c) \/ BeginCheckpoint(c) \/ SyncPublishedImage(c)
     \/ RemoveCheckpointedWal(c) \/ FinishCheckpoint(c) \/ ForgetUnsynced(c)
     \/ ResyncBoundary(c) \/ FinishForgottenUnsynced(c) \/ Unload(c)
     \/ \E b \in Blocks, set \in BOOLEAN : AppendTxnFrame(c, b, set)

\* What the scheduler owes: a thread that holds its locks proceeds, and a
\* waiter gets a mutex that is free again and again.
FairSpec ==
  /\ Spec
  /\ \A c \in AllChunks : WF_vars(Holder(c)) /\ SF_vars(c \in Chunks /\ PublishImage(c))
                                             /\ SF_vars(c \in Chunks /\ BarrierFlush(c))
  /\ SF_vars(BarrierDrain)
  /\ WF_vars(BarrierSyncDirs)
  /\ WF_vars(\E f \in Files : BarrierSyncFile(f))

-----------------------------------------------------------------------------
(* Properties *)

Images == [present : BOOLEAN, rev : -1..clock, st : [Blocks -> 0..clock]]
Frames(f) ==
  \A i \in DOMAIN f : /\ f[i].rev \in 1..clock
                      /\ DOMAIN f[i].put \subseteq Blocks
                      /\ \A b \in DOMAIN f[i].put : f[i].put[b] \in {0, f[i].rev}

\* Every variable holds what the code's types and loops allow: whole frames of
\* issued revisions in the batches and in every WAL a power loss may leave, the
\* running file among its own outcomes, one publisher at most.
TypeOK ==
  /\ \A c \in Chunks :
       /\ chunk[c].st \in [Blocks -> 0..clock]
       /\ chunk[c].rev \in 0..clock
       /\ Frames(chunk[c].batch)
       /\ {chunk[c].boundaryDurable, chunk[c].repairFailed} \subseteq BOOLEAN
       /\ disk[c].img \in disk[c].imgOut
       /\ \A i \in ImageOutcomes(disk[c]) : i \in Images
       /\ disk[c].wal \in disk[c].walOut
       /\ \A w \in WalOutcomes(disk[c]) : Frames(w.frames)
       /\ op[c].kind \in {"none", "write", "checkpoint", "txn", "evict", "barrier"}
       /\ (op[c].step = "idle") <=> (op[c] = Idle)
  /\ \A u \in {unsynced, barrier.drained} \cup Range(forgotten) :
       /\ u.files \subseteq Files
       /\ {u.dir, u.swept, u.overflow} \subseteq BOOLEAN
  /\ TrackedCount(unsynced) <= UnsyncedLimit
  /\ barrier.step \in {"idle", "flush", "files"}
  /\ \A c \in publisher : op[c].step \in {"imagesync", "walremove", "walsync"}
  /\ Cardinality(publisher) <= 1

\* Whatever is left is readable and has the contents chunk c had at revision
\* rev or after it (a collected chunk has the contents of its last state, empty).
KeepsFrom(c, rev) ==
  /\ TornImage \notin ImageOutcomes(disk[c])
  /\ \A s \in Survivors(disk[c]) : \E h \in hist[c] : h.rev >= rev /\ h.st = s.st

\* DURABILITY_CONTRACT.md "Guarantees": what a synced acknowledgement or a
\* FLUSH WAL promised is in whatever a power loss leaves, whatever checkpoints,
\* collections, evictions and failures came after, and what is left is a state
\* the chunk really had.
AcknowledgedSurvives ==
  \A c \in Chunks : must[c].ack > 0 => KeepsFrom(c, must[c].ack)

\* The same, for the chunks that no crashed process, no collection over an
\* unsynced WAL and no failed checkpoint left exposed.
PromisedWritesSurvive ==
  \A c \in Chunks \ exposed : must[c].ack > 0 => KeepsFrom(c, must[c].ack)

\* "Transaction COMMIT, every mode: All changed chunks commit together durably":
\* no later checkpoint gives up what a COMMIT acknowledged.
CommittedSurvives ==
  \A c \in Chunks \ exposed : must[c].txn > 0 => KeepsFrom(c, must[c].txn)

\* "An ordinary rejected mutation changes nothing": a revision answered with an
\* error that is not an unknown outcome is in no file a power loss may leave, in
\* no batch a later flush would write, and in no chunk a reader sees.
RejectedLeavesNothing ==
  \A c \in Chunks :
    LET frames == UNION {Range(w.frames) : w \in WalOutcomes(disk[c])}
                    \cup (IF op[c].rev = 0 THEN Range(chunk[c].batch) ELSE {})
        states == {i.st : i \in ImageOutcomes(disk[c])} \cup {chunk[c].st}
    IN  /\ \A f \in frames : f.rev \notin rejected
        /\ \A st \in states : Range(st) \cap rejected = {}

\* Between operations the files and the batch carry exactly what memory shows:
\* an eviction, a checkpoint that failed half way, or a flush that was rolled
\* back never makes a reload answer differently from the instance it replaces.
\* ReplayWal refuses a frame that does not follow its predecessor: no WAL a
\* power loss may leave, and none the next flush completes, is one it refuses.
\* A chunk whose WAL could not be repaired is never flushed or evicted.
ReloadAgrees ==
  \A c \in Chunks :
    /\ op[c] = Idle /\ ~chunk[c].repairFailed =>
         /\ Replay(disk[c].img, [disk[c].wal EXCEPT !.frames = @ \o chunk[c].batch]).st
              = chunk[c].st
         /\ FramesOrdered(disk[c].wal.frames \o chunk[c].batch)
    /\ \A w \in WalOutcomes(disk[c]) : FramesOrdered(w.frames)

\* checkpoint.cpp: a publication "either completes before the drain, which hands
\* its unsynced artifacts to the barrier, or reads the floor below and publishes
\* strictly".
FloorMakesPublishStrict ==
  floor => \A c \in publisher : op[c].strict

=============================================================================
