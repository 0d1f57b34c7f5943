------------------------------ MODULE BackupCut ------------------------------
(***************************************************************************)
(* The capture of one table by BACKUP TO (BackupTo, backup_create.cpp)     *)
(* while it is written: the maintenance gate keeps checkpoints out, the    *)
(* cut S is the last version handed out, writes up to S are awaited, and   *)
(* each chunk's image and WAL are hard-linked under its lock.  The links   *)
(* are copied after the gates are released, without the frames past S.     *)
(*                                                                         *)
(* Every chunk has a container of its own.  The state of a chunk is the    *)
(* set of versions applied to it; a WAL is an inode holding a sequence of  *)
(* versions, and a name that leads to it.                                  *)
(***************************************************************************)
EXTENDS Integers, Sequences, FiniteSets, SequencesExt

CONSTANTS
  Chunks, Writers,
  Keeper, Nobody,         \* the maintenance thread, no one
  MaxWrites,              \* bound: writes of a behaviour
  MaxCheckpoints,         \* bound: checkpoints of a behaviour
  MaxFailures             \* bound: failed writes of a behaviour

VARIABLES
  clock,    \* version_clock_, the next version
  bound,    \* FeedProducerRegistry: each writer's bound, 0 without one
  th,       \* writers
  mem,      \* cached chunks: the state, and the batch not yet in the WAL
  lock,     \* chunk -> who holds its mutex
  image,    \* chunk -> its image file
  wal,      \* chunk -> inode its WAL's name leads to, 0 without one
  inode,    \* inode -> frames
  dirs,     \* chunks whose large-chunk directory exists
  gate,     \* backup_maintenance_mutex_
  keeper,   \* the maintenance thread's checkpoint
  bk,       \* the backup
  ghost     \* committed versions with their chunks, and the counts of bounds

vars == <<clock, bound, th, mem, lock, image, wal, inode, dirs, gate, keeper, bk, ghost>>

Inodes == 1..(MaxWrites + MaxFailures + Cardinality(Chunks))
NoImage == [rev |-> 0, state |-> {}]
Absent == [in |-> FALSE, state |-> {}, batch |-> <<>>]
Idle == [at |-> "idle", chunks |-> {}, todo |-> {}, lower |-> 0, v |-> 0, sizes |-> <<>>]
NoLink == [image |-> NoImage, inode |-> 0, size |-> 0]

Init ==
  /\ clock = 1
  /\ bound = [t \in Writers |-> 0]
  /\ th = [t \in Writers |-> Idle]
  /\ mem = [c \in Chunks |-> Absent]
  /\ lock = [c \in Chunks |-> Nobody]
  /\ image = [c \in Chunks |-> NoImage]
  /\ wal = [c \in Chunks |-> 0]
  /\ inode = [i \in Inodes |-> <<>>]
  /\ dirs = {}
  /\ gate = [exclusive |-> FALSE, waiting |-> FALSE, readers |-> 0]
  /\ keeper = Nobody
  /\ bk = [at |-> "idle", cut |-> 0, names |-> {}, large |-> Nobody,
           links |-> [c \in Chunks |-> NoLink], copy |-> [c \in Chunks |-> NoImage]]
  /\ ghost = [done |-> {}, writes |-> 0, checkpoints |-> 0, failures |-> 0]

-----------------------------------------------------------------------------
(* Files.                                                                  *)

Frames(c) == IF wal[c] = 0 THEN <<>> ELSE inode[wal[c]]
\* ReplayWal: the frames past the image.
Replayed(img, frames) == img.state \cup {v \in Range(frames) : v > img.rev}
OnDisk(c) == Replayed(image[c], Frames(c))

Linked(i) == \E c \in Chunks : bk.links[c].inode = i
Fresh == CHOOSE i \in Inodes : ~Linked(i) /\ \A c \in Chunks : wal[c] # i

\* An append, which creates the WAL (EnsureWalAppendStream), as a next state.
Append1(c, frames) ==
  LET i == IF wal[c] = 0 THEN Fresh ELSE wal[c]
  IN /\ inode' = [inode EXCEPT ![i] = Frames(c) \o frames]
     /\ wal' = [wal EXCEPT ![c] = i]
     /\ dirs' = dirs \cup {c}

\* ResizeWalPreservingLinks: an inode with another link is replaced.
ReplacesInode(c) == Linked(wal[c])

\* Rollback of a chunk's WAL to `size` frames; to none, the name is removed.
Resized(w, c, size) == IF size = 0 THEN [w EXCEPT ![c] = 0]
                       ELSE IF ReplacesInode(c) THEN [w EXCEPT ![c] = Fresh] ELSE w
Truncated(c, size) ==
  /\ wal' = Resized(wal, c, size)
  /\ inode' = IF size = 0 THEN inode
              ELSE [inode EXCEPT ![Resized(wal, c, size)[c]] = SubSeq(Frames(c), 1, size)]

-----------------------------------------------------------------------------
(* Writers.  A write loads and locks its chunks, publishes its bound,      *)
(* takes its version and appends; a transaction appends to several WALs.   *)

Go(t, r) == th' = [th EXCEPT ![t] = r]
\* The container is loaded under large_chunks_mutex_ and its own mutex.
Open(c) == bk.large = Nobody \/ (mem[c].in /\ bk.large # c)

LockChunks(t, cs) ==
  /\ th[t].at = "idle" /\ ghost.writes < MaxWrites
  /\ \A c \in cs : lock[c] = Nobody /\ (mem[c].in \/ Open(c))
  /\ lock' = [c \in Chunks |-> IF c \in cs THEN t ELSE lock[c]]
  /\ mem' = [c \in Chunks |-> IF c \in cs /\ ~mem[c].in
                              THEN [in |-> TRUE, state |-> OnDisk(c), batch |-> <<>>] ELSE mem[c]]
  /\ ghost' = [ghost EXCEPT !.writes = @ + 1]
  /\ Go(t, [Idle EXCEPT !.at = "clock", !.chunks = cs, !.todo = cs])
  /\ UNCHANGED <<clock, bound, image, wal, inode, dirs, gate, keeper, bk>>

\* FeedWriteGuard: the clock is read, then the bound stored.
ReadClock(t) ==
  /\ th[t].at = "clock"
  /\ Go(t, [th[t] EXCEPT !.at = "bound", !.lower = clock])
  /\ UNCHANGED <<clock, bound, mem, lock, image, wal, inode, dirs, gate, keeper, bk, ghost>>
StoreBound(t) ==
  /\ th[t].at = "bound"
  /\ bound' = [bound EXCEPT ![t] = th[t].lower]
  /\ Go(t, [th[t] EXCEPT !.at = "version"])
  /\ UNCHANGED <<clock, mem, lock, image, wal, inode, dirs, gate, keeper, bk, ghost>>
\* NextChunkVersion
TakeVersion(t) ==
  /\ th[t].at = "version"
  /\ clock' = clock + 1
  /\ Go(t, [th[t] EXCEPT !.at = "append", !.v = clock,
                         !.sizes = [c \in th[t].chunks |-> Len(Frames(c))]])
  /\ UNCHANGED <<bound, mem, lock, image, wal, inode, dirs, gate, keeper, bk, ghost>>

\* ~FeedWriteGuard
Released(t) == [bound EXCEPT ![t] = 0]

Commit(t, batched) ==
  /\ mem' = [c \in Chunks |-> IF c \notin th[t].chunks THEN mem[c]
       ELSE [mem[c] EXCEPT !.state = @ \cup {th[t].v},
                           !.batch = IF batched THEN Append(@, th[t].v) ELSE <<>>]]
  /\ bound' = Released(t)
  /\ lock' = [c \in Chunks |-> IF c \in th[t].chunks THEN Nobody ELSE lock[c]]
  /\ ghost' = [ghost EXCEPT !.done = @ \cup {[v |-> th[t].v, chunks |-> th[t].chunks]}]
  /\ Go(t, Idle)

\* A write of one chunk may stay in the batch (relaxed group commit).
WriteBatched(t) ==
  /\ th[t].at = "append" /\ Cardinality(th[t].chunks) = 1
  /\ Commit(t, TRUE)
  /\ UNCHANGED <<clock, image, wal, inode, dirs, gate, keeper, bk>>
AppendFrame(t, c) ==
  /\ th[t].at = "append" /\ c \in th[t].todo
  /\ Append1(c, Append(mem[c].batch, th[t].v))
  /\ Go(t, [th[t] EXCEPT !.todo = @ \ {c}])
  /\ UNCHANGED <<clock, bound, mem, lock, image, gate, keeper, bk, ghost>>
EndWrite(t) ==
  /\ th[t].at = "append" /\ th[t].todo = {}
  /\ Commit(t, FALSE)
  /\ UNCHANGED <<clock, image, wal, inode, dirs, gate, keeper, bk>>

\* A failed write takes its frames back, WAL by WAL, before it lets go.
FailWrite(t) ==
  /\ th[t].at = "append" /\ ghost.failures < MaxFailures
  /\ ghost' = [ghost EXCEPT !.failures = @ + 1]
  /\ Go(t, [th[t] EXCEPT !.at = "rollback", !.todo = th[t].chunks \ th[t].todo])
  /\ UNCHANGED <<clock, bound, mem, lock, image, wal, inode, dirs, gate, keeper, bk>>
RollBack(t, c) ==
  /\ th[t].at = "rollback" /\ c \in th[t].todo
  /\ Truncated(c, th[t].sizes[c])
  /\ Go(t, [th[t] EXCEPT !.todo = @ \ {c}])
  /\ UNCHANGED <<clock, bound, mem, lock, image, dirs, gate, keeper, bk, ghost>>
EndRollBack(t) ==
  /\ th[t].at = "rollback" /\ th[t].todo = {}
  /\ bound' = Released(t)
  /\ lock' = [c \in Chunks |-> IF c \in th[t].chunks THEN Nobody ELSE lock[c]]
  /\ Go(t, Idle)
  /\ UNCHANGED <<clock, mem, image, wal, inode, dirs, gate, keeper, bk, ghost>>

-----------------------------------------------------------------------------
(* Maintenance.                                                            *)

\* BackupMaintenanceGate::try_lock_shared
GateOpen == ~gate.exclusive /\ ~gate.waiting

(* Mutant: a checkpoint does not ask the gate. *)
GateIgnored(c) == TRUE
GateAdmits(c) == GateOpen

\* CheckpointChunk under the chunk's mutex and the gate's shared side; the
\* image is replaced, then the WAL removed.
WriteImage(c) ==
  /\ keeper = Nobody /\ ghost.checkpoints < MaxCheckpoints
  /\ mem[c].in /\ mem[c].state # {} /\ lock[c] = Nobody /\ GateAdmits(c)
  /\ ghost' = [ghost EXCEPT !.checkpoints = @ + 1]
  /\ lock' = [lock EXCEPT ![c] = Keeper]
  /\ gate' = [gate EXCEPT !.readers = @ + 1]
  /\ keeper' = c
  /\ image' = [image EXCEPT ![c] = [state |-> mem[c].state,
       rev |-> CHOOSE v \in mem[c].state : \A w \in mem[c].state : w <= v]]
  /\ mem' = [mem EXCEPT ![c].batch = <<>>]
  /\ dirs' = dirs \cup {c}
  /\ UNCHANGED <<clock, bound, th, wal, inode, bk>>
RemoveWal ==
  /\ keeper # Nobody
  /\ wal' = [wal EXCEPT ![keeper] = 0]
  /\ lock' = [lock EXCEPT ![keeper] = Nobody]
  /\ gate' = [gate EXCEPT !.readers = @ - 1]
  /\ keeper' = Nobody
  /\ UNCHANGED <<clock, bound, th, mem, image, inode, dirs, bk, ghost>>

(* Mutant: eviction drops what is not in the WAL yet. *)
Dropped(c) == <<>>
Unflushed(c) == mem[c].batch

\* TryEvictCandidate: the batch is flushed; the chunk leaves under the
\* container's mutex.
Evict(c) ==
  /\ mem[c].in /\ lock[c] = Nobody /\ Open(c)
  /\ IF Unflushed(c) = <<>> THEN UNCHANGED <<wal, inode, dirs>> ELSE Append1(c, Unflushed(c))
  /\ mem' = [mem EXCEPT ![c] = Absent]
  /\ UNCHANGED <<clock, bound, th, lock, image, gate, keeper, bk, ghost>>

-----------------------------------------------------------------------------
(* BackupTo.                                                               *)

Save(at) == bk' = [bk EXCEPT !.at = at]

StartBackup ==
  /\ bk.at = "idle"
  /\ Save("gate")
  /\ gate' = [gate EXCEPT !.waiting = TRUE]
  /\ UNCHANGED <<clock, bound, th, mem, lock, image, wal, inode, dirs, keeper, ghost>>
\* BackupMaintenanceGate::lock
TakeGate ==
  /\ bk.at = "gate" /\ gate.readers = 0
  /\ gate' = [gate EXCEPT !.waiting = FALSE, !.exclusive = TRUE]
  /\ Save("cut")
  /\ UNCHANGED <<clock, bound, th, mem, lock, image, wal, inode, dirs, keeper, ghost>>
TakeCut ==
  /\ bk.at = "cut"
  /\ bk' = [bk EXCEPT !.at = "await", !.cut = clock - 1]
  /\ UNCHANGED <<clock, bound, th, mem, lock, image, wal, inode, dirs, gate, keeper, ghost>>
\* FeedProducerRegistry::Completed
Completed == clock > bk.cut /\ \A t \in Writers : bound[t] = 0 \/ bound[t] > bk.cut
AwaitWrites ==
  /\ bk.at = "await" /\ Completed
  /\ Save("registry")
  /\ UNCHANGED <<clock, bound, th, mem, lock, image, wal, inode, dirs, gate, keeper, ghost>>

Resident == {c \in Chunks : mem[c].in}
NameSources == <<Resident, dirs>>

ListContainers ==
  /\ bk.at = "registry"
  /\ bk' = [bk EXCEPT !.at = "directories", !.names = NameSources[1]]
  /\ UNCHANGED <<clock, bound, th, mem, lock, image, wal, inode, dirs, gate, keeper, ghost>>
ListDirectories ==
  /\ bk.at = "directories"
  /\ bk' = [bk EXCEPT !.at = "link", !.names = @ \cup NameSources[2]]
  /\ UNCHANGED <<clock, bound, th, mem, lock, image, wal, inode, dirs, gate, keeper, ghost>>

\* The container is locked, or without one the registry kept closed.
OpenLarge(c) ==
  /\ bk.at = "link" /\ bk.large = Nobody /\ c \in bk.names
  /\ bk' = [bk EXCEPT !.large = c]
  /\ UNCHANGED <<clock, bound, th, mem, lock, image, wal, inode, dirs, gate, keeper, ghost>>

ToFlush(c) == mem[c].batch

\* Under a cached chunk's mutex its batch is flushed; the files are linked.
LinkFiles ==
  LET c == bk.large
      img == image[c]
  IN /\ bk.at = "link" /\ bk.large # Nobody
     /\ lock[c] = Nobody
     /\ IF ToFlush(c) = <<>> THEN UNCHANGED <<wal, inode, dirs>> ELSE Append1(c, ToFlush(c))
     /\ mem' = [mem EXCEPT ![c].batch = IF ToFlush(c) = <<>> THEN @ ELSE <<>>]
     /\ bk' = [bk EXCEPT !.large = Nobody, !.names = @ \ {c},
               !.links[c] = [image |-> img, inode |-> wal'[c],
                             size |-> IF wal'[c] = 0 THEN 0 ELSE Len(inode'[wal'[c]])]]
     /\ UNCHANGED <<clock, bound, th, lock, image, gate, keeper, ghost>>

ReleaseGate ==
  /\ bk.at = "link" /\ bk.large = Nobody /\ bk.names = {}
  /\ gate' = [gate EXCEPT !.exclusive = FALSE]
  /\ bk' = [bk EXCEPT !.at = "copy", !.names = Chunks]
  /\ UNCHANGED <<clock, bound, th, mem, lock, image, wal, inode, dirs, keeper, ghost>>

UpToCut(frames) == SelectSeq(frames, LAMBDA v : v <= bk.cut)

(* The copy of a chunk: below a WAL, an image past the cut is an error, as *)
(* is a WAL shorter than when it was linked; frames past the cut are left  *)
(* out.                                                                    *)
CopyFiles(c) ==
  LET link == bk.links[c]
      bytes == IF link.inode = 0 THEN <<>> ELSE inode[link.inode]
  IN /\ bk.at = "copy" /\ c \in bk.names
     /\ bk' = IF link.inode # 0 /\ (link.image.rev > bk.cut \/ Len(bytes) < link.size)
              THEN [bk EXCEPT !.at = "failed"]
              ELSE [bk EXCEPT !.names = @ \ {c},
                 !.at = IF bk.names = {c} THEN "done" ELSE @,
                 !.links[c] = NoLink,
                 !.copy[c] = [rev |-> link.image.rev,
                   state |-> Replayed(link.image, UpToCut(SubSeq(bytes, 1, link.size)))]]
     /\ UNCHANGED <<clock, bound, th, mem, lock, image, wal, inode, dirs, gate, keeper, ghost>>

Work(t) ==
  \/ ReadClock(t) \/ StoreBound(t) \/ TakeVersion(t) \/ WriteBatched(t) \/ EndWrite(t)
  \/ EndRollBack(t)
  \/ \E c \in Chunks : AppendFrame(t, c) \/ RollBack(t, c)
Backup ==
  \/ TakeGate \/ TakeCut \/ AwaitWrites \/ ListContainers \/ ListDirectories \/ LinkFiles
  \/ ReleaseGate
  \/ \E c \in Chunks : OpenLarge(c) \/ CopyFiles(c)
Next ==
  \/ \E t \in Writers : Work(t) \/ FailWrite(t) \/ \E cs \in SUBSET Chunks \ {{}} : LockChunks(t, cs)
  \/ \E c \in Chunks : WriteImage(c) \/ Evict(c)
  \/ RemoveWal
  \/ StartBackup \/ Backup

Spec == Init /\ [][Next]_vars
FairSpec == Spec /\ WF_vars(RemoveWal) /\ WF_vars(Backup) /\ \A t \in Writers : WF_vars(Work(t))

-----------------------------------------------------------------------------
(* A finished backup holds of every chunk exactly the changes committed up *)
(* to its cut: none is missing, whether it was in a batch, a WAL or an     *)
(* image, none past the cut is there, and so a transaction is whole or     *)
(* absent, although its chunks were linked at different times.  No backup  *)
(* fails on the files it linked itself ("backup image exceeds its revision *)
(* cut", "backup required prefix was shortened").                          *)
CutIsExact ==
  /\ bk.at # "failed"
  /\ bk.at = "done" => \A c \in Chunks :
       bk.copy[c].state = {w.v : w \in {d \in ghost.done : c \in d.chunks /\ d.v <= bk.cut}}

(* The live table is unharmed by the links: the files and the batch of     *)
(* every chunk at rest make up its committed state.                        *)
LiveStateKept ==
  \A c \in Chunks : lock[c] = Nobody =>
    LET state == {w.v : w \in {d \in ghost.done : c \in d.chunks}}
    IN /\ OnDisk(c) \cup Range(mem[c].batch) = state
       /\ mem[c].in => mem[c].state = state

Started == bk.at = "gate"
Done == bk.at = "done"

=============================================================================
