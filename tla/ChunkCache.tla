----------------------------- MODULE ChunkCache -----------------------------
(***************************************************************************)
(* The chunk cache of a store (chunk_cache.cpp), its eviction              *)
(* (eviction.cpp), background maintenance (maintenance.cpp) and the read   *)
(* that bypasses the cache (ReadPopulatedChunkStateNoCache,                *)
(* world_read.cpp).                                                        *)
(*                                                                         *)
(* A regular chunk is an object reached through the container of its       *)
(* large chunk; both are reference counted, so a thread may hold one that  *)
(* left its map.  Objects are therefore values of their own here: a        *)
(* container or chunk object number is used again once nobody holds it.    *)
(*                                                                         *)
(* The content of a chunk is the number of the last write in it (0: never  *)
(* written).  On disk it is an image and a WAL whose frames lead from      *)
(* `base` to `to`; an image older than the WAL's base pairs with it to a   *)
(* state that never was (Mixed).  The order of the eviction candidates     *)
(* (coldest first) is not modelled: any candidate may be next.             *)
(* That the eviction of a deleted chunk without files is a write of its    *)
(* own, to never written, is in TxnHistory.                                *)
(***************************************************************************)
EXTENDS Naturals, Sequences, FiniteSets

CONSTANTS
  Chunks,        \* regular chunks
  LargeOf,       \* their large chunk: ChunkCoord::ToLarge
  Writers,       \* threads that write through the cache
  Readers,       \* threads that read past it
  Keeper,        \* the maintenance thread
  Nobody,
  MaxLoaded,     \* max_loaded_chunks; below 256 the lower watermark is 1
  Probes,        \* candidates one eviction pass tries (64 and up in the code)
  RefillBudget,  \* kEvictionRefillLargeChunkBudget
  Attempts,      \* kNoCacheReadAttempts
  QueueLimit,    \* kMaintenanceQueueLimit
  Loads,         \* bounds, one of which holds in a behaviour: the chunks and the
                 \* threads used, the number of writes and of failed I/O
                 \* operations, reads through the cache or not, a fence or
                 \* not, background_maintenance, and the chunks other stores
                 \* hold of the shared limit
  MaxWrites      \* the largest number of writes of these

VARIABLES
  files,     \* per chunk: image, WAL
  conts,     \* container objects: large chunk, chunks, retired
  large,     \* large_chunks_: the container of a large chunk (0: none)
  objs,      \* chunk objects
  ring,      \* eviction_large_chunk_ring_ and its cursor
  cands,     \* eviction_candidates_ past the cursor: [chunk, hot]
  loaded,    \* loaded_chunks_
  duplicates,\* stats_duplicate_chunk_instances_
  th,        \* the threads
  keep,      \* the maintenance thread's mutex-protected state
  latch,     \* the mutex of a container: its holder
  pool,      \* chunk objects the WAL stream pool holds a reference to
  ghost

vars == <<files, conts, large, objs, ring, cands, loaded, duplicates, th,
          keep, latch, pool, ghost>>

Clients == Writers \cup Readers
Threads == Clients \cup {Keeper}
Larges == {LargeOf[c] : c \in Chunks}
\* Enough numbers for an object of every chunk and one being replaced, and for
\* the containers in the map and those other threads still hold.
ObjIds == 1..(Cardinality(Chunks) + 1)
ContIds == 1..(Cardinality(Larges) + Cardinality(Threads) - 1)

NoWal == [base |-> 0, to |-> 0]
Mixed == MaxWrites + 1
NoChunks == [c \in Chunks |-> 0]

\* A thread: where it is and in which operation, the container and the chunk
\* object it holds, a no-cache read's attempt, and an eviction pass.
NoPass == [need |-> 0, probes |-> 0, removed |-> 0, recency |-> TRUE, empty |-> {},
           hot |-> FALSE, failed |-> FALSE]
Idle == [at |-> "idle", op |-> "none", chunk |-> Nobody, cont |-> 0, obj |-> 0,
         pin |-> 0, tries |-> 0, moved |-> FALSE, got |-> 0, pass |-> NoPass]

Init ==
  /\ files = [c \in Chunks |-> [image |-> 0, wal |-> NoWal]]
  /\ conts = [k \in ContIds |-> [large |-> Nobody, chunks |-> NoChunks, retired |-> FALSE]]
  /\ large = [l \in Larges |-> 0]
  /\ objs = [i \in ObjIds |-> [chunk |-> Nobody, value |-> 0, batch |-> FALSE,
                               stream |-> FALSE, broken |-> FALSE, lock |-> Nobody,
                               failed |-> FALSE]]
  /\ ring = [seq |-> <<>>, at |-> 0]
  /\ cands = {}
  /\ duplicates = 0
  /\ th = [t \in Threads |-> Idle]
  /\ latch = [k \in ContIds |-> Nobody]
  /\ pool = {}
  /\ \E load \in Loads :
       /\ loaded = load.others
       /\ keep = [queue |-> <<>>, keys |-> {}, evict |-> FALSE, stop |-> FALSE,
                  runs |-> load.background, background |-> load.background]
       /\ ghost = [now |-> [c \in Chunks |-> 0], during |-> [t \in Threads |-> {}],
                   writes |-> 0, faults |-> 0, load |-> load]

-----------------------------------------------------------------------------
(* References and locks.                                                   *)

Mapped(i) == \E k \in ContIds : \E c \in Chunks : conts[k].chunks[c] = i
\* shared_ptr::use_count
UseCount(i) == Cardinality({t \in Threads : th[t].obj = i})
                 + Cardinality({t \in Threads : th[t].pin = i}) + (IF Mapped(i) THEN 1 ELSE 0)
                 + (IF i \in pool THEN 1 ELSE 0)
LiveObjs(c) == {i \in ObjIds : UseCount(i) > 0 /\ objs[i].chunk = c}
FreeObj == CHOOSE i \in ObjIds : UseCount(i) = 0
FreeCont == CHOOSE k \in ContIds : (\A l \in Larges : large[l] # k)
                                     /\ (\A t \in Threads : th[t].cont # k)

Go(t, r) == th' = [th EXCEPT ![t] = r]
ContFree(k) == latch[k] = Nobody

\* TouchChunk: every recorded tick of the chunk is now too old, also the one
\* of a candidate an eviction pass is trying.
Heated(set, c) == {IF e.chunk = c THEN [e EXCEPT !.hot = TRUE] ELSE e : e \in set}
GoTouching(t, c, r) ==
  /\ cands' = Heated(cands, c)
  /\ th' = [u \in Threads |->
       IF u = t THEN r
       ELSE IF th[u].pin # 0 /\ objs[th[u].pin].chunk = c
            THEN [th[u] EXCEPT !.pass.hot = TRUE] ELSE th[u]]

\* ReplayWal of what was read: the image, then the frames past it.
Replayed(image, wal) ==
  IF wal.to <= image THEN image
  ELSE IF wal.base <= image THEN wal.to ELSE Mixed

-----------------------------------------------------------------------------
(* GetOrLoadRegularChunk.                                                  *)

\* GetOrCreateLargeChunk, under large_chunks_mutex_.
GetOrCreateLargeChunk(t) ==
  /\ th[t].at = "create"
  /\ LET l == LargeOf[th[t].chunk]
         k == FreeCont
     IN IF large[l] # 0
        THEN /\ Go(t, [th[t] EXCEPT !.at = "lookup", !.cont = large[l]])
             /\ UNCHANGED <<conts, large, ring>>
        ELSE /\ conts' = [conts EXCEPT ![k] = [large |-> l, chunks |-> NoChunks,
                                               retired |-> FALSE]]
             /\ large' = [large EXCEPT ![l] = k]
             /\ ring' = [ring EXCEPT !.seq = Append(@, l)]
             /\ Go(t, [th[t] EXCEPT !.at = "lookup", !.cont = k])
  /\ UNCHANGED <<files, objs, cands, loaded, duplicates, keep, latch, pool, ghost>>

MustRestart(k) == conts[k].retired

(* Under the container's mutex: a retired container starts over, a cached  *)
(* chunk is taken, any other is loaded from its files.  The live-instance  *)
(* registry still holding another object of the chunk is counted.          *)
LookUpOrLoad(t) ==
  LET c == th[t].chunk
      k == th[t].cont
      i == FreeObj
  IN /\ th[t].at = "lookup"
     /\ ContFree(k)
     /\ IF MustRestart(k)
        THEN /\ Go(t, [th[t] EXCEPT !.at = "create", !.cont = 0])
             /\ UNCHANGED <<conts, objs, duplicates>>
        ELSE IF conts[k].chunks[c] # 0
        THEN /\ Go(t, [th[t] EXCEPT !.at = "touch", !.cont = 0,
                                    !.obj = conts[k].chunks[c]])
             /\ UNCHANGED <<conts, objs, duplicates>>
        ELSE /\ objs' = [objs EXCEPT ![i] =
                  [chunk |-> c, value |-> Replayed(files[c].image, files[c].wal),
                   batch |-> FALSE, stream |-> FALSE, broken |-> FALSE,
                   lock |-> Nobody, failed |-> FALSE]]
             /\ conts' = [conts EXCEPT ![k].chunks[c] = i]
             /\ duplicates' = duplicates + (IF LiveObjs(c) # {} THEN 1 ELSE 0)
             /\ Go(t, [th[t] EXCEPT !.at = "count", !.cont = 0, !.obj = i])
     /\ UNCHANGED <<files, large, ring, cands, loaded, keep, latch, pool, ghost>>

\* What the caller wanted the chunk for.
Use(t) == IF th[t].op = "write" THEN "write" ELSE "copy"

\* The chunk was cached: TouchChunk.
Touch(t) ==
  /\ th[t].at = "touch"
  /\ GoTouching(t, th[t].chunk, [th[t] EXCEPT !.at = Use(t)])
  /\ UNCHANGED <<files, conts, large, objs, ring, loaded, duplicates, keep, latch,
                 pool, ghost>>

\* EvictionLowerWatermark of a limit below 256, and RequestEviction's bound.
LowerWatermark == 1
HardBound == MaxLoaded + (IF MaxLoaded > LowerWatermark THEN MaxLoaded - LowerWatermark ELSE 1)

\* MaybeEvictChunks: nothing at or below the limit, else a pass.
Pass(count) == [NoPass EXCEPT !.need = IF count > MaxLoaded THEN count - LowerWatermark ELSE 0,
                              !.probes = Probes]

(* The chunk was loaded: TouchChunk, RegisterEvictionCandidate, the count, *)
(* and above the limit RequestEviction: the maintenance thread is asked,   *)
(* and without it or above the hard bound the caller evicts before it goes *)
(* on.                                                                     *)
CountLoaded(t) ==
  LET c == th[t].chunk
      count == loaded + 1
  IN /\ th[t].at = "count"
     /\ cands' = Heated(cands, c) \cup {[chunk |-> c, hot |-> FALSE]}
     /\ loaded' = count
     /\ IF count <= MaxLoaded
        THEN Go(t, [th[t] EXCEPT !.at = Use(t)]) /\ UNCHANGED keep
        ELSE IF keep.background /\ count <= HardBound
        THEN Go(t, [th[t] EXCEPT !.at = Use(t)]) /\ keep' = [keep EXCEPT !.evict = TRUE]
        ELSE Go(t, [th[t] EXCEPT !.at = "pass", !.pass = Pass(count)]) /\ UNCHANGED keep
     /\ UNCHANGED <<files, conts, large, objs, ring, duplicates, latch, pool, ghost>>

-----------------------------------------------------------------------------
(* Callers: a write through the cache, a no-cache read, a scan of the pool. *)

\* The operation ends; its references are dropped.
Release(t) == Go(t, Idle)

StartWrite(t, c) ==
  /\ th[t].at = "idle"
  /\ ghost.writes < ghost.load.writes
  /\ ghost' = [ghost EXCEPT !.writes = @ + 1]
  /\ Go(t, [Idle EXCEPT !.at = "create", !.op = "write", !.chunk = c])
  /\ UNCHANGED <<files, conts, large, objs, ring, cands, loaded, duplicates, keep,
                 latch, pool>>

\* A read through the cache.
StartGet(t, c) ==
  /\ th[t].at = "idle"
  /\ ghost' = [ghost EXCEPT !.during[t] = {ghost.now[c]}]
  /\ Go(t, [Idle EXCEPT !.at = "create", !.op = "read", !.chunk = c])
  /\ UNCHANGED <<files, conts, large, objs, ring, cands, loaded, duplicates, keep,
                 latch, pool>>

\* What reads running now may also return.
Seen(c, v) == [t \in Threads |->
  IF th[t].op = "read" /\ th[t].chunk = c THEN ghost.during[t] \cup {v}
  ELSE ghost.during[t]]

\* A frame leading to v appended to the WAL of c, after what a batch held back.
Appended(c, v) == [files EXCEPT ![c].wal =
  IF @ = NoWal THEN [base |-> files[c].image, to |-> v] ELSE [@ EXCEPT !.to = v]]

\* durability_poisoned_: writes and checkpoints are refused from then on.
Poisoned == \E i \in ObjIds : UseCount(i) > 0 /\ objs[i].broken

(* A write under the chunk's mutex: the record joins the batch, or is      *)
(* appended and the stream stays open.  A failed append whose bytes cannot *)
(* be removed leaves memory right and the WAL wrong (wal_repair_failed).   *)
Write(t) ==
  LET i == th[t].obj
      c == th[t].chunk
      v == ghost.writes
  IN /\ th[t].at = "write"
     /\ objs[i].lock = Nobody
     /\ \/ /\ ~Poisoned
           /\ objs' = [objs EXCEPT ![i].value = v, ![i].batch = TRUE]
           /\ ghost' = [ghost EXCEPT !.now[c] = v, !.during = Seen(c, v)]
           /\ Release(t)
           /\ UNCHANGED files
        \/ /\ ~Poisoned
           /\ files' = Appended(c, v)
           /\ objs' = [objs EXCEPT ![i].value = v, ![i].batch = FALSE, ![i].stream = TRUE,
                                   ![i].lock = t]
           /\ ghost' = [ghost EXCEPT !.now[c] = v, !.during = Seen(c, v)]
           /\ Go(t, [th[t] EXCEPT !.at = "due"])
        \/ /\ ~Poisoned
           /\ ghost.faults < ghost.load.faults
           /\ files' = Appended(c, v)
           /\ objs' = [objs EXCEPT ![i].broken = TRUE]
           /\ ghost' = [ghost EXCEPT !.faults = @ + 1]
           /\ Release(t)
        \/ /\ Poisoned
           /\ Release(t)
           /\ UNCHANGED <<files, objs, ghost>>
     /\ UNCHANGED <<conts, large, ring, cands, loaded, duplicates, keep, latch, pool>>

\* EnqueueBackgroundCheckpoint
Enqueued(c) ==
  IF c \in keep.keys THEN keep
  ELSE [keep EXCEPT !.queue = Append(@, c), !.keys = @ \cup {c}]
CanEnqueue(c) == keep.runs /\ ~keep.stop
                   /\ (c \in keep.keys \/ Len(keep.queue) < QueueLimit)

(* The end of an appended write (MaybeCheckpointChunk): no checkpoint is   *)
(* due, or it is queued, or written here.                                  *)
EndWrite(t) ==
  LET i == th[t].obj
      c == th[t].chunk
      queued == CanEnqueue(c) /\ ~objs[i].failed
  IN /\ th[t].at = "due"
     /\ \/ /\ objs' = [objs EXCEPT ![i].lock = Nobody]
           /\ \/ UNCHANGED keep
              \/ queued /\ keep' = Enqueued(c)
           /\ Release(t)
        \/ /\ ~queued /\ ~Poisoned
           /\ Go(t, [th[t] EXCEPT !.at = "image"])
           /\ UNCHANGED <<objs, keep>>
     /\ UNCHANGED <<files, conts, large, ring, cands, loaded, duplicates, latch, pool,
                    ghost>>

\* The chunk object whose mutex the thread holds: the pinned victim of an
\* eviction pass, or the chunk of its own operation.
Work(t) == IF th[t].pin # 0 THEN th[t].pin ELSE th[t].obj
Evicting(t) == th[t].pin # 0

\* own_failure: the pass stops here and accounts for what it removed.
Failing(t) == [th[t] EXCEPT !.at = "finish", !.pin = 0, !.cont = 0, !.pass.failed = TRUE]

(* CheckpointChunk, the chunk's mutex held: the image is replaced, then    *)
(* the WAL removed.  A failure throws; the background checkpoint leaves    *)
(* its flag and an eviction pass ends (own_failure).                       *)
WriteImage(t) ==
  LET i == Work(t)
      c == objs[i].chunk
  IN /\ th[t].at = "image"
     /\ \/ /\ files' = [files EXCEPT ![c].image = objs[i].value]
           /\ objs' = [objs EXCEPT ![i].batch = FALSE, ![i].stream = FALSE]
           /\ Go(t, [th[t] EXCEPT !.at = "unlink"])
           /\ UNCHANGED ghost
        \/ /\ ghost.faults < ghost.load.faults
           /\ ghost' = [ghost EXCEPT !.faults = @ + 1]
           /\ objs' = [objs EXCEPT ![i].lock = Nobody,
                                   ![i].failed = @ \/ th[t].op = "checkpoint"]
           /\ IF Evicting(t)
              THEN Go(t, Failing(t))
              ELSE Release(t)
           /\ UNCHANGED files
     /\ UNCHANGED <<conts, large, ring, cands, loaded, duplicates, keep, latch, pool>>

UnlinkWal(t) ==
  LET i == Work(t)
  IN /\ th[t].at = "unlink"
     /\ files' = [files EXCEPT ![objs[i].chunk].wal = NoWal]
     /\ objs' = [objs EXCEPT ![i].lock = Nobody,
                             ![i].failed = IF Evicting(t) THEN @ ELSE FALSE]
     /\ IF Evicting(t) THEN Go(t, [th[t] EXCEPT !.at = "remove"]) ELSE Release(t)
     /\ UNCHANGED <<conts, large, ring, cands, loaded, duplicates, keep, latch, pool,
                    ghost>>

\* TakeIdleWalStreamLocked holds a reference for as long as it tries the lock.
PoolTakes(i) ==
  /\ UseCount(i) > 0 /\ objs[i].stream
  /\ pool = {}
  /\ pool' = {i}
  /\ UNCHANGED <<files, conts, large, objs, ring, cands, loaded, duplicates, th, keep,
                 latch, ghost>>
PoolDrops ==
  /\ pool # {}
  /\ pool' = {}
  /\ UNCHANGED <<files, conts, large, objs, ring, cands, loaded, duplicates, th, keep,
                 latch, ghost>>

-----------------------------------------------------------------------------
(* ReadPopulatedChunkStateNoCache.                                         *)

StartRead(t, c) ==
  /\ th[t].at = "idle"
  /\ ghost' = [ghost EXCEPT !.during[t] = {ghost.now[c]}]
  /\ Go(t, [Idle EXCEPT !.at = "find", !.op = "read", !.chunk = c, !.tries = Attempts])
  /\ UNCHANGED <<files, conts, large, objs, ring, cands, loaded, duplicates, keep,
                 latch, pool>>

(* TryGetLoadedChunk: the container under large_chunks_mutex_, then the    *)
(* chunk under the container's mutex.                                      *)
FindContainer(t) ==
  /\ th[t].at \in {"find", "find again"}
  /\ Go(t, [th[t] EXCEPT !.cont = large[LargeOf[th[t].chunk]],
                         !.at = IF @ = "find" THEN "look" ELSE "look again"])
  /\ UNCHANGED <<files, conts, large, objs, ring, cands, loaded, duplicates, keep,
                 latch, pool, ghost>>

Cached(k, c) == k # 0 /\ conts[k].chunks[c] # 0

\* The first check: a cached chunk is copied, any other read from its files.
LookInContainer(t) ==
  LET k == th[t].cont
      c == th[t].chunk
  IN /\ th[t].at = "look"
     /\ k # 0 => ContFree(k)
     /\ IF Cached(k, c)
        THEN Go(t, [th[t] EXCEPT !.cont = 0, !.obj = conts[k].chunks[c],
                                 !.at = IF th[t].op = "read" THEN "copy" ELSE "eligible"])
        ELSE IF th[t].op = "read" THEN Go(t, [th[t] EXCEPT !.cont = 0, !.at = "counter"])
        ELSE Release(t)
     /\ UNCHANGED <<files, conts, large, objs, ring, cands, loaded, duplicates, keep,
                    latch, pool, ghost>>

\* The removal counter is read, and then the image and the WAL.
ReadCounter(t) ==
  /\ th[t].at = "counter"
  /\ Go(t, [th[t] EXCEPT !.at = "read image", !.moved = FALSE])
  /\ UNCHANGED <<files, conts, large, objs, ring, cands, loaded, duplicates, keep,
                 latch, pool, ghost>>
ReadImage(t) ==
  /\ th[t].at = "read image"
  /\ Go(t, [th[t] EXCEPT !.at = "read wal", !.got = files[th[t].chunk].image])
  /\ UNCHANGED <<files, conts, large, objs, ring, cands, loaded, duplicates, keep,
                 latch, pool, ghost>>
ReadWal(t) ==
  /\ th[t].at = "read wal"
  /\ Go(t, [th[t] EXCEPT !.at = "find again",
                         !.got = Replayed(th[t].got, files[th[t].chunk].wal)])
  /\ UNCHANGED <<files, conts, large, objs, ring, cands, loaded, duplicates, keep,
                 latch, pool, ghost>>

\* The files are trusted: absent again, and no eviction meanwhile.
Trusted(t) == ~Cached(th[t].cont, th[t].chunk) /\ ~th[t].moved

\* The second check; without trust another attempt, after the last the cache.
LookAgain(t) ==
  /\ th[t].at = "look again"
  /\ th[t].cont # 0 => ContFree(th[t].cont)
  /\ Go(t, [th[t] EXCEPT !.cont = 0,
            !.tries = IF Trusted(t) THEN @ ELSE @ - 1,
            !.at = IF Trusted(t) THEN "answer"
                   ELSE IF th[t].tries = 1 THEN "create" ELSE "find"])
  /\ UNCHANGED <<files, conts, large, objs, ring, cands, loaded, duplicates, keep,
                 latch, pool, ghost>>

\* A cached chunk is copied under its mutex, taken shared, and touched.
CopyCached(t) ==
  /\ th[t].at = "copy"
  /\ objs[th[t].obj].lock = Nobody
  /\ GoTouching(t, th[t].chunk, [th[t] EXCEPT !.at = "answer", !.obj = 0,
                                              !.got = objs[th[t].obj].value])
  /\ UNCHANGED <<files, conts, large, objs, ring, loaded, duplicates, keep, latch, pool,
                 ghost>>
Answer(t) ==
  /\ th[t].at = "answer"
  /\ Release(t)
  /\ ghost' = [ghost EXCEPT !.during[t] = {}]
  /\ UNCHANGED <<files, conts, large, objs, ring, cands, loaded, duplicates, keep,
                 latch, pool>>

-----------------------------------------------------------------------------
(* An eviction pass (MaybeEvictChunks) of a caller or of the Keeper.       *)

InRing(n) == ring.seq[((ring.at + n) % Len(ring.seq)) + 1]
Visits == IF Len(ring.seq) < RefillBudget THEN Len(ring.seq) ELSE RefillBudget
Visited == {InRing(n) : n \in 0..(Visits - 1)}
Refill == {c \in Chunks : LargeOf[c] \in Visited
             /\ Cached(large[LargeOf[c]], c)
             /\ UseCount(conts[large[LargeOf[c]]].chunks[c]) = 1}

\* RefillEvictionCandidatesBounded, when every candidate was tried; a refill
\* without one ends this run through the candidates.
RefillCandidates(t) ==
  /\ th[t].at = "pass"
  /\ th[t].pass.removed < th[t].pass.need /\ th[t].pass.probes > 0
  /\ cands = {}
  /\ \A l \in Visited : ContFree(large[l])
  /\ cands' = {[chunk |-> c, hot |-> FALSE] : c \in Refill}
  /\ ring' = IF ring.seq = <<>> THEN ring
             ELSE [ring EXCEPT !.at = (@ + Visits) % Len(ring.seq)]
  /\ IF Refill = {} THEN Go(t, [th[t] EXCEPT !.at = "ran"]) ELSE UNCHANGED th
  /\ UNCHANGED <<files, conts, large, objs, loaded, duplicates, keep, latch, pool, ghost>>

(* PopEvictionCandidate, and step 1 of TryEvictCandidate: under the        *)
(* container's mutex an unused chunk, not touched since its tick was       *)
(* recorded in the first run, is pinned.                                   *)
PinCandidate(t) ==
  /\ th[t].at = "pass"
  /\ th[t].pass.removed < th[t].pass.need /\ th[t].pass.probes > 0
  /\ \E e \in cands :
       LET k == large[LargeOf[e.chunk]]
           i == conts[k].chunks[e.chunk]
       IN /\ k # 0 => ContFree(k)
          /\ cands' = cands \ {e}
          /\ IF Cached(k, e.chunk) /\ UseCount(i) = 1 /\ ~(th[t].pass.recency /\ e.hot)
             THEN Go(t, [th[t] EXCEPT !.at = "flush", !.pin = i, !.cont = k,
                                      !.pass.probes = @ - 1, !.pass.hot = e.hot])
             ELSE Go(t, [th[t] EXCEPT !.pass.probes = @ - 1])
  /\ UNCHANGED <<files, conts, large, objs, ring, loaded, duplicates, keep, latch, pool,
                 ghost>>

\* The end of a run: with nothing removed a second one ignores recency.
EndRun(t) ==
  /\ \/ th[t].at = "ran"
     \/ th[t].at = "pass" /\ (th[t].pass.removed >= th[t].pass.need
                               \/ th[t].pass.probes = 0)
  /\ IF th[t].pass.removed = 0 /\ th[t].pass.recency
     THEN Go(t, [th[t] EXCEPT !.at = "pass", !.pass.recency = FALSE])
     ELSE Go(t, [th[t] EXCEPT !.at = "finish"])
  /\ UNCHANGED <<files, conts, large, objs, ring, cands, loaded, duplicates, keep,
                 latch, pool, ghost>>

Unpinned(t) == [th[t] EXCEPT !.at = "pass", !.pin = 0, !.cont = 0]

KeepsCached(i) == objs[i].broken

(* Step 2, under the chunk's mutex: the batch reaches the WAL and the      *)
(* stream is closed, with a due checkpoint in between.                     *)
FlushCandidate(t) ==
  LET i == th[t].pin
      c == objs[i].chunk
      flushed == IF objs[i].batch THEN Appended(c, objs[i].value) ELSE files
  IN /\ th[t].at = "flush"
     /\ objs[i].lock = Nobody
     /\ IF KeepsCached(i)
        THEN Go(t, Unpinned(t)) /\ UNCHANGED <<files, objs, ghost>>
        ELSE \/ /\ files' = flushed
                /\ objs' = [objs EXCEPT ![i].batch = FALSE, ![i].stream = FALSE]
                /\ Go(t, [th[t] EXCEPT !.at = "remove"])
                /\ UNCHANGED ghost
             \/ /\ ~Poisoned
                /\ files' = flushed
                /\ objs' = [objs EXCEPT ![i].batch = FALSE, ![i].stream = FALSE, ![i].lock = t]
                /\ Go(t, [th[t] EXCEPT !.at = "image"])
                /\ UNCHANGED ghost
             \/ /\ objs[i].batch /\ ghost.faults < ghost.load.faults
                /\ ghost' = [ghost EXCEPT !.faults = @ + 1]
                /\ Go(t, Failing(t))
                /\ UNCHANGED <<files, objs>>
     /\ UNCHANGED <<conts, large, ring, cands, loaded, duplicates, keep, latch, pool>>

InUse(i) == UseCount(i) # 2
(* Mutant: a batch written since step 2 is dropped with the chunk. *)
Reloadable(i) == ~objs[i].broken
Removable(i) == ~objs[i].broken /\ ~objs[i].batch

\* Step 3: the container's mutex, and the count before the chunk's mutex.
LockContainer(t) ==
  LET i == th[t].pin
      k == th[t].cont
  IN /\ th[t].at = "remove"
     /\ ContFree(k)
     /\ IF UseCount(i) # 2 \/ (th[t].pass.recency /\ th[t].pass.hot)
        THEN Go(t, Unpinned(t)) /\ UNCHANGED latch
        ELSE latch' = [latch EXCEPT ![k] = t] /\ Go(t, [th[t] EXCEPT !.at = "erase"])
     /\ UNCHANGED <<files, conts, large, objs, ring, cands, loaded, duplicates, keep,
                    pool, ghost>>

Bumped(t) == [th[t] EXCEPT !.moved = TRUE]

(* Under both mutexes: the stream is closed, which takes the chunk from    *)
(* the pool, and a chunk nobody else uses is removed, after the counter    *)
(* moved for every read that loaded it.                                    *)
EraseCandidate(t) ==
  LET i == th[t].pin
      k == th[t].cont
      c == objs[i].chunk
      removes == Removable(i) /\ ~InUse(i)
  IN /\ th[t].at = "erase"
     /\ objs[i].lock = Nobody
     /\ latch' = [latch EXCEPT ![k] = Nobody]
     /\ objs' = [objs EXCEPT ![i].stream = IF Removable(i) THEN FALSE ELSE @]
     /\ IF removes
        THEN /\ conts' = [conts EXCEPT ![k].chunks[c] = 0]
             /\ th' = [u \in Threads |->
                  IF u = t THEN [Unpinned(t) EXCEPT !.pass.removed = @ + 1,
                                                    !.pass.empty = @ \cup {LargeOf[c]}]
                  ELSE Bumped(u)]
        ELSE Go(t, Unpinned(t)) /\ UNCHANGED conts
     /\ UNCHANGED <<files, large, ring, cands, loaded, duplicates, keep, pool, ghost>>

\* The pass is over: the caller goes on, or its load fails with own_failure;
\* the Keeper logs a failure and takes its next job.
PassOver(t) == IF t = Keeper \/ th[t].pass.failed THEN Idle
               ELSE [th[t] EXCEPT !.at = Use(t), !.pass = NoPass]

\* FinishEvictedChunks takes what was removed from the count ...
SubtractRemoved(t) ==
  /\ th[t].at = "finish"
  /\ loaded' = loaded - th[t].pass.removed
  /\ Go(t, IF th[t].pass.removed = 0 THEN PassOver(t) ELSE [th[t] EXCEPT !.at = "clean"])
  /\ UNCHANGED <<files, conts, large, objs, ring, cands, duplicates, keep, latch, pool,
                 ghost>>

\* RemoveLargeChunkFromEvictionRing of the large chunks in `gone`.
WithoutLarges(r, gone) ==
  LET left == SelectSeq(r.seq, LAMBDA l : l \notin gone)
      before == Cardinality({n \in 1..Len(r.seq) : r.seq[n] \in gone /\ n <= r.at})
  IN [seq |-> left, at |-> IF Len(left) = Len(r.seq) THEN r.at
                           ELSE IF left = <<>> \/ before >= r.at THEN 0
                           ELSE (r.at - before) % Len(left)]

(* ... and retires the containers that went empty, under their mutexes and *)
(* large_chunks_mutex_.                                                    *)
RetireEmpty(t) ==
  LET gone == {l \in th[t].pass.empty : large[l] # 0 /\ conts[large[l]].chunks = NoChunks}
  IN /\ th[t].at = "clean"
     /\ \A l \in th[t].pass.empty : large[l] # 0 => ContFree(large[l])
     /\ conts' = [k \in ContIds |-> IF \E l \in gone : large[l] = k
                                    THEN [conts[k] EXCEPT !.retired = TRUE] ELSE conts[k]]
     /\ ring' = WithoutLarges(ring, gone)
     /\ large' = [l \in Larges |-> IF l \in gone THEN 0 ELSE large[l]]
     /\ Go(t, PassOver(t))
     /\ UNCHANGED <<files, objs, cands, loaded, duplicates, keep, latch, pool, ghost>>

-----------------------------------------------------------------------------
(* MaintenanceLoop, and stopping and starting its thread.                  *)

Drained == keep.stop /\ keep.queue = <<>> /\ ~keep.evict

TakeCheckpoint ==
  /\ keep.runs /\ th[Keeper].at = "idle" /\ keep.queue # <<>>
  /\ keep' = [keep EXCEPT !.queue = Tail(@), !.keys = @ \ {Head(keep.queue)}]
  /\ Go(Keeper, [Idle EXCEPT !.at = "find", !.op = "checkpoint", !.chunk = Head(keep.queue)])
  /\ UNCHANGED <<files, conts, large, objs, ring, cands, loaded, duplicates, latch, pool,
                 ghost>>

\* RunBackgroundCheckpoint: under the chunk's mutex, unless nothing is due.
CheckEligible ==
  /\ th[Keeper].at = "eligible"
  /\ objs[th[Keeper].obj].lock = Nobody
  /\ \/ Release(Keeper) /\ UNCHANGED objs
     \/ /\ ~Poisoned
        /\ objs' = [objs EXCEPT ![th[Keeper].obj].lock = Keeper]
        /\ Go(Keeper, [th[Keeper] EXCEPT !.at = "image"])
  /\ UNCHANGED <<files, conts, large, ring, cands, loaded, duplicates, keep, latch, pool,
                 ghost>>

TakeEviction ==
  /\ keep.runs /\ th[Keeper].at = "idle" /\ keep.queue = <<>> /\ keep.evict
  /\ keep' = [keep EXCEPT !.evict = FALSE]
  /\ Go(Keeper, [Idle EXCEPT !.at = "pass", !.pass = Pass(loaded)])
  /\ UNCHANGED <<files, conts, large, objs, ring, cands, loaded, duplicates, latch, pool,
                 ghost>>

\* StopMaintenanceThread, as an operation that fenced every other does.
StopMaintenance ==
  /\ keep.runs /\ ~keep.stop
  /\ \A t \in Clients : th[t].at = "idle"
  /\ keep' = [keep EXCEPT !.stop = TRUE]
  /\ UNCHANGED <<files, conts, large, objs, ring, cands, loaded, duplicates, th, latch,
                 pool, ghost>>
EndLoop ==
  /\ keep.runs /\ th[Keeper].at = "idle" /\ Drained
  /\ keep' = [keep EXCEPT !.runs = FALSE]
  /\ UNCHANGED <<files, conts, large, objs, ring, cands, loaded, duplicates, th, latch,
                 pool, ghost>>
StartMaintenance ==
  /\ keep.background /\ ~keep.runs
  /\ keep' = [keep EXCEPT !.runs = TRUE, !.stop = FALSE]
  /\ UNCHANGED <<files, conts, large, objs, ring, cands, loaded, duplicates, th, latch,
                 pool, ghost>>

Load(t) == GetOrCreateLargeChunk(t) \/ LookUpOrLoad(t) \/ Touch(t) \/ CountLoaded(t)
Writing(t) == Write(t) \/ EndWrite(t) \/ WriteImage(t) \/ UnlinkWal(t)
Reading(t) == FindContainer(t) \/ LookInContainer(t) \/ ReadCounter(t) \/ ReadImage(t)
                \/ ReadWal(t) \/ LookAgain(t) \/ CopyCached(t) \/ Answer(t)
Evict(t) == RefillCandidates(t) \/ PinCandidate(t) \/ EndRun(t) \/ FlushCandidate(t)
              \/ LockContainer(t) \/ EraseCandidate(t) \/ SubtractRemoved(t)
              \/ RetireEmpty(t)
Maintain == TakeCheckpoint \/ CheckEligible \/ TakeEviction \/ EndLoop
Start == /\ keep.background => keep.runs /\ ~keep.stop     \* not fenced
         /\ \E c \in ghost.load.chunks :
              \/ \E t \in Writers \cap ghost.load.threads :
                   StartWrite(t, c) \/ (ghost.load.gets /\ StartGet(t, c))
              \/ \E t \in Readers \cap ghost.load.threads : StartRead(t, c)
\* An operation that fenced the store waits for the thread and starts it again.
Fence == ghost.load.fence /\ (StopMaintenance \/ StartMaintenance)
Next == \/ Start \/ Maintain \/ Fence \/ PoolDrops
        \/ \E i \in ObjIds : PoolTakes(i)
        \/ \E t \in Threads : Load(t) \/ Writing(t) \/ Reading(t) \/ Evict(t)

Spec == Init /\ [][Next]_vars

-----------------------------------------------------------------------------
(* A chunk has at most one live object, cached or held, so no writer      *)
(* changes a copy another writer's checkpoint will overwrite; the registry *)
(* never counts a duplicate (GetOrLoadRegularChunk, TryEvictCandidate,     *)
(* FinishEvictedChunks).                                                   *)
OneLiveObject == duplicates = 0 /\ \A c \in Chunks : Cardinality(LiveObjs(c)) <= 1

(* Whatever is evicted and loaded again, every live object of a chunk      *)
(* holds its last write, and the files of a chunk that nobody holds        *)
(* replay to it: eviction loses no batch and keeps a chunk whose WAL is    *)
(* wrong.                                                                  *)
NothingLost == \A c \in Chunks :
  /\ \A i \in LiveObjs(c) : objs[i].value = ghost.now[c]
  /\ LiveObjs(c) = {} => Replayed(files[c].image, files[c].wal) = ghost.now[c]

(* A no-cache read answers with a state the chunk had while the read ran,  *)
(* though it reads the image and the WAL with no lock while writes,        *)
(* checkpoints, loads and evictions of the chunk run.                      *)
ReadIsCurrent == \A t \in Threads :
  th[t].at = "answer" => th[t].got \in ghost.during[t]

(* The eviction ring lists exactly the containers of large_chunks_, each   *)
(* once, with its cursor inside, and the shared count is the number of     *)
(* cached chunks once loads and passes have counted, so it never falls     *)
(* below what is to be taken from it.                                      *)
RingAndCountExact ==
  /\ \A l \in Larges : Cardinality({n \in 1..Len(ring.seq) : ring.seq[n] = l})
                          = (IF large[l] = 0 THEN 0 ELSE 1)
  /\ ring.at = 0 \/ ring.at < Len(ring.seq)
  /\ LET uncounted == Cardinality({t \in Threads : th[t].at = "count"})
         removing == {t \in Threads : th[t].at # "clean" /\ th[t].pass.removed > 0}
         taken == Cardinality({t \in removing : th[t].pass.removed = 1})
                    + 2 * Cardinality({t \in removing : th[t].pass.removed = 2})
     IN loaded + uncounted = ghost.load.others + Cardinality({i \in ObjIds : Mapped(i)}) + taken

(* The maintenance thread ends only with its queue empty and no eviction   *)
(* asked for, so a stop abandons no accepted work, and the keys that keep  *)
(* a chunk from being queued twice are those of the queue.                 *)
StopDrains ==
  /\ keep.background /\ ~keep.runs => keep.queue = <<>>
  /\ keep.keys = {keep.queue[n] : n \in 1..Len(keep.queue)}
  /\ Len(keep.queue) = Cardinality(keep.keys)
=============================================================================
