------------------------------ MODULE MCStorage -----------------------------
(***************************************************************************)
(* How chunks are shared: with readers of other processes, and in the      *)
(* cache with its evictions; and how the blocks of a chunk are laid out,   *)
(* written, logged and replayed. A behaviour runs one of the three and     *)
(* leaves the variables of the others alone; the readers run under four    *)
(* sets of bounds.                                                         *)
(***************************************************************************)
EXTENDS SnapshotGeneration, TLC

CONSTANTS p1, p2, w1, r1, k1, c1, c2, l1, l2   \* model values

VARIABLE part   \* the component that runs, for the whole of a behaviour
VARIABLES files, conts, large, objs, ring, cands, loaded, duplicates, th,
          keep, latch, pool, cache_ghost, plan, schema, pending, mem, rev,
          clock, batch, wal, image, pc, rows, staged, block_kept, count

Base == [chunks |-> {c1}, threads |-> {w1}, writes |-> 2, faults |-> 0, gets |-> FALSE,
         fence |-> FALSE, background |-> TRUE, others |-> 1]
CacheLoads ==
    {[Base EXCEPT !.threads = {w1, r1}, !.writes = 1],
     [Base EXCEPT !.threads = {w1, r1}, !.others = 0],
     [Base EXCEPT !.faults = 1, !.writes = 3],
     [Base EXCEPT !.chunks = {c1, c2}, !.writes = 3, !.background = FALSE, !.others = 0],
     [Base EXCEPT !.fence = TRUE],
     [Base EXCEPT !.chunks = {c1, c2}, !.writes = 0, !.gets = TRUE, !.others = 0],
     [Base EXCEPT !.chunks = {c1, c2}, !.writes = 0, !.gets = TRUE, !.background = FALSE]}

\* Columns of fixed width and of bytes, and the versions of two tables: one
\* gains a column and has values clamped, the other is narrowed exactly.
Null == 1000
NoDefault == 2000
Fixed(id, width, conversion) ==
    [id |-> id, width |-> width, signed |-> FALSE, nullable |-> TRUE, required |-> FALSE,
     default |-> NoDefault, size |-> 0, conversion |-> conversion]
Text(id, size, conversion) == [Fixed(id, 0, conversion) EXCEPT !.size = size]
Hard(column) == [column EXCEPT !.nullable = FALSE]
Whole(column) == [Hard(column) EXCEPT !.signed = TRUE, !.required = TRUE]
Edit(block, given) == [b |-> block, given |-> given]
Converted ==
    [schemas |-> <<<<Fixed(1, 3, "exact"), Text(2, 2, "exact")>>,
                   <<[Fixed(3, 1, "exact") EXCEPT !.default = 1], Fixed(1, 2, "clamp"),
                     Text(2, 1, "truncate")>>>>,
     narrowed |-> {}, halves |-> TRUE, writes |-> 3,
     edits |-> {Edit(0, 1 :> 5), Edit(0, 1 :> Null @@ 2 :> 2), Edit(0, <<>>)},
     wholes |-> {[payload |-> <<0, 1, 1>>, present |-> {0, 2}]},
     txns |-> {<<Edit(1, 2 :> 2), Edit(2, 1 :> 7)>>}]
Narrowed ==
    [schemas |-> <<<<Whole(Fixed(1, 3, "exact")), Hard(Text(2, 2, "exact"))>>,
                   <<Whole(Fixed(1, 2, "exact")), Hard(Text(2, 1, "exact"))>>>>,
     narrowed |-> {2}, halves |-> FALSE, writes |-> 2,
     edits |-> {Edit(0, 1 :> -3 @@ 2 :> 2), Edit(0, 1 :> -1 @@ 2 :> 1)},
     wholes |-> {[payload |-> <<1>>, present |-> {1}]},
     txns |-> {<<Edit(0, 1 :> -1), Edit(1, 1 :> 0)>>}]
BlockPlans == {Converted, Narrowed}

C_Chunks == {c1, c2}
C_LargeOf == (c1 :> l1) @@ (c2 :> l2)
C_Writers == {w1}
C_Readers == {r1}
C == INSTANCE ChunkCache WITH
       Chunks <- C_Chunks, LargeOf <- C_LargeOf, Writers <- C_Writers,
       Readers <- C_Readers, Keeper <- k1, MaxLoaded <- 1, Probes <- 2,
       RefillBudget <- 1, Attempts <- 2, QueueLimit <- 1, MaxWrites <- 3,
       Loads <- CacheLoads, ghost <- cache_ghost

B == INSTANCE BlockWrites WITH
       ByteBits <- 2, NBlocks <- 3, EntryHeader <- 1, VarLimit <- 4,
       Gap <- 1, MaxStops <- 2, Plans <- BlockPlans, kept <- block_kept

\* The readers under other bounds: in turn, so that a copy is kept or loaded
\* again; two at once, of the copies they share; and of two chunks that are
\* changed at once, both of a table closed before.
OneWriter == {p1}
TwoReads == {k1, r1}
K == INSTANCE SnapshotGeneration WITH
       Writers <- OneWriter, MaxAttempts <- 2, MaxStarts <- 1, MaxReads <- 2,
       MaxMishaps <- 1
P == INSTANCE SnapshotGeneration WITH
       Writers <- OneWriter, Readers <- TwoReads, MaxStarts <- 1, MaxReads <- 3,
       MaxMishaps <- 0
O == INSTANCE SnapshotGeneration WITH
       Chunks <- C_Chunks, Writers <- OneWriter, MaxStarts <- 1, MaxChanges <- 2,
       MaxMishaps <- 1

cacheVars == <<files, conts, large, objs, ring, cands, loaded, duplicates, th, keep,
               latch, pool, cache_ghost>>
blockVars == <<plan, schema, pending, mem, rev, clock, batch, wal, image, pc, rows,
               staged, block_kept, count>>
all == <<part, vars, cacheVars, blockVars>>

NoCache == /\ files = 0 /\ conts = 0 /\ large = 0 /\ objs = 0 /\ ring = 0
           /\ cands = 0 /\ loaded = 0 /\ duplicates = 0 /\ th = 0 /\ keep = 0
           /\ latch = 0 /\ pool = 0 /\ cache_ghost = 0
NoBlocks == /\ plan = 0 /\ schema = 0 /\ pending = 0 /\ mem = 0 /\ rev = 0
            /\ clock = 0 /\ batch = 0 /\ wal = 0 /\ image = 0 /\ pc = 0
            /\ rows = 0 /\ staged = 0 /\ block_kept = 0 /\ count = 0

PartInit ==
    \/ part = "generation" /\ Init /\ NoCache /\ NoBlocks
    \/ part = "kept" /\ K!Init /\ NoCache /\ NoBlocks
    \/ part = "shared" /\ P!Init /\ record = 2 /\ NoCache /\ NoBlocks
    \/ part = "guards" /\ O!Init /\ record = 2 /\ NoCache /\ NoBlocks
    \/ part = "cache" /\ C!Init /\ Init /\ record = NoRecord /\ NoBlocks
    \/ part = "blocks" /\ B!Init /\ Init /\ record = NoRecord /\ NoCache

PartNext ==
    \/ part = "generation" /\ Next /\ UNCHANGED <<part, cacheVars, blockVars>>
    \/ part = "kept" /\ K!Next /\ UNCHANGED <<part, cacheVars, blockVars>>
    \/ part = "shared" /\ P!Next /\ UNCHANGED <<part, cacheVars, blockVars>>
    \/ part = "guards" /\ O!Next /\ UNCHANGED <<part, cacheVars, blockVars>>
    \/ part = "cache" /\ C!Next /\ UNCHANGED <<part, vars, blockVars>>
    \/ part = "blocks" /\ B!Next /\ UNCHANGED <<part, vars, cacheVars>>

PartSpec == PartInit /\ [][PartNext]_all

\* The writers of a table are interchangeable.
Interchange == Permutations({p1, p2})

-----------------------------------------------------------------------------
(* A read of a read-only process returns a state its chunk committed while *)
(* the read ran, of the store the process opened: whether the files were   *)
(* collected, a kept copy was still current or was loaded again, or a copy *)
(* of another read of the process was later than the collection, and with  *)
(* the guards of two changes overlapping. The exception is a collection    *)
(* during which the table is dropped; reads that run at once are checked   *)
(* for a table that is not dropped.                                        *)
ReadersSeeCommitted ==
    /\ part = "generation" => ReadsCommitted
    /\ part = "kept" => K!ReadsCommitted
    /\ part = "shared" => P!ReadsCommitted
    /\ part = "guards" => O!ReadsCommitted

(* A chunk has one live object however evictions and loads race, and a     *)
(* thread that uses one uses the one in the cache. Acknowledged writes are *)
(* in the live object or in the files, a read without the cache returns a  *)
(* state the chunk had during the read, the clock ring and the count match *)
(* the cache, and a stop drains the queue.                                 *)
CacheKeepsWrites ==
    part = "cache" =>
        /\ C!OneLiveObject /\ C!NothingLost /\ C!ReadIsCurrent
        /\ C!RingAndCountExact /\ C!StopDrains

(* Every block of a chunk in memory reads as it was last written, by its   *)
(* own columns only, whatever was written beside it and however the schema *)
(* has changed since; a chunk that was empty in between starts from unset  *)
(* values.                                                                 *)
RowsAsWritten == part = "blocks" => B!RowsAsWritten

(* What a crash leaves of the WAL and the image, at any point of a write,  *)
(* a checkpoint, a collection or a change of the schema, replays to the    *)
(* rows that were acknowledged, in the layout of the schema of the day.    *)
FilesReplay == part = "blocks" => B!FilesReplay
=============================================================================
