------------------------------ MODULE WorldScan ------------------------------
(***************************************************************************)
(* SCAN CHUNKS (ScanPopulatedChunks, world_read.cpp): a paged walk over    *)
(* the chunks of a table that other threads write, flush, checkpoint and   *)
(* evict meanwhile.  A page is collected large chunk by large chunk from   *)
(* the scan catalog, first from the cache and then from the directory, into *)
(* a window of the smallest coordinates after the cursor; each candidate   *)
(* is then read.  The writers are threads of the process that scans, or of *)
(* another one, of which the scan sees only the files.                     *)
(*                                                                         *)
(* A coordinate is <<x, y>> with both in MinInt..MaxInt, which stands for  *)
(* the 64-bit integers: large-chunk boxes saturate at its ends.            *)
(***************************************************************************)
EXTENDS Integers, Sequences, FiniteSets, SequencesExt

CONSTANTS
  Coords,          \* chunk coordinates of the world
  MinInt, MaxInt,
  Width, Height,   \* large_chunk_width_chunks, large_chunk_height_chunks
  Limit,           \* LIMIT of a page
  MaxChanges       \* bound: changes of the world during the scan

VARIABLES
  external,   \* access_mode_ is kReadOnly: another process writes
  populated,  \* chunks with present blocks
  cached,     \* chunks in the cache of the process that scans
  dirty,      \* cached chunks whose state is only in a WAL batch
  files,      \* <<chunk, ".chk" or ".wal">>
  dirs,       \* large chunks with a directory
  gen,        \* the snapshot generation, counted for a read-only process
  catalog,    \* scan_catalog_, scan_catalog_ready_, scan_catalog_generation_
  scan,       \* the scan
  ghost       \* of the page: chunks populated throughout, and at some time in
              \* it, and chunks that lost their last name while it was listed

world == <<external, populated, cached, dirty, files, dirs, gen>>
vars == <<world, catalog, scan, ghost>>

-----------------------------------------------------------------------------
(* Coordinates and boxes.                                                  *)

FloorDiv(a, b) == a \div b        \* rounds down, as ChunkToLarge does
LargeOf(c) == <<FloorDiv(c[1], Width), FloorDiv(c[2], Height)>>
Less(a, b) == a[1] < b[1] \/ (a[1] = b[1] /\ a[2] < b[2])    \* ChunkCoordLess
Saturated(n) == IF n < MinInt THEN MinInt ELSE IF n > MaxInt THEN MaxInt ELSE n

\* MakeLargeChunkBox
Box(l) == LET x == Saturated(l[1] * Width)
              y == Saturated(l[2] * Height)
          IN [min |-> <<x, y>>, max |-> <<Saturated(x + Width - 1), Saturated(y + Height - 1)>>]

NoCoord == <<>>
\* LowestBoxCoordAfter; NoCoord when all of the box is at or before the cursor.
LowestBoxCoordAfter(box, cursor) ==
  IF cursor[1] < box.min[1] THEN box.min
  ELSE IF cursor[1] > box.max[1] THEN NoCoord
  ELSE IF cursor[2] < box.min[2] THEN <<cursor[1], box.min[2]>>
  ELSE IF cursor[2] < box.max[2] THEN <<cursor[1], cursor[2] + 1>>
  ELSE IF cursor[1] = box.max[1] THEN NoCoord
  ELSE <<cursor[1] + 1, box.min[2]>>

-----------------------------------------------------------------------------
(* ScanCandidateAccumulator.                                               *)

Largest(set) == CHOOSE c \in set : \A d \in set : d = c \/ Less(d, c)
NoWindow(cursor, bound) == [cursor |-> cursor, bound |-> bound, kept |-> {}, over |-> FALSE]
WindowClosedAt(w, c) == Cardinality(w.kept) >= w.bound /\ ~Less(c, Largest(w.kept))

Smallest(set, n) == {c \in set : Cardinality({d \in set : Less(d, c)}) < n}
(* Mutant: a coordinate that falls out of the full window is forgotten. *)
Forgotten(w, all) == w.over
Overflowed(w, all) == w.over \/ Cardinality(all) > w.bound
Beyond(w, c) == w.cursor # NoCoord => Less(w.cursor, c)
\* Insert, of all the coordinates of one source: the smallest after the cursor stay.
Inserted(w, set) ==
  LET all == w.kept \cup {c \in set : Beyond(w, c)}
  IN [w EXCEPT !.kept = Smallest(all, w.bound), !.over = Overflowed(w, all)]

-----------------------------------------------------------------------------
(* The world.  Every operation leaves the chunk where the code does: a     *)
(* write loads it and leaves the state in the batch, the WAL or the image. *)

Resident(l) == \E c \in cached : LargeOf(c) = l
\* GetOrCreateLargeChunk lists a new container in a ready catalog.
Listed(c) == IF catalog.ready THEN [catalog EXCEPT !.set = @ \cup {LargeOf(c)}] ELSE catalog

Seen(c, now) == [ghost EXCEPT !.always = IF now THEN @ ELSE @ \ {c},
                              !.some = IF now THEN @ \cup {c} ELSE @]
Changes == scan.changes < MaxChanges
(* A change of what is being listed: a name that stays is listed, one that *)
(* comes or goes meanwhile may or may not be.                              *)
Changed(names) ==
  [scan EXCEPT !.changes = @ + 1,
               !.kept = IF scan.at \in {"building", "listing"} THEN @ \cap names ELSE @,
               !.names = IF scan.at \in {"building", "listing"} THEN @ \cup names ELSE @]
NoName == Changed(scan.kept)
Moves(fs, ds) == Changed(IF scan.at = "building" THEN ds ELSE fs)
\* large_chunks_mutex_ is held while the catalog is built.
RegistryFree == scan.at # "building"
Publishes == gen' = IF external THEN gen + 1 ELSE gen

Populates(c) ==
  \E now \in BOOLEAN :
    /\ populated' = IF now THEN populated \cup {c} ELSE populated \ {c}
    /\ ghost' = Seen(c, now)

\* A read that brings the chunk into the cache, there or not.
Load(c) ==
  /\ Changes /\ RegistryFree /\ c \notin cached
  /\ cached' = cached \cup {c}
  /\ catalog' = Listed(c)
  /\ scan' = NoName
  /\ UNCHANGED <<external, populated, dirty, files, dirs, gen, ghost>>

\* A write that populates the chunk, or clears its last block, left in the batch.
Write(c) ==
  /\ Changes /\ RegistryFree /\ ~external
  /\ Populates(c)
  /\ cached' = cached \cup {c}
  /\ dirty' = dirty \cup {c}
  /\ catalog' = Listed(c)
  /\ scan' = NoName
  /\ UNCHANGED <<external, files, dirs, gen>>

\* The batch reaches the WAL, in the large chunk's directory; one of another
\* process is seen from then on.
Flush(c) ==
  /\ Changes
  /\ \/ c \in dirty /\ UNCHANGED <<populated, ghost>>
     \/ external /\ Populates(c)
  /\ dirty' = dirty \ {c}
  /\ files' = files \cup {<<c, ".wal">>}
  /\ dirs' = dirs \cup {LargeOf(c)}
  /\ Publishes
  /\ scan' = Moves(files', dirs')
  /\ UNCHANGED <<external, cached, catalog>>

NamesOf(c) == {<<c, ".chk">>, <<c, ".wal">>}
\* A chunk is loaded and, if due, checkpointed: a populated chunk gets an
\* image and loses its WAL, an empty one loses both, and with the last of its
\* files the large chunk loses its directory.
Checkpoint(c) ==
  LET l == LargeOf(c)
      bare == ~\E f \in files' : LargeOf(f[1]) = l
  IN /\ Changes
     /\ c \in cached \/ RegistryFree
     /\ NamesOf(c) \cap files # {} \/ (c \in cached /\ ~external)
     /\ cached' = IF external THEN cached ELSE cached \cup {c}
     /\ catalog' = IF external THEN catalog ELSE Listed(c)
     /\ dirty' = dirty \ {c}
     /\ files' = (files \ NamesOf(c)) \cup (IF c \in populated THEN {<<c, ".chk">>} ELSE {})
     /\ dirs' = IF bare THEN dirs \ {l} ELSE dirs \cup {l}
     /\ Publishes
     /\ scan' = Moves(files', dirs')
     /\ ghost' = IF /\ scan.at = "listing" /\ c \notin scan.hot
                    /\ NamesOf(c) \cap scan.kept # {} /\ NamesOf(c) \cap scan'.kept = {}
                 THEN [ghost EXCEPT !.moved = @ \cup {c}] ELSE ghost
     /\ UNCHANGED <<external, populated>>

\* An eviction; the last chunk takes the container and, without a directory,
\* the catalog's entry with it.
Evict(c) ==
  LET l == LargeOf(c)
      last == ~\E d \in cached \ {c} : LargeOf(d) = l
  IN /\ Changes /\ RegistryFree /\ c \in cached \ dirty
     /\ cached' = cached \ {c}
     /\ catalog' = IF last /\ l \notin dirs THEN [catalog EXCEPT !.set = @ \ {l}] ELSE catalog
     /\ scan' = [NoName EXCEPT !.cont = IF last /\ scan.key = l THEN FALSE ELSE @]
     /\ UNCHANGED <<external, populated, dirty, files, dirs, gen, ghost>>

-----------------------------------------------------------------------------
(* ScanPopulatedChunks.  The client asks page after page, from the last    *)
(* coordinate returned, until `more` is false.                             *)

Lowest == <<MinInt - 1, MinInt>>

StartPass(s, cursor) ==
  [s EXCEPT !.at = "catalog", !.win = NoWindow(cursor, Limit + 1 - Len(s.page)),
            !.key = IF cursor = NoCoord THEN Lowest ELSE <<LargeOf(cursor)[1], MinInt - 1>>]

AskPage ==
  /\ scan.at = "client"
  /\ scan' = StartPass([scan EXCEPT !.page = <<>>],
                       IF scan.got = <<>> THEN NoCoord ELSE Last(scan.got))
  /\ ghost' = [always |-> populated, some |-> populated, moved |-> {}]
  /\ UNCHANGED <<world, catalog>>

Unstable == -1     \* a generation observed odd
\* A ready catalog serves its own process for good, and a read-only one for as
\* long as the generation is the stable one it was built at.
CatalogServes(seen) ==
  catalog.ready /\ (external => seen # Unstable /\ seen = catalog.gen)

\* EnsureScanCatalog: the generation is observed before the directories are
\* listed, and their containers added.
EnsureCatalog ==
  /\ scan.at = "catalog"
  /\ \E seen \in {gen} \cup (IF external THEN {Unstable} ELSE {}) :
       IF CatalogServes(seen) THEN scan' = [scan EXCEPT !.at = "walk"] /\ UNCHANGED catalog
       ELSE /\ scan' = [scan EXCEPT !.at = "building", !.kept = dirs, !.names = dirs]
            /\ catalog' = [catalog EXCEPT !.gen = seen]
  /\ UNCHANGED <<world, ghost>>

\* What a listing returns while names come and go.
Listings == {scan.kept \cup extra : extra \in SUBSET (scan.names \ scan.kept)}
BuildCatalog ==
  /\ scan.at = "building"
  /\ \E listed \in Listings :
       catalog' = [catalog EXCEPT !.ready = TRUE, !.set = listed \cup {LargeOf(c) : c \in cached}]
  /\ scan' = [scan EXCEPT !.at = "walk", !.kept = {}, !.names = {}]
  /\ UNCHANGED <<world, ghost>>

Ahead == {l \in catalog.set : Less(scan.key, l)}
Next1 == CHOOSE l \in Ahead : \A m \in Ahead : m = l \/ Less(l, m)

\* classify
Lowest1(l) == IF scan.win.cursor = NoCoord THEN Box(l).min
              ELSE LowestBoxCoordAfter(Box(l), scan.win.cursor)
Classify(l) ==
  IF WindowClosedAt(scan.win, <<Box(l).min[1], MinInt>>) THEN "stop"
  ELSE IF Lowest1(l) = NoCoord THEN "passed"
  ELSE IF WindowClosedAt(scan.win, Lowest1(l)) THEN "beyond" ELSE "visit"

(* Mutant: the directory is listed before the cache is looked at. *)
DirectoryFirst == <<"list", "cache">>
Sources == <<"cache", "list">>
After(source) == IF source = Sources[1] THEN Sources[2] ELSE "walk"

(* The next large chunk of the catalog, with its container if resident;    *)
(* the window decides whether it is visited.                               *)
WalkOn ==
  /\ scan.at = "walk"
  /\ IF Ahead = {} THEN scan' = [scan EXCEPT !.at = "read", !.todo = SetToSortSeq(scan.win.kept, Less)]
     ELSE LET l == Next1
              verdict == Classify(l)
          IN scan' = [scan EXCEPT
               !.key = l,
               !.cont = Resident(l),
               !.win.over = @ \/ verdict \in {"stop", "beyond"},
               !.todo = IF verdict = "stop" THEN SetToSortSeq(scan.win.kept, Less) ELSE @,
               !.at = CASE verdict = "stop" -> "read" [] verdict = "visit" -> Sources[1]
                        [] OTHER -> "walk"]
  /\ UNCHANGED <<world, catalog, ghost>>

InBox(set) == {c \in set : LargeOf(c) = scan.key}

\* MergeCachedCandidates; a container retired since is empty.
MergeCached ==
  /\ scan.at = "cache"
  /\ LET merged == IF scan.cont THEN InBox(cached) ELSE {}
     IN scan' = [scan EXCEPT !.at = After("cache"), !.hot = merged, !.win = Inserted(@, merged)]
  /\ UNCHANGED <<world, catalog, ghost>>

\* The directory's names, read one by one while others come and go.
OpenDirectory ==
  /\ scan.at = "list"
  /\ scan' = IF scan.key \in dirs THEN [scan EXCEPT !.at = "listing", !.kept = files, !.names = files]
             ELSE [scan EXCEPT !.at = After("list")]
  /\ UNCHANGED <<world, catalog, ghost>>
ListDirectory ==
  /\ scan.at = "listing"
  /\ \E names \in Listings :
       scan' = [scan EXCEPT !.at = After("list"), !.kept = {}, !.names = {}, !.hot = {},
                            !.win = Inserted(@, InBox({f[1] : f \in names}))]
  /\ UNCHANGED <<world, catalog, ghost>>

(* Each candidate is read (ReadPopulatedChunkStateNoCache).  A page with   *)
(* its limit of chunks and one more has more; a pass that overflowed its   *)
(* window without filling the page is followed by another.                 *)
ReadCandidate ==
  /\ scan.at = "read" /\ scan.todo # <<>>
  /\ LET c == Head(scan.todo)
     IN scan' = IF c \notin populated THEN [scan EXCEPT !.todo = Tail(@)]
                ELSE IF Len(scan.page) >= Limit
                THEN [scan EXCEPT !.at = "client", !.todo = <<>>, !.got = @ \o scan.page]
                ELSE [scan EXCEPT !.todo = Tail(@), !.page = Append(@, c)]
  /\ UNCHANGED <<world, catalog, ghost>>

GoesOn == scan.win.over /\ Len(scan.page) <= Limit

EndPass ==
  /\ scan.at = "read" /\ scan.todo = <<>>
  /\ scan' = IF GoesOn THEN StartPass(scan, Largest(scan.win.kept))
             ELSE [scan EXCEPT !.at = "done", !.got = @ \o scan.page]
  /\ UNCHANGED <<world, catalog, ghost>>

Init ==
  /\ external \in BOOLEAN
  /\ \E wal \in SUBSET Coords : \E batch \in SUBSET (Coords \ wal) :
       /\ external => batch = {}
       /\ files = {<<c, ".wal">> : c \in wal}
       /\ dirty = batch /\ cached = batch
       /\ populated \in {batch \cup p : p \in SUBSET wal}   \* a WAL may clear its chunk
  /\ dirs = {LargeOf(f[1]) : f \in files}
  /\ gen = 0
  /\ catalog = [ready |-> FALSE, set |-> {}, gen |-> 0]
  /\ scan = [at |-> "client", got |-> <<>>, page |-> <<>>, win |-> NoWindow(NoCoord, 0),
             key |-> Lowest, cont |-> FALSE, hot |-> {}, kept |-> {}, names |-> {},
             todo |-> <<>>, changes |-> 0]
  /\ ghost = [always |-> {}, some |-> {}, moved |-> {}]

Scan == AskPage \/ EnsureCatalog \/ BuildCatalog \/ WalkOn \/ MergeCached \/ OpenDirectory
          \/ ListDirectory \/ ReadCandidate \/ EndPass
World == /\ scan.at # "done"
         /\ \E c \in Coords : Load(c) \/ Write(c) \/ Flush(c) \/ Checkpoint(c) \/ Evict(c)
Next == Scan \/ World
Spec == Init /\ [][Next]_vars

-----------------------------------------------------------------------------
Before == LET n == Len(scan.got) - Len(scan.page) IN IF n = 0 THEN NoCoord ELSE scan.got[n]
Covered(c) == /\ Before # NoCoord => Less(Before, c)
              /\ scan.at = "done" \/ ~Less(Last(scan.page), c)
(* A page returned every chunk of its range that was populated throughout  *)
(* it, and only chunks populated at some time in it, whatever this or      *)
(* another process wrote, flushed, checkpointed, collected and evicted     *)
(* between its steps: the catalog is not stale, the cache is looked at     *)
(* before the directory, and a window that overflowed is resumed after.    *)
(* The exception is a chunk that was not in the cache and whose last name  *)
(* went while the directory was listed: a listing may miss the name that   *)
(* replaced it.                                                            *)
ScanComplete ==
  scan.at \in {"client", "done"} =>
    /\ \A c \in ghost.always \ ghost.moved : Covered(c) => c \in Range(scan.page)
    /\ Range(scan.page) \subseteq ghost.some

(* The coordinates of all pages ascend strictly: no chunk is returned      *)
(* twice, and the next page starts after the last.                         *)
InOrder == LET all == IF scan.at \in {"client", "done"} THEN scan.got ELSE scan.got \o scan.page
           IN \A m, n \in 1..Len(all) : m < n => Less(all[m], all[n])
=============================================================================
