------------------------------- MODULE MCWorld ------------------------------
(***************************************************************************)
(* What reads or takes a whole table or directory: a scan of the populated *)
(* chunks, the cut of a backup, the publication of a restored directory,   *)
(* and the lock of a writer on its directory. A behaviour runs one of the  *)
(* four and leaves the variables of the others alone; a cut runs with more *)
(* writes, or with a failure.                                              *)
(***************************************************************************)
EXTENDS ProcessLock, TLC

CONSTANTS p1, p2, a, b, k1, none, target   \* model values

VARIABLE part   \* the component that runs, for the whole of a behaviour
VARIABLES external, populated, cached, dirty, files, dirs, gen, catalog,
          scan, ghost, clock, bound, th, mem, lock, image, wal, inode, gate, keeper, bk,
          kind, obj, at, kept, pr, bounds

\* Two processes share a host, and with it the OS lock.
Hosts == (p1 :> "h") @@ (p2 :> "h") @@ (k1 :> "i")

S_Coords == {<<-2, 0>>, <<-2, 1>>, <<-1, 0>>}
S_MinInt == -2
S == INSTANCE WorldScan WITH
       Coords <- S_Coords, MinInt <- S_MinInt, MaxInt <- 2, Width <- 3,
       Height <- 1, Limit <- 1, MaxChanges <- 2

B_Chunks == {a, b}
B_Writers == {p1, p2}
B == INSTANCE BackupCut WITH
       Chunks <- B_Chunks, Writers <- B_Writers, Keeper <- k1,
       Nobody <- none, MaxWrites <- 3, MaxCheckpoints <- 1, MaxFailures <- 0
F == INSTANCE BackupCut WITH
       Chunks <- B_Chunks, Writers <- B_Writers, Keeper <- k1,
       Nobody <- none, MaxWrites <- 2, MaxCheckpoints <- 2, MaxFailures <- 1

P_Procs == {p1, p2}
P_Inventory == <<"f", "g">>
P == INSTANCE BackupPublish WITH
       Procs <- P_Procs, Inventory <- P_Inventory, MaxFaults <- 2,
       MaxStarts <- 2, Target <- target

\* A scan and a cut share dirs and ghost.
scanVars == <<external, populated, cached, dirty, files, gen, catalog, scan>>
cutVars == <<clock, bound, th, mem, lock, image, wal, inode, gate, keeper, bk>>
publishVars == <<kind, obj, at, kept, pr, bounds>>
all == <<part, vars, scanVars, dirs, ghost, cutVars, publishVars>>

NoScan == /\ external = 0 /\ populated = 0 /\ cached = 0 /\ dirty = 0
          /\ files = 0 /\ gen = 0 /\ catalog = 0 /\ scan = 0
NoCut == /\ clock = 0 /\ bound = 0 /\ th = 0 /\ mem = 0 /\ lock = 0 /\ image = 0
         /\ wal = 0 /\ inode = 0 /\ gate = 0 /\ keeper = 0 /\ bk = 0
NoPublish == kind = 0 /\ obj = 0 /\ at = 0 /\ kept = 0 /\ pr = 0 /\ bounds = 0
Neither == dirs = 0 /\ ghost = 0

PartInit ==
    /\ Init
    /\ \/ part = "lock" /\ NoScan /\ Neither /\ NoCut /\ NoPublish
       \/ part = "scan" /\ S!Init /\ NoCut /\ NoPublish
       \/ part = "cut" /\ B!Init /\ NoScan /\ NoPublish
       \/ part = "failing" /\ F!Init /\ NoScan /\ NoPublish
       \/ part = "publish" /\ P!Init /\ NoScan /\ Neither /\ NoCut

PartNext ==
    \/ /\ part = "lock" /\ Next
       /\ UNCHANGED <<part, scanVars, dirs, ghost, cutVars, publishVars>>
    \/ part = "scan" /\ S!Next /\ UNCHANGED <<part, vars, cutVars, publishVars>>
    \/ part = "cut" /\ B!Next /\ UNCHANGED <<part, vars, scanVars, publishVars>>
    \/ part = "failing" /\ F!Next /\ UNCHANGED <<part, vars, scanVars, publishVars>>
    \/ /\ part = "publish" /\ P!Next
       /\ UNCHANGED <<part, vars, scanVars, dirs, ghost, cutVars>>

PartSpec == PartInit /\ [][PartNext]_all

\* Writers and the processes of a host are interchangeable, and so are the chunks of a cut.
Interchange == Permutations({p1, p2}) \cup Permutations({a, b})

-----------------------------------------------------------------------------
(* A page of a scan has every chunk of its range that was populated        *)
(* throughout it, none twice, in order, however writes, checkpoints,       *)
(* collections and evictions of this or another process move chunks        *)
(* between the cache and the files; a chunk outside of the cache whose     *)
(* last name goes while its directory is listed is the exception.          *)
ScanComplete == part = "scan" => S!ScanComplete /\ S!InOrder

(* The files of a backup replay to the state the table had at one version, *)
(* every write at or below it and none after, and the table itself loses   *)
(* nothing by it.                                                          *)
CutIsExact ==
    /\ part = "cut" => B!CutIsExact /\ B!LiveStateKept
    /\ part = "failing" => F!CutIsExact /\ F!LiveStateKept

(* A directory that is not whole carries its guard, so that no start       *)
(* serves it; a restore that was reported as done stays done after a power *)
(* loss, and one that failed leaves nothing that looks done.               *)
RestoredWhole ==
    part = "publish" => P!GuardedUntilWhole /\ P!SuccessStays /\ P!FailureStays
=============================================================================
