----------------------------- MODULE WalStreams -----------------------------
(***************************************************************************)
(* The shared pool of open WAL append streams (wal_stream_pool.cpp,        *)
(* StoreResources): a writer that holds its chunk's mutex prepares the     *)
(* directory, reserves a place in the pool, closes an idle stream when the *)
(* pool is full, opens its file and registers it.                          *)
(*                                                                         *)
(* Places are granted by ticket.  Only the tickets from the one being      *)
(* served on matter, so they are a queue of the threads that hold them,    *)
(* with None for a ticket its thread abandoned.  The pool's progress       *)
(* counter is compared with what a waiter last saw: a flag per waiter.     *)
(* All chunks have their WAL in one directory, in a synced mode.           *)
(***************************************************************************)
EXTENDS Naturals, Sequences, FiniteSets, SequencesExt

CONSTANTS
  Chunks,
  Threads,
  None,
  Cap,          \* max_open_wal_streams
  ScanBudget,   \* kWalStreamScanBudget
  MaxFaults     \* bound: failed file operations

VARIABLES
  lock,      \* the chunk's mutex
  file,      \* the chunks whose stream is open (wal_stream_initialized)
  lru,       \* open_wal_streams_ in LRU order: [chunk, opening]
  resume,    \* wal_stream_scan_resume_
  queue,     \* tickets from wal_stream_serving_ticket_ on
  dir,       \* the directory: on disk, and wal_parent_dir_cache_
  th,
  faults

vars == <<lock, file, lru, resume, queue, dir, th, faults>>

\* A thread: where it is, the chunks it locked and has yet to write, the one
\* it is writing, the stream it closes to make room, whether it sleeps until
\* notified, and its deadline: none since the pool moved, set, or passed.
Idle == [at |-> "idle", todo |-> <<>>, chunk |-> None, victim |-> None,
         asleep |-> FALSE, deadline |-> "none", retried |-> FALSE]

Init ==
  /\ lock = [c \in Chunks |-> None]
  /\ file = {}
  /\ lru = <<>>
  /\ resume = None
  /\ queue = <<>>
  /\ dir = [exists |-> FALSE, synced |-> FALSE, cached |-> FALSE, preparing |-> FALSE]
  /\ th = [t \in Threads |-> Idle]
  /\ faults = 0

Go(t, r) == th' = [th EXCEPT ![t] = r]
Waiting(t) == th[t].at = "wait"
Entries == {lru[n].chunk : n \in 1..Len(lru)}
Entry(c) == CHOOSE n \in 1..Len(lru) : lru[n].chunk = c
Opening == \E n \in 1..Len(lru) : lru[n].opening
Without(c) == SelectSeq(lru, LAMBDA e : e.chunk # c)
Fails == faults < MaxFaults /\ faults' = faults + 1

\* Every waiter is notified, and sees that the progress counter moved.
Woken(u) == [u EXCEPT !.asleep = FALSE]
Progressed(u) == [u EXCEPT !.asleep = FALSE, !.deadline = "none"]
GoNotify(t, r) == th' = [u \in Threads |->
  IF u = t THEN r ELSE IF Waiting(u) THEN Woken(th[u]) ELSE th[u]]
GoProgress(t, r) == th' = [u \in Threads |->
  IF u = t THEN r ELSE IF Waiting(u) THEN Progressed(th[u]) ELSE th[u]]

-----------------------------------------------------------------------------
(* A write of one chunk, or of the chunks of a commit, which locks them    *)
(* all before it writes the first (RegularChunk::mutex).                   *)

LockChunks(t, todo) ==
  /\ th[t].at = "idle"
  /\ \A c \in Range(todo) : lock[c] = None
  /\ lock' = [c \in Chunks |-> IF c \in Range(todo) THEN t ELSE lock[c]]
  /\ Go(t, [Idle EXCEPT !.at = "ensure", !.todo = todo, !.chunk = Head(todo)])
  /\ UNCHANGED <<file, lru, resume, queue, dir, faults>>

\* Every mutex of the operation is released, at its end or by an exception.
Unlocked(t) == [c \in Chunks |-> IF lock[c] = t THEN None ELSE lock[c]]

-----------------------------------------------------------------------------
(* EnsureWalAppendStream.                                                  *)

\* TouchWalStreamState
Touched(c) == IF c \in Entries THEN Append(Without(c), lru[Entry(c)]) ELSE lru

\* An open stream is used as it is.
UseOpenStream(t) ==
  /\ th[t].at = "ensure"
  /\ th[t].chunk \in file
  /\ lru' = Touched(th[t].chunk)
  /\ Go(t, [th[t] EXCEPT !.at = "append"])
  /\ UNCHANGED <<lock, file, resume, queue, dir, faults>>

\* EnsureWalParentDirectoryCached: a prepared directory is known, one that
\* another thread prepares is waited for.  A retry after a failed open
\* prepares it again (force_refresh).
DirectoryKnown(t) ==
  /\ th[t].at = "ensure" /\ th[t].chunk \notin file
  /\ ~th[t].retried /\ dir.cached
  /\ Go(t, [th[t] EXCEPT !.at = "reserve"])
  /\ UNCHANGED <<lock, file, lru, resume, queue, dir, faults>>
BeginPrepare(t) ==
  /\ th[t].at = "ensure" /\ th[t].chunk \notin file
  /\ th[t].retried \/ ~dir.cached
  /\ ~dir.preparing
  /\ dir' = [dir EXCEPT !.preparing = TRUE]
  /\ Go(t, [th[t] EXCEPT !.at = "prepare"])
  /\ UNCHANGED <<lock, file, lru, resume, queue, faults>>
CreateDirectory(t) ==
  /\ th[t].at = "prepare"
  /\ dir' = [dir EXCEPT !.exists = TRUE]
  /\ Go(t, [th[t] EXCEPT !.at = IF dir.exists THEN "sync found" ELSE "sync made"])
  /\ UNCHANGED <<lock, file, lru, resume, queue, faults>>

SyncsEntry(t) == th[t].at \in {"sync found", "sync made"}
NotPrepared == [dir EXCEPT !.preparing = FALSE]

\* The parent is synced, whoever made the directory; then finish(true), or
\* finish(false) and the failure reaches the caller.
EndPrepare(t) ==
  /\ th[t].at \in {"sync found", "sync made"}
  /\ \/ /\ dir' = [dir EXCEPT !.synced = @ \/ SyncsEntry(t), !.cached = TRUE,
                              !.preparing = FALSE]
        /\ Go(t, [th[t] EXCEPT !.at = IF th[t].retried THEN "open" ELSE "reserve"])
        /\ UNCHANGED <<lock, faults>>
     \/ /\ Fails
        /\ dir' = NotPrepared
        /\ IF th[t].retried THEN Go(t, [th[t] EXCEPT !.at = "give back"]) /\ UNCHANGED lock
           ELSE Go(t, Idle) /\ lock' = Unlocked(t)
  /\ UNCHANGED <<file, lru, resume, queue>>

-----------------------------------------------------------------------------
(* ReserveWalStreamSlot.                                                   *)

\* reserve_locked
Reserved(s, c) ==
  IF c \in {s[n].chunk : n \in 1..Len(s)}
  THEN [n \in 1..Len(s) |-> IF s[n].chunk = c THEN [s[n] EXCEPT !.opening = TRUE] ELSE s[n]]
  ELSE Append(s, [chunk |-> c, opening |-> TRUE])

TakeTicket(t) ==
  /\ th[t].at = "reserve"
  /\ IF th[t].chunk \in Entries
     THEN /\ lru' = Reserved(lru, th[t].chunk)
          /\ Go(t, [th[t] EXCEPT !.at = "open"])
          /\ UNCHANGED queue
     ELSE /\ queue' = Append(queue, t)
          /\ Go(t, [th[t] EXCEPT !.at = "wait", !.deadline = "set", !.asleep = FALSE])
          /\ UNCHANGED lru
  /\ UNCHANGED <<lock, file, resume, dir, faults>>

Served(t) == queue # <<>> /\ Head(queue) = t

\* TakeIdleWalStreamLocked: from `resume` or the least recently used entry on,
\* around the list once at most, up to the first idle stream.  Entries whose
\* stream was closed meanwhile are dropped on the way.
ScanFrom == IF resume \in Entries THEN Entry(resume) ELSE 1
Scanned == [n \in 1..(IF Len(lru) < ScanBudget THEN Len(lru) ELSE ScanBudget) |->
              lru[((ScanFrom + n - 2) % Len(lru)) + 1]]
Takable(e) == ~e.opening /\ e.chunk \in file /\ lock[e.chunk] = None
Gone(e) == ~e.opening /\ e.chunk \notin file
FirstIdle == LET idle == {n \in 1..Len(Scanned) : Takable(Scanned[n])}
             IN IF idle = {} THEN 0 ELSE CHOOSE n \in idle : \A m \in idle : n <= m
Dropped == {Scanned[n].chunk : n \in {n \in 1..Len(Scanned) :
              Gone(Scanned[n]) /\ (FirstIdle = 0 \/ n < FirstIdle)}}
NextResume == IF FirstIdle # 0 \/ Len(lru) <= ScanBudget \/ ScanFrom + ScanBudget > Len(lru)
              THEN None ELSE lru[ScanFrom + ScanBudget].chunk

\* end_turn_locked: the next ticket whose opener still waits.
PassTurn(q) ==
  LET rest == Tail(q) IN IF rest # <<>> /\ Head(rest) = None THEN Tail(rest) ELSE rest

(* Mutant: the opener opens its file without closing the idle stream. *)
OpensAtOnce(victim) == "open"
AfterTake(victim) == IF victim = None THEN "open" ELSE "close victim"

(* The opener being served takes a free place or an idle stream's, and     *)
(* passes the turn on.                                                     *)
TakePlace(t) ==
  LET full == Len(lru) >= Cap
      victim == IF full /\ FirstIdle # 0 THEN Scanned[FirstIdle].chunk ELSE None
      dropped == IF full THEN Dropped ELSE {}
      left == SelectSeq(lru, LAMBDA e : e.chunk \notin dropped \cup {victim})
  IN /\ Waiting(t) /\ ~th[t].asleep /\ Served(t)
     /\ victim # None \/ Len(left) < Cap
     /\ lru' = Reserved(left, th[t].chunk)
     /\ resume' = IF full THEN NextResume ELSE resume
     /\ queue' = PassTurn(queue)
     /\ lock' = IF victim = None THEN lock ELSE [lock EXCEPT ![victim] = t]
     /\ GoProgress(t, [Idle EXCEPT !.todo = th[t].todo, !.chunk = th[t].chunk,
                                !.victim = victim, !.at = AfterTake(victim)])
     /\ UNCHANGED <<file, dir, faults>>

(* Nothing to take: the waiter sleeps, until it is notified or, when it is *)
(* being served, for a short interval.                                     *)
SleepOn(t) ==
  LET full == Len(lru) >= Cap
      left == SelectSeq(lru, LAMBDA e : e.chunk \notin Dropped)
  IN /\ Waiting(t) /\ ~th[t].asleep
     /\ th[t].deadline # "passed" \/ Opening
     /\ Served(t) => full /\ FirstIdle = 0 /\ Len(left) >= Cap
     /\ IF Served(t) THEN lru' = left /\ resume' = NextResume ELSE UNCHANGED <<lru, resume>>
     /\ Go(t, [th[t] EXCEPT !.asleep = ~Served(t), !.deadline = "set"])
     /\ UNCHANGED <<lock, file, queue, dir, faults>>

\* wal_stream_abandoned_tickets_; abandoned tickets in a row count as one.
Abandoned(t) == FoldLeft(
  LAMBDA q, e : IF e \in {t, None} THEN (IF Last(q) = None THEN q ELSE Append(q, None))
                ELSE Append(q, e),
  <<Head(queue)>>, Tail(queue))

\* A whole timeout passes; the waiter wakes and looks once more.
DeadlinePasses(t) ==
  /\ Waiting(t) /\ th[t].deadline = "set"
  /\ Go(t, [th[t] EXCEPT !.deadline = "passed", !.asleep = FALSE])
  /\ UNCHANGED <<lock, file, lru, resume, queue, dir, faults>>

\* It passed without progress and without a stream being opened.
TimeOut(t) ==
  /\ Waiting(t) /\ th[t].deadline = "passed" /\ ~Opening
  /\ Served(t) => Len(lru) >= Cap /\ FirstIdle = 0
  /\ queue' = IF Served(t) THEN PassTurn(queue) ELSE Abandoned(t)
  /\ lock' = Unlocked(t)
  /\ GoNotify(t, Idle)
  /\ UNCHANGED <<file, lru, resume, dir, faults>>

-----------------------------------------------------------------------------
(* CloseWalAppendStream, and the rest of EnsureWalAppendStream.            *)

\* The victim's file is closed before this thread opens its own.
CloseVictimFile(t) ==
  /\ th[t].at = "close victim"
  /\ file' = file \ {th[t].victim}
  /\ Go(t, [th[t] EXCEPT !.at = "forget victim"])
  /\ UNCHANGED <<lock, lru, resume, queue, dir, faults>>
ForgetVictim(t) ==
  /\ th[t].at = "forget victim"
  /\ lru' = Without(th[t].victim)
  /\ resume' = IF resume = th[t].victim THEN None ELSE resume
  /\ lock' = [lock EXCEPT ![th[t].victim] = None]
  /\ GoNotify(t, [th[t] EXCEPT !.at = "open", !.victim = None])
  /\ UNCHANGED <<file, queue, dir, faults>>

OnFailure(t) == "close"

(* The file is opened; after a failure the directory is prepared again and *)
(* the open tried once more.  Then the header is written.                  *)
OpenStream(t) ==
  /\ th[t].at = "open"
  /\ \/ /\ file' = file \cup {th[t].chunk}
        /\ Go(t, [th[t] EXCEPT !.at = "header"])
        /\ UNCHANGED <<dir, faults>>
     \/ /\ Fails
        /\ IF th[t].retried
           THEN Go(t, [th[t] EXCEPT !.at = "give back"]) /\ UNCHANGED dir
           ELSE /\ dir' = [dir EXCEPT !.cached = FALSE]
                /\ Go(t, [th[t] EXCEPT !.at = "ensure", !.retried = TRUE])
        /\ UNCHANGED file
  /\ UNCHANGED <<lock, lru, resume, queue>>

WriteHeader(t) ==
  /\ th[t].at = "header"
  /\ \/ Go(t, [th[t] EXCEPT !.at = "register"]) /\ UNCHANGED faults
     \/ Fails /\ Go(t, [th[t] EXCEPT !.at = OnFailure(t)])
  /\ UNCHANGED <<lock, file, lru, resume, queue, dir>>

Register(t) ==
  /\ th[t].at = "register"
  /\ lru' = Append(Without(th[t].chunk), [chunk |-> th[t].chunk, opening |-> FALSE])
  /\ GoProgress(t, [th[t] EXCEPT !.at = "append"])
  /\ UNCHANGED <<lock, file, resume, queue, dir, faults>>

\* The place of a failed open is given back, and every mutex released.
CloseFailed(t) ==
  /\ th[t].at = "close"
  /\ file' = file \ {th[t].chunk}
  /\ Go(t, [th[t] EXCEPT !.at = "give back"])
  /\ UNCHANGED <<lock, lru, resume, queue, dir, faults>>
GiveBack(t) ==
  /\ th[t].at = "give back"
  /\ lru' = Without(th[t].chunk)
  /\ resume' = IF resume = th[t].chunk THEN None ELSE resume
  /\ lock' = Unlocked(t)
  /\ GoProgress(t, Idle)
  /\ UNCHANGED <<file, queue, dir, faults>>

\* The frame is written; a checkpoint or an eviction closes the stream.  The
\* mutexes are released after the last chunk of the operation.
AppendFrame(t) ==
  LET todo == Tail(th[t].todo)
  IN /\ th[t].at = "append"
     /\ \/ /\ IF todo = <<>> THEN Go(t, Idle) /\ lock' = Unlocked(t)
              ELSE Go(t, [Idle EXCEPT !.at = "ensure", !.todo = todo, !.chunk = Head(todo)])
                     /\ UNCHANGED lock
           /\ UNCHANGED file
        \/ /\ todo = <<>>
           /\ file' = file \ {th[t].chunk}
           /\ Go(t, [th[t] EXCEPT !.at = "give back"])
           /\ UNCHANGED lock
     /\ UNCHANGED <<lru, resume, queue, dir, faults>>

Step(t) == UseOpenStream(t) \/ DirectoryKnown(t) \/ BeginPrepare(t) \/ CreateDirectory(t)
             \/ EndPrepare(t) \/ TakeTicket(t) \/ TakePlace(t) \/ SleepOn(t)
             \/ CloseVictimFile(t) \/ ForgetVictim(t) \/ OpenStream(t) \/ WriteHeader(t)
             \/ Register(t) \/ CloseFailed(t) \/ GiveBack(t) \/ AppendFrame(t)
             \/ TimeOut(t)
Writes == {<<c>> : c \in Chunks} \cup {<<c, d>> : c, d \in Chunks}
Start(t) == \E todo \in {w \in Writes : IsInjective(w)} : LockChunks(t, todo)
Next == \E t \in Threads : Start(t) \/ Step(t) \/ DeadlinePasses(t)

Spec == Init /\ [][Next]_vars
\* Threads are scheduled, and clocks advance.
FairSpec == Spec /\ \A t \in Threads : WF_vars(Step(t)) /\ WF_vars(DeadlinePasses(t))

-----------------------------------------------------------------------------
(* The open WAL files never exceed the cap, although a stream taken from   *)
(* the pool is still open for a while, and a failed open gives its place   *)
(* back (TakeIdleWalStreamLocked, ReserveWalStreamSlot,                    *)
(* EnsureWalAppendStream's ReleaseOnFailure).                              *)
OpenWithinCap == Cardinality(file) <= Cap /\ Len(lru) <= Cap

(* The turn is always with an opener that still waits, whoever gave up     *)
(* before its turn (wal_stream_abandoned_tickets_), and the one being      *)
(* served was notified of it: it does not sleep until somebody else        *)
(* notifies it.                                                            *)
TurnHeld == queue # <<>> => /\ Head(queue) # None
                            /\ Waiting(Head(queue))
                            /\ ~th[Head(queue)].asleep

(* A stream in the pool that nobody uses is open and its chunk has a       *)
(* place; no thread keeps a chunk's mutex after its operation.             *)
PlacesMatch ==
  /\ \A c \in file : lock[c] = None => c \in Entries
  /\ \A c \in Chunks : lock[c] # None => th[lock[c]].at # "idle"

(* In a synced mode no WAL is opened before its directory's entry is       *)
(* durable, also when the thread that made it failed before the sync.      *)
DirectoryDurable == file # {} => dir.synced

Busy(t) == th[t].at # "idle"

=============================================================================
