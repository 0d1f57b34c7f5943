---------------------------- MODULE ProcessLock ----------------------------
(***************************************************************************)
(* The writer lock of a data directory (process_lock.cpp): an OS lock on   *)
(* writer.lock, and writer.meta, which names the writer and carries the    *)
(* time of its last heartbeat.  On a shared volume the OS lock may reach   *)
(* only the processes of one host (LockOf says which lock a process asks   *)
(* the kernel for); between hosts the age of the heartbeat decides.        *)
(*                                                                         *)
(* Every file operation is a step of its own: the metadata is read, then   *)
(* judged by a clock read later, moved aside, and written from a text that *)
(* was built earlier.  A process may crash at any of them; the kernel then *)
(* frees its lock and writer.meta stays.                                   *)
(*                                                                         *)
(* The ghost calm is TRUE while the timing the heartbeat relies on holds:  *)
(* no writer's heartbeat in the file is older than BeatWithin, no start    *)
(* takes longer than JudgeWithin from the read of the metadata to the      *)
(* decision, and no two starts overlap.                                    *)
(***************************************************************************)
EXTENDS Integers

CONSTANTS
    Procs,        \* the processes that open the directory for writing
    Host,         \* the host name each one records
    LockOf,       \* the OS lock each one contends for
    Threshold,    \* kWriterStaleThresholdMs
    BeatWithin,   \* how late a heartbeat may reach the file
    JudgeWithin,  \* how long a start may take to judge what it read
    MaxTime,      \* bound on the clock
    MaxStarts     \* bound on the opens

\* A process of one host asks for one lock, and a heartbeat that is in time
\* is not yet stale when a start that is in time judges it (the code beats
\* every 250 ms against a threshold of 5000 ms).  No file names no process.
ASSUME LockAssumption ==
    /\ Threshold \in Nat /\ BeatWithin \in Nat /\ JudgeWithin \in Nat
    /\ BeatWithin + JudgeWithin <= Threshold
    /\ \A p, q \in Procs : Host[p] = Host[q] => LockOf[p] = LockOf[q]
    /\ "nobody" \notin Procs

VARIABLES
    now,     \* UnixMillisNow, the same on every host
    pc,      \* where each process is in the constructor, Release or between
    meta,    \* writer.meta, or NoMeta
    seen,    \* existing_meta and, as a ghost, when it was read
    text,    \* heartbeat_ms of the text each process is about to write
    starts,  \* number of opens so far
    calm     \* ghost: the timing has held so far

vars == <<now, pc, meta, seen, text, starts, calm>>

NoMeta == [by |-> "nobody", host |-> "none", beat |-> 0]

NotRead == [meta |-> NoMeta, at |-> 0]

\* The file names a writer.
Named(m) == m # NoMeta

\* flock: the lock is held from its grant to the close of the descriptor,
\* which the kernel also does for a process that dies.
Holds(p) == pc[p] # "down"

\* Between the read of the metadata and its own entry in it, or undoing that.
Opening(p) == pc[p] \in {"judge", "take", "build", "write", "undo"}

\* The file is this process's: it runs, or stops and has yet to remove it.
Settled(p) == pc[p] \in {"run", "beat", "stop"}

Writing(p) == pc[p] \in {"run", "beat"}

Init ==
    /\ now = 0 /\ starts = 0 /\ calm = TRUE
    /\ pc = [p \in Procs |-> "down"]
    /\ meta = NoMeta
    /\ seen = [p \in Procs |-> NotRead]
    /\ text = [p \in Procs |-> 0]

Go(p, where) == pc' = [pc EXCEPT ![p] = where]

\* Locals end with the call they belong to.
ForgetRead(p) == seen' = [seen EXCEPT ![p] = NotRead]
ForgetText(p) == text' = [text EXCEPT ![p] = 0]

\* The OS lock, without waiting: a lock that is held refuses the open.
Lock(p) ==
    /\ pc[p] = "down" /\ starts < MaxStarts
    /\ starts' = starts + 1
    /\ Go(p, IF \E q \in Procs : LockOf[q] = LockOf[p] /\ Holds(q)
             THEN "down" ELSE "load")
    /\ UNCHANGED <<now, meta, seen, text, calm>>

\* The text is read once; two starts that overlap are not calm.
LoadTextFile(p) ==
    /\ pc[p] = "load"
    /\ seen' = [seen EXCEPT ![p] = [meta |-> meta, at |-> now]]
    /\ calm' = (calm /\ ~\E q \in Procs : q # p /\ Opening(q))
    /\ Go(p, "judge")
    /\ UNCHANGED <<now, meta, text, starts>>

MetadataNamesOtherHost(m, p) == Named(m) /\ m.host # Host[p]

HeartbeatStale(m) == now > m.beat /\ now - m.beat > Threshold

\* A pid means nothing on another host; on the same host a process that
\* holds the lock knows that the writer named in the file is gone.
MetadataLooksStale(m, p) ==
    HeartbeatStale(m) \/ ~MetadataNamesOtherHost(m, p)

\* Mutant: a refused open keeps meta_path_, and Release removes the file.
RefusedRemoves == "undo"

\* A refused open forgets meta_path_: Release only gives up the OS lock.
Refused == "leave"

Judge(p) ==
    /\ pc[p] = "judge"
    /\ Go(p, IF /\ MetadataNamesOtherHost(seen[p].meta, p)
                /\ ~MetadataLooksStale(seen[p].meta, p)
             THEN Refused ELSE "take")
    /\ UNCHANGED <<now, meta, seen, text, starts, calm>>

\* Metadata judged stale is renamed, whatever the name leads to by now; a
\* rename that fails is only logged.  The age is judged a second time.
MoveStale(p) ==
    /\ pc[p] = "take"
    /\ meta' \in IF Named(seen[p].meta) /\ MetadataLooksStale(seen[p].meta, p)
                 THEN {meta, NoMeta} ELSE {meta}
    /\ Go(p, "build")
    /\ ForgetRead(p)
    /\ UNCHANGED <<now, text, starts, calm>>

\* The constructor's first entry, and each turn of the heartbeat thread.
BuildWriterMetadata(p) ==
    /\ pc[p] \in {"build", "run"}
    /\ text' = [text EXCEPT ![p] = now]
    /\ Go(p, IF pc[p] = "build" THEN "write" ELSE "beat")
    /\ UNCHANGED <<now, meta, seen, starts, calm>>

\* AtomicWrite replaces the file by a rename.
WriteWriterMetadata(p) ==
    /\ pc[p] \in {"write", "beat"}
    /\ meta' = [by |-> p, host |-> Host[p], beat |-> text[p]]
    /\ Go(p, "run")
    /\ ForgetText(p)
    /\ UNCHANGED <<now, seen, starts, calm>>

\* A heartbeat that fails is dropped; the thread goes on.
DropHeartbeat(p) ==
    /\ pc[p] = "beat"
    /\ Go(p, "run")
    /\ ForgetText(p)
    /\ UNCHANGED <<now, meta, seen, starts, calm>>

\* A failure in the constructor once the OS lock is held.
Fail(p) ==
    /\ pc[p] \in {"take", "build", "write"}
    /\ Go(p, "undo")
    /\ ForgetRead(p) /\ ForgetText(p)
    /\ UNCHANGED <<now, meta, starts, calm>>

\* Release first stops the heartbeat thread and waits for it.
StopWriterHeartbeat(p) ==
    /\ pc[p] = "run"
    /\ Go(p, "stop")
    /\ UNCHANGED <<now, meta, seen, text, starts, calm>>

\* It then removes the metadata, or logs that it could not.
RemoveMeta(p) ==
    /\ pc[p] \in {"stop", "undo"}
    /\ meta' \in {meta, NoMeta}
    /\ Go(p, "leave")
    /\ UNCHANGED <<now, seen, text, starts, calm>>

\* The OS lock goes last.
Unlock(p) ==
    /\ pc[p] = "leave"
    /\ Go(p, "down")
    /\ ForgetRead(p) /\ ForgetText(p)
    /\ UNCHANGED <<now, meta, starts, calm>>

Crash(p) ==
    /\ pc[p] # "down"
    /\ Go(p, "down")
    /\ ForgetRead(p) /\ ForgetText(p)
    /\ UNCHANGED <<now, meta, starts, calm>>

\* Time passes; a heartbeat, a first entry or a judgement that has not come
\* in time ends the calm.
Tick ==
    /\ now < MaxTime
    /\ now' = now + 1
    /\ calm' = /\ calm
               /\ \A p \in Procs :
                    /\ Settled(p) => now' - meta.beat <= BeatWithin
                    /\ pc[p] = "write" => now' - text[p] <= BeatWithin
                    /\ pc[p] = "judge" => now' - seen[p].at <= JudgeWithin
    /\ UNCHANGED <<pc, meta, seen, text, starts>>

Step(p) ==
    \/ Lock(p)
    \/ LoadTextFile(p)
    \/ Judge(p)
    \/ MoveStale(p)
    \/ BuildWriterMetadata(p)
    \/ WriteWriterMetadata(p)
    \/ DropHeartbeat(p)
    \/ Fail(p)
    \/ StopWriterHeartbeat(p)
    \/ RemoveMeta(p)
    \/ Unlock(p)
    \/ Crash(p)

Next == Tick \/ \E p \in Procs : Step(p)

Spec == Init /\ [][Next]_vars

-----------------------------------------------------------------------------
\* Two processes that share an OS lock never both write the directory.  Two
\* that do not, on different hosts, never do while calm holds, that is, while
\* no two starts have overlapped and heartbeats and judgements were in time;
\* the file then names the one writer there is.  Refused opens, failed starts,
\* late removals and crashes in between change nothing about it
\* (process_lock.cpp, constructor and Release).  Two hosts that start together
\* are not excluded, as docs/KNOWN_LIMITATIONS.md says.
OneWriter ==
    /\ \A p, q \in Procs :
         p # q /\ Writing(p) /\ Writing(q) => LockOf[p] # LockOf[q] /\ ~calm
    /\ calm => \A p \in Procs : Writing(p) => meta.by = p

=============================================================================
