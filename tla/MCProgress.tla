----------------------------- MODULE MCProgress -----------------------------
(***************************************************************************)
(* What has to end: the wait for a table, a backup, an append that waits   *)
(* for a WAL stream, the stop of the server, and a watch whose right was   *)
(* taken away. A behaviour runs one component under the fairness of its    *)
(* threads, and leaves the variables of the others alone.                  *)
(***************************************************************************)
EXTENDS TableLease, TLC

CONSTANTS p1, p2, a, b, c3, k1, none   \* model values

VARIABLE part   \* the component that runs, for the whole of a behaviour
VARIABLES lock, file, lru, resume, queue, dir, th, stream_faults, clock,
          bound, mem, image, wal, inode, dirs, gate, keeper, bk, ghost,
          running, listening, acceptor, stopping, owner, shut, conn,
          accepts, requests, pending, active, worker, handshakes,
          watch_count, incoming, watches, io, wake, users, nextInc, view,
          generation, holder, may, history, acked, sess, watch, user_feed,
          left

W_Chunks == {a, b, c3}
W_Threads == {p1, p2}
W == INSTANCE WalStreams WITH
       Chunks <- W_Chunks, Threads <- W_Threads, None <- none, Cap <- 1,
       ScanBudget <- 2, MaxFaults <- 1, faults <- stream_faults

B_Chunks == {a, b}
B_Writers == {p1, p2}
B == INSTANCE BackupCut WITH
       Chunks <- B_Chunks, Writers <- B_Writers, Keeper <- k1,
       Nobody <- none, MaxWrites <- 2, MaxCheckpoints <- 1, MaxFailures <- 0

C_Workers == {p1}
C_Sources == {"s"}
C == INSTANCE ServerConnections WITH
       Workers <- C_Workers, Sources <- C_Sources, Proxied <- FALSE,
       MaxPending <- 1, MaxWatches <- 1, MaxHandshakes <- 1,
       MaxAccepts <- 1, MaxRequests <- 2

U_Names == {"admin", "u"}
U_Tables == {"t"}
U_Sessions == {p1, p2}
U_Grantees == {"u"}
U_Workloads == {[changes |-> 1, statements |-> 3, frames |-> 1, faults |-> 0]}
U == INSTANCE UserRights WITH
       Names <- U_Names, First <- "admin", Tables <- U_Tables, Every <- "*",
       Sessions <- U_Sessions, Admin <- 2, Grantees <- U_Grantees,
       Workloads <- U_Workloads, feed <- user_feed

all == <<part, vars, lock, file, lru, resume, queue, dir, th, stream_faults,
         clock, bound, mem, image, wal, inode, dirs, gate, keeper, bk,
         ghost, running, listening, acceptor, stopping, owner, shut, conn,
         accepts, requests, pending, active, worker, handshakes,
         watch_count, incoming, watches, io, wake, users, nextInc, view,
         generation, holder, may, history, acked, sess, watch, user_feed,
         left>>

PartInit ==
    \/ /\ part = "lease" /\ Init
       /\ lock = 0 /\ file = 0 /\ lru = 0 /\ resume = 0 /\ queue = 0 /\
          dir = 0 /\ th = 0 /\ stream_faults = 0 /\ clock = 0 /\
          bound = 0 /\ mem = 0 /\ image = 0 /\ wal = 0 /\ inode = 0 /\
          dirs = 0 /\ gate = 0 /\ keeper = 0 /\ bk = 0 /\ ghost = 0 /\
          running = 0 /\ listening = 0 /\ acceptor = 0 /\ stopping = 0 /\
          owner = 0 /\ shut = 0 /\ conn = 0 /\ accepts = 0 /\
          requests = 0 /\ pending = 0 /\ active = 0 /\ worker = 0 /\
          handshakes = 0 /\ watch_count = 0 /\ incoming = 0 /\
          watches = 0 /\ io = 0 /\ wake = 0 /\ users = 0 /\ nextInc = 0 /\
          view = 0 /\ generation = 0 /\ holder = 0 /\ may = 0 /\
          history = 0 /\ acked = 0 /\ sess = 0 /\ watch = 0 /\
          user_feed = 0 /\ left = 0
    \/ /\ part = "streams" /\ W!Init /\ Init
       /\ clock = 0 /\ bound = 0 /\ mem = 0 /\ image = 0 /\ wal = 0 /\
          inode = 0 /\ dirs = 0 /\ gate = 0 /\ keeper = 0 /\ bk = 0 /\
          ghost = 0 /\ running = 0 /\ listening = 0 /\ acceptor = 0 /\
          stopping = 0 /\ owner = 0 /\ shut = 0 /\ conn = 0 /\
          accepts = 0 /\ requests = 0 /\ pending = 0 /\ active = 0 /\
          worker = 0 /\ handshakes = 0 /\ watch_count = 0 /\ incoming = 0 /\
          watches = 0 /\ io = 0 /\ wake = 0 /\ users = 0 /\ nextInc = 0 /\
          view = 0 /\ generation = 0 /\ holder = 0 /\ may = 0 /\
          history = 0 /\ acked = 0 /\ sess = 0 /\ watch = 0 /\
          user_feed = 0 /\ left = 0
    \/ /\ part = "cut" /\ B!Init /\ Init
       /\ file = 0 /\ lru = 0 /\ resume = 0 /\ queue = 0 /\ dir = 0 /\
          stream_faults = 0 /\ running = 0 /\ listening = 0 /\
          acceptor = 0 /\ stopping = 0 /\ owner = 0 /\ shut = 0 /\
          conn = 0 /\ accepts = 0 /\ requests = 0 /\ pending = 0 /\
          active = 0 /\ worker = 0 /\ handshakes = 0 /\ watch_count = 0 /\
          incoming = 0 /\ watches = 0 /\ io = 0 /\ wake = 0 /\ users = 0 /\
          nextInc = 0 /\ view = 0 /\ generation = 0 /\ holder = 0 /\
          may = 0 /\ history = 0 /\ acked = 0 /\ sess = 0 /\ watch = 0 /\
          user_feed = 0 /\ left = 0
    \/ /\ part = "connections" /\ C!Init /\ Init
       /\ lock = 0 /\ file = 0 /\ lru = 0 /\ resume = 0 /\ queue = 0 /\
          dir = 0 /\ th = 0 /\ stream_faults = 0 /\ clock = 0 /\
          bound = 0 /\ mem = 0 /\ image = 0 /\ wal = 0 /\ inode = 0 /\
          dirs = 0 /\ gate = 0 /\ keeper = 0 /\ bk = 0 /\ ghost = 0 /\
          users = 0 /\ nextInc = 0 /\ view = 0 /\ generation = 0 /\
          holder = 0 /\ may = 0 /\ history = 0 /\ acked = 0 /\ sess = 0 /\
          watch = 0 /\ user_feed = 0 /\ left = 0
    \/ /\ part = "users" /\ U!Init /\ Init
       /\ lock = 0 /\ file = 0 /\ lru = 0 /\ resume = 0 /\ queue = 0 /\
          dir = 0 /\ th = 0 /\ stream_faults = 0 /\ clock = 0 /\
          bound = 0 /\ mem = 0 /\ image = 0 /\ wal = 0 /\ inode = 0 /\
          dirs = 0 /\ gate = 0 /\ keeper = 0 /\ bk = 0 /\ ghost = 0 /\
          running = 0 /\ listening = 0 /\ acceptor = 0 /\ stopping = 0 /\
          owner = 0 /\ shut = 0 /\ conn = 0 /\ accepts = 0 /\
          requests = 0 /\ pending = 0 /\ active = 0 /\ worker = 0 /\
          handshakes = 0 /\ watch_count = 0 /\ incoming = 0 /\
          watches = 0 /\ io = 0

PartNext ==
    \/ /\ part = "lease" /\ Next
       /\ UNCHANGED <<part, lock, file, lru, resume, queue, dir, th,
                      stream_faults, clock, bound, mem, image, wal, inode,
                      dirs, gate, keeper, bk, ghost, running, listening,
                      acceptor, stopping, owner, shut, conn, accepts,
                      requests, pending, active, worker, handshakes,
                      watch_count, incoming, watches, io, wake, users,
                      nextInc, view, generation, holder, may, history,
                      acked, sess, watch, user_feed, left>>
    \/ /\ part = "streams" /\ W!Next
       /\ UNCHANGED <<part, vars, clock, bound, mem, image, wal, inode,
                      dirs, gate, keeper, bk, ghost, running, listening,
                      acceptor, stopping, owner, shut, conn, accepts,
                      requests, pending, active, worker, handshakes,
                      watch_count, incoming, watches, io, wake, users,
                      nextInc, view, generation, holder, may, history,
                      acked, sess, watch, user_feed, left>>
    \/ /\ part = "cut" /\ B!Next
       /\ UNCHANGED <<part, vars, file, lru, resume, queue, dir,
                      stream_faults, running, listening, acceptor, stopping,
                      owner, shut, conn, accepts, requests, pending, active,
                      worker, handshakes, watch_count, incoming, watches,
                      io, wake, users, nextInc, view, generation, holder,
                      may, history, acked, sess, watch, user_feed, left>>
    \/ /\ part = "connections" /\ C!Next
       /\ UNCHANGED <<part, vars, lock, file, lru, resume, queue, dir, th,
                      stream_faults, clock, bound, mem, image, wal, inode,
                      dirs, gate, keeper, bk, ghost, users, nextInc, view,
                      generation, holder, may, history, acked, sess, watch,
                      user_feed, left>>
    \/ /\ part = "users" /\ U!Next
       /\ UNCHANGED <<part, vars, lock, file, lru, resume, queue, dir, th,
                      stream_faults, clock, bound, mem, image, wal, inode,
                      dirs, gate, keeper, bk, ghost, running, listening,
                      acceptor, stopping, owner, shut, conn, accepts,
                      requests, pending, active, worker, handshakes,
                      watch_count, incoming, watches, io>>

W_vars == W!vars
B_vars == B!vars
C_vars == C!vars
U_vars == U!vars

PartSpec ==
    /\ PartInit /\ [][PartNext]_all
    /\ WF_vars(part = "lease" /\ FallAsleep)
    /\ WF_vars(part = "lease" /\ DeadlinePasses)
    /\ \A t \in Commands : WF_vars(part = "lease" /\ Command(t))
    /\ WF_vars(part = "lease" /\ Ddl)
    /\ WF_vars(part = "lease" /\ Backup)
    /\ WF_vars(part = "lease" /\ Watch)
    /\ WF_vars(part = "lease" /\ Timer)
    /\ \A t \in W_Threads : WF_W_vars(part = "streams" /\ W!Step(t))
    /\ \A t \in W_Threads : WF_W_vars(part = "streams" /\ W!DeadlinePasses(t))
    /\ WF_B_vars(part = "cut" /\ B!RemoveWal)
    /\ WF_B_vars(part = "cut" /\ B!Backup)
    /\ \A t \in B_Writers : WF_B_vars(part = "cut" /\ B!Work(t))
    /\ WF_C_vars(part = "connections" /\ C!AcceptorRuns)
    /\ WF_C_vars(part = "connections" /\ C!Queues)
    /\ \A s \in C!Stoppers : WF_C_vars(part = "connections" /\ C!StopStep(s))
    /\ WF_C_vars(part = "connections" /\ C!BeginStop("feed"))
    /\ WF_C_vars(part = "connections" /\ C!BeginStop("destructor"))
    /\ \A w1 \in C_Workers : WF_C_vars(part = "connections" /\ C!WorkerRuns(w1))
    /\ \A w1 \in C_Workers : WF_C_vars(part = "connections" /\ C!WorkerReleased(w1))
    /\ WF_C_vars(part = "connections" /\ C!FeedRuns)
    /\ WF_U_vars(part = "users" /\ U!FeedSteps)
    /\ \A s \in U_Sessions : WF_U_vars(part = "users" /\ (U!InstallLocked(s) \/ U!CommitLocked(s) \/ U!Wakes(s)))

-----------------------------------------------------------------------------
(* No more WAL streams are open than the cap, the thread in front of the   *)
(* queue holds the turn, every place taken belongs to an open stream, and  *)
(* the directory entry of a WAL is durable before a write to it is         *)
(* answered (WalStreamPool).                                               *)
StreamsWithinCap ==
    part = "streams" => W!OpenWithinCap /\ W!TurnHeld /\ W!PlacesMatch /\ W!DirectoryDurable

(* What a thread waits for comes, for each of the two threads a component  *)
(* has: a thread that asks for the table is answered, none sleeps through  *)
(* the nudge of the one before it (TableCatalog::Acquire); an append that  *)
(* waits for a stream of another thread ends (WalStreamPool); a backup     *)
(* that has closed the gate ends, whatever writers do (BackupGate); once   *)
(* running_ is cleared Run returns, although no client does anything and   *)
(* no timeout passes (Server::Stop), and a connection handed to the feed   *)
(* thread is taken by it (FeedIo::Add); and a watch whose right is gone    *)
(* ends although its table is silent (UserRegistry::Wakes).                *)
Waits(i) ==
    \/ part = "lease" /\ i = p1
    \/ part = "streams" /\ W!Busy(i)
    \/ part = "cut" /\ i = p1 /\ B!Started
    \/ part = "connections" /\ i = p1 /\ ~running
    \/ part = "connections" /\ i = p2 /\ incoming # {}
    \/ part = "users" /\ U!WatchLost(i)
Served(i) ==
    \/ part = "lease" /\ AllAnswered
    \/ part = "streams" /\ ~W!Busy(i)
    \/ part = "cut" /\ B!Done
    \/ part = "connections" /\ i = p1 /\ C!Returned
    \/ part = "connections" /\ i = p2 /\ incoming = {}
    \/ part = "users" /\ U!WatchSettled(i)
WaitsEnd == \A i \in {p1, p2} : Waits(i) ~> Served(i)
=============================================================================
