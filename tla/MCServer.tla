------------------------------ MODULE MCServer ------------------------------
(***************************************************************************)
(* The server's connections, its users and their rights, and the bans of   *)
(* addresses. Each behaviour runs one of the three components, and leaves  *)
(* the variables of the others alone. The connections run three ways: two  *)
(* that contend for the handshakes of two workers, two of one worker of    *)
(* which one watches, and one that watches, returns to either of two       *)
(* workers and is served again. The bans run with two user names, and with *)
(* one name and longer behaviours that fill the table.                     *)
(***************************************************************************)
EXTENDS UserRights, TLC

CONSTANTS p1, p2, c1, c2, c3, x, y, z   \* model values

VARIABLE part   \* the component that runs, for the whole of a behaviour
VARIABLES running, listening, acceptor, stopping, owner, shut, conn,
          accepts, requests, pending, active, worker, handshakes,
          watch_count, incoming, watches, io, feed_wake, sourceOf, entries,
          now, tries, guesses, since, late

Work(changes, statements, frames, faults) ==
    [changes |-> changes, statements |-> statements, frames |-> frames, faults |-> faults]
MCWorkloads == {Work(1, 3, 1, 1), Work(2, 2, 0, 1)}

C_Workers == {p1, p2}
C_Sources == {"s"}
C == INSTANCE ServerConnections WITH
       Workers <- C_Workers, Sources <- C_Sources, Proxied <- TRUE,
       MaxPending <- 1, MaxWatches <- 1, MaxHandshakes <- 1,
       MaxAccepts <- 2, MaxRequests <- 0, wake <- feed_wake

W_Workers == {"w"}
W == INSTANCE ServerConnections WITH
       Workers <- W_Workers, Sources <- C_Sources, Proxied <- FALSE,
       MaxPending <- 1, MaxWatches <- 1, MaxHandshakes <- 1,
       MaxAccepts <- 2, MaxRequests <- 2, wake <- feed_wake

R == INSTANCE ServerConnections WITH
       Workers <- C_Workers, Sources <- C_Sources, Proxied <- FALSE,
       MaxPending <- 1, MaxWatches <- 1, MaxHandshakes <- 1,
       MaxAccepts <- 1, MaxRequests <- 3, wake <- feed_wake

B_Connections == {c1, c2, c3}
B_Sources == {x, y, z}
B_Topologies == {c1 :> x @@ c2 :> x @@ c3 :> y}
B_Names == {p1, p2}
B == INSTANCE LoginBans WITH
       Connections <- B_Connections, Sources <- B_Sources,
       Topologies <- B_Topologies, Names <- B_Names, MaxAuthFailures <- 2,
       MaxAuthFailuresPerIp <- 2, BanTicks <- 2, MaxTracked <- 2,
       MaxNames <- 1, MaxTries <- 6, MaxTick <- 3

S_Topologies == B_Topologies \cup {c1 :> x @@ c2 :> y @@ c3 :> z}
S_Names == {"u"}
S == INSTANCE LoginBans WITH
       Connections <- B_Connections, Sources <- B_Sources,
       Topologies <- S_Topologies, Names <- S_Names, MaxAuthFailures <- 2,
       MaxAuthFailuresPerIp <- 2, BanTicks <- 2, MaxTracked <- 2,
       MaxNames <- 1, MaxTries <- 8, MaxTick <- 3

all == <<part, vars, running, listening, acceptor, stopping, owner, shut,
         conn, accepts, requests, pending, active, worker, handshakes,
         watch_count, incoming, watches, io, feed_wake, sourceOf, entries,
         now, tries, guesses, since, late>>

PartInit ==
    \/ /\ part = "users" /\ Init
       /\ running = 0 /\ listening = 0 /\ acceptor = 0 /\ stopping = 0 /\
          owner = 0 /\ shut = 0 /\ conn = 0 /\ accepts = 0 /\
          requests = 0 /\ pending = 0 /\ active = 0 /\ worker = 0 /\
          handshakes = 0 /\ watch_count = 0 /\ incoming = 0 /\
          watches = 0 /\ io = 0 /\ feed_wake = 0 /\ sourceOf = 0 /\
          entries = 0 /\ now = 0 /\ tries = 0 /\ guesses = 0 /\ since = 0 /\ late = 0
    \/ /\ \/ part = "connections" /\ C!Init
          \/ part = "watching" /\ W!Init
          \/ part = "returning" /\ R!Init
       /\ Init /\ left = Work(2, 2, 0, 1)
       /\ sourceOf = 0 /\ entries = 0 /\ now = 0 /\ tries = 0 /\
          guesses = 0 /\ since = 0 /\ late = 0
    \/ /\ \/ part = "bans" /\ B!Init
          \/ part = "sources" /\ S!Init
       /\ Init /\ left = Work(2, 2, 0, 1)
       /\ running = 0 /\ listening = 0 /\ acceptor = 0 /\ stopping = 0 /\
          owner = 0 /\ shut = 0 /\ accepts = 0 /\ requests = 0 /\
          pending = 0 /\ active = 0 /\ worker = 0 /\ handshakes = 0 /\
          watch_count = 0 /\ incoming = 0 /\ watches = 0 /\ io = 0 /\
          feed_wake = 0

PartNext ==
    \/ /\ part = "users" /\ Next
       /\ UNCHANGED <<part, running, listening, acceptor, stopping, owner,
                      shut, conn, accepts, requests, pending, active,
                      worker, handshakes, watch_count, incoming, watches,
                      io, feed_wake, sourceOf, entries, now, tries, guesses,
                      since, late>>
    \/ /\ \/ part = "connections" /\ C!Next
          \/ part = "watching" /\ W!Next
          \/ part = "returning" /\ R!Next
       /\ UNCHANGED <<part, vars, sourceOf, entries, now, tries, guesses,
                      since, late>>
    \/ /\ \/ part = "bans" /\ B!Next
          \/ part = "sources" /\ S!Next
       /\ UNCHANGED <<part, vars, running, listening, acceptor, stopping,
                      owner, shut, accepts, requests, pending, active,
                      worker, handshakes, watch_count, incoming, watches,
                      io, feed_wake>>

PartSpec == PartInit /\ [][PartNext]_all

\* Sessions, workers and the names of logins are interchangeable.
Interchange == Permutations({p1, p2})

-----------------------------------------------------------------------------
(* A connection is held in one place only, the accept loop, the queue, one *)
(* worker or the feed thread, and its descriptor is open exactly while it  *)
(* is: none is closed twice, closed under its user, or left open, also     *)
(* after the destructor's Stop. Stop reaches every read that could block:  *)
(* a served connection is registered or shut down, and shut down once      *)
(* ShutdownActiveClients has run. The counts of watches and handshakes are *)
(* those of the connections that hold a place. All of it also while a      *)
(* connection goes to the feed thread and back (HandOff, ReturnClient).    *)
ConnectionsHeld ==
    /\ part = "connections" =>
         C!OneHolder /\ C!StopReaches /\ C!CountsExact /\ C!NothingLeftOpen
    /\ part = "watching" =>
         W!OneHolder /\ W!StopReaches /\ W!CountsExact /\ W!NothingLeftOpen
    /\ part = "returning" =>
         R!OneHolder /\ R!StopReaches /\ R!CountsExact /\ R!NothingLeftOpen

(* A source gets at most max_auth_failures_per_ip wrong proofs answered in *)
(* a period, plus one for each other connection that was past the ban      *)
(* check, and as many again for each failure that was recorded after the   *)
(* ban it falls into had ended; and it is banned for failures of that      *)
(* period only (RecordAuthFailure, RecordAuthSuccess).                     *)
GuessesBounded ==
    /\ part = "bans" => B!GuessesBounded /\ B!BannedForCause
    /\ part = "sources" => S!GuessesBounded /\ S!BannedForCause

(* A ban keeps its end, unless every tracked source was banned at the time *)
(* of the failure that drops it, or but for the time that a failure of the *)
(* source itself waited for the mutex (RecordAuthFailure).                 *)
BanHolds ==
    [][/\ part = "bans" => \A o \in {x, y, z} : B!BanKept(o)
       /\ part = "sources" => \A o \in {x, y, z} : S!BanKept(o)]_all
=============================================================================
