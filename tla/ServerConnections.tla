------------------------- MODULE ServerConnections -------------------------
(***************************************************************************)
(* The connections of a ChunkServer: the accept loop (Run), the workers,   *)
(* the feed thread (FeedIo::Run) that serves connections while they watch, *)
(* Stop, and the destructor.  A connection moves between the pending       *)
(* queue, a worker, the feed thread and back; its file descriptor is       *)
(* closed by whoever holds it last, and descriptors are reused by the next *)
(* accept.  Requests are what they do to this state: HELLO, a WATCH, any   *)
(* other; the content of a watch is in ChangeFeed and SlotWatch.           *)
(***************************************************************************)
EXTENDS Naturals, Sequences, FiniteSets

CONSTANTS Workers, Sources, Proxied, MaxPending, MaxWatches, MaxHandshakes,
          MaxAccepts, MaxRequests

(* Descriptors are numbers, so that accept can take the lowest free one.   *)
Fds == 1..MaxAccepts
Conns == 1..MaxAccepts
Nobody == 0
Stoppers == {"caller", "feed", "destructor"}
Peer == "peer"

VARIABLES
  running,    \* running_
  listening,  \* the listen socket is open
  acceptor,   \* where Run is: [pc, conn]
  stopping,   \* where each call of Stop is
  owner,      \* descriptor -> the connection it is open for, or Nobody
  shut,       \* descriptors on which shutdown() was called
  conn,       \* connection -> [fd, src, greeted, slot, held]
  accepts,    \* connections accepted so far
  requests,   \* requests served so far
  pending,    \* pending_clients_: <<connection, resumed>>
  active,     \* active_clients_: descriptor -> occurrences
  worker,     \* worker -> [pc, conn]
  handshakes, \* handshakes_: source -> count
  watch_count,\* watch_count_
  incoming,   \* FeedIo::incoming_
  watches,    \* the feed thread's own list
  io,         \* where the feed thread is: [pc, conn, left, then]
  wake        \* [signaled |-> signaled_, byte |-> a byte is in the channel]

vars == <<running, listening, acceptor, stopping, owner, shut, conn, accepts, requests,
          pending, active, worker, handshakes, watch_count, incoming, watches, io, wake>>

life == <<running, listening, acceptor, stopping>>
sockets == <<owner, shut, active>>
counts == <<accepts, requests>>
feed == <<incoming, watches, io>>

NoConn == [fd |-> 0, src |-> Peer, greeted |-> FALSE, slot |-> FALSE, held |-> {}]

Init ==
  /\ running = TRUE /\ listening = TRUE
  /\ acceptor = [pc |-> "loop", conn |-> Nobody]
  /\ stopping = [p \in Stoppers |-> "none"]
  /\ owner = [f \in Fds |-> Nobody] /\ shut = {}
  /\ conn = [c \in Conns |-> NoConn] /\ accepts = 0 /\ requests = 0
  /\ pending = <<>> /\ active = [f \in Fds |-> 0]
  /\ worker = [w \in Workers |-> [pc |-> "wait", conn |-> Nobody]]
  /\ handshakes = [s \in Sources \cup {Peer} |-> 0]
  /\ watch_count = 0 /\ incoming = {} /\ watches = {}
  /\ io = [pc |-> "top", conn |-> Nobody, left |-> {}, then |-> "serve"]
  /\ wake = [signaled |-> FALSE, byte |-> FALSE]

----------------------------------------------------------------------------
(* Helpers.                                                                *)

(* pending_clients_mutex_: a worker holds it between testing the wait's    *)
(* predicate and going to sleep; every other critical section is one step. *)
PendingFree == \A w \in Workers : worker[w].pc # "checked"

(* notify_one and notify_all of pending_clients_cv_.                       *)
Asleep == {w \in Workers : worker[w].pc = "asleep"}
Woken(ws) == [w \in Workers |->
                IF w \in ws THEN [pc |-> "wait", conn |-> Nobody] ELSE worker[w]]
NotifyOne == IF Asleep = {} THEN UNCHANGED worker
             ELSE \E w \in Asleep : worker' = Woken({w})

(* CloseSocket.                                                            *)
Closed(own, fds) == [f \in Fds |-> IF f \in fds THEN Nobody ELSE own[f]]

(* FeedIo::WakePoll: a wake already signalled leaves no second byte.       *)
Waken(k) == IF k.signaled THEN k ELSE [signaled |-> TRUE, byte |-> TRUE]

(* The part of CloseClient before CloseSocket: the watch slot is given     *)
(* back and the descriptor leaves active_clients_.                         *)
Unregistered(act, cs) ==
  [f \in Fds |-> IF \E c \in cs : conn[c].fd = f /\ act[f] > 0 THEN act[f] - 1 ELSE act[f]]
WithSlot(cs) == {c \in cs : conn[c].slot}
NoSlot(cs) == [c \in Conns |-> IF c \in cs THEN [conn[c] EXCEPT !.slot = FALSE] ELSE conn[c]]

(* The two parts of CloseClient, and their order.                          *)
CloseStep(part, c) ==
  IF part = "unregister"
  THEN /\ active' = Unregistered(active, {c})
       /\ watch_count' = watch_count - Cardinality(WithSlot({c}))
       /\ conn' = NoSlot({c})
       /\ UNCHANGED owner
  ELSE /\ owner' = Closed(owner, {conn[c].fd})
       /\ UNCHANGED <<active, watch_count, conn>>

CloseClient == <<"unregister", "close">>

(* The whole of CloseClient, where one step runs it under a lock.          *)
CloseAll(cs) ==
  /\ active' = Unregistered(active, cs)
  /\ owner' = Closed(owner, {conn[c].fd : c \in cs})
  /\ watch_count' = watch_count - Cardinality(WithSlot(cs))
  /\ conn' = NoSlot(cs)

(* ShutdownActiveClients.                                                  *)
ShutdownActiveClients ==
  /\ shut' = shut \cup {f \in Fds : active[f] > 0}
  /\ active' = [f \in Fds |-> 0]

----------------------------------------------------------------------------
(* Run: the accept loop.                                                   *)

(* The loop's test of running_, and the poll that follows it.              *)
RunLoop ==
  /\ acceptor.pc \in {"loop", "poll"}
  /\ acceptor' = [acceptor EXCEPT !.pc = CASE acceptor.pc = "poll" -> "loop"
                                          [] running -> "poll"
                                          [] OTHER -> "stop"]
  /\ UNCHANGED <<sockets, counts, feed, running, listening, stopping, conn, pending, worker,
                 handshakes, watch_count, wake>>

(* accept() takes the lowest free descriptor; a socket whose keepalive or  *)
(* send timeout cannot be set is closed at once.                           *)
Accept(s, configured) ==
  /\ acceptor.pc = "poll" /\ listening /\ accepts < MaxAccepts
  /\ LET c == accepts + 1
         f == CHOOSE g \in Fds : owner[g] = Nobody /\ \A h \in 1..(g - 1) : owner[h] # Nobody
     IN /\ accepts' = c
        /\ conn' = [conn EXCEPT ![c] = [NoConn EXCEPT !.fd = f, !.src = s]]
        /\ owner' = [owner EXCEPT ![f] = IF configured THEN c ELSE Nobody]
        /\ shut' = shut \ {f}
        /\ acceptor' = IF configured THEN [pc |-> "queue", conn |-> c]
                       ELSE [acceptor EXCEPT !.pc = "loop"]
  /\ UNCHANGED <<feed, running, listening, stopping, requests, pending, active, worker,
                 handshakes, watch_count, wake>>

(* Waiting clients that expired leave the front of the queue (a returned   *)
(* connection never expires); then the new one is queued, or answered BUSY *)
(* and closed when the queue is full.                                      *)
Queue(expired) ==
  /\ acceptor.pc = "queue" /\ PendingFree
  /\ expired \in 0..Len(pending) /\ \A i \in 1..expired : ~pending[i][2]
  /\ LET rest == SubSeq(pending, expired + 1, Len(pending))
         gone == {conn[pending[i][1]].fd : i \in 1..expired}
         fits == Len(rest) < MaxPending
     IN /\ pending' = IF fits THEN Append(rest, <<acceptor.conn, FALSE>>) ELSE rest
        /\ owner' = Closed(owner, gone \cup (IF fits THEN {} ELSE {conn[acceptor.conn].fd}))
        /\ IF fits THEN NotifyOne ELSE UNCHANGED worker
  /\ acceptor' = [pc |-> "loop", conn |-> Nobody]
  /\ UNCHANGED <<counts, feed, running, listening, stopping, shut, conn, active, handshakes,
                 watch_count, wake>>

(* An exception in the loop: Run goes on to its own shutdown, without Stop. *)
RunFails ==
  /\ acceptor.pc = "poll"
  /\ acceptor' = [acceptor EXCEPT !.pc = "stop"]
  /\ UNCHANGED <<sockets, counts, feed, running, listening, stopping, conn, pending, worker,
                 handshakes, watch_count, wake>>

(* StopRunning, under the mutex of the workers' predicate; the notification *)
(* follows it.                                                             *)
StopGuard == PendingFree

StopRunning ==
  /\ StopGuard
  /\ running' = FALSE
  /\ worker' = Woken(Asleep)

(* After the loop: StopRunning, ShutdownActiveClients, then JoinWorkers:   *)
(* FeedIo::Stop wakes and joins the feed thread, then each worker.         *)
RunEnds ==
  \/ /\ acceptor.pc = "stop" /\ StopRunning
     /\ acceptor' = [acceptor EXCEPT !.pc = "shutdown"]
     /\ UNCHANGED <<shut, active, wake>>
  \/ /\ acceptor.pc = "shutdown" /\ ShutdownActiveClients
     /\ acceptor' = [acceptor EXCEPT !.pc = "wake"]
     /\ UNCHANGED <<running, worker, wake>>
  \/ /\ acceptor.pc = "wake" /\ wake' = Waken(wake)
     /\ acceptor' = [acceptor EXCEPT !.pc = "join"]
     /\ UNCHANGED <<running, worker, shut, active>>
  \/ /\ acceptor.pc = "join" /\ io.pc = "ended"
     /\ \A w \in Workers : worker[w].pc = "ended"
     /\ acceptor' = [acceptor EXCEPT !.pc = "done"]
     /\ UNCHANGED <<running, worker, shut, active, wake>>

EndRun ==
  /\ RunEnds
  /\ UNCHANGED <<counts, feed, listening, stopping, owner, conn, pending, handshakes,
                 watch_count>>

----------------------------------------------------------------------------
(* Stop, called by another thread, by the failing feed thread, or by the   *)
(* destructor once Run has returned.                                       *)

BeginStop(p) ==
  /\ stopping[p] = "none"
  /\ p = "feed" => io.pc = "fail"
  /\ p = "destructor" => acceptor.pc = "done" /\ stopping["caller"] \in {"none", "done"}
  /\ StopRunning
  /\ stopping' = [stopping EXCEPT ![p] = "listen"]
  /\ UNCHANGED <<sockets, counts, feed, listening, acceptor, conn, pending, handshakes,
                 watch_count, wake>>

(* What Stop's drain leaves of the queue.                                  *)
Drained == <<>>

(* The listen socket is closed and the feed thread woken; every client     *)
(* still queued is closed under the queue's mutex; the rest are shut down. *)
StopStep(p) ==
  /\ \/ /\ stopping[p] = "listen"
        /\ listening' = FALSE /\ wake' = Waken(wake)
        /\ stopping' = [stopping EXCEPT ![p] = "drain"]
        /\ UNCHANGED <<sockets, pending, conn, watch_count>>
     \/ /\ stopping[p] = "drain" /\ PendingFree
        /\ CloseAll({pending[i][1] : i \in (1..Len(pending)) \ DOMAIN Drained})
        /\ pending' = Drained
        /\ stopping' = [stopping EXCEPT ![p] = "shutdown"]
        /\ UNCHANGED <<listening, wake, shut>>
     \/ /\ stopping[p] = "shutdown" /\ ShutdownActiveClients
        /\ stopping' = [stopping EXCEPT ![p] = "done"]
        /\ UNCHANGED <<listening, wake, pending, owner, conn, watch_count>>
  /\ UNCHANGED <<counts, feed, running, acceptor, worker, handshakes>>

----------------------------------------------------------------------------
(* WorkerLoop.                                                             *)

At(w, pc) == worker[w].pc = pc
Goes(w, pc) == worker' = [worker EXCEPT ![w].pc = pc]

(* The wait: the predicate is tested with the mutex held; a false one puts *)
(* the worker to sleep, which releases the mutex.                          *)
Wait(w) ==
  /\ \/ At(w, "wait") /\ PendingFree /\ running /\ pending = <<>> /\ Goes(w, "checked")
     \/ At(w, "checked") /\ Goes(w, "asleep")
     \/ At(w, "wait") /\ PendingFree /\ ~running /\ pending = <<>> /\ Goes(w, "ended")
  /\ UNCHANGED <<life, sockets, counts, feed, conn, pending, handshakes, watch_count, wake>>

(* Expired clients are closed; the first that is not is taken.  A returned *)
(* connection is still registered and greeted, so it is served at once.    *)
Take(w, expired) ==
  /\ At(w, "wait") /\ PendingFree /\ pending # <<>>
  /\ expired \in 0..Len(pending) /\ \A i \in 1..expired : ~pending[i][2]
  /\ owner' = Closed(owner, {conn[pending[i][1]].fd : i \in 1..expired})
  /\ pending' = SubSeq(pending, expired + 2, Len(pending))
  /\ IF expired = Len(pending)
     THEN Goes(w, IF running THEN "wait" ELSE "ended")
     ELSE LET p == pending[expired + 1]
          IN worker' = [worker EXCEPT ![w] = [pc |-> IF p[2] THEN "loop" ELSE "register",
                                              conn |-> p[1]]]
  /\ UNCHANGED <<life, counts, feed, shut, conn, active, handshakes, watch_count, wake>>

(* A new connection is registered only while the server runs, both under   *)
(* active_clients_mutex_.                                                  *)
(* Mutant: it is registered without looking.                               *)
AlwaysAdmitted == TRUE
Admitted == running

Register(w) ==
  /\ At(w, "register")
  /\ LET f == conn[worker[w].conn].fd
     IN IF Admitted
        THEN /\ active' = [active EXCEPT ![f] = @ + 1]
             /\ Goes(w, IF Proxied THEN "header" ELSE "limit")
             /\ UNCHANGED owner
        ELSE /\ owner' = Closed(owner, {f})
             /\ worker' = [worker EXCEPT ![w] = [pc |-> "wait", conn |-> Nobody]]
             /\ UNCHANGED active
  /\ UNCHANGED <<life, counts, feed, shut, conn, pending, handshakes, watch_count, wake>>

----------------------------------------------------------------------------
(* HandleClient.                                                           *)

(* TryAcquireHandshake; MaxHandshakes is not zero here.                    *)
Acquires(s) == handshakes[s] < MaxHandshakes

(* With the PROXY header the socket's peer holds a slot until the header   *)
(* was read; the source it names (or the peer) then holds one until HELLO. *)
Handshake(w) ==
  LET c == worker[w].conn
      s == IF At(w, "header") THEN Peer ELSE conn[c].src
  IN /\ At(w, "header") \/ At(w, "limit")
     /\ IF Acquires(s)
        THEN /\ handshakes' = [handshakes EXCEPT ![s] = @ + 1]
             /\ conn' = [conn EXCEPT ![c].held = {s}]
             /\ Goes(w, IF At(w, "header") THEN "proxy" ELSE "loop")
        ELSE Goes(w, "close") /\ UNCHANGED <<handshakes, conn>>
     /\ UNCHANGED <<life, sockets, counts, feed, pending, watch_count, wake>>

(* The slot's destructor.                                                  *)
Released(c) == [s \in DOMAIN handshakes |-> handshakes[s] - Cardinality(conn[c].held \cap {s})]

(* A read of the client ends with bytes, or with nothing: the peer closed, *)
(* a deadline passed, or the socket was shut down.                         *)
Header(w) ==
  LET c == worker[w].conn
  IN /\ At(w, "proxy")
     /\ \/ conn[c].fd \notin shut /\ Goes(w, "limit")
        \/ Goes(w, "close")
     /\ handshakes' = Released(c)
     /\ conn' = [conn EXCEPT ![c].held = {}]
     /\ UNCHANGED <<life, sockets, counts, feed, pending, watch_count, wake>>

(* The request loop's test of running_.                                    *)
Loop(w) ==
  /\ At(w, "loop")
  /\ Goes(w, IF running THEN "read" ELSE "drop")
  /\ UNCHANGED <<life, sockets, counts, feed, conn, pending, handshakes, watch_count, wake>>

(* No request: the loop is left.  Its handshake slot is released.          *)
Drop(w) ==
  LET c == worker[w].conn
  IN /\ At(w, "drop") \/ At(w, "read")
     /\ handshakes' = Released(c)
     /\ conn' = [conn EXCEPT ![c].held = {}]
     /\ Goes(w, "close")
     /\ UNCHANGED <<life, sockets, counts, feed, pending, watch_count, wake>>

(* One request, executed and answered.  HELLO greets the session and frees *)
(* its slot; a WATCH of a greeted session takes one of max_watches or is   *)
(* answered BUSY.  The reply may fail to be written, or be the last one.   *)
Request(w, what) ==
  LET c == worker[w].conn
      watching == what = "watch" /\ watch_count < MaxWatches
      greets == what = "hello" \/ conn[c].greeted
  IN /\ At(w, "read") /\ conn[c].fd \notin shut /\ requests < MaxRequests
     /\ what = "watch" => conn[c].greeted
     /\ requests' = requests + 1
     /\ watch_count' = watch_count + (IF watching THEN 1 ELSE 0)
     /\ handshakes' = IF greets THEN Released(c) ELSE handshakes
     /\ conn' = [conn EXCEPT ![c].greeted = greets, ![c].slot = watching,
                             ![c].held = IF greets THEN {} ELSE @]
     /\ \E written \in BOOLEAN : Goes(w, IF ~written \/ what = "last" THEN "drop"
                                         ELSE IF watching THEN "handoff" ELSE "loop")
     /\ UNCHANGED <<life, sockets, feed, accepts, pending, wake>>

(* HandOff and FeedIo::Add: running_ is tested once more with the feed's   *)
(* mutex held; then the feed thread is woken.  The socket may not become   *)
(* non-blocking and the allocation or the insertion may fail: the worker   *)
(* has the connection back and closes it.                                  *)
HandOff(w) ==
  LET c == worker[w].conn
  IN /\ At(w, "handoff") \/ At(w, "add")
     /\ \/ Goes(w, "close") /\ UNCHANGED incoming
        \/ running /\ At(w, "handoff") /\ Goes(w, "add") /\ UNCHANGED incoming
        \/ /\ running /\ At(w, "add")
           /\ incoming' = incoming \cup {c}
           /\ worker' = [worker EXCEPT ![w] = [pc |-> "wake", conn |-> Nobody]]
     /\ UNCHANGED <<life, sockets, counts, conn, pending, handshakes, watch_count, watches, io,
                    wake>>

WakeFeed(w) ==
  /\ At(w, "wake") /\ wake' = Waken(wake) /\ Goes(w, "wait")
  /\ UNCHANGED <<life, sockets, counts, feed, conn, pending, handshakes, watch_count>>

Close(w) ==
  /\ \/ At(w, "close") /\ CloseStep(CloseClient[1], worker[w].conn) /\ Goes(w, "closing")
     \/ /\ At(w, "closing") /\ CloseStep(CloseClient[2], worker[w].conn)
        /\ worker' = [worker EXCEPT ![w] = [pc |-> "wait", conn |-> Nobody]]
  /\ UNCHANGED <<life, counts, feed, shut, pending, handshakes, wake>>

----------------------------------------------------------------------------
(* FeedIo::Run.                                                            *)

IoGoes(pc) == io' = [io EXCEPT !.pc = pc]

(* DrainWake takes the bytes, then clears signaled_; only then are the     *)
(* connections handed over taken.                                          *)
Drain == <<"recv", "clear", "scan">>

Scan(n) ==
  /\ CASE Drain[n] = "recv" -> wake' = [wake EXCEPT !.byte = FALSE] /\ UNCHANGED <<incoming, watches>>
       [] Drain[n] = "clear" -> wake' = [wake EXCEPT !.signaled = FALSE] /\ UNCHANGED <<incoming, watches>>
       [] Drain[n] = "scan" -> watches' = watches \cup incoming /\ incoming' = {} /\ UNCHANGED wake
  /\ IF n < 3 THEN io' = [io EXCEPT !.pc = <<"drain", "scan">>[n]]
     ELSE io' = [io EXCEPT !.pc = "serve", !.left = watches']

(* One pass of the loop up to serving the watches.                         *)
FeedPass ==
  /\ \/ io.pc = "top" /\ running /\ Scan(1)
     \/ io.pc = "drain" /\ Scan(2)
     \/ io.pc = "scan" /\ Scan(3)
     \/ /\ io.pc = "top" /\ ~running /\ io' = [io EXCEPT !.pc = "cleanup", !.left = watches]
        /\ UNCHANGED <<wake, incoming, watches>>
  /\ UNCHANGED <<life, sockets, counts, conn, pending, worker, handshakes, watch_count>>

(* A watch goes on, ends (its peer left, it was told to end, it failed),   *)
(* or returns to the workers after UNWATCH.                                *)
(* A watch that ends or returns leaves the thread's list.                  *)
Forgets == {"ends", "returns"}

ServeWatch(c, how) ==
  /\ io.pc = "serve" /\ c \in io.left
  /\ conn[c].fd \in shut => how = "ends"
  /\ how = "returns" => running
  /\ io' = IF how = "goes on" THEN [io EXCEPT !.left = @ \ {c}]
           ELSE [io EXCEPT !.left = @ \ {c}, !.conn = c,
                           !.pc = IF how = "ends" THEN "close" ELSE "return"]
  /\ watches' = IF how \in Forgets THEN watches \ {c} ELSE watches
  /\ UNCHANGED <<life, sockets, counts, conn, pending, worker, handshakes, watch_count,
                 incoming, wake>>

(* ReturnClient: the watch slot is given back, then the connection is      *)
(* queued if the server still runs, or closed.  A watch of a slot that     *)
(* does not release its connection is closed at once.                      *)
Unmarked(c) == NoSlot({c})

ReturnClient ==
  LET c == io.conn
  IN /\ \/ /\ io.pc = "return" /\ IoGoes("close")
           /\ UNCHANGED <<watch_count, conn, pending, worker>>
        \/ /\ io.pc = "return"
           /\ watch_count' = watch_count - 1 /\ conn' = Unmarked(c)
           /\ IoGoes("requeue")
           /\ UNCHANGED <<pending, worker>>
        \/ /\ io.pc = "requeue" /\ PendingFree
           /\ IF running
              THEN /\ pending' = Append(pending, <<c, TRUE>>) /\ NotifyOne
                   /\ io' = [io EXCEPT !.pc = "serve", !.conn = Nobody]
              ELSE IoGoes("close") /\ UNCHANGED <<pending, worker>>
           /\ UNCHANGED <<watch_count, conn>>
     /\ UNCHANGED <<life, sockets, counts, handshakes, incoming, watches, wake>>

(* Before the poll running_ is tested again: the wake of a Stop may have   *)
(* been consumed by this pass's DrainWake.                                 *)
(* The poll ends for a byte, for a socket, or for a timeout.               *)
Poll ==
  /\ \/ /\ io.pc = "serve" /\ io.left = {}
        /\ IF running THEN IoGoes("poll") ELSE io' = [io EXCEPT !.pc = "cleanup", !.left = watches]
     \/ io.pc = "poll" /\ IoGoes("top")
  /\ UNCHANGED <<life, sockets, counts, conn, pending, worker, handshakes, watch_count,
                 incoming, watches, wake>>
PollReady == wake.byte \/ \E c \in watches : conn[c].fd \in shut

(* An exception: Stop is called here, then the thread cleans up.           *)
FeedFails ==
  /\ \/ io.pc \in {"scan", "serve", "poll"} /\ running /\ IoGoes("fail")
     \/ /\ io.pc = "fail" /\ stopping["feed"] = "done"
        /\ io' = [io EXCEPT !.pc = "cleanup", !.left = watches]
  /\ UNCHANGED <<life, sockets, counts, conn, pending, worker, handshakes, watch_count,
                 incoming, watches, wake>>

(* CloseClient for one watch; at the end for each of them, then for those  *)
(* handed over and never taken.                                            *)
FeedClose ==
  /\ \/ /\ io.pc = "cleanup" /\ io.left # {}
        /\ \E c \in io.left : io' = [pc |-> "close", conn |-> c, left |-> io.left \ {c}, then |-> "cleanup"]
                              /\ watches' = watches \ {c}
        /\ UNCHANGED <<owner, active, watch_count, conn, incoming>>
     \/ /\ io.pc = "close" /\ CloseStep(CloseClient[1], io.conn) /\ IoGoes("closing")
        /\ UNCHANGED <<incoming, watches>>
     \/ /\ io.pc = "closing" /\ CloseStep(CloseClient[2], io.conn)
        /\ io' = [io EXCEPT !.pc = io.then, !.conn = Nobody]
        /\ UNCHANGED <<incoming, watches>>
     \/ /\ io.pc = "cleanup" /\ io.left = {}
        /\ CloseAll(incoming) /\ incoming' = {} /\ IoGoes("ended") /\ UNCHANGED watches
  /\ UNCHANGED <<life, counts, shut, pending, worker, handshakes, wake>>

----------------------------------------------------------------------------
Next ==
  \/ RunLoop \/ RunFails \/ EndRun
  \/ \E s \in Sources, configured \in BOOLEAN : Accept(s, configured)
  \/ \E n \in 0..MaxPending : Queue(n)
  \/ \E p \in Stoppers : BeginStop(p) \/ StopStep(p)
  \/ \E w \in Workers :
       \/ Wait(w) \/ Register(w) \/ Handshake(w) \/ Header(w) \/ Loop(w) \/ Drop(w)
       \/ HandOff(w) \/ WakeFeed(w) \/ Close(w)
       \/ \E n \in 0..MaxPending : Take(w, n)
       \/ \E what \in {"hello", "watch", "last"} : Request(w, what)
  \/ FeedPass \/ ReturnClient \/ Poll \/ FeedFails \/ FeedClose
  \/ \E c \in Conns, how \in {"goes on", "ends", "returns"} : ServeWatch(c, how)

Spec == Init /\ [][Next]_vars

(* Threads run.  Nothing is assumed of clients, of the timeouts of their   *)
(* sockets, or of a caller of Stop: a read or the poll must end only once  *)
(* the socket was shut down, or a wake byte was written.                   *)
AcceptorRuns == RunLoop \/ EndRun
Queues == \E n \in 0..MaxPending : Queue(n)
WorkerRuns(w) ==
  \/ Wait(w) \/ Register(w) \/ Handshake(w) \/ Loop(w) \/ HandOff(w) \/ WakeFeed(w) \/ Close(w)
  \/ \E n \in 0..MaxPending : Take(w, n)
WorkerReleased(w) == (Drop(w) \/ Header(w)) /\ (~At(w, "drop") => conn[worker[w].conn].fd \in shut)
FeedRuns ==
  \/ FeedPass \/ ReturnClient \/ FeedClose
  \/ (io.pc = "serve" \/ PollReady) /\ Poll
  \/ io.pc = "fail" /\ FeedFails
  \/ \E c \in Conns, how \in {"goes on", "ends", "returns"} : ServeWatch(c, how)

Fairness ==
  /\ WF_vars(AcceptorRuns) /\ WF_vars(Queues)
  /\ \A p \in Stoppers : WF_vars(StopStep(p))
  /\ WF_vars(BeginStop("feed")) /\ WF_vars(BeginStop("destructor"))
  /\ \A w \in Workers : WF_vars(WorkerRuns(w)) /\ WF_vars(WorkerReleased(w))
  /\ WF_vars(FeedRuns)

FairSpec == Spec /\ Fairness

----------------------------------------------------------------------------
(* Properties.                                                             *)

Places(c) == Cardinality({w \in Workers : worker[w].conn = c})
             + Cardinality({i \in 1..Len(pending) : pending[i][1] = c})
             + Cardinality({s \in {<<"acceptor", acceptor.conn>>, <<"io", io.conn>>} : s[2] = c})
             + Cardinality({s \in {<<"in", incoming>>, <<"watch", watches>>} : c \in s[2]})
Live == {c \in Conns : Places(c) > 0}

(* A descriptor is open exactly while its connection is held, and a        *)
(* connection is held in one place only: the accept loop, the queue, one   *)
(* worker or the feed thread.  So no descriptor is closed twice, closed    *)
(* under its user, or left open, although each place may be the one that   *)
(* closes it (CloseSocket in Run, Stop and WorkerLoop; CloseClient) and    *)
(* the next accept reuses its number.                                      *)
OneHolder ==
  /\ \A c \in Live : Places(c) = 1 /\ owner[conn[c].fd] = c
  /\ \A f \in Fds : owner[f] # Nobody => owner[f] \in Live

(* active_clients_ holds each descriptor at most once and only open ones,  *)
(* a connection that a thread serves is in it or was shut down, and once   *)
(* ShutdownActiveClients has run after running_ was cleared it was shut    *)
(* down: Stop reaches every read that could block, whatever registers or   *)
(* closes at the same time (WorkerLoop's registration, CloseClient).       *)
Served == watches \cup incoming \cup
          {worker[w].conn : w \in {v \in Workers : worker[v].pc \in {"proxy", "read", "handoff", "add"}}}
Swept == acceptor.pc \in {"wake", "join", "done"} \/ \E p \in Stoppers : stopping[p] = "done"
StopReaches ==
  /\ \A f \in Fds : active[f] > 0 => active[f] = 1 /\ owner[f] # Nobody
  /\ \A c \in Served : conn[c].fd \in shut \/ (active[conn[c].fd] = 1 /\ ~Swept)

(* watch_count_ and handshakes_ count exactly the connections that hold a  *)
(* place, and never more than the limits, whichever of the many exits of   *)
(* HandleClient, ReturnClient and CloseClient gave the place back.         *)
CountsExact ==
  /\ watch_count = Cardinality(WithSlot(Conns)) /\ watch_count <= MaxWatches
  /\ \A s \in DOMAIN handshakes :
       /\ handshakes[s] = Cardinality({c \in Conns : s \in conn[c].held})
       /\ handshakes[s] <= MaxHandshakes

(* Once the destructor's Stop has returned every descriptor is closed,     *)
(* also of clients queued after the last worker had left.                  *)
NothingLeftOpen == stopping["destructor"] = "done" => \A f \in Fds : owner[f] = Nobody

Returned == acceptor.pc = "done"

=============================================================================
