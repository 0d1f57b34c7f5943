----------------------------- MODULE UserRights -----------------------------
(***************************************************************************)
(* The users of a server and what their connections may do.  UserRegistry  *)
(* (user_registry.cpp) keeps the users under a mutex it also holds while   *)
(* it writes chunkdb.users.  Connections do not take that mutex on every   *)
(* statement: they compare an atomic generation with the one their cached  *)
(* rights were read at, and a second, lock-free view of the rights is      *)
(* published for the check that the user still exists and for the feed     *)
(* thread, which ends a watch whose right is gone.  A user dropped and     *)
(* created again under its name is another incarnation.                    *)
(*                                                                         *)
(* Passwords, SCRAM messages and names are abstracted: a user is its       *)
(* incarnation, whether it manages users, and a right per table.           *)
(***************************************************************************)
EXTENDS Naturals, Sequences, FiniteSets, FiniteSetsExt

CONSTANTS Names,        \* the user names
          First,        \* the name of the first administrator
          Tables,       \* the tables a right names, Every left out
          Every,        \* "*"
          Sessions,     \* the connections
          Admin,        \* the highest right; READ is 1
          Grantees,     \* the users whose grants change
          Workloads     \* bounds: changes, other statements and logins,
                        \* frames of a watch, failed writes and restarts

ASSUME UserAssumption ==
    /\ First \in Names /\ Grantees \subseteq Names
    /\ Every \notin Tables
    /\ Admin \in Nat /\ Admin >= 1
    /\ "nobody" \notin Sessions

VARIABLES users,      \* users_ with incarnations_
          nextInc,    \* next_incarnation_
          view,       \* rights_: the published RightsView
          generation, \* generation_
          holder,     \* mutex_: the session changing users, or Nobody
          may,        \* what a restart may find in chunkdb.users
          history,    \* ghost: the users of each generation, and of the
                      \* one a change is about to make current
          acked,      \* ghost: the last generation whose change was answered
          sess,       \* SessionState of each connection
          watch,      \* its watch in FeedIo
          feed,       \* the feed thread
          wake,       \* signaled_: the feed thread's poll is to return
          left        \* what is left of the bounds

vars == <<users, nextInc, view, generation, holder, may, history, acked,
          sess, watch, feed, wake, left>>
registry == <<users, nextInc, view, generation, holder, may, history, acked>>

Nobody == "nobody"
Read == 1
Places == Tables \cup {Every}
NoGrants == [p \in Places |-> 0]
Absent == [inc |-> 0, manages |-> FALSE, grants |-> NoGrants, by |-> 0]

\* What chunkdb.users holds of them: names, flags and grants.
EncodeUsers(st) ==
    [n \in Names |-> [there |-> st[n].inc # 0, manages |-> st[n].manages,
                      grants |-> st[n].grants]]

RightOn(grants, table) == Max({grants[table], grants[Every]})

-----------------------------------------------------------------------------
(* What a user may do under given users.                                   *)

HasUser(st, n, inc) == st[n].inc = inc /\ inc # 0

\* Whether user u may run statement q.
Suffices(u, q) ==
    CASE q.op \in {"use", "watch"} -> RightOn(u.grants, q.table) >= q.need
      [] q.op = "attach"           -> u.grants[Every] >= Admin
      [] q.op = "change"           -> u.manages
      [] q.op = "own"              -> TRUE

\* Whether the user a session logged in as may run it under users st.
Holds(st, n, inc, q) == HasUser(st, n, inc) /\ Suffices(st[n], q)

WatchHolds(st, s) ==
    /\ HasUser(st, sess[s].user, sess[s].inc)
    /\ RightOn(st[sess[s].user].grants, watch[s].table) >= Read
    /\ watch[s].every => st[sess[s].user].grants[Every] >= Admin

-----------------------------------------------------------------------------
(* The changes of UserRegistry.                                            *)

Changes ==
    [kind : {"create", "creates manager", "drop", "manages", "loses"}, user : Names,
     table : {Every}, right : {Read}]
    \cup [kind : {"grant", "revoke"}, user : Grantees, table : Places, right : Read..Admin]

RequireUserManager(st) == \E n \in Names : st[n].manages

\* GRANT raises a right, REVOKE takes it and the ones above it.
Regranted(grants, c) ==
    [grants EXCEPT ![c.table] = IF c.kind = "grant" THEN Max({@, c.right})
                                ELSE IF @ >= c.right THEN c.right - 1 ELSE @]

Changed(u, c) ==
    CASE c.kind = "create"  -> [Absent EXCEPT !.inc = nextInc]
      [] c.kind = "creates manager" -> [Absent EXCEPT !.inc = nextInc, !.manages = TRUE]
      [] c.kind = "drop"    -> Absent
      [] c.kind = "manages" -> [u EXCEPT !.manages = TRUE]
      [] c.kind = "loses"   -> [u EXCEPT !.manages = FALSE]
      [] c.kind \in {"grant", "revoke"} -> [u EXCEPT !.grants = Regranted(@, c)]

Applied(st, c) == [st EXCEPT ![c.user] = Changed(@, c)]

\* A change the rules do not refuse: create needs the name free and the others
\* need it taken, and a manager of users remains.
Accepted(st, c) ==
    /\ (c.kind \in {"create", "creates manager"}) = (st[c.user].inc = 0)
    /\ c.kind \in {"drop", "loses"} => RequireUserManager(Applied(st, c))

\* PrepareLocked at a start gives every user of the file an incarnation; they
\* are only ever compared under one name, so one number serves.
Numbered(stored) ==
    [n \in Names |->
        IF stored[n].there
        THEN [inc |-> 1, manages |-> stored[n].manages, grants |-> stored[n].grants, by |-> 0]
        ELSE Absent]

ViewOf(st) == [n \in Names |-> [inc |-> st[n].inc, grants |-> st[n].grants]]

-----------------------------------------------------------------------------
Quiet == [op |-> "own", table |-> Every, need |-> 0]
NoSession == [pc |-> "new", user |-> First, inc |-> 0, present |-> 0, gen |-> 0,
              rights |-> Absent, g |-> 0, q |-> Quiet, every |-> FALSE,
              wgen |-> 0, from |-> 0]
NoWatch == [on |-> FALSE, gen |-> 0, every |-> FALSE, table |-> Every,
            waiting |-> 0, queue |-> <<>>, started |-> FALSE]
NoFeed == [pc |-> "poll", todo |-> {}, at |-> Nobody, g |-> 0, from |-> 0]

\* The server starts on a directory with the first administrator, whom the
\* constructor made, and users who may read every table.
FirstUsers ==
    [n \in Names |->
        [inc |-> 1, manages |-> n = First, by |-> 0,
         grants |-> [p \in Places |-> IF n = First THEN IF p = Every THEN Admin ELSE 0
                                      ELSE IF p = Every THEN 0 ELSE Read]]]

Init ==
    /\ users = FirstUsers
    /\ nextInc = 2
    /\ view = ViewOf(FirstUsers)
    /\ generation = 1
    /\ holder = Nobody
    /\ may = {EncodeUsers(FirstUsers)}
    /\ history = <<FirstUsers>>
    /\ acked = 1
    /\ sess = [s \in Sessions |-> NoSession]
    /\ watch = [s \in Sessions |-> NoWatch]
    /\ feed = NoFeed
    /\ wake = FALSE
    /\ left \in Workloads

-----------------------------------------------------------------------------
(* Logging in.                                                             *)

\* HandleHello: the user is looked up under the registry mutex.  A name that
\* is not there runs against a decoy and fails at AUTH.
HandleHello(s, n) ==
    /\ sess[s].pc = "new"
    /\ left.statements > 0
    /\ holder = Nobody
    /\ sess' = [sess EXCEPT ![s] = [@ EXCEPT !.pc = "pending", !.user = n, !.inc = users[n].inc]]
    /\ left' = [left EXCEPT !.statements = @ - 1]
    /\ UNCHANGED <<registry, watch, feed, wake>>

\* HandleAuth: the exchange HELLO began is finished; the session keeps the
\* incarnation HELLO found, whatever happened to the user in between.
HandleAuth(s) ==
    /\ sess[s].pc = "pending"
    /\ \/ /\ sess[s].inc # 0
          /\ sess' = [sess EXCEPT ![s].pc = "idle"]
       \/ sess' = [sess EXCEPT ![s] = NoSession]
    /\ UNCHANGED <<registry, watch, feed, wake, left>>

-----------------------------------------------------------------------------
(* A statement.                                                            *)

Statements ==
    [op : {"use"}, table : Tables, need : Read..Admin]
    \cup [op : {"watch"}, table : Tables, need : {Read}]
    \cup {Quiet}
    \cup [op : {"change"}, table : {Every}, need : {0}]

\* Execute: AnswerLostUser before anything else.  While the generation is the
\* one the user was last seen at, nothing more is read.
Execute(s, q, every) ==
    /\ sess[s].pc = "idle"
    /\ every => q.op = "watch"
    /\ IF q.op \in {"change", "own"}
         THEN left.changes > 0 /\ left' = [left EXCEPT !.changes = @ - 1]
         ELSE left.statements > 0 /\ left' = [left EXCEPT !.statements = @ - 1]
    /\ sess' = [sess EXCEPT ![s] =
                    [@ EXCEPT !.pc = IF sess[s].present = generation THEN "current" ELSE "lost",
                              !.g = generation, !.q = q, !.every = every, !.from = acked]]
    /\ UNCHANGED <<registry, watch, feed, wake>>

\* LostUserReply on the published view.
LostUserReply(s) ==
    /\ sess[s].pc = "lost"
    /\ sess' = IF view[sess[s].user].inc = sess[s].inc
                 THEN [sess EXCEPT ![s] = [@ EXCEPT !.pc = "current", !.present = sess[s].g]]
                 ELSE [sess EXCEPT ![s] = [NoSession EXCEPT !.pc = "closed"]]
    /\ UNCHANGED <<registry, watch, feed, wake, left>>

Found(s) ==
    IF users[sess[s].user].inc = sess[s].inc THEN users[sess[s].user] ELSE Absent

(* Mutant: a user once found is never read again. *)
OnceFound(s) == sess[s].gen # 0

Cached(s) == sess[s].gen = generation

\* CurrentUser: the generation is read first and the user after it.  A
\* password of one's own asks for no right.
CurrentUser(s) ==
    /\ sess[s].pc = "current"
    /\ sess' = [sess EXCEPT ![s] =
                    [@ EXCEPT !.g = generation,
                              !.pc = CASE sess[s].q.op = "own" -> "change"
                                       [] sess[s].q.op # "own" /\ Cached(s) -> "decide"
                                       [] OTHER -> "find"]]
    /\ UNCHANGED <<registry, watch, feed, wake, left>>

\* FindIncarnation waits for the registry mutex.
FindIncarnation(s) ==
    /\ sess[s].pc = "find"
    /\ holder = Nobody
    /\ sess' = [sess EXCEPT ![s] =
                    [@ EXCEPT !.pc = "decide", !.rights = Found(s), !.gen = sess[s].g]]
    /\ UNCHANGED <<registry, watch, feed, wake, left>>

Granted(s) == sess[s].rights # Absent /\ Suffices(sess[s].rights, sess[s].q)

Finished(s) == [sess[s] EXCEPT !.pc = "idle", !.g = 0, !.q = Quiet, !.every = FALSE,
                               !.wgen = 0, !.from = 0]

\* RequireRight, RequireRightOnEveryTable and RequireManagesUsers on the
\* cached user; a statement that only uses a table has run after it.
Refused(s) ==
    /\ sess[s].pc = "decide"
    /\ ~Granted(s)
    /\ sess' = [sess EXCEPT ![s] = Finished(s)]
    /\ UNCHANGED <<registry, watch, feed, wake, left>>

Ran(s) ==
    /\ sess[s].pc = "decide"
    /\ Granted(s)
    /\ sess[s].q.op = "use"
    /\ sess' = [sess EXCEPT ![s] = Finished(s)]
    /\ UNCHANGED <<registry, watch, feed, wake, left>>

GoesOnToChange(s) ==
    /\ sess[s].pc = "decide"
    /\ Granted(s)
    /\ sess[s].q.op = "change"
    /\ sess' = [sess EXCEPT ![s].pc = "change"]
    /\ UNCHANGED <<registry, watch, feed, wake, left>>

\* WATCH keeps the generation its right was confirmed at.  A slot of another
\* owner takes ADMIN on "*", asked of the user as it is by then.
Attaches(s) ==
    /\ sess[s].pc = "decide"
    /\ Granted(s)
    /\ sess[s].q.op = "watch" /\ sess[s].every
    /\ LET q == [sess[s].q EXCEPT !.op = "attach"] IN
       sess' = [sess EXCEPT ![s] = [@ EXCEPT !.pc = "current", !.wgen = sess[s].gen, !.q = q,
                                             !.from = acked]]
    /\ UNCHANGED <<registry, watch, feed, wake, left>>

\* The connection goes to the feed thread, which is woken for it.
Watches(s) ==
    /\ sess[s].pc = "decide"
    /\ Granted(s)
    /\ \/ sess[s].q.op = "watch" /\ ~sess[s].every
       \/ sess[s].q.op = "attach"
    /\ watch' = [watch EXCEPT ![s] =
                    [NoWatch EXCEPT !.on = TRUE, !.every = sess[s].every, !.table = sess[s].q.table,
                                    !.gen = IF sess[s].every THEN sess[s].wgen ELSE sess[s].gen]]
    /\ sess' = [sess EXCEPT ![s] = [Finished(s) EXCEPT !.pc = "watching"]]
    /\ wake' = TRUE
    /\ UNCHANGED <<registry, feed, left>>

-----------------------------------------------------------------------------
(* UpdateIf: change a copy, write it, make it current.                     *)

AfterFailure(st) == users

WriteFails(s, st) ==
    /\ left.faults > 0
    /\ left' = [left EXCEPT !.faults = @ - 1]
    /\ may' \in {may, may \cup {EncodeUsers(st)}}
    /\ sess' = [sess EXCEPT ![s] = Finished(s)]
    /\ users' = AfterFailure(st)
    /\ UNCHANGED <<nextInc, view, generation, holder, history, acked, watch, feed, wake>>

WriteUsersFile(s, st) ==
    /\ holder' = s
    /\ nextInc' = IF \E n \in Names : st[n].inc = nextInc THEN nextInc + 1 ELSE nextInc
    /\ may' = {EncodeUsers(st)}
    /\ history' = Append(history, st)
    /\ sess' = [sess EXCEPT ![s].pc = "install"]
    /\ UNCHANGED <<users, view, generation, acked, watch, feed, wake, left>>

\* Create, Drop, SetManagesUsers, Grant and Revoke.
Update(s, c) ==
    /\ sess[s].pc = "change"
    /\ sess[s].q.op = "change"
    /\ holder = Nobody
    /\ Accepted(users, c)
    /\ WriteFails(s, Applied(users, c)) \/ WriteUsersFile(s, Applied(users, c))

UpdateRefused(s, c) ==
    /\ sess[s].pc = "change"
    /\ sess[s].q.op = "change"
    /\ holder = Nobody
    /\ ~Accepted(users, c)
    /\ sess' = [sess EXCEPT ![s] = Finished(s)]
    /\ UNCHANGED <<registry, watch, feed, wake, left>>

OwnStill(s) == users[sess[s].user].inc = sess[s].inc

\* SetOwnVerifier: the password of the incarnation that logged in, or none.
SetOwnVerifier(s) ==
    /\ sess[s].pc = "change"
    /\ sess[s].q.op = "own"
    /\ holder = Nobody
    /\ IF OwnStill(s)
         THEN LET st == [users EXCEPT ![sess[s].user].by = sess[s].inc]
              IN  WriteFails(s, st) \/ WriteUsersFile(s, st)
         ELSE /\ sess' = [sess EXCEPT ![s] = [NoSession EXCEPT !.pc = "closed"]]
              /\ UNCHANGED <<registry, watch, feed, wake, left>>

\* CommitLocked publishes the view ...
InstallLocked(s) ==
    /\ sess[s].pc = "install"
    /\ users' = history[generation + 1]
    /\ view' = ViewOf(users')
    /\ sess' = [sess EXCEPT ![s].pc = "bump"]
    /\ UNCHANGED <<nextInc, generation, holder, may, history, acked, watch, feed, wake, left>>

\* ... before the generation moves; the mutex is free after it.
CommitLocked(s) ==
    /\ sess[s].pc = "bump"
    /\ generation' = generation + 1
    /\ holder' = Nobody
    /\ sess' = [sess EXCEPT ![s] = [@ EXCEPT !.pc = "wake", !.g = generation + 1]]
    /\ UNCHANGED <<users, nextInc, view, may, history, acked, watch, feed, wake, left>>

Woken == TRUE

\* ~Wakes runs the listeners outside the mutex; the statement is answered
\* after it.
Wakes(s) ==
    /\ sess[s].pc = "wake"
    /\ wake' = Woken
    /\ acked' = Max({acked, sess[s].g})
    /\ sess' = [sess EXCEPT ![s] = Finished(s)]
    /\ UNCHANGED <<users, nextInc, view, generation, holder, may, history, watch, feed, left>>

-----------------------------------------------------------------------------
(* The feed thread's pass over its watches.                                *)

Publish(s) ==
    /\ watch[s].on
    /\ left.frames > 0
    /\ left' = [left EXCEPT !.frames = @ - 1]
    /\ watch' = [watch EXCEPT ![s].waiting = @ + 1]
    /\ wake' = TRUE
    /\ UNCHANGED <<registry, sess, feed>>

Watched == {s \in Sessions : watch[s].on}

\* Poll returns for a wake or for a socket that takes output again.
Poll ==
    /\ feed.pc = "poll"
    /\ feed.todo = {}
    /\ wake \/ \E s \in Watched : watch[s].queue # <<>>
    /\ wake' = FALSE
    /\ feed' = [feed EXCEPT !.todo = Watched]
    /\ UNCHANGED <<registry, sess, watch, left>>

\* Read: an ACK is accepted only after the right was checked again.
Turn(s) ==
    /\ feed.pc = "poll"
    /\ s \in feed.todo
    /\ feed' \in {[feed EXCEPT !.pc = "ack", !.at = s, !.todo = @ \ {s}, !.from = acked],
                  [feed EXCEPT !.pc = "pull", !.at = s, !.todo = @ \ {s}]}
    /\ UNCHANGED <<registry, sess, watch, wake, left>>

Accept ==
    /\ feed.pc = "accept"
    /\ feed' = [feed EXCEPT !.pc = "pull", !.from = 0]
    /\ UNCHANGED <<registry, sess, watch, wake, left>>

Pull ==
    /\ feed.pc = "pull"
    /\ LET s == feed.at IN
       watch' = IF watch[s].waiting = 0 THEN watch
                ELSE [watch EXCEPT ![s] = [watch[s] EXCEPT !.waiting = @ - 1,
                                                           !.queue = Append(watch[s].queue, acked)]]
    /\ feed' = [feed EXCEPT !.pc = "check"]
    /\ UNCHANGED <<registry, sess, wake, left>>

Then(pc) == IF pc \in {"ack", "ackview"} THEN "accept" ELSE "write"

(* Mutant: the watch's own generation is never compared. *)
NeverRecheck(s) == FALSE

MustRecheck(s) == generation # watch[s].gen

\* Permitted: ReadRightCheck::Check is one load while nothing changed.
Check ==
    /\ feed.pc \in {"ack", "check"}
    /\ LET s == feed.at IN
       feed' = [feed EXCEPT !.pc = IF ~MustRecheck(s) THEN Then(@)
                                   ELSE IF @ = "ack" THEN "ackview" ELSE "view",
                            !.g = IF MustRecheck(s) THEN generation ELSE 0]
    /\ UNCHANGED <<registry, sess, watch, wake, left>>

\* The right as the published view has it.
ViewHolds(s) ==
    /\ view[sess[s].user].inc = sess[s].inc
    /\ RightOn(view[sess[s].user].grants, watch[s].table) >= Read
    /\ watch[s].every => view[sess[s].user].grants[Every] >= Admin

\* Recheck.  A lost right drops what is queued and closes the connection,
\* with an error first unless a frame was cut in two.
Recheck ==
    /\ feed.pc \in {"ackview", "view"}
    /\ LET s == feed.at IN
       IF ViewHolds(s)
       THEN /\ watch' = [watch EXCEPT ![s].gen = feed.g]
            /\ feed' = [feed EXCEPT !.pc = Then(@), !.g = 0]
            /\ UNCHANGED sess
       ELSE /\ watch' = [watch EXCEPT ![s] = NoWatch]
            /\ sess' = [sess EXCEPT ![s] = [NoSession EXCEPT !.pc = "closed"]]
            /\ feed' = [feed EXCEPT !.pc = "poll", !.at = Nobody, !.g = 0, !.from = 0]
    /\ UNCHANGED <<registry, wake, left>>

\* Write takes the first frame, a part of it, or nothing from a full socket.
Write ==
    /\ feed.pc = "write"
    /\ LET s == feed.at IN
       \/ UNCHANGED watch
       \/ /\ watch[s].queue # <<>>
          /\ \/ watch' = [watch EXCEPT ![s] = [watch[s] EXCEPT !.queue = Tail(@), !.started = FALSE]]
             \/ watch' = [watch EXCEPT ![s].started = TRUE]
    /\ feed' = [feed EXCEPT !.pc = "poll", !.at = Nobody]
    /\ UNCHANGED <<registry, sess, wake, left>>

\* UNWATCH read by the feed thread gives the connection back to a worker.
Unwatch(s) ==
    /\ feed.pc = "poll"
    /\ watch[s].on
    /\ watch[s].queue = <<>>
    /\ watch' = [watch EXCEPT ![s] = NoWatch]
    /\ sess' = [sess EXCEPT ![s].pc = "idle"]
    /\ feed' = [feed EXCEPT !.todo = @ \ {s}]
    /\ UNCHANGED <<registry, wake, left>>

-----------------------------------------------------------------------------
\* The server is started again and reads what is there of chunkdb.users.
Restart ==
    /\ left.faults > 0
    /\ left' = [left EXCEPT !.faults = @ - 1]
    /\ \E stored \in may :
          LET st == Numbered(stored) IN
          users' = st /\ view' = ViewOf(st) /\ history' = <<st>>
    /\ nextInc' = 2
    /\ generation' = 1
    /\ acked' = 1
    /\ holder' = Nobody
    /\ sess' = [s \in Sessions |-> NoSession]
    /\ watch' = [s \in Sessions |-> NoWatch]
    /\ feed' = NoFeed
    /\ wake' = FALSE
    /\ UNCHANGED may

Next ==
    \/ \E s \in Sessions, n \in Names : HandleHello(s, n)
    \/ \E s \in Sessions : HandleAuth(s)
    \/ \E s \in Sessions, q \in Statements, every \in BOOLEAN : Execute(s, q, every)
    \/ \E s \in Sessions : LostUserReply(s)
    \/ \E s \in Sessions : CurrentUser(s)
    \/ \E s \in Sessions : FindIncarnation(s)
    \/ \E s \in Sessions : Refused(s)
    \/ \E s \in Sessions : Ran(s)
    \/ \E s \in Sessions : GoesOnToChange(s)
    \/ \E s \in Sessions : Attaches(s)
    \/ \E s \in Sessions : Watches(s)
    \/ \E s \in Sessions, c \in Changes : Update(s, c)
    \/ \E s \in Sessions, c \in Changes : UpdateRefused(s, c)
    \/ \E s \in Sessions : SetOwnVerifier(s)
    \/ \E s \in Sessions : InstallLocked(s)
    \/ \E s \in Sessions : CommitLocked(s)
    \/ \E s \in Sessions : Wakes(s)
    \/ \E s \in Sessions : Publish(s)
    \/ Poll
    \/ \E s \in Sessions : Turn(s)
    \/ Accept
    \/ Pull
    \/ Check
    \/ Recheck
    \/ Write
    \/ \E s \in Sessions : Unwatch(s)
    \/ Restart

Spec == Init /\ [][Next]_vars

-----------------------------------------------------------------------------
\* The generations in force at some moment since generation k was the last
\* one answered: a change may count from its write on, and must from its reply.
Since(k) == k..Len(history)

(* A statement is granted or refused as its user's rights, those of the    *)
(* incarnation that logged in, were at one moment since the statement      *)
(* began: a REVOKE, DROP USER or GRANT answered before it is always seen,  *)
(* though the rights are cached and the generation is read without the     *)
(* registry's mutex (CurrentUser, RequireRight).                           *)
DecidedByRights ==
    \A s \in Sessions : sess[s].pc = "decide" =>
        \E k \in Since(sess[s].from) :
            Granted(s) = Holds(history[k], sess[s].user, sess[s].inc, sess[s].q)

(* A password a connection set as its own belongs to the user that logged  *)
(* in, never to one created again under the name (SetOwnVerifier).         *)
OwnPasswordOnly ==
    \A n \in Names : users[n].by # 0 => users[n].by = users[n].inc

(* A watch frame that is about to be written was pulled while the right    *)
(* was held, or the right has been held since; an ACK is accepted only     *)
(* with a right held since it was read (Permitted between Pull and Write,  *)
(* and before Ack).                                                        *)
WatchWithRight ==
    /\ feed.pc = "write" =>
          \A i \in DOMAIN watch[feed.at].queue :
              \E k \in Since(watch[feed.at].queue[i]) : WatchHolds(history[k], feed.at)
    /\ feed.pc = "accept" =>
          \E k \in Since(feed.from) : WatchHolds(history[k], feed.at)

(* Whatever a restart may find, in chunkdb.users after failed writes too,  *)
(* someone manages users (RequireUserManager).                             *)
ManagerRemains == \A stored \in may : \E n \in Names : stored[n].manages

(* The users in memory are always among those a restart may find, and the  *)
(* only ones after a change was answered: a change that failed to be       *)
(* written is not in force, and one in force is not lost.                  *)
MemoryOnDisk == holder = Nobody => EncodeUsers(users) \in may

-----------------------------------------------------------------------------
(* The feed thread and the statements of connections go on; a socket that  *)
(* takes no output does not stop the thread.                               *)
FeedSteps ==
    \/ Poll
    \/ \E s \in Sessions : Turn(s)
    \/ Accept
    \/ Pull
    \/ Check
    \/ Recheck
    \/ Write

FairSpec ==
    /\ Spec
    /\ WF_vars(FeedSteps)
    /\ \A s \in Sessions : WF_vars(InstallLocked(s) \/ CommitLocked(s) \/ Wakes(s))

WatchLost(s) == watch[s].on /\ ~WatchHolds(history[acked], s)
WatchSettled(s) == watch[s].on => \E k \in Since(acked) : WatchHolds(history[k], s)

=============================================================================
