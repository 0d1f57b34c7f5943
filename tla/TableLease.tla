----------------------------- MODULE TableLease -----------------------------
(* Admission to one Table (table_catalog.hpp, table_catalog.cpp): commands
   hold a lease without taking a lock, a control operation (DDL, recovery, a
   watch that starts or ends, the linger timer) takes the store out for
   itself, a backup pins it, and all of them wait on one condition variable.
   The feed of the table and its linger timer change only inside exclusive
   sections, so they are modelled here too.

   A thread that holds mutex_ across two steps is one that has evaluated its
   wait predicate to FALSE and has not yet gone to sleep: that is where a
   notification can be lost.  Every other critical section of mutex_ is one
   step.  The table has no slots.  Waits of std::condition_variable_any do not
   throw, so the quarantine of the timer is always of an admitted one. *)
EXTENDS Naturals, FiniteSets

CONSTANTS
    Commands,        \* threads that run commands on the table
    Linger,          \* whether feed_linger_ is positive
    MaxCalls,        \* commands, control operations and backups each thread runs
    MaxWatches,      \* watches started
    MaxFaults        \* failures of a control operation

(* The threads of commands are other ones than those that run a DDL statement,
   a backup, a watch or the timer. *)
ASSUME ThreadAssumption ==
    /\ IsFiniteSet(Commands)
    /\ Commands \cap {"ddl", "backup", "watch", "timer"} = {}

VARIABLES
    table,           \* state_, active_leases_, backup_pins_, store_, feed_cleanup_failed_, migration_health_->failed
    feed,            \* feed_, feed_subscriptions_, the FeedSubscription a client holds, feed_linger_deadline_
    timer,           \* feed_linger_timer_, feed_timer_finished_, its stop token, what ExpireFeedLinger returns
    mutex,           \* the thread about to sleep with mutex_ held, or "free"
    asleep,          \* the threads asleep on cv_
    control,         \* the holder of feed_timer_control_mutex_, or "free"
    pc,              \* the step each thread is at
    note,            \* what a thread carries to its next step
    calls,           \* the calls each thread has made
    faults

vars == <<table, feed, timer, mutex, asleep, control, pc, note, calls, faults>>

Threads == Commands \cup {"ddl", "backup", "watch", "timer"}

Init ==
    /\ table = [state |-> "open", active |-> 0, pins |-> 0, home |-> TRUE, cleanup |-> FALSE, failed |-> FALSE]
    /\ feed = [ring |-> "none", subs |-> 0, held |-> FALSE, deadline |-> "none"]
    /\ timer = [joinable |-> FALSE, finished |-> TRUE, stop |-> FALSE, expired |-> FALSE]
    /\ mutex = "free" /\ control = "free" /\ asleep = {}
    /\ pc = [t \in Threads |-> "out"]
    /\ note = [t \in Threads |-> "none"]
    /\ calls = [t \in Threads |-> 0]
    /\ faults = 0

Goto(t, p) == pc' = [pc EXCEPT ![t] = p]

Carry(t, p, n) == Goto(t, p) /\ note' = [note EXCEPT ![t] = n]

Call(t) ==
    /\ pc[t] = "out"
    /\ calls[t] < IF t = "watch" THEN MaxWatches ELSE MaxCalls
    /\ calls' = [calls EXCEPT ![t] = @ + 1]

Fault ==
    /\ faults < MaxFaults
    /\ faults' = faults + 1

(* -------------------------- the condition variable ----------------------- *)
Awake(t) == t \notin asleep /\ mutex = "free"

NotifyAll == asleep' = {}

(* wait(lock, predicate): evaluated FALSE; FallAsleep releases the lock. *)
Block(t) == mutex' = t /\ UNCHANGED <<table, feed, asleep, pc, note>>

FallAsleep ==
    /\ mutex # "free"
    /\ asleep' = IF mutex = "timer" /\ timer.stop THEN asleep ELSE asleep \cup {mutex}
    /\ mutex' = "free"
    /\ UNCHANGED <<table, feed, timer, control, pc, note, calls, faults>>

(* -------------------------------- leases --------------------------------- *)
(* Acquire: count first, look at the state after. *)
Acquire(c) ==
    /\ \/ Call(c)
       \/ pc[c] = "retry" /\ UNCHANGED calls
    /\ IF table.failed
       THEN Goto(c, "out") /\ UNCHANGED table
       ELSE Goto(c, "counted") /\ table' = [table EXCEPT !.active = @ + 1]
    /\ UNCHANGED <<feed, timer, mutex, asleep, control, note, faults>>

LoadState(c) ==
    /\ pc[c] = "counted"
    /\ IF table.state = "open" THEN Carry(c, "leased", "done") ELSE Carry(c, "uncount", table.state)
    /\ UNCHANGED <<table, feed, timer, mutex, asleep, control, calls, faults>>

EndCommand(c) ==
    /\ pc[c] = "leased"
    /\ Goto(c, "uncount")
    /\ UNCHANGED <<table, feed, timer, mutex, asleep, control, note, calls, faults>>

(* ReleaseLease: fetch_sub, then the state, then the notification. *)
Uncount(c) ==
    /\ pc[c] = "uncount"
    /\ table' = [table EXCEPT !.active = @ - 1]
    /\ Goto(c, IF table.active = 1 THEN "last" ELSE "uncounted")
    /\ UNCHANGED <<feed, timer, mutex, asleep, control, note, calls, faults>>

(* Mutant: the last lease does not wake the exclusive operation that drains. *)
NeverNudge == FALSE

MustNudge == table.state = "busy"

CheckBusy(c) ==
    /\ pc[c] = "last"
    /\ Goto(c, IF MustNudge THEN "nudge" ELSE "uncounted")
    /\ UNCHANGED <<table, feed, timer, mutex, asleep, control, note, calls, faults>>

Nudge(c) ==
    /\ pc[c] = "nudge" /\ mutex = "free"
    /\ NotifyAll
    /\ Goto(c, "uncounted")
    /\ UNCHANGED <<table, feed, timer, mutex, control, note, calls, faults>>

(* The rest of Acquire after ReleaseLease: gone, fenced, or wait for reopening. *)
AwaitReopen(c) ==
    /\ pc[c] = "uncounted"
    /\ IF note[c] \in {"done", "gone", "failed"} \/ table.cleanup
       THEN Goto(c, "out") /\ UNCHANGED <<table, feed, mutex, asleep, note>>
       ELSE /\ Awake(c)
            /\ IF table.state # "busy" \/ table.cleanup
               THEN Goto(c, "retry") /\ UNCHANGED <<table, feed, mutex, asleep, note>>
               ELSE Block(c)
    /\ UNCHANGED <<timer, control, calls, faults>>

(* --------------------------- exclusive sections -------------------------- *)
(* A closing operation is admitted to a failed catalog and a fenced table. *)
Closing(t) == t = "timer" \/ note[t] = "closing"

Cancelled(t) == t = "timer" /\ timer.stop

RetainIdleFeed == feed.deadline = "armed"

(* BeginExclusive under mutex_: the feed is paused, or ended when nobody needs it. *)
Hold(t) ==
    /\ table' = [table EXCEPT !.state = "busy", !.home = FALSE]
    /\ feed' = IF feed.ring = "none" THEN feed
               ELSE [feed EXCEPT !.ring = IF feed.subs = 0 /\ ~RetainIdleFeed THEN "none"
                                          ELSE IF @ = "ended" THEN @ ELSE "paused"]
    /\ Goto(t, "exclusive")

(* Mutant: an exclusive operation does not wait for backup pins. *)
UnpinnedOrNot == table.state # "busy"

Vacant == table.state # "busy" /\ table.pins = 0

BeginExclusive(t) ==
    /\ pc[t] = "asking" /\ Awake(t)
    /\ UNCHANGED <<timer, control, calls, faults>>
    /\ CASE Cancelled(t) ->
              Goto(t, "refused") /\ UNCHANGED <<table, feed, mutex, asleep, note>>
         [] ~Cancelled(t) /\ ~(Vacant \/ (~Closing(t) /\ table.cleanup)) ->
              Block(t)
         [] OTHER ->
              IF (~Closing(t) /\ (table.failed \/ table.cleanup)) \/ table.state = "gone"
              THEN Goto(t, "refused") /\ UNCHANGED <<table, feed, mutex, asleep, note>>
              ELSE /\ IF t = "timer" THEN NotifyAll ELSE UNCHANGED asleep
                   /\ IF table.active = 0
                      THEN Hold(t) /\ UNCHANGED mutex
                      ELSE /\ table' = [table EXCEPT !.state = "busy"]
                           /\ mutex' = t /\ Goto(t, "draining") /\ UNCHANGED feed
                   /\ UNCHANGED note

Drain(t) ==
    /\ pc[t] = "draining" /\ Awake(t)
    /\ IF table.active = 0
       THEN Hold(t) /\ UNCHANGED <<mutex, asleep, note>>
       ELSE IF Cancelled(t)
       THEN /\ table' = [table EXCEPT !.state = IF table.cleanup THEN "failed" ELSE "open"]
            /\ NotifyAll /\ Goto(t, "refused") /\ UNCHANGED <<feed, mutex, note>>
       ELSE Block(t)
    /\ UNCHANGED <<timer, control, calls, faults>>

(* Mutant: the fence is not looked at. *)
EndOpen(t, f) ==
    /\ feed' = [f EXCEPT !.ring = IF @ = "none" \/ (f.subs = 0 /\ f.deadline # "armed") THEN "none" ELSE "attached"]
    /\ Carry(t, "publish", "open")

(* EndExclusive with a store, feed f as the operation leaves it: fenced when
   the feed cleanup or a migration failed, else an idle feed ends and any other
   is resumed. *)
EndServing(t, f) ==
    IF table.cleanup \/ table.failed
    THEN /\ feed' = [f EXCEPT !.ring = IF @ = "none" THEN @ ELSE "ended"]
         /\ Carry(t, "publish", "failed")
    ELSE /\ feed' = [f EXCEPT !.ring = IF @ = "none" \/ (f.subs = 0 /\ f.deadline # "armed") THEN "none" ELSE "attached"]
         /\ Carry(t, "publish", "open")

(* EndExclusive without one. *)
EndGone(t, f) ==
    /\ feed' = [f EXCEPT !.ring = IF @ = "none" THEN @ ELSE "ended"]
    /\ Carry(t, "publish", "gone")

Publish(t) ==
    /\ pc[t] = "publish" /\ mutex = "free"
    /\ table' = [table EXCEPT !.state = note[t], !.home = note[t] # "gone"]
    /\ Goto(t, "notify")
    /\ UNCHANGED <<feed, timer, mutex, asleep, control, note, calls, faults>>

(* The last notification of EndExclusive; a watch then releases the timer control. *)
Notify(t) ==
    /\ pc[t] = "notify"
    /\ NotifyAll
    /\ IF t = "timer"
       THEN Carry(t, IF timer.expired THEN "finish" ELSE "idle", "none")
       ELSE Carry(t, "out", "none")
    /\ control' = IF control = t THEN "free" ELSE control
    /\ UNCHANGED <<table, feed, timer, mutex, calls, faults>>

Refused(t) ==
    /\ pc[t] = "refused"
    /\ Carry(t, IF t = "timer" THEN "finish" ELSE "out", "none")
    /\ control' = IF control = t THEN "free" ELSE control
    /\ UNCHANGED <<table, feed, timer, mutex, asleep, calls, faults>>

(* ---------------------------------- DDL ---------------------------------- *)
(* RewriteManifest, Drop, EnableFeature, CreateFeedSlot and the rest. *)
StartDDL ==
    /\ Call("ddl")
    /\ IF table.failed THEN UNCHANGED <<pc, note>> ELSE Carry("ddl", "asking", "none")
    /\ UNCHANGED <<table, feed, timer, mutex, asleep, control, faults>>

(* RecoverTable admits what does not serve. *)
ServesUnfenced == table.state = "open" /\ ~table.cleanup

StartRecovery ==
    /\ Call("ddl")
    /\ ~table.failed /\ ~ServesUnfenced
    /\ Carry("ddl", "asking", "closing")
    /\ UNCHANGED <<table, feed, timer, mutex, asleep, control, faults>>

EndDDL ==
    /\ pc["ddl"] = "exclusive"
    /\ \/ EndServing("ddl", feed) /\ UNCHANGED <<table, faults>>
       \/ EndGone("ddl", feed) /\ UNCHANGED <<table, faults>>
       \/ Fault /\ table' = [table EXCEPT !.failed = TRUE] /\ EndGone("ddl", feed)
    /\ UNCHANGED <<timer, mutex, asleep, control, calls>>

(* A feature activation that cannot finish fails the catalog and keeps the store. *)
FailActivation ==
    /\ pc["ddl"] = "exclusive" /\ Fault
    /\ table' = [table EXCEPT !.failed = TRUE]
    /\ feed' = [feed EXCEPT !.ring = IF @ = "none" THEN @ ELSE "ended"]
    /\ Carry("ddl", "publish", "failed")
    /\ UNCHANGED <<timer, mutex, asleep, control, calls>>

(* --------------------------------- backup -------------------------------- *)
StartBackup ==
    /\ Call("backup") /\ ~table.failed /\ mutex = "free"
    /\ NotifyAll
    /\ Goto("backup", "pinning")
    /\ UNCHANGED <<table, feed, timer, mutex, control, note, faults>>

PinForBackup ==
    /\ pc["backup"] = "pinning" /\ Awake("backup")
    /\ IF table.state = "busy" /\ ~table.cleanup
       THEN Block("backup")
       ELSE /\ IF table.cleanup \/ table.state = "gone"
               THEN Goto("backup", "out") /\ UNCHANGED table
               ELSE Goto("backup", "pinned") /\ table' = [table EXCEPT !.pins = @ + 1]
            /\ UNCHANGED <<feed, mutex, asleep, note>>
    /\ UNCHANGED <<timer, control, calls, faults>>

ReleaseBackupPin ==
    /\ pc["backup"] = "pinned" /\ mutex = "free"
    /\ table' = [table EXCEPT !.pins = @ - 1]
    /\ NotifyAll
    /\ Goto("backup", "out")
    /\ UNCHANGED <<feed, timer, mutex, control, note, calls, faults>>

(* A decided migration of another table that cannot finish. *)
CatalogFails ==
    /\ ~table.failed /\ Fault
    /\ table' = [table EXCEPT !.failed = TRUE]
    /\ UNCHANGED <<feed, timer, mutex, asleep, control, pc, note, calls>>

(* ------------------------------- the watch ------------------------------- *)
Joined == [timer EXCEPT !.joinable = FALSE, !.finished = TRUE, !.stop = FALSE]

(* SubscribeFeed: a finished timer is joined before admission. *)
StartWatch ==
    /\ Call("watch") /\ control = "free" /\ ~feed.held
    /\ timer' = IF timer.finished THEN Joined ELSE timer
    /\ IF table.failed
       THEN UNCHANGED <<pc, note, control>>
       ELSE Carry("watch", "asking", "subscribe") /\ control' = "watch"
    /\ UNCHANGED <<table, feed, mutex, asleep, faults>>

StartsTimer == Linger /\ ~timer.joinable

Subscribe ==
    /\ pc["watch"] = "exclusive" /\ note["watch"] = "subscribe"
    /\ IF StartsTimer
       THEN /\ timer' = [timer EXCEPT !.joinable = TRUE, !.finished = FALSE, !.expired = FALSE]
            /\ LET f == [feed EXCEPT !.ring = "attached", !.subs = @ + 1, !.held = TRUE, !.deadline = "none"]
               IN  feed' = [f EXCEPT !.ring = IF table.cleanup \/ table.failed THEN "ended" ELSE @]
            /\ pc' = [pc EXCEPT !["watch"] = "publish", !["timer"] = "idle"]
            /\ note' = [note EXCEPT !["watch"] = IF table.cleanup \/ table.failed THEN "failed" ELSE "open"]
       ELSE /\ EndServing("watch", [feed EXCEPT !.ring = "attached", !.subs = @ + 1, !.held = TRUE, !.deadline = "none"])
            /\ UNCHANGED timer
    /\ UNCHANGED <<table, mutex, asleep, control, calls, faults>>

(* ReleaseFeed is a closing admission: a subscription ends even in a failed catalog. *)
StartRelease ==
    /\ pc["watch"] = "out" /\ control = "free" /\ feed.held
    /\ Carry("watch", "asking", "closing")
    /\ control' = "watch"
    /\ feed' = [feed EXCEPT !.held = FALSE]
    /\ UNCHANGED <<table, timer, mutex, asleep, calls, faults>>

EndRelease(f) == IF table.failed THEN EndGone("watch", f) ELSE EndServing("watch", f)

(* The last subscription arms the linger deadline, or ends the feed at once. *)
Release ==
    /\ pc["watch"] = "exclusive" /\ note["watch"] = "closing"
    /\ EndRelease([feed EXCEPT !.subs = @ - 1,
                              !.deadline = IF Linger /\ ~table.failed THEN "armed" ELSE @,
                              !.ring = IF Linger /\ ~table.failed THEN @ ELSE "none"])
    /\ UNCHANGED <<table, timer, mutex, asleep, control, calls, faults>>

(* A failed ring, or a Resume that throws in SubscribeFeed: the deadline is
   cleared, the timer stopped and joined inside the exclusive section, and the
   feed ends. *)
AbandonFeed ==
    /\ pc["watch"] = "exclusive" /\ Fault
    /\ timer' = [timer EXCEPT !.stop = timer.joinable]
    /\ asleep' = asleep \ {"timer"}
    /\ feed' = [feed EXCEPT !.deadline = "none", !.subs = 0]
    /\ Goto("watch", "joining")
    /\ UNCHANGED <<table, mutex, control, note, calls>>

JoinTimer ==
    /\ pc["watch"] = "joining" /\ pc["timer"] = "out"
    /\ timer' = Joined
    /\ LET f == [feed EXCEPT !.ring = "none"]
       IN  IF note["watch"] = "closing" THEN EndRelease(f) ELSE EndServing("watch", f)
    /\ UNCHANGED <<table, mutex, asleep, control, calls, faults>>

(* ---------------------------- the linger timer --------------------------- *)
DeadlinePasses ==
    /\ feed.deadline = "armed"
    /\ feed' = [feed EXCEPT !.deadline = "passed"]
    /\ UNCHANGED <<table, timer, mutex, asleep, control, pc, note, calls, faults>>

TimerWakes ==
    /\ pc["timer"] = "idle"
    /\ feed.deadline = "passed" \/ timer.stop
    /\ Goto("timer", IF timer.stop THEN "finish" ELSE "asking")
    /\ UNCHANGED <<table, feed, timer, mutex, asleep, control, note, calls, faults>>

Expires == feed.subs = 0 /\ ~RetainIdleFeed

ExpireFeedLinger ==
    /\ pc["timer"] = "exclusive"
    /\ timer' = [timer EXCEPT !.expired = Expires]
    /\ LET f == IF Expires THEN [feed EXCEPT !.deadline = "none", !.ring = "none"] ELSE feed
       IN  IF table.failed THEN EndGone("timer", f) ELSE EndServing("timer", f)
    /\ UNCHANGED <<table, mutex, asleep, control, calls, faults>>

TimerFinishes ==
    /\ pc["timer"] = "finish"
    /\ Goto("timer", "out")
    /\ timer' = [timer EXCEPT !.finished = TRUE]
    /\ UNCHANGED <<table, feed, mutex, asleep, control, note, calls, faults>>

(* QuarantineFeedLinger: the flag and a first notification without mutex_, the
   feed detached, then the state under mutex_ and a last notification. *)
QuarantineFeedLinger ==
    /\ pc["timer"] = "exclusive" /\ Fault
    /\ table' = [table EXCEPT !.cleanup = TRUE]
    /\ Goto("timer", "quarantine")
    /\ UNCHANGED <<feed, timer, mutex, asleep, control, note, calls>>

QuarantineNotifies ==
    /\ pc["timer"] = "quarantine"
    /\ NotifyAll
    /\ feed' = [feed EXCEPT !.ring = IF @ = "none" THEN @ ELSE "ended"]
    /\ Goto("timer", "fence")
    /\ UNCHANGED <<table, timer, mutex, control, note, calls, faults>>

QuarantineFences ==
    /\ pc["timer"] = "fence" /\ mutex = "free"
    /\ table' = [table EXCEPT !.state = "failed", !.home = TRUE]
    /\ Goto("timer", "fenced")
    /\ UNCHANGED <<feed, timer, mutex, asleep, control, note, calls, faults>>

LastNotification == NotifyAll

QuarantineEnds ==
    /\ pc["timer"] = "fenced"
    /\ LastNotification
    /\ feed' = [feed EXCEPT !.deadline = "none"]
    /\ Goto("timer", "finish")
    /\ UNCHANGED <<table, timer, mutex, control, note, calls, faults>>

(* ------------------------------ specification ---------------------------- *)
Command(c) ==
    \/ Acquire(c) \/ LoadState(c) \/ EndCommand(c) \/ Uncount(c)
    \/ CheckBusy(c) \/ Nudge(c) \/ AwaitReopen(c)

Exclusive(t) == BeginExclusive(t) \/ Drain(t) \/ Publish(t) \/ Notify(t) \/ Refused(t)

Ddl == Exclusive("ddl") \/ EndDDL \/ FailActivation

Backup == PinForBackup \/ ReleaseBackupPin

Watch == Exclusive("watch") \/ Subscribe \/ StartRelease \/ Release \/ AbandonFeed \/ JoinTimer

Timer ==
    \/ Exclusive("timer") \/ TimerWakes \/ ExpireFeedLinger \/ TimerFinishes
    \/ QuarantineFeedLinger \/ QuarantineNotifies \/ QuarantineFences \/ QuarantineEnds

Next ==
    \/ FallAsleep \/ DeadlinePasses \/ CatalogFails
    \/ \E c \in Commands : Command(c)
    \/ StartDDL \/ StartRecovery \/ StartBackup \/ StartWatch
    \/ Ddl \/ Backup \/ Watch \/ Timer

Spec == Init /\ [][Next]_vars

(* Threads run; time passes; a watch that was started is released at some time. *)
FairSpec ==
    /\ Spec
    /\ WF_vars(FallAsleep) /\ WF_vars(DeadlinePasses)
    /\ \A c \in Commands : WF_vars(Command(c))
    /\ WF_vars(Ddl) /\ WF_vars(Backup) /\ WF_vars(Watch) /\ WF_vars(Timer)

(* ------------------------------- properties ------------------------------ *)
(* The store a command runs on (Lease::store_, a plain pointer) and the one a
   backup copies (BackupPin) stay in place: no control operation has taken the
   store out of the table, and at most one has ever taken it. *)
LeasedStoreInPlace ==
    LET taken == {t \in Threads : pc[t] \in {"exclusive", "joining", "quarantine", "fence"}}
    IN  /\ Cardinality(taken) <= 1
        /\ (\E c \in Commands : pc[c] = "leased") => taken = {} /\ table.home
        /\ pc["backup"] = "pinned" => taken = {}

(* What is open to commands serves them whole.  A table whose feed cleanup
   failed is never open again as it is: only a recovery takes it out of its
   fence (FeedRecoveryRequiredError).  And an open table feeds its watches:
   while a subscription is held the ring is attached, so a change is never
   written past a live watch. *)
ServesWhole ==
    table.state = "open" =>
        ~table.cleanup /\ (feed.subs > 0 => feed.ring = "attached")

AllAnswered == \A t \in Threads : t = "timer" \/ pc[t] = "out"

=============================================================================
