------------------------------ MODULE SlotWatch ------------------------------
(***************************************************************************)
(* Delivery of one durable slot to its consumer: a watch (slot_watch.cpp)  *)
(* and its three threads, the catch-up worker (FeedIo::CatchUp calling     *)
(* WorkStep), the socket loop (FeedIo::Run) and a session that claims the  *)
(* slot (Table::ClaimFeedSlot), possibly by taking it over from another    *)
(* connection.                                                             *)
(*                                                                         *)
(* The table is abstract: revisions complete in order, some of them are    *)
(* changes; the durable frontier follows; the slot's persisted position    *)
(* `written' and the staged acknowledgement; a live subscription is a      *)
(* position that the ring may overrun, and an archive reader yields the    *)
(* changes up to the frontier it captured (module FeedSlots).  A frame is  *)
(* <<kind, revision>>.                                                     *)
(***************************************************************************)
EXTENDS Integers, Sequences, SequencesExt, FiniteSets, FiniteSetsExt

CONSTANTS Watches,       \* the connections, each claims the slot at most once
          NoWatch,
          Events,        \* the environment's events that happen: of "lost", "foreign", "expired"
          MaxRevision, MaxOverruns    \* bounds

VARIABLES completed, changes, durable, written, staged, slotLost, overruns,
          owner,         \* the watch that holds the slot's claim
          taker,         \* the session waiting in RequestTakeoverAndWait
          replaced,      \* replaced[w]: the watch w took the slot over from
          watch, got, place

table == <<completed, changes, durable, slotLost, overruns>>
slot == <<written, staged>>
claim == <<owner, taker, replaced>>
client == <<got, place>>
vars == <<table, slot, claim, watch, client>>

Revisions == 0 .. MaxRevision
Kinds == {"change", "progress", "resync", "ok", "error", "killed"}
Fresh == [state |-> "off", sock |-> "none", ioReady |-> FALSE,
          takeover |-> FALSE, cancelled |-> FALSE, unwatch |-> FALSE, expired |-> FALSE, resync |-> FALSE,
          start |-> 0, sent |-> 0, ack |-> 0, cursor |-> 0, join |-> 0, live |-> 0, overrun |-> FALSE,
          joined |-> FALSE, through |-> 0, out |-> <<>>, net |-> <<>>]

TypeOK ==
    /\ completed \in Revisions /\ durable \in 0 .. completed /\ changes \subseteq 1 .. completed
    /\ written \in Revisions /\ staged \in Revisions
    /\ owner \in Watches \cup {NoWatch} /\ taker \in Watches \cup {NoWatch}
    /\ got \subseteq changes /\ place \in Revisions
    /\ \A w \in Watches :
          /\ watch[w].state \in {"off", "attached", "active", "done"}
          /\ watch[w].sock \in {"none", "open", "returned", "closed"}
          /\ {watch[w].sent, watch[w].ack, watch[w].cursor, watch[w].join, watch[w].live} \subseteq Revisions
          /\ Range(watch[w].out \o watch[w].net) \subseteq Kinds \X Revisions

Max2(a, b) == IF a > b THEN a ELSE b
Min2(a, b) == IF a < b THEN a ELSE b
Set(w, v) == watch' = [watch EXCEPT ![w] = v]

-----------------------------------------------------------------------------
(* The table. *)

Complete ==
    /\ completed < MaxRevision
    /\ completed' = completed + 1
    /\ changes' \in {changes, changes \cup {completed + 1}}
    /\ UNCHANGED <<durable, slotLost, overruns, slot, claim, watch, client>>

NewFrontier == completed
Sync ==
    /\ durable < completed
    /\ durable' = NewFrontier
    /\ UNCHANGED <<completed, changes, slotLost, overruns, slot, claim, watch, client>>

LoseSlot ==
    /\ "lost" \in Events /\ ~slotLost
    /\ slotLost' = TRUE
    /\ UNCHANGED <<completed, changes, durable, overruns, slot, claim, watch, client>>

(* The ring drops its entries before w's subscription read them.             *)
Overrun(w) ==
    /\ overruns < MaxOverruns /\ watch[w].state \in {"attached", "active"}
    /\ watch[w].live < completed
    /\ overruns' = overruns + 1
    /\ Set(w, [watch[w] EXCEPT !.overrun = TRUE])
    /\ UNCHANGED <<completed, changes, durable, slotLost, slot, claim, client>>

(* FeedSlots::FlushAcks, by the slots' worker. *)
FlushAcks ==
    /\ ~slotLost /\ written < staged /\ staged <= durable
    /\ written' = staged
    /\ UNCHANGED <<table, staged, claim, watch, client>>

-----------------------------------------------------------------------------
(* Claiming.  SlotWatch::Create starts at the slot's position, or after the  *)
(* consumer's own place; a place the table has not completed, or of another  *)
(* epoch, starts with a resync frame.                                        *)

Attach(w, after, foreign) ==
    LET start == IF foreign THEN written' ELSE Max2(written', after)
    IN [Fresh EXCEPT !.state = "attached", !.sock = "open", !.resync = foreign,
                     !.start = start, !.sent = start, !.cursor = start, !.ack = written',
                     !.join = completed, !.live = completed, !.joined = start >= completed]

ClaimFeedSlot(w) ==
    /\ watch[w].state = "off" /\ taker # w /\ ~slotLost
    /\ \/ /\ owner = NoWatch
          /\ owner' = w /\ UNCHANGED <<taker, written>>
          /\ \E after \in {0, place}, foreign \in {FALSE, "foreign" \in Events} : Set(w, Attach(w, after, foreign))
       \/ /\ owner # NoWatch /\ taker = NoWatch /\ watch[owner].ioReady   \* else SLOT_BUSY
          /\ taker' = w
          /\ UNCHANGED <<owner, written, watch>>
    /\ UNCHANGED <<table, staged, replaced, client>>

(* RequestTakeoverAndWait fences the old watch after the reservation; from   *)
(* here it accepts no acknowledgement.                                       *)
RequestTakeover ==
    /\ taker # NoWatch /\ ~watch[owner].takeover
    /\ Set(owner, [watch[owner] EXCEPT !.takeover = TRUE])
    /\ UNCHANGED <<table, slot, claim, client>>

Persisted(old) == Max2(written, old.ack)

(* The old watch has finished and its socket is closed: its acknowledgement  *)
(* is persisted before the new claim is published.                           *)
FinishTakeover ==
    LET old == watch[owner] IN
    /\ taker # NoWatch /\ old.takeover /\ old.state = "done" /\ old.sock = "closed"
    /\ taker' = NoWatch
    /\ IF slotLost
       THEN UNCHANGED <<written, durable, replaced, watch>> /\ owner' = NoWatch
       ELSE /\ written' = Persisted(old)
            /\ durable' = IF durable < old.ack THEN completed ELSE durable
            /\ owner' = taker
            /\ replaced' = [replaced EXCEPT ![taker] = owner]
            /\ \E after \in {0, place} : Set(taker, Attach(taker, after, FALSE))
    /\ UNCHANGED <<completed, changes, slotLost, overruns, staged, client>>

Activate(w) ==
    /\ watch[w].state = "attached" /\ watch[w].sock = "open"
    /\ Set(w, [watch[w] EXCEPT !.state = "active", !.ioReady = TRUE])
    /\ UNCHANGED <<table, slot, claim, client>>

-----------------------------------------------------------------------------
(* SlotWatch::Finish drops the claim; a session that is taking the slot over *)
(* keeps it alive until it publishes its own.                                *)

Finished(w, control) ==
    LET v == watch[w]
        kept == IF v.cancelled \/ v.expired \/ v.takeover THEN <<>> ELSE v.out
        last == IF v.cancelled \/ v.takeover THEN <<>> ELSE control
    IN /\ Set(w, [Fresh EXCEPT !.state = "done", !.sock = v.sock, !.ioReady = v.ioReady,
                     !.takeover = v.takeover, !.cancelled = v.cancelled, !.unwatch = v.unwatch, !.expired = v.expired,
                     !.start = v.start, !.sent = v.sent, !.ack = v.ack, !.net = v.net, !.out = kept \o last])
       /\ owner' = IF taker # NoWatch THEN owner ELSE NoWatch
       /\ UNCHANGED <<taker, replaced>>

(* WorkStep runs only for a watch that the socket loop activated, or that    *)
(* was cancelled before.                                                     *)
Working(w) == watch[w].state = "active" \/ (watch[w].state = "attached" /\ watch[w].cancelled)

(* FlushAck(true): stage, make the acknowledgement durable, persist it.      *)
FlushAckForced(w) ==
    /\ written' = Max2(written, watch[w].ack)
    /\ staged' = IF staged > written' THEN staged ELSE 0
    /\ durable' = IF durable < watch[w].ack THEN completed ELSE durable

(* SlotWatch::Work up to the flags' early returns: takeover, cancellation,   *)
(* UNWATCH, the ACK deadline and a lost slot, in this order.                 *)
WorkEnd(w) ==
    LET v == watch[w]
        forced == v.takeover \/ (~v.cancelled /\ (v.unwatch \/ v.expired))
        control == IF slotLost \/ ~v.unwatch THEN <<<<"error", 0>>>> ELSE <<<<"ok", 0>>>>
    IN /\ Working(w)
       /\ v.takeover \/ v.cancelled \/ v.unwatch \/ v.expired \/ slotLost
       /\ IF slotLost THEN UNCHANGED <<slot, durable>>
          ELSE IF forced THEN FlushAckForced(w)
          ELSE /\ staged' = IF v.ack > written THEN Max2(staged, v.ack) ELSE staged
               /\ UNCHANGED <<written, durable>>
       /\ Finished(w, control)
       /\ UNCHANGED <<completed, changes, slotLost, overruns, client>>

(* An ordinary step first stages what the consumer acknowledged.             *)
WorkOn(w) ==
    LET v == watch[w] IN
    /\ v.state = "active" /\ ~(v.takeover \/ v.cancelled \/ v.unwatch \/ v.expired \/ slotLost)
    /\ staged' = IF v.ack > written THEN Max2(staged, v.ack) ELSE staged
    /\ UNCHANGED <<table, written, claim, client>>

(* Publish admits a frame only when the queue is empty.                      *)
WorkResync(w) ==
    /\ WorkOn(w) /\ watch[w].resync /\ watch[w].out = <<>>
    /\ Set(w, [watch[w] EXCEPT !.out = <<<<"resync", watch[w].start>>>>, !.resync = FALSE])

Within(lo, hi) == {c \in changes : lo < c /\ c <= hi}

(* Mutant: one pass over the archive suffices. *)
JoinsEarly(v) == TRUE
Joins(v) == v.through >= v.join

Behind(v) == durable > v.cursor

(* Until the cursor has reached the position where the live subscription     *)
(* began, the archive supplies the changes.                                  *)
WorkArchive(w) ==
    LET v == watch[w]
        rest == Within(v.cursor, v.through)
    IN /\ WorkOn(w) /\ ~v.resync /\ ~v.joined
       /\ \/ /\ v.through = 0 /\ Behind(v)
             /\ Set(w, [v EXCEPT !.through = durable])
          \/ /\ v.through # 0 /\ rest # {} /\ v.out = <<>>
             /\ Set(w, [v EXCEPT !.cursor = Min(rest), !.out = <<<<"change", Min(rest)>>>>])
          \/ /\ v.through # 0 /\ rest = {}
             /\ Set(w, [v EXCEPT !.cursor = v.through, !.through = 0, !.joined = Joins(v)])

Seen(v, c) == c <= v.cursor

Sendable(c) == c <= durable

(* Then the ring does; an entry above the frontier is held back, and an      *)
(* overrun subscription goes back to the archive.                            *)
WorkLive(w) ==
    LET v == watch[w]
        rest == Within(v.live, completed)
        c == Min(rest)
    IN /\ WorkOn(w) /\ ~v.resync /\ v.joined
       /\ \/ /\ v.overrun
             /\ Set(w, [v EXCEPT !.join = completed, !.live = completed, !.overrun = FALSE, !.joined = FALSE])
          \/ /\ ~v.overrun /\ rest # {} /\ Seen(v, c)
             /\ Set(w, [v EXCEPT !.live = c])
          \/ /\ ~v.overrun /\ rest # {} /\ ~Seen(v, c) /\ Sendable(c) /\ v.out = <<>>
             /\ Set(w, [v EXCEPT !.live = c, !.cursor = c, !.out = <<<<"change", c>>>>])

(* SlotWatch::Progress, when there is nothing to deliver.  Repeated frames   *)
(* are bounded: one at a time, and only when it tells the consumer its place *)
(* anew.                                                                     *)
ProgressPosition(v) == Min2(IF v.joined THEN completed ELSE v.cursor, durable)
WorkProgress(w) ==
    LET v == watch[w] IN
    /\ WorkOn(w) /\ ~v.resync
    /\ IF v.joined THEN ~v.overrun /\ Within(v.live, completed) = {}
       ELSE v.through = 0 /\ ~Behind(v)
    /\ v.net \o v.out = <<>> /\ ProgressPosition(v) # place
    /\ Set(w, [v EXCEPT !.out = <<<<"progress", ProgressPosition(v)>>>>])

WorkIdle(w) == WorkOn(w) /\ staged' # staged /\ UNCHANGED watch

-----------------------------------------------------------------------------
(* The socket loop.  It stays away from a watch that is being taken over     *)
(* until the worker finished it.                                             *)

Closed(v) == [v EXCEPT !.sock = "closed", !.cancelled = TRUE]

(* Pull and Write: the front of the queue goes to the socket whole, and its  *)
(* revision becomes the highest one the consumer may acknowledge.            *)
IoWrite(w) ==
    LET v == watch[w]
        f == Head(v.out)
    IN /\ v.sock = "open" /\ v.state \in {"active", "done"} /\ v.out # <<>>
       /\ ~v.takeover /\ ~(v.expired /\ v.state = "done")
       /\ Set(w, [v EXCEPT !.out = Tail(@), !.net = Append(@, f),
                           !.sent = IF f[1] \in {"change", "progress"} THEN Max2(@, f[2]) ELSE @])
       /\ UNCHANGED <<table, slot, claim, client>>

(* The terminal write of a watch that was taken over or timed out drops what *)
(* is queued, and the socket closes whether it was written or not.           *)
IoTerminate(w) ==
    LET v == watch[w] IN
    /\ v.sock = "open" /\ v.state = "done" /\ (v.takeover \/ v.expired)
    /\ \E last \in {<<>>, <<<<IF v.takeover THEN "killed" ELSE "error", 0>>>>} :
          Set(w, [Closed(v) EXCEPT !.out = <<>>, !.net = @ \o last])
    /\ UNCHANGED <<table, slot, claim, client>>

ReleaseConnectionForReturn == taker = NoWatch

(* Everything written, the connection goes back to the workers after OK and  *)
(* closes after an error; a pending takeover closes it too                   *)
(* (ReleaseConnectionForReturn).                                             *)
IoFinish(w) ==
    LET v == watch[w] IN
    /\ v.sock = "open" /\ v.state = "done" /\ ~v.takeover /\ ~v.expired
    /\ v.out = <<>>
    /\ Set(w, IF v.unwatch /\ ~slotLost /\ ReleaseConnectionForReturn
              THEN [v EXCEPT !.sock = "returned", !.ioReady = FALSE, !.cancelled = TRUE]
              ELSE Closed(v))
    /\ UNCHANGED <<table, slot, claim, client>>

Readable(v) == v.sock = "open" /\ ~v.unwatch /\ ~v.takeover /\ v.state \in {"active", "done"}

Ack(w, r) ==
    LET v == watch[w] IN
    /\ Readable(v) /\ v.state = "active" /\ ~v.expired
    /\ v.ack < r /\ r <= v.sent /\ r <= place
    /\ Set(w, [v EXCEPT !.ack = r])
    /\ UNCHANGED <<table, slot, claim, client>>

Unwatch(w) ==
    LET v == watch[w] IN
    /\ Readable(v) /\ ~v.expired
    /\ Set(w, [v EXCEPT !.unwatch = TRUE])
    /\ UNCHANGED <<table, slot, claim, client>>

(* The oldest change sent and not acknowledged is overdue.                   *)
ExpireAckDeadline(w) ==
    LET v == watch[w] IN
    /\ "expired" \in Events
    /\ v.state = "active" /\ ~v.cancelled /\ ~v.unwatch /\ ~v.expired
    /\ Within(Max2(v.ack, v.start), v.sent) # {}
    /\ Set(w, [v EXCEPT !.expired = TRUE])
    /\ UNCHANGED <<table, slot, claim, client>>

Disconnect(w) ==
    /\ watch[w].sock = "open"
    /\ Set(w, [Closed(watch[w]) EXCEPT !.net = <<>>])
    /\ UNCHANGED <<table, slot, claim, client>>

(* The consumer.  A resync makes it rebuild its state at that position.      *)
Receive(w) ==
    LET v == watch[w]
        f == Head(v.net)
    IN /\ v.net # <<>>
       /\ Set(w, [v EXCEPT !.net = Tail(@)])
       /\ got' = CASE f[1] = "change" -> got \cup {f[2]}
                   [] f[1] = "resync" -> got \cup Within(0, f[2])
                   [] OTHER -> got
       /\ place' = CASE f[1] \in {"change", "progress"} -> Max2(place, f[2])
                     [] f[1] = "resync" -> f[2]
                     [] OTHER -> place
       /\ UNCHANGED <<table, slot, claim>>

-----------------------------------------------------------------------------
Init ==
    /\ completed = 0 /\ changes = {} /\ durable = 0 /\ written = 0 /\ staged = 0
    /\ slotLost = FALSE /\ overruns = 0
    /\ owner = NoWatch /\ taker = NoWatch /\ replaced = [w \in Watches |-> NoWatch]
    /\ watch = [w \in Watches |-> Fresh] /\ got = {} /\ place = 0

Work(w) == WorkEnd(w) \/ WorkResync(w) \/ WorkArchive(w) \/ WorkLive(w) \/ WorkProgress(w) \/ WorkIdle(w)
Io(w) == Activate(w) \/ IoWrite(w) \/ IoTerminate(w) \/ IoFinish(w)
Consumer(w) == ClaimFeedSlot(w) \/ Unwatch(w) \/ Disconnect(w) \/ \E r \in Revisions : Ack(w, r)

Next ==
    \/ Complete \/ Sync \/ LoseSlot \/ FlushAcks \/ RequestTakeover \/ FinishTakeover
    \/ \E w \in Watches : Work(w) \/ Io(w) \/ Receive(w) \/ Consumer(w) \/ Overrun(w) \/ ExpireAckDeadline(w)

Spec == Init /\ [][Next]_vars

(* The worker sweeps every watch at least every 100 ms, the socket loop is   *)
(* woken by every event, the consumer reads what is sent and the slots'      *)
(* worker syncs at its interval; nothing obliges a consumer to acknowledge.  *)
FairSpec ==
    /\ Spec /\ WF_vars(Sync) /\ WF_vars(RequestTakeover \/ FinishTakeover)
    /\ \A w \in Watches : WF_vars(Work(w)) /\ WF_vars(Io(w)) /\ WF_vars(Receive(w))

-----------------------------------------------------------------------------
(* The consumer's place never passes a change it has not received: not by a  *)
(* frame, a progress frame, a resumption after its place, a takeover or a    *)
(* switch between archive and ring (SlotWatch::Work).                        *)
NoSkippedChange == Within(0, place) \subseteq got

(* Nothing is sent that a power loss could take back: every queued or sent   *)
(* revision is at or below the durable frontier.                             *)
OnlyDurableSent ==
    \A w \in Watches : \A f \in Range(watch[w].out \o watch[w].net) :
        f[1] \in {"change", "progress"} => f[2] <= durable

(* One connection's frames carry its changes in increasing order, above the  *)
(* position it started from, each once (cursor_, sent_).                     *)
ChangesOf(w) == SelectSeq(watch[w].net \o watch[w].out, LAMBDA f : f[1] = "change")
EachOnceInOrder ==
    \A w \in Watches :
        LET q == ChangesOf(w)
        IN /\ \A i \in 1 .. Len(q) - 1 : q[i][2] < q[i + 1][2]
           /\ q # <<>> => watch[w].start < q[1][2]
           /\ q # <<>> /\ watch[w].state = "active" => Last(q)[2] <= watch[w].cursor

(* The slot's position never passes the consumer's acknowledgements, and a   *)
(* watch that took the slot over starts with every acknowledgement its       *)
(* predecessor accepted, whose socket is closed (ClaimFeedSlot).             *)
TakeoverKeepsAcks ==
    \A w \in Watches : replaced[w] # NoWatch =>
        /\ watch[replaced[w]].ack <= watch[w].start
        /\ watch[replaced[w]].sock = "closed"

Attached == \E w \in Watches : watch[w].sock = "open"
Due(r) == r \in changes /\ r <= durable
Delivered(r) == Attached /\ ~slotLost => r \in got

=============================================================================
