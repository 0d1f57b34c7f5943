----------------------------- MODULE ChangeFeed -----------------------------
(***************************************************************************)
(* The change feed of one table: FeedWriteGuard and its producers, the     *)
(* sender thread, the retained ring, the subscriptions, and the exclusive  *)
(* table sections that pause, resume, end and replace the feed.            *)
(*                                                                         *)
(* A write takes a capture buffer, announces a lower bound of the revision *)
(* it will get, reserves the revision, captures, publishes, and withdraws  *)
(* the bound.  The sender samples the clock, scans the bounds, and moves   *)
(* every published write below all of them into the ring in revision       *)
(* order.  An atomic access or a section under mutex_ is one step, except  *)
(* that accesses in a row whose order nobody can observe share a step.     *)
(* Memory is counted in units: a node with its capture buffers, and a ring *)
(* entry, is one unit.  A producer that is not registered yet is one whose *)
(* bound is 0 and whose queues are empty.                                  *)
(***************************************************************************)
EXTENDS Integers, Sequences, FiniteSets, SequencesExt, FiniteSetsExt

CONSTANTS Producers,    \* writer threads
          Clients,      \* readers
          MaxRevision,  \* bound on the revisions issued
          Budgets,      \* values of feed_buffer_bytes, in units
          Loads         \* bounds: entries larger than the budget, resumptions
                        \* and exclusive sections; and whether the readers
                        \* begin with a position of an earlier feed

ASSUME FeedAssumption ==
  /\ MaxRevision \in Nat
  /\ Budgets \subseteq Nat \ {0}
  /\ Loads \subseteq [larges : Nat, resumes : Nat, sections : Nat, again : BOOLEAN]

Revisions == 1 .. MaxRevision

VARIABLES clock, bound, guard,                     \* the store and its writers
          incoming, pending, recycled,             \* the producers' queues
          bytes, budget, lost_until, wake, stopping,
          ring, floor, watermark, drained, reset,  \* under mutex_
          feed, busy, subscribed, error,           \* Table::feed_ and its control
          send, sub,                               \* the sender and the readers
          left,                                    \* the load still to come
          committed, last                          \* history, for FeedLog

writer == <<clock, bound, guard>>
queues == <<incoming, pending, recycled>>
shared == <<bytes, budget, lost_until, wake, stopping>>
ringVars == <<ring, floor, watermark, drained, reset>>
control == <<feed, busy, subscribed, error>>
history == <<committed, last>>
vars == <<writer, queues, shared, ringVars, control, send, sub, left, history>>

Mx(a, b) == IF a > b THEN a ELSE b
Mn(a, b) == IF a < b THEN a ELSE b

Idle == [pc |-> "idle", lower |-> 0, revision |-> 0, write |-> FALSE, captures |-> FALSE]
Stopped == [pc |-> "off", todo |-> {}, mark |-> 0, lost |-> 0, last |-> FALSE]

Init ==
  /\ clock = 1
  /\ bound = [p \in Producers |-> 0]
  /\ guard = [p \in Producers |-> Idle]
  /\ incoming = [p \in Producers |-> <<>>]
  /\ pending = [p \in Producers |-> <<>>]
  /\ recycled = [p \in Producers |-> 0]
  /\ bytes = 0 /\ budget \in Budgets /\ lost_until = 0 /\ wake = FALSE /\ stopping = FALSE
  /\ ring = <<>> /\ floor = 0 /\ watermark = 0 /\ drained = 0 /\ reset = 0
  /\ feed = "on" /\ busy = FALSE /\ subscribed = TRUE /\ error = FALSE
  /\ send = [Stopped EXCEPT !.pc = "clock"]
  /\ left \in Loads
  /\ sub = [c \in Clients |-> [on |-> TRUE, position |-> 0, reset |-> 0,
                               invalid |-> left.again, over |-> -1]]
  /\ committed = {} /\ last = [c \in Clients |-> "start"]

-----------------------------------------------------------------------------
(* The writers. *)

(* Take pops a recycled node or makes one: ReserveCapture evicts the       *)
(* oldest entry before it refuses.  It is also refused while the sender    *)
(* reclaims idle nodes.  A refused capture drops the change.  Then the     *)
(* clock is read.                                                          *)
TakeWrite(p) ==
  /\ guard[p].pc = "idle" /\ ~busy /\ clock <= MaxRevision
  /\ \E write \in BOOLEAN :
       /\ guard' = [guard EXCEPT ![p] = [pc |-> "slot", lower |-> clock, revision |-> 0,
                                     write |-> write, captures |-> feed = "on"]]
       /\ \/ /\ ~write /\ (feed # "on" \/ send.pc = "drain")
             /\ UNCHANGED <<bytes, recycled, ring, floor>>
          \/ /\ write /\ feed = "on" /\ recycled[p] > 0
             /\ recycled' = [recycled EXCEPT ![p] = @ - 1]
             /\ UNCHANGED <<bytes, ring, floor>>
          \/ /\ write /\ feed = "on" /\ recycled[p] = 0 /\ bytes < budget
             /\ bytes' = bytes + 1
             /\ UNCHANGED <<recycled, ring, floor>>
          \/ /\ feed = "on" /\ recycled[p] = 0 /\ bytes >= budget
             /\ write = (ring # <<>>)
             /\ floor' = IF write THEN Head(ring) ELSE floor
             /\ ring' = IF write THEN Tail(ring) ELSE ring
             /\ UNCHANGED <<bytes, recycled>>
  /\ UNCHANGED <<clock, bound, incoming, pending, budget, lost_until, wake, stopping,
                 watermark, drained, reset, control, send, sub, left, history>>

StoreBound(p) ==
  /\ guard[p].pc = "slot"
  /\ bound' = [bound EXCEPT ![p] = guard[p].lower]
  /\ guard' = [guard EXCEPT ![p].pc = "version", ![p].lower = 0]
  /\ UNCHANGED <<clock, queues, shared, ringVars, control, send, sub, left, history>>

NextVersion(p) ==
  /\ guard[p].pc = "version" /\ clock <= MaxRevision
  /\ clock' = clock + 1
  /\ guard' = [guard EXCEPT ![p].pc = "commit", ![p].revision = clock]
  /\ UNCHANGED <<bound, queues, shared, ringVars, control, send, sub, left, history>>

(* The copies of the capture grow buffers, and the budget may refuse one   *)
(* although the node was granted.                                          *)
CopyRefused(p) == guard[p].captures /\ (guard[p].write => bytes >= budget /\ ring = <<>>)

(* Commit and Publish: the captured change joins its producer's queue; a   *)
(* dropped one raises lost_until and wakes the sender.                     *)
Publish(p) ==
  LET v == guard[p].revision IN
  /\ guard[p].pc = "commit"
  /\ committed' = committed \cup {v}
  /\ \E dropped \in BOOLEAN :
       /\ dropped => CopyRefused(p)
       /\ ~dropped => (guard[p].write = guard[p].captures)
       /\ guard' = [guard EXCEPT ![p].pc = "finish", ![p].revision = 0,
                                 ![p].write = @ /\ dropped]
       /\ incoming' = IF guard[p].write /\ ~dropped
                      THEN [incoming EXCEPT ![p] = Append(@, v)] ELSE incoming
       /\ lost_until' = IF dropped THEN Mx(lost_until, v) ELSE lost_until
       /\ wake' = (wake \/ dropped)
  /\ UNCHANGED <<clock, bound, pending, recycled, bytes, budget, stopping, ringVars,
                 control, send, sub, left, last>>

(* The write fails: its guard is destroyed without a commit.  (A write     *)
(* that would need a revision beyond the bound fails too.)                 *)
Abandon(p) ==
  /\ \/ guard[p].pc = "commit"
     \/ guard[p].pc = "version" /\ clock > MaxRevision
  /\ guard' = [guard EXCEPT ![p].pc = "finish", ![p].revision = 0]
  /\ UNCHANGED <<clock, bound, queues, shared, ringVars, control, send, sub, left,
                 history>>

Finish(p) ==
  /\ guard[p].pc = "finish"
  /\ recycled' = [recycled EXCEPT ![p] = @ + (IF guard[p].write THEN 1 ELSE 0)]
  /\ bound' = [bound EXCEPT ![p] = 0]
  /\ guard' = [guard EXCEPT ![p] = IF guard[p].captures THEN [Idle EXCEPT !.pc = "wake"]
                                   ELSE Idle]
  /\ UNCHANGED <<clock, incoming, pending, shared, ringVars, control, send, sub, left,
                 history>>

WakeSender(p) ==
  /\ guard[p].pc = "wake"
  /\ wake' = TRUE
  /\ guard' = [guard EXCEPT ![p] = Idle]
  /\ UNCHANGED <<clock, bound, queues, bytes, budget, lost_until, stopping, ringVars,
                 control, send, sub, left, history>>
-----------------------------------------------------------------------------
(* The sender.  mark is the least bound met: the watermark is mark - 1.    *)

(* The wait returns, and the signal is consumed before anything is read. *)
Awake ==
  /\ send.pc = "wait" /\ wake
  /\ wake' = FALSE
  /\ send' = [send EXCEPT !.pc = "clock"]
  /\ UNCHANGED <<writer, queues, bytes, budget, lost_until, stopping, ringVars, control,
                 sub, left, history>>

SampleClock ==
  /\ send.pc = "clock"
  /\ send' = [send EXCEPT !.pc = "scan", !.mark = clock, !.todo = Producers]
  /\ UNCHANGED <<writer, queues, shared, ringVars, control, sub, left, history>>

\* Mutant: writes under way are not waited for.
IgnoreBound(low, p) == low
\* The least bound met, p's included.
Lower(low, p) == IF bound[p] = 0 THEN low ELSE Mn(low, bound[p])

LoadBound(p) ==
  /\ send.pc = "scan" /\ p \in send.todo
  /\ send' = [send EXCEPT !.pc = IF send.todo = {p} THEN "merge" ELSE "scan",
                          !.todo = @ \ {p}, !.mark = Lower(@, p)]
  /\ UNCHANGED <<writer, queues, shared, ringVars, control, sub, left, history>>

\* What follows a merge: once more when stopping, and then the end.
AfterMerge == IF send.last THEN [Stopped EXCEPT !.pc = "done"]
              ELSE IF stopping THEN [Stopped EXCEPT !.pc = "clock", !.last = TRUE]
              ELSE [Stopped EXCEPT !.pc = "wait"]

\* The producer's stack, reversed, behind what it still has pending.
Collect(p) == pending[p] \o incoming[p]

(* Every queue is collected.  When a change was dropped, nothing moves on  *)
(* until the watermark covers it, and then the ring is reset.              *)
BeginMerge ==
  /\ send.pc = "merge"
  /\ watermark' = Mx(watermark, send.mark - 1)
  /\ pending' = [p \in Producers |-> Collect(p)]
  /\ incoming' = [p \in Producers |-> <<>>]
  /\ send' = IF lost_until # 0 /\ send.mark - 1 < lost_until THEN AfterMerge
             ELSE [send EXCEPT !.pc = "drain", !.lost = lost_until]
  /\ UNCHANGED <<writer, recycled, shared, ring, floor, drained, reset, control, sub,
                 left, history>>

Ready == {p \in Producers : pending[p] # <<>> /\ Head(pending[p]) < send.mark}
Selected == CHOOSE p \in Ready : \A q \in Ready : Head(pending[p]) <= Head(pending[q])

(* Append: evict the oldest entry, or give up the consumed node's buffers, *)
(* or an idle node, to make room.                                          *)
AppendEntry(v, consumed) ==
  LET kept == [p \in Producers |-> recycled[p] + (IF p \in consumed THEN 1 ELSE 0)] IN
  \/ /\ bytes < budget
     /\ ring' = Append(ring, v) /\ bytes' = bytes + 1
     /\ recycled' = kept /\ UNCHANGED <<floor, lost_until, wake>>
  \/ /\ bytes >= budget /\ ring # <<>>
     /\ floor' = Head(ring) /\ ring' = Append(Tail(ring), v)
     /\ recycled' = kept /\ UNCHANGED <<bytes, lost_until, wake>>
  \/ /\ bytes >= budget /\ ring = <<>>
     /\ \E p \in Producers : kept[p] > 0 /\ recycled' = [kept EXCEPT ![p] = @ - 1]
     /\ ring' = <<v>> /\ UNCHANGED <<bytes, floor, lost_until, wake>>
  \/ /\ bytes >= budget /\ ring = <<>> /\ \A p \in Producers : kept[p] = 0
     /\ lost_until' = Mx(lost_until, v) /\ wake' = TRUE
     /\ UNCHANGED <<ring, bytes, recycled, floor>>

(* Decode returns no entry when its rows exceed the budget. *)
DecodeMayRefuse == left.larges > 0

(* One turn of Merge's loop. *)
Drain ==
  LET p == Selected
      v == Head(pending[p]) IN
  /\ send.pc = "drain" /\ Ready # {}
  /\ pending' = [pending EXCEPT ![p] = Tail(@)]
  /\ \/ \* a reset discards the write
        /\ send.lost # 0
        /\ recycled' = [recycled EXCEPT ![p] = @ + 1]
        /\ UNCHANGED <<ring, floor, bytes, lost_until, wake, error, send, left>>
     \/ \* the entry exceeds the budget
        /\ send.lost = 0 /\ DecodeMayRefuse
        /\ left' = [left EXCEPT !.larges = @ - 1]
        /\ lost_until' = Mx(lost_until, v) /\ wake' = TRUE
        /\ recycled' = [recycled EXCEPT ![p] = @ + 1]
        /\ UNCHANGED <<ring, floor, bytes, error, send>>
     \/ /\ send.lost = 0
        /\ ring # <<>> => v > Last(ring)
        /\ AppendEntry(v, {p})
        /\ UNCHANGED <<error, send, left>>
     \/ \* logic_error: the feed is closed
        /\ send.lost = 0
        /\ ring # <<>> /\ v <= Last(ring)
        /\ error' = TRUE /\ send' = [Stopped EXCEPT !.pc = "done"]
        /\ UNCHANGED <<ring, floor, bytes, lost_until, wake, recycled, left>>
  /\ UNCHANGED <<writer, incoming, budget, stopping, watermark, drained, reset, feed,
                 busy, subscribed, sub, history>>

Spare == MapThenSumSet(LAMBDA p : recycled[p], Producers)

(* The end of Merge. *)
PublishMerge ==
  /\ send.pc = "drain" /\ Ready = {}
  /\ \/ /\ send.lost # 0
        /\ ring' = <<>> /\ bytes' = bytes - Len(ring) - Spare
        /\ recycled' = [p \in Producers |-> 0]
        /\ floor' = send.mark - 1 /\ reset' = reset + 1
        /\ lost_until' = IF lost_until = send.lost THEN 0 ELSE lost_until
     \/ /\ send.lost = 0
        /\ UNCHANGED <<ring, bytes, recycled, floor, reset, lost_until>>
  /\ drained' = Mx(drained, send.mark - 1)
  /\ send' = AfterMerge
  /\ UNCHANGED <<writer, incoming, pending, budget, wake, stopping, watermark, control,
                 sub, left, history>>
-----------------------------------------------------------------------------
(* Exclusive table sections: no write runs, the sender is stopped first.   *)

BeginExclusive ==
  /\ ~busy /\ \A p \in Producers : guard[p].pc = "idle"
  /\ left.sections > 0 /\ left' = [left EXCEPT !.sections = @ - 1]
  /\ busy' = TRUE
  /\ stopping' = (feed = "on") /\ wake' = (wake \/ feed = "on")
  /\ UNCHANGED <<writer, queues, bytes, budget, lost_until, ringVars, feed, subscribed,
                 error, send, sub, history>>

(* Pause after the join. *)
Pause ==
  /\ busy /\ send.pc = "done"
  /\ send' = Stopped /\ feed' = "paused"
  /\ watermark' = clock - 1
  /\ UNCHANGED <<writer, queues, shared, ring, floor, drained, reset, busy, subscribed,
                 error, sub, left, history>>

ClearProducerBuffers == /\ incoming' = [p \in Producers |-> <<>>]
                        /\ pending' = [p \in Producers |-> <<>>]
                        /\ recycled' = [p \in Producers |-> 0]

(* Sent by StopFeed, a drop, or the linger timer: the feed object is given *)
(* up, its readers find it closed.                                         *)
EndFeed ==
  /\ busy /\ feed = "paused"
  /\ feed' = "none"
  /\ ring' = <<>> /\ bytes' = 0 /\ ClearProducerBuffers
  /\ sub' = [c \in Clients |-> IF sub[c].on /\ sub[c].over < 0
                               THEN [sub[c] EXCEPT !.over = watermark] ELSE sub[c]]
  /\ UNCHANGED <<writer, budget, lost_until, wake, stopping, floor, watermark, drained,
                 reset, busy, subscribed, error, send, left, history>>

ResizeBudget(b) ==
  LET cut == Mx(0, Len(ring) - b) IN
  /\ busy /\ feed = "paused" /\ b # budget
  /\ budget' = b /\ ClearProducerBuffers
  /\ ring' = SubSeq(ring, cut + 1, Len(ring)) /\ bytes' = Len(ring')
  /\ floor' = IF cut = 0 THEN floor ELSE ring[cut]
  /\ UNCHANGED <<writer, lost_until, wake, stopping, watermark, drained, reset, control,
                 send, sub, left, history>>

(* A new feed starts where the store is; a paused one continues, with an   *)
(* entry of its own when the reopened table has other columns.             *)
ResumeFeed(schema) ==
  /\ busy
  /\ \/ /\ feed = "none" /\ ~schema
        /\ floor' = clock - 1 /\ watermark' = clock - 1 /\ drained' = clock - 1
        /\ reset' = 0 /\ lost_until' = 0 /\ wake' = FALSE /\ subscribed' = FALSE
        /\ UNCHANGED <<clock, committed, ring, bytes, recycled>>
     \/ /\ feed = "paused" /\ ~schema
        /\ UNCHANGED <<clock, committed, ring, bytes, recycled, floor, watermark, drained,
                       reset, lost_until, wake, subscribed>>
     \/ /\ feed = "paused" /\ schema /\ clock <= MaxRevision
        /\ AppendEntry(clock, {})
        /\ committed' = committed \cup {clock}
        /\ clock' = clock + 1 /\ watermark' = clock
        /\ UNCHANGED <<drained, reset, subscribed>>
  /\ feed' = "on" /\ stopping' = FALSE
  /\ send' = [Stopped EXCEPT !.pc = "clock"]
  /\ UNCHANGED <<bound, guard, incoming, pending, budget, busy, error, sub,
                 left, last>>

(* SubscribeFeed, still inside the section; without AFTER the reader       *)
(* starts at the watermark.                                                *)
Subscribe(c, after) ==
  LET at == IF after THEN sub[c].position ELSE clock - 1 IN
  /\ busy /\ feed = "on" /\ ~stopping /\ ~sub[c].on
  /\ after => left.resumes > 0
  /\ left' = [left EXCEPT !.resumes = @ - (IF after THEN 1 ELSE 0)]
  /\ sub' = [sub EXCEPT ![c] = [on |-> TRUE, position |-> at, reset |-> reset, over |-> -1,
                                invalid |-> \/ after /\ ~subscribed
                                            \/ at < floor \/ at > clock - 1]]
  /\ subscribed' = TRUE
  /\ last' = [last EXCEPT ![c] = IF after THEN @ ELSE "start"]
  /\ UNCHANGED <<writer, queues, shared, ringVars, feed, busy, error, send,
                 committed>>

(* ~FeedSubscription; the client keeps its position. *)
ReleaseFeed(c) ==
  /\ busy /\ feed # "on" /\ sub[c].on
  /\ sub' = [sub EXCEPT ![c].on = FALSE, ![c].over = -1]
  /\ UNCHANGED <<writer, queues, shared, ringVars, control, send, left, history>>

EndExclusive ==
  /\ busy /\ ~stopping /\ feed \in {"on", "none"}
  /\ busy' = FALSE
  /\ UNCHANGED <<writer, queues, shared, ringVars, feed, subscribed, error, send,
                 sub, left, history>>
-----------------------------------------------------------------------------
(* The readers. *)

Live(c) == sub[c].on /\ sub[c].over < 0 /\ ~error
MustResync(c) == sub[c].invalid \/ sub[c].reset # reset \/ sub[c].position < floor
Beyond(c) == {i \in 1 .. Len(ring) : ring[i] > sub[c].position}

NextEntry(c) ==
  /\ Live(c) /\ ~MustResync(c) /\ lost_until = 0 /\ Beyond(c) # {}
  /\ sub' = [sub EXCEPT ![c].position = ring[Min(Beyond(c))]]
  /\ last' = [last EXCEPT ![c] = "change"]
  /\ UNCHANGED <<writer, queues, shared, ringVars, control, send, left, committed>>

Progress(c) ==
  /\ Live(c) /\ ~MustResync(c) /\ lost_until = 0 /\ Beyond(c) = {}
  /\ drained > sub[c].position
  /\ sub' = [sub EXCEPT ![c].position = drained]
  /\ last' = [last EXCEPT ![c] = "skip"]
  /\ UNCHANGED <<writer, queues, shared, ringVars, control, send, left, committed>>

(* The kResync entry of Next: the watermark is computed inside mutex_, or  *)
(* is the stored one while the feed is paused.  One step: a scan that took *)
(* longer reads bounds later, when writes it would have waited for are done.*)
Resync(c) ==
  LET bounds == {bound[p] : p \in Producers} \ {0}
      now == IF feed = "on" THEN Min(bounds \cup {clock}) - 1 ELSE watermark IN
  /\ Live(c) /\ MustResync(c)
  /\ sub' = [sub EXCEPT ![c].position = Mx(watermark, now), ![c].reset = reset,
                        ![c].invalid = FALSE]
  /\ last' = [last EXCEPT ![c] = "start"]
  /\ UNCHANGED <<writer, queues, shared, ringVars, control, send, left, committed>>

(* The kEnd entry of a closed feed. *)
NextEnd(c) ==
  /\ sub[c].on /\ sub[c].over >= 0 /\ last[c] # "end"
  /\ sub' = [sub EXCEPT ![c].position = sub[c].over]
  /\ last' = [last EXCEPT ![c] = "end"]
  /\ UNCHANGED <<writer, queues, shared, ringVars, control, send, left, committed>>
-----------------------------------------------------------------------------
Write(p) == \/ StoreBound(p) \/ NextVersion(p) \/ Publish(p)
            \/ Abandon(p) \/ Finish(p) \/ WakeSender(p)
Send == \/ Awake \/ SampleClock \/ \E p \in Producers : LoadBound(p)
        \/ BeginMerge \/ Drain \/ PublishMerge
EndSection == Pause \/ EndExclusive \/ ResumeFeed(FALSE)
Read(c) == NextEntry(c) \/ Progress(c) \/ Resync(c) \/ NextEnd(c)

Next == \/ \E p \in Producers : TakeWrite(p) \/ Write(p)
        \/ Send
        \/ BeginExclusive \/ EndSection \/ ResumeFeed(TRUE) \/ EndFeed
        \/ \E b \in Budgets : ResizeBudget(b)
        \/ \E c \in Clients : \/ ReleaseFeed(c) \/ Read(c)
                              \/ \E after \in BOOLEAN : Subscribe(c, after)

(* Threads that were started run on: a write that began ends, the sender   *)
(* goes on, a section ends, a reader that is subscribed keeps reading.     *)
Fairness == /\ \A p \in Producers : WF_vars(Write(p))
            /\ WF_vars(Send) /\ WF_vars(EndSection)
            /\ \A c \in Clients : WF_vars(Read(c))

Spec == Init /\ [][Next]_vars /\ Fairness
-----------------------------------------------------------------------------
(* The state is of its type. *)
TypeOK ==
  /\ clock \in 1 .. MaxRevision + 1
  /\ bound \in [Producers -> 0 .. MaxRevision + 1]
  /\ \A p \in Producers : /\ Range(incoming[p]) \cup Range(pending[p]) \subseteq Revisions
                          /\ recycled[p] \in 0 .. MaxRevision + 1
  /\ Range(ring) \subseteq Revisions
  /\ floor \in 0 .. MaxRevision /\ drained \in 0 .. MaxRevision
  /\ watermark \in 0 .. MaxRevision
  /\ lost_until \in {0} \cup Revisions
  /\ feed \in {"none", "on", "paused"}
  /\ budget \in Budgets

(* The readers see what FeedLog promises: every change above a reader's    *)
(* position reaches it, in order and once, or it is told to start again;   *)
(* and no write still to commit lies at or below that position.  The       *)
(* watermark (clock before bounds), the ring's floor, the reset after a    *)
(* drop and the rules of Subscribe together have to ensure it.             *)
Log == INSTANCE FeedLog WITH position <- [c \in Clients |-> sub[c].position]
FollowsLog == Log!LogSpec

(* Merge's "feed queue revisions are out of order" is never thrown: the    *)
(* ring ascends, although successive watermarks need not.                  *)
NeverOutOfOrder == ~error

(* bytes_ is exactly what is held: the nodes with buffers, idle, captured  *)
(* and queued, and the ring; so the budget is neither leaked nor exceeded. *)
BytesAccounted ==
  LET held(p) == recycled[p] + Len(incoming[p]) + Len(pending[p])
                 + (IF guard[p].write THEN 1 ELSE 0) IN
  /\ bytes = Len(ring) + MapThenSumSet(held, Producers)
  /\ bytes <= budget

Due(c, v) == v \in committed /\ Live(c)
Passed(c, v) == Live(c) => sub[c].position >= v

=============================================================================
