--------------------------- MODULE MCFeedProgress ---------------------------
(***************************************************************************)
(* What a consumer of the feed is owed: a change it watches is passed, a   *)
(* slot's change is delivered, and a frame that waits for room in the pool *)
(* gets it. A behaviour runs one component under the fairness of its       *)
(* threads, and leaves the variables of the others alone.                  *)
(***************************************************************************)
EXTENDS TLC

CONSTANTS p1, p2, r1, none   \* model values

VARIABLE part   \* the component that runs, for the whole of a behaviour
VARIABLES clock, bound, guard, incoming, pending, recycled, bytes, budget,
          lost_until, wake, stopping, ring, floor, watermark, drained,
          reset, feed, busy, subscribed, error, send, sub, left, committed,
          last, completed, changes, durable, written, staged, slotLost,
          overruns, owner, taker, replaced, watch, got, place, tableBytes,
          poolBytes, waiters, frames

F_Producers == {p1, p2}
F_Clients == {r1}
F_Budgets == {2}
F_Loads == {[larges |-> 1, resumes |-> 1, sections |-> 1, again |-> TRUE]}
F == INSTANCE ChangeFeed WITH
       Producers <- F_Producers, Clients <- F_Clients, MaxRevision <- 1,
       Budgets <- F_Budgets, Loads <- F_Loads

W_Watches == {p1, p2}
W_Events == {"expired"}
W == INSTANCE SlotWatch WITH
       Watches <- W_Watches, NoWatch <- none, Events <- W_Events,
       MaxRevision <- 1, MaxOverruns <- 1

P_Watches == {p1, p2}
P_Kinds == {"change", "progress"}
P_Sizes == {1, 4}
P == INSTANCE FeedPool WITH
       Watches <- P_Watches, Budget <- 6, Kinds <- P_Kinds,
       Sizes <- P_Sizes, ReceiptBytes <- 1, MaxFrames <- 2

vars == <<part, clock, bound, guard, incoming, pending, recycled, bytes,
          budget, lost_until, wake, stopping, ring, floor, watermark,
          drained, reset, feed, busy, subscribed, error, send, sub, left,
          committed, last, completed, changes, durable, written, staged,
          slotLost, overruns, owner, taker, replaced, watch, got, place,
          tableBytes, poolBytes, waiters, frames>>

Init ==
    \/ /\ part = "feed" /\ F!Init
       /\ completed = 0 /\ changes = 0 /\ durable = 0 /\ written = 0 /\
          staged = 0 /\ slotLost = 0 /\ overruns = 0 /\ owner = 0 /\
          taker = 0 /\ replaced = 0 /\ watch = 0 /\ got = 0 /\ place = 0 /\
          tableBytes = 0 /\ poolBytes = 0 /\ waiters = 0 /\ frames = 0
    \/ /\ part = "watches" /\ W!Init
       /\ clock = 0 /\ bound = 0 /\ guard = 0 /\ incoming = 0 /\
          pending = 0 /\ recycled = 0 /\ bytes = 0 /\ budget = 0 /\
          lost_until = 0 /\ wake = 0 /\ stopping = 0 /\ ring = 0 /\
          floor = 0 /\ watermark = 0 /\ drained = 0 /\ reset = 0 /\
          feed = 0 /\ busy = 0 /\ subscribed = 0 /\ error = 0 /\ send = 0 /\
          sub = 0 /\ left = 0 /\ committed = 0 /\ last = 0 /\
          tableBytes = 0 /\ poolBytes = 0 /\ waiters = 0 /\ frames = 0
    \/ /\ part = "pool" /\ P!Init
       /\ clock = 0 /\ bound = 0 /\ guard = 0 /\ incoming = 0 /\
          pending = 0 /\ recycled = 0 /\ bytes = 0 /\ budget = 0 /\
          lost_until = 0 /\ wake = 0 /\ stopping = 0 /\ ring = 0 /\
          floor = 0 /\ watermark = 0 /\ drained = 0 /\ reset = 0 /\
          feed = 0 /\ busy = 0 /\ subscribed = 0 /\ error = 0 /\ send = 0 /\
          sub = 0 /\ left = 0 /\ committed = 0 /\ last = 0 /\
          completed = 0 /\ changes = 0 /\ durable = 0 /\ written = 0 /\
          staged = 0 /\ slotLost = 0 /\ overruns = 0 /\ owner = 0 /\
          taker = 0 /\ replaced = 0 /\ got = 0 /\ place = 0

Next ==
    \/ /\ part = "feed" /\ F!Next
       /\ UNCHANGED <<part, completed, changes, durable, written, staged,
                      slotLost, overruns, owner, taker, replaced, watch,
                      got, place, tableBytes, poolBytes, waiters, frames>>
    \/ /\ part = "watches" /\ W!Next
       /\ UNCHANGED <<part, clock, bound, guard, incoming, pending,
                      recycled, bytes, budget, lost_until, wake, stopping,
                      ring, floor, watermark, drained, reset, feed, busy,
                      subscribed, error, send, sub, left, committed, last,
                      tableBytes, poolBytes, waiters, frames>>
    \/ /\ part = "pool" /\ P!Next
       /\ UNCHANGED <<part, clock, bound, guard, incoming, pending,
                      recycled, bytes, budget, lost_until, wake, stopping,
                      ring, floor, watermark, drained, reset, feed, busy,
                      subscribed, error, send, sub, left, committed, last,
                      completed, changes, durable, written, staged,
                      slotLost, overruns, owner, taker, replaced, got, place>>

F_vars == F!vars
W_vars == W!vars
P_vars == P!vars

Spec ==
    /\ Init /\ [][Next]_vars
    /\ \A w1 \in F_Producers : WF_F_vars(part = "feed" /\ F!Write(w1))
    /\ WF_F_vars(part = "feed" /\ F!Send)
    /\ WF_F_vars(part = "feed" /\ F!EndSection)
    /\ \A c3 \in F_Clients : WF_F_vars(part = "feed" /\ F!Read(c3))
    /\ WF_W_vars(part = "watches" /\ W!Sync)
    /\ WF_W_vars(part = "watches" /\ (W!RequestTakeover \/ W!FinishTakeover))
    /\ \A w1 \in W_Watches : WF_W_vars(part = "watches" /\ W!Work(w1))
    /\ \A w1 \in W_Watches : WF_W_vars(part = "watches" /\ W!Io(w1))
    /\ \A w1 \in W_Watches : WF_W_vars(part = "watches" /\ W!Receive(w1))
    /\ \A w1 \in P_Watches : WF_P_vars(part = "pool" /\ P!Publish(w1))
    /\ \A w1 \in P_Watches : WF_P_vars(part = "pool" /\ P!Send(w1))
    /\ \A w1 \in P_Watches : WF_P_vars(part = "pool" /\ P!Expire(w1))

-----------------------------------------------------------------------------
(* Memory of the feed is counted exactly. The bytes of the pool are what   *)
(* the frames of the watches were charged, whichever way a watch ended     *)
(* (FeedMemoryPool); the bytes of a table's feed are its buffers and its   *)
(* ring, within the budget, and the ring ascends (ChangeFeed::Merge).      *)
ChargesBalance ==
    /\ part = "pool" => P!ChargesBalance
    /\ part = "feed" => F!BytesAccounted /\ F!NeverOutOfOrder

(* What a consumer is owed comes: a reader that stays passes every         *)
(* committed change, none is left in a producer buffer or behind a reset   *)
(* (ChangeFeed::Send, Read); a durable change reaches the consumer of its  *)
(* slot while a watch is attached, and a session that takes a slot over    *)
(* gets it (FeedSlots::RequestTakeover); a frame that waits for room is    *)
(* published, or its own client has stopped reading (FeedMemoryPool).      *)
Owed(i) ==
    \/ part = "feed" /\ i = p1 /\ F!Due(r1, 1)
    \/ part = "watches" /\ i = p1 /\ W!Due(1)
    \/ part = "watches" /\ i = p2 /\ taker # none
    \/ part = "pool" /\ P!FrameDue(i)
Given(i) ==
    \/ part = "feed" /\ F!Passed(r1, 1)
    \/ part = "watches" /\ i = p1 /\ W!Delivered(1)
    \/ part = "watches" /\ i = p2 /\ taker = none
    \/ part = "pool" /\ (P!FrameDue(i) => watch[i].stalled)
ConsumersServed == \A i \in {p1, p2} : Owed(i) ~> Given(i)
=============================================================================
