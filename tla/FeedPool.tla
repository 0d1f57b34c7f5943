------------------------------- MODULE FeedPool -------------------------------
(***************************************************************************)
(* Memory of the slot watches of one table (SlotWatch::Admit, Publish,     *)
(* Take, Consumed, Ack and Finish; FeedIo's queues).  Output within a      *)
(* watch's share of the table's budget, and the receipts of changes that   *)
(* are not acknowledged, are charged to the table counter; a frame above   *)
(* the share waits until its watch has nothing unsent, then for its turn   *)
(* in the queue of the table's pool.                                       *)
(***************************************************************************)
EXTENDS Integers, Sequences, FiniteSets, FiniteSetsExt

CONSTANTS Watches, Budget,
          Kinds, Sizes,  \* of the frames: changes, schemas, progress
          ReceiptBytes,  \* kReceiptBytes: the watches have an ACK timeout
          MaxFrames      \* bound: frames published in all

VARIABLES tableBytes, poolBytes, waiters, watch,
          frames         \* those published so far, which the bound counts

vars == <<tableBytes, poolBytes, waiters, watch, frames>>

NoFrame == [kind |-> "none", size |-> 0]

(* end: "no", "unwatch" (its OK is due), "expired" (an ACK timeout) or       *)
(* "cancel" (the connection is closed); on: the worker has not finished it;  *)
(* gone: FeedIo dropped it.  output and wire: the frames not yet taken and   *)
(* not yet written; receipts: the changes sent, and not, of those admitted.  *)
Fresh == [on |-> TRUE, end |-> "no", gone |-> FALSE, stalled |-> FALSE,
          want |-> NoFrame, output |-> <<>>, wire |-> <<>>, bytes |-> 0, unsent |-> 0, excess |-> 0,
          receipts |-> 0, sent |-> 0]

Init ==
    /\ tableBytes = 0 /\ poolBytes = 0 /\ waiters = <<>> /\ frames = 0
    /\ watch = [w \in Watches |-> Fresh]

Set(w, v) == watch' = [watch EXCEPT ![w] = v]

Lesser(a, b) == IF a < b THEN a ELSE b
Release(shared, excess) ==
    /\ tableBytes' = tableBytes - shared
    /\ poolBytes' = poolBytes - excess
Waiting(w) == \E i \in DOMAIN waiters : waiters[i] = w
LeaveExcessQueue(w) == waiters' = SelectSeq(waiters, LAMBDA x : x # w)

(* SetQuota: the budget divided among the table's watches, less the room for *)
(* the reply that ends a watch.                                              *)
Control == [kind |-> "control", size |-> 1]
Quota == (Budget \div Cardinality({w \in Watches : ~watch[w].gone})) - Control.size

Held(v) == v.receipts * ReceiptBytes
Receipt(f) == IF f.kind = "change" THEN ReceiptBytes ELSE 0

-----------------------------------------------------------------------------
(* The next entry to publish.  One that exceeds the whole budget ends the    *)
(* watch (OUT_OF_RANGE), which here is an end like UNWATCH.                  *)
NextFrame(w) ==
    /\ watch[w].on /\ watch[w].end = "no" /\ watch[w].want = NoFrame /\ frames < MaxFrames
    /\ \E f \in [kind : Kinds, size : Sizes] :
          Set(w, [watch[w] EXCEPT !.want = IF Receipt(f) + f.size > Budget THEN NoFrame ELSE f,
                                  !.end = IF Receipt(f) + f.size > Budget THEN "unwatch" ELSE @])
    /\ frames' = frames + 1
    /\ UNCHANGED <<tableBytes, poolBytes, waiters>>

ReceiptsFull(v) == v.receipts # 0 /\ Held(v) + Receipt(v.want) > Quota
AboveShare(v) == v.want.size + Receipt(v.want) > Quota
ShareFull(v) == Held(v) + v.unsent + v.want.size + Receipt(v.want) > Quota
Charges(counter, bytes) == counter + bytes <= Budget

Publishing(w) == watch[w].on /\ watch[w].end = "no" /\ watch[w].want # NoFrame /\ watch[w].output = <<>>
UsesPool(w) == Publishing(w) /\ ~ReceiptsFull(watch[w]) /\ AboveShare(watch[w]) /\ watch[w].unsent = 0

Admitted(w, excess) ==
    LET v == watch[w] IN
    Set(w, [v EXCEPT !.want = NoFrame, !.output = <<v.want>>, !.bytes = v.want.size, !.unsent = @ + v.want.size,
                     !.excess = IF excess THEN v.want.size ELSE @,
                     !.receipts = IF v.want.kind = "change" THEN @ + 1 ELSE @])

AdmitWithinShare(w) ==
    LET v == watch[w]
        charge == v.want.size + Receipt(v.want)
    IN /\ Publishing(w) /\ ~ReceiptsFull(v) /\ ~AboveShare(v) /\ ~ShareFull(v)
       /\ Charges(tableBytes, charge)
       /\ Release(-charge, 0)
       /\ Admitted(w, FALSE) /\ LeaveExcessQueue(w)

(* Progress and resync frames never queue.                                   *)
AdmitProgress(w) ==
    LET v == watch[w] IN
    /\ UsesPool(w) /\ v.want.kind = "progress" /\ Charges(poolBytes, v.want.size)
    /\ Release(0, -v.want.size)
    /\ Admitted(w, TRUE)
    /\ UNCHANGED waiters

JoinPoolQueue(w) ==
    /\ UsesPool(w) /\ watch[w].want.kind # "progress" /\ ~Waiting(w)
    /\ waiters' = Append(waiters, w)
    /\ UNCHANGED <<tableBytes, poolBytes, watch>>

(* The head's turn; without room for its receipt it waits for that instead.  *)
AtHead(w) == waiters # <<>> /\ Head(waiters) = w
AdmitFromPool(w) ==
    LET v == watch[w] IN
    /\ UsesPool(w) /\ v.want.kind # "progress" /\ AtHead(w) /\ Charges(poolBytes, v.want.size)
    /\ IF Charges(tableBytes, Receipt(v.want))
       THEN Release(-Receipt(v.want), -v.want.size) /\ Admitted(w, TRUE)
       ELSE UNCHANGED <<poolBytes, tableBytes, watch>>
    /\ waiters' = Tail(waiters)

(* A watch that waits for anything but its turn gives up its place.          *)
WaitElsewhere(w) ==
    LET v == watch[w] IN
    /\ Publishing(w) /\ Waiting(w)
    /\ ReceiptsFull(v) \/ (~AboveShare(v) /\ (ShareFull(v) \/ ~Charges(tableBytes, v.want.size + Receipt(v.want))))
    /\ LeaveExcessQueue(w)
    /\ UNCHANGED <<tableBytes, poolBytes, watch>>

-----------------------------------------------------------------------------
(* FeedIo: Pull takes the output, Write sends some bytes of its queue, from  *)
(* the front, which is where output above the share is (Consumed).           *)

Pull(w) ==
    /\ ~watch[w].gone /\ watch[w].output # <<>>
    /\ Set(w, [watch[w] EXCEPT !.wire = @ \o watch[w].output, !.output = <<>>, !.bytes = 0])
    /\ UNCHANGED <<tableBytes, poolBytes, waiters>>

Consumed(v, bytes) == [v EXCEPT !.unsent = @ - bytes, !.excess = @ - Lesser(bytes, v.excess)]
ConsumedExcess(v, bytes) == Lesser(bytes, v.excess)

(* One byte, or the front frame: its last byte marks its receipt as sent.    *)
Write(w) ==
    LET v == watch[w]
        front == Head(v.wire)
    IN /\ ~v.gone /\ ~v.stalled /\ v.wire # <<>>
       /\ \E bytes \in {1, front.size} :
             /\ Set(w, [Consumed(v, bytes) EXCEPT
                          !.wire = IF bytes < front.size
                                   THEN <<[front EXCEPT !.size = @ - bytes]>> \o Tail(@) ELSE Tail(@),
                          !.sent = IF bytes = front.size /\ front.kind = "change" /\ v.on THEN @ + 1 ELSE @])
             /\ Release(bytes - ConsumedExcess(v, bytes), ConsumedExcess(v, bytes))
       /\ UNCHANGED waiters

Stall(w) ==
    /\ ~watch[w].gone /\ ~watch[w].stalled
    /\ Set(w, [watch[w] EXCEPT !.stalled = TRUE])
    /\ UNCHANGED <<tableBytes, poolBytes, waiters>>

(* CloseClient cancels the watch, ReleaseOutput gives up the queue; the last *)
(* reference to a finished watch releases what was not taken (~SlotWatch).   *)
Close(w) ==
    LET v == watch[w]
        bytes == IF v.on THEN v.unsent - v.bytes ELSE v.unsent
    IN /\ ~v.gone
       /\ Set(w, [Consumed(v, bytes) EXCEPT !.gone = TRUE, !.end = "cancel", !.wire = <<>>, !.stalled = FALSE,
                                            !.output = IF v.on THEN @ ELSE <<>>, !.bytes = IF v.on THEN @ ELSE 0])
       /\ Release(bytes - ConsumedExcess(v, bytes), ConsumedExcess(v, bytes))
       /\ UNCHANGED waiters

(* A reader that stopped cannot hold the pool; a finished watch that has     *)
(* been written is closed or returned to its worker.                         *)
WaitsForReader(w) == FALSE /\ Close(w)
ExpireStalledWrite(w) == watch[w].stalled /\ watch[w].wire # <<>> /\ watch[w].excess > 0 /\ Close(w)
Ended(w) == ~watch[w].on /\ watch[w].output = <<>> /\ watch[w].wire = <<>> /\ Close(w)

-----------------------------------------------------------------------------
Ack(w) ==
    LET v == watch[w] IN
    /\ v.on /\ v.end = "no" /\ v.sent > 0
    /\ Set(w, [v EXCEPT !.receipts = @ - 1, !.sent = @ - 1])
    /\ Release(ReceiptBytes, 0)
    /\ UNCHANGED waiters

Unwatch(w) ==
    /\ watch[w].on /\ watch[w].end = "no" /\ ~watch[w].gone
    /\ Set(w, [watch[w] EXCEPT !.end = "unwatch"])
    /\ UNCHANGED <<tableBytes, poolBytes, waiters>>

AckDeadlineExpired(w) ==
    /\ watch[w].on /\ watch[w].end = "no" /\ watch[w].sent > 0
    /\ Set(w, [watch[w] EXCEPT !.end = "expired"])
    /\ UNCHANGED <<tableBytes, poolBytes, waiters>>

(* Finish: except after an orderly UNWATCH the output not taken, which is    *)
(* the back of the unsent output, is dropped; the reply that ends the watch  *)
(* is charged without a limit.                                               *)
AllFromTable(v) == 0
UntakenExcess(v) ==
    LET taken == v.unsent - v.bytes IN IF v.excess > taken THEN v.excess - taken ELSE 0

Finish(w) ==
    LET v == watch[w]
        dropped == IF v.end = "unwatch" THEN 0 ELSE v.bytes
        excess == IF v.end = "unwatch" THEN 0 ELSE UntakenExcess(v)
        control == IF v.end = "cancel" THEN 0 ELSE Control.size
    IN /\ v.on /\ v.end # "no"
       /\ Set(w, [v EXCEPT !.on = FALSE, !.want = NoFrame, !.receipts = 0, !.sent = 0,
                           !.output = (IF v.end = "unwatch" THEN @ ELSE <<>>)
                                        \o IF v.end = "cancel" THEN <<>> ELSE <<Control>>,
                           !.bytes = (@ - dropped) + control,
                           !.unsent = (@ - dropped) + control, !.excess = @ - excess])
       /\ Release((dropped - excess) + Held(v) - control, excess)
       /\ LeaveExcessQueue(w)

(* One step of the catch-up worker for a watch, and of the poll loop.        *)
Publish(w) ==
    /\ \/ AdmitWithinShare(w) \/ AdmitProgress(w) \/ JoinPoolQueue(w) \/ AdmitFromPool(w)
       \/ WaitElsewhere(w) \/ Finish(w)
    /\ UNCHANGED frames

Send(w) == (Pull(w) \/ Write(w) \/ ExpireStalledWrite(w) \/ Ended(w)) /\ UNCHANGED frames
Expire(w) == AckDeadlineExpired(w) /\ UNCHANGED frames
Consumer(w) == (Stall(w) \/ Close(w) \/ Ack(w) \/ Unwatch(w)) /\ UNCHANGED frames

Next == \E w \in Watches : NextFrame(w) \/ Publish(w) \/ Send(w) \/ Expire(w) \/ Consumer(w)

(* The catch-up worker sweeps every watch, the poll loop serves every socket *)
(* that is ready, and the deadlines expire.                                  *)
Fairness == \A w \in Watches : WF_vars(Publish(w)) /\ WF_vars(Send(w)) /\ WF_vars(Expire(w))

FairSpec == Init /\ [][Next]_vars /\ Fairness

-----------------------------------------------------------------------------
(* The two counters are exactly what the watches hold, through partial       *)
(* writes, drops, ends and disconnects; each stays within the table's budget *)
(* but for the replies that end watches, which are charged without a limit.  *)
ChargesBalance ==
    /\ poolBytes = MapThenSumSet(LAMBDA w : watch[w].excess, Watches)
    /\ tableBytes = MapThenSumSet(LAMBDA w : watch[w].unsent - watch[w].excess + Held(watch[w]), Watches)
    /\ poolBytes <= Budget
    /\ tableBytes <= Budget + Control.size * Cardinality({w \in Watches : ~watch[w].on})
    /\ \A w \in Watches : /\ watch[w].excess \in 0 .. watch[w].unsent
                          /\ watch[w].gone /\ ~watch[w].on => watch[w].unsent = 0
                          /\ Waiting(w) => watch[w].want # NoFrame

FrameDue(w) == watch[w].want # NoFrame

=============================================================================
