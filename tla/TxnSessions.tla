---------------------------- MODULE TxnSessions ----------------------------
(***************************************************************************)
(* The transactions of connections (SessionTransaction) and the byte       *)
(* budget they share (TxnBudget).  A statement marks its transaction as in *)
(* use under the budget's mutex; while it is not in use, another           *)
(* connection's write that finds the budget full may end it once it is     *)
(* past its duration.  What a chunk holds is the set of the writes it      *)
(* shows, and a private copy has the number of its bytes beside it.  The   *)
(* inside of CommitTransaction is in TxnHistory and CommitIntents; here it *)
(* is one step.                                                            *)
(***************************************************************************)
EXTENDS Naturals, Sequences, FiniteSets, SequencesExt

CONSTANTS Sessions, Chunks, Sizes,
          Verbs,          \* bound: the kinds of statements
          MaxBytes,       \* --txn-max-bytes
          TotalBytes,     \* --txn-total-bytes
          MaxWritten,     \* kMaxTxnWrittenChunks
          MaxRead,        \* kMaxTxnReadChunks
          MaxStatements,  \* bound: the statements of a behaviour
          MaxStores       \* bound: the stores the table has had

VARIABLES
  txn,        \* session -> its SessionTransaction
  sess,       \* session -> where its statement is
  budget,     \* txn_budget_.bytes
  store,      \* the table's store, numbered, or 0 once it is dropped
  stores,     \* stores made so far
  content,    \* chunk -> what the store holds, the statements by their number
  statements, \* statements sent so far
  acked,      \* session -> its acknowledged writes since BEGIN, in their order
  told,       \* session -> the client was told that a transaction is open
  due         \* chunk -> what the commits that were answered make of it

table == <<store, stores, content>>
ghosts == <<acked, told, due>>
vars == <<txn, sess, budget, table, statements, ghosts>>

NoCopies == [c \in Chunks |-> 0]
NoData == [c \in Chunks |-> {}]
NoTxn == [open |-> FALSE, registered |-> FALSE, in_statement |-> FALSE, past |-> FALSE,
          snapshot |-> 0, base |-> NoData, reads |-> {}, writes |-> NoCopies,
          data |-> NoData, bytes |-> 0, aborted |-> FALSE]
Idle == [pc |-> "idle", op |-> [verb |-> "none"], id |-> 0, past |-> FALSE, grown |-> 0,
         saved |-> <<0, {}>>, tries |-> 0, back |-> "write", found |-> {}]

Init ==
  /\ txn = [s \in Sessions |-> NoTxn]
  /\ sess = [s \in Sessions |-> Idle]
  /\ budget = 0 /\ store = 1 /\ stores = 1 /\ content = NoData /\ statements = 0
  /\ acked = [s \in Sessions |-> <<>>]
  /\ told = [s \in Sessions |-> FALSE]
  /\ due = NoData

Ops == [verb : {"begin", "commit", "rollback", "other"} \cap Verbs]
         \cup [verb : {"read"} \cap Verbs, chunk : Chunks]
         \cup [verb : {"set", "set chunk"} \cap Verbs, chunk : Chunks, size : Sizes]

----------------------------------------------------------------------------
At(s, pc) == sess[s].pc = pc
Goes(s, pc) == sess' = [sess EXCEPT ![s].pc = pc]
(* A statement that marked the transaction clears the mark when it ends.   *)
Finishes(s) == sess' = [sess EXCEPT ![s] =
  IF txn[s].in_statement THEN [Idle EXCEPT !.pc = "done", !.past = sess[s].past] ELSE Idle]
Copies(t) == {c \in Chunks : t.writes[c] > 0}

(* TxnHoldsBudget: without a snapshot it holds nothing.                    *)
HoldsBudget(t) == t.snapshot # 0 /\ ~t.aborted

(* Detach: ends the transaction, keeping the reply.                        *)
Detached(t) == [t EXCEPT !.snapshot = 0, !.base = NoData, !.reads = {}, !.writes = NoCopies,
                         !.data = NoData, !.bytes = 0, !.aborted = TRUE]

(* The leases of a table: a statement holds one from the time it finds the *)
(* table until it ends, and a change of the table waits for them.          *)
Leased(s) == sess[s].pc \in
  {"room", "write", "charge", "refund", "reclaim", "refuse", "apply"}

----------------------------------------------------------------------------
(* Time: a transaction passes --txn-max-duration-ms.                       *)
Expire(s) ==
  /\ txn[s].registered /\ ~txn[s].past
  /\ txn' = [txn EXCEPT ![s].past = TRUE]
  /\ UNCHANGED <<sess, budget, table, statements, ghosts>>

(* ALTER, DROP and CREATE TABLE: another store with the chunks, none, or   *)
(* an empty one.                                                           *)
ChangeTable ==
  /\ \A s \in Sessions : ~Leased(s)
  /\ \/ store # 0 /\ store' = 0 /\ content' = NoData /\ due' = NoData /\ UNCHANGED stores
     \/ /\ stores < MaxStores /\ store' = stores + 1 /\ stores' = stores + 1
        /\ UNCHANGED <<content, due>>
  /\ UNCHANGED <<txn, sess, budget, statements, acked, told>>

(* Execute, up to the time TxnStatementStart reads.                        *)
Statement(s, op) ==
  /\ At(s, "idle") /\ statements < MaxStatements
  /\ statements' = statements + 1
  /\ sess' = [sess EXCEPT ![s] = [Idle EXCEPT !.pc = IF txn[s].open THEN "start" ELSE "exec",
                                              !.op = op, !.past = txn[s].past,
                                              !.id = IF op.verb \in {"set", "set chunk"}
                                                     THEN statements + 1 ELSE 0]]
  /\ UNCHANGED <<txn, budget, table, ghosts>>

(* TxnStatementStart: ends its own expired transaction and marks it, under *)
(* the mutex.                                                              *)
Marked(s) ==
  [(IF sess[s].past /\ HoldsBudget(txn[s]) THEN Detached(txn[s]) ELSE txn[s])
     EXCEPT !.in_statement = TRUE]

Start(s) ==
  /\ At(s, "start")
  /\ txn' = [txn EXCEPT ![s] = Marked(s)]
  /\ budget' = budget - (txn[s].bytes - Marked(s).bytes)
  /\ Goes(s, "exec")
  /\ UNCHANGED <<table, statements, ghosts>>

(* TxnStatementDone.                                                       *)
Done(s) ==
  /\ At(s, "done")
  /\ txn' = [txn EXCEPT ![s].in_statement = FALSE]
  /\ sess' = [sess EXCEPT ![s] = Idle]
  /\ UNCHANGED <<budget, table, statements, ghosts>>

(* The session's transaction is destroyed: unregistered, its bytes         *)
(* released.  Nobody looks for it any more.                                *)
Destroyed(s) ==
  /\ txn' = [txn EXCEPT ![s] = NoTxn]
  /\ budget' = budget - txn[s].bytes
  /\ sess' = [t \in Sessions |-> IF t = s THEN Idle ELSE [sess[t] EXCEPT !.found = @ \ {s}]]
  /\ acked' = [acked EXCEPT ![s] = <<>>]
  /\ told' = [told EXCEPT ![s] = FALSE]

(* A statement that fails or has no effect here.                           *)
Fails(s) ==
  /\ Finishes(s)
  /\ UNCHANGED <<txn, budget, ghosts>>

(* A TransactionConflictError: the transaction stays, aborted.             *)
Conflicts(s) ==
  /\ txn' = [txn EXCEPT ![s] = Detached(txn[s])]
  /\ budget' = budget - txn[s].bytes
  /\ Finishes(s)
  /\ UNCHANGED ghosts

(* TxnBegin, ROLLBACK, and every statement of an aborted transaction.      *)
Begin(s) ==
  /\ At(s, "exec") /\ sess[s].op.verb = "begin" /\ ~txn[s].open
  /\ txn' = [txn EXCEPT ![s] = [NoTxn EXCEPT !.open = TRUE, !.registered = TRUE]]
  /\ Finishes(s)
  /\ told' = [told EXCEPT ![s] = TRUE]
  /\ UNCHANGED <<budget, table, statements, acked, due>>

Refuses(s) ==
  /\ At(s, "exec")
  /\ \/ txn[s].open /\ txn[s].aborted /\ sess[s].op.verb \notin {"commit", "rollback"}
     \/ txn[s].open /\ sess[s].op.verb \in {"begin", "other"}
     \/ ~txn[s].open /\ sess[s].op.verb # "begin"
  /\ Fails(s)
  /\ UNCHANGED <<table, statements>>

Rollback(s) ==
  /\ At(s, "exec") /\ txn[s].open
  /\ sess[s].op.verb = "rollback" \/ (sess[s].op.verb = "commit" /\ txn[s].aborted)
  /\ Destroyed(s)
  /\ UNCHANGED <<table, statements, due>>

----------------------------------------------------------------------------
(* TxnLease: the table, with the snapshot's store.                         *)
Owns(s) == store # 0 /\ txn[s].snapshot \in {0, store}

InTable(s) ==
  /\ At(s, "exec") /\ txn[s].open /\ ~txn[s].aborted
  /\ sess[s].op.verb \in {"read", "set", "set chunk"}

(* The lease is refused: no right, the duration, a table that changed, or  *)
(* one that never was there.                                               *)
LeaseFails(s) ==
  /\ InTable(s)
  /\ \/ Fails(s)
     \/ (txn[s].past \/ (txn[s].snapshot # 0 /\ ~Owns(s))) /\ Conflicts(s)
  /\ UNCHANGED <<table, statements>>

(* TxnRead: the read set, up to its limit.                                 *)
TxnRead(t, c) == LET reads == t.reads \cup {c}
                 IN IF Cardinality(reads) > MaxRead THEN t ELSE [t EXCEPT !.reads = reads]

(* BeginTxnSnapshot, of the first statement: what later ones read.         *)
Snapshot(t) == IF t.snapshot # 0 THEN t ELSE [t EXCEPT !.snapshot = store, !.base = content]

(* A read adds to the read set; one older than the kept history conflicts. *)
Read(s) ==
  /\ InTable(s) /\ sess[s].op.verb = "read" /\ ~txn[s].past /\ Owns(s)
  /\ LET t == Snapshot(txn[s])
     IN \/ /\ txn' = [txn EXCEPT ![s] = TxnRead(t, sess[s].op.chunk)]
           /\ Finishes(s) /\ UNCHANGED <<budget, ghosts>>
        \/ t.snapshot = txn[s].snapshot /\ Conflicts(s)
  /\ UNCHANGED <<table, statements>>

After(s) == txn[s].bytes - txn[s].writes[sess[s].op.chunk] + sess[s].op.size
Room(s) ==
  /\ sess[s].op.chunk \in Copies(txn[s]) \/ Cardinality(Copies(txn[s])) < MaxWritten
  /\ After(s) <= MaxBytes
Grown(s) == LET before == txn[s].writes[sess[s].op.chunk]
            IN IF sess[s].op.size > before THEN sess[s].op.size - before ELSE 0

(* A write in a transaction: the lease, and the snapshot of a first        *)
(* statement.  SET CHUNK checks the limits before it decodes its form.     *)
Lease(s) ==
  /\ InTable(s) /\ ~txn[s].past /\ Owns(s)
  /\ txn' = [txn EXCEPT ![s] = Snapshot(txn[s])]
  /\ UNCHANGED <<budget, table, statements, ghosts>>
SetBlock(s) == Lease(s) /\ sess[s].op.verb = "set" /\ Goes(s, "write")
SetChunk(s) == Lease(s) /\ sess[s].op.verb = "set chunk" /\ Goes(s, "room")

(* The transactions that were past their duration when a write found the   *)
(* budget full, but for those in a statement that began before.            *)
Found == {t \in Sessions : /\ txn[t].past /\ HoldsBudget(txn[t])
                           /\ sess[t].pc # "idle" => sess[t].past}

Fits(s) == Grown(s) > 0 => budget + Grown(s) <= TotalBytes

(* RequireTxnRoom: a whole chunk that cannot fit is refused before it is   *)
(* decoded; nothing is charged yet.                                        *)
RequireTxnRoom(s) ==
  /\ At(s, "room")
  /\ \/ Room(s) /\ Fits(s)
        /\ sess' = [sess EXCEPT ![s].pc = "write", ![s].tries = 0]
        /\ UNCHANGED <<txn, budget, ghosts>>
     \/ Room(s) /\ ~Fits(s)
        /\ sess' = [sess EXCEPT ![s].pc = IF sess[s].tries = 0 THEN "reclaim" ELSE "refuse",
                                ![s].back = "room",
                                ![s].found = IF sess[s].tries = 0 THEN Found ELSE @]
        /\ UNCHANGED <<txn, budget, ghosts>>
     \/ Fails(s)
  /\ UNCHANGED <<table, statements>>

(* What a write makes of a chunk: SET CHUNK replaces it, SET BLOCK adds.   *)
Written(data, op, id) == (IF op.verb = "set chunk" THEN {} ELSE data) \cup {id}
Acknowledge(s) ==
  /\ acked' = [acked EXCEPT ![s] = Append(@, [op |-> sess[s].op, id |-> sess[s].id])]
  /\ UNCHANGED <<told, due>>

(* TxnWrite: the copy is made from the snapshot or changed, and put back   *)
(* when the change or a limit fails.  The read of the chunk at the         *)
(* snapshot can conflict.                                                  *)
TxnWrite(s) ==
  /\ At(s, "write")
  /\ \/ LET c == sess[s].op.chunk
            before == IF c \in Copies(txn[s]) THEN txn[s].data[c] ELSE txn[s].base[c]
            t == [txn[s] EXCEPT !.writes[c] = sess[s].op.size,
                                !.data[c] = Written(before, sess[s].op, sess[s].id)]
        IN /\ Room(s)
           /\ IF Grown(s) > 0
              THEN /\ txn' = [txn EXCEPT ![s] = t]
                   /\ sess' = [sess EXCEPT ![s].pc = "charge", ![s].grown = Grown(s),
                                           ![s].saved = <<txn[s].writes[c], txn[s].data[c]>>]
                   /\ UNCHANGED <<budget, ghosts>>
              ELSE /\ txn' = [txn EXCEPT ![s] = [t EXCEPT !.bytes = After(s)]]
                   /\ budget' = budget - (txn[s].bytes - After(s))
                   /\ Acknowledge(s)
                   /\ Finishes(s)
     \/ Fails(s)
     \/ sess[s].op.chunk \notin Copies(txn[s]) /\ Conflicts(s)
  /\ UNCHANGED <<table, statements>>

(* The charge: added, and taken back in a later step when it does not fit. *)
Charged(s) == budget + sess[s].grown <= TotalBytes

Charge(s) ==
  /\ At(s, "charge")
  /\ budget' = budget + sess[s].grown
  /\ IF Charged(s)
     THEN /\ txn' = [txn EXCEPT ![s].bytes = @ + sess[s].grown]
          /\ Acknowledge(s)
          /\ Finishes(s)
     ELSE /\ sess' = [sess EXCEPT ![s].pc = IF sess[s].tries = 0 THEN "refund" ELSE "refuse",
                                  ![s].back = "charge",
                                  ![s].found = IF sess[s].tries = 0 THEN Found ELSE @]
          /\ UNCHANGED <<txn, ghosts>>
  /\ UNCHANGED <<table, statements>>

Refund(s) ==
  /\ At(s, "refund")
  /\ budget' = budget - sess[s].grown
  /\ Goes(s, "reclaim")
  /\ UNCHANGED <<txn, table, statements, ghosts>>

(* EndExpiredTransactions: those not in a statement.  The time is read     *)
(* before the mutex is taken, so one that passes its duration meanwhile    *)
(* may be left.                                                            *)
Endable(t) == ~txn[t].in_statement /\ HoldsBudget(txn[t])

EndExpiredTransactions(s, past) ==
  /\ At(s, "reclaim")
  /\ sess[s].found \subseteq past
  /\ LET ended == {t \in past : Endable(t)}
     IN /\ txn' = [t \in Sessions |-> IF t \in ended THEN Detached(txn[t]) ELSE txn[t]]
        /\ budget' = budget - MapThenSumSet(LAMBDA t : txn[t].bytes, ended)
  /\ sess' = [sess EXCEPT ![s].pc = sess[s].back, ![s].tries = 1]
  /\ UNCHANGED <<table, statements, ghosts>>

(* Mutant: the changed copy stays.                                         *)
KeepsCopy(s) == txn[s]

(* The refused write undoes its change; a charge is taken back.            *)
Undone(s) == IF sess[s].back = "charge"
             THEN [txn[s] EXCEPT !.writes[sess[s].op.chunk] = sess[s].saved[1],
                                 !.data[sess[s].op.chunk] = sess[s].saved[2]]
             ELSE txn[s]

Refuse(s) ==
  /\ At(s, "refuse")
  /\ budget' = budget - sess[s].grown
  /\ txn' = [txn EXCEPT ![s] = Undone(s)]
  /\ Finishes(s)
  /\ UNCHANGED <<table, statements, ghosts>>

----------------------------------------------------------------------------
(* TxnCommit: the transaction leaves the session whatever COMMIT answers.  *)
(* Without a snapshot there is nothing to commit; a right, the duration or *)
(* a changed table ends it; otherwise its copies go to the store.          *)
Committable(s) == ~txn[s].past /\ Owns(s) /\ txn[s].snapshot # 0

Commit(s) ==
  /\ At(s, "exec") /\ sess[s].op.verb = "commit" /\ txn[s].open /\ ~txn[s].aborted
  /\ \/ Committable(s) /\ txn' = [txn EXCEPT ![s].open = FALSE] /\ Goes(s, "apply")
        /\ UNCHANGED <<budget, ghosts>>
     \/ Destroyed(s) /\ UNCHANGED due
  /\ UNCHANGED <<table, statements>>

\* The acknowledged writes of a session to a chunk, done to what it holds.
Redone(data, c, writes) ==
  FoldLeft(LAMBDA d, w : IF w.op.chunk = c THEN Written(d, w.op, w.id) ELSE d, data, writes)

(* CommitTransaction: a chunk read or written that changed since the       *)
(* snapshot is a conflict; otherwise the copies are installed, or the      *)
(* commit fails and nothing is.  The transaction is destroyed after.       *)
Changed(s) == {c \in Chunks : content[c] # txn[s].base[c]}
NoConflict(s) == \/ Copies(txn[s]) = {}
                 \/ (txn[s].reads \cup Copies(txn[s])) \cap Changed(s) = {}

Apply(s) ==
  /\ At(s, "apply")
  /\ \/ /\ NoConflict(s)
        /\ content' = [c \in Chunks |-> IF c \in Copies(txn[s]) THEN txn[s].data[c] ELSE content[c]]
        /\ due' = [c \in Chunks |-> Redone(due[c], c, acked[s])]
     \/ UNCHANGED <<content, due>>
  /\ Destroyed(s)
  /\ UNCHANGED <<store, stores, statements>>

(* The connection ends between statements.                                 *)
Disconnect(s) ==
  /\ At(s, "idle") /\ txn[s].open
  /\ Destroyed(s)
  /\ UNCHANGED <<table, statements, due>>

Next ==
  \/ ChangeTable
  \/ \E s \in Sessions :
       \/ Expire(s) \/ (\E op \in Ops : Statement(s, op)) \/ Start(s) \/ Done(s)
       \/ Begin(s) \/ Refuses(s) \/ Rollback(s) \/ LeaseFails(s) \/ Read(s) \/ SetBlock(s)
       \/ SetChunk(s) \/ RequireTxnRoom(s) \/ TxnWrite(s) \/ Charge(s) \/ Refund(s)
       \/ (\E past \in SUBSET {t \in Sessions : txn[t].past} : EndExpiredTransactions(s, past))
       \/ Refuse(s) \/ Commit(s) \/ Apply(s) \/ Disconnect(s)

Spec == Init /\ [][Next]_vars

----------------------------------------------------------------------------
InFlight(s) == IF sess[s].pc \in {"refund", "refuse"} THEN sess[s].grown ELSE 0
Held == MapThenSumSet(LAMBDA s : txn[s].bytes, Sessions)

(* txn_budget_.bytes is always the bytes of the open transactions' copies  *)
(* plus the charges being tried, whoever ends a transaction: its own next  *)
(* statement, another connection's write, COMMIT, ROLLBACK or the end of   *)
(* its connection.  A byte released twice would wrap the counter, one      *)
(* never released would shrink the budget for good.                        *)
BytesExact ==
  /\ budget = Held + MapThenSumSet(InFlight, Sessions)
  /\ \A s \in Sessions :
       txn[s].bytes = MapThenSumSet(LAMBDA c : txn[s].writes[c], Chunks)
                        - (IF Leased(s) THEN sess[s].grown ELSE 0)

(* The private copies of all transactions stay within --txn-total-bytes,   *)
(* however many connections charge at once.                                *)
TotalBounded == Held <= TotalBytes

(* A statement that uses a transaction keeps its snapshot until it ends:   *)
(* EndExpiredTransactions of another connection never takes it away, and   *)
(* the table keeps the store the snapshot is of.                           *)
UsedIsKept ==
  \A s \in Sessions : Leased(s) =>
    /\ txn[s].registered /\ txn[s].in_statement
    /\ txn[s].snapshot = store /\ ~txn[s].aborted

(* The table holds what the commits that were answered make of it, each    *)
(* with exactly the acknowledged writes of its transaction, done to what   *)
(* the commits before it left: a statement that was refused for room, or   *)
(* failed, and a transaction that was ended, rolled back or in conflict,   *)
(* leaves no trace, and no commit undoes another.                          *)
CommitsAcknowledged == content = due

(* A write is refused for --txn-total-bytes only after every transaction   *)
(* that was past its duration when the write found the budget full gave    *)
(* back its bytes, even one whose connection began a statement meanwhile.  *)
RefusedOnlyWhenFull ==
  \A s \in Sessions : At(s, "refuse") => \A t \in sess[s].found : txn[t].bytes = 0

(* A client that was told its transaction is open stays in it until it     *)
(* sends COMMIT or ROLLBACK, whoever ended the transaction: a pipelined    *)
(* statement never runs outside it.                                        *)
NeverOutside == \A s \in Sessions : told[s] => txn[s].open \/ At(s, "apply")

(* What a session was answered holds of its transaction and of the budget.  *)
AsTold ==
  /\ UsedIsKept /\ CommitsAcknowledged /\ NeverOutside
  /\ BytesExact /\ TotalBounded /\ RefusedOnlyWhenFull
=============================================================================
