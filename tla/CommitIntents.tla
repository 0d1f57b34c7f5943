--------------------------- MODULE CommitIntents ---------------------------
(***************************************************************************)
(* How a conditional chunk write (chunk_ops.cpp, conditional_intent.cpp)    *)
(* and a transaction's COMMIT (txn_commit.cpp, txn_intent.cpp) become       *)
(* atomic: a rollback intent that names the WAL boundaries, the frames, the *)
(* commit form renamed over the intent, the clean-up, and the recovery that *)
(* a store runs over the intents it finds when it opens.                    *)
(*                                                                          *)
(* A conditional write is named by its chunk, a transaction by itself; each *)
(* owns the intent file of its name.  A chunk's contents are the sequence   *)
(* of revisions applied to it.  Checkpoints are strict, as they are in the  *)
(* synced modes and behind the durability floor; ChunkDurability has the    *)
(* steps of a checkpoint, a flush and a boundary.                           *)
(***************************************************************************)
EXTENDS Integers, Sequences, FiniteSets, SequencesExt, TLC

CONSTANT Settings   \* the stores, by configuration and bounds, one per behaviour

ASSUME SettingsAssumption ==
  \A s \in Settings :
    /\ s.chunks \cap s.txns = {} /\ s.relaxed \in BOOLEAN
    /\ s.ops \subseteq {"write", "conditional", "checkpoint"}
    /\ {s.revs, s.faults, s.crashes} \subseteq Nat

VARIABLES
  setting,       \* the configuration of the store
  mem,           \* the loaded chunks: the revisions each one shows
  img,           \* the revisions in each chunk's image
  wal,           \* the revisions of the frames in each chunk's WAL
  walOut,        \* the WALs a power loss may leave
  intent,        \* the intent files, as the running system sees them
  intentOut,     \* the intents a power loss may leave under each name
  op,            \* the conditional write or transaction behind each intent
  waiting,       \* chunks with a mutation that passed its poison check
  repairFailed,  \* wal_repair_failed of each chunk
  poisoned,      \* durability_poisoned_
  genFailed,     \* the snapshot generation has failed: no guard can begin
  phase,         \* recovering, open, or refused by the recovery
  redo,          \* the WALs the recovery still has to cut
  clock,         \* the last revision issued
  acked,         \* history: <<chunk, revision>> answered as durable
  rejected,      \* history: revisions answered as not applied
  exposed,       \* history: chunks a rollback may reach although it was given up
  faults, crashes

Chunks == setting.chunks        \* the chunks of the table
Txns == setting.txns            \* bound: the transactions that may run, each once
Relaxed == setting.relaxed      \* durability_mode_ == kRelaxed (else a synced mode)
Ops == setting.ops              \* bound: the operations issued beside the transactions
MaxRev == setting.revs          \* bound: revisions issued
MaxFaults == setting.faults     \* bound: system calls that fail
MaxCrashes == setting.crashes   \* bound: process crashes and power losses

store == <<mem, img, wal, walOut>>
fences == <<repairFailed, poisoned, genFailed>>
history == <<acked, rejected, exposed>>
vars == <<setting, store, intent, intentOut, op, waiting, fences, phase, redo, clock,
          history, faults, crashes>>

Ids == Chunks \cup Txns

\* TxnIntent and the conditional record: the form and the WAL boundaries.
NoIntent == [form |-> "none", at |-> <<>>]
Rollback(at) == [form |-> "rollback", at |-> at]
Committed(at) == [form |-> "commit", at |-> at]

\* at: the boundaries, by chunk; todo: chunks whose frame is to be appended;
\* started: chunks whose append has started; durable: commit_record_durable;
\* unknown: the error under way is an unknown outcome.
IdleOp == [step |-> "idle", rev |-> 0, at |-> <<>>, todo |-> {}, started |-> {},
           durable |-> FALSE, unknown |-> FALSE]

\* A transaction drops its locks once memory has the new states.
Unlocked == {"idle", "done", "outcome", "release", "releasesync"}
Locked(c) == \E o \in Ids : c \in DOMAIN op[o].at /\ op[o].step \notin Unlocked

Init ==
  /\ setting \in Settings
  /\ mem = [c \in Chunks |-> <<>>]
  /\ img = mem
  /\ wal = mem
  /\ walOut = [c \in Chunks |-> {<<>>}]
  /\ intent = [o \in Ids |-> NoIntent]
  /\ intentOut = [o \in Ids |-> {NoIntent}]
  /\ op = [o \in Ids |-> IdleOp]
  /\ waiting = {}
  /\ repairFailed = [c \in Chunks |-> FALSE]
  /\ poisoned = FALSE
  /\ genFailed = FALSE
  /\ phase = "open"
  /\ redo = {}
  /\ clock = 0
  /\ acked = {}
  /\ rejected = {}
  /\ exposed = {}
  /\ faults = 0
  /\ crashes = 0

Fault == faults < MaxFaults /\ faults' = faults + 1
NoFault == UNCHANGED faults
Step(o, s) == op' = [op EXCEPT ![o].step = s]

\* The WAL once the batch of chunk c is flushed: all that memory shows.
Flushed(c) == SubSeq(mem[c], Len(img[c]) + 1, Len(mem[c]))
\* What a power loss may leave of a WAL that grew without a sync.
Grown(c, w) == walOut[c] \cup {SubSeq(w, 1, k) : k \in Len(wal[c])..Len(w)}

(* The intents directory: a rename or an unlink is visible at once and durable
   with the next sync of the directory, whoever asks for it. *)
PutIntent(o, r) ==
  /\ intent' = [intent EXCEPT ![o] = r]
  /\ intentOut' = [intentOut EXCEPT ![o] = @ \cup {r}]
SyncIntents ==
  /\ intentOut' = [o \in Ids |-> {intent[o]}]
  /\ UNCHANGED intent

-----------------------------------------------------------------------------
(* Ordinary writes and checkpoints of the same chunks *)

\* A mutation checks the poison flag before it waits for the chunk's mutex.
PassPoisonCheck(c) ==
  /\ phase = "open"
  /\ ~poisoned
  /\ c \notin waiting
  /\ waiting' = waiting \cup {c}
  /\ UNCHANGED <<store, intent, intentOut, op, fences, phase, redo, clock,
                 history, faults, crashes, setting>>

\* FinishOrdinaryMutationLocked: the frame is flushed and synced, or in relaxed
\* mode flushed, or left in the batch.
PlainWrite(c) ==
  LET rev == clock + 1
      w == Append(Flushed(c), rev)
  IN  /\ "write" \in Ops
      /\ c \in waiting
      /\ ~Locked(c)
      /\ ~repairFailed[c]
      /\ clock < MaxRev
      /\ waiting' = waiting \ {c}
      /\ clock' = rev
      /\ mem' = [mem EXCEPT ![c] = Append(@, rev)]
      /\ \/ /\ ~genFailed
            /\ wal' = [wal EXCEPT ![c] = w]
            /\ walOut' = [walOut EXCEPT ![c] = IF Relaxed THEN Grown(c, w) ELSE {w}]
            /\ acked' = IF Relaxed THEN acked ELSE acked \cup {<<c, rev>>}
         \/ /\ Relaxed
            /\ UNCHANGED <<wal, walOut, acked>>
      /\ UNCHANGED <<img, intent, intentOut, op, fences, phase, redo, rejected,
                     exposed, faults, crashes, setting>>

CheckpointUnlocked(c) ==
  /\ "checkpoint" \in Ops
  /\ phase = "open"
  /\ ~poisoned
  /\ ~genFailed
  /\ wal[c] # <<>>
  /\ img' = [img EXCEPT ![c] = mem[c]]
  /\ wal' = [wal EXCEPT ![c] = <<>>]
  /\ walOut' = [walOut EXCEPT ![c] = {<<>>}]
  /\ UNCHANGED <<mem, intent, intentOut, op, waiting, fences, phase, redo, clock,
                 history, faults, crashes, setting>>
\* CheckpointChunk: the image takes over, the WAL goes.
Checkpoint(c) ==
  /\ "checkpoint" \in Ops
  /\ phase = "open"
  /\ ~Locked(c)
  /\ ~poisoned
  /\ ~genFailed
  /\ wal[c] # <<>>
  /\ img' = [img EXCEPT ![c] = mem[c]]
  /\ wal' = [wal EXCEPT ![c] = <<>>]
  /\ walOut' = [walOut EXCEPT ![c] = {<<>>}]
  /\ UNCHANGED <<mem, intent, intentOut, op, waiting, fences, phase, redo, clock,
                 history, faults, crashes, setting>>

-----------------------------------------------------------------------------
(* Ends of an operation *)

End(o) == op' = [op EXCEPT ![o].step = IF o \in Txns THEN "done" ELSE "idle"]
NotApplied(o) == IF op[o].unknown THEN {} ELSE {op[o].rev}

\* The error says the mutation was not applied, and nothing is left behind.
Reject(o) ==
  /\ End(o)
  /\ rejected' = rejected \cup NotApplied(o)
  /\ UNCHANGED <<fences, acked, exposed>>

FenceNothing(fenced) == UNCHANGED repairFailed
\* wal_repair_failed: the chunk refuses every write until the recovery.
FenceWrites(fenced) ==
  repairFailed' = [c \in Chunks |-> repairFailed[c] \/ c \in fenced]

\* The same, but the clean-up failed: the store is fail-closed, and the chunks
\* in fenced refuse every write.  A transaction's guard is not finished.
RejectFailClosed(o, fenced) ==
  /\ End(o)
  /\ rejected' = rejected \cup NotApplied(o)
  /\ poisoned' = TRUE
  /\ genFailed' = (genFailed \/ o \in Txns)
  /\ FenceWrites(fenced)
  /\ exposed' = exposed \cup (DOMAIN op[o].at \ fenced)
  /\ UNCHANGED acked

\* The reply is a version: a durable commit, or in relaxed mode an applied one.
Acknowledge(o) ==
  /\ End(o)
  /\ acked' = IF Relaxed /\ o \in Chunks THEN acked
              ELSE acked \cup {<<c, op[o].rev>> : c \in DOMAIN op[o].at}
  /\ UNCHANGED <<fences, rejected, exposed>>

\* WriteOutcomeUnknownError: the commit form may not be durable.
OutcomeUnknown(o) ==
  /\ End(o)
  /\ poisoned' = TRUE
  /\ genFailed' = TRUE
  /\ UNCHANGED <<repairFailed, history>>

Running(o, s) == op[o].step = s /\ UNCHANGED <<img, waiting, phase, redo, clock, crashes, setting>>

-----------------------------------------------------------------------------
(* Up to the rollback intent *)

\* NextDataVersion.
IssueVersion == clock < MaxRev /\ clock' = clock + 1

\* MakeWalBoundaryDurableLocked on every chunk, then a revision for the whole.
Begin(o, cs, step) ==
  LET full == [c \in cs |-> Flushed(c)]
  IN  /\ phase = "open"
      /\ \A c \in cs : ~Locked(c) /\ ~repairFailed[c]
      /\ ~genFailed
      /\ IssueVersion
      /\ wal' = [c \in Chunks |-> IF c \in cs THEN full[c] ELSE wal[c]]
      /\ walOut' = [c \in Chunks |-> IF c \in cs THEN {full[c]} ELSE walOut[c]]
      /\ op' = [op EXCEPT ![o] = [IdleOp EXCEPT !.step = step, !.rev = clock + 1,
                                    !.at = [c \in cs |-> Len(full[c])], !.todo = cs]]
      /\ UNCHANGED <<mem, img, intent, intentOut, fences, phase, redo, history,
                     faults, crashes, setting>>

\* ApplyFullChunkStateLocked looks at the poison flag no second time.
StartConditional(c) ==
  /\ "conditional" \in Ops
  /\ c \in waiting
  /\ waiting' = waiting \ {c}
  /\ Begin(c, {c}, IF intent[c].form = "commit" THEN "clearold" ELSE "intent")

\* CommitTransaction checks again under its locks.
StartTxn(t, cs) ==
  /\ op[t].step = "idle"
  /\ ~poisoned
  /\ Begin(t, cs, "intent")
  /\ UNCHANGED waiting

\* WriteConditionalRollbackIntent: a CKRC left by an earlier write goes first.
ClearOldCommit(c) ==
  \/ /\ Running(c, "clearold")
     /\ \/ NoFault /\ PutIntent(c, NoIntent) /\ Step(c, "clearoldsync")
           /\ UNCHANGED <<fences, history>>
        \/ Fault /\ Reject(c) /\ UNCHANGED <<intent, intentOut>>
     /\ UNCHANGED <<mem, wal, walOut>>
  \/ /\ Running(c, "clearoldsync")
     /\ \/ NoFault /\ SyncIntents /\ Step(c, "intent") /\ UNCHANGED <<fences, history>>
        \/ Fault /\ Reject(c) /\ UNCHANGED <<intent, intentOut>>
     /\ UNCHANGED <<mem, wal, walOut>>

\* The rollback intent: AtomicWrite renames it, then syncs the directory.  A
\* CKRB that is already there poisons the store.
WriteRollbackIntent(o) ==
  \/ /\ Running(o, "intent")
     /\ \/ /\ intent[o].form = "rollback"
           /\ NoFault
           /\ RejectFailClosed(o, {})
           /\ UNCHANGED <<intent, intentOut>>
        \/ /\ intent[o].form = "none"
           /\ \/ NoFault /\ PutIntent(o, Rollback(op[o].at)) /\ Step(o, "intentsync")
                 /\ UNCHANGED <<fences, history>>
              \/ Fault /\ Reject(o) /\ UNCHANGED <<intent, intentOut>>
     /\ UNCHANGED <<mem, wal, walOut>>
  \/ /\ Running(o, "intentsync")
     /\ \/ NoFault /\ SyncIntents /\ Step(o, "append")
        \/ Fault /\ Step(o, "unpublish") /\ UNCHANGED <<intent, intentOut>>
     /\ UNCHANGED <<mem, wal, walOut, fences, history>>

\* A visible intent that was not synced has to go before another operation may
\* append.  Where that fails a transaction fences its chunks.
RemovePublishedIntent(o) ==
  LET fenced == IF o \in Txns THEN DOMAIN op[o].at ELSE {}
  IN  \/ /\ Running(o, "unpublish")
         /\ \/ NoFault /\ PutIntent(o, NoIntent) /\ Step(o, "unpublishsync")
               /\ UNCHANGED <<fences, history>>
            \/ Fault /\ RejectFailClosed(o, fenced) /\ UNCHANGED <<intent, intentOut>>
         /\ UNCHANGED <<mem, wal, walOut>>
      \/ /\ Running(o, "unpublishsync")
         /\ \/ NoFault /\ SyncIntents /\ Reject(o)
            \/ Fault /\ RejectFailClosed(o, fenced) /\ UNCHANGED <<intent, intentOut>>
         /\ UNCHANGED <<mem, wal, walOut>>

-----------------------------------------------------------------------------
(* Frames and the commit point *)

\* A conditional write appends through FlushWalBatch, which repairs the WAL.
AfterFailedAppend(o) == IF o \in Txns THEN "rollback" ELSE "repair"

\* One frame per chunk, each synced; a relaxed conditional write leaves its
\* frame unsynced or in the batch.
AppendFrame(o, c) ==
  LET w == Append(wal[c], op[o].rev)
      unsynced == Relaxed /\ o \in Chunks
      started == [op EXCEPT ![o].started = @ \cup {c}]
  IN  /\ Running(o, "append")
      /\ c \in op[o].todo
      /\ \/ /\ NoFault
            /\ wal' = [wal EXCEPT ![c] = w]
            /\ walOut' = [walOut EXCEPT ![c] = @ \cup {w}]
            /\ op' = [started EXCEPT ![o].step = IF unsynced THEN "commit" ELSE "framesync"]
         \/ /\ unsynced
            /\ NoFault
            /\ Step(o, "commit")
            /\ UNCHANGED <<wal, walOut>>
         \/ /\ Fault
            /\ wal' \in {wal, [wal EXCEPT ![c] = w]}
            /\ walOut' = [walOut EXCEPT ![c] = @ \cup {wal'[c]}]
            /\ op' = [started EXCEPT ![o].step = AfterFailedAppend(o)]
      /\ UNCHANGED <<mem, intent, intentOut, fences, history>>

CommitAfterFirstFrame(o, c) == "commit"
\* The commit form follows the last frame.
AfterFrame(o, c) == IF op[o].todo = {c} THEN "commit" ELSE "append"

SyncFrame(o) ==
  /\ Running(o, "framesync")
  /\ \/ /\ NoFault
        /\ \E c \in op[o].todo \cap op[o].started :
             /\ walOut' = [walOut EXCEPT ![c] = {wal[c]}]
             /\ op' = [op EXCEPT ![o].todo = @ \ {c},
                                 ![o].step = AfterFrame(o, c)]
     \/ Fault /\ Step(o, AfterFailedAppend(o)) /\ UNCHANGED walOut
  /\ UNCHANGED <<mem, wal, intent, intentOut, fences, history>>

\* The commit form replaces the intent: the commit point is the rename.  A
\* directory sync that fails is tried once more, and no failure past the rename
\* goes back.
PublishCommit(o) ==
  \/ /\ Running(o, "commit")
     /\ \/ NoFault /\ PutIntent(o, Committed(op[o].at)) /\ Step(o, "commitsync")
        \/ Fault /\ Step(o, "rollback") /\ UNCHANGED <<intent, intentOut>>
     /\ UNCHANGED <<mem, wal, walOut, fences, history>>
  \/ /\ op[o].step \in {"commitsync", "commitresync"}
     /\ Running(o, op[o].step)
     /\ \/ /\ NoFault
           /\ SyncIntents
           /\ op' = [op EXCEPT ![o].step = "apply", ![o].durable = TRUE]
        \/ /\ Fault
           /\ Step(o, IF op[o].step = "commitsync" THEN "commitresync" ELSE "apply")
           /\ UNCHANGED <<intent, intentOut>>
     /\ UNCHANGED <<mem, wal, walOut, fences, history>>

\* Memory takes the new states, all chunks locked.  A transaction then releases
\* its locks, before it looks at whether its commit form is durable.
ApplyCommitted(o) ==
  /\ Running(o, "apply")
  /\ NoFault
  /\ mem' = [c \in Chunks |-> IF c \in DOMAIN op[o].at
                              THEN Append(mem[c], op[o].rev) ELSE mem[c]]
  /\ Step(o, IF o \in Chunks THEN "clear"
             ELSE IF op[o].durable THEN "release" ELSE "outcome")
  /\ exposed' = exposed \cup (IF o \in Txns /\ ~op[o].durable
                              THEN DOMAIN op[o].at ELSE {})
  /\ UNCHANGED <<wal, walOut, intent, intentOut, fences, acked, rejected>>

TxnOutcomeUnknown(t) ==
  /\ Running(t, "outcome")
  /\ NoFault
  /\ OutcomeUnknown(t)
  /\ UNCHANGED <<store, intent, intentOut>>

\* The committed intent is unlinked and its directory synced.  A failure is
\* contained once the commit is durable; a conditional write whose commit is
\* not syncs the directory once more.
ClearCommitted(o) ==
  LET contained == IF o \in Txns \/ op[o].durable THEN Acknowledge(o)
                   ELSE Step(o, "clearresync") /\ UNCHANGED <<fences, history>>
      first == IF o \in Txns THEN "release" ELSE "clear"
      second == IF o \in Txns THEN "releasesync" ELSE "clearsync"
  IN  \/ /\ Running(o, first)
         /\ \/ NoFault /\ PutIntent(o, NoIntent) /\ Step(o, second)
               /\ UNCHANGED <<fences, history>>
            \/ Fault /\ contained /\ UNCHANGED <<intent, intentOut>>
         /\ UNCHANGED <<mem, wal, walOut>>
      \/ /\ Running(o, second)
         /\ \/ NoFault /\ SyncIntents /\ Acknowledge(o)
            \/ Fault /\ contained /\ UNCHANGED <<intent, intentOut>>
         /\ UNCHANGED <<mem, wal, walOut>>
      \/ /\ Running(o, "clearresync")
         /\ \/ NoFault /\ SyncIntents /\ Acknowledge(o)
            \/ Fault /\ OutcomeUnknown(o) /\ UNCHANGED <<intent, intentOut>>
         /\ UNCHANGED <<mem, wal, walOut>>

-----------------------------------------------------------------------------
(* Back to the boundaries *)

Cut(w, at) == SubSeq(w, 1, at)

\* TruncateWalTail: a WAL that is absent is left alone, any other goes back to
\* its boundary, synced for a transaction and in the synced modes.
TruncateWalTail(o, c) ==
  LET w == Cut(wal[c], op[o].at[c])
      sync == ~Relaxed \/ o \in Txns
  IN  \/ /\ wal[c] = <<>>
         /\ UNCHANGED <<wal, walOut, exposed>>
      \/ /\ wal[c] # <<>>
         /\ wal' = [wal EXCEPT ![c] = w]
         /\ walOut' = [walOut EXCEPT ![c] = IF sync THEN {w} ELSE @ \cup {w}]
         /\ exposed' = IF sync THEN exposed ELSE exposed \cup {c}

\* It fails at the cut or at the sync behind it.
TruncateFails(o, c) ==
  /\ wal' \in {wal, [wal EXCEPT ![c] = Cut(@, op[o].at[c])]}
  /\ walOut' = [walOut EXCEPT ![c] = @ \cup {wal'[c]}]

\* FlushWalBatch's repair of its own append; where that fails the error is an
\* unknown outcome, and the conditional write still rolls back.
RepairBatch(c) ==
  /\ Running(c, "repair")
  /\ \/ /\ NoFault
        /\ TruncateWalTail(c, c)
        /\ Step(c, "rollback")
        /\ UNCHANGED <<repairFailed, poisoned>>
     \/ /\ Fault
        /\ TruncateFails(c, c)
        /\ op' = [op EXCEPT ![c].step = "rollback", ![c].unknown = TRUE]
        /\ poisoned' = TRUE
        /\ repairFailed' = [repairFailed EXCEPT ![c] = TRUE]
        /\ UNCHANGED exposed
  /\ UNCHANGED <<mem, intent, intentOut, genFailed, acked, rejected>>

\* The WALs whose append started go back.  Where that fails the intent stays
\* for the recovery.
RollBackWal(o, c) ==
  /\ Running(o, "rollback")
  /\ c \in op[o].started
  /\ \/ /\ NoFault
        /\ TruncateWalTail(o, c)
        /\ op' = [op EXCEPT ![o].started = @ \ {c}]
        /\ UNCHANGED <<fences, acked, rejected>>
     \/ /\ Fault
        /\ TruncateFails(o, c)
        /\ RejectFailClosed(o, DOMAIN op[o].at)
  /\ UNCHANGED <<mem, intent, intentOut>>

\* Then the intent goes.
RemoveRollbackIntent(o) ==
  \/ /\ Running(o, "rollback")
     /\ op[o].started = {}
     /\ \/ NoFault /\ PutIntent(o, NoIntent) /\ Step(o, "rollbacksync")
           /\ UNCHANGED <<fences, history>>
        \/ Fault /\ RejectFailClosed(o, DOMAIN op[o].at) /\ UNCHANGED <<intent, intentOut>>
     /\ UNCHANGED <<mem, wal, walOut>>
  \/ /\ Running(o, "rollbacksync")
     /\ \/ NoFault /\ SyncIntents /\ Reject(o)
        \/ Fault /\ RejectFailClosed(o, DOMAIN op[o].at) /\ UNCHANGED <<intent, intentOut>>
     /\ UNCHANGED <<mem, wal, walOut>>

-----------------------------------------------------------------------------
(* Crashes and recovery *)

\* A power loss keeps one outcome of each file; a process crash keeps what the
\* system saw, and leaves it as unsynced as it was.
Restart(w, wOut, i, iOut) ==
  /\ crashes < MaxCrashes
  /\ crashes' = crashes + 1
  /\ UNCHANGED setting
  /\ mem' = [c \in Chunks |-> <<>>]
  /\ wal' = w
  /\ walOut' = wOut
  /\ intent' = i
  /\ intentOut' = iOut
  /\ op' = [o \in Ids |-> IF o \in Txns /\ op[o].step # "idle"
                          THEN [op[o] EXCEPT !.step = "done"] ELSE IdleOp]
  /\ waiting' = {}
  /\ repairFailed' = [c \in Chunks |-> FALSE]
  /\ poisoned' = FALSE
  /\ genFailed' = FALSE
  /\ phase' = "recover"
  /\ redo' = UNION {{<<o, c, "cut">> : c \in DOMAIN i[o].at} :
                     o \in {p \in Ids : i[p].form = "rollback"}}
  /\ exposed' = exposed \cup
       UNION {UNION {DOMAIN r.at : r \in {x \in iOut[o] : x.form = "rollback"}} :
               o \in {p \in Ids : i[p] = NoIntent}}
  /\ UNCHANGED <<img, clock, acked, rejected, faults>>

ProcessCrash == Restart(wal, walOut, intent, intentOut)

PowerLoss ==
  \E w \in [Chunks -> UNION {walOut[c] : c \in Chunks}],
     i \in [Ids -> UNION {intentOut[o] : o \in Ids}] :
    /\ \A c \in Chunks : w[c] \in walOut[c]
    /\ \A o \in Ids : i[o] \in intentOut[o]
    /\ Restart(w, [c \in Chunks |-> {w[c]}], i, [o \in Ids |-> {i[o]}])

Recovering == phase = "recover" /\ UNCHANGED <<mem, img, op, waiting, fences,
                                              clock, acked, faults, crashes, setting>>

\* Conditional intents first, then transactions by version; one at a time.
Turn(o) ==
  /\ \A s \in redo : s[3] # "cut" => s[1] = o
  /\ o \in Txns => /\ \A c \in Chunks : intent[c] = NoIntent
                   /\ \A t \in Txns : intent[t] # NoIntent => op[o].rev <= op[t].rev

\* A WAL shorter than its boundary is damage and refuses the store.  A WAL that
\* is absent, as it was, is left alone by a conditional intent; a transaction's
\* directory is synced.
RecoverCut(o, c) ==
  LET at == intent[o].at[c]
      w == Cut(wal[c], at)
      absent == o \in Chunks /\ wal[c] = <<>>
  IN  /\ Recovering
      /\ <<o, c, "cut">> \in redo
      /\ Turn(o)
      /\ \/ /\ Len(wal[c]) < at
            /\ phase' = "refused"
            /\ UNCHANGED <<wal, walOut, redo, rejected, exposed>>
         \/ /\ Len(wal[c]) >= at
            /\ wal' = [wal EXCEPT ![c] = w]
            /\ walOut' = [walOut EXCEPT ![c] = @ \cup {w}]
            /\ rejected' = rejected \cup {wal[c][k] : k \in (at + 1)..Len(wal[c])}
            /\ redo' = (redo \ {<<o, c, "cut">>})
                         \cup (IF absent THEN {} ELSE {<<o, c, "sync">>})
            /\ exposed' = IF absent /\ walOut[c] # {wal[c]} THEN exposed \cup {c} ELSE exposed
            /\ UNCHANGED phase
      /\ UNCHANGED <<intent, intentOut>>

RecoverSync(o, c) ==
  /\ Recovering
  /\ <<o, c, "sync">> \in redo
  /\ walOut' = [walOut EXCEPT ![c] = {wal[c]}]
  /\ redo' = redo \ {<<o, c, "sync">>}
  /\ UNCHANGED <<wal, intent, intentOut, phase, rejected, exposed>>

\* The intent goes once its WALs are done; a commit form just goes.
RecoverUnlink(o) ==
  /\ Recovering
  /\ intent[o] # NoIntent
  /\ Turn(o)
  /\ \A s \in redo : s[1] # o /\ s[3] = "cut"
  /\ PutIntent(o, NoIntent)
  /\ redo' = redo \cup {<<o, o, "dir">>}
  /\ UNCHANGED <<wal, walOut, phase, rejected, exposed>>

RecoverDir(o) ==
  /\ Recovering
  /\ <<o, o, "dir">> \in redo
  /\ SyncIntents
  /\ redo' = redo \ {<<o, o, "dir">>}
  /\ UNCHANGED <<wal, walOut, phase, rejected, exposed>>

OpenStore ==
  /\ phase = "recover"
  /\ redo = {}
  /\ \A o \in Ids : intent[o] = NoIntent
  /\ phase' = "open"
  /\ mem' = [c \in Chunks |-> img[c] \o wal[c]]
  /\ UNCHANGED <<img, wal, walOut, intent, intentOut, op, waiting, fences, redo,
                 clock, history, faults, crashes, setting>>

-----------------------------------------------------------------------------

OpNext(o) ==
  \/ WriteRollbackIntent(o) \/ RemovePublishedIntent(o)
  \/ \E c \in Chunks : AppendFrame(o, c)
  \/ SyncFrame(o) \/ PublishCommit(o) \/ ApplyCommitted(o) \/ ClearCommitted(o)
  \/ \E c \in Chunks : RollBackWal(o, c)
  \/ RemoveRollbackIntent(o)

RecoverNext ==
  \/ \E o \in Ids, c \in Chunks : RecoverCut(o, c) \/ RecoverSync(o, c)
  \/ \E o \in Ids : RecoverUnlink(o) \/ RecoverDir(o)
  \/ OpenStore

Next ==
  \/ \E c \in Chunks : \/ PassPoisonCheck(c) \/ PlainWrite(c) \/ Checkpoint(c)
                       \/ StartConditional(c) \/ ClearOldCommit(c) \/ RepairBatch(c)
  \/ \E t \in Txns : TxnOutcomeUnknown(t)
                     \/ \E cs \in SUBSET Chunks \ {{}} : StartTxn(t, cs)
  \/ \E o \in Ids : OpNext(o)
  \/ RecoverNext
  \/ ProcessCrash \/ PowerLoss

Spec == Init /\ [][Next]_vars

-----------------------------------------------------------------------------
(* Properties *)

IntentOf(o) == {NoIntent} \cup
  {r \in [form : {"rollback", "commit"}, at : UNION {[cs -> 0..MaxRev] : cs \in SUBSET Chunks}] :
     o \in Chunks => DOMAIN r.at = {o}}

\* Every revision anywhere was issued, and what the system sees of a file is one
\* of the outcomes of a power loss.
TypeOK ==
  /\ \A c \in Chunks : /\ Range(mem[c]) \cup Range(img[c]) \subseteq 1..clock
                       /\ wal[c] \in walOut[c]
                       /\ \A w \in walOut[c] : Range(w) \subseteq 1..clock
                       /\ repairFailed[c] \in BOOLEAN
  /\ \A o \in Ids : /\ intent[o] \in intentOut[o]
                    /\ intentOut[o] \subseteq IntentOf(o)
                    /\ op[o].rev \in 0..clock
                    /\ op[o].started \cup op[o].todo \subseteq DOMAIN op[o].at
  /\ {poisoned, genFailed} \subseteq BOOLEAN
  /\ phase \in {"open", "recover", "refused"}
  /\ waiting \subseteq Chunks

Open == phase = "open"

\* CommitTransaction and RecoverTransactionIntents: an open store shows a
\* transaction in all of its chunks or in none, whatever failed or crashed on the
\* way.  Chunks in exposed are the ones the findings are about.
TxnAllOrNothing ==
  Open => \A t \in Txns :
            LET cs == DOMAIN op[t].at
                applied == {c \in cs : op[t].rev \in Range(mem[c])}
            IN  op[t].rev > 0 /\ cs \cap exposed = {} => applied \in {{}, cs}

\* No rollback, live or at startup, takes back a write that was acknowledged as
\* durable; and a mutation answered as not applied, or cut off by a recovery,
\* never comes back, although its frame was in the WAL.  A rollback intent that
\* is on disk, or that a power loss may bring back, cuts nothing but its own
\* operation: its owner holds the chunk, the chunk refuses writes, the store is
\* fail-closed, or the WAL ends at the boundary.
AnswersHold ==
  Open =>
    /\ \A a \in acked : a[1] \notin exposed => a[2] \in Range(mem[a[1]])
    /\ \A c \in Chunks \ exposed : Range(mem[c]) \cap rejected = {}
    /\ \A o \in Ids : \A r \in intentOut[o] : r.form = "rollback" =>
         \A c \in DOMAIN r.at \ exposed :
           \/ c \in DOMAIN op[o].at /\ op[o].step \notin Unlocked
           \/ repairFailed[c]
           \/ poisoned /\ genFailed
           \/ Len(wal[c]) = r.at[c]

\* The recovery never meets a WAL shorter than a rollback boundary: the store
\* opens after every crash.
OpensAgain == exposed = {} => phase # "refused"

\* The durability contract without exceptions: "an acknowledged change survives
\* a crash or power loss".  The code does not keep it (see the findings).
AcknowledgedNeverLost ==
  Open => \A a \in acked : a[2] \in Range(mem[a[1]])

\* The contract's "rejected mutation changes nothing" without exceptions.  The
\* code does not keep it (see the findings).
RejectedNeverReturns ==
  Open => \A c \in Chunks : Range(mem[c]) \cap rejected = {}
=============================================================================
