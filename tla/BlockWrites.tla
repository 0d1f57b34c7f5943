----------------------------- MODULE BlockWrites -----------------------------
(***************************************************************************)
(* What a write of blocks does to the bytes and values of one chunk, which *)
(* WAL frame it records, and what a later load makes of the image and the  *)
(* frames: columns packed into byte-aligned bit arrays (ChunkLayout), text *)
(* and bytes values beside them (ChunkVars), frames that carry whole bytes *)
(* and changed values (WalFrameBuilder), and a replay that moves the state *)
(* from schema version to schema version (ReplayWal, TranslateChunk).      *)
(*                                                                         *)
(* Calls hold the chunk's mutex and are atomic; a checkpoint publishes the *)
(* image and removes the WAL in two steps, and stops between them when the *)
(* removal fails or the process ends.  A text value is its length.         *)
(***************************************************************************)
EXTENDS Integers, Sequences, FiniteSets, FiniteSetsExt, SequencesExt, Functions, TLC

CONSTANTS
  ByteBits,     \* bits of a byte (8 in the code)
  NBlocks,      \* blocks of the chunk
  Plans,        \* tables: their schema versions, what is written to them and how
                \* often, and whether a checkpoint may stop after its image
  EntryHeader,  \* kVarEntryHeaderBytes
  VarLimit,     \* var_max_chunk_bytes
  Gap,          \* kTxnSpanMergeGap
  MaxStops      \* bound: failed writes, half checkpoints and crashes

VARIABLES
  plan,     \* the table of this behaviour
  schema,   \* its schema version
  pending,  \* a narrowing to the next version is in progress
  mem,      \* the chunk: its bits (payload, then presence) and its values
  rev,      \* RegularChunk::version
  clock,    \* the last version handed out
  batch,    \* wal_batch: frames not yet in the file
  wal,      \* the frames of the WAL file
  image,    \* the chunk image
  pc,       \* "up", "published" between a checkpoint's two steps, "down"
  rows,     \* ghost: what each block holds, as its writers see it
  staged,   \* ghost: rows after each frame of the batch
  kept,     \* ghost: rows after the last frame of the files
  count     \* the bounds' counters

vars == <<plan, schema, pending, mem, rev, clock, batch, wal, image, pc, rows, staged, kept, count>>

Blocks == 0..(NBlocks - 1)
Null == 1000
NoDefault == 2000
Absent == <<>>
NoImage == [rev |-> 0, version |-> 0]

(***************************************************************************)
(* Layout.  A schema is a sequence of columns; width 0 is text or bytes.   *)
(***************************************************************************)
BytesForBits(n) == (n + ByteBits - 1) \div ByteBits

ColumnBytes(c) ==
  IF c.width = 0 THEN 0
  ELSE BytesForBits(NBlocks * c.width) + (IF c.nullable THEN BytesForBits(NBlocks) ELSE 0)

\* The bit of each column's array of values and of its array of validity bits.
ChunkLayout(s) ==
  LET offset(i) == MapThenSumSet(LAMBDA j : ColumnBytes(s[j]), 1..(i - 1)) * ByteBits
  IN  [i \in DOMAIN s |-> s[i] @@ [values |-> offset(i), end |-> offset(i + 1),
                                  validity |-> offset(i) + BytesForBits(NBlocks * s[i].width) * ByteBits]]

PayloadBytes(s) == s[Len(s)].end \div ByteBits
ValueAt(s, i, b) == s[i].values + b * s[i].width
ValidAt(s, i, b) == s[i].validity + b
PresentAt(s, b) == s[Len(s)].end + b
BitsOf(s) == 0..(s[Len(s)].end + BytesForBits(NBlocks) * ByteBits - 1)
Ids(s) == {s[i].id : i \in DOMAIN s}
IndexOfId(s, id) == IF id \in Ids(s) THEN CHOOSE i \in DOMAIN s : s[i].id = id ELSE 0
EmptyState(s) == [bits |-> [p \in BitsOf(s) |-> 0], vars |-> [k \in {} |-> 0]]

Current == plan.schemas[schema]

(***************************************************************************)
(* Values.                                                                 *)
(***************************************************************************)
Low(c) == IF c.signed THEN -(2 ^ (c.width - 1)) ELSE 0
High(c) == IF c.width = 0 THEN c.size ELSE IF c.signed THEN 2 ^ (c.width - 1) - 1 ELSE 2 ^ c.width - 1
ValueFits(c, x) == x = Null \/ x \in Low(c)..High(c)
SameType(c, d) == c.width = d.width /\ c.signed = d.signed /\ c.size = d.size

\* What a block takes for a column it is not given, and for a value that does not fit under DEFAULT.
FallbackOf(c) == IF c.default # NoDefault THEN c.default ELSE IF c.nullable THEN Null ELSE 0

Throws(c, x) == ~ValueFits(c, x) /\ c.conversion = "exact"
ConvertValue(c, x) ==
  IF ValueFits(c, x) THEN x
  ELSE CASE c.conversion = "clamp" -> IF x < Low(c) THEN Low(c) ELSE High(c)
         [] c.conversion = "truncate" -> IF c.width = 0 THEN c.size ELSE x % 2 ^ c.width
         [] OTHER -> FallbackOf(c)

WriteValueBits(bits, at, width, x) ==
  [p \in DOMAIN bits |-> IF p \in at..(at + width - 1) THEN (x \div 2 ^ (p - at)) % 2 ELSE bits[p]]

ReadValueBits(bits, at, c) ==
  LET x == MapThenSumSet(LAMBDA i : bits[at + i] * 2 ^ i, 0..(c.width - 1))
  IN  IF c.signed /\ x > High(c) THEN x - 2 ^ c.width ELSE x

BlockPresent(s, st, b) == st.bits[PresentAt(s, b)] = 1

DecodeColumn(s, st, b, i) ==
  LET c == s[i]
      k == <<c.id, b>>
  IN  IF c.width = 0
      THEN IF k \in DOMAIN st.vars THEN st.vars[k] ELSE IF c.nullable THEN Null ELSE 0
      ELSE IF c.nullable /\ st.bits[ValidAt(s, i, b)] = 0 THEN Null
      ELSE ReadValueBits(st.bits, ValueAt(s, i, b), c)

DecodeBlockColumns(s, st, b) == [id \in Ids(s) |-> DecodeColumn(s, st, b, IndexOfId(s, id))]
BlockInState(s, st, b) == IF BlockPresent(s, st, b) THEN DecodeBlockColumns(s, st, b) ELSE Absent

\* One column of one block; no entry is NULL, or the empty value of a column that cannot be NULL.
PutColumn(s, st, b, i, x) ==
  LET c == s[i]
      k == <<c.id, b>>
      value == WriteValueBits(st.bits, ValueAt(s, i, b), c.width, IF x = Null THEN 0 ELSE x)
  IN  IF c.width > 0
      THEN [st EXCEPT !.bits = IF c.nullable THEN [value EXCEPT ![ValidAt(s, i, b)] = IF x = Null THEN 0 ELSE 1]
                                             ELSE value]
      ELSE IF x = Null \/ (x = 0 /\ ~c.nullable)
      THEN [st EXCEPT !.vars = Restrict(@, DOMAIN @ \ {k})]
      ELSE [st EXCEPT !.vars = (k :> x) @@ @]

(***************************************************************************)
(* Block writes: `values` gives some columns of block b a value.           *)
(***************************************************************************)
ApplyBlockWriteToState(s, st, b, values, present) ==
  LET at == {i \in DOMAIN s : s[i].id \in DOMAIN values}
      put == FoldSet(LAMBDA i, acc : PutColumn(s, acc, b, i, values[s[i].id]), st, at)
  IN  [put EXCEPT !.bits[PresentAt(s, b)] = IF present THEN 1 ELSE 0]

AddNewBlockColumns(s, given) == given @@ [id \in Ids(s) |-> FallbackOf(s[IndexOfId(s, id)])]
UnsetValues(s) == [id \in Ids(s) |-> IF s[IndexOfId(s, id)].nullable THEN Null ELSE 0]

VarsSize(v) == MapThenSumSet(LAMBDA k : EntryHeader + v[k], DOMAIN v)
\* A chunk over the limit may still shrink.
RequireVarWrite(before, after) == after = before \/ VarsSize(after) <= VarLimit \/ VarsSize(after) <= VarsSize(before)

\* A narrowing in progress already refuses what the next version does not hold.
PendingFits(id, x) ==
  pending => LET next == plan.schemas[schema + 1]
             IN  IndexOfId(next, id) = 0 \/ ValueFits(next[IndexOfId(next, id)], x)

\* The checks of PrepareSetBlockWrite and AddNewBlockColumns.
MaySet(s, st, b, given) ==
  /\ DOMAIN given \subseteq Ids(s)
  /\ \A id \in DOMAIN given :
       /\ given[id] = Null => s[IndexOfId(s, id)].nullable
       /\ ValueFits(s[IndexOfId(s, id)], given[id])
       /\ PendingFits(id, given[id])
  /\ BlockPresent(s, st, b) \/ \A i \in DOMAIN s : s[i].required => s[i].id \in DOMAIN given

\* An edit is a block and the values it is given; none means that it is unset.
EditValues(s, st, e) ==
  IF e.given = Absent THEN UnsetValues(s)
  ELSE IF BlockPresent(s, st, e.b) THEN e.given ELSE AddNewBlockColumns(s, e.given)
Edited(s, st, e) == ApplyBlockWriteToState(s, st, e.b, EditValues(s, st, e), e.given # Absent)
MayEdit(s, st, e) ==
  /\ e.given # Absent => MaySet(s, st, e.b, e.given)
  /\ RequireVarWrite(st.vars, Edited(s, st, e).vars)

(***************************************************************************)
(* Frames: whole bytes as they are after the write, and changed values.    *)
(***************************************************************************)
ByteBitsOf(bytes) == UNION {(k * ByteBits)..(k * ByteBits + ByteBits - 1) : k \in bytes}
Differs(before, after, bytes) == \E p \in ByteBitsOf(bytes) : before.bits[p] # after.bits[p]

\* Mutant: the presence byte is not among them.
RangesWithoutPresence(s, b, ids) ==
  LET at == {i \in DOMAIN s : s[i].id \in ids /\ s[i].width > 0}
      value(i) == (ValueAt(s, i, b) \div ByteBits)..((ValueAt(s, i, b) + s[i].width - 1) \div ByteBits)
  IN  {value(i) : i \in at} \cup {{ValidAt(s, i, b) \div ByteBits} : i \in {j \in at : s[j].nullable}}

\* The byte ranges a block write touches: each value's bytes, its validity byte, its presence byte.
RangesOf(s, b, ids) ==
  LET at == {i \in DOMAIN s : s[i].id \in ids /\ s[i].width > 0}
      value(i) == (ValueAt(s, i, b) \div ByteBits)..((ValueAt(s, i, b) + s[i].width - 1) \div ByteBits)
  IN  {value(i) : i \in at} \cup {{ValidAt(s, i, b) \div ByteBits} : i \in {j \in at : s[j].nullable}}
        \cup {{PresentAt(s, b) \div ByteBits}}
ChangedRanges(s, before, after, b, ids) == UNION {r \in RangesOf(s, b, ids) : Differs(before, after, r)}

PayloadRange(s) == 0..(PayloadBytes(s) - 1)
PresenceRange(s) == PayloadBytes(s)..(PayloadBytes(s) + BytesForBits(NBlocks) - 1)
WholeSpans(s, before, after) == UNION {r \in {PayloadRange(s), PresenceRange(s)} : Differs(before, after, r)}

\* Changed bytes, and the bytes between two of them that are close enough.
DiffSpans(s, before, after) ==
  LET merged(r) == LET d == {k \in r : Differs(before, after, {k})}
                   IN  {k \in r : \E i, j \in d : i <= k /\ k <= j /\ j - i - 1 <= Gap}
  IN  merged(PayloadRange(s)) \cup merged(PresenceRange(s))

VarDiff(before, after) ==
  LET at(v, k) == IF k \in DOMAIN v THEN v[k] ELSE Null
      changed == {k \in DOMAIN before.vars \cup DOMAIN after.vars : at(before.vars, k) # at(after.vars, k)}
  IN  [k \in changed |-> at(after.vars, k)]

Frame(r, before, after, bytes) ==
  [rev |-> r, version |-> schema, replace |-> FALSE, cut |-> FALSE,
   span |-> Restrict(after.bits, ByteBitsOf(bytes)), vars |-> VarDiff(before, after)]

\* The last frame of an empty chunk whose image is about to go.
EmptyFrame(r, s) ==
  [rev |-> r, version |-> schema, replace |-> TRUE, cut |-> FALSE,
   span |-> EmptyState(s).bits, vars |-> [k \in {} |-> 0]]

ApplyVars(old, new) == Restrict(new @@ old, {k \in DOMAIN old \cup DOMAIN new : (new @@ old)[k] # Null})
ApplyFrame(st, f) ==
  [bits |-> f.span @@ st.bits, vars |-> IF f.replace THEN f.vars ELSE ApplyVars(st.vars, f.vars)]

(***************************************************************************)
(* Schema versions, and the load of a chunk.                               *)
(***************************************************************************)
\* The values a move to the next version gives, by column and block: a column of another type
\* converts, an added one takes what a new block would get.
Moved(s, t, st) ==
  LET old(i) == IndexOfId(s, t[i].id)
      moves(i, b) ==
        IF old(i) = 0 THEN BlockPresent(s, st, b)
        ELSE /\ ~SameType(s[old(i)], t[i])
             /\ IF t[i].width = 0 THEN <<t[i].id, b>> \in DOMAIN st.vars ELSE BlockPresent(s, st, b)
  IN  {<<i, b, IF old(i) = 0 THEN FallbackOf(t[i]) ELSE DecodeColumn(s, st, b, old(i))>> :
         <<i, b>> \in {m \in (DOMAIN t) \X Blocks : moves(m[1], m[2])}}

TranslateChunk(s, t, st) ==
  LET old(i) == IndexOfId(s, t[i].id)
      copied(p) == {i \in DOMAIN t : p \in t[i].values..(t[i].end - 1) /\ old(i) # 0 /\ SameType(s[old(i)], t[i])}
      bit(p) ==
        IF p >= PresentAt(t, 0) THEN st.bits[p - PresentAt(t, 0) + PresentAt(s, 0)]
        ELSE IF copied(p) = {} THEN 0
        ELSE LET i == CHOOSE i \in copied(p) : TRUE
             IN  st.bits[p - t[i].values + s[old(i)].values]
      base == [bits |-> [p \in BitsOf(t) |-> bit(p)],
               vars |-> Restrict(st.vars, {k \in DOMAIN st.vars : k[1] \in Ids(t)})]
  IN  FoldSet(LAMBDA m, acc : PutColumn(t, acc, m[2], m[1], ConvertValue(t[m[1]], m[3])), base, Moved(s, t, st))

\* A state with the version its bits are laid out by; 0 is the empty state of no image.
MoveStep(acc, v) ==
  LET t == plan.schemas[v]
      s == plan.schemas[v - 1]
  IN  IF acc.stop # "none" THEN acc
      ELSE IF \E m \in Moved(s, t, acc.st) : Throws(t[m[1]], m[3]) THEN [acc EXCEPT !.stop = "throws"]
      ELSE [acc EXCEPT !.version = v, !.st = TranslateChunk(s, t, acc.st)]
MoveStateTo(acc, v) ==
  IF acc.version = 0 THEN [acc EXCEPT !.version = v, !.st = EmptyState(plan.schemas[v])]
  ELSE FoldLeft(MoveStep, acc, [n \in 1..(v - acc.version) |-> acc.version + n])

WithFrame(moved, f) ==
  IF moved.stop # "none" THEN moved
  ELSE [moved EXCEPT !.st = ApplyFrame(@, f), !.rev = f.rev, !.previous = f.rev, !.end = @ + 1]

\* Mutant: frames the image already has are applied again.
ReplayAgain(acc, f) ==
  IF acc.stop # "none" \/ f.cut THEN [acc EXCEPT !.stop = IF @ = "none" THEN "cut" ELSE @]
  ELSE WithFrame(MoveStateTo(acc, f.version), f)

\* One frame: whole, in revision order, past the image, and of the state's version or a later one.
ReplayFrame(acc, f) ==
  IF acc.stop # "none" THEN acc
  ELSE IF f.cut THEN [acc EXCEPT !.stop = "cut"]
  ELSE IF f.rev <= acc.previous THEN [acc EXCEPT !.stop = "damage"]
  ELSE IF f.rev <= acc.base THEN [acc EXCEPT !.previous = f.rev, !.end = @ + 1]
  ELSE IF f.version < acc.version THEN [acc EXCEPT !.stop = "damage"]
  ELSE WithFrame(MoveStateTo(acc, f.version), f)

RequireValidVars(s, st) ==
  \A k \in DOMAIN st.vars :
    LET i == IndexOfId(s, k[1])
    IN  /\ i # 0
        /\ s[i].width = 0 /\ BlockPresent(s, st, k[2]) /\ st.vars[k] <= s[i].size
        /\ st.vars[k] = 0 => s[i].nullable

\* A frame that is cut is a crash's tail only when no whole frame follows it.
Damaged(replayed, file) ==
  replayed.stop = "cut" /\ \E n \in (replayed.end + 2)..Len(file) : ~file[n].cut
Loaded(done, damaged, s) ==
  [ok |-> done.stop = "none" /\ ~damaged /\ RequireValidVars(s, done.st),
   st |-> done.st, rev |-> done.rev, end |-> done.end]
Finished(replayed, file, v) ==
  Loaded(MoveStateTo([replayed EXCEPT !.stop = IF @ = "cut" THEN "none" ELSE @], v),
         Damaged(replayed, file), plan.schemas[v])

\* The load of the image and the frames `file` at schema version v.
Load(file, v) ==
  LET start == [st |-> IF image = NoImage THEN EmptyState(plan.schemas[1]) ELSE image.st,
                version |-> image.version, base |-> image.rev, rev |-> image.rev,
                previous |-> 0, end |-> 0, stop |-> "none"]
  IN  Finished(FoldLeft(ReplayFrame, start, file), file, v)

(***************************************************************************)
(* The operations.                                                         *)
(***************************************************************************)
Init ==
  /\ plan \in {[p EXCEPT !.schemas = [v \in DOMAIN @ |-> ChunkLayout(@[v])]] : p \in Plans}
  /\ schema = 1 /\ pending = FALSE
  /\ mem = EmptyState(Current)
  /\ rev = 0 /\ clock = 0
  /\ batch = <<>> /\ wal = <<>> /\ image = NoImage /\ pc = "up"
  /\ rows = [b \in Blocks |-> Absent] /\ staged = <<>> /\ kept = rows
  /\ count = [writes |-> 0, stops |-> 0]

Idle == pc = "up" /\ count.writes < plan.writes
Counted == count' = [count EXCEPT !.writes = @ + 1]
MayStop == count.stops < MaxStops
Stopped == count' = [count EXCEPT !.stops = @ + 1]

\* What the writer of an edit expects of the block.
RowAfter(row, e) ==
  IF e.given = Absent THEN Absent
  ELSE e.given @@ (IF row # Absent THEN row ELSE [id \in Ids(Current) |-> FallbackOf(Current[IndexOfId(Current, id)])])

\* The mutation takes a version, changes the chunk and stages its frame.
Stage(after, bytes) ==
  /\ clock' = clock + 1 /\ rev' = clock'
  /\ mem' = after
  /\ batch' = Append(batch, Frame(clock', mem, after, bytes))
  /\ staged' = Append(staged, rows')
  /\ Counted
  /\ UNCHANGED <<plan, schema, pending, wal, image, pc, kept>>

\* SetBlock and UnsetBlock; a write that changes nothing records nothing.
WriteBlock(e) ==
  LET after == Edited(Current, mem, e)
  IN  /\ Idle /\ MayEdit(Current, mem, e) /\ after # mem
      /\ rows' = [rows EXCEPT ![e.b] = RowAfter(@, e)]
      /\ Stage(after, ChangedRanges(Current, mem, after, e.b, DOMAIN EditValues(Current, mem, e)))

\* The frame cannot be appended: the bytes of the ranges and the changed values go back.
Restore(s, before, after, b, ids) ==
  [bits |-> Restrict(before.bits, ByteBitsOf(UNION RangesOf(s, b, ids))) @@ after.bits,
   vars |-> ApplyVars(after.vars, VarDiff(after, before))]

FailBlock(e) ==
  LET after == Edited(Current, mem, e)
  IN  /\ Idle /\ MayStop /\ MayEdit(Current, mem, e) /\ after # mem
      /\ clock' = clock + 1
      /\ mem' = Restore(Current, mem, after, e.b, DOMAIN EditValues(Current, mem, e))
      /\ Stopped
      /\ UNCHANGED <<plan, schema, pending, rev, batch, wal, image, pc, rows, staged, kept>>

\* Zeroes what no present block holds: padding, absent blocks and the bits of a NULL.
ClearEmptyValues(s, bits) ==
  LET present(b) == bits[PresentAt(s, b)] = 1
      valid(i, b) == present(b) /\ (~s[i].nullable \/ bits[ValidAt(s, i, b)] = 1)
      at == {i \in DOMAIN s : s[i].width > 0}
      used == UNION {ValueAt(s, m[1], m[2])..(ValueAt(s, m[1], m[2]) + s[m[1]].width - 1) :
                       m \in {n \in at \X Blocks : valid(n[1], n[2])}}
              \cup {ValidAt(s, m[1], m[2]) : m \in {n \in at \X Blocks : s[n[1]].nullable /\ valid(n[1], n[2])}}
              \cup {PresentAt(s, b) : b \in {c \in Blocks : present(c)}}
  IN  [p \in DOMAIN bits |-> IF p \in used THEN bits[p] ELSE 0]

FixedIds(s) == {s[i].id : i \in {j \in DOMAIN s : s[j].width > 0}}
RequirePendingFits(st, ids) ==
  \A b \in Blocks : BlockPresent(Current, st, b) =>
    \A id \in ids : PendingFits(id, DecodeBlockColumns(Current, st, b)[id])

\* A whole-chunk write of the payload a client sent, a repeated pattern of bits: padding, absent
\* blocks and NULLs need not be zero.  Values of blocks it makes absent go.
ApplyChunkState(payload, present) ==
  LET sent == [p \in BitsOf(Current) |->
                 IF p < PresentAt(Current, 0) THEN payload[(p % Len(payload)) + 1]
                 ELSE IF p - PresentAt(Current, 0) \in present THEN 1 ELSE 0]
      after == [bits |-> ClearEmptyValues(Current, sent),
                vars |-> Restrict(mem.vars, {k \in DOMAIN mem.vars : k[2] \in present})]
      value(b, id) ==
        IF id \in FixedIds(Current) THEN DecodeColumn(Current, [after EXCEPT !.bits = sent], b, IndexOfId(Current, id))
        ELSE IF rows[b] = Absent THEN UnsetValues(Current)[id] ELSE rows[b][id]
  IN  /\ Idle /\ RequirePendingFits(after, FixedIds(Current)) /\ after # mem
      /\ rows' = [b \in Blocks |-> IF b \in present THEN [id \in Ids(Current) |-> value(b, id)] ELSE Absent]
      /\ Stage(after, WholeSpans(Current, mem, after))

\* A transaction's copy, edited twice, committed as the difference after the chunk's batch.
CommitTxn(e, f) ==
  LET one == Edited(Current, mem, e)
      after == Edited(Current, one, f)
  IN  /\ Idle /\ MayEdit(Current, mem, e) /\ MayEdit(Current, one, f)
      /\ RequirePendingFits(after, Ids(Current)) /\ RequireVarWrite(mem.vars, after.vars) /\ after # mem
      /\ clock' = clock + 1 /\ rev' = clock' /\ mem' = after
      /\ rows' = LET r == [rows EXCEPT ![e.b] = RowAfter(@, e)] IN [r EXCEPT ![f.b] = RowAfter(@, f)]
      /\ wal' = (wal \o batch) \o <<Frame(clock', mem, after, DiffSpans(Current, mem, after))>>
      /\ batch' = <<>> /\ staged' = <<>> /\ kept' = rows'
      /\ Counted
      /\ UNCHANGED <<plan, schema, pending, image, pc>>

FlushWalBatch ==
  /\ pc = "up" /\ batch # <<>>
  /\ wal' = wal \o batch /\ batch' = <<>> /\ staged' = <<>> /\ kept' = rows
  /\ UNCHANGED <<plan, schema, pending, mem, rev, clock, image, pc, rows, count>>

\* CheckpointChunk up to its image: an empty chunk's last frame is flushed and its image removed.
PublishImage ==
  LET empty == \A b \in Blocks : ~BlockPresent(Current, mem, b)
      last == IF image = NoImage THEN <<>> ELSE <<EmptyFrame(clock + 1, Current)>>
  IN  /\ pc = "up" /\ (wal # <<>> \/ batch # <<>>)
      /\ IF empty
         THEN /\ wal' = (wal \o batch) \o last /\ batch' = <<>> /\ staged' = <<>>
              /\ clock' = clock + Len(last)
              /\ image' = NoImage
         ELSE /\ image' = [rev |-> rev, version |-> schema, st |-> mem]
              /\ UNCHANGED <<wal, batch, staged, clock>>
      /\ kept' = rows
      /\ pc' = "published"
      /\ UNCHANGED <<plan, schema, pending, mem, rev, rows, count>>

RemoveWal ==
  /\ pc = "published"
  /\ wal' = <<>> /\ batch' = <<>> /\ staged' = <<>> /\ pc' = "up"
  /\ UNCHANGED <<plan, schema, pending, mem, rev, clock, image, rows, kept, count>>

\* The removal fails: the image stays beside the WAL, and the batch is still staged.
KeepWal ==
  /\ pc = "published" /\ plan.halves /\ MayStop
  /\ pc' = "up" /\ Stopped
  /\ staged' = [n \in DOMAIN batch |-> rows]
  /\ UNCHANGED <<plan, schema, pending, mem, rev, clock, batch, wal, image, rows, kept>>

\* The process ends, between two calls or while it appends the batch: n frames are whole, and the
\* next one may be there in part.
Crash ==
  \E n \in 0..Len(batch), torn \in BOOLEAN :
    /\ pc # "down" /\ MayStop
    /\ pc = "published" => plan.halves /\ n = 0 /\ ~torn
    /\ torn => n < Len(batch)
    /\ wal' = wal \o SubSeq(batch, 1, n) \o (IF torn THEN <<[batch[n + 1] EXCEPT !.cut = TRUE]>> ELSE <<>>)
    /\ kept' = IF n = 0 THEN kept ELSE staged[n]
    /\ rows' = kept'
    /\ batch' = <<>> /\ staged' = <<>> /\ pc' = "down" /\ Stopped
    /\ UNCHANGED <<plan, schema, pending, mem, rev, clock, image>>

\* The next load trims a torn tail before it appends.
Reload ==
  /\ pc = "down"
  /\ \E loaded \in {Load(wal, schema)} :
       /\ loaded.ok
       /\ mem' = loaded.st /\ rev' = loaded.rev /\ wal' = SubSeq(wal, 1, loaded.end)
  /\ pc' = "up"
  /\ UNCHANGED <<plan, schema, pending, clock, batch, image, rows, staged, kept, count>>

\* The store closes, which flushes its chunks, and opens at the next version.
NextSchema ==
  LET file == wal \o batch
      next == plan.schemas[schema + 1]
      value(b, id) ==
        LET c == next[IndexOfId(next, id)]
        IN  IF id \in Ids(Current) THEN ConvertValue(c, rows[b][id]) ELSE FallbackOf(c)
  IN  /\ pc = "up" /\ schema < Len(plan.schemas)
      /\ schema' = schema + 1 /\ pending' = FALSE
      /\ wal' = file /\ batch' = <<>> /\ staged' = <<>>
      /\ mem' = Load(file, schema + 1).st
      /\ rows' = [b \in Blocks |-> IF rows[b] = Absent THEN Absent ELSE [id \in Ids(next) |-> value(b, id)]]
      /\ kept' = rows'
      /\ UNCHANGED <<plan, rev, clock, image, pc, count>>

Narrows == schema < Len(plan.schemas) /\ schema + 1 \in plan.narrowed
Alter == ~Narrows /\ NextSchema

\* A narrowing is announced, checked against every value, and then made or given up.
StartNarrowing ==
  /\ pc = "up" /\ Narrows /\ ~pending
  /\ pending' = TRUE
  /\ UNCHANGED <<plan, schema, mem, rev, clock, batch, wal, image, pc, rows, staged, kept, count>>

FinishNarrowing == pc = "up" /\ pending /\ RequirePendingFits(mem, Ids(Current)) /\ NextSchema

GiveUpNarrowing ==
  /\ pc = "up" /\ pending /\ ~RequirePendingFits(mem, Ids(Current)) /\ MayStop
  /\ pending' = FALSE /\ Stopped
  /\ UNCHANGED <<plan, schema, mem, rev, clock, batch, wal, image, pc, rows, staged, kept>>

Next ==
  \/ \E e \in plan.edits : WriteBlock(e) \/ FailBlock(e)
  \/ \E w \in plan.wholes : ApplyChunkState(w.payload, w.present)
  \/ \E t \in plan.txns : CommitTxn(t[1], t[2])
  \/ FlushWalBatch \/ PublishImage \/ RemoveWal \/ KeepWal \/ Crash \/ Reload
  \/ Alter \/ StartNarrowing \/ FinishNarrowing \/ GiveUpNarrowing

Spec == Init /\ [][Next]_vars

(***************************************************************************)
(* Properties.                                                             *)
(***************************************************************************)
\* The chunk holds for every block what its writers wrote, through shared bytes, rejected writes,
\* whole-chunk writes, transactions, schema versions and loads, and nothing beside it: padding,
\* absent blocks and NULLs are zero (block_ops.cpp, chunk_layout.cpp).
RowsAsWritten ==
  pc # "down" =>
    /\ \A b \in Blocks : BlockInState(Current, mem, b) = rows[b]
    /\ mem.bits = ClearEmptyValues(Current, mem.bits)
    /\ RequireValidVars(Current, mem)

\* At any moment the image and the WAL load to the last state that reached them: over no image, an
\* older or a newer one, with a torn tail and with frames of older schema versions; and a frame
\* damaged before the last one is never passed over (wal_replay.cpp, chunk_cache.cpp).
FilesReplay ==
  /\ \E loaded \in {Load(wal, schema)} :
       /\ loaded.ok
       /\ \A b \in Blocks : BlockInState(Current, loaded.st, b) = kept[b]
       /\ pc = "up" /\ batch = <<>> => loaded.st = mem
  /\ \A n \in 1..(Len(wal) - 1) : ~wal[n + 1].cut => ~Load([wal EXCEPT ![n].cut = TRUE], schema).ok
=============================================================================
