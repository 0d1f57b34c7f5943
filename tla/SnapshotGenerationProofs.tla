---------------------- MODULE SnapshotGenerationProofs ----------------------
(***************************************************************************)
(* A copy that a read-only process keeps is what the files hold whenever a  *)
(* reader would take its generation for the stable one: through guards that *)
(* finish and guards that are abandoned, closes, deaths of writers and      *)
(* recoveries, for any chunks, writers, readers and bounds.                 *)
(*                                                                          *)
(* A generation is current (Cur) when it is the even session of the record  *)
(* or the even counter of the mapped file.  Files change only while none is *)
(* current, and the one that becomes current afterwards is above every      *)
(* generation that was ever observed (Bound).  So a generation that was     *)
(* observed and is current has been current since, and the files have not   *)
(* changed under it.                                                        *)
(***************************************************************************)
EXTENDS SnapshotGeneration, FiniteSetTheorems, SequenceTheorems, TLAPS

Counters == [session : Nat, epoch : Nat, count : Nat, failed : BOOLEAN, odd : BOOLEAN]
State == Nat \X Nat
Pairs == [image : State, wal : State]
Locks == [owner : Writers \cup {Nobody}, lease : Writers \cup {Nobody}, probes : SUBSET Readers]
Stores == [there : BOOLEAN, id : Nat, live : Nat]
PlaceNames == {"none", "owner", "tested", "lease", "live", "recovering", "serving", "closed"}
Places == [at : PlaceNames, session : Int]
Ops == [at : {"idle", "image", "wal", "repair", "finish"}, from : Nat]
Generations == Int \X Int
Subs == {"record", "probe", "drop", "map", "load"}
Ats == {"idle", "now", "store", "before", "image", "wal", "after", "parse", "done"}
Reads == [at : Ats, sub : Subs, chunk : Chunks, session : Int,
          inode : Nat, before : Generations, image : State, wal : State, first : BOOLEAN,
          attempt : Int, result : State]
Copies == [gen : Generations, state : State]
Openings == [at : {"closed", "probe", "again", "open"}, id : Nat, seen : BOOLEAN, session : Int]

TypeOK ==
  /\ store \in Stores /\ store.live \in 0..Len(lives)
  /\ record \in Nat \cup {NoRecord}
  /\ lives \in Seq(Counters)
  /\ art \in [Chunks -> Pairs]
  /\ lock \in Locks
  /\ writer \in [Writers -> Places]
  /\ op \in [Chunks -> Ops]

Session == IF record = NoRecord THEN 0 ELSE record

\* The owner lock and the lease are held by the writer that is past them.
LocksHeld ==
  /\ \A p \in Writers :
       /\ lock.owner = p <=> writer[p].at # "none"
       /\ lock.lease = p <=> writer[p].at \in {"lease", "live", "recovering", "serving", "closed"}
       /\ writer[p].at # "none" => store.there
  /\ ~store.there => record = NoRecord

\* The mapped file is of the writer's session; the record follows it.
Placed(w) ==
  w.at \in {"live", "recovering", "serving"} =>
    /\ store.live # 0 /\ Live.session = w.session
    /\ w.at = "live" => Session < Live.session
    /\ w.at # "live" => record = Live.session
    /\ w.at # "serving" => Live.odd /\ Live.count = 0 /\ ~Live.failed /\ Live.epoch = 0
Sessions ==
  /\ \A i \in 1..Len(lives) : lives[i].session % 2 = 1
  /\ \A p \in Writers : Placed(writer[p])

\* The counter counts the guards, a repair being a second guard of its chunk,
\* and is odd while there is one.  Until one is abandoned, the torn files are
\* those of the changes half way.
Guards == {c \in Chunks : op[c].at # "idle"}
Repairs == {c \in Chunks : op[c].at = "repair"}
Half(c) ==
  /\ Torn(c) => op[c].at \in {"wal", "repair"}
  /\ op[c].at = "wal" => art[c].image = Next_(art[c].wal)
Guarded ==
  /\ ~Serving => Guards = {}
  /\ Serving =>
       /\ Live.count = Cardinality(Guards) + Cardinality(Repairs)
       /\ Guards # {} \/ Live.failed => Live.odd
       /\ ~Live.failed => \A c \in Chunks : Half(c)

\* Files are whole while a generation is current.
Whole ==
  (Session % 2 = 0 \/ (store.live # 0 /\ ~Live.odd)) => \A c \in Chunks : ~Torn(c)

WorldInv == TypeOK /\ LocksHeld /\ Sessions /\ Guarded /\ Whole

OnDisk == opened.at = "open" /\ StillOnDisk

Cur(g) ==
  \/ Session % 2 = 0 /\ g = <<Session, 0>>
  \/ store.live # 0 /\ ~Live.odd /\ g = <<Live.session, Live.epoch>>
Bound(g) ==
  /\ g[1] <= Session
  /\ store.live # 0 /\ g[1] = Live.session => g[2] <= Live.epoch
  /\ g[1] % 2 = 0 => g[2] = 0

\* A kept copy whose generation is current is what the files hold.
Kept(k, c) ==
  /\ Bound(k.gen)
  /\ Cur(k.gen) => art[c] = [image |-> k.state, wal |-> k.state]

\* So is what a read has collected when the generation it began with is current.
Bracket(q) ==
  /\ q.at \in {"image", "wal", "after", "parse"} => Bound(q.before)
  /\ q.at = "wal" /\ Cur(q.before) => q.image = art[q.chunk].image
  /\ q.at \in {"after", "parse"} /\ Cur(q.before) =>
       q.image = q.wal /\ art[q.chunk] = [image |-> q.image, wal |-> q.image]

\* A read that is about to load the counter has mapped the file of a session
\* that is the writer's or has been left behind.
Mapped(q) ==
  /\ q.at \notin {"now", "before", "after"} => q.sub = "record"
  /\ q.sub \in {"probe", "map", "load"} => q.session <= Session
  /\ q.sub = "load" =>
       /\ store.live # 0 /\ q.inode \in 1..Len(lives) /\ lives[q.inode].session = q.session
       /\ q.inode = store.live \/ Live.session > q.session

ReadsSound ==
  /\ kept \in [Chunks -> Copies]
  /\ \A c \in Chunks : Kept(kept[c], c)
  /\ reader \in [Readers -> Reads]
  /\ \A r \in Readers : Bracket(reader[r]) /\ Mapped(reader[r])

\* A store that is replaced never comes back, and nothing more is asked of its
\* readers.
ReadInv ==
  /\ opened \in Openings
  /\ opened.at # "closed" => opened.id <= store.id
  /\ opened.at # "open" => kept = [c \in Chunks |-> NoCopy] /\ reader = [r \in Readers |-> NoRead]
  /\ OnDisk => ReadsSound

IInv == WorldInv /\ ReadInv

-----------------------------------------------------------------------------
(* The counter, and the sequence of the mapped files. *)

\* What a guard that is opened does to the counter.
LEMMA EnteredFacts ==
  ASSUME NEW l \in Counters
  PROVE  /\ Entered(l) \in Counters
         /\ Entered(l).session = l.session /\ Entered(l).epoch = l.epoch
         /\ Entered(l).count = l.count + 1 /\ Entered(l).failed = l.failed
         /\ Entered(l).odd = TRUE
<1>1. l.count + 1 \in Nat
  BY SMTT(30) DEF Counters
<1> QED
  BY <1>1, Zenon DEF Entered, Counters

\* What a guard that finishes does to it: the last one begins an epoch.
LEMMA LeftFacts ==
  ASSUME NEW l \in Counters, l.count > 0
  PROVE  /\ Left(l) \in Counters
         /\ Left(l).session = l.session /\ Left(l).count = l.count - 1
         /\ Left(l).failed = l.failed
         /\ l.count = 1 /\ ~l.failed => Left(l).odd = FALSE /\ Left(l).epoch = l.epoch + 1
         /\ ~(l.count = 1 /\ ~l.failed) => Left(l).odd = l.odd /\ Left(l).epoch = l.epoch
<1>1. l.count - 1 \in Nat /\ l.epoch + 1 \in Nat /\ 0 \in Nat /\ (l.count = 1 => l.count - 1 = 0)
  BY SMTT(30) DEF Counters
<1>2. CASE l.count = 1 /\ ~l.failed
  BY <1>1, <1>2, Zenon DEF Left, Counters
<1>3. CASE ~(l.count = 1 /\ ~l.failed)
  BY <1>1, <1>3, Zenon DEF Left, Counters
<1> QED
  BY <1>2, <1>3, Zenon

\* What a repair that fails does to it: two guards go, and it has failed.
LEMMA AbandonedFacts ==
  ASSUME NEW l \in Counters, l.count > 1
  PROVE  LET a == Abandoned(Abandoned(l, FALSE), TRUE) IN
         /\ a \in Counters
         /\ a.session = l.session /\ a.epoch = l.epoch /\ a.count = l.count - 2
         /\ a.failed = TRUE /\ a.odd = TRUE
<1>1. ASSUME NEW b \in BOOLEAN, NEW k \in Counters, k.count > 0
      PROVE  /\ Abandoned(k, b) \in Counters
             /\ Abandoned(k, b).session = k.session /\ Abandoned(k, b).epoch = k.epoch
             /\ Abandoned(k, b).count = k.count - 1
             /\ b => Abandoned(k, b).failed = TRUE /\ Abandoned(k, b).odd = TRUE
  <2>1. k.count - 1 \in Nat
    BY <1>1, SMTT(30) DEF Counters
  <2> QED
    BY <1>1, <2>1, Zenon DEF Abandoned, Counters
<1>2. /\ Abandoned(l, FALSE) \in Counters
      /\ Abandoned(l, FALSE).session = l.session /\ Abandoned(l, FALSE).epoch = l.epoch
      /\ Abandoned(l, FALSE).count = l.count - 1 /\ Abandoned(l, FALSE).count > 0
  <2>1. l.count > 0 /\ l.count - 1 > 0
    BY SMTT(30) DEF Counters
  <2> QED
    BY <1>1, <2>1, Zenon
<1>3. (l.count - 1) - 1 = l.count - 2
  BY SMTT(30) DEF Counters
<1> QED
  BY <1>1, <1>2, <1>3, Zenon

\* The mapped file that is named is one of the sequence.
LEMMA LiveIsCounter ==
  ASSUME TypeOK, store.live # 0
  PROVE  Live \in Counters /\ store.live \in 1..Len(lives)
<1>1. store.live \in 1..Len(lives)
  BY SMTT(30) DEF TypeOK, Stores
<1> QED
  BY <1>1, ElementOfSeq, Zenon DEF TypeOK, Live

\* A store to the counter changes the mapped file that is named, and no other.
LEMMA SetLiveFacts ==
  ASSUME TypeOK, store.live # 0, NEW l \in Counters, SetLive(l), UNCHANGED store
  PROVE  /\ lives' \in Seq(Counters) /\ Len(lives') = Len(lives)
         /\ Live' = l
         /\ \A i \in 1..Len(lives) : lives'[i] = IF i = store.live THEN l ELSE lives[i]
<1>1. store.live \in 1..Len(lives)
  BY LiveIsCounter, Zenon
<1>2. lives \in Seq(Counters)
  BY Zenon DEF TypeOK
<1>3. lives' = [lives EXCEPT ![store.live] = l]
  BY Zenon DEF SetLive
<1>4. /\ lives' \in Seq(Counters) /\ Len(lives') = Len(lives)
      /\ \A i \in 1..Len(lives) : lives'[i] = IF i = store.live THEN l ELSE lives[i]
  BY <1>1, <1>2, <1>3, ExceptSeq, SMTT(30)
<1>5. Live' = l
  BY <1>1, <1>4, SMTT(30) DEF Live
<1> QED
  BY <1>4, <1>5, Zenon

-----------------------------------------------------------------------------
(* What every step of the writers' side does to the generations. *)

\* The store stays, every generation that is bound stays bound, and one that is
\* bound and current after the step was current before it, over the same files.
Advance ==
  /\ OnDisk
  /\ \A g \in Generations : Bound(g) => Bound(g)'
  /\ \A g \in Generations : Bound(g) /\ Cur(g)' => Cur(g) /\ art' = art
  /\ Session <= Session'
  /\ \A i \in 1..Len(lives) : i \in 1..Len(lives') /\ lives'[i].session = lives[i].session
  /\ store.live # 0 => /\ store.live' # 0
                       /\ store.live' = store.live \/ Live.session' > Session

\* A step that leaves the files alone.
LEMMA SameFiles ==
  ASSUME TypeOK, UNCHANGED <<store, record, lives, art, opened>>, OnDisk'
  PROVE  Advance
<1>1. OnDisk /\ Session' = Session /\ Live' = Live
  BY Zenon DEF OnDisk, StillOnDisk, Session, Live
<1>2. \A g : Bound(g)' = Bound(g) /\ Cur(g)' = Cur(g)
  BY <1>1, Zenon DEF Bound, Cur
<1>3. Session \in Int
  BY SMTT(30) DEF TypeOK, Session, NoRecord
<1> QED
  BY <1>1, <1>2, <1>3, SMTT(30) DEF Advance

\* A change of files while the session and the counter are odd.
LEMMA FilesMove ==
  ASSUME TypeOK, UNCHANGED <<store, record, lives, opened>>, OnDisk',
         Session % 2 = 1, Live.odd
  PROVE  Advance
<1>1. OnDisk /\ Session' = Session /\ Live' = Live
  BY Zenon DEF OnDisk, StillOnDisk, Session, Live
<1>2. \A g : Bound(g)' = Bound(g)
  BY <1>1, Zenon DEF Bound
<1>3. Session \in Int
  BY SMTT(30) DEF TypeOK, Session, NoRecord
<1>4. \A g : ~Cur(g)'
  BY <1>1, SMTT(30) DEF Cur
<1> QED
  BY <1>1, <1>2, <1>3, <1>4, SMTT(30) DEF Advance

\* A store to the counter that leaves it odd or begins an epoch, under the odd
\* session of the record.
LEMMA CounterMoves ==
  ASSUME TypeOK, UNCHANGED <<store, record, opened>>, OnDisk', store.live # 0,
         record = Live.session, Live.session % 2 = 1,
         NEW l \in Counters, SetLive(l), l.session = Live.session, l.epoch >= Live.epoch,
         l.odd \/ l.epoch > Live.epoch
  PROVE  Advance
<1>1. OnDisk /\ Session' = Session
  BY Zenon DEF OnDisk, StillOnDisk, Session
<1>2. /\ Live' = l /\ Live \in Counters /\ Len(lives') = Len(lives)
      /\ \A i \in 1..Len(lives) : lives'[i] = IF i = store.live THEN l ELSE lives[i]
  BY SetLiveFacts, LiveIsCounter, Zenon
<1>3. Session = Live.session /\ Session \in Nat /\ Live.epoch \in Nat /\ l.epoch \in Nat
  BY <1>2, SMTT(30) DEF Session, NoRecord, Counters
<1>4. \A g \in Generations : Bound(g) => Bound(g)'
  BY <1>1, <1>2, <1>3, SMTT(30) DEF Bound, Generations
<1>5. ASSUME NEW g \in Generations, Bound(g) PROVE ~Cur(g)'
  <2>1. store.live # 0 /\ g[1] = Live.session => g[2] <= Live.epoch
    BY <1>5, Zenon DEF Bound
  <2>2. Session' % 2 # 0
    BY <1>1, <1>3, SMTT(30)
  <2>3. ~(~l.odd /\ g = <<l.session, l.epoch>>)
    BY <1>3, <2>1, SMTT(30)
  <2> QED
    BY <1>2, <2>2, <2>3, Zenon DEF Cur
<1>6. \A i \in 1..Len(lives) : i \in 1..Len(lives') /\ lives'[i].session = lives[i].session
  BY <1>2, SMTT(30) DEF Live
<1>7. Session <= Session'
  BY <1>1, <1>3, SMTT(30)
<1> QED
  BY <1>1, <1>4, <1>5, <1>6, <1>7, Zenon DEF Advance


-----------------------------------------------------------------------------
(* The writers. *)

\* A process that holds the owner lock, or takes it, is the only writer; what a
\* step makes of its place is what it makes of the locks and sessions.
Holding == {"lease", "live", "recovering", "serving", "closed"}
LEMMA WriterMoves ==
  ASSUME TypeOK, LocksHeld, NEW p \in Writers, NEW w \in Places,
         writer' = [writer EXCEPT ![p] = w],
         lock.owner \in {p, Nobody}, store.there, store'.there = TRUE,
         lock'.owner = IF w.at # "none" THEN p ELSE Nobody,
         lock'.lease = IF w.at \in Holding THEN p ELSE Nobody,
         Placed(w)'
  PROVE  /\ writer' \in [Writers -> Places]
         /\ LocksHeld'
         /\ \A q \in Writers : Placed(writer[q])'
         /\ Serving' <=> w.at = "serving"
<1>1. writer \in [Writers -> Places]
  BY Zenon DEF TypeOK
<1>2. /\ writer' \in [Writers -> Places] /\ writer'[p] = w
      /\ \A q \in Writers : q # p => writer'[q] = writer[q]
  BY <1>1, Zenon
<1>3. ASSUME NEW q \in Writers, q # p PROVE writer[q].at = "none"
  <2>1. lock.owner # q
    BY <1>3, SnapshotAssumption, Zenon
  <2> QED
    BY <2>1, Zenon DEF LocksHeld
<1>4. "none" \notin {"live", "recovering", "serving"} /\ "none" \notin Holding
  BY Zenon DEF Holding
<1>5. \A q \in Writers : Placed(writer[q])'
  <2>1. SUFFICES ASSUME NEW q \in Writers, q # p PROVE Placed(writer[q])'
    BY <1>2, Zenon DEF Placed
  <2> QED
    BY <1>2, <1>3, <1>4, <2>1, Zenon DEF Placed
<1>6. Serving' <=> w.at = "serving"
  BY <1>2, <1>3, Zenon DEF Serving, At
<1>7. ASSUME NEW q \in Writers
      PROVE  /\ lock'.owner = q <=> writer'[q].at # "none"
             /\ lock'.lease = q <=> writer'[q].at \in Holding
  <2>1. CASE q = p
    BY <1>2, <1>4, <2>1, SnapshotAssumption, Zenon
  <2>2. CASE q # p
    <3>1. writer'[q].at = "none"
      BY <1>2, <1>3, <2>2, Zenon
    <3>2. lock'.owner # q /\ lock'.lease # q
      BY <2>2, SnapshotAssumption, Zenon
    <3> QED
      BY <1>4, <3>1, <3>2, Zenon
  <2> QED
    BY <2>1, <2>2, Zenon
<1>8. LocksHeld'
  BY <1>7, Zenon DEF LocksHeld, Holding
<1> QED
  BY <1>2, <1>5, <1>6, <1>8, Zenon

\* Where a writer goes, its session the same.
LEMMA GoFacts ==
  ASSUME TypeOK, NEW p \in Writers, NEW at \in PlaceNames, Go(p, at)
  PROVE  \E w \in Places : /\ writer' = [writer EXCEPT ![p] = w]
                           /\ w.at = at /\ w.session = writer[p].session
<1>1. writer \in [Writers -> Places] /\ writer[p] \in Places
  BY Zenon DEF TypeOK
<1>2. [writer[p] EXCEPT !.at = at] \in Places
  BY <1>1, Zenon DEF Places
<1>3. [writer[p] EXCEPT !.at = at].at = at /\ [writer[p] EXCEPT !.at = at].session = writer[p].session
  BY <1>1, Zenon DEF Places
<1>4. writer' = [writer EXCEPT ![p] = [writer[p] EXCEPT !.at = at]]
  BY Zenon DEF Go
<1> QED
  BY <1>2, <1>3, <1>4, Zenon

LEMMA NoWriterFacts == NoWriter \in Places /\ NoWriter.at = "none"
<1>1. NoRecord \in Int
  BY SMTT(30) DEF NoRecord
<1> QED
  BY <1>1, Zenon DEF NoWriter, Places, PlaceNames

\* The locks after an exchange, and after a release.
LEMMA OwnerSet ==
  ASSUME TypeOK, NEW o \in Writers \cup {Nobody}
  PROVE  /\ [lock EXCEPT !.owner = o] \in Locks
         /\ [lock EXCEPT !.owner = o].owner = o
         /\ [lock EXCEPT !.owner = o].lease = lock.lease
  BY Zenon DEF TypeOK, Locks

LEMMA LeaseSet ==
  ASSUME TypeOK, NEW o \in Writers \cup {Nobody}
  PROVE  /\ [lock EXCEPT !.lease = o] \in Locks
         /\ [lock EXCEPT !.lease = o].lease = o
         /\ [lock EXCEPT !.lease = o].owner = lock.owner
  BY Zenon DEF TypeOK, Locks

LEMMA ReleasedFacts ==
  ASSUME TypeOK, LocksHeld, NEW p \in Writers, lock.owner = p
  PROVE  /\ Released(p) \in Locks
         /\ Released(p).owner = Nobody /\ Released(p).lease = Nobody
<1>1. lock \in Locks
  BY Zenon DEF TypeOK
<1>2. lock.lease \in Writers \cup {Nobody}
  BY <1>1, Zenon DEF Locks
<1>3. ASSUME NEW q \in Writers, lock.lease = q PROVE q = p
  BY <1>3, Zenon DEF LocksHeld
<1>4. /\ Released(p) \in Locks
      /\ Released(p).owner = Nobody
      /\ Released(p).lease = IF lock.lease = p THEN Nobody ELSE lock.lease
  BY <1>1, Zenon DEF Released, Locks
<1> QED
  BY <1>2, <1>3, <1>4, Zenon

\* The lease is held by the owner, or by no one.
LEMMA LeaseOfOwner ==
  ASSUME TypeOK, LocksHeld
  PROVE  lock.lease \in {lock.owner, Nobody} /\ lock.owner \in Writers \cup {Nobody}
<1>1. lock.lease \in Writers \cup {Nobody} /\ lock.owner \in Writers \cup {Nobody}
  BY Zenon DEF TypeOK, Locks
<1>2. ASSUME NEW q \in Writers, lock.lease = q PROVE q = lock.owner
  BY <1>2, Zenon DEF LocksHeld
<1> QED
  BY <1>1, <1>2, Zenon

-----------------------------------------------------------------------------
(* The steps of a writer. *)

\* What a step owes: the invariant of the writers' side, and to the readers of
\* the store that stays Advance.
Owed == WorldInv' /\ (OnDisk' => Advance)

\* A writer that moves outside the span of its session leaves the files alone.
LEMMA QuietMove ==
  ASSUME WorldInv, NEW p \in Writers, NEW w \in Places,
         writer' = [writer EXCEPT ![p] = w],
         w.at \in {"none", "owner", "tested", "lease"},
         lock.owner \in {p, Nobody}, store.there,
         lock' \in Locks,
         lock'.owner = IF w.at # "none" THEN p ELSE Nobody,
         lock'.lease = IF w.at \in Holding THEN p ELSE Nobody,
         op' \in [Chunks -> Ops], Guards' = {},
         UNCHANGED <<Files, opened>>
  PROVE  Owed
<1>1. TypeOK /\ LocksHeld
  BY Zenon DEF WorldInv
<1>2. store' = store /\ record' = record /\ lives' = lives /\ art' = art /\ opened' = opened
  BY Zenon DEF Files
<1>3. w.at \notin {"live", "recovering", "serving"} /\ w.at # "serving"
  BY Zenon
<1>4. Placed(w)'
  BY <1>3, Zenon DEF Placed
<1>5. store'.there = TRUE
  BY <1>1, <1>2, Zenon DEF TypeOK, Stores
<1>6. /\ writer' \in [Writers -> Places] /\ LocksHeld'
      /\ \A q \in Writers : Placed(writer[q])'
      /\ ~Serving'
  BY <1>1, <1>3, <1>4, <1>5, WriterMoves, Zenon
<1>7. TypeOK'
  BY <1>1, <1>2, <1>6, Zenon DEF TypeOK
<1>8. Sessions'
  BY <1>2, <1>6, Zenon DEF WorldInv, Sessions
<1>9. Guarded'
  BY <1>6, Zenon DEF Guarded
<1>10. Whole'
  BY <1>2, Zenon DEF WorldInv, Whole, Session, Live, Torn
<1>11. OnDisk' => Advance
  BY <1>1, <1>2, SameFiles, Zenon
<1> QED
  BY <1>6, <1>7, <1>8, <1>9, <1>10, <1>11, Zenon DEF Owed, WorldInv

\* The facts about a writer past the owner lock, and about one that serves.
LEMMA OwnerFacts ==
  ASSUME WorldInv, NEW p \in Writers, writer[p].at # "none"
  PROVE  /\ lock.owner = p /\ store.there
         /\ lock.lease = p <=> writer[p].at \in Holding
         /\ lock.lease # p => lock.lease = Nobody
         /\ lock \in Locks
         /\ Serving => writer[p].at = "serving"
<1>1. TypeOK /\ LocksHeld
  BY Zenon DEF WorldInv
<1>2. lock.owner = p /\ store.there /\ (lock.lease = p <=> writer[p].at \in Holding)
  BY <1>1, Zenon DEF LocksHeld, Holding
<1>3. lock.lease # p => lock.lease = Nobody
  BY <1>1, <1>2, LeaseOfOwner, Zenon
<1>4. ASSUME NEW q \in Writers, writer[q].at = "serving" PROVE q = p
  BY <1>1, <1>2, <1>4, Zenon DEF LocksHeld
<1> QED
  BY <1>1, <1>2, <1>3, <1>4, Zenon DEF TypeOK, Serving, At

LEMMA SameOps ==
  ASSUME WorldInv, UNCHANGED op
  PROVE  /\ op' \in [Chunks -> Ops] /\ Guards' = Guards /\ Repairs' = Repairs
         /\ ~Serving => Guards' = {}
  BY Zenon DEF WorldInv, TypeOK, Guards, Repairs, Guarded

\* A step that changes none of the writers' side.
LEMMA WorldStays ==
  ASSUME WorldInv, UNCHANGED <<Files, writer, op>>,
         lock' \in Locks, lock'.owner = lock.owner, lock'.lease = lock.lease
  PROVE  WorldInv'
<1>1. /\ store' = store /\ record' = record /\ lives' = lives /\ art' = art /\ writer' = writer
      /\ op' = op
  BY Zenon DEF Files
<1>2. Session' = Session /\ Live' = Live /\ Serving' = Serving /\ Guards' = Guards /\ Repairs' = Repairs
  BY <1>1, Zenon DEF Session, Live, Serving, At, Guards, Repairs
<1>3. TypeOK'
  BY <1>1, Zenon DEF WorldInv, TypeOK
<1>4. LocksHeld'
  BY <1>1, Zenon DEF WorldInv, LocksHeld
<1>5. Sessions'
  BY <1>1, <1>2, Zenon DEF WorldInv, Sessions, Placed
<1>6. Guarded'
  BY <1>1, <1>2, Zenon DEF WorldInv, Guarded, Half, Torn
<1>7. Whole'
  BY <1>1, <1>2, Zenon DEF WorldInv, Whole, Torn
<1> QED
  BY <1>3, <1>4, <1>5, <1>6, <1>7, Zenon DEF WorldInv

LEMMA NoMove ==
  ASSUME WorldInv, UNCHANGED <<Files, writer, op, opened>>,
         lock' \in Locks, lock'.owner = lock.owner, lock'.lease = lock.lease
  PROVE  Owed
<1>1. store' = store /\ record' = record /\ lives' = lives /\ art' = art /\ opened' = opened
  BY Zenon DEF Files
<1>2. OnDisk' => Advance
  BY <1>1, SameFiles, Zenon DEF WorldInv
<1> QED
  BY <1>2, WorldStays, Zenon DEF Owed

LEMMA TakeOwnerHolds ==
  ASSUME WorldInv, NEW p \in Writers, TakeOwner(p)
  PROVE  Owed
<1>1. /\ At(p, "none") /\ store.there /\ UNCHANGED <<Files, op, opened>>
      /\ OwnerFree => lock' = [lock EXCEPT !.owner = p] /\ Go(p, "owner")
      /\ ~OwnerFree => UNCHANGED <<lock, writer>>
  BY Zenon DEF TakeOwner, ReadSide
<1>2. TypeOK /\ LocksHeld /\ lock \in Locks
  BY Zenon DEF WorldInv, TypeOK
<1>3. CASE ~OwnerFree
  BY <1>1, <1>2, <1>3, NoMove, Zenon
<1>4. CASE OwnerFree
  <2>1. lock.owner = Nobody
    BY <1>4, Zenon DEF OwnerFree
  <2>2. lock.lease = Nobody
    BY <1>2, <2>1, LeaseOfOwner, Zenon
  <2>3. PICK w \in Places : writer' = [writer EXCEPT ![p] = w] /\ w.at = "owner"
    <3>1. "owner" \in PlaceNames /\ Go(p, "owner")
      BY <1>1, <1>4, Zenon DEF PlaceNames
    <3> QED
      BY <1>2, <3>1, GoFacts, ZenonT(60)
  <2>4. lock' \in Locks /\ lock'.owner = p /\ lock'.lease = Nobody
    <3>1. p \in Writers \cup {Nobody} /\ lock' = [lock EXCEPT !.owner = p]
      BY <1>1, <1>4, Zenon
    <3> QED
      BY <1>2, <2>2, <3>1, OwnerSet, Zenon
  <2>5. "owner" \notin Holding /\ "owner" # "none"
    BY Zenon DEF Holding
  <2>6. ~Serving
    <3>1. ASSUME NEW q \in Writers PROVE writer[q].at # "serving"
      BY <1>2, <2>1, SnapshotAssumption, Zenon DEF LocksHeld
    <3> QED
      BY <3>1, Zenon DEF Serving, At
  <2>7. op' \in [Chunks -> Ops] /\ Guards' = {}
    BY <1>1, <2>6, SameOps, Zenon
  <2> QED
    BY <1>1, <2>1, <2>3, <2>4, <2>5, <2>7, QuietMove, Zenon
<1> QED
  BY <1>3, <1>4, Zenon

LEMMA TestLeaseHolds ==
  ASSUME WorldInv, NEW p \in Writers, TestLease(p)
  PROVE  Owed
<1>1. /\ writer[p].at = "owner" /\ UNCHANGED <<Files, op, opened>>
      /\ lock.lease = Nobody => Go(p, "tested") /\ UNCHANGED lock
      /\ lock.lease # Nobody => Go(p, "none") /\ lock' = [lock EXCEPT !.owner = Nobody]
  BY Zenon DEF TestLease, At, ReadSide
<1>2. TypeOK /\ LocksHeld
  BY Zenon DEF WorldInv
<1>3. lock.owner = p /\ store.there /\ lock.lease = Nobody /\ lock \in Locks /\ ~Serving
  <2>1. "owner" # "none" /\ "owner" \notin Holding /\ "owner" # "serving"
    BY Zenon DEF Holding
  <2> QED
    BY <1>1, <2>1, OwnerFacts, Zenon
<1>4. PICK w \in Places : writer' = [writer EXCEPT ![p] = w] /\ w.at = "tested"
  <2>1. "tested" \in PlaceNames /\ Go(p, "tested")
    BY <1>1, <1>3, Zenon DEF PlaceNames
  <2> QED
    BY <1>2, <2>1, GoFacts, ZenonT(60)
<1>5. "tested" \notin Holding /\ "tested" # "none"
  BY Zenon DEF Holding
<1>6. op' \in [Chunks -> Ops] /\ Guards' = {}
  BY <1>1, <1>3, SameOps, Zenon
<1> QED
  BY <1>1, <1>3, <1>4, <1>5, <1>6, QuietMove, Zenon

LEMMA WaitForExclusiveHolds ==
  ASSUME WorldInv, NEW p \in Writers, WaitForExclusive(p)
  PROVE  Owed
<1>1. writer[p].at = "tested" /\ UNCHANGED <<Files, op, opened>>
  BY Zenon DEF WaitForExclusive, At, ReadSide
<1>2. TypeOK /\ LocksHeld
  BY Zenon DEF WorldInv
<1>3. lock.owner = p /\ store.there /\ lock.lease = Nobody /\ lock \in Locks /\ ~Serving
  <2>1. "tested" # "none" /\ "tested" \notin Holding /\ "tested" # "serving"
    BY Zenon DEF Holding
  <2> QED
    BY <1>1, <2>1, OwnerFacts, Zenon
<1>4. op' \in [Chunks -> Ops] /\ Guards' = {}
  BY <1>1, <1>3, SameOps, Zenon
<1>5. CASE lock' = [lock EXCEPT !.lease = p] /\ Go(p, "lease")
  <2>1. PICK w \in Places : writer' = [writer EXCEPT ![p] = w] /\ w.at = "lease"
    <3>1. "lease" \in PlaceNames /\ Go(p, "lease")
      BY <1>5, Zenon DEF PlaceNames
    <3> QED
      BY <1>2, <3>1, GoFacts, ZenonT(60)
  <2>2. lock' \in Locks /\ lock'.owner = p /\ lock'.lease = p
    <3>1. p \in Writers \cup {Nobody} /\ lock' = [lock EXCEPT !.lease = p]
      BY <1>5, Zenon
    <3> QED
      BY <1>2, <1>3, <3>1, LeaseSet, Zenon
  <2>3. "lease" \in Holding /\ "lease" # "none"
    BY Zenon DEF Holding
  <2> QED
    BY <1>1, <1>3, <1>4, <2>1, <2>2, <2>3, QuietMove, Zenon
<1>6. CASE lock' = [lock EXCEPT !.owner = Nobody] /\ Go(p, "none")
  <2>1. PICK w \in Places : writer' = [writer EXCEPT ![p] = w] /\ w.at = "none"
    <3>1. "none" \in PlaceNames /\ Go(p, "none")
      BY <1>6, Zenon DEF PlaceNames
    <3> QED
      BY <1>2, <3>1, GoFacts, ZenonT(60)
  <2>2. lock' \in Locks /\ lock'.owner = Nobody /\ lock'.lease = Nobody
    <3>1. Nobody \in Writers \cup {Nobody} /\ lock' = [lock EXCEPT !.owner = Nobody]
      BY <1>6, Zenon
    <3> QED
      BY <1>2, <1>3, <3>1, OwnerSet, Zenon
  <2>3. "none" \notin Holding
    BY Zenon DEF Holding
  <2> QED
    BY <1>1, <1>3, <1>4, <2>1, <2>2, <2>3, QuietMove, Zenon
<1> QED
  BY <1>5, <1>6, Zenon DEF WaitForExclusive

\* A process that is gone, its changes with it.
LEMMA ProcessGone ==
  ASSUME WorldInv, NEW p \in Writers, writer[p].at # "none",
         lock' = Released(p), writer' = [writer EXCEPT ![p] = NoWriter],
         op' \in [Chunks -> Ops], Guards' = {},
         UNCHANGED <<Files, opened>>
  PROVE  Owed
<1>1. TypeOK /\ LocksHeld
  BY Zenon DEF WorldInv
<1>2. lock.owner = p /\ store.there
  BY OwnerFacts, Zenon
<1>3. lock' \in Locks /\ lock'.owner = Nobody /\ lock'.lease = Nobody
  BY <1>1, <1>2, ReleasedFacts, Zenon
<1>4. "none" \notin Holding
  BY Zenon DEF Holding
<1> QED
  BY <1>2, <1>3, <1>4, NoWriterFacts, QuietMove, Zenon

LEMMA ReleaseLeaseHolds ==
  ASSUME WorldInv, NEW p \in Writers, ReleaseLease(p)
  PROVE  Owed
<1>1. /\ writer[p].at = "closed" /\ lock' = Released(p) /\ writer' = [writer EXCEPT ![p] = NoWriter]
      /\ UNCHANGED <<Files, op, opened>>
  BY Zenon DEF ReleaseLease, At, ReadSide
<1>2. writer[p].at # "none" /\ writer[p].at # "serving"
  BY <1>1, Zenon
<1>3. ~Serving
  BY <1>2, OwnerFacts, Zenon
<1>4. op' \in [Chunks -> Ops] /\ Guards' = {}
  BY <1>1, <1>3, SameOps, Zenon
<1> QED
  BY <1>1, <1>2, <1>4, ProcessGone, Zenon

LEMMA NoOpFacts == NoOp \in Ops /\ NoOp.at = "idle"
<1>1. 0 \in Nat
  BY SMTT(30)
<1> QED
  BY <1>1, Zenon DEF NoOp, Ops

LEMMA DieHolds ==
  ASSUME WorldInv, NEW p \in Writers, Die(p)
  PROVE  Owed
<1>1. /\ writer[p].at # "none" /\ lock' = Released(p) /\ writer' = [writer EXCEPT ![p] = NoWriter]
      /\ UNCHANGED <<Files, opened>>
      /\ writer[p].at = "serving" => op' = [c \in Chunks |-> NoOp]
      /\ writer[p].at # "serving" => op' = op
  BY Zenon DEF Die, At, ReadSide
<1>2. op' \in [Chunks -> Ops] /\ Guards' = {}
  <2>1. CASE writer[p].at = "serving"
    <3>1. op' = [c \in Chunks |-> NoOp]
      BY <1>1, <2>1, Zenon
    <3>2. \A c \in Chunks : op'[c].at = "idle"
      BY <3>1, NoOpFacts, Zenon
    <3> QED
      BY <3>1, <3>2, NoOpFacts, Zenon DEF Guards
  <2>2. CASE writer[p].at # "serving"
    <3>1. ~Serving
      BY <1>1, <2>2, OwnerFacts, Zenon
    <3> QED
      BY <1>1, <2>2, <3>1, SameOps, Zenon
  <2> QED
    BY <2>1, <2>2, Zenon
<1> QED
  BY <1>1, <1>2, ProcessGone, Zenon

-----------------------------------------------------------------------------
(* A session: the mapped file, the record, recovery, the close. *)

LEMMA SessionFacts ==
  ASSUME TypeOK
  PROVE  Session \in Nat /\ (record # NoRecord => Session = record)
  BY SMTT(30) DEF TypeOK, Session, NoRecord

\* A new session is odd and above the one of the record.
LEMMA RecoverySessionFacts ==
  ASSUME TypeOK
  PROVE  /\ RecoverySession(record) \in Nat
         /\ RecoverySession(record) % 2 = 1 /\ RecoverySession(record) > Session
<1>1. RecoverySession(record) = IF Session % 2 = 0 THEN Session + 1 ELSE Session + 2
  BY Zenon DEF RecoverySession, Session
<1> QED
  BY <1>1, SessionFacts, SMTT(30)

LEMMA FreshFacts ==
  ASSUME NEW s \in Nat
  PROVE  /\ Fresh(s) \in Counters /\ Fresh(s).session = s /\ Fresh(s).count = 0
         /\ Fresh(s).failed = FALSE /\ Fresh(s).odd = TRUE /\ Fresh(s).epoch = 0
<1>1. 0 \in Nat
  BY SMTT(30)
<1> QED
  BY <1>1, Zenon DEF Fresh, Counters

LEMMA InitializeLiveHolds ==
  ASSUME WorldInv, NEW p \in Writers, InitializeLive(p)
  PROVE  Owed
<1>1. TypeOK /\ LocksHeld /\ Sessions /\ Whole /\ Session \in Nat
  BY SessionFacts, Zenon DEF WorldInv
<1>2. PICK s \in Nat : s = RecoverySession(record) /\ s % 2 = 1 /\ s > Session
  BY <1>1, RecoverySessionFacts, Zenon
<1>3. PICK w \in Places : w = [at |-> "live", session |-> s] /\ w.at = "live" /\ w.session = s
  <2>1. s \in Int
    BY <1>2, SMTT(30)
  <2>2. /\ [at |-> "live", session |-> s] \in Places
        /\ [at |-> "live", session |-> s].at = "live" /\ [at |-> "live", session |-> s].session = s
    BY <2>1, Zenon DEF Places, PlaceNames
  <2> QED
    BY <2>2, Zenon
<1>4. /\ writer[p].at = "lease" /\ lives' = Append(lives, Fresh(s))
      /\ store' = [store EXCEPT !.live = Len(lives) + 1]
      /\ writer' = [writer EXCEPT ![p] = w]
      /\ UNCHANGED <<record, art, lock, op, opened>>
  BY <1>2, <1>3, Zenon DEF InitializeLive, At, ReadSide
<1>5. /\ Fresh(s) \in Counters /\ Fresh(s).session = s /\ Fresh(s).count = 0
      /\ Fresh(s).failed = FALSE /\ Fresh(s).odd = TRUE /\ Fresh(s).epoch = 0
  BY <1>2, FreshFacts, Zenon
<1>6. /\ lives \in Seq(Counters) /\ Len(lives) \in Nat
      /\ lives' \in Seq(Counters) /\ Len(lives') = Len(lives) + 1
      /\ \A i \in 1..Len(lives) : lives'[i] = lives[i]
      /\ lives'[Len(lives) + 1] = Fresh(s)
  <2>1. lives \in Seq(Counters)
    BY <1>1, Zenon DEF TypeOK
  <2>2. Len(lives) \in Nat
    BY <2>1, LenProperties, Zenon
  <2> QED
    BY <1>4, <1>5, <2>1, <2>2, AppendProperties, SMTT(30)
<1>7. /\ store' \in Stores /\ store'.there = store.there /\ store'.id = store.id
      /\ store'.live = Len(lives) + 1
  <2>1. Len(lives) + 1 \in Nat
    BY <1>6, SMTT(30)
  <2> QED
    BY <1>4, <1>1, <2>1, Zenon DEF TypeOK, Stores
<1>8. Live' = Fresh(s) /\ Session' = Session /\ store'.live # 0 /\ store'.live \in 0..Len(lives')
  <2>1. Live' = Fresh(s)
    BY <1>6, <1>7, Zenon DEF Live
  <2>2. Session' = Session
    BY <1>4, Zenon DEF Session
  <2>3. store'.live # 0 /\ store'.live \in 0..Len(lives')
    BY <1>6, <1>7, SMTT(30)
  <2> QED
    BY <2>1, <2>2, <2>3, Zenon
<1>9. Placed(w)'
  <2>1. Session' < Live'.session
    BY <1>2, <1>5, <1>8, SMTT(30)
  <2> QED
    BY <1>3, <1>5, <1>8, <2>1, Zenon DEF Placed
<1>10. lock.owner = p /\ store.there /\ lock.lease = p /\ lock \in Locks /\ ~Serving
  <2>1. "lease" # "none" /\ "lease" \in Holding /\ "lease" # "serving"
    BY Zenon DEF Holding
  <2> QED
    BY <1>4, <2>1, OwnerFacts, Zenon
<1>11. /\ writer' \in [Writers -> Places] /\ LocksHeld'
       /\ \A q \in Writers : Placed(writer[q])'
       /\ ~Serving'
  <2>1. "live" # "none" /\ "live" \in Holding /\ "live" # "serving"
    BY Zenon DEF Holding
  <2>2. store'.there = TRUE
    BY <1>1, <1>7, <1>10, Zenon DEF TypeOK, Stores
  <2> QED
    BY <1>4, <1>1, <1>3, <1>9, <1>10, <2>1, <2>2, WriterMoves, ZenonT(60)
<1>12. op' \in [Chunks -> Ops] /\ Guards' = {}
  BY <1>4, <1>10, SameOps, Zenon
<1>13. TypeOK'
  BY <1>4, <1>1, <1>6, <1>7, <1>8, <1>11, <1>12, Zenon DEF TypeOK
<1>14. Sessions'
  <2>1. \A i \in 1..Len(lives') : lives'[i].session % 2 = 1
    <3>1. \A i \in 1..Len(lives) : lives[i].session % 2 = 1
      BY <1>1, Zenon DEF Sessions
    <3> QED
      BY <1>2, <1>5, <1>6, <3>1, SMTT(30)
  <2> QED
    BY <1>11, <2>1, Zenon DEF Sessions
<1>15. Guarded'
  BY <1>11, <1>12, Zenon DEF Guarded
<1>16. Whole'
  BY <1>4, <1>1, <1>5, <1>8, Zenon DEF Whole, Torn
<1>17. ASSUME OnDisk' PROVE Advance
  <2>1. OnDisk
    BY <1>4, <1>7, <1>17, Zenon DEF OnDisk, StillOnDisk
  <2>2. ASSUME NEW g \in Generations, Bound(g) PROVE Bound(g)'
    <3>1. g[1] <= Session /\ (g[1] % 2 = 0 => g[2] = 0)
      BY <2>2, Zenon DEF Bound
    <3>2. g[1] # Live'.session
      BY <1>1, <1>2, <1>5, <1>8, <3>1, SMTT(30) DEF Generations
    <3> QED
      BY <1>8, <3>1, <3>2, Zenon DEF Bound
  <2>3. ASSUME NEW g \in Generations, Cur(g)' PROVE Cur(g)
    BY <1>5, <1>8, <2>3, Zenon DEF Cur
  <2>4. Session <= Session' /\ Live'.session > Session
    BY <1>1, <1>2, <1>5, <1>8, SMTT(30)
  <2>5. \A i \in 1..Len(lives) : i \in 1..Len(lives') /\ lives'[i].session = lives[i].session
    BY <1>6, SMTT(30)
  <2> QED
    BY <1>4, <1>8, <2>1, <2>2, <2>3, <2>4, <2>5, Zenon DEF Advance
<1> QED
  BY <1>11, <1>13, <1>14, <1>15, <1>16, <1>17, Zenon DEF Owed, WorldInv

\* A writer inside the span of its session.
LEMMA SpanFacts ==
  ASSUME WorldInv, NEW p \in Writers, writer[p].at \in {"live", "recovering", "serving"}
  PROVE  /\ lock.owner = p /\ lock.lease = p /\ store.there /\ lock \in Locks
         /\ store.live # 0 /\ Live \in Counters /\ Live.session = writer[p].session
         /\ Live.session % 2 = 1
         /\ writer[p].at = "live" => Session < Live.session
         /\ writer[p].at # "live" => record = Live.session /\ Session = Live.session
         /\ writer[p].at # "serving" =>
              Live.odd /\ Live.count = 0 /\ ~Live.failed /\ Live.epoch = 0 /\ ~Serving
<1>1. TypeOK /\ Sessions
  BY Zenon DEF WorldInv
<1>2. writer[p].at # "none" /\ writer[p].at \in Holding
  BY Zenon DEF Holding
<1>3. /\ lock.owner = p /\ lock.lease = p /\ store.there /\ lock \in Locks
      /\ Serving => writer[p].at = "serving"
  BY <1>2, OwnerFacts, Zenon
<1>4. /\ store.live # 0 /\ Live.session = writer[p].session
      /\ writer[p].at = "live" => Session < Live.session
      /\ writer[p].at # "live" => record = Live.session
      /\ writer[p].at # "serving" => Live.odd /\ Live.count = 0 /\ ~Live.failed /\ Live.epoch = 0
  BY <1>1, Zenon DEF Sessions, Placed
<1>5. Live \in Counters /\ store.live \in 1..Len(lives)
  BY <1>1, <1>4, LiveIsCounter, Zenon
<1>6. Live.session % 2 = 1
  BY <1>1, <1>5, Zenon DEF Sessions, Live
<1>7. record = Live.session => Session = Live.session
  <2>1. Live.session \in Nat
    BY <1>5, Zenon DEF Counters
  <2> QED
    BY <2>1, SMTT(30) DEF Session, NoRecord
<1> QED
  BY <1>3, <1>4, <1>5, <1>6, <1>7, Zenon

\* The record is replaced by the session of the mapped file, which is odd.
LEMMA RecordMoves ==
  ASSUME WorldInv, NEW p \in Writers, writer[p].at = "live",
         record' \in {record, writer[p].session}, UNCHANGED <<store, lives, art, opened>>
  PROVE  /\ Session <= Session' /\ Whole' /\ (OnDisk' => Advance)
         /\ record' \in Nat \cup {NoRecord}
         /\ record' = writer[p].session => record' = Live.session
<1>1. TypeOK /\ Whole /\ Session \in Nat
  BY SessionFacts, Zenon DEF WorldInv
<1>2. /\ store.live # 0 /\ Live \in Counters /\ Live.session = writer[p].session
      /\ Live.session % 2 = 1 /\ Session < Live.session /\ Live.odd
  BY SpanFacts, Zenon
<1>3. Live' = Live /\ store' = store /\ lives' = lives /\ art' = art
  BY Zenon DEF Live
<1>4. CASE record' = record
  BY <1>1, <1>2, <1>3, <1>4, SameFiles, SMTT(30) DEF Session, TypeOK, Whole, Torn
<1>5. CASE record' = writer[p].session
  <2>1. Session' = Live.session /\ Live.session \in Nat
    BY <1>2, <1>5, SMTT(30) DEF Session, NoRecord, Counters
  <2>2. Session <= Session' /\ Session' % 2 # 0
    BY <1>1, <1>2, <2>1, SMTT(30)
  <2>3. Whole'
    BY <1>2, <1>3, <2>2, Zenon DEF Whole
  <2>4. ASSUME OnDisk' PROVE Advance
    <3>1. OnDisk
      BY <1>3, <2>4, Zenon DEF OnDisk, StillOnDisk
    <3>2. ASSUME NEW g \in Generations, Bound(g) PROVE Bound(g)'
      <4>1. g[1] <= Session'
        BY <1>1, <2>1, <2>2, <3>2, SMTT(30) DEF Bound, Generations
      <4> QED
        BY <1>3, <3>2, <4>1, Zenon DEF Bound
    <3>3. \A g : ~Cur(g)'
      BY <1>2, <1>3, <2>2, Zenon DEF Cur
    <3>4. \A i \in 1..Len(lives) : i \in 1..Len(lives') /\ lives'[i].session = lives[i].session
      BY <1>3, Zenon
    <3> QED
      BY <1>3, <2>2, <3>1, <3>2, <3>3, <3>4, Zenon DEF Advance
  <2> QED
    BY <1>2, <1>5, <2>1, <2>2, <2>3, <2>4, Zenon
<1> QED
  BY <1>4, <1>5, Zenon

LEMMA PublishSessionHolds ==
  ASSUME WorldInv, NEW p \in Writers, PublishSession(p)
  PROVE  Owed
<1>1. writer[p].at = "live" /\ UNCHANGED <<store, lives, art, op, opened>>
  BY Zenon DEF PublishSession, At, ReadSide
<1>2. TypeOK /\ LocksHeld /\ Sessions
  BY Zenon DEF WorldInv
<1>3. /\ lock.owner = p /\ lock.lease = p /\ store.there /\ lock \in Locks /\ ~Serving
      /\ store.live # 0 /\ Live.session = writer[p].session
      /\ Live.odd /\ Live.count = 0 /\ ~Live.failed /\ Live.epoch = 0
  <2>1. "live" # "serving" /\ "live" \in {"live", "recovering", "serving"}
    BY Zenon
  <2> QED
    BY <1>1, <2>1, SpanFacts, Zenon
<1>4. op' \in [Chunks -> Ops] /\ Guards' = {}
  BY <1>1, <1>3, SameOps, Zenon
<1>5. Live' = Live /\ store' = store /\ lives' = lives /\ store'.there = TRUE
  BY <1>1, <1>2, <1>3, Zenon DEF Live, TypeOK, Stores
<1>6. ASSUME NEW w \in Places, writer' = [writer EXCEPT ![p] = w], w.at # "serving", Placed(w)',
             record' \in {record, writer[p].session}, lock' \in Locks,
             lock'.owner = IF w.at # "none" THEN p ELSE Nobody,
             lock'.lease = IF w.at \in Holding THEN p ELSE Nobody
      PROVE  Owed
  <2>1. Whole' /\ (OnDisk' => Advance) /\ record' \in Nat \cup {NoRecord}
    BY <1>1, <1>6, RecordMoves, Zenon
  <2>2. /\ writer' \in [Writers -> Places] /\ LocksHeld'
        /\ \A q \in Writers : Placed(writer[q])'
        /\ ~Serving'
    BY <1>2, <1>3, <1>5, <1>6, WriterMoves, Zenon
  <2>3. TypeOK'
    BY <1>1, <1>2, <1>4, <1>5, <1>6, <2>1, <2>2, Zenon DEF TypeOK
  <2>4. Sessions'
    BY <1>2, <1>5, <2>2, Zenon DEF Sessions
  <2>5. Guarded'
    BY <1>4, <2>2, Zenon DEF Guarded
  <2> QED
    BY <2>1, <2>2, <2>3, <2>4, <2>5, Zenon DEF Owed, WorldInv
<1>7. CASE record' = writer[p].session /\ Go(p, "recovering") /\ UNCHANGED lock
  <2>1. PICK w \in Places : /\ writer' = [writer EXCEPT ![p] = w]
                            /\ w.at = "recovering" /\ w.session = writer[p].session
    <3>1. "recovering" \in PlaceNames /\ Go(p, "recovering")
      BY <1>7, Zenon DEF PlaceNames
    <3> QED
      BY <1>2, <3>1, GoFacts, Zenon
  <2>2. Placed(w)'
    BY <1>3, <1>5, <1>7, <2>1, Zenon DEF Placed
  <2>3. "recovering" # "none" /\ "recovering" # "serving" /\ "recovering" \in Holding
    BY Zenon DEF Holding
  <2> QED
    BY <1>3, <1>6, <1>7, <2>1, <2>2, <2>3, Zenon
<1>8. CASE /\ record' \in {record, writer[p].session} /\ lock' = Released(p)
           /\ writer' = [writer EXCEPT ![p] = NoWriter]
  <2>1. PICK w \in Places : w = NoWriter /\ w.at = "none"
    BY NoWriterFacts, Zenon
  <2>2. Placed(w)' /\ w.at # "serving" /\ "none" \notin Holding
    BY <2>1, Zenon DEF Placed, Holding
  <2>3. lock' \in Locks /\ lock'.owner = Nobody /\ lock'.lease = Nobody
    BY <1>2, <1>3, <1>8, ReleasedFacts, Zenon
  <2> QED
    BY <1>6, <1>8, <2>1, <2>2, <2>3, Zenon
<1> QED
  BY <1>7, <1>8, Zenon DEF PublishSession

\* Chunk c's files after a step that writes them.
LEMMA ArtSet ==
  ASSUME TypeOK, NEW c \in Chunks, NEW a \in Pairs, art' = [art EXCEPT ![c] = a]
  PROVE  /\ art' \in [Chunks -> Pairs] /\ art'[c] = a
         /\ \A d \in Chunks : d # c => art'[d] = art[d]
  BY Zenon DEF TypeOK

LEMMA RecoverHolds ==
  ASSUME WorldInv, NEW p \in Writers, Recover(p)
  PROVE  Owed
<1>1. writer[p].at = "recovering" /\ UNCHANGED <<store, record, lives, lock, writer, op, opened>>
  BY Zenon DEF Recover, At, ReadSide
<1>2. TypeOK /\ LocksHeld /\ Sessions
  BY Zenon DEF WorldInv
<1>3. Live.session % 2 = 1 /\ Session = Live.session /\ Live.odd /\ ~Serving
  <2>1. /\ "recovering" # "serving" /\ "recovering" # "live"
        /\ "recovering" \in {"live", "recovering", "serving"}
    BY Zenon
  <2> QED
    BY <1>1, <2>1, SpanFacts, Zenon
<1>4. art' \in [Chunks -> Pairs]
  <2>1. PICK c \in Chunks : \E s \in {art[c].image, art[c].wal} :
                              art' = [art EXCEPT ![c] = [image |-> s, wal |-> s]]
    BY Zenon DEF Recover
  <2>2. PICK s \in {art[c].image, art[c].wal} : art' = [art EXCEPT ![c] = [image |-> s, wal |-> s]]
    BY <2>1, Zenon
  <2>3. art[c] \in Pairs
    BY <1>2, Zenon DEF TypeOK
  <2>4. s \in State
    BY <2>2, <2>3, Zenon DEF Pairs
  <2>5. [image |-> s, wal |-> s] \in Pairs
    BY <2>4, Zenon DEF Pairs
  <2> QED
    BY <1>2, <2>2, <2>5, Zenon DEF TypeOK
<1>5. Session' = Session /\ Live' = Live /\ Serving' = Serving /\ Guards' = Guards
  BY <1>1, Zenon DEF Session, Live, Serving, At, Guards
<1>6. TypeOK'
  BY <1>1, <1>2, <1>4, Zenon DEF TypeOK
<1>7. LocksHeld'
  BY <1>1, <1>2, Zenon DEF LocksHeld
<1>8. Sessions'
  BY <1>1, <1>2, <1>5, Zenon DEF Sessions, Placed
<1>9. Guarded'
  BY <1>3, <1>5, Zenon DEF WorldInv, Guarded
<1>10. Whole'
  <2>1. Session' % 2 # 0
    BY <1>3, <1>5, SMTT(30)
  <2> QED
    BY <1>3, <1>5, <2>1, Zenon DEF Whole
<1>11. OnDisk' => Advance
  <2>1. Session % 2 = 1
    BY <1>3, Zenon
  <2> QED
    BY <1>1, <1>2, <1>3, <2>1, FilesMove, Zenon
<1> QED
  BY <1>6, <1>7, <1>8, <1>9, <1>10, <1>11, Zenon DEF Owed, WorldInv

\* A store to the counter keeps the sessions of the mapped files.
LEMMA CounterSessions ==
  ASSUME TypeOK, Sessions, store.live # 0, NEW l \in Counters, SetLive(l), UNCHANGED store,
         l.session = Live.session
  PROVE  /\ lives' \in Seq(Counters) /\ Len(lives') = Len(lives) /\ Live' = l
         /\ \A i \in 1..Len(lives') : lives'[i].session % 2 = 1
<1>1. /\ lives' \in Seq(Counters) /\ Len(lives') = Len(lives) /\ Live' = l
      /\ \A i \in 1..Len(lives) : lives'[i] = IF i = store.live THEN l ELSE lives[i]
  BY SetLiveFacts, Zenon
<1>2. \A i \in 1..Len(lives) : lives[i].session % 2 = 1
  BY Zenon DEF Sessions
<1>3. \A i \in 1..Len(lives) : lives'[i].session = lives[i].session
  BY <1>1, Zenon DEF Live
<1> QED
  BY <1>1, <1>2, <1>3, Zenon

LEMMA FinishRecoveryHolds ==
  ASSUME WorldInv, NEW p \in Writers, FinishSnapshotGenerationRecovery(p)
  PROVE  Owed
<1>1. /\ writer[p].at = "recovering" /\ \A c \in Chunks : ~Torn(c)
      /\ SetLive([Live EXCEPT !.epoch = 1, !.odd = FALSE]) /\ Go(p, "serving")
      /\ UNCHANGED <<store, record, art, lock, op, opened>>
  BY Zenon DEF FinishSnapshotGenerationRecovery, At, ReadSide
<1>2. TypeOK /\ LocksHeld /\ Sessions
  BY Zenon DEF WorldInv
<1>3. /\ lock.owner = p /\ lock.lease = p /\ store.there /\ lock \in Locks /\ ~Serving
      /\ store.live # 0 /\ Live \in Counters /\ Live.session = writer[p].session
      /\ Live.session % 2 = 1 /\ record = Live.session
      /\ Live.odd /\ Live.count = 0 /\ ~Live.failed /\ Live.epoch = 0
  <2>1. /\ "recovering" # "serving" /\ "recovering" # "live"
        /\ "recovering" \in {"live", "recovering", "serving"}
    BY Zenon
  <2> QED
    BY <1>1, <2>1, SpanFacts, Zenon
<1>4. PICK l \in Counters :
        /\ l = [Live EXCEPT !.epoch = 1, !.odd = FALSE] /\ l.session = Live.session
        /\ l.epoch = 1 /\ l.count = 0 /\ l.failed = FALSE /\ l.odd = FALSE
  <2>1. 1 \in Nat
    BY SMTT(30)
  <2>2. LET l == [Live EXCEPT !.epoch = 1, !.odd = FALSE] IN
        /\ l \in Counters /\ l.session = Live.session
        /\ l.epoch = 1 /\ l.count = 0 /\ l.failed = FALSE /\ l.odd = FALSE
    BY <1>3, <2>1, Zenon DEF Counters
  <2> QED
    BY <2>2, Zenon
<1>5. /\ lives' \in Seq(Counters) /\ Len(lives') = Len(lives) /\ Live' = l
      /\ \A i \in 1..Len(lives') : lives'[i].session % 2 = 1
  BY <1>1, <1>2, <1>3, <1>4, CounterSessions, Zenon
<1>6. PICK w \in Places : /\ writer' = [writer EXCEPT ![p] = w]
                          /\ w.at = "serving" /\ w.session = writer[p].session
  <2>1. "serving" \in PlaceNames /\ Go(p, "serving")
    BY <1>1, Zenon DEF PlaceNames
  <2> QED
    BY <1>2, <2>1, GoFacts, Zenon
<1>7. Placed(w)'
  BY <1>1, <1>3, <1>4, <1>5, <1>6, Zenon DEF Placed
<1>8. /\ writer' \in [Writers -> Places] /\ LocksHeld'
      /\ \A q \in Writers : Placed(writer[q])'
      /\ Serving'
  <2>1. "serving" # "none" /\ "serving" \in Holding
    BY Zenon DEF Holding
  <2>2. store'.there = TRUE
    BY <1>1, <1>2, <1>3, Zenon DEF TypeOK, Stores
  <2> QED
    BY <1>1, <1>2, <1>3, <1>6, <1>7, <2>1, <2>2, WriterMoves, ZenonT(60)
<1>9. op' \in [Chunks -> Ops] /\ Guards' = {} /\ Repairs' = {}
  <2>1. op' \in [Chunks -> Ops] /\ Guards' = {}
    BY <1>1, <1>3, SameOps, Zenon
  <2>2. "repair" # "idle"
    BY Zenon
  <2> QED
    BY <2>1, <2>2, Zenon DEF Guards, Repairs
<1>10. TypeOK'
  BY <1>1, <1>2, <1>5, <1>8, <1>9, Zenon DEF TypeOK
<1>11. Sessions'
  BY <1>5, <1>8, Zenon DEF Sessions
<1>12. \A c \in Chunks : ~Torn(c)' /\ op'[c].at # "wal"
  <2>1. \A c \in Chunks : ~Torn(c)'
    BY <1>1, Zenon DEF Torn
  <2>2. "wal" # "idle"
    BY Zenon
  <2> QED
    BY <1>9, <2>1, <2>2, Zenon DEF Guards
<1>13. Guarded'
  <2>1. Live'.count = Cardinality(Guards') + Cardinality(Repairs')
    BY <1>4, <1>5, <1>9, FS_EmptySet, SMTT(30)
  <2> QED
    BY <1>4, <1>5, <1>8, <1>9, <1>12, <2>1, Zenon DEF Guarded, Half
<1>14. Whole'
  BY <1>12, Zenon DEF Whole
<1>15. OnDisk' => Advance
  <2>1. l.epoch >= Live.epoch /\ l.epoch > Live.epoch
    BY <1>3, <1>4, SMTT(30)
  <2> QED
    BY <1>1, <1>2, <1>3, <1>4, <2>1, CounterMoves, Zenon
<1> QED
  BY <1>8, <1>10, <1>11, <1>13, <1>14, <1>15, Zenon DEF Owed, WorldInv

LEMMA CloseHolds ==
  ASSUME WorldInv, NEW p \in Writers, CloseSnapshotGeneration(p)
  PROVE  Owed
<1>1. /\ writer[p].at = "serving" /\ \A c \in Chunks : op[c] = NoOp
      /\ record' = record \/ (Closable(Live) /\ record' = writer[p].session + 1)
      /\ Go(p, "closed") /\ UNCHANGED <<store, lives, art, lock, op, opened>>
  BY Zenon DEF CloseSnapshotGeneration, At, ReadSide
<1>2. TypeOK /\ LocksHeld /\ Sessions /\ Whole /\ Session \in Nat
  BY SessionFacts, Zenon DEF WorldInv
<1>3. /\ lock.owner = p /\ lock.lease = p /\ store.there /\ lock \in Locks
      /\ store.live # 0 /\ Live \in Counters /\ Live.session = writer[p].session
      /\ Session = Live.session
  <2>1. "serving" # "live" /\ "serving" \in {"live", "recovering", "serving"}
    BY Zenon
  <2> QED
    BY <1>1, <2>1, SpanFacts, Zenon
<1>4. PICK w \in Places : writer' = [writer EXCEPT ![p] = w] /\ w.at = "closed"
  <2>1. "closed" \in PlaceNames /\ Go(p, "closed")
    BY <1>1, Zenon DEF PlaceNames
  <2> QED
    BY <1>2, <2>1, GoFacts, ZenonT(60)
<1>5. /\ writer' \in [Writers -> Places] /\ LocksHeld'
      /\ \A q \in Writers : Placed(writer[q])'
      /\ ~Serving'
  <2>1. "closed" # "none" /\ "closed" # "serving" /\ "closed" \in Holding
    BY Zenon DEF Holding
  <2>2. store'.there = TRUE
    BY <1>1, <1>2, <1>3, Zenon DEF TypeOK, Stores
  <2>3. Placed(w)'
    BY <1>4, Zenon DEF Placed
  <2> QED
    BY <1>1, <1>2, <1>3, <1>4, <2>1, <2>2, <2>3, WriterMoves, Zenon
<1>6. op' \in [Chunks -> Ops] /\ Guards' = {}
  <2>1. op' \in [Chunks -> Ops] /\ Guards' = Guards
    BY <1>1, SameOps, Zenon
  <2> QED
    BY <1>1, <2>1, NoOpFacts, Zenon DEF Guards
<1>7. Guarded'
  BY <1>5, <1>6, Zenon DEF Guarded
<1>8. Live' = Live /\ store' = store /\ lives' = lives /\ art' = art /\ opened' = opened
  BY <1>1, Zenon DEF Live
<1>9. Sessions'
  BY <1>2, <1>5, <1>8, Zenon DEF Sessions
<1>10. CASE record' = record
  <2>1. TypeOK'
    BY <1>1, <1>2, <1>5, <1>10, Zenon DEF TypeOK
  <2>2. Whole'
    BY <1>2, <1>8, <1>10, Zenon DEF Whole, Session, Torn
  <2>3. OnDisk' => Advance
    BY <1>2, <1>8, <1>10, SameFiles, Zenon
  <2> QED
    BY <1>5, <1>7, <1>9, <2>1, <2>2, <2>3, Zenon DEF Owed, WorldInv
<1>11. CASE Closable(Live) /\ record' = writer[p].session + 1
  <2>1. ~Live.odd
    BY <1>11, Zenon DEF Closable
  <2>2. record' \in Nat /\ Session' = record' /\ Session' = Session + 1
    BY <1>2, <1>3, <1>11, SMTT(30) DEF Session, NoRecord
  <2>3. TypeOK'
    BY <1>1, <1>2, <1>5, <2>2, Zenon DEF TypeOK
  <2>4. Whole'
    BY <1>2, <1>3, <1>8, <2>1, Zenon DEF Whole, Torn
  <2>5. ASSUME OnDisk' PROVE Advance
    <3>1. OnDisk
      BY <1>8, <2>5, Zenon DEF OnDisk, StillOnDisk
    <3>2. ASSUME NEW g \in Generations, Bound(g)
          PROVE  Bound(g)' /\ g # <<Session', 0>>
      <4>1. g[1] <= Session
        BY <3>2, Zenon DEF Bound
      <4>2. g[1] <= Session' /\ g[1] # Session'
        BY <1>2, <2>2, <4>1, SMTT(30) DEF Generations
      <4>3. Bound(g)'
        BY <1>8, <3>2, <4>2, Zenon DEF Bound
      <4>4. g # <<Session', 0>>
        BY <4>2, SMTT(30)
      <4> QED
        BY <4>3, <4>4, Zenon
    <3>3. ASSUME NEW g \in Generations, Bound(g), Cur(g)' PROVE Cur(g)
      BY <1>8, <3>2, <3>3, Zenon DEF Cur
    <3>4. Session <= Session'
      BY <1>2, <2>2, SMTT(30)
    <3>5. \A i \in 1..Len(lives) : i \in 1..Len(lives') /\ lives'[i].session = lives[i].session
      BY <1>8, Zenon
    <3> QED
      BY <1>8, <3>1, <3>2, <3>3, <3>4, <3>5, Zenon DEF Advance
  <2> QED
    BY <1>5, <1>7, <1>9, <2>3, <2>4, <2>5, Zenon DEF Owed, WorldInv
<1> QED
  BY <1>1, <1>10, <1>11, Zenon

-----------------------------------------------------------------------------
(* The changes under guards. *)

\* The number of the guards and of the repairs when one chunk's change moves.
LEMMA CardMoves ==
  ASSUME NEW S, IsFiniteSet(S), NEW c
  PROVE  /\ Cardinality(S) \in Nat
         /\ c \notin S => S \ {c} = S /\ Cardinality(S \cup {c}) = Cardinality(S) + 1
         /\ c \in S => /\ S \cup {c} = S /\ Cardinality(S \ {c}) = Cardinality(S) - 1
                       /\ Cardinality(S) > 0
                       /\ Cardinality(S) = 1 => S = {c}
<1>1. Cardinality(S) \in Nat
  BY FS_CardinalityType, Zenon
<1>2. c \notin S => S \ {c} = S /\ Cardinality(S \cup {c}) = Cardinality(S) + 1
  BY FS_AddElement, Zenon
<1>3. ASSUME c \in S
      PROVE  /\ S \cup {c} = S /\ Cardinality(S \ {c}) = Cardinality(S) - 1
             /\ Cardinality(S) > 0
             /\ Cardinality(S) = 1 => S = {c}
  <2>1. IsFiniteSet(S \ {c}) /\ Cardinality(S \ {c}) = Cardinality(S) - 1
    BY <1>3, FS_RemoveElement, Zenon
  <2>2. Cardinality(S \ {c}) \in Nat
    BY <2>1, FS_CardinalityType, Zenon
  <2>3. Cardinality(S) > 0 /\ (Cardinality(S) = 1 => Cardinality(S \ {c}) = 0)
    BY <1>1, <2>1, <2>2, SMTT(30)
  <2>4. Cardinality(S) = 1 => S \ {c} = {}
    BY <2>1, <2>3, FS_EmptySet, Zenon
  <2> QED
    BY <1>3, <2>1, <2>3, <2>4, Zenon
<1> QED
  BY <1>1, <1>2, <1>3, Zenon

LEMMA GuardSets ==
  /\ IsFiniteSet(Guards) /\ IsFiniteSet(Repairs) /\ Repairs \subseteq Guards
  /\ \A c : c \in Guards <=> c \in Chunks /\ op[c].at # "idle"
  /\ \A c : c \in Repairs <=> c \in Chunks /\ op[c].at = "repair"
<1>1. Guards \subseteq Chunks /\ Repairs \subseteq Chunks
  BY Zenon DEF Guards, Repairs
<1>2. "repair" # "idle"
  BY Zenon
<1>3. Repairs \subseteq Guards
  BY <1>2, Zenon DEF Guards, Repairs
<1>4. IsFiniteSet(Guards) /\ IsFiniteSet(Repairs)
  BY <1>1, SnapshotAssumption, FS_Subset, Zenon
<1> QED
  BY <1>3, <1>4, Zenon DEF Guards, Repairs

\* The change of chunk c moves to o.
LEMMA OpMoves ==
  ASSUME TypeOK, NEW c \in Chunks, NEW o \in Ops, op' = [op EXCEPT ![c] = o]
  PROVE  /\ op' \in [Chunks -> Ops] /\ op'[c] = o
         /\ \A d \in Chunks : d # c => op'[d] = op[d]
         /\ o.at = "idle" => Guards' = Guards \ {c} /\ Repairs' = Repairs \ {c}
         /\ o.at # "idle" => Guards' = Guards \cup {c}
         /\ o.at # "repair" => Repairs' = Repairs \ {c}
         /\ o.at = "repair" => Repairs' = Repairs \cup {c}
<1>1. /\ op' \in [Chunks -> Ops] /\ op'[c] = o
      /\ \A d \in Chunks : d # c => op'[d] = op[d]
  BY Zenon DEF TypeOK
<1>2. /\ Guards' = {d \in Chunks : op'[d].at # "idle"}
      /\ Repairs' = {d \in Chunks : op'[d].at = "repair"}
  BY Zenon DEF Guards, Repairs
<1>3. o.at = "idle" => Guards' = Guards \ {c}
  BY <1>1, <1>2, Zenon DEF Guards
<1>4. o.at # "idle" => Guards' = Guards \cup {c}
  BY <1>1, <1>2, Zenon DEF Guards
<1>5. o.at # "repair" => Repairs' = Repairs \ {c}
  BY <1>1, <1>2, Zenon DEF Repairs
<1>6. o.at = "repair" => Repairs' = Repairs \cup {c}
  BY <1>1, <1>2, Zenon DEF Repairs
<1>7. "idle" # "repair"
  BY Zenon
<1> QED
  BY <1>1, <1>3, <1>4, <1>5, <1>6, <1>7, Zenon

LEMMA StepFacts ==
  ASSUME TypeOK, NEW c \in Chunks, NEW at \in {"idle", "image", "wal", "repair", "finish"}, Step(c, at)
  PROVE  \E o \in Ops : op' = [op EXCEPT ![c] = o] /\ o.at = at
<1>1. op \in [Chunks -> Ops] /\ op[c] \in Ops
  BY Zenon DEF TypeOK
<1>2. [op[c] EXCEPT !.at = at] \in Ops /\ [op[c] EXCEPT !.at = at].at = at
  BY <1>1, Zenon DEF Ops
<1>3. op' = [op EXCEPT ![c] = [op[c] EXCEPT !.at = at]]
  BY Zenon DEF Step
<1> QED
  BY <1>2, <1>3, Zenon

\* While a writer serves, and while a guard is open.
LEMMA ServingFacts ==
  ASSUME WorldInv, Serving
  PROVE  /\ store.live # 0 /\ Live \in Counters
         /\ Live.session % 2 = 1 /\ record = Live.session /\ Session = Live.session
         /\ Session % 2 = 1
         /\ Live.count = Cardinality(Guards) + Cardinality(Repairs)
         /\ Guards # {} \/ Live.failed => Live.odd
         /\ ~Live.failed => \A d \in Chunks : Half(d)
<1>1. PICK p \in Writers : writer[p].at = "serving"
  BY Zenon DEF Serving, At
<1>2. /\ store.live # 0 /\ Live \in Counters
      /\ Live.session % 2 = 1 /\ record = Live.session /\ Session = Live.session
  <2>1. "serving" # "live" /\ "serving" \in {"live", "recovering", "serving"}
    BY Zenon
  <2> QED
    BY <1>1, <2>1, SpanFacts, Zenon
<1> QED
  BY <1>2, Zenon DEF WorldInv, Guarded

LEMMA GuardServes ==
  ASSUME WorldInv, NEW c \in Chunks, op[c].at # "idle"
  PROVE  Serving /\ Live.odd
<1>1. c \in Guards
  BY Zenon DEF Guards
<1>2. Serving
  BY <1>1, Zenon DEF WorldInv, Guarded
<1> QED
  BY <1>1, <1>2, Zenon DEF WorldInv, Guarded

\* A change under a guard that stores l to the counter.
LEMMA GuardMoves ==
  ASSUME WorldInv, Serving, NEW l \in Counters, SetLive(l),
         UNCHANGED <<store, record, lock, writer, opened>>,
         l.session = Live.session, l.epoch >= Live.epoch, l.odd \/ l.epoch > Live.epoch,
         art' \in [Chunks -> Pairs], op' \in [Chunks -> Ops],
         l.count = Cardinality(Guards') + Cardinality(Repairs'),
         Guards' # {} \/ l.failed => l.odd,
         ~l.failed => \A d \in Chunks : Half(d)',
         ~l.odd => \A d \in Chunks : ~Torn(d)'
  PROVE  Owed
<1>1. TypeOK /\ LocksHeld /\ Sessions
  BY Zenon DEF WorldInv
<1>2. /\ store.live # 0 /\ Live \in Counters
      /\ Live.session % 2 = 1 /\ record = Live.session /\ Session = Live.session
      /\ Session % 2 = 1
  BY ServingFacts, Zenon
<1>3. /\ lives' \in Seq(Counters) /\ Len(lives') = Len(lives) /\ Live' = l
      /\ \A i \in 1..Len(lives') : lives'[i].session % 2 = 1
  BY <1>1, <1>2, CounterSessions, Zenon
<1>4. Serving' = Serving /\ Session' = Session
  BY Zenon DEF Serving, At, Session
<1>5. TypeOK'
  BY <1>1, <1>3, Zenon DEF TypeOK
<1>6. LocksHeld'
  BY <1>1, Zenon DEF LocksHeld
<1>7. ASSUME NEW q \in Writers PROVE Placed(writer[q])'
  <2>1. Placed(writer[q])
    BY <1>1, Zenon DEF Sessions
  <2>2. writer[q].at \notin {"live", "recovering"}
    <3>1. PICK p \in Writers : writer[p].at = "serving"
      BY Zenon DEF Serving, At
    <3>2. writer[q].at # "none" => q = p
      BY <1>1, <3>1, ZenonT(60) DEF LocksHeld
    <3> QED
      BY <3>1, <3>2, Zenon
  <2> QED
    BY <1>2, <1>3, <1>4, <2>1, <2>2, ZenonT(60) DEF Placed
<1>8. Sessions'
  BY <1>3, <1>7, Zenon DEF Sessions
<1>9. Guarded'
  BY <1>3, <1>4, Zenon DEF Guarded
<1>10. Whole'
  <2>1. Session' % 2 # 0
    BY <1>2, <1>4, SMTT(30)
  <2> QED
    BY <1>3, <2>1, Zenon DEF Whole
<1>11. OnDisk' => Advance
  BY <1>1, <1>2, CounterMoves, Zenon
<1> QED
  BY <1>5, <1>6, <1>8, <1>9, <1>10, <1>11, Zenon DEF Owed, WorldInv

LEMMA SameLive ==
  ASSUME TypeOK, store.live # 0, UNCHANGED lives
  PROVE  SetLive(Live)
<1>1. lives \in Seq(Counters) /\ store.live \in 1..Len(lives)
  BY LiveIsCounter, Zenon DEF TypeOK
<1>2. lives = [lives EXCEPT ![store.live] = lives[store.live]]
  BY <1>1, SMTT(30)
<1> QED
  BY <1>2, Zenon DEF SetLive, Live

LEMMA BeginHolds ==
  ASSUME WorldInv, NEW c \in Chunks, BeginSnapshotGenerationWrite(c)
  PROVE  Owed
<1>1. /\ Serving /\ op[c] = NoOp /\ ~IsFailed(Live) /\ SetLive(Entered(Live))
      /\ op' = [op EXCEPT ![c] = [at |-> "image", from |-> art[c].image[2]]]
      /\ UNCHANGED <<store, record, art, lock, writer, opened>>
  BY Zenon DEF BeginSnapshotGenerationWrite, ReadSide
<1>2. /\ TypeOK /\ Live \in Counters /\ ~Live.failed
      /\ Live.count = Cardinality(Guards) + Cardinality(Repairs)
      /\ \A d \in Chunks : Half(d)
  BY <1>1, ServingFacts, Zenon DEF WorldInv, IsFailed
<1>3. PICK l \in Counters :
        /\ l = Entered(Live) /\ l.session = Live.session /\ l.epoch = Live.epoch
        /\ l.count = Live.count + 1 /\ l.failed = Live.failed /\ l.odd = TRUE
  BY <1>2, EnteredFacts, Zenon
<1>4. PICK o \in Ops : op' = [op EXCEPT ![c] = o] /\ o.at = "image"
  <2>1. art[c] \in Pairs
    BY <1>2, Zenon DEF TypeOK
  <2>2. art[c].image[2] \in Nat
    BY <2>1, SMTT(30) DEF Pairs, State
  <2>3. LET o == [at |-> "image", from |-> art[c].image[2]] IN o \in Ops /\ o.at = "image"
    BY <2>2, Zenon DEF Ops
  <2> QED
    BY <1>1, <2>3, Zenon
<1>5. /\ op' \in [Chunks -> Ops] /\ op'[c] = o /\ \A d \in Chunks : d # c => op'[d] = op[d]
      /\ Guards' = Guards \cup {c} /\ Repairs' = Repairs \ {c}
  <2>1. "image" # "idle" /\ "image" # "repair"
    BY Zenon
  <2> QED
    BY <1>2, <1>4, <2>1, OpMoves, Zenon
<1>6. c \notin Guards /\ c \notin Repairs
  BY <1>1, NoOpFacts, GuardSets, Zenon
<1>7. l.count = Cardinality(Guards') + Cardinality(Repairs')
  <2>1. /\ Cardinality(Guards') = Cardinality(Guards) + 1 /\ Repairs' = Repairs
        /\ Cardinality(Guards) \in Nat /\ Cardinality(Repairs) \in Nat
    BY <1>5, <1>6, GuardSets, CardMoves, Zenon
  <2> QED
    BY <1>2, <1>3, <2>1, SMTT(30)
<1>8. ASSUME NEW d \in Chunks PROVE Half(d)'
  <2>1. Half(d) /\ art' = art
    BY <1>1, <1>2, Zenon
  <2>2. CASE d = c
    <3>1. "image" # "wal" /\ "idle" \notin {"wal", "repair"}
      BY Zenon
    <3> QED
      BY <1>1, <1>4, <1>5, <2>1, <2>2, <3>1, NoOpFacts, ZenonT(60) DEF Half, Torn
  <2>3. CASE d # c
    BY <1>5, <2>1, <2>3, Zenon DEF Half, Torn
  <2> QED
    BY <2>2, <2>3, Zenon
<1>9. l.epoch >= Live.epoch /\ SetLive(l) /\ art' \in [Chunks -> Pairs]
  <2>1. l.epoch >= Live.epoch
    BY <1>2, <1>3, SMTT(30) DEF Counters
  <2> QED
    BY <1>1, <1>2, <1>3, <2>1, Zenon DEF TypeOK
<1> QED
  BY <1>1, <1>3, <1>5, <1>7, <1>8, <1>9, GuardMoves, ZenonT(60)

\* A change in progress, of files whose counter it leaves alone.
LEMMA FileChange ==
  ASSUME WorldInv, NEW c \in Chunks, op[c].at \notin {"idle", "repair"},
         UNCHANGED <<store, record, lives, lock, writer, opened>>,
         art' \in [Chunks -> Pairs], \A d \in Chunks : d # c => art'[d] = art[d],
         NEW o \in Ops, op' = [op EXCEPT ![c] = o], o.at \notin {"idle", "repair"},
         ~Live.failed => Half(c)'
  PROVE  Owed
<1>1. TypeOK /\ op[c].at # "idle" /\ op[c].at # "repair" /\ o.at # "idle" /\ o.at # "repair"
  BY Zenon DEF WorldInv
<1>2. Serving /\ Live.odd
  BY <1>1, GuardServes, Zenon
<1>3. /\ store.live # 0 /\ Live \in Counters
      /\ Live.count = Cardinality(Guards) + Cardinality(Repairs)
      /\ ~Live.failed => \A d \in Chunks : Half(d)
  BY <1>2, ServingFacts, Zenon
<1>4. PICK l \in Counters : l = Live
  BY <1>3, Zenon
<1>5. SetLive(l)
  BY <1>1, <1>3, <1>4, SameLive, Zenon
<1>6. /\ op' \in [Chunks -> Ops] /\ op'[c] = o /\ \A d \in Chunks : d # c => op'[d] = op[d]
      /\ Guards' = Guards \cup {c} /\ Repairs' = Repairs \ {c}
  BY <1>1, OpMoves, Zenon
<1>7. Guards' = Guards /\ Repairs' = Repairs
  BY <1>1, <1>6, GuardSets, CardMoves, Zenon
<1>8. ASSUME ~l.failed, NEW d \in Chunks PROVE Half(d)'
  BY <1>3, <1>4, <1>6, <1>8, ZenonT(60) DEF Half, Torn
<1>9. l.epoch >= Live.epoch
  BY <1>3, <1>4, SMTT(30) DEF Counters
<1> QED
  BY <1>2, <1>3, <1>4, <1>5, <1>6, <1>7, <1>8, <1>9, GuardMoves, ZenonT(60)

LEMMA NextIsState ==
  ASSUME NEW s \in State
  PROVE  Next_(s) \in State
  BY SMTT(30) DEF Next_, State

LEMMA ChangeImageHolds ==
  ASSUME WorldInv, NEW c \in Chunks, ChangeImage(c)
  PROVE  Owed
<1>1. /\ op[c].at = "image" /\ Step(c, "wal")
      /\ art' = [art EXCEPT ![c] = [art[c] EXCEPT !.image = Next_(art[c].image)]]
      /\ UNCHANGED <<store, record, lives, lock, writer, opened>>
  BY Zenon DEF ChangeImage, ReadSide
<1>2. TypeOK /\ art[c] \in Pairs
  BY Zenon DEF WorldInv, TypeOK
<1>3. PICK o \in Ops : op' = [op EXCEPT ![c] = o] /\ o.at = "wal"
  <2>1. "wal" \in {"idle", "image", "wal", "repair", "finish"}
    BY Zenon
  <2> QED
    BY <1>1, <1>2, <2>1, StepFacts, Zenon
<1>4. PICK a \in Pairs : /\ a = [art[c] EXCEPT !.image = Next_(art[c].image)]
                         /\ a.image = Next_(art[c].image) /\ a.wal = art[c].wal
  <2>1. art[c].image \in State
    BY <1>2, Zenon DEF Pairs
  <2>2. Next_(art[c].image) \in State
    BY <2>1, NextIsState, Zenon
  <2>3. LET a == [art[c] EXCEPT !.image = Next_(art[c].image)] IN
        a \in Pairs /\ a.image = Next_(art[c].image) /\ a.wal = art[c].wal
    BY <1>2, <2>2, Zenon DEF Pairs
  <2> QED
    BY <2>3, Zenon
<1>5. /\ art' \in [Chunks -> Pairs] /\ art'[c] = a
      /\ \A d \in Chunks : d # c => art'[d] = art[d]
  BY <1>1, <1>2, <1>4, ArtSet, Zenon
<1>6. op'[c] = o
  BY <1>2, <1>3, OpMoves, Zenon
<1>7. "image" \notin {"idle", "repair"} /\ "wal" \notin {"idle", "repair"} /\ "image" \notin {"wal", "repair"}
  BY Zenon
<1>8. ASSUME ~Live.failed PROVE Half(c)'
  <2>1. Serving
    BY <1>1, <1>7, GuardServes, Zenon
  <2>2. Half(c)
    BY <1>8, <2>1, ServingFacts, Zenon
  <2>3. art[c].image = art[c].wal
    BY <1>1, <1>7, <2>2, Zenon DEF Half, Torn
  <2> QED
    BY <1>3, <1>4, <1>5, <1>6, <2>3, Zenon DEF Half
<1> QED
  BY <1>1, <1>3, <1>5, <1>7, <1>8, FileChange, ZenonT(60)

LEMMA ChangeWalHolds ==
  ASSUME WorldInv, NEW c \in Chunks, ChangeWal(c)
  PROVE  Owed
<1>1. op[c].at = "wal" /\ UNCHANGED <<store, record, lock, writer, opened>>
  BY Zenon DEF ChangeWal, ReadSide
<1>2. TypeOK /\ art[c] \in Pairs
  BY Zenon DEF WorldInv, TypeOK
<1>3. Serving /\ Live.odd
  <2>1. "wal" # "idle"
    BY Zenon
  <2> QED
    BY <1>1, <2>1, GuardServes, Zenon
<1>4. /\ store.live # 0 /\ Live \in Counters
      /\ Live.count = Cardinality(Guards) + Cardinality(Repairs)
      /\ ~Live.failed => \A d \in Chunks : Half(d)
  BY <1>3, ServingFacts, Zenon
<1>5. CASE art' = [art EXCEPT ![c].wal = Next_(@)] /\ Step(c, "finish") /\ UNCHANGED lives
  <2>1. PICK o \in Ops : op' = [op EXCEPT ![c] = o] /\ o.at = "finish"
    <3>1. "finish" \in {"idle", "image", "wal", "repair", "finish"}
      BY Zenon
    <3> QED
      BY <1>2, <1>5, <3>1, StepFacts, Zenon
  <2>2. PICK a \in Pairs : /\ a = [art[c] EXCEPT !.wal = Next_(art[c].wal)]
                           /\ a.image = art[c].image /\ a.wal = Next_(art[c].wal)
    <3>1. art[c].wal \in State
      BY <1>2, Zenon DEF Pairs
    <3>2. Next_(art[c].wal) \in State
      BY <3>1, NextIsState, Zenon
    <3>3. LET a == [art[c] EXCEPT !.wal = Next_(art[c].wal)] IN
          a \in Pairs /\ a.image = art[c].image /\ a.wal = Next_(art[c].wal)
      BY <1>2, <3>2, Zenon DEF Pairs
    <3> QED
      BY <3>3, Zenon
  <2>3. art' = [art EXCEPT ![c] = a]
    BY <1>5, <2>2, Zenon
  <2>4. /\ art' \in [Chunks -> Pairs] /\ art'[c] = a
        /\ \A d \in Chunks : d # c => art'[d] = art[d]
    BY <1>2, <2>3, ArtSet, Zenon
  <2>5. op'[c] = o
    BY <1>2, <2>1, OpMoves, Zenon
  <2>6. "wal" \notin {"idle", "repair"} /\ "finish" \notin {"idle", "repair"} /\ "finish" # "wal"
    BY Zenon
  <2>7. ASSUME ~Live.failed PROVE Half(c)'
    <3>1. art[c].image = Next_(art[c].wal)
      BY <1>1, <1>4, <2>7, Zenon DEF Half
    <3> QED
      BY <2>1, <2>2, <2>4, <2>5, <2>6, <3>1, Zenon DEF Half, Torn
  <2> QED
    BY <1>1, <1>5, <2>1, <2>4, <2>6, <2>7, FileChange, ZenonT(60)
<1>6. CASE SetLive(Entered(Live)) /\ Step(c, "repair") /\ UNCHANGED art
  <2>1. PICK o \in Ops : op' = [op EXCEPT ![c] = o] /\ o.at = "repair"
    <3>1. "repair" \in {"idle", "image", "wal", "repair", "finish"}
      BY Zenon
    <3> QED
      BY <1>2, <1>6, <3>1, StepFacts, Zenon
  <2>2. PICK l \in Counters :
          /\ l = Entered(Live) /\ l.session = Live.session /\ l.epoch = Live.epoch
          /\ l.count = Live.count + 1 /\ l.failed = Live.failed /\ l.odd = TRUE
    BY <1>4, EnteredFacts, Zenon
  <2>3. /\ op' \in [Chunks -> Ops] /\ op'[c] = o /\ \A d \in Chunks : d # c => op'[d] = op[d]
        /\ Guards' = Guards \cup {c} /\ Repairs' = Repairs \cup {c}
    <3>1. "repair" # "idle"
      BY Zenon
    <3> QED
      BY <1>2, <2>1, <3>1, OpMoves, Zenon
  <2>4. c \in Guards /\ c \notin Repairs
    <3>1. "wal" # "idle" /\ "wal" # "repair"
      BY Zenon
    <3> QED
      BY <1>1, <3>1, GuardSets, Zenon
  <2>5. l.count = Cardinality(Guards') + Cardinality(Repairs')
    <3>1. /\ Cardinality(Repairs') = Cardinality(Repairs) + 1 /\ Guards' = Guards
          /\ Cardinality(Guards) \in Nat /\ Cardinality(Repairs) \in Nat
      BY <2>3, <2>4, GuardSets, CardMoves, Zenon
    <3> QED
      BY <1>4, <2>2, <3>1, SMTT(30)
  <2>6. ASSUME ~l.failed, NEW d \in Chunks PROVE Half(d)'
    <3>1. Half(d) /\ art' = art
      BY <1>4, <1>6, <2>2, <2>6, Zenon
    <3>2. CASE d = c
      <4>1. "repair" # "wal" /\ "repair" \in {"wal", "repair"}
        BY Zenon
      <4> QED
        BY <2>1, <2>3, <3>2, <4>1, Zenon DEF Half
    <3>3. CASE d # c
      BY <2>3, <3>1, <3>3, Zenon DEF Half, Torn
    <3> QED
      BY <3>2, <3>3, Zenon
  <2>7. l.epoch >= Live.epoch /\ SetLive(l) /\ art' \in [Chunks -> Pairs]
    <3>1. l.epoch >= Live.epoch
      BY <1>4, <2>2, SMTT(30) DEF Counters
    <3> QED
      BY <1>2, <1>6, <2>2, <3>1, Zenon DEF TypeOK
  <2> QED
    BY <1>1, <1>3, <2>2, <2>3, <2>5, <2>6, <2>7, GuardMoves, ZenonT(60)
<1> QED
  BY <1>5, <1>6, Zenon DEF ChangeWal

LEMMA RepairHolds ==
  ASSUME WorldInv, NEW c \in Chunks, Repair(c)
  PROVE  Owed
<1>1. op[c].at = "repair" /\ UNCHANGED <<store, record, lock, writer, opened>>
  BY Zenon DEF Repair, ReadSide
<1>2. TypeOK /\ art[c] \in Pairs
  BY Zenon DEF WorldInv, TypeOK
<1>3. Serving /\ Live.odd /\ c \in Guards /\ c \in Repairs
  <2>1. "repair" # "idle"
    BY Zenon
  <2> QED
    BY <1>1, <2>1, GuardServes, GuardSets, Zenon
<1>4. /\ store.live # 0 /\ Live \in Counters
      /\ Live.count = Cardinality(Guards) + Cardinality(Repairs)
      /\ ~Live.failed => \A d \in Chunks : Half(d)
  BY <1>3, ServingFacts, Zenon
<1>5. /\ Cardinality(Guards) \in Nat /\ Cardinality(Guards) > 0
      /\ Cardinality(Repairs) \in Nat /\ Cardinality(Repairs) > 0
      /\ Guards \cup {c} = Guards
      /\ Cardinality(Guards \ {c}) = Cardinality(Guards) - 1
      /\ Cardinality(Repairs \ {c}) = Cardinality(Repairs) - 1
  BY <1>3, GuardSets, CardMoves, Zenon
<1>6. Live.count > 1 /\ Live.count > 0 /\ Live.count # 1 /\ Live.count \in Nat
  BY <1>4, <1>5, SMTT(30)
<1>7. CASE art' = [art EXCEPT ![c].image = art[c].wal] /\ SetLive(Left(Live)) /\ Step(c, "finish")
  <2>1. PICK o \in Ops : op' = [op EXCEPT ![c] = o] /\ o.at = "finish"
    <3>1. "finish" \in {"idle", "image", "wal", "repair", "finish"}
      BY Zenon
    <3> QED
      BY <1>2, <1>7, <3>1, StepFacts, Zenon
  <2>2. PICK l \in Counters :
          /\ l = Left(Live) /\ l.session = Live.session /\ l.epoch = Live.epoch
          /\ l.count = Live.count - 1 /\ l.failed = Live.failed /\ l.odd = Live.odd
    BY <1>4, <1>6, LeftFacts, Zenon
  <2>3. PICK a \in Pairs : /\ a = [art[c] EXCEPT !.image = art[c].wal]
                           /\ a.image = art[c].wal /\ a.wal = art[c].wal
    <3>1. art[c].wal \in State
      BY <1>2, Zenon DEF Pairs
    <3>2. LET a == [art[c] EXCEPT !.image = art[c].wal] IN
          a \in Pairs /\ a.image = art[c].wal /\ a.wal = art[c].wal
      BY <1>2, <3>1, Zenon DEF Pairs
    <3> QED
      BY <3>2, Zenon
  <2>4. art' = [art EXCEPT ![c] = a]
    BY <1>7, <2>3, Zenon
  <2>5. /\ art' \in [Chunks -> Pairs] /\ art'[c] = a
        /\ \A d \in Chunks : d # c => art'[d] = art[d]
    BY <1>2, <2>4, ArtSet, Zenon
  <2>6. /\ op' \in [Chunks -> Ops] /\ op'[c] = o /\ \A d \in Chunks : d # c => op'[d] = op[d]
        /\ Guards' = Guards /\ Repairs' = Repairs \ {c}
    <3>1. "finish" # "idle" /\ "finish" # "repair"
      BY Zenon
    <3> QED
      BY <1>2, <1>5, <2>1, <3>1, OpMoves, Zenon
  <2>7. l.count = Cardinality(Guards') + Cardinality(Repairs')
    BY <1>4, <1>5, <2>2, <2>6, SMTT(30)
  <2>8. ASSUME ~l.failed, NEW d \in Chunks PROVE Half(d)'
    <3>1. CASE d = c
      <4>1. "finish" # "wal"
        BY Zenon
      <4> QED
        BY <2>1, <2>3, <2>5, <2>6, <3>1, <4>1, ZenonT(60) DEF Half, Torn
    <3>2. CASE d # c
      <4>1. Half(d)
        BY <1>4, <2>2, <2>8, Zenon
      <4> QED
        BY <2>5, <2>6, <3>2, <4>1, Zenon DEF Half, Torn
    <3> QED
      BY <3>1, <3>2, Zenon
  <2>9. l.epoch >= Live.epoch /\ SetLive(l) /\ l.odd
    <3>1. l.epoch >= Live.epoch
      BY <1>4, <2>2, SMTT(30) DEF Counters
    <3> QED
      BY <1>3, <1>7, <2>2, <3>1, ZenonT(60)
  <2> QED
    BY <1>1, <1>3, <2>2, <2>5, <2>6, <2>7, <2>8, <2>9, GuardMoves, ZenonT(60)
<1>8. CASE /\ SetLive(Abandoned(Abandoned(Live, FALSE), TRUE))
           /\ op' = [op EXCEPT ![c] = NoOp] /\ UNCHANGED art
  <2>1. PICK o \in Ops : op' = [op EXCEPT ![c] = o] /\ o.at = "idle"
    BY <1>8, NoOpFacts, Zenon
  <2>2. PICK l \in Counters :
          /\ l = Abandoned(Abandoned(Live, FALSE), TRUE) /\ l.session = Live.session
          /\ l.epoch = Live.epoch /\ l.count = Live.count - 2 /\ l.failed = TRUE /\ l.odd = TRUE
    BY <1>4, <1>6, AbandonedFacts, Zenon
  <2>3. /\ op' \in [Chunks -> Ops] /\ Guards' = Guards \ {c} /\ Repairs' = Repairs \ {c}
    BY <1>2, <2>1, OpMoves, Zenon
  <2>4. l.count = Cardinality(Guards') + Cardinality(Repairs')
    <3>1. /\ l.count = Live.count - 2 /\ Live.count = Cardinality(Guards) + Cardinality(Repairs)
          /\ Cardinality(Guards) \in Nat /\ Cardinality(Repairs) \in Nat
          /\ Cardinality(Guards') = Cardinality(Guards) - 1
          /\ Cardinality(Repairs') = Cardinality(Repairs) - 1
      BY <1>4, <1>5, <2>2, <2>3, Zenon
    <3> QED
      BY <3>1, SMTT(30)
  <2>5. l.epoch >= Live.epoch /\ SetLive(l) /\ art' \in [Chunks -> Pairs]
    <3>1. l.epoch = Live.epoch /\ Live.epoch \in Nat
      BY <1>4, <2>2, Zenon DEF Counters
    <3>2. l.epoch >= Live.epoch
      BY <3>1, SMTT(30)
    <3> QED
      BY <1>2, <1>8, <2>2, <3>2, Zenon DEF TypeOK
  <2> QED
    BY <1>1, <1>3, <2>2, <2>3, <2>4, <2>5, GuardMoves, ZenonT(60)
<1> QED
  BY <1>7, <1>8, Zenon DEF Repair

LEMMA FinishHolds ==
  ASSUME WorldInv, NEW c \in Chunks, FinishSnapshotGenerationWrite(c)
  PROVE  Owed
<1>1. /\ op[c].at = "finish" /\ SetLive(Left(Live)) /\ op' = [op EXCEPT ![c] = NoOp]
      /\ UNCHANGED <<store, record, art, lock, writer, opened>>
  BY Zenon DEF FinishSnapshotGenerationWrite, ReadSide
<1>2. TypeOK /\ art \in [Chunks -> Pairs]
  BY Zenon DEF WorldInv, TypeOK
<1>3. Serving /\ Live.odd /\ c \in Guards /\ c \notin Repairs
  <2>1. "finish" # "idle" /\ "finish" # "repair"
    BY Zenon
  <2> QED
    BY <1>1, <2>1, GuardServes, GuardSets, Zenon
<1>4. /\ store.live # 0 /\ Live \in Counters
      /\ Live.count = Cardinality(Guards) + Cardinality(Repairs)
      /\ ~Live.failed => \A d \in Chunks : Half(d)
  BY <1>3, ServingFacts, Zenon
<1>5. /\ Cardinality(Guards) \in Nat /\ Cardinality(Guards) > 0
      /\ Cardinality(Repairs) \in Nat /\ Repairs \ {c} = Repairs
      /\ Cardinality(Guards \ {c}) = Cardinality(Guards) - 1
      /\ Cardinality(Guards) = 1 => Guards = {c}
  BY <1>3, GuardSets, CardMoves, Zenon
<1>6. Live.count > 0 /\ (Live.count = 1 => Cardinality(Guards) = 1)
  BY <1>4, <1>5, SMTT(30)
<1>7. PICK o \in Ops : op' = [op EXCEPT ![c] = o] /\ o.at = "idle"
  BY <1>1, NoOpFacts, Zenon
<1>8. /\ op' \in [Chunks -> Ops] /\ op'[c] = o /\ \A d \in Chunks : d # c => op'[d] = op[d]
      /\ Guards' = Guards \ {c} /\ Repairs' = Repairs
  BY <1>2, <1>5, <1>7, OpMoves, Zenon
<1>9. PICK l \in Counters :
        /\ l = Left(Live) /\ l.session = Live.session
        /\ l.count = Live.count - 1 /\ l.failed = Live.failed
        /\ Live.count = 1 /\ ~Live.failed => l.odd = FALSE /\ l.epoch = Live.epoch + 1
        /\ ~(Live.count = 1 /\ ~Live.failed) => l.odd = Live.odd /\ l.epoch = Live.epoch
  BY <1>4, <1>6, LeftFacts, Zenon
<1>10. l.count = Cardinality(Guards') + Cardinality(Repairs')
  <2>1. /\ l.count = Live.count - 1 /\ Live.count = Cardinality(Guards) + Cardinality(Repairs)
        /\ Cardinality(Guards) \in Nat /\ Cardinality(Repairs) \in Nat
        /\ Cardinality(Guards') = Cardinality(Guards) - 1 /\ Repairs' = Repairs
    BY <1>4, <1>5, <1>8, <1>9, ZenonT(60)
  <2> QED
    BY <2>1, SMTT(30)
<1>11. l.epoch >= Live.epoch /\ (l.odd \/ l.epoch > Live.epoch)
  <2>1. Live.epoch \in Nat /\ (l.epoch = Live.epoch + 1 \/ (l.epoch = Live.epoch /\ l.odd))
    BY <1>3, <1>4, <1>9, ZenonT(60) DEF Counters
  <2> QED
    BY <2>1, SMTT(30)
<1>12. ASSUME ~l.failed, NEW d \in Chunks PROVE Half(d)'
  <2>1. Half(d) /\ art' = art
    BY <1>1, <1>4, <1>9, <1>12, ZenonT(60)
  <2>2. CASE d = c
    <3>1. "finish" \notin {"wal", "repair"} /\ "idle" # "wal"
      BY Zenon
    <3> QED
      BY <1>1, <1>7, <1>8, <2>1, <2>2, <3>1, ZenonT(60) DEF Half, Torn
  <2>3. CASE d # c
    BY <1>8, <2>1, <2>3, Zenon DEF Half, Torn
  <2> QED
    BY <2>2, <2>3, Zenon
<1>13. Guards' # {} \/ l.failed => l.odd
  BY <1>3, <1>5, <1>6, <1>8, <1>9, GuardServes, ZenonT(60)
<1>14. ASSUME ~l.odd, NEW d \in Chunks PROVE ~Torn(d)'
  <2>1. Live.count = 1 /\ ~Live.failed
    BY <1>3, <1>9, <1>14, Zenon
  <2>2. Guards = {c} /\ Half(d) /\ art' = art
    BY <1>1, <1>4, <1>5, <1>6, <2>1, ZenonT(60)
  <2>3. op[d].at \notin {"wal", "repair"}
    <3>1. /\ "idle" \notin {"wal", "repair"} /\ "finish" \notin {"wal", "repair"}
      BY Zenon
    <3>2. d # c => op[d].at = "idle"
      BY <2>2, GuardSets, Zenon
    <3> QED
      BY <1>1, <3>1, <3>2, Zenon
  <2> QED
    BY <2>2, <2>3, Zenon DEF Half, Torn
<1>15. SetLive(l) /\ art' \in [Chunks -> Pairs]
  BY <1>1, <1>2, <1>9, Zenon
<1> QED
  BY <1>1, <1>3, <1>8, <1>9, <1>10, <1>11, <1>12, <1>13, <1>14, <1>15, GuardMoves, ZenonT(60)

-----------------------------------------------------------------------------
(* The end of a table, and every step of the writers' side. *)

\* The directory goes only while no writer has it; the store that was opened is
\* not the one on disk after that.
LEMMA DropTableHolds ==
  ASSUME WorldInv, DropTable
  PROVE  WorldInv' /\ ~OnDisk' /\ store'.id = store.id /\ UNCHANGED <<opened, reader, kept>>
<1>1. /\ lock.owner = Nobody /\ store' = [store EXCEPT !.there = FALSE, !.live = 0]
      /\ record' = NoRecord /\ lock' = [lock EXCEPT !.probes = {}]
      /\ art' = [c \in Chunks |-> [image |-> <<store.id + 1, 0>>, wal |-> <<store.id + 1, 0>>]]
      /\ UNCHANGED <<lives, writer, op, opened, reader, kept>>
  BY Zenon DEF DropTable, ReadSide
<1>2. TypeOK /\ LocksHeld /\ Sessions /\ lives \in Seq(Counters)
  BY Zenon DEF WorldInv, TypeOK
<1>3. ASSUME NEW q \in Writers PROVE writer[q].at = "none"
  BY <1>1, <1>2, SnapshotAssumption, Zenon DEF LocksHeld
<1>4. ~Serving /\ ~Serving' /\ Guards' = {}
  <2>1. "none" # "serving"
    BY Zenon
  <2>2. ~Serving /\ ~Serving'
    BY <1>1, <1>3, <2>1, Zenon DEF Serving, At
  <2> QED
    BY <1>1, <2>2, SameOps, Zenon
<1>5. store' \in Stores /\ store'.there = FALSE /\ store'.live = 0 /\ store'.id = store.id
  <2>1. 0 \in Nat
    BY SMTT(30)
  <2> QED
    BY <1>1, <1>2, <2>1, Zenon DEF TypeOK, Stores
<1>6. lock' \in Locks /\ lock'.owner = lock.owner /\ lock'.lease = lock.lease
  BY <1>1, <1>2, Zenon DEF TypeOK, Locks
<1>7. art' \in [Chunks -> Pairs] /\ \A c \in Chunks : ~Torn(c)'
  <2>1. store.id + 1 \in Nat /\ 0 \in Nat
    BY <1>2, SMTT(30) DEF TypeOK, Stores
  <2>2. <<store.id + 1, 0>> \in State
    BY <2>1, Zenon DEF State
  <2>3. [image |-> <<store.id + 1, 0>>, wal |-> <<store.id + 1, 0>>] \in Pairs
    BY <2>2, Zenon DEF Pairs
  <2>4. art' \in [Chunks -> Pairs]
    BY <1>1, <2>3, Zenon
  <2>5. ASSUME NEW c \in Chunks PROVE ~Torn(c)'
    <3>1. art'[c] = [image |-> <<store.id + 1, 0>>, wal |-> <<store.id + 1, 0>>]
      BY <1>1, Zenon
    <3>2. art'[c].image = art'[c].wal
      BY <3>1, SMTT(30)
    <3> QED
      BY <3>2, Zenon DEF Torn
  <2> QED
    BY <2>4, <2>5, Zenon
<1>8. TypeOK'
  <2>1. Len(lives) \in Nat
    BY <1>2, LenProperties, Zenon
  <2>2. store'.live \in 0..Len(lives')
    BY <1>1, <1>5, <2>1, SMTT(30)
  <2> QED
    BY <1>1, <1>2, <1>5, <1>6, <1>7, <2>2, ZenonT(60) DEF TypeOK
<1>9. LocksHeld'
  <2>1. "none" \notin {"lease", "live", "recovering", "serving", "closed"}
    BY Zenon
  <2> QED
    BY <1>1, <1>2, <1>3, <1>6, <2>1, ZenonT(60) DEF LocksHeld
<1>10. Sessions'
  <2>1. "none" \notin {"live", "recovering", "serving"}
    BY Zenon
  <2> QED
    BY <1>1, <1>2, <1>3, <2>1, Zenon DEF Sessions, Placed
<1>11. Guarded' /\ Whole'
  BY <1>4, <1>7, Zenon DEF Guarded, Whole
<1>12. ~OnDisk'
  BY <1>5, Zenon DEF OnDisk, StillOnDisk
<1> QED
  BY <1>1, <1>5, <1>8, <1>9, <1>10, <1>11, <1>12, ZenonT(60) DEF WorldInv

LEMMA CreateTableHolds ==
  ASSUME WorldInv, ReadInv, CreateTable
  PROVE  WorldInv' /\ ~OnDisk' /\ store.id <= store'.id /\ UNCHANGED <<opened, reader, kept>>
<1>1. /\ ~store.there /\ store' = [store EXCEPT !.there = TRUE, !.id = @ + 1]
      /\ record' = 2 /\ UNCHANGED <<lives, art, lock, writer, op, opened, reader, kept>>
  BY Zenon DEF CreateTable, ReadSide
<1>2. TypeOK /\ LocksHeld /\ Sessions /\ Whole
  BY Zenon DEF WorldInv
<1>3. ASSUME NEW q \in Writers PROVE writer[q].at = "none"
  BY <1>1, <1>2, Zenon DEF LocksHeld
<1>4. ~Serving /\ ~Serving' /\ Guards' = {}
  <2>1. "none" # "serving"
    BY Zenon
  <2>2. ~Serving /\ ~Serving'
    BY <1>1, <1>3, <2>1, Zenon DEF Serving, At
  <2> QED
    BY <1>1, <2>2, SameOps, Zenon
<1>5. /\ store' \in Stores /\ store'.there = TRUE /\ store'.live = store.live
      /\ store'.id = store.id + 1
  <2>1. store.id + 1 \in Nat
    BY <1>2, SMTT(30) DEF TypeOK, Stores
  <2> QED
    BY <1>1, <1>2, <2>1, Zenon DEF TypeOK, Stores
<1>6. TypeOK'
  <2>1. record' \in Nat \cup {NoRecord}
    BY <1>1, SMTT(30)
  <2> QED
    BY <1>1, <1>2, <1>5, <2>1, Zenon DEF TypeOK
<1>7. LocksHeld'
  BY <1>1, <1>2, <1>5, Zenon DEF LocksHeld
<1>8. Sessions'
  <2>1. "none" \notin {"live", "recovering", "serving"}
    BY Zenon
  <2> QED
    BY <1>1, <1>2, <1>3, <2>1, ZenonT(60) DEF Sessions, Placed
<1>9. Guarded'
  BY <1>4, Zenon DEF Guarded
<1>10. Whole'
  <2>1. record = NoRecord
    BY <1>1, <1>2, Zenon DEF LocksHeld
  <2>2. Session = 0
    BY <2>1, Zenon DEF Session
  <2>3. Session % 2 = 0
    BY <2>2, SMTT(30)
  <2> QED
    BY <1>1, <1>2, <2>3, Zenon DEF Whole, Torn
<1>11. store.id <= store'.id /\ ~OnDisk'
  <2>1. store.id \in Nat /\ opened.id \in Nat
    BY <1>2, Zenon DEF TypeOK, Stores, ReadInv, Openings
  <2>2. opened.at = "open" => opened.id <= store.id
    <3>1. "open" # "closed"
      BY Zenon
    <3> QED
      BY <3>1, Zenon DEF ReadInv
  <2>3. store.id <= store'.id /\ (opened.at = "open" => store'.id # opened.id)
    BY <1>5, <2>1, <2>2, SMTT(30)
  <2> QED
    BY <1>1, <2>3, Zenon DEF OnDisk, StillOnDisk
<1> QED
  BY <1>1, <1>6, <1>7, <1>8, <1>9, <1>10, <1>11, ZenonT(60) DEF WorldInv

\* What a step of the writers' side keeps for the readers.
LEMMA AdvanceKeeps ==
  ASSUME TypeOK, TypeOK', ReadInv, UNCHANGED <<opened, reader, kept>>,
         store.id <= store'.id, OnDisk' => Advance
  PROVE  ReadInv'
<1>1. opened.at # "closed" => opened.id <= store'.id
  <2>1. opened.id \in Nat /\ store.id \in Nat /\ store'.id \in Nat
    BY Zenon DEF TypeOK, ReadInv, Openings, Stores
  <2>2. opened.at # "closed" => opened.id <= store.id
    BY Zenon DEF ReadInv
  <2> QED
    BY <2>1, <2>2, SMTT(30)
<1>2. ASSUME OnDisk' PROVE ReadsSound'
  <2>1. Advance /\ ReadsSound
    BY <1>2, Zenon DEF ReadInv, Advance
  <2>2. /\ \A g \in Generations : Bound(g) => Bound(g)'
        /\ \A g \in Generations : Bound(g) /\ Cur(g)' => Cur(g) /\ art' = art
        /\ Session <= Session'
        /\ \A i \in 1..Len(lives) : i \in 1..Len(lives') /\ lives'[i].session = lives[i].session
        /\ store.live # 0 => /\ store'.live # 0
                             /\ store'.live = store.live \/ Live'.session > Session
    BY <2>1, Zenon DEF Advance
  <2>3. /\ kept \in [Chunks -> Copies] /\ \A c \in Chunks : Kept(kept[c], c)
        /\ reader \in [Readers -> Reads]
        /\ \A r \in Readers : Bracket(reader[r]) /\ Mapped(reader[r])
    BY <2>1, Zenon DEF ReadsSound
  <2>4. ASSUME NEW c \in Chunks PROVE Kept(kept[c], c)'
    <3>1. kept[c].gen \in Generations /\ Kept(kept[c], c)
      BY <2>3, Zenon DEF Copies
    <3> QED
      BY <2>2, <3>1, Zenon DEF Kept
  <2>5. ASSUME NEW r \in Readers PROVE Bracket(reader[r])'
    <3>1. reader[r].before \in Generations /\ Bracket(reader[r])
      BY <2>3, Zenon DEF Reads
    <3>2. CASE reader[r].at \in {"image", "wal", "after", "parse"}
      <4>1. Bound(reader[r].before) /\ Bound(reader[r].before)'
        BY <2>2, <3>1, <3>2, Zenon DEF Bracket
      <4>2. Cur(reader[r].before)' => Cur(reader[r].before) /\ art' = art
        BY <2>2, <3>1, <4>1, Zenon
      <4> QED
        BY <3>1, <4>1, <4>2, Zenon DEF Bracket
    <3>3. CASE reader[r].at \notin {"image", "wal", "after", "parse"}
      BY <3>3, Zenon DEF Bracket
    <3> QED
      BY <3>2, <3>3, Zenon
  <2>6. ASSUME NEW r \in Readers PROVE Mapped(reader[r])'
    <3>1. PICK q \in Reads : q = reader[r] /\ Mapped(q)
      BY <2>3, Zenon
    <3>2. Session \in Nat /\ Session' \in Nat /\ q.session \in Int
      <4>1. Session' \in Nat
        BY SMTT(30) DEF TypeOK, Session, NoRecord
      <4> QED
        BY <3>1, <4>1, SessionFacts, Zenon DEF Reads
    <3>3. q.sub \in {"probe", "map", "load"} => q.session <= Session /\ q.session <= Session'
      <4>1. q.sub \in {"probe", "map", "load"} => q.session <= Session
        BY <3>1, Zenon DEF Mapped
      <4>2. q.session <= Session => q.session <= Session'
        BY <2>2, <3>2, SMTT(30)
      <4> QED
        BY <4>1, <4>2, Zenon
    <3>4. ASSUME q.sub = "load"
          PROVE  /\ store'.live # 0 /\ q.inode \in 1..Len(lives') /\ lives'[q.inode].session = q.session
                 /\ q.inode = store'.live \/ Live'.session > q.session
      <4>1. /\ store.live # 0 /\ q.inode \in 1..Len(lives) /\ lives[q.inode].session = q.session
            /\ q.inode = store.live \/ Live.session > q.session
        BY <3>1, <3>4, Zenon DEF Mapped
      <4>2. /\ store'.live # 0 /\ q.inode \in 1..Len(lives') /\ lives'[q.inode].session = q.session
            /\ store'.live = store.live \/ Live'.session > Session
        BY <2>2, <4>1, Zenon
      <4>3. CASE store'.live = store.live
        <5>1. store.live \in 1..Len(lives)
          BY <4>1, LiveIsCounter, Zenon
        <5>2. Live'.session = Live.session
          BY <2>2, <4>3, <5>1, Zenon DEF Live
        <5> QED
          BY <4>1, <4>2, <4>3, <5>2, Zenon
      <4>4. CASE Live'.session > Session
        <5>1. store'.live \in 1..Len(lives') /\ lives' \in Seq(Counters)
          BY <4>2, SMTT(30) DEF TypeOK, Stores
        <5>2. lives'[store'.live] \in Counters
          BY <5>1, ElementOfSeq, Zenon
        <5>3. Live'.session \in Nat
          BY <5>2, Zenon DEF Live, Counters
        <5>4. q.session <= Session
          BY <3>3, <3>4, Zenon
        <5>5. Live'.session > q.session
          BY <3>2, <4>4, <5>3, <5>4, SMTT(30)
        <5> QED
          BY <4>2, <5>5, Zenon
      <4> QED
        BY <4>2, <4>3, <4>4, Zenon
    <3>5. Mapped(q)'
      BY <3>1, <3>3, <3>4, Zenon DEF Mapped
    <3> QED
      BY <3>1, <3>5, Zenon
  <2> QED
    BY <2>3, <2>4, <2>5, <2>6, Zenon DEF ReadsSound
<1> QED
  BY <1>1, <1>2, Zenon DEF ReadInv

-----------------------------------------------------------------------------
(* The readers. *)

LEMMA NoReadFacts == NoRead \in Reads /\ NoRead.at = "idle" /\ NoRead.sub = "record"
<1>1. (CHOOSE c \in Chunks : TRUE) \in Chunks
  BY SnapshotAssumption, Zenon
<1>2. NoRecord \in Int /\ 0 \in Nat /\ 0 \in Int /\ -1 \in Int
  BY SMTT(30) DEF NoRecord
<1>3. NoGen \in Generations /\ Gone \in State
  BY <1>2, Zenon DEF NoGen, Generations, Gone, State
<1>4. "idle" \in Ats /\ "record" \in Subs
  BY Zenon DEF Ats, Subs
<1>5. NoRead \in Reads
  BY <1>1, <1>2, <1>3, <1>4, Zenon DEF NoRead, Reads
<1>6. NoRead.at = "idle" /\ NoRead.sub = "record"
  BY Zenon DEF NoRead
<1> QED
  BY <1>5, <1>6, Zenon

\* A read that holds nothing asks nothing of the files.
LEMMA Holdless ==
  ASSUME NEW q, q.sub = "record", q.at \notin {"image", "wal", "after", "parse"}
  PROVE  Bracket(q) /\ Mapped(q)
<1>1. "record" \notin {"probe", "map", "load"} /\ "record" # "load"
  BY Zenon
<1> QED
  BY <1>1, Zenon DEF Bracket, Mapped

\* A step of a read leaves the writers' side alone but for its own probe.
LEMMA ReaderMoves ==
  ASSUME IInv, NEW r \in Readers, opened.at = "open", UNCHANGED OtherSide,
         lock' \in Locks, lock'.owner = lock.owner, lock'.lease = lock.lease,
         OnDisk => \E n \in Reads : reader' = [reader EXCEPT ![r] = n] /\ Bracket(n) /\ Mapped(n),
         OnDisk => kept' \in [Chunks -> Copies] /\ \A c \in Chunks : Kept(kept'[c], c)
  PROVE  IInv'
<1>1. /\ UNCHANGED <<Files, writer, op, opened>>
      /\ store' = store /\ record' = record /\ lives' = lives /\ art' = art /\ opened' = opened
  BY Zenon DEF OtherSide, Files
<1>2. WorldInv'
  BY <1>1, NoMove, Zenon DEF IInv, Owed
<1>3. Session' = Session /\ Live' = Live /\ OnDisk' = OnDisk
  BY <1>1, Zenon DEF Session, Live, OnDisk, StillOnDisk
<1>4. \A g : Bound(g)' = Bound(g) /\ Cur(g)' = Cur(g)
  BY <1>1, <1>3, Zenon DEF Bound, Cur
<1>5. ASSUME OnDisk PROVE ReadsSound'
  <2>1. ReadsSound
    BY <1>5, Zenon DEF IInv, ReadInv
  <2>2. PICK n \in Reads : reader' = [reader EXCEPT ![r] = n] /\ Bracket(n) /\ Mapped(n)
    BY <1>5, Zenon
  <2>3. \A c \in Chunks : Kept(kept[c], c)'
    BY <1>1, <1>4, <1>5, Zenon DEF Kept
  <2>4. /\ reader' \in [Readers -> Reads]
        /\ \A s \in Readers : Bracket(reader'[s]) /\ Mapped(reader'[s])
    BY <2>1, <2>2, Zenon DEF ReadsSound
  <2>5. \A s \in Readers : Bracket(reader[s])' /\ Mapped(reader[s])'
    <3>1. ASSUME NEW s \in Readers PROVE Bracket(reader[s])'
      BY <1>1, <1>4, <2>4, Zenon DEF Bracket
    <3>2. ASSUME NEW s \in Readers PROVE Mapped(reader[s])'
      BY <1>1, <1>3, <2>4, Zenon DEF Mapped
    <3> QED
      BY <3>1, <3>2, Zenon
  <2> QED
    BY <1>5, <2>3, <2>4, <2>5, ZenonT(60) DEF ReadsSound
<1>6. ReadInv'
  BY <1>1, <1>3, <1>5, Zenon DEF IInv, ReadInv
<1> QED
  BY <1>2, <1>6, Zenon DEF IInv

\* A read in progress, or one that may start, is of an open store.
LEMMA ReadIsOpen ==
  ASSUME IInv, NEW r \in Readers, reader[r].at # "idle"
  PROVE  /\ opened.at = "open" /\ lock \in Locks
         /\ OnDisk => /\ reader[r] \in Reads /\ Bracket(reader[r]) /\ Mapped(reader[r])
                      /\ kept \in [Chunks -> Copies] /\ \A c \in Chunks : Kept(kept[c], c)
<1>1. opened.at = "open"
  BY NoReadFacts, Zenon DEF IInv, ReadInv
<1> QED
  BY <1>1, Zenon DEF IInv, ReadInv, ReadsSound, WorldInv, TypeOK

\* What an observation does to the read: the generation it took bounds what the
\* read began with.
LEMMA ObservedHolds ==
  ASSUME WorldInv, OnDisk, NEW q \in Reads, q.at \in {"now", "before", "after"}, Bracket(q),
         NEW g \in Generations, g = NoGen \/ Bound(g)
  PROVE  \E n \in Reads : n = Observed(q, g) /\ Bracket(n) /\ Mapped(n)
<1>1. PICK x \in Reads : /\ x = [q EXCEPT !.sub = "record"] /\ x.sub = "record" /\ x.at = q.at
                         /\ x.before = q.before /\ x.image = q.image /\ x.wal = q.wal
                         /\ x.chunk = q.chunk
  <2>1. "record" \in Subs
    BY Zenon DEF Subs
  <2>2. [q EXCEPT !.sub = "record"] \in Reads
    BY <2>1, Zenon DEF Reads
  <2>3. LET x == [q EXCEPT !.sub = "record"] IN
        /\ x.sub = "record" /\ x.at = q.at /\ x.before = q.before /\ x.image = q.image
        /\ x.wal = q.wal /\ x.chunk = q.chunk
    BY <2>1, Zenon DEF Reads
  <2> QED
    BY <2>2, <2>3, Zenon
<1>2. ASSUME NEW at \in Ats
      PROVE  /\ [x EXCEPT !.at = at] \in Reads /\ [x EXCEPT !.at = at].at = at
             /\ [x EXCEPT !.at = at].sub = "record"
             /\ [x EXCEPT !.at = at].before = q.before /\ [x EXCEPT !.at = at].image = q.image
             /\ [x EXCEPT !.at = at].wal = q.wal /\ [x EXCEPT !.at = at].chunk = q.chunk
  <2>1. [x EXCEPT !.at = at] \in Reads
    BY <1>1, Zenon DEF Reads
  <2>2. /\ [x EXCEPT !.at = at].at = at
        /\ [x EXCEPT !.at = at].sub = x.sub /\ [x EXCEPT !.at = at].chunk = x.chunk
        /\ [x EXCEPT !.at = at].before = x.before /\ [x EXCEPT !.at = at].image = x.image
        /\ [x EXCEPT !.at = at].wal = x.wal
    BY <1>1, Zenon DEF Reads
  <2> QED
    BY <1>1, <2>1, <2>2, Zenon
<1>3. \E n \in Reads : n = Retry(q) /\ Bracket(n) /\ Mapped(n)
  <2>1. CASE Retry(q) = NoRead
    <3>1. "idle" \notin {"image", "wal", "after", "parse"}
      BY Zenon
    <3>2. Bracket(NoRead) /\ Mapped(NoRead)
      BY <3>1, NoReadFacts, Holdless, Zenon
    <3> QED
      BY <2>1, <3>2, NoReadFacts, Zenon
  <2>2. CASE Retry(q) = [q EXCEPT !.at = "before", !.sub = "record", !.attempt = @ + 1]
    <3>1. q.attempt + 1 \in Int
      BY SMTT(30) DEF Reads
    <3>2. "before" \in Ats /\ "record" \in Subs /\ "before" \notin {"image", "wal", "after", "parse"}
      BY Zenon DEF Ats, Subs
    <3>3. PICK n \in Reads : n = Retry(q) /\ n.at = "before" /\ n.sub = "record"
      <4>1. [q EXCEPT !.at = "before", !.sub = "record", !.attempt = @ + 1] \in Reads
        BY <3>1, <3>2, Zenon DEF Reads
      <4>2. LET n == [q EXCEPT !.at = "before", !.sub = "record", !.attempt = @ + 1] IN
            n.at = "before" /\ n.sub = "record"
        BY Zenon DEF Reads
      <4> QED
        BY <2>2, <4>1, <4>2, Zenon
    <3>4. Bracket(n) /\ Mapped(n)
      BY <3>2, <3>3, Holdless, Zenon
    <3> QED
      BY <3>3, <3>4, Zenon
  <2> QED
    BY <2>1, <2>2, Zenon DEF Retry
<1>4. CASE q.at = "now"
  <2>1. PICK at \in Ats : /\ Observed(q, g) = [x EXCEPT !.at = at]
                          /\ at \notin {"image", "wal", "after", "parse"}
    <3>1. /\ "store" \in Ats /\ "before" \in Ats
          /\ "store" \notin {"image", "wal", "after", "parse"}
          /\ "before" \notin {"image", "wal", "after", "parse"}
      BY Zenon DEF Ats
    <3>2. Observed(q, g) = [x EXCEPT !.at = IF Same(kept[q.chunk].gen, g) THEN "store" ELSE "before"]
      BY <1>1, <1>4, Zenon DEF Observed
    <3> QED
      BY <3>1, <3>2, Zenon
  <2>2. Bracket([x EXCEPT !.at = at]) /\ Mapped([x EXCEPT !.at = at])
    BY <1>2, <2>1, Holdless, Zenon
  <2> QED
    BY <1>2, <2>1, <2>2, Zenon
<1>5. CASE q.at = "before"
  <2>1. CASE g = NoGen
    <3>1. Observed(q, g) = Retry(q)
      BY <1>5, <2>1, Zenon DEF Observed
    <3> QED
      BY <1>3, <3>1, Zenon
  <2>2. CASE g # NoGen
    <3>1. Observed(q, g) = [x EXCEPT !.at = "image", !.before = g]
      BY <1>1, <1>5, <2>2, Zenon DEF Observed
    <3>2. "image" \in Ats
      BY Zenon DEF Ats
    <3>3. PICK n \in Reads : /\ n = Observed(q, g) /\ n.at = "image" /\ n.before = g /\ n.sub = "record"
      <4>1. [x EXCEPT !.at = "image", !.before = g] \in Reads
        BY <3>2, Zenon DEF Reads
      <4>2. LET n == [x EXCEPT !.at = "image", !.before = g] IN
            n.at = "image" /\ n.before = g /\ n.sub = x.sub
        BY Zenon DEF Reads
      <4> QED
        BY <1>1, <3>1, <4>1, <4>2, ZenonT(60)
    <3>4. Bracket(n)
      <4>1. "image" # "wal" /\ "image" \notin {"after", "parse"}
        BY Zenon
      <4> QED
        BY <2>2, <3>3, <4>1, Zenon DEF Bracket
    <3>5. Mapped(n)
      <4>1. "record" \notin {"probe", "map", "load"} /\ "record" # "load"
        BY Zenon
      <4> QED
        BY <3>3, <4>1, Zenon DEF Mapped
    <3> QED
      BY <3>3, <3>4, <3>5, Zenon
  <2> QED
    BY <2>1, <2>2, Zenon
<1>6. CASE q.at = "after"
  <2>1. CASE ~Same(q.before, g)
    <3>1. Observed(q, g) = Retry(q)
      BY <1>6, <2>1, Zenon DEF Observed
    <3> QED
      BY <1>3, <3>1, Zenon
  <2>2. CASE Same(q.before, g)
    <3>1. Observed(q, g) = [x EXCEPT !.at = "parse"] /\ "parse" \in Ats
      BY <1>1, <1>6, <2>2, Zenon DEF Observed, Ats
    <3>2. PICK n \in Reads : /\ n = Observed(q, g) /\ n.at = "parse" /\ n.sub = "record"
                             /\ n.before = q.before /\ n.image = q.image
                             /\ n.wal = q.wal /\ n.chunk = q.chunk
      BY <1>2, <3>1, Zenon
    <3>3. Bracket(n)
      <4>1. "parse" # "wal" /\ "after" \in {"image", "wal", "after", "parse"} /\ "after" \in {"after", "parse"}
        BY Zenon
      <4> QED
        BY <1>6, <3>2, <4>1, Zenon DEF Bracket
    <3>4. Mapped(n)
      <4>1. "record" \notin {"probe", "map", "load"} /\ "record" # "load"
        BY Zenon
      <4> QED
        BY <3>2, <4>1, Zenon DEF Mapped
    <3> QED
      BY <3>2, <3>3, <3>4, Zenon
  <2> QED
    BY <2>1, <2>2, ZenonT(60)
<1> QED
  BY <1>4, <1>5, <1>6, Zenon

\* The generations an observation takes are bound.
LEMMA RecordBound ==
  ASSUME WorldInv, NEW g, g = <<Session, 0>>, Session % 2 = 0
  PROVE  g \in Generations /\ Bound(g)
<1>1. Session \in Nat
  BY SessionFacts, Zenon DEF WorldInv
<1>2. g \in Generations /\ g[1] = Session /\ g[2] = 0
  BY <1>1, SMTT(30) DEF Generations
<1>3. store.live # 0 => Live.session % 2 = 1
  <2>1. store.live # 0 => store.live \in 1..Len(lives)
    BY LiveIsCounter, Zenon DEF WorldInv
  <2> QED
    BY <2>1, Zenon DEF WorldInv, Sessions, Live
<1>4. g[1] <= Session /\ ~(store.live # 0 /\ g[1] = Live.session)
  BY <1>1, <1>2, <1>3, SMTT(30)
<1> QED
  BY <1>2, <1>4, Zenon DEF Bound

LEMMA CounterBound ==
  ASSUME WorldInv, NEW q \in Reads, Mapped(q), q.sub = "load",
         NEW g, g = <<lives[q.inode].session, lives[q.inode].epoch>>
  PROVE  g \in Generations /\ Bound(g)
<1>1. /\ store.live # 0 /\ q.inode \in 1..Len(lives) /\ lives[q.inode].session = q.session
      /\ q.inode = store.live \/ Live.session > q.session
      /\ q.session <= Session
  <2>1. "load" \in {"probe", "map", "load"}
    BY Zenon
  <2> QED
    BY <2>1, Zenon DEF Mapped
<1>2. TypeOK /\ Sessions /\ lives \in Seq(Counters)
  BY Zenon DEF WorldInv, TypeOK
<1>3. lives[q.inode] \in Counters /\ Live \in Counters
  BY <1>1, <1>2, ElementOfSeq, LiveIsCounter, Zenon
<1>4. /\ lives[q.inode].session \in Nat /\ lives[q.inode].epoch \in Nat /\ Live.session \in Nat
      /\ Live.epoch \in Nat /\ lives[q.inode].session % 2 = 1
  BY <1>1, <1>2, <1>3, Zenon DEF Counters, Sessions
<1>5. g \in Generations /\ g[1] = lives[q.inode].session /\ g[2] = lives[q.inode].epoch
  BY <1>4, SMTT(30) DEF Generations
<1>6. g[1] = Live.session => g[2] <= Live.epoch
  <2>1. g[1] = Live.session => q.inode = store.live
    BY <1>1, <1>4, <1>5, SMTT(30)
  <2>2. q.inode = store.live => g[2] = Live.epoch
    BY <1>5, Zenon DEF Live
  <2> QED
    BY <1>4, <2>1, <2>2, SMTT(30)
<1>7. g[1] <= Session /\ g[1] % 2 # 0
  BY <1>1, <1>4, <1>5, SMTT(30)
<1> QED
  BY <1>5, <1>6, <1>7, Zenon DEF Bound

LEMMA NoGenIsGeneration == NoGen \in Generations
<1>1. -1 \in Int /\ 0 \in Int
  BY SMTT(30)
<1> QED
  BY <1>1, Zenon DEF NoGen, Generations

LEMMA ObservingFacts ==
  ASSUME IInv, NEW r \in Readers, NEW sub, Observing(r, sub)
  PROVE  /\ WorldInv /\ opened.at = "open" /\ lock \in Locks
         /\ reader[r].at \in {"now", "before", "after"} /\ reader[r].sub = sub
         /\ OnDisk => /\ reader[r] \in Reads /\ Bracket(reader[r]) /\ Mapped(reader[r])
                      /\ kept \in [Chunks -> Copies] /\ \A c \in Chunks : Kept(kept[c], c)
<1>1. reader[r].at \in {"now", "before", "after"} /\ reader[r].sub = sub /\ reader[r].at # "idle"
  BY Zenon DEF Observing
<1> QED
  BY <1>1, ReadIsOpen, Zenon DEF IInv

\* The step in which a read takes the observation g.
LEMMA ObservationStep ==
  ASSUME IInv, NEW r \in Readers, NEW sub, Observing(r, sub), UNCHANGED <<OtherSide, kept>>,
         lock' \in Locks, lock'.owner = lock.owner, lock'.lease = lock.lease,
         NEW g, OnDisk => g \in Generations /\ (g = NoGen \/ Bound(g)),
         Set(r, Observed(reader[r], g))
  PROVE  IInv'
<1>1. /\ WorldInv /\ opened.at = "open"
      /\ reader[r].at \in {"now", "before", "after"}
      /\ OnDisk => /\ reader[r] \in Reads /\ Bracket(reader[r]) /\ Mapped(reader[r])
                   /\ kept \in [Chunks -> Copies] /\ \A c \in Chunks : Kept(kept[c], c)
  BY ObservingFacts, Zenon
<1>2. ASSUME OnDisk PROVE \E n \in Reads : reader' = [reader EXCEPT ![r] = n] /\ Bracket(n) /\ Mapped(n)
  <2>1. PICK n \in Reads : n = Observed(reader[r], g) /\ Bracket(n) /\ Mapped(n)
    BY <1>1, <1>2, ObservedHolds, Zenon
  <2> QED
    BY <2>1, Zenon DEF Set
<1>3. OnDisk => kept' \in [Chunks -> Copies] /\ \A c \in Chunks : Kept(kept'[c], c)
  BY <1>1, Zenon
<1>4. UNCHANGED OtherSide
  BY Zenon
<1> QED
  BY <1>1, <1>2, <1>3, <1>4, ReaderMoves, ZenonT(60)

\* A read that only changes where its observation is, and what it found there.
LEMMA SubMoves ==
  ASSUME WorldInv, NEW q \in Reads, Bracket(q), NEW n \in Reads,
         n.at = q.at, n.before = q.before, n.image = q.image, n.wal = q.wal, n.chunk = q.chunk
  PROVE  Bracket(n)
  BY Zenon DEF Bracket

LEMMA StartReadHolds ==
  ASSUME IInv, NEW r \in Readers, StartRead(r)
  PROVE  IInv'
<1>1. opened.at = "open" /\ UNCHANGED <<OtherSide, lock, kept>>
  BY Zenon DEF StartRead
<1>2. PICK c \in Chunks : Set(r, [NoRead EXCEPT !.at = IF kept[c] = NoCopy THEN "before" ELSE "now",
                                                !.chunk = c, !.first = kept[c] = NoCopy])
  BY Zenon DEF StartRead
<1>3. PICK n \in Reads : /\ reader' = [reader EXCEPT ![r] = n]
                         /\ n.at \in {"before", "now"} /\ n.sub = "record"
  <2>1. PICK at \in {"before", "now"} : at = IF kept[c] = NoCopy THEN "before" ELSE "now"
    BY Zenon
  <2>2. PICK first \in BOOLEAN : first = (kept[c] = NoCopy)
    BY Zenon
  <2>3. at \in Ats
    BY <2>1, Zenon DEF Ats
  <2>4. [NoRead EXCEPT !.at = at, !.chunk = c, !.first = first] \in Reads
    BY <2>3, NoReadFacts, Zenon DEF Reads
  <2>5. LET n == [NoRead EXCEPT !.at = at, !.chunk = c, !.first = first] IN
        n.at = at /\ n.sub = NoRead.sub
    BY <2>3, NoReadFacts, Zenon DEF Reads
  <2>6. reader' = [reader EXCEPT ![r] = [NoRead EXCEPT !.at = at, !.chunk = c, !.first = first]]
    BY <1>2, <2>1, <2>2, Zenon DEF Set
  <2> QED
    BY <2>1, <2>4, <2>5, <2>6, NoReadFacts, ZenonT(60)
<1>4. Bracket(n) /\ Mapped(n)
  <2>1. n.at \notin {"image", "wal", "after", "parse"}
    BY <1>3, Zenon
  <2> QED
    BY <1>3, <2>1, Holdless, Zenon
<1>5. lock \in Locks /\ (OnDisk => kept \in [Chunks -> Copies] /\ \A d \in Chunks : Kept(kept[d], d))
  BY Zenon DEF IInv, ReadInv, ReadsSound, WorldInv, TypeOK
<1> QED
  BY <1>1, <1>3, <1>4, <1>5, ReaderMoves, ZenonT(60)

\* A read that ends holds nothing.
LEMMA EndRead ==
  ASSUME IInv, NEW r \in Readers, reader[r].at # "idle", UNCHANGED <<OtherSide, lock, kept>>,
         Set(r, NoRead)
  PROVE  IInv'
<1>1. /\ opened.at = "open" /\ lock \in Locks
      /\ OnDisk => kept \in [Chunks -> Copies] /\ \A c \in Chunks : Kept(kept[c], c)
  BY ReadIsOpen, Zenon
<1>2. Bracket(NoRead) /\ Mapped(NoRead)
  <2>1. "idle" \notin {"image", "wal", "after", "parse"}
    BY Zenon
  <2> QED
    BY <2>1, NoReadFacts, Holdless, Zenon
<1>3. \E n \in Reads : reader' = [reader EXCEPT ![r] = n] /\ Bracket(n) /\ Mapped(n)
  BY <1>2, NoReadFacts, Zenon DEF Set
<1> QED
  BY <1>1, <1>3, ReaderMoves, Zenon

\* The step in which a read goes on observing as n.
LEMMA StillObserving ==
  ASSUME IInv, NEW r \in Readers, reader[r].at # "idle", UNCHANGED <<OtherSide, kept>>,
         lock' \in Locks, lock'.owner = lock.owner, lock'.lease = lock.lease,
         OnDisk => \E n \in Reads : reader' = [reader EXCEPT ![r] = n] /\ Bracket(n) /\ Mapped(n)
  PROVE  IInv'
<1>1. /\ opened.at = "open"
      /\ OnDisk => kept \in [Chunks -> Copies] /\ \A c \in Chunks : Kept(kept[c], c)
  BY ReadIsOpen, Zenon
<1> QED
  BY <1>1, ReaderMoves, Zenon

LEMMA ReadRecordHolds ==
  ASSUME IInv, NEW r \in Readers, ReadRecord(r)
  PROVE  IInv'
<1>1. Observing(r, "record") /\ UNCHANGED <<OtherSide, lock, kept>>
  BY Zenon DEF ReadRecord
<1>2. /\ WorldInv /\ lock \in Locks /\ reader[r].at \in {"now", "before", "after"}
      /\ OnDisk => reader[r] \in Reads /\ Bracket(reader[r]) /\ Mapped(reader[r])
  BY <1>1, ObservingFacts, Zenon
<1>3. reader[r].at # "idle" /\ Session \in Nat /\ (record # NoRecord => Session = record)
  BY <1>2, SessionFacts, Zenon DEF WorldInv
<1>4. CASE record = NoRecord
  <2>1. Session = 0
    BY <1>4, Zenon DEF Session
  <2>2. CASE opened.seen
    <3>1. Set(r, NoRead)
      BY <1>4, <2>2, Zenon DEF ReadRecord
    <3> QED
      BY <1>1, <1>3, <3>1, EndRead, ZenonT(60)
  <2>3. CASE ~opened.seen
    <3>1. PICK g : g = <<0, 0>>
      BY Zenon
    <3>2. Set(r, Observed(reader[r], g))
      BY <1>4, <2>3, <3>1, Zenon DEF ReadRecord
    <3>3. Session % 2 = 0
      BY <2>1, SMTT(30)
    <3>4. g = <<Session, 0>>
      BY <2>1, <3>1, Zenon
    <3>5. g \in Generations /\ Bound(g)
      BY <1>2, <3>3, <3>4, RecordBound, ZenonT(60)
    <3> QED
      BY <1>1, <1>2, <3>2, <3>5, ObservationStep, ZenonT(60)
  <2> QED
    BY <2>2, <2>3, Zenon
<1>5. CASE record # NoRecord /\ record % 2 = 0
  <2>1. PICK g : g = <<record, 0>>
    BY Zenon
  <2>2. Set(r, Observed(reader[r], g))
    <3>1. record % 2 # 1
      BY <1>5, SMTT(30)
    <3> QED
      BY <1>5, <2>1, <3>1, ZenonT(60) DEF ReadRecord
  <2>3. g \in Generations /\ Bound(g)
    BY <1>2, <1>3, <1>5, <2>1, RecordBound, ZenonT(60)
  <2> QED
    BY <1>1, <1>2, <2>2, <2>3, ObservationStep, Zenon
<1>6. CASE record # NoRecord /\ record % 2 # 0
  <2>1. record % 2 = 1 /\ record \in Int
    BY <1>2, <1>6, SMTT(30) DEF WorldInv, TypeOK, NoRecord
  <2>2. Set(r, [reader[r] EXCEPT !.sub = "probe", !.session = record])
    BY <1>6, <2>1, Zenon DEF ReadRecord
  <2>3. ASSUME OnDisk
        PROVE  \E n \in Reads : reader' = [reader EXCEPT ![r] = n] /\ Bracket(n) /\ Mapped(n)
    <3>1. PICK q \in Reads : q = reader[r] /\ Bracket(q)
      BY <1>2, <2>3, Zenon
    <3>2. "probe" \in Subs
      BY Zenon DEF Subs
    <3>3. PICK n \in Reads : /\ n = [q EXCEPT !.sub = "probe", !.session = record]
                             /\ n.at = q.at /\ n.before = q.before /\ n.image = q.image
                             /\ n.wal = q.wal /\ n.chunk = q.chunk
                             /\ n.sub = "probe" /\ n.session = record
      <4>1. [q EXCEPT !.sub = "probe", !.session = record] \in Reads
        BY <2>1, <3>2, Zenon DEF Reads
      <4>2. LET n == [q EXCEPT !.sub = "probe", !.session = record] IN
            /\ n.at = q.at /\ n.before = q.before /\ n.image = q.image
            /\ n.wal = q.wal /\ n.chunk = q.chunk /\ n.sub = "probe" /\ n.session = record
        BY Zenon DEF Reads
      <4> QED
        BY <4>1, <4>2, Zenon
    <3>4. Bracket(n)
      BY <1>2, <3>1, <3>3, SubMoves, ZenonT(60)
    <3>5. Mapped(n)
      <4>1. n.session <= Session
        BY <1>3, <1>6, <3>3, SMTT(30)
      <4>2. "probe" # "load"
        BY Zenon
      <4> QED
        BY <1>2, <3>1, <3>3, <4>1, <4>2, ZenonT(60) DEF Mapped
    <3> QED
      BY <2>2, <3>1, <3>3, <3>4, <3>5, ZenonT(60) DEF Set
  <2> QED
    BY <1>1, <1>2, <1>3, <2>3, StillObserving, ZenonT(60)
<1> QED
  BY <1>4, <1>5, <1>6, Zenon

\* A read that is probing goes on to sub-step sub with the session it read.
LEMMA SubStep ==
  ASSUME IInv, NEW r \in Readers, NEW from, Observing(r, from), from \in {"probe", "map"},
         NEW sub \in {"map", "drop"}, UNCHANGED <<OtherSide, kept>>,
         lock' \in Locks, lock'.owner = lock.owner, lock'.lease = lock.lease,
         Set(r, [reader[r] EXCEPT !.sub = sub])
  PROVE  IInv'
<1>1. /\ WorldInv /\ reader[r].at \in {"now", "before", "after"} /\ reader[r].sub = from
      /\ OnDisk => reader[r] \in Reads /\ Bracket(reader[r]) /\ Mapped(reader[r])
  BY ObservingFacts, Zenon
<1>2. ASSUME OnDisk
      PROVE  \E n \in Reads : reader' = [reader EXCEPT ![r] = n] /\ Bracket(n) /\ Mapped(n)
  <2>1. PICK q \in Reads : q = reader[r] /\ Bracket(q) /\ Mapped(q) /\ q.sub = from
    BY <1>1, <1>2, Zenon
  <2>2. sub \in Subs
    BY Zenon DEF Subs
  <2>3. PICK n \in Reads : /\ n = [q EXCEPT !.sub = sub]
                           /\ n.at = q.at /\ n.before = q.before /\ n.image = q.image
                           /\ n.wal = q.wal /\ n.chunk = q.chunk
                           /\ n.sub = sub /\ n.session = q.session
    <3>1. [q EXCEPT !.sub = sub] \in Reads
      BY <2>2, Zenon DEF Reads
    <3>2. LET n == [q EXCEPT !.sub = sub] IN
          /\ n.at = q.at /\ n.before = q.before /\ n.image = q.image /\ n.wal = q.wal
          /\ n.chunk = q.chunk /\ n.sub = sub /\ n.session = q.session
      BY Zenon DEF Reads
    <3> QED
      BY <3>1, <3>2, Zenon
  <2>4. Bracket(n)
    BY <1>1, <2>1, <2>3, SubMoves, ZenonT(60)
  <2>5. Mapped(n)
    <3>1. q.session <= Session
      BY <2>1, Zenon DEF Mapped
    <3>2. sub # "load" /\ n.at \in {"now", "before", "after"}
      BY <1>1, <2>1, <2>3, ZenonT(60)
    <3> QED
      BY <2>3, <3>1, <3>2, ZenonT(60) DEF Mapped
  <2> QED
    BY <2>1, <2>3, <2>4, <2>5, ZenonT(60) DEF Set
<1>3. reader[r].at # "idle"
  BY <1>1, Zenon
<1> QED
  BY <1>2, <1>3, StillObserving, Zenon

LEMMA ProbeLeaseHolds ==
  ASSUME IInv, NEW r \in Readers, ProbeLease(r)
  PROVE  IInv'
<1>1. Observing(r, "probe") /\ UNCHANGED <<OtherSide, kept>> /\ "probe" \in {"probe", "map"}
  BY Zenon DEF ProbeLease
<1>2. lock \in Locks
  BY <1>1, ObservingFacts, Zenon
<1>3. CASE Set(r, [reader[r] EXCEPT !.sub = "map"]) /\ UNCHANGED lock
  <2>1. "map" \in {"map", "drop"}
    BY Zenon
  <2> QED
    BY <1>1, <1>2, <1>3, <2>1, SubStep, ZenonT(60)
<1>4. CASE /\ lock' = [lock EXCEPT !.probes = @ \cup {r}]
           /\ Set(r, [reader[r] EXCEPT !.sub = "drop"])
  <2>1. "drop" \in {"map", "drop"}
    BY Zenon
  <2>2. lock' \in Locks /\ lock'.owner = lock.owner /\ lock'.lease = lock.lease
    <3>1. lock.probes \cup {r} \in SUBSET Readers
      BY <1>2, Zenon DEF Locks
    <3> QED
      BY <1>2, <1>4, <3>1, Zenon DEF Locks
  <2> QED
    BY <1>1, <1>4, <2>1, <2>2, SubStep, ZenonT(60)
<1>5. CASE Set(r, Observed(reader[r], NoGen)) /\ UNCHANGED lock
  BY <1>1, <1>2, <1>5, NoGenIsGeneration, ObservationStep, ZenonT(60)
<1> QED
  BY <1>3, <1>4, <1>5, Zenon DEF ProbeLease

LEMMA DropProbeHolds ==
  ASSUME IInv, NEW r \in Readers, DropProbe(r)
  PROVE  IInv'
<1>1. /\ Observing(r, "drop") /\ UNCHANGED <<OtherSide, kept>>
      /\ lock' = [lock EXCEPT !.probes = @ \ {r}] /\ Set(r, Observed(reader[r], NoGen))
  BY Zenon DEF DropProbe
<1>2. lock \in Locks
  BY <1>1, ObservingFacts, Zenon
<1>3. lock' \in Locks /\ lock'.owner = lock.owner /\ lock'.lease = lock.lease
  <2>1. lock.probes \ {r} \in SUBSET Readers
    BY <1>2, Zenon DEF Locks
  <2> QED
    BY <1>1, <1>2, <2>1, Zenon DEF Locks
<1> QED
  BY <1>1, <1>3, NoGenIsGeneration, ObservationStep, ZenonT(60)

LEMMA MapLiveHolds ==
  ASSUME IInv, NEW r \in Readers, MapLive(r)
  PROVE  IInv'
<1>1. Observing(r, "map") /\ UNCHANGED <<OtherSide, lock, kept>>
  BY Zenon DEF MapLive
<1>2. /\ WorldInv /\ lock \in Locks /\ reader[r].at \in {"now", "before", "after"}
      /\ reader[r].sub = "map"
      /\ OnDisk => reader[r] \in Reads /\ Bracket(reader[r]) /\ Mapped(reader[r])
  BY <1>1, ObservingFacts, Zenon
<1>3. CASE ~(store.live # 0 /\ Live.session = reader[r].session)
  <2>1. Set(r, Observed(reader[r], NoGen))
    BY <1>3, Zenon DEF MapLive
  <2> QED
    BY <1>1, <1>2, <2>1, NoGenIsGeneration, ObservationStep, ZenonT(60)
<1>4. CASE store.live # 0 /\ Live.session = reader[r].session
  <2>1. Set(r, [reader[r] EXCEPT !.sub = "load", !.inode = store.live])
    BY <1>4, Zenon DEF MapLive
  <2>2. store.live \in Nat /\ store.live \in 1..Len(lives)
    <3>1. TypeOK
      BY <1>2, Zenon DEF WorldInv
    <3> QED
      BY <1>4, <3>1, LiveIsCounter, ZenonT(60) DEF TypeOK, Stores
  <2>3. ASSUME OnDisk
        PROVE  \E n \in Reads : reader' = [reader EXCEPT ![r] = n] /\ Bracket(n) /\ Mapped(n)
    <3>1. PICK q \in Reads : q = reader[r] /\ Bracket(q) /\ Mapped(q) /\ q.sub = "map"
      BY <1>2, <2>3, Zenon
    <3>2. PICK i \in Nat : i = store.live
      BY <2>2, Zenon
    <3>3. "load" \in Subs
      BY Zenon DEF Subs
    <3>4. PICK n \in Reads : /\ n = [q EXCEPT !.sub = "load", !.inode = i]
                             /\ n.at = q.at /\ n.before = q.before /\ n.image = q.image
                             /\ n.wal = q.wal /\ n.chunk = q.chunk
                             /\ n.sub = "load" /\ n.session = q.session /\ n.inode = i
      <4>1. [q EXCEPT !.sub = "load", !.inode = i] \in Reads
        BY <3>3, Zenon DEF Reads
      <4>2. LET n == [q EXCEPT !.sub = "load", !.inode = i] IN
            /\ n.at = q.at /\ n.before = q.before /\ n.image = q.image /\ n.wal = q.wal
            /\ n.chunk = q.chunk /\ n.sub = "load" /\ n.session = q.session /\ n.inode = i
        BY Zenon DEF Reads
      <4> QED
        BY <4>1, <4>2, Zenon
    <3>5. Bracket(n)
      BY <1>2, <3>1, <3>4, SubMoves, ZenonT(60)
    <3>6. Mapped(n)
      <4>1. q.session <= Session
        BY <3>1, Zenon DEF Mapped
      <4>2. lives[n.inode].session = n.session
        BY <1>4, <3>1, <3>2, <3>4, ZenonT(60) DEF Live
      <4>3. n.at \in {"now", "before", "after"}
        BY <1>2, <3>1, <3>4, ZenonT(60)
      <4> QED
        BY <1>4, <2>2, <3>2, <3>4, <4>1, <4>2, <4>3, ZenonT(60) DEF Mapped
    <3> QED
      BY <2>1, <3>1, <3>2, <3>4, <3>5, <3>6, ZenonT(60) DEF Set
  <2>4. reader[r].at # "idle"
    BY <1>2, Zenon
  <2> QED
    BY <1>1, <1>2, <2>3, <2>4, StillObserving, ZenonT(60)
<1> QED
  BY <1>3, <1>4, Zenon

LEMMA LoadCounterHolds ==
  ASSUME IInv, NEW r \in Readers, LoadCounter(r)
  PROVE  IInv'
<1>1. Observing(r, "load") /\ UNCHANGED <<OtherSide, lock, kept>>
  BY Zenon DEF LoadCounter
<1>2. /\ WorldInv /\ lock \in Locks /\ reader[r].sub = "load"
      /\ OnDisk => reader[r] \in Reads /\ Bracket(reader[r]) /\ Mapped(reader[r])
  BY <1>1, ObservingFacts, Zenon
<1>3. PICK g : g = IF lives[reader[r].inode].odd THEN NoGen
                   ELSE <<lives[reader[r].inode].session, lives[reader[r].inode].epoch>>
  BY Zenon
<1>4. Set(r, Observed(reader[r], g))
  BY <1>3, Zenon DEF LoadCounter
<1>5. ASSUME OnDisk
      PROVE  g \in Generations /\ (g = NoGen \/ Bound(g))
  <2>1. PICK q \in Reads : q = reader[r] /\ Mapped(q) /\ q.sub = "load"
    BY <1>2, <1>5, ZenonT(60)
  <2>2. g = NoGen \/ g = <<lives[q.inode].session, lives[q.inode].epoch>>
    BY <1>3, <2>1, Zenon
  <2> QED
    BY <1>2, <2>1, <2>2, CounterBound, NoGenIsGeneration, ZenonT(60)
<1> QED
  BY <1>1, <1>2, <1>4, <1>5, ObservationStep, ZenonT(60)

\* The image is read; a current generation makes it the image in place.
LEMMA CollectImage ==
  ASSUME IInv, OnDisk, NEW q \in Reads, q.at = "image", Bracket(q), Mapped(q)
  PROVE  \E n \in Reads : /\ n = [q EXCEPT !.image = art[q.chunk].image, !.at = "wal"]
                          /\ Bracket(n) /\ Mapped(n)
<1>1. PICK i \in State : i = art[q.chunk].image
  BY Zenon DEF IInv, WorldInv, TypeOK, Pairs, Reads
<1>2. "wal" \in Ats
  BY Zenon DEF Ats
<1>3. PICK n \in Reads : /\ n = [q EXCEPT !.image = i, !.at = "wal"]
                         /\ n.at = "wal" /\ n.image = i /\ n.before = q.before
                         /\ n.chunk = q.chunk /\ n.sub = q.sub
  <2>1. [q EXCEPT !.image = i, !.at = "wal"] \in Reads
    BY <1>2, Zenon DEF Reads
  <2>2. LET n == [q EXCEPT !.image = i, !.at = "wal"] IN
        /\ n.at = "wal" /\ n.image = i /\ n.before = q.before /\ n.chunk = q.chunk
        /\ n.sub = q.sub
    BY Zenon DEF Reads
  <2> QED
    BY <2>1, <2>2, Zenon
<1>4. Bound(q.before) /\ q.sub = "record"
  <2>1. q.at \in {"image", "wal", "after", "parse"} /\ q.at \notin {"now", "before", "after"}
    BY Zenon
  <2> QED
    BY <2>1, Zenon DEF Bracket, Mapped
<1>5. Bracket(n)
  <2>1. n.at \notin {"after", "parse"}
    BY <1>3, Zenon
  <2> QED
    BY <1>1, <1>3, <1>4, <2>1, ZenonT(60) DEF Bracket
<1>6. Mapped(n)
  <2>1. "record" \notin {"probe", "map", "load"} /\ "record" # "load"
    BY Zenon
  <2> QED
    BY <1>3, <1>4, <2>1, Zenon DEF Mapped
<1> QED
  BY <1>1, <1>3, <1>5, <1>6, ZenonT(60)

\* While a generation is current the files are whole.
LEMMA CurrentIsWhole ==
  ASSUME WorldInv, NEW g, Cur(g), NEW c \in Chunks
  PROVE  art[c].image = art[c].wal
  BY Zenon DEF WorldInv, Whole, Cur, Torn

\* The WAL is read: with a current generation the collection is the state of
\* both files.
LEMMA CollectWal ==
  ASSUME IInv, OnDisk, NEW q \in Reads, q.at = "wal", Bracket(q), Mapped(q)
  PROVE  \E n \in Reads : /\ n = [q EXCEPT !.wal = art[q.chunk].wal, !.at = "after"]
                          /\ Bracket(n) /\ Mapped(n)
<1>0. WorldInv /\ q.chunk \in Chunks /\ art[q.chunk] \in Pairs
  BY Zenon DEF IInv, WorldInv, TypeOK, Reads
<1>1. PICK w \in State : w = art[q.chunk].wal
  BY <1>0, Zenon DEF Pairs
<1>2. "after" \in Ats
  BY Zenon DEF Ats
<1>3. PICK n \in Reads : /\ n = [q EXCEPT !.wal = w, !.at = "after"]
                         /\ n.at = "after" /\ n.image = q.image /\ n.wal = w
                         /\ n.before = q.before /\ n.chunk = q.chunk /\ n.sub = q.sub
  <2>1. [q EXCEPT !.wal = w, !.at = "after"] \in Reads
    BY <1>2, Zenon DEF Reads
  <2>2. LET n == [q EXCEPT !.wal = w, !.at = "after"] IN
        /\ n.at = "after" /\ n.image = q.image /\ n.wal = w /\ n.before = q.before
        /\ n.chunk = q.chunk /\ n.sub = q.sub
    BY Zenon DEF Reads
  <2> QED
    BY <2>1, <2>2, Zenon
<1>4. Bound(q.before) /\ q.sub = "record" /\ (Cur(q.before) => q.image = art[q.chunk].image)
  <2>1. q.at \in {"image", "wal", "after", "parse"} /\ q.at \notin {"now", "before", "after"}
    BY Zenon
  <2> QED
    BY <2>1, Zenon DEF Bracket, Mapped
<1>5. ASSUME Cur(q.before)
      PROVE  q.image = w /\ art[q.chunk] = [image |-> q.image, wal |-> q.image]
  <2>1. art[q.chunk].image = art[q.chunk].wal
    BY <1>0, <1>5, CurrentIsWhole, ZenonT(60)
  <2>2. art[q.chunk] = [image |-> art[q.chunk].image, wal |-> art[q.chunk].wal]
    BY <1>0, Zenon DEF Pairs
  <2> QED
    BY <1>1, <1>4, <1>5, <2>1, <2>2, ZenonT(60)
<1>6. Bracket(n)
  <2>1. n.at # "wal"
    BY <1>3, Zenon
  <2> QED
    BY <1>3, <1>4, <1>5, <2>1, ZenonT(60) DEF Bracket
<1>7. Mapped(n)
  <2>1. "record" \notin {"probe", "map", "load"} /\ "record" # "load"
    BY Zenon
  <2> QED
    BY <1>3, <1>4, <2>1, ZenonT(60) DEF Mapped
<1> QED
  BY <1>1, <1>3, <1>6, <1>7, ZenonT(60)

LEMMA CollectHolds ==
  ASSUME IInv, NEW r \in Readers, Collect(r)
  PROVE  IInv'
<1>1. /\ UNCHANGED <<OtherSide, lock, kept>> /\ reader[r].at \in {"image", "wal"}
  BY Zenon DEF Collect
<1>2. reader[r].at # "idle"
  BY <1>1, Zenon
<1>3. /\ lock \in Locks
      /\ OnDisk => reader[r] \in Reads /\ Bracket(reader[r]) /\ Mapped(reader[r])
  BY <1>2, ReadIsOpen, Zenon
<1>4. ASSUME OnDisk
      PROVE  \E n \in Reads : reader' = [reader EXCEPT ![r] = n] /\ Bracket(n) /\ Mapped(n)
  <2>1. PICK q \in Reads : q = reader[r] /\ Bracket(q) /\ Mapped(q)
    BY <1>3, <1>4, Zenon
  <2>2. CASE q.at = "image"
    <3>1. Set(r, [q EXCEPT !.image = art[q.chunk].image, !.at = "wal"])
      <4>1. q.at # "wal"
        BY <2>2, Zenon
      <4> QED
        BY <2>1, <4>1, Zenon DEF Collect
    <3> QED
      BY <1>4, <2>1, <2>2, <3>1, CollectImage, ZenonT(60) DEF Set
  <2>3. CASE q.at = "wal"
    <3>1. Set(r, [q EXCEPT !.wal = art[q.chunk].wal, !.at = "after"])
      <4>1. q.at # "image"
        BY <2>3, Zenon
      <4> QED
        BY <2>1, <4>1, Zenon DEF Collect
    <3> QED
      BY <1>4, <2>1, <2>3, <3>1, CollectWal, ZenonT(60) DEF Set
  <2> QED
    BY <1>1, <2>1, <2>2, <2>3, ZenonT(60)
<1> QED
  BY <1>1, <1>2, <1>3, <1>4, StillObserving, ZenonT(60)

\* A read that is done, or starts again, holds no collection.
LEMMA ReadSettles ==
  ASSUME IInv, NEW q \in Reads, q.sub = "record", NEW at \in {"now", "done"},
         NEW f \in BOOLEAN, NEW a \in Int, NEW s \in State
  PROVE  /\ \E n \in Reads : /\ n = [q EXCEPT !.at = at, !.first = f, !.attempt = a]
                             /\ Bracket(n) /\ Mapped(n)
         /\ \E n \in Reads : n = [q EXCEPT !.at = at, !.result = s] /\ Bracket(n) /\ Mapped(n)
<1>1. at \in Ats /\ at \notin {"image", "wal", "after", "parse"}
  BY Zenon DEF Ats
<1>2. PICK n \in Reads : /\ n = [q EXCEPT !.at = at, !.first = f, !.attempt = a]
                         /\ n.at = at /\ n.sub = q.sub
  <2>1. [q EXCEPT !.at = at, !.first = f, !.attempt = a] \in Reads
    BY <1>1, Zenon DEF Reads
  <2>2. LET n == [q EXCEPT !.at = at, !.first = f, !.attempt = a] IN n.at = at /\ n.sub = q.sub
    BY Zenon DEF Reads
  <2> QED
    BY <2>1, <2>2, Zenon
<1>3. PICK m \in Reads : m = [q EXCEPT !.at = at, !.result = s] /\ m.at = at /\ m.sub = q.sub
  <2>1. [q EXCEPT !.at = at, !.result = s] \in Reads
    BY <1>1, Zenon DEF Reads
  <2>2. LET m == [q EXCEPT !.at = at, !.result = s] IN m.at = at /\ m.sub = q.sub
    BY Zenon DEF Reads
  <2> QED
    BY <2>1, <2>2, Zenon
<1>4. Bracket(n) /\ Mapped(n)
  BY <1>1, <1>2, Holdless, ZenonT(60)
<1>5. Bracket(m) /\ Mapped(m)
  BY <1>1, <1>3, Holdless, ZenonT(60)
<1> QED
  BY <1>2, <1>3, <1>4, <1>5, ZenonT(60)

\* What a closed bracket collected is kept for the generation it began with.
LEMMA LoadedIsKept ==
  ASSUME IInv, OnDisk, NEW q \in Reads, q.at = "parse", Bracket(q),
         NEW k, k = [gen |-> q.before, state |-> IF q.image = q.wal THEN q.image ELSE Mixed]
  PROVE  k \in Copies /\ Kept(k, q.chunk)
<1>1. q.before \in Generations /\ q.image \in State
  BY Zenon DEF Reads
<1>2. Mixed \in State
  BY SMTT(30) DEF Mixed, State
<1>3. k.gen = q.before /\ k.state = IF q.image = q.wal THEN q.image ELSE Mixed
  BY Zenon
<1>4. k \in Copies
  <2>1. (IF q.image = q.wal THEN q.image ELSE Mixed) \in State
    BY <1>1, <1>2, Zenon
  <2> QED
    BY <1>1, <2>1, Zenon DEF Copies
<1>5. q.at \in {"image", "wal", "after", "parse"} /\ q.at \in {"after", "parse"}
  BY Zenon
<1>6. /\ Bound(q.before)
      /\ Cur(q.before) => q.image = q.wal /\ art[q.chunk] = [image |-> q.image, wal |-> q.image]
  BY <1>5, Zenon DEF Bracket
<1> QED
  BY <1>3, <1>4, <1>6, ZenonT(60) DEF Kept

LEMMA ParseHolds ==
  ASSUME IInv, NEW r \in Readers, Parse(r)
  PROVE  IInv'
<1>1. UNCHANGED <<OtherSide, lock>> /\ reader[r].at = "parse"
  BY Zenon DEF Parse
<1>2. reader[r].at # "idle"
  BY <1>1, Zenon
<1>3. /\ opened.at = "open" /\ lock \in Locks
      /\ OnDisk => /\ reader[r] \in Reads /\ Bracket(reader[r]) /\ Mapped(reader[r])
                   /\ kept \in [Chunks -> Copies] /\ \A c \in Chunks : Kept(kept[c], c)
  BY <1>2, ReadIsOpen, Zenon
<1>4. CASE Set(r, NoRead) /\ UNCHANGED kept
  BY <1>1, <1>2, <1>4, EndRead, ZenonT(60)
<1>5. CASE /\ Set(r, [reader[r] EXCEPT !.at = "now", !.first = FALSE, !.attempt = 0])
           /\ UNCHANGED kept
  <2>1. ASSUME OnDisk
        PROVE  \E n \in Reads : reader' = [reader EXCEPT ![r] = n] /\ Bracket(n) /\ Mapped(n)
    <3>1. PICK q \in Reads : q = reader[r] /\ Mapped(q)
      BY <1>3, <2>1, Zenon
    <3>2. q.sub = "record" /\ "now" \in {"now", "done"}
      BY <1>1, <3>1, Zenon DEF Mapped
    <3>3. 0 \in Int /\ Gone \in State
      BY SMTT(30) DEF Gone, State
    <3>4. \E n \in Reads : /\ n = [q EXCEPT !.at = "now", !.first = FALSE, !.attempt = 0]
                           /\ Bracket(n) /\ Mapped(n)
      BY <3>2, <3>3, ReadSettles, Zenon
    <3> QED
      BY <1>5, <3>1, <3>4, Zenon DEF Set
  <2> QED
    BY <1>1, <1>2, <1>3, <1>5, <2>1, StillObserving, ZenonT(60)
<1>6. CASE \E k : /\ k = [gen |-> reader[r].before,
                          state |-> IF reader[r].image = reader[r].wal THEN reader[r].image ELSE Mixed]
                  /\ kept' \in {[kept EXCEPT ![reader[r].chunk] = k], kept}
                  /\ Set(r, [reader[r] EXCEPT !.at = "done", !.result = kept'[reader[r].chunk].state])
  <2>1. PICK k : /\ k = [gen |-> reader[r].before,
                         state |-> IF reader[r].image = reader[r].wal THEN reader[r].image ELSE Mixed]
                 /\ kept' \in {[kept EXCEPT ![reader[r].chunk] = k], kept}
                 /\ Set(r, [reader[r] EXCEPT !.at = "done", !.result = kept'[reader[r].chunk].state])
    BY <1>6, Zenon
  <2>2. ASSUME OnDisk
        PROVE  /\ kept' \in [Chunks -> Copies] /\ \A c \in Chunks : Kept(kept'[c], c)
               /\ \E n \in Reads : reader' = [reader EXCEPT ![r] = n] /\ Bracket(n) /\ Mapped(n)
    <3>1. PICK q \in Reads : q = reader[r] /\ Bracket(q) /\ Mapped(q) /\ q.at = "parse"
      BY <1>1, <1>3, <2>2, ZenonT(60)
    <3>2. q.sub = "record" /\ "done" \in {"now", "done"} /\ q.chunk \in Chunks
      BY <3>1, Zenon DEF Mapped, Reads
    <3>3. k \in Copies /\ Kept(k, q.chunk)
      BY <2>1, <2>2, <3>1, LoadedIsKept, ZenonT(60)
    <3>4. kept \in [Chunks -> Copies] /\ \A c \in Chunks : Kept(kept[c], c)
      BY <1>3, <2>2, Zenon
    <3>5. kept' \in [Chunks -> Copies]
      BY <2>1, <3>1, <3>2, <3>3, <3>4, ZenonT(60)
    <3>6. ASSUME NEW c \in Chunks
          PROVE  Kept(kept'[c], c)
      <4>1. kept'[c] = kept[c] \/ (c = q.chunk /\ kept'[c] = k)
        BY <2>1, <3>1, <3>2, <3>4, ZenonT(60)
      <4> QED
        BY <3>3, <3>4, <4>1, ZenonT(60)
    <3>7. PICK s \in State : s = kept'[q.chunk].state
      BY <3>2, <3>5, Zenon DEF Copies
    <3>8. FALSE \in BOOLEAN /\ 0 \in Int
      BY SMTT(30)
    <3>9. \E n \in Reads : n = [q EXCEPT !.at = "done", !.result = s] /\ Bracket(n) /\ Mapped(n)
      BY <3>2, <3>8, ReadSettles, ZenonT(60)
    <3>10. reader' = [reader EXCEPT ![r] = [q EXCEPT !.at = "done", !.result = s]]
      BY <2>1, <3>1, <3>7, ZenonT(60) DEF Set
    <3> QED
      BY <3>5, <3>6, <3>9, <3>10, ZenonT(60)
  <2> QED
    BY <1>1, <1>3, <2>2, ReaderMoves, ZenonT(60)
<1> QED
  <2>1. PICK k : k = [gen |-> reader[r].before,
                      state |-> IF reader[r].image = reader[r].wal THEN reader[r].image ELSE Mixed]
    BY Zenon
  <2> QED
    BY <1>4, <1>5, <1>6, <2>1, ZenonT(60) DEF Parse

LEMMA KeepCopyHolds ==
  ASSUME IInv, NEW r \in Readers, KeepCopy(r)
  PROVE  IInv'
<1>1. UNCHANGED <<OtherSide, lock, kept>> /\ reader[r].at = "store"
  BY Zenon DEF KeepCopy
<1>2. reader[r].at # "idle"
  BY <1>1, Zenon
<1>3. CASE ~StillOnDisk
  <2>1. Set(r, NoRead)
    BY <1>3, Zenon DEF KeepCopy
  <2> QED
    BY <1>1, <1>2, <2>1, EndRead, ZenonT(60)
<1>4. CASE StillOnDisk
  <2>1. Set(r, [reader[r] EXCEPT !.at = "done", !.result = kept[reader[r].chunk].state])
    BY <1>4, Zenon DEF KeepCopy
  <2>2. /\ lock \in Locks
        /\ OnDisk => /\ reader[r] \in Reads /\ Mapped(reader[r]) /\ kept \in [Chunks -> Copies]
    BY <1>2, ReadIsOpen, Zenon
  <2>3. ASSUME OnDisk
        PROVE  \E n \in Reads : reader' = [reader EXCEPT ![r] = n] /\ Bracket(n) /\ Mapped(n)
    <3>1. PICK q \in Reads : q = reader[r] /\ Mapped(q) /\ q.at = "store"
      BY <1>1, <2>2, <2>3, ZenonT(60)
    <3>2. q.sub = "record" /\ "done" \in {"now", "done"} /\ q.chunk \in Chunks
      BY <3>1, Zenon DEF Mapped, Reads
    <3>3. PICK s \in State : s = kept[q.chunk].state
      BY <2>2, <2>3, <3>2, ZenonT(60) DEF Copies
    <3>4. FALSE \in BOOLEAN /\ 0 \in Int
      BY SMTT(30)
    <3>5. \E n \in Reads : n = [q EXCEPT !.at = "done", !.result = s] /\ Bracket(n) /\ Mapped(n)
      BY <3>2, <3>4, ReadSettles, Zenon
    <3> QED
      BY <2>1, <3>1, <3>3, <3>5, ZenonT(60) DEF Set
  <2> QED
    BY <1>1, <1>2, <2>2, <2>3, StillObserving, ZenonT(60)
<1> QED
  BY <1>3, <1>4, Zenon

LEMMA ReturnHolds ==
  ASSUME IInv, NEW r \in Readers, Return(r)
  PROVE  IInv'
<1>1. /\ UNCHANGED <<OtherSide, lock, kept>> /\ reader[r].at = "done" /\ Set(r, NoRead)
  BY Zenon DEF Return
<1>2. reader[r].at # "idle"
  BY <1>1, Zenon
<1> QED
  BY <1>1, <1>2, EndRead, Zenon

\* A process that has read nothing keeps nothing.
LEMMA NothingKept ==
  ASSUME WorldInv, kept = [c \in Chunks |-> NoCopy], reader = [r \in Readers |-> NoRead]
  PROVE  ReadsSound
<1>1. Session \in Nat /\ (store.live # 0 => Live.session \in Nat)
  BY SessionFacts, LiveIsCounter, Zenon DEF WorldInv, Counters
<1>2. -1 \in Int /\ 0 \in Int /\ 0 \in Nat
  BY SMTT(30)
<1>3. NoGen[1] = -1 /\ NoGen[2] = 0 /\ NoCopy.gen = NoGen
  <2>1. NoCopy.gen = NoGen
    BY Zenon DEF NoCopy
  <2>2. NoGen[1] = -1 /\ NoGen[2] = 0
    BY SMTT(30) DEF NoGen
  <2> QED
    BY <2>1, <2>2, Zenon
<1>4. NoCopy \in Copies
  BY <1>2, NoGenIsGeneration, Zenon DEF NoCopy, Copies, Gone, State
<1>5. -1 <= Session /\ (store.live # 0 => -1 # Live.session)
  BY <1>1, SMTT(30)
<1>6. Bound(NoGen)
  BY <1>3, <1>5, Zenon DEF Bound
<1>7. ~Cur(NoGen)
  <2>1. \A s, e : <<s, e>>[1] = s
    BY SMTT(30)
  <2>2. NoGen # <<Session, 0>>
    <3>1. <<Session, 0>>[1] = Session /\ Session # -1
      BY <1>1, SMTT(30)
    <3> QED
      BY <1>3, <3>1, ZenonT(60)
  <2>3. store.live # 0 => NoGen # <<Live.session, Live.epoch>>
    <3>1. <<Live.session, Live.epoch>>[1] = Live.session
      BY <2>1, Zenon
    <3> QED
      BY <1>3, <1>5, <3>1, ZenonT(60)
  <2> QED
    BY <2>2, <2>3, Zenon DEF Cur
<1>8. \A c \in Chunks : Kept(kept[c], c)
  BY <1>3, <1>6, <1>7, ZenonT(60) DEF Kept
<1>9. Bracket(NoRead) /\ Mapped(NoRead)
  <2>1. "idle" \notin {"image", "wal", "after", "parse"}
    BY Zenon
  <2> QED
    BY <2>1, NoReadFacts, Holdless, Zenon
<1>10. kept \in [Chunks -> Copies] /\ reader \in [Readers -> Reads]
  BY <1>4, NoReadFacts, Zenon
<1>11. \A r \in Readers : reader[r] = NoRead
  BY Zenon
<1> QED
  BY <1>8, <1>9, <1>10, <1>11, ZenonT(60) DEF ReadsSound

\* What the reads hold rests on the files alone.
LEMMA ReadsStay ==
  ASSUME ReadsSound, UNCHANGED <<Files, reader, kept>>
  PROVE  ReadsSound'
<1>1. /\ store' = store /\ record' = record /\ lives' = lives /\ art' = art
      /\ reader' = reader /\ kept' = kept
  BY Zenon DEF Files
<1>2. Session' = Session /\ Live' = Live
  BY <1>1, Zenon DEF Session, Live
<1>3. \A g : Bound(g)' = Bound(g) /\ Cur(g)' = Cur(g)
  BY <1>1, <1>2, Zenon DEF Bound, Cur
<1>4. /\ \A c \in Chunks : Kept(kept'[c], c)
      /\ \A r \in Readers : Bracket(reader'[r]) /\ Mapped(reader'[r])
  BY <1>1, Zenon DEF ReadsSound
<1>5. ASSUME NEW c \in Chunks PROVE Kept(kept[c], c)'
  BY <1>1, <1>3, <1>4, ZenonT(60) DEF Kept
<1>6. ASSUME NEW r \in Readers PROVE Bracket(reader[r])'
  BY <1>1, <1>3, <1>4, ZenonT(60) DEF Bracket
<1>7. ASSUME NEW r \in Readers PROVE Mapped(reader[r])'
  BY <1>1, <1>2, <1>4, ZenonT(60) DEF Mapped
<1> QED
  BY <1>1, <1>5, <1>6, <1>7, ZenonT(60) DEF ReadsSound

LEMMA OpenReadOnlyHolds ==
  ASSUME IInv, OpenReadOnly
  PROVE  IInv'
<1>1. /\ UNCHANGED <<Files, lock, writer, op, reader, kept>>
      /\ opened.at \in {"closed", "probe", "again"} /\ opened \in Openings
      /\ WorldInv /\ TypeOK
  BY Zenon DEF OpenReadOnly, IInv, ReadInv, WorldInv
<1>2. /\ lock \in Locks /\ store.id \in Nat /\ store' = store /\ record \in Int
  <2>1. lock \in Locks /\ store.id \in Nat /\ store' = store
    BY <1>1, Zenon DEF TypeOK, Stores, Files
  <2>2. record \in Int
    BY <1>1, SMTT(30) DEF TypeOK, NoRecord
  <2> QED
    BY <2>1, <2>2, Zenon
<1>3. WorldInv'
  BY <1>1, <1>2, WorldStays, ZenonT(60)
<1>4. kept' = [c \in Chunks |-> NoCopy] /\ reader' = [r \in Readers |-> NoRead]
  BY <1>1, Zenon DEF IInv, ReadInv
<1>5. opened' \in Openings /\ opened'.id <= store.id
  <2>1. CASE opened.at = "closed"
    <3>1. opened.at # "probe" /\ opened.at # "again"
      BY <2>1, Zenon
    <3>2. PICK at \in {"closed", "probe", "again", "open"}, seen \in BOOLEAN :
            opened' = [at |-> at, id |-> store.id, seen |-> seen, session |-> record]
      <4>1. /\ (IF record # NoRecord /\ record % 2 = 1 THEN "probe" ELSE "open")
                 \in {"closed", "probe", "again", "open"}
            /\ (record # NoRecord) \in BOOLEAN
        BY Zenon
      <4> QED
        BY <2>1, <3>1, <4>1, Zenon DEF OpenReadOnly
    <3>3. opened' \in Openings
      BY <1>2, <3>2, Zenon DEF Openings
    <3>4. opened'.id = store.id
      BY <3>2, Zenon
    <3> QED
      BY <1>2, <3>3, <3>4, SMTT(30)
  <2>2. CASE opened.at \in {"probe", "again"}
    <3>1. opened.at # "closed"
      BY <2>2, Zenon
    <3>2. PICK at \in {"closed", "probe", "again", "open"} : opened' = [opened EXCEPT !.at = at]
      <4>1. /\ (IF lock.lease # Nobody THEN "open" ELSE "again")
                 \in {"closed", "probe", "again", "open"}
            /\ (IF record = opened.session THEN "closed" ELSE "open")
                 \in {"closed", "probe", "again", "open"}
        BY Zenon
      <4>2. opened.at = "probe" =>
              opened' = [opened EXCEPT !.at = IF lock.lease # Nobody THEN "open" ELSE "again"]
        <5>1. opened.at = "probe" => opened.at # "again"
          BY Zenon
        <5> QED
          BY <3>1, <5>1, Zenon DEF OpenReadOnly
      <4>3. opened.at = "again" =>
              opened' = [opened EXCEPT !.at = IF record = opened.session THEN "closed" ELSE "open"]
        <5>1. opened.at = "again" => opened.at # "probe"
          BY Zenon
        <5> QED
          BY <3>1, <5>1, Zenon DEF OpenReadOnly
      <4> QED
        BY <2>2, <4>1, <4>2, <4>3, ZenonT(60)
    <3>3. opened' \in Openings /\ opened'.id = opened.id
      BY <1>1, <3>2, Zenon DEF Openings
    <3>4. opened.id <= store.id
      BY <3>1, Zenon DEF IInv, ReadInv
    <3> QED
      BY <3>3, <3>4, Zenon
  <2> QED
    BY <1>1, <2>1, <2>2, ZenonT(60)
<1>6. ReadsSound'
  <2>1. ReadsSound
    BY <1>1, <1>4, NothingKept, Zenon
  <2> QED
    BY <1>1, <2>1, ReadsStay, Zenon
<1> QED
  BY <1>2, <1>3, <1>4, <1>5, <1>6, ZenonT(60) DEF IInv, ReadInv

\* A step of a writer, or of a change, leaves the store and the readers alone.
LEMMA WorldStep ==
  ASSUME IInv, Owed, UNCHANGED ReadSide, store'.id = store.id
  PROVE  IInv'
<1>1. WorldInv /\ ReadInv /\ TypeOK /\ TypeOK' /\ WorldInv' /\ (OnDisk' => Advance)
  BY Zenon DEF IInv, Owed, WorldInv
<1>2. store.id <= store'.id
  <2>1. store.id \in Nat
    BY <1>1, Zenon DEF TypeOK, Stores
  <2> QED
    BY <2>1, SMTT(30)
<1>3. ReadInv'
  BY <1>1, <1>2, AdvanceKeeps, Zenon DEF ReadSide
<1> QED
  BY <1>1, <1>3, Zenon DEF IInv

LEMMA WriterStepHolds ==
  ASSUME IInv, NEW p \in Writers, WriterStep(p)
  PROVE  IInv'
<1>1. WorldInv
  BY Zenon DEF IInv
<1>2. Owed
  BY <1>1, TakeOwnerHolds, TestLeaseHolds, WaitForExclusiveHolds, InitializeLiveHolds,
     PublishSessionHolds, RecoverHolds, FinishRecoveryHolds, CloseHolds, ReleaseLeaseHolds,
     DieHolds, ZenonT(60) DEF WriterStep
<1>3. UNCHANGED ReadSide
  BY Zenon DEF WriterStep, TakeOwner, TestLease, WaitForExclusive, InitializeLive,
     PublishSession, Recover, FinishSnapshotGenerationRecovery, CloseSnapshotGeneration,
     ReleaseLease, Die
<1>4. store'.id = store.id
  <2>1. CASE InitializeLive(p)
    <3>1. store \in Stores /\ store' = [store EXCEPT !.live = Len(lives) + 1]
      BY <1>1, <2>1, ZenonT(60) DEF WorldInv, TypeOK, InitializeLive
    <3> QED
      BY <3>1, Zenon DEF Stores
  <2>2. CASE ~InitializeLive(p)
    BY <2>2, Zenon DEF WriterStep, Files, TakeOwner, TestLease, WaitForExclusive,
       PublishSession, Recover, FinishSnapshotGenerationRecovery, CloseSnapshotGeneration,
       ReleaseLease, Die
  <2> QED
    BY <2>1, <2>2, Zenon
<1> QED
  BY <1>2, <1>3, <1>4, WorldStep, Zenon

LEMMA ChangeStepHolds ==
  ASSUME IInv, NEW c \in Chunks, ChangeStep(c)
  PROVE  IInv'
<1>1. WorldInv
  BY Zenon DEF IInv
<1>2. Owed
  BY <1>1, BeginHolds, ChangeImageHolds, ChangeWalHolds, RepairHolds, FinishHolds, ZenonT(60)
     DEF ChangeStep
<1>3. UNCHANGED ReadSide /\ store'.id = store.id
  BY Zenon DEF ChangeStep, BeginSnapshotGenerationWrite, ChangeImage, ChangeWal, Repair,
     FinishSnapshotGenerationWrite
<1> QED
  BY <1>2, <1>3, WorldStep, ZenonT(60)

LEMMA TableStepHolds ==
  ASSUME IInv, DropTable \/ CreateTable
  PROVE  IInv'
<1>1. WorldInv /\ ReadInv /\ TypeOK
  BY Zenon DEF IInv, WorldInv
<1>2. WorldInv' /\ ~OnDisk' /\ store.id <= store'.id /\ UNCHANGED <<opened, reader, kept>>
  <2>1. CASE DropTable
    <3>1. WorldInv' /\ ~OnDisk' /\ store'.id = store.id /\ UNCHANGED <<opened, reader, kept>>
      BY <1>1, <2>1, DropTableHolds, Zenon
    <3>2. store.id \in Nat
      BY <1>1, Zenon DEF TypeOK, Stores
    <3>3. store.id <= store'.id
      BY <3>1, <3>2, SMTT(30)
    <3> QED
      BY <3>1, <3>3, Zenon
  <2>2. CASE CreateTable
    BY <1>1, <2>2, CreateTableHolds, Zenon
  <2> QED
    BY <2>1, <2>2, Zenon
<1>3. TypeOK'
  BY <1>2, Zenon DEF WorldInv
<1>4. ReadInv'
  BY <1>1, <1>2, <1>3, AdvanceKeeps, ZenonT(60)
<1> QED
  BY <1>2, <1>4, Zenon DEF IInv

LEMMA ReaderStepHolds ==
  ASSUME IInv, NEW r \in Readers, ReaderStep(r)
  PROVE  IInv'
  BY StartReadHolds, ReadRecordHolds, ProbeLeaseHolds, DropProbeHolds, MapLiveHolds,
     LoadCounterHolds, CollectHolds, ParseHolds, KeepCopyHolds, ReturnHolds, ZenonT(60)
     DEF ReaderStep

LEMMA StutterHolds ==
  ASSUME IInv, UNCHANGED vars
  PROVE  IInv'
<1>1. /\ UNCHANGED <<Files, reader, kept>> /\ UNCHANGED <<Files, writer, op>>
      /\ opened' = opened /\ store' = store /\ lock' = lock /\ lock \in Locks /\ WorldInv
      /\ kept' = kept /\ reader' = reader
  BY Zenon DEF vars, Files, IInv, WorldInv, TypeOK
<1>2. WorldInv'
  BY <1>1, WorldStays, Zenon
<1>3. OnDisk' = OnDisk
  BY <1>1, Zenon DEF OnDisk, StillOnDisk
<1>4. ReadInv'
  BY <1>1, <1>3, ReadsStay, Zenon DEF IInv, ReadInv
<1> QED
  BY <1>2, <1>4, ZenonT(60) DEF IInv

LEMMA InitHolds ==
  ASSUME Init
  PROVE  IInv
<1>1. /\ store = [there |-> TRUE, id |-> 1, live |-> 0] /\ record \in {NoRecord, 2}
      /\ lives = <<>> /\ art = [c \in Chunks |-> [image |-> <<1, 0>>, wal |-> <<1, 0>>]]
      /\ lock = [owner |-> Nobody, lease |-> Nobody, probes |-> {}]
      /\ writer = [p \in Writers |-> NoWriter] /\ op = [c \in Chunks |-> NoOp]
      /\ opened = [at |-> "closed", id |-> 0, seen |-> FALSE, session |-> NoRecord]
      /\ reader = [r \in Readers |-> NoRead] /\ kept = [c \in Chunks |-> NoCopy]
  BY Zenon DEF Init
<1>2. 0 \in Nat /\ 1 \in Nat /\ NoRecord \in Int /\ record \in Nat \cup {NoRecord} /\ 0 <= 1
  BY <1>1, SMTT(30) DEF NoRecord
<1>3. store.there /\ store.id = 1 /\ store.live = 0 /\ store \in Stores
  BY <1>1, <1>2, Zenon DEF Stores
<1>4. lives \in Seq(Counters) /\ Len(lives) = 0 /\ 0 \in 0..Len(lives) /\ 1..Len(lives) = {}
  BY <1>1, SMTT(30)
<1>5. art \in [Chunks -> Pairs] /\ \A c \in Chunks : ~Torn(c)
  <2>1. [image |-> <<1, 0>>, wal |-> <<1, 0>>] \in Pairs
    BY <1>2, Zenon DEF Pairs, State
  <2> QED
    BY <1>1, <2>1, Zenon DEF Torn
<1>6. lock \in Locks /\ lock.owner = Nobody /\ lock.lease = Nobody
  BY <1>1, Zenon DEF Locks
<1>7. writer \in [Writers -> Places] /\ \A p \in Writers : writer[p].at = "none"
  BY <1>1, NoWriterFacts, Zenon
<1>8. op \in [Chunks -> Ops] /\ \A c \in Chunks : op[c].at = "idle"
  BY <1>1, NoOpFacts, Zenon
<1>9. TypeOK
  BY <1>2, <1>3, <1>4, <1>5, <1>6, <1>7, <1>8, ZenonT(60) DEF TypeOK
<1>10. LocksHeld
  <2>1. "none" \notin {"lease", "live", "recovering", "serving", "closed"}
    BY Zenon
  <2>2. \A p \in Writers : Nobody # p
    BY SnapshotAssumption, Zenon
  <2> QED
    BY <1>3, <1>6, <1>7, <2>1, <2>2, ZenonT(60) DEF LocksHeld
<1>11. Sessions
  <2>1. "none" \notin {"live", "recovering", "serving"}
    BY Zenon
  <2> QED
    BY <1>4, <1>7, <2>1, ZenonT(60) DEF Sessions, Placed
<1>12. Guarded
  <2>1. ~Serving
    <3>1. "none" # "serving"
      BY Zenon
    <3> QED
      BY <1>7, <3>1, Zenon DEF Serving, At
  <2>2. Guards = {}
    BY <1>8, Zenon DEF Guards
  <2> QED
    BY <2>1, <2>2, Zenon DEF Guarded
<1>13. WorldInv
  BY <1>5, <1>9, <1>10, <1>11, <1>12, ZenonT(60) DEF WorldInv, Whole
<1>14. opened \in Openings /\ opened.at = "closed" /\ opened.at # "open"
  <2>1. opened.at = "closed"
    BY <1>1, Zenon
  <2>2. "closed" # "open"
    BY Zenon
  <2>3. opened \in Openings
    BY <1>1, <1>2, Zenon DEF Openings
  <2> QED
    BY <2>1, <2>2, <2>3, ZenonT(60)
<1>15. ReadInv
  BY <1>1, <1>14, Zenon DEF ReadInv, OnDisk
<1> QED
  BY <1>13, <1>15, Zenon DEF IInv

\* A copy of the generation that is stable is a copy of a current one.
LEMMA StableIsCurrent ==
  ASSUME IInv
  PROVE  StableCopyIsCurrent
<1> DEFINE held == lock.lease # Nobody /\ store.live # 0 /\ Live.session = Session
           stable == IF Session % 2 = 0 THEN <<Session, 0>>
                     ELSE IF held /\ ~Live.odd THEN <<Session, Live.epoch>> ELSE NoGen
<1>1. SUFFICES ASSUME StillOnDisk, stable # NoGen, NEW c \in Chunks, kept[c].gen = stable
               PROVE  art[c] = [image |-> kept[c].state, wal |-> kept[c].state]
  BY Zenon DEF StableCopyIsCurrent, Session
<1>2. Cur(stable)
  <2>1. CASE Session % 2 = 0
    BY <2>1, Zenon DEF Cur
  <2>2. CASE Session % 2 # 0
    <3>1. held /\ ~Live.odd
      BY <1>1, <2>2, Zenon
    <3> QED
      BY <2>2, <3>1, Zenon DEF Cur
  <2> QED
    BY <2>1, <2>2, Zenon
<1> HIDE DEF held, stable
<1>3. CASE opened.at = "open"
  <2>1. Kept(kept[c], c)
    BY <1>1, <1>3, Zenon DEF IInv, ReadInv, OnDisk, ReadsSound
  <2> QED
    BY <1>1, <1>2, <2>1, ZenonT(60) DEF Kept
<1>4. CASE opened.at # "open"
  <2>1. kept = [d \in Chunks |-> NoCopy]
    BY <1>4, Zenon DEF IInv, ReadInv
  <2>2. NoCopy.gen = NoGen
    BY Zenon DEF NoCopy
  <2>3. kept[c] = NoCopy
    BY <2>1, Zenon
  <2> QED
    BY <1>1, <2>2, <2>3, ZenonT(60)
<1> QED
  BY <1>3, <1>4, Zenon

\* The inductive invariant holds of every behaviour of writers, changes, table
\* drops and read-only processes.
THEOREM SnapshotInductive == Spec => []IInv
<1>1. Init => IInv
  BY InitHolds, Zenon
<1>2. IInv /\ [Next]_vars => IInv'
  BY WriterStepHolds, ChangeStepHolds, ReaderStepHolds, TableStepHolds, OpenReadOnlyHolds,
     StutterHolds, ZenonT(60) DEF Next
<1> QED
  BY <1>1, <1>2, PTL DEF Spec

\* In every behaviour of a writer's guards, closes, deaths and recoveries and of
\* table drops and creations, a copy that a read-only process keeps is what the
\* image and the WAL hold whenever its generation is the one a reader would now
\* observe as stable on the same store: the argument by which
\* RefreshReadOnlyChunk answers from memory.
THEOREM StableCopiesCurrent == Spec => []StableCopyIsCurrent
<1>1. IInv => StableCopyIsCurrent
  BY StableIsCurrent, Zenon
<1> QED
  BY <1>1, SnapshotInductive, PTL

=============================================================================
