-------------------------- MODULE TxnHistoryProofs --------------------------
(***************************************************************************)
(* The application of a write preserves the invariant of TxnHistory, and    *)
(* what follows: snapshot isolation, serializable commits, the bound of the *)
(* history and the absence of circular waits, for any sets of chunks,       *)
(* transactions and writers.                                                *)
(***************************************************************************)
EXTENDS TxnHistoryInv, FiniteSetTheorems

(* The application of a write *)

\* IsStateAt, for a set of versions.
StateIn(l, s, v) == v \in l \cup {0} /\ v <= s /\ \A x \in l : x <= s => x <= v

\* HistoryComplete for one chunk, with the versions l, and one snapshot, at s.
CompleteFor(ks, c, l, s) ==
  /\ (\E x \in l : x > s) => OldestAbove(ks, c, s) # {}
  /\ \A k \in OldestAbove(ks, c, s) : StateIn(l, s, k.state)

\* ks and kn show a snapshot at s the same states.
SameAbove(ks, kn, s) == \A d : KeptAbove(ks, d, s) = KeptAbove(kn, d, s)

\* The history goes from ks to kn when chunk c takes the version v, as a snapshot
\* at s sees it: the replaced state k0 is kept, or v is not above s, or a state
\* of the chunk above s is there already.
KeepsFor(ks, kn, c, v, k0, s) ==
  /\ \A d : d # c => KeptAbove(kn, d, s) = KeptAbove(ks, d, s)
  /\ \/ /\ KeptAbove(kn, c, s) = KeptAbove(ks, c, s)
        /\ v <= s \/ KeptAbove(ks, c, s) # {}
     \/ /\ v > s
        /\ KeptAbove(kn, c, s) = KeptAbove(ks, c, s) \cup {k0}

\* A change above a snapshot leaves the state at the snapshot alone.
LEMMA StateStays ==
  ASSUME NEW l, NEW s, NEW x, NEW v, ~(v <= s), StateIn(l, s, x)
  PROVE  StateIn(l \cup {v}, s, x)
BY Zenon DEF StateIn

\* For a chunk with the versions l and the current version cur that takes the
\* version v, the history stays complete.
LEMMA ReplacedIsKept ==
  ASSUME NEW ks \in SUBSET Kept, NEW kn, NEW c, NEW l \in SUBSET Nat,
         NEW s \in Nat, NEW v \in Nat, NEW cur \in Nat, NEW k0,
         k0.tag = v, k0.state = cur, k0.coord = c,
         \A x \in l : x < v /\ x <= cur,
         cur \in l \cup {0},
         \A k \in ks : k.coord = c => k.tag \in l,
         CompleteFor(ks, c, l, s),
         KeepsFor(ks, kn, c, v, k0, s)
  PROVE  CompleteFor(kn, c, l \cup {v}, s)
<1> DEFINE A == KeptAbove(ks, c, s)
           B == KeptAbove(kn, c, s)
           OldestOf(K) == {k \in K : \A j \in K : k.tag <= j.tag}
<1>1. \A k \in A : k.tag \in l /\ k.tag < v /\ k.tag > s /\ k.tag \in Nat
  BY Zenon DEF KeptAbove
<1>2. /\ (\E x \in l : x > s) => OldestOf(A) # {}
      /\ \A k \in OldestOf(A) : StateIn(l, s, k.state)
  BY Zenon DEF CompleteFor, OldestAbove
<1>3. A # {} => OldestOf(A) # {}
  BY <1>1, <1>2
<1>4. \/ B = A /\ (v <= s \/ A # {})
      \/ ~(v <= s) /\ B = A \cup {k0}
  BY DEF KeepsFor
<1> SUFFICES /\ (\E x \in l \cup {v} : x > s) => OldestOf(B) # {}
             /\ \A k \in OldestOf(B) : StateIn(l \cup {v}, s, k.state)
  BY Zenon DEF CompleteFor, OldestAbove
<1> HIDE DEF A, B
<1>5. CASE v <= s
  <2>1. A = {} /\ B = {}
    BY <1>1, <1>4, <1>5
  <2>2. \A x \in l \cup {v} : ~(x > s)
    BY <1>5
  <2> QED
    BY <2>1, <2>2, Zenon
<1>6. CASE ~(v <= s) /\ B = A /\ A # {}
  <2>1. \A k \in OldestOf(B) : StateIn(l \cup {v}, s, k.state)
    BY <1>2, <1>6, StateStays, Zenon
  <2> QED
    BY <1>3, <1>6, <2>1, Zenon
<1>7. CASE ~(v <= s) /\ B = A \cup {k0} /\ A = {}
  <2>1. \A x \in l : ~(x > s)
    BY <1>2, <1>7, Zenon
  <2>2. StateIn(l, s, cur)
    BY <2>1 DEF StateIn
  <2>3. StateIn(l \cup {v}, s, cur)
    BY <1>7, <2>2, StateStays, Zenon
  <2>4. OldestOf(B) = {k0}
    BY <1>7
  <2> QED
    BY <2>3, <2>4, Zenon
<1>8. CASE ~(v <= s) /\ B = A \cup {k0} /\ A # {}
  <2>1. \A j \in A : j.tag <= v /\ ~(v <= j.tag)
    BY <1>1
  <2>2. OldestOf(B) = OldestOf(A)
    BY <1>8, <2>1, Zenon
  <2>3. \A k \in OldestOf(B) : StateIn(l \cup {v}, s, k.state)
    BY <1>2, <1>8, <2>2, StateStays, Zenon
  <2> QED
    BY <1>3, <1>8, <2>2, <2>3, Zenon
<1> QED
  BY <1>4, <1>5, <1>6, <1>7, <1>8, Zenon

\* Publish ends snapshots and drops kept states, but none of a snapshot that
\* stays registered; it keeps the new state if some registered snapshot needs it.
LEMMA PublishKeeps ==
  ASSUME IInv, HistoryFree, NEW k, Publish(kept, snap, k)
  PROVE  /\ snap' \in [Txns -> [phase : {"none", "counted", "read", "open", "ended", "closed"},
                                version : 0..MaxVersion]]
         /\ \A u \in Txns : /\ snap'[u].version = snap[u].version
                            /\ \/ snap'[u] = snap[u]
                               \/ snap[u].phase = "open" /\ snap'[u].phase = "ended"
         /\ \E ks \in SUBSET kept :
              /\ kept' = IF Needed(ks, snap', k.coord, k.tag) THEN ks \cup {k} ELSE ks
              /\ \A u \in Txns : Placed(u)' =>
                   /\ u \in Open(snap') /\ Placed(u)
                   /\ SameAbove(ks, kept, snap[u].version)
<1> USE DEF IInv
<1>1. PICK ts \in SUBSET Open(snap) :
        LET sn2 == Unregister(snap, ts, "ended")
            ks2 == IF ts = {} THEN kept ELSE Prune(kept, sn2)
        IN  /\ Gives(kept, snap, k.coord, k.tag, ts)
            /\ kept' = IF Needed(ks2, sn2, k.coord, k.tag) THEN ks2 \cup {k} ELSE ks2
            /\ snap' = sn2
  BY Zenon DEF Publish
<1> DEFINE ks == IF ts = {} THEN kept ELSE Prune(kept, snap')
<1>2. /\ snap' = Unregister(snap, ts, "ended")
      /\ kept' = IF Needed(ks, snap', k.coord, k.tag) THEN ks \cup {k} ELSE ks
      /\ Gives(kept, snap, k.coord, k.tag, ts)
  BY <1>1, Zenon
<1>3. /\ snap' \in [Txns -> [phase : {"none", "counted", "read", "open", "ended", "closed"},
                             version : 0..MaxVersion]]
      /\ \A u \in Txns : /\ snap'[u].version = snap[u].version
                         /\ \/ snap'[u] = snap[u]
                            \/ snap[u].phase = "open" /\ snap'[u].phase = "ended"
  <2>1. \A u \in Txns : snap[u] \in [phase : {"none", "counted", "read", "open", "ended", "closed"},
                                     version : 0..MaxVersion]
    BY Zenon DEF TypeOK
  <2>2. \A u \in Txns : u \in ts => snap[u].phase = "open"
    BY <1>2, Zenon DEF Open
  <2>3. snap' = [u \in Txns |-> IF u \in ts THEN [snap[u] EXCEPT !.phase = "ended"] ELSE snap[u]]
    BY <1>2, Zenon DEF Unregister
  <2> QED
    BY <2>1, <2>2, <2>3, Zenon
<1>6. ks \in SUBSET kept
  BY Zenon DEF Prune
<1>7. ASSUME NEW u \in Txns, Placed(u)'
      PROVE  u \in Open(snap') /\ Placed(u) /\ SameAbove(ks, kept, snap[u].version)
  <2>1. u \in Open(snap') /\ Placed(u)
    BY <1>3, <1>7, Zenon DEF Placed, HistoryFree, Open
  <2>2. \A d : KeptAbove(Prune(kept, snap'), d, snap'[u].version)
                 = KeptAbove(kept, d, snap'[u].version)
    BY <2>1, PruneKeeps, Zenon
  <2> QED
    BY <1>3, <2>1, <2>2, Zenon DEF SameAbove
<1> HIDE DEF ks
<1> QED
  BY <1>2, <1>3, <1>6, <1>7, Zenon

\* What the application of one chunk does to the history, as a snapshot that
\* stays registered sees it.
LEMMA ApplyHistory ==
  ASSUME IInv, NEW p \in Threads, NEW c \in Chunks, ApplyChunk(p, c), NEW k0,
         k0 = [coord |-> c, tag |-> op[p].version, state |-> current[c]]
  PROVE  /\ snap' \in [Txns -> [phase : {"none", "counted", "read", "open", "ended", "closed"},
                                version : 0..MaxVersion]]
         /\ \A u \in Txns : /\ snap'[u].version = snap[u].version
                            /\ \/ snap'[u] = snap[u]
                               \/ snap[u].phase = "open" /\ snap'[u].phase = "ended"
         /\ kept' \subseteq kept \cup {k0}
         /\ \A u \in Txns : Placed(u)' =>
              Placed(u) /\ KeepsFor(kept, kept', c, op[p].version, k0, snap[u].version)
<1> DEFINE v == op[p].version
<1> USE DEF IInv
<1>1. v \in 0..MaxVersion /\ MaxVersion \in Nat /\ \A u \in Txns : snap[u].version \in 0..MaxVersion
  BY ConstantsAssumption, Zenon DEF TypeOK
<1>2. k0.coord = c /\ k0.tag = v
  BY Zenon
<1>3. CASE op[p].keep
  <2>1. HistoryFree /\ Publish(kept, snap, k0)
    BY <1>3, Zenon DEF ApplyChunk
  <2>2. /\ snap' \in [Txns -> [phase : {"none", "counted", "read", "open", "ended", "closed"},
                                version : 0..MaxVersion]]
        /\ \A u \in Txns : /\ snap'[u].version = snap[u].version
                           /\ \/ snap'[u] = snap[u]
                              \/ snap[u].phase = "open" /\ snap'[u].phase = "ended"
    BY <2>1, PublishKeeps, Zenon
  <2>3. PICK ks \in SUBSET kept :
          /\ kept' = IF Needed(ks, snap', k0.coord, k0.tag) THEN ks \cup {k0} ELSE ks
          /\ \A u \in Txns : Placed(u)' =>
               /\ u \in Open(snap') /\ Placed(u)
               /\ SameAbove(ks, kept, snap[u].version)
    BY <2>1, PublishKeeps, Zenon
  <2>4. kept' \subseteq kept \cup {k0}
    BY <2>3, Zenon
  <2>5. ASSUME NEW u \in Txns, Placed(u)'
        PROVE  Placed(u) /\ KeepsFor(kept, kept', c, v, k0, snap[u].version)
    <3> DEFINE s == snap[u].version
    <3> USE DEF KeepsFor
    <3>1. /\ u \in Open(snap') /\ Placed(u) /\ snap'[u].version = s
          /\ \A d : KeptAbove(ks, d, s) = KeptAbove(kept, d, s)
      BY <2>2, <2>3, <2>5, Zenon DEF SameAbove
    <3>2. \A d : d # c => KeptAbove(ks \cup {k0}, d, s) = KeptAbove(ks, d, s)
      BY <1>2, Zenon DEF KeptAbove
    <3>3. \A d : d # c => KeptAbove(kept', d, s) = KeptAbove(kept, d, s)
      BY <2>3, <3>1, <3>2, Zenon
    <3>4. CASE v <= s
      <4>1. KeptAbove(ks \cup {k0}, c, s) = KeptAbove(ks, c, s)
        BY <1>1, <1>2, <3>4, SMTT(30) DEF KeptAbove
      <4> QED
        BY <2>3, <3>1, <3>3, <3>4, <4>1, Zenon
    <3>5. CASE v > s /\ Needed(ks, snap', c, v)
      <4>1. KeptAbove(ks \cup {k0}, c, s) = KeptAbove(ks, c, s) \cup {k0}
        BY <1>2, <3>5, Zenon DEF KeptAbove
      <4> QED
        BY <1>2, <2>3, <3>1, <3>3, <3>5, <4>1, Zenon
    <3>6. CASE v > s /\ ~Needed(ks, snap', c, v)
      <4>1. PICK k \in ks : k.coord = c /\ \A t \in Open(snap') : ~(snap'[t].version >= k.tag)
        BY <3>1, <3>6, Zenon DEF Needed
      <4>2. k.tag \in Nat /\ ~(s >= k.tag)
        BY <1>1, <3>1, <4>1, SMTT(30) DEF TypeOK, Kept
      <4>3. k \in KeptAbove(ks, c, s)
        BY <1>1, <4>1, <4>2, SMTT(30) DEF KeptAbove
      <4> QED
        BY <1>2, <2>3, <3>1, <3>3, <3>6, <4>3, Zenon
    <3> QED
      BY <1>1, <3>4, <3>5, <3>6, SMTT(30)
  <2> QED
    BY <2>2, <2>4, <2>5, Zenon
<1>4. CASE ~op[p].keep
  <2>1. UNCHANGED <<kept, snap>>
    BY <1>4, Zenon DEF ApplyChunk
  <2>2. op[p].step = "apply"
    BY Zenon DEF ApplyChunk
  <2>3. \A u \in Txns : Placed(u)' => Placed(u) /\ v <= snap[u].version
    BY <1>4, <2>1, <2>2, Zenon DEF UnkeptBelow, Placed
  <2> QED
    BY <2>1, <2>3, Zenon DEF TypeOK, KeepsFor
<1> QED
  BY <1>3, <1>4, Zenon

\* The application of one chunk, with its kept state, preserves the invariant.
LEMMA ApplyChunkStep ==
  ASSUME IInv, NEW p \in Threads, NEW c \in Chunks, ApplyChunk(p, c)
  PROVE  IInv'
<1> DEFINE v == op[p].version
           k0 == [coord |-> c, tag |-> v, state |-> current[c]]
<1> USE DEF IInv
<1>1. /\ op[p].step = "apply" /\ c \in op[p].todo
      /\ current' = [current EXCEPT ![c] = v]
      /\ log' = [log EXCEPT ![c] = @ \cup {v}]
      /\ Release(p) \/ op' = [op EXCEPT ![p].todo = @ \ {c}]
      /\ done' = [t \in Txns |-> IF t = p THEN v ELSE done[t]]
      /\ UNCHANGED <<clock, copy, seen, refused>>
  BY Zenon DEF ApplyChunk
<1>2. /\ MaxVersion \in Nat /\ clock \in Nat /\ v \in 1..MaxVersion /\ v < clock
      /\ c \in Pending(p) /\ \A x \in log[c] : x < v /\ x \in Nat
  BY <1>1, ConstantsAssumption DEF TypeOK, BelowClock, Pending, PendingIsNew
<1>3. /\ HoldsExclusive(p, c)
      /\ \A q \in Threads : q # p => c \notin op[q].held /\ c \notin Pending(q)
  BY <1>2, PendingLocked, Zenon DEF HoldsExclusive
<1>4. /\ snap' \in [Txns -> [phase : {"none", "counted", "read", "open", "ended", "closed"},
                             version : 0..MaxVersion]]
      /\ \A u \in Txns : /\ snap'[u].version = snap[u].version
                         /\ \/ snap'[u] = snap[u]
                            \/ snap[u].phase = "open" /\ snap'[u].phase = "ended"
      /\ kept' \subseteq kept \cup {k0}
  BY ApplyHistory, Zenon
<1>5. \A u \in Txns : Placed(u)' =>
        Placed(u) /\ KeepsFor(kept, kept', c, v, k0, snap[u].version)
  BY ApplyHistory, Zenon
<1>6. /\ log'[c] = log[c] \cup {v} /\ \A d \in Chunks : d # c => log'[d] = log[d]
      /\ current'[c] = v /\ \A d \in Chunks : d # c => current'[d] = current[d]
      /\ log' \in [Chunks -> SUBSET (1..MaxVersion)]
      /\ current' \in [Chunks -> 0..MaxVersion]
  BY <1>1, <1>2, Zenon DEF TypeOK
<1>7. /\ \A t \in Txns : t # p => done'[t] = done[t]
      /\ p \in Txns => done'[p] = v
      /\ done' \in [Txns -> 0..MaxVersion]
  BY <1>1, <1>2, Zenon DEF TypeOK
<1>8. /\ op' \in [Threads -> Op] /\ \A q \in Threads : op'[q].step = "idle" => op'[q] = Idle
      /\ \A q \in Threads : q # p => op'[q] = op[q] /\ Pending(q)' = Pending(q)
      /\ Pending(p)' \subseteq Pending(p) /\ c \notin Pending(p)'
      /\ \/ op'[p] = Idle /\ Pending(p)' = {} /\ Release(p)
         \/ /\ op'[p].step = "apply" /\ op'[p].version = v /\ op'[p].keep = op[p].keep
            /\ op'[p].writes = op[p].writes /\ op'[p].reads = op[p].reads
            /\ op'[p].held = op[p].held /\ op'[p].todo \subseteq op[p].todo
  <2>1. CASE Release(p)
    BY <2>1, ReleaseFacts, Zenon
  <2>2. CASE op' = [op EXCEPT ![p].todo = @ \ {c}]
    <3> DEFINE new == [op[p] EXCEPT !.todo = @ \ {c}]
    <3>1. op[p] \in Op
      BY Zenon DEF TypeOK, Op
    <3>2. /\ new \in Op /\ new.step = "apply" /\ new.version = v /\ new.keep = op[p].keep
          /\ new.writes = op[p].writes /\ new.reads = op[p].reads
          /\ new.held = op[p].held /\ new.todo = op[p].todo \ {c}
      BY <1>1, <3>1, Zenon DEF Op
    <3>3. op' = [op EXCEPT ![p] = new]
      BY <2>2, Zenon
    <3> HIDE DEF new
    <3>4. /\ op' \in [Threads -> Op] /\ \A q \in Threads : op'[q].step = "idle" => op'[q] = Idle
          /\ op'[p] = new
          /\ \A q \in Threads : q # p => op'[q] = op[q]
      BY <3>2, <3>3, OpChange, Zenon
    <3> QED
      BY <1>1, <3>2, <3>4, Zenon DEF Pending
  <2> QED
    BY <1>1, <2>1, <2>2, Zenon
<1>9. TypeOK'
  <2>1. kept' \subseteq Kept
    BY <1>2, <1>4 DEF TypeOK, Kept
  <2> QED
    BY <1>1, <1>4, <1>6, <1>7, <1>8, <2>1, Zenon DEF TypeOK, Op
<1>10. LocksExclusive'
  <2>1. CASE Release(p)
    BY <2>1, ReleaseLocks, Zenon
  <2>2. CASE op'[p].held = op[p].held /\ op'[p].writes = op[p].writes
    BY <1>8, <2>2, ZenonT(60) DEF LocksExclusive, HoldsExclusive
  <2> QED
    BY <1>8, <2>1, <2>2, Zenon
<1>11. LocksHeld'
  BY <1>1, <1>8, IdleIsOp, ZenonT(60) DEF LocksHeld
<1>12. SessionOrder'
  <2> SUFFICES ASSUME NEW u \in Txns
      PROVE  /\ snap'[u].phase \in {"none", "counted", "read"} =>
                  seen[u] = {} /\ copy[u] = NoCopy /\ op'[u] = Idle
             /\ copy[u] # NoCopy => op'[u] = Idle /\ snap'[u].phase # "closed"
             /\ op'[u].step \in {"version", "count", "apply"} => snap'[u].phase = "closed"
             /\ done'[u] > 0 => snap'[u].phase = "closed"
             /\ op'[u] # Idle => op'[u].writes \cup op'[u].reads = {r[1] : r \in seen[u]}
    BY <1>1, Zenon DEF SessionOrder
  <2>1. CASE u = p
    <3>1. snap[p].phase = "closed" /\ snap'[p] = snap[p] /\ op[p] # Idle /\ copy[p] = NoCopy
      BY <1>1, <1>4, <2>1, IdleIsOp, Zenon DEF SessionOrder
    <3> QED
      BY <1>8, <2>1, <3>1, IdleIsOp, Zenon DEF SessionOrder
  <2>2. CASE u # p
    BY <1>4, <1>7, <1>8, <2>2, SMTT(30) DEF SessionOrder, Threads
  <2> QED
    BY <2>1, <2>2, Zenon
<1>13. BelowClock'
  <2>1. \A d \in Chunks : \A x \in log'[d] : x < clock
    BY <1>2, <1>6, Zenon DEF BelowClock
  <2>2. \A t \in Txns : snap'[t].version < clock /\ done'[t] < clock
    BY <1>2, <1>4, <1>7, Zenon DEF BelowClock
  <2>3. \A q \in Threads : op'[q].step \in {"count", "apply"} =>
                             op'[q].version < clock /\ op'[q].version > 0
    BY <1>1, <1>8, IdleIsOp, Zenon DEF BelowClock
  <2> QED
    BY <1>1, <2>1, <2>2, <2>3, Zenon DEF BelowClock
<1>14. CurrentIsLast'
  BY <1>2, <1>6, SMTT(30) DEF CurrentIsLast
<1>15. PendingIsNew'
  <2> SUFFICES ASSUME NEW q \in Threads, NEW d \in Pending(q)', NEW x \in log'[d]
               PROVE  x < op'[q].version
    BY Zenon DEF PendingIsNew
  <2>1. d # c /\ d \in Pending(q) /\ op'[q].version = op[q].version
    BY <1>3, <1>8, Zenon
  <2>2. d \in Chunks
    BY <2>1, Zenon DEF Pending, TypeOK
  <2> QED
    BY <1>6, <2>1, <2>2, Zenon DEF PendingIsNew
<1>16. KeptLogged'
  <2>1. k0.coord = c /\ k0.tag = v /\ \A k \in kept : k.coord \in Chunks
    BY Zenon DEF TypeOK, Kept
  <2> HIDE DEF k0
  <2> QED
    BY <1>4, <1>6, <2>1 DEF KeptLogged
<1>17. HistoryComplete'
  <2> SUFFICES ASSUME NEW u \in Txns, NEW d \in Chunks, Placed(u)'
               PROVE  CompleteFor(kept', d, log'[d], snap[u].version)
    BY <1>4, ZenonT(60) DEF HistoryComplete, IsStateAt, StateIn, CompleteFor
  <2> DEFINE s == snap[u].version
  <2>1. Placed(u) /\ KeepsFor(kept, kept', c, v, k0, s)
    BY <1>5, Zenon
  <2>2. \A e \in Chunks : CompleteFor(kept, e, log[e], s)
    BY <2>1, Zenon DEF HistoryComplete, IsStateAt, StateIn, CompleteFor
  <2>3. CASE d = c
    <3>1. k0.tag = v /\ k0.state = current[c] /\ k0.coord = c
      BY Zenon
    <3>2. /\ log[c] \in SUBSET Nat /\ s \in Nat /\ v \in Nat /\ current[c] \in Nat
          /\ kept \in SUBSET Kept
      BY <1>2, SMTT(30) DEF TypeOK
    <3>3. /\ \A x \in log[c] : x < v /\ x <= current[c]
          /\ current[c] \in log[c] \cup {0}
          /\ \A k \in kept : k.coord = c => k.tag \in log[c]
      BY <1>2, Zenon DEF CurrentIsLast, KeptLogged
    <3> HIDE DEF k0, v, s
    <3>4. CompleteFor(kept', c, log[c] \cup {v}, s)
      BY <2>1, <2>2, <3>1, <3>2, <3>3, ReplacedIsKept, Zenon
    <3> QED
      BY <1>6, <2>3, <3>4, Zenon DEF v, s
  <2>4. CASE d # c
    <3>1. KeptAbove(kept', d, s) = KeptAbove(kept, d, s)
      BY <2>1, <2>4, Zenon DEF KeepsFor
    <3>2. OldestAbove(kept', d, s) = OldestAbove(kept, d, s)
      BY <3>1, Zenon DEF OldestAbove
    <3> QED
      BY <1>6, <2>2, <2>4, <3>1, <3>2, Zenon DEF CompleteFor
  <2> QED
    BY <2>3, <2>4, Zenon
<1>18. UnkeptBelow'
  BY <1>1, <1>4, <1>5, <1>8, IdleIsOp, SMTT(30) DEF UnkeptBelow
<1>19. ReadsSettled'
  <2>1. \A q \in Threads : \A d \in Pending(q)' : d \in Pending(q) /\ op'[q].version = op[q].version
    BY <1>8, Zenon
  <2> QED
    BY <1>1, <1>4, <2>1, ZenonT(60) DEF ReadsSettled, HasRead
<1>20. ASSUME NEW t \in Txns, HasRead(t, c) \/ (copy[t] # NoCopy /\ copy[t][1] = c)
       PROVE  ~(v <= snap[t].version)
  BY <1>2, <1>20, SMTT(30) DEF ReadsSettled, TypeOK
<1>21. CopyRight'
  <2> SUFFICES ASSUME NEW t \in Txns, copy[t] # NoCopy
               PROVE  \/ StateIn(log'[copy[t][1]], snap[t].version, copy[t][2])
                      \/ \E x \in log'[copy[t][1]] : x > snap[t].version
    BY <1>1, <1>4, Zenon DEF CopyRight, IsStateAt, StateIn
  <2>1. \/ StateIn(log[copy[t][1]], snap[t].version, copy[t][2])
        \/ \E x \in log[copy[t][1]] : x > snap[t].version
    BY Zenon DEF CopyRight, IsStateAt, StateIn
  <2>2. copy[t][1] \in Chunks
    BY Zenon DEF TypeOK
  <2>3. CASE copy[t][1] = c
    BY <1>6, <1>20, <2>1, <2>3, StateStays, SMTT(30)
  <2>4. CASE copy[t][1] # c
    BY <1>6, <2>1, <2>2, <2>4, Zenon
  <2> QED
    BY <2>3, <2>4, Zenon
<1>22. Validated'
  <2> SUFFICES ASSUME NEW t \in Txns, op'[t].step \in {"version", "count", "apply"},
                      NEW r \in seen[t], NEW x \in log'[r[1]]
               PROVE  x <= snap[t].version \/ (op'[t].step = "apply" /\ x = op'[t].version)
    BY <1>1, <1>4, SMTT(30) DEF Validated
  <2>1. r[1] \in Chunks /\ t \in Threads
    BY SMTT(30) DEF TypeOK, Threads
  <2>2. CASE t = p
    <3>1. op'[p].step = "apply" /\ op'[p].version = v
      BY <1>8, <2>2, IdleIsOp, Zenon
    <3>2. x \in log[r[1]] \/ x = v
      BY <1>6, <2>1, Zenon
    <3> QED
      BY <1>1, <2>2, <3>1, <3>2, Zenon DEF Validated
  <2>3. CASE t # p
    <3>1. op'[t] = op[t] /\ op[t] # Idle
      BY <1>8, <2>1, <2>3, IdleIsOp, Zenon
    <3>2. r[1] \in op[t].held
      BY <2>1, <3>1, Zenon DEF SessionOrder, LocksHeld
    <3>3. r[1] # c
      BY <1>3, <2>1, <2>3, <3>2, Zenon
    <3>4. x \in log[r[1]]
      BY <1>6, <2>1, <3>3, Zenon
    <3> QED
      BY <3>1, <3>4, Zenon DEF Validated
  <2> QED
    BY <2>2, <2>3, Zenon
<1>23. CommitsOrdered'
  <2> SUFFICES ASSUME NEW t \in Txns, NEW q \in Threads, NEW d \in Pending(q)',
                      done'[t] > 0, HasRead(t, d)
               PROVE  op'[q].version >= done'[t]
    BY <1>1, Zenon DEF CommitsOrdered, HasRead
  <2>1. d \in Pending(q) /\ op'[q].version = op[q].version /\ d # c
    BY <1>3, <1>8, Zenon
  <2>2. CASE t = p /\ q = p
    BY <1>2, <1>7, <2>1, <2>2
  <2>3. CASE t = p /\ q # p
    <3>1. op[t] # Idle
      BY <1>1, <2>3, IdleIsOp, Zenon
    <3>2. d \in op[t].held
      BY <1>1, <2>3, <3>1, SMTT(30) DEF SessionOrder, LocksHeld, HasRead
    <3> QED
      BY <2>1, <2>3, <3>2, PendingLocked, Zenon
  <2>4. CASE t # p
    BY <1>7, <2>1, <2>4, Zenon DEF CommitsOrdered
  <2> QED
    BY <2>2, <2>3, <2>4, Zenon
<1>24. SnapshotReads'
  <2> SUFFICES ASSUME NEW t \in Txns, NEW r \in seen[t]
               PROVE  StateIn(log'[r[1]], snap[t].version, r[2])
    BY <1>1, <1>4, Zenon DEF SnapshotReads, IsStateAt, StateIn
  <2>1. StateIn(log[r[1]], snap[t].version, r[2]) /\ r[1] \in Chunks
    BY SMTT(30) DEF SnapshotReads, IsStateAt, StateIn, TypeOK
  <2>2. CASE r[1] = c
    <3>1. ~(v <= snap[t].version)
      BY <1>20, <2>2, Zenon DEF HasRead
    <3> QED
      BY <1>6, <2>1, <2>2, <3>1, StateStays, SMTT(30)
  <2>3. CASE r[1] # c
    BY <1>6, <2>1, <2>3, Zenon
  <2> QED
    BY <2>2, <2>3, Zenon
<1>25. Serializable'
  <2> SUFFICES ASSUME NEW t \in Txns, done'[t] > 0, NEW r \in seen[t]
               PROVE  StateIn(log'[r[1]], done'[t] - 1, r[2])
    BY <1>1, Zenon DEF Serializable, IsStateAt, StateIn
  <2>1. r[1] \in Chunks /\ r[2] \in 0..MaxVersion /\ snap[t].version \in 0..MaxVersion
        /\ log[r[1]] \in SUBSET (1..MaxVersion)
    BY SMTT(30) DEF TypeOK
  <2>2. CASE t = p
    <3>1. op[t] # Idle
      BY <1>1, <2>2, IdleIsOp, Zenon
    \* t's version is above its snapshot: it read what it writes
    <3>2. snap[t].version < v
      <4>1. c \in op[t].writes
        BY <1>3, <2>2, Zenon DEF HoldsExclusive
      <4>2. HasRead(t, c)
        BY <3>1, <4>1 DEF SessionOrder, HasRead
      <4> QED
        BY <1>2, <1>20, <2>1, <4>2
    <3>3. StateIn(log[r[1]], snap[t].version, r[2])
      BY Zenon DEF SnapshotReads, IsStateAt, StateIn
    <3>4. \A x \in log'[r[1]] : x <= snap[t].version \/ x = v
      BY <1>1, <1>6, <2>1, <2>2, SMTT(30) DEF Validated
    <3>5. r[2] \in log'[r[1]] \cup {0} /\ log'[r[1]] \subseteq log[r[1]] \cup {v}
      BY <1>6, <2>1, <3>3, Zenon DEF StateIn
    <3>6. r[2] <= v - 1
      BY <1>2, <2>1, <3>2, <3>3 DEF StateIn
    <3>7. \A x \in log'[r[1]] : x <= v - 1 => x <= r[2]
      BY <1>2, <3>3, <3>4, <3>5, SMTT(30) DEF StateIn
    <3> QED
      BY <1>7, <2>2, <3>5, <3>6, <3>7, Zenon DEF StateIn
  <2>3. CASE t # p
    <3>1. done'[t] = done[t] /\ done[t] \in 0..MaxVersion
      BY <1>7, <2>3, Zenon DEF TypeOK
    <3>2. StateIn(log[r[1]], done[t] - 1, r[2])
      BY <3>1, Zenon DEF Serializable, IsStateAt, StateIn
    <3>3. CASE r[1] = c
      <4>1. v >= done[t]
        BY <1>2, <3>1, <3>3, Zenon DEF CommitsOrdered, HasRead
      <4>2. ~(v <= done[t] - 1)
        BY <1>2, <3>1, <4>1
      <4> QED
        BY <1>6, <3>1, <3>2, <3>3, <4>2, StateStays
    <3>4. CASE r[1] # c
      BY <1>6, <2>1, <3>1, <3>2, <3>4, Zenon
    <3> QED
      BY <3>3, <3>4, Zenon
  <2> QED
    BY <2>2, <2>3, Zenon
<1>26. ConflictsAreReal'
  <2>1. \A d \in Chunks : log[d] \subseteq log'[d]
    BY <1>6, Zenon
  <2>2. \A t \in refused : t \in Txns /\ \A r \in seen[t] : r[1] \in Chunks
    BY DEF TypeOK
  <2> QED
    BY <1>1, <1>4, <2>1, <2>2, Zenon DEF ConflictsAreReal
<1> QED
  BY <1>9, <1>10, <1>11, <1>12, <1>13, <1>14, <1>15, <1>16, <1>17, <1>18, <1>19, Zenon,
     <1>21, <1>22, <1>23, <1>24, <1>25, <1>26

-----------------------------------------------------------------------------
(* The theorems *)

\* The invariant depends on the variables only.
LEMMA StutterInv ==
  ASSUME IInv, UNCHANGED vars
  PROVE  IInv'
<1> USE DEF IInv, vars
<1>1. \A p \in Threads : Pending(p)' = Pending(p)
  BY Zenon DEF Pending
<1>2. TypeOK' /\ KeptLogged' /\ BelowClock' /\ CurrentIsLast' /\ PendingIsNew'
  BY <1>1, Zenon DEF TypeOK, KeptLogged, BelowClock, CurrentIsLast, PendingIsNew
<1>3. LocksExclusive' /\ LocksHeld' /\ SessionOrder'
  BY Zenon DEF LocksExclusive, LocksHeld, HoldsExclusive, SessionOrder
<1>4. HistoryComplete' /\ UnkeptBelow' /\ CopyRight'
  BY ZenonT(60) DEF HistoryComplete, UnkeptBelow, CopyRight, Placed, IsStateAt
<1>5. ReadsSettled' /\ Validated' /\ CommitsOrdered'
  BY <1>1, ZenonT(60) DEF ReadsSettled, Validated, CommitsOrdered, HasRead
<1>6. SnapshotReads' /\ Serializable' /\ ConflictsAreReal'
  BY Zenon DEF SnapshotReads, Serializable, ConflictsAreReal, IsStateAt
<1> QED
  BY <1>2, <1>3, <1>4, <1>5, <1>6, Zenon

\* Every step preserves the invariant.
LEMMA NextInv ==
  ASSUME IInv, [Next]_vars
  PROVE  IInv'
<1>1. ASSUME NEW t \in Txns, CountSnapshot(t) \/ ReadClock(t) \/ InsertSnapshot(t) PROVE IInv'
  BY <1>1, CountSnapshotStep, ReadClockStep, InsertSnapshotStep, Zenon
<1>2. ASSUME NEW t \in Txns, Expire(t) \/ Rollback(t) \/ VisitAt(t) PROVE IInv'
  BY <1>2, ExpireStep, RollbackStep, VisitAtStep, Zenon
<1>3. ASSUME NEW t \in Txns, Lock(t) \/ Validate(t) \/ CommitRefused(t) PROVE IInv'
  BY <1>3, LockStep, ValidateStep, CommitRefusedStep, Zenon
<1>4. ASSUME NEW t \in Txns, NEW c \in Chunks, CopyState(t, c) PROVE IInv'
  BY <1>4, CopyStateStep, Zenon
<1>5. ASSUME NEW t \in Txns, NEW ws \in SUBSET Chunks, StartCommit(t, ws) PROVE IInv'
  BY <1>5, StartCommitStep, Zenon
<1>6. ASSUME NEW w \in Writers, NEW c \in Chunks, StartWrite(w, c) PROVE IInv'
  BY <1>6, StartWriteStep, Zenon
<1>7. ASSUME NEW p \in Threads, TakeVersion(p) \/ LoadCount(p) \/ GiveUp(p) PROVE IInv'
  BY <1>7, TakeVersionStep, LoadCountStep, GiveUpStep, Zenon
<1>8. ASSUME NEW p \in Threads, NEW c \in Chunks, ApplyChunk(p, c) PROVE IInv'
  BY <1>8, ApplyChunkStep, Zenon
<1>9. CASE UNCHANGED vars
  BY <1>9, StutterInv, Zenon
<1> QED
  BY <1>1, <1>2, <1>3, <1>4, <1>5, <1>6, <1>7, <1>8, <1>9, Zenon DEF Next

\* The inductive invariant holds in every reachable state, for any numbers of
\* chunks, transactions and writers.
THEOREM InvariantAlways == Spec => []IInv
<1>1. Init => IInv
  BY InitInv, Zenon
<1>2. IInv /\ [Next]_vars => IInv'
  BY NextInv, Zenon
<1> QED
  BY <1>1, <1>2, PTL DEF Spec

\* Type correctness: every variable keeps its type, and a thread outside of
\* writes and commits holds no lock.
THEOREM TypeCorrect == Spec => []TypeOK
<1>1. IInv => TypeOK
  BY Zenon DEF IInv
<1> QED
  BY <1>1, InvariantAlways, PTL

\* Snapshot isolation: ReadChunkStateAt and VisitAt give every transaction the
\* states of its snapshot's version.
THEOREM SnapshotIsolation == Spec => []SnapshotReads
<1>1. IInv => SnapshotReads
  BY Zenon DEF IInv
<1> QED
  BY <1>1, InvariantAlways, PTL

\* Committed transactions are serializable in the order of their versions:
\* ValidateAndEnd under the chunk locks lets none commit over a changed read.
THEOREM CommitsSerializable == Spec => []Serializable
<1>1. IInv => Serializable
  BY Zenon DEF IInv
<1> QED
  BY <1>1, InvariantAlways, PTL

\* ValidateAndEnd answers chunk_changed only for a chunk that was read and has
\* changed since the snapshot.
THEOREM RefusalsJustified == Spec => []ConflictsAreReal
<1>1. IInv => ConflictsAreReal
  BY Zenon DEF IInv
<1> QED
  BY <1>1, InvariantAlways, PTL

-----------------------------------------------------------------------------
(* The bound of the history.  Publish lets the oldest snapshots give way      *)
(* before it keeps a state over the limit, and every end of a snapshot       *)
(* prunes what no registered snapshot is older than.                         *)

\* HistoryBounded needs the finiteness of kept to speak of its cardinality.
LimitInv ==
  /\ IsFiniteSet(kept)
  /\ HistoryBounded

\* The initial history is empty.
LEMMA InitLimit == Init => LimitInv
  BY FS_EmptySet, ConstantsAssumption, SMTT(30) DEF Init, LimitInv, HistoryBounded

\* A step that leaves the kept states alone and ends no registered snapshot.
LEMMA SameKeptLimit ==
  ASSUME LimitInv, kept' = kept,
         \A u \in Open(snap) : u \in Open(snap') /\ snap'[u].version = snap[u].version
  PROVE  LimitInv'
<1>1. \A k \in kept' : \E u \in Open(snap') : snap'[u].version < k.tag
  BY Zenon DEF LimitInv, HistoryBounded
<1>2. IsFiniteSet(kept') /\ Cardinality(kept') <= HistoryLimit
  BY Zenon DEF LimitInv, HistoryBounded
<1> QED
  BY <1>1, <1>2, Zenon DEF LimitInv, HistoryBounded

\* A part of the kept states is finite and within the limit.
LEMMA PartWithinLimit ==
  ASSUME LimitInv, NEW ks \in SUBSET kept
  PROVE  IsFiniteSet(ks) /\ Cardinality(ks) \in Nat /\ Cardinality(ks) <= HistoryLimit
<1>1. IsFiniteSet(kept) /\ Cardinality(kept) <= HistoryLimit
  BY Zenon DEF LimitInv, HistoryBounded
<1>2. IsFiniteSet(ks) /\ Cardinality(ks) <= Cardinality(kept)
  BY <1>1, FS_Subset, Zenon
<1>3. Cardinality(ks) \in Nat /\ Cardinality(kept) \in Nat
  BY <1>1, <1>2, FS_CardinalityType, Zenon
<1> QED
  BY <1>1, <1>2, <1>3, ConstantsAssumption, SMTT(30)

\* The snapshots that end take the states only they needed with them.
LEMMA PruneLimit ==
  ASSUME LimitInv, kept' = Prune(kept, snap')
  PROVE  LimitInv'
<1>1. kept' \in SUBSET kept /\ \A k \in kept' : \E u \in Open(snap') : snap'[u].version < k.tag
  BY Zenon DEF Prune
<1>2. IsFiniteSet(kept') /\ Cardinality(kept') <= HistoryLimit
  BY <1>1, PartWithinLimit, Zenon
<1> QED
  BY <1>1, <1>2, Zenon DEF LimitInv, HistoryBounded

\* A transaction that goes ends at most its own snapshot.
LEMMA CloseLimit ==
  ASSUME TypeOK, LimitInv, NEW t \in Txns, CloseSnapshot(t)
  PROVE  LimitInv'
<1>1. CASE t \in Open(snap)
  BY <1>1, PruneLimit, Zenon DEF CloseSnapshot
<1>2. CASE t \notin Open(snap)
  <2>1. kept' = kept /\ snap' = Unregister(snap, {t}, "closed")
    BY <1>2, Zenon DEF CloseSnapshot
  <2>2. \A u \in Open(snap) : u \in Txns /\ u # t
    BY <1>2, Zenon DEF Open
  <2>3. \A u \in Open(snap) : snap'[u] = snap[u]
    BY <2>1, <2>2, Zenon DEF Unregister
  <2>4. \A u \in Open(snap) : u \in Open(snap') /\ snap'[u].version = snap[u].version
    BY <2>3, Zenon DEF Open
  <2> QED
    BY <2>1, <2>4, SameKeptLimit, Zenon
<1> QED
  BY <1>1, <1>2, Zenon

\* Publish keeps the replaced state only where it fits.
LEMMA PublishLimit ==
  ASSUME TypeOK, LimitInv, NEW k, Publish(kept, snap, k)
  PROVE  LimitInv'
<1>1. PICK ts \in SUBSET Open(snap) :
        LET sn2 == Unregister(snap, ts, "ended")
            ks2 == IF ts = {} THEN kept ELSE Prune(kept, sn2)
        IN  /\ Gives(kept, snap, k.coord, k.tag, ts)
            /\ kept' = IF Needed(ks2, sn2, k.coord, k.tag) THEN ks2 \cup {k} ELSE ks2
            /\ snap' = sn2
  BY Zenon DEF Publish
<1> DEFINE ks == IF ts = {} THEN kept ELSE Prune(kept, snap')
<1>2. /\ snap' = Unregister(snap, ts, "ended")
      /\ kept' = IF Needed(ks, snap', k.coord, k.tag) THEN ks \cup {k} ELSE ks
      /\ Gives(kept, snap, k.coord, k.tag, ts)
  BY <1>1, Zenon
<1>3. ts = {} => snap' = snap
  BY <1>2, Zenon DEF Unregister, TypeOK
<1>4. ks = Prune(kept, snap')
  BY <1>3, Zenon DEF Prune, LimitInv, HistoryBounded
<1>5. ks \in SUBSET kept /\ \A j \in ks : \E u \in Open(snap') : snap'[u].version < j.tag
  BY <1>4, Zenon DEF Prune
<1>6. Needed(ks, snap', k.coord, k.tag) => Cardinality(ks) + 1 <= HistoryLimit
  BY <1>2, <1>4, Zenon DEF Gives
<1> HIDE DEF ks
<1>7. IsFiniteSet(ks) /\ Cardinality(ks) \in Nat /\ Cardinality(ks) <= HistoryLimit
  BY <1>5, PartWithinLimit, Zenon
<1>8. CASE Needed(ks, snap', k.coord, k.tag)
  <2>1. kept' = ks \cup {k}
    BY <1>2, <1>8, Zenon
  <2>2. /\ IsFiniteSet(kept')
        /\ Cardinality(kept') = IF k \in ks THEN Cardinality(ks) ELSE Cardinality(ks) + 1
    BY <1>7, <2>1, FS_AddElement, Zenon
  <2>3. Cardinality(kept') <= HistoryLimit
    BY <1>6, <1>7, <1>8, <2>2, ConstantsAssumption, Zenon
  <2>4. \E u \in Open(snap') : snap'[u].version < k.tag
    BY <1>8, Zenon DEF Needed
  <2>5. \A j \in kept' : \E u \in Open(snap') : snap'[u].version < j.tag
    BY <1>5, <2>1, <2>4, Zenon
  <2> QED
    BY <2>2, <2>3, <2>5, Zenon DEF LimitInv, HistoryBounded
<1>9. CASE ~Needed(ks, snap', k.coord, k.tag)
  <2>1. kept' = ks
    BY <1>2, <1>9, Zenon
  <2> QED
    BY <1>5, <1>7, <2>1, Zenon DEF LimitInv, HistoryBounded
<1> QED
  BY <1>8, <1>9, Zenon

\* Every step keeps the history within its limit.
LEMMA NextLimit ==
  ASSUME TypeOK, LimitInv, [Next]_vars
  PROVE  LimitInv'
<1>1. CASE UNCHANGED <<kept, snap>>
  BY <1>1, SameKeptLimit, Zenon
<1>2. ASSUME NEW t \in Txns, CountSnapshot(t) \/ ReadClock(t) \/ InsertSnapshot(t)
      PROVE  LimitInv'
  <2>1. kept' = kept
    BY <1>2, Zenon DEF CountSnapshot, ReadClock, InsertSnapshot
  <2>2. \A u \in Open(snap) : u \in Open(snap') /\ snap'[u].version = snap[u].version
    <3>1. CASE CountSnapshot(t)
      BY <3>1, Zenon DEF CountSnapshot, Open, TypeOK
    <3>2. CASE ReadClock(t)
      BY <3>2, Zenon DEF ReadClock, Open, TypeOK
    <3>3. CASE InsertSnapshot(t)
      BY <3>3, Zenon DEF InsertSnapshot, Open, TypeOK
    <3> QED
      BY <1>2, <3>1, <3>2, <3>3, Zenon
  <2> QED
    BY <2>1, <2>2, SameKeptLimit, Zenon
<1>3. ASSUME NEW t \in Txns, Expire(t)
      PROVE  LimitInv'
  BY <1>3, PruneLimit, Zenon DEF Expire
<1>4. ASSUME NEW t \in Txns, Rollback(t) \/ Validate(t) \/ CommitRefused(t)
      PROVE  LimitInv'
  <2>1. CloseSnapshot(t)
    BY <1>4, Zenon DEF Rollback, Validate, CommitRefused
  <2> QED
    BY <2>1, CloseLimit, Zenon
<1>5. ASSUME NEW p \in Threads, NEW c \in Chunks, ApplyChunk(p, c)
      PROVE  LimitInv'
  <2>1. \/ Publish(kept, snap, [coord |-> c, tag |-> op[p].version, state |-> current[c]])
        \/ UNCHANGED <<kept, snap>>
    BY <1>5, Zenon DEF ApplyChunk
  <2> QED
    BY <1>1, <2>1, PublishLimit, Zenon
<1>6. ASSUME NEW t \in Txns, NEW c \in Chunks, CopyState(t, c)
      PROVE  UNCHANGED <<kept, snap>>
  BY <1>6, Zenon DEF CopyState
<1>7. ASSUME NEW t \in Txns, NEW ws \in SUBSET Chunks, StartCommit(t, ws)
      PROVE  UNCHANGED <<kept, snap>>
  BY <1>7, Zenon DEF StartCommit
<1>8. ASSUME NEW t \in Txns, VisitAt(t) \/ Lock(t)
      PROVE  UNCHANGED <<kept, snap>>
  BY <1>8, Zenon DEF VisitAt, Lock
<1>9. ASSUME NEW w \in Writers, NEW c \in Chunks, StartWrite(w, c)
      PROVE  UNCHANGED <<kept, snap>>
  BY <1>9, Zenon DEF StartWrite
<1>10. ASSUME NEW p \in Threads, TakeVersion(p) \/ LoadCount(p) \/ GiveUp(p)
       PROVE  UNCHANGED <<kept, snap>>
  BY <1>10, Zenon DEF TakeVersion, LoadCount, GiveUp
<1>11. CASE UNCHANGED vars
  BY <1>1, <1>11, Zenon DEF vars
<1>12. CASE Next
  BY <1>1, <1>2, <1>3, <1>4, <1>5, <1>6, <1>7, <1>8, <1>9, <1>10, <1>12, Zenon DEF Next
<1> QED
  BY <1>11, <1>12, Zenon

\* The history of kept states stays within limit_bytes_ and holds nothing that
\* no registered snapshot could ask for: Publish ends snapshots before it goes
\* over, UnregisterLocked and PruneLocked leave nothing behind.
THEOREM HistoryWithinLimit == Spec => []HistoryBounded
<1>1. Init => LimitInv
  BY InitLimit, Zenon
<1>2. TypeOK /\ TypeOK' /\ LimitInv /\ [Next]_vars => LimitInv'
  BY NextLimit, Zenon
<1>3. LimitInv => HistoryBounded
  BY Zenon DEF LimitInv
<1> QED
  BY <1>1, <1>2, <1>3, TypeCorrect, PTL DEF Spec

-----------------------------------------------------------------------------
(* Commits and writes never wait for each other in a circle.  A commit takes
   the locks of its chunks in the order of their coordinates, so what it holds
   lies below what it wants (LockOrder).  Whoever waits for a chunk waits for a
   thread that is done locking, or that waits for a chunk further on; and of
   the chunks waited for, one has no other above it. *)

LockOrder ==
  \A p \in Threads : op[p].step = "lock" =>
    /\ Wants(p) # {}
    /\ \A c \in op[p].held, d \in Wants(p) : c < d

\* Every nonempty set of naturals has a least element.
LEMMA LeastNatural ==
  ASSUME NEW S \in SUBSET Nat, S # {}
  PROVE  \E n \in S : \A m \in S : n <= m
<1> DEFINE less == {ss \in Nat \X Nat : ss[1] < ss[2]}
<1>1. IsWellFoundedOn(less, Nat)
  BY NatLessThanWellFounded, Zenon DEF OpToRel
<1>2. PICK n \in S : \A m \in S : <<m, n>> \notin less
  <2> HIDE DEF less
  <2> QED
    BY <1>1, WFMin, Zenon
<1>3. \A m \in Nat : m < n => <<m, n>> \in less
  BY Zenon
<1>4. \A m \in S : m \in Nat /\ ~(m < n)
  <2> HIDE DEF less
  <2> QED
    BY <1>2, <1>3, Zenon
<1> QED
  BY <1>4

-----------------------------------------------------------------------------
\* A thread that is locking after the step was at the same point before it.
LEMMA UnmovedLocks ==
  ASSUME LockOrder,
         \A p \in Threads : op'[p].step = "lock" => op'[p] = op[p]
  PROVE  LockOrder'
  BY Zenon DEF LockOrder, Wants

\* CommitTransaction starts with nothing locked.
LEMMA StartCommitLocks ==
  ASSUME TypeOK, LockOrder, NEW t \in Txns, NEW ws \in SUBSET Chunks, StartCommit(t, ws)
  PROVE  LockOrder'
<1>1. PICK rs : op' = [op EXCEPT ![t] = [Idle EXCEPT !.step = "lock", !.writes = ws, !.reads = rs]]
  BY Zenon DEF StartCommit
<1>2. /\ op'[t].writes = ws /\ op'[t].held = {}
      /\ \A p \in Threads \ {t} : op'[p] = op[p]
  BY <1>1, Zenon DEF TypeOK, Threads, Idle
<1>3. Wants(t)' # {} /\ op'[t].held = {}
  BY <1>2, Zenon DEF StartCommit, Wants
<1> QED
  BY <1>2, <1>3, Zenon DEF LockOrder, Wants

\* The next chunk is the least of those that are left.
LEMMA LockLocks ==
  ASSUME TypeOK, LockOrder, NEW t \in Txns, Lock(t)
  PROVE  LockOrder'
<1>1. PICK c \in NextChunk(t) :
        op' = [op EXCEPT ![t].held = @ \cup {c},
                         ![t].step = IF Wants(t) = {c} THEN "validate" ELSE "lock"]
  BY Zenon DEF Lock
<1>2. /\ op'[t].writes = op[t].writes /\ op'[t].reads = op[t].reads
      /\ op'[t].held = op[t].held \cup {c}
      /\ op'[t].step = "lock" => Wants(t) # {c}
      /\ \A p \in Threads \ {t} : op'[p] = op[p]
  BY <1>1 DEF TypeOK, Threads
<1>3. Wants(t) \subseteq Nat /\ c \in Wants(t) /\ \A d \in Wants(t) : c <= d
  BY ConstantsAssumption, Zenon DEF Wants, NextChunk, TypeOK, Threads
<1>4. Wants(t)' = Wants(t) \ {c}
  BY <1>2, Zenon DEF Wants
<1>5. \A h \in op[t].held, d \in Wants(t) : h < d
  BY Zenon DEF LockOrder, Lock, Threads
<1>6. op'[t].step = "lock" => Wants(t)' # {}
  BY <1>2, <1>3, <1>4, Zenon
<1>7. \A h \in op'[t].held, d \in Wants(t)' : h < d
  BY <1>2, <1>3, <1>4, <1>5
<1>8. \A p \in Threads \ {t} : Wants(p)' = Wants(p)
  BY <1>2, Zenon DEF Wants
<1> QED
  BY <1>2, <1>6, <1>7, <1>8, Zenon DEF LockOrder

LEMMA NextLocks == TypeOK /\ LockOrder /\ [Next]_vars => LockOrder'
<1> SUFFICES ASSUME TypeOK, LockOrder, [Next]_vars
             PROVE  LockOrder'
  BY Zenon
<1>r. ASSUME NEW p \in Threads, Release(p)
      PROVE  LockOrder'
  <2>1. op'[p].step = "idle" /\ \A q \in Threads \ {p} : op'[q] = op[q]
    BY <1>r, Zenon DEF Release, Idle, TypeOK
  <2> QED
    BY <2>1, UnmovedLocks, Zenon
<1>s. ASSUME NEW p \in Threads, op'[p].step # "lock",
             \A q \in Threads \ {p} : op'[q] = op[q]
      PROVE  LockOrder'
  BY <1>s, UnmovedLocks, Zenon
<1>1. CASE UNCHANGED op
  BY <1>1, UnmovedLocks, Zenon
<1>2. ASSUME NEW t \in Txns, Validate(t) \/ CommitRefused(t)
      PROVE  LockOrder'
  <2>1. CASE Release(t)
    BY <2>1, <1>r, Zenon DEF Threads
  <2>2. CASE Step(t, "version")
    <3>1. op'[t].step = "version" /\ \A q \in Threads \ {t} : op'[q] = op[q]
      BY <2>2, ZenonT(60) DEF Step, TypeOK, Threads
    <3> QED
      BY <3>1, <1>s, Zenon DEF Threads
  <2> QED
    BY <1>2, <2>1, <2>2, Zenon DEF Validate, CommitRefused
<1>3. ASSUME NEW w \in Writers, NEW c \in Chunks, StartWrite(w, c)
      PROVE  LockOrder'
  <2>1. op'[w].step = "version" /\ \A q \in Threads \ {w} : op'[q] = op[q]
    <3>1. op' = [op EXCEPT ![w] = [Idle EXCEPT !.step = "version", !.writes = {c}, !.held = {c}]]
      BY <1>3, Zenon DEF StartWrite
    <3>2. [Idle EXCEPT !.step = "version", !.writes = {c}, !.held = {c}].step = "version"
      BY Zenon DEF Idle
    <3> QED
      BY <3>1, <3>2, Zenon DEF TypeOK, Threads
  <2> QED
    BY <2>1, <1>s, Zenon DEF Threads
<1>4. ASSUME NEW p \in Threads, TakeVersion(p) \/ LoadCount(p)
      PROVE  LockOrder'
  <2>1. op'[p].step \in {"count", "apply"} /\ \A q \in Threads \ {p} : op'[q] = op[q]
    <3>1. CASE TakeVersion(p)
      BY <3>1, ZenonT(60) DEF TakeVersion, TypeOK
    <3>2. CASE LoadCount(p)
      <4>1. PICK changed, keep :
              op' = [op EXCEPT ![p].step = "apply", ![p].todo = changed, ![p].keep = keep]
        BY <3>2, Zenon DEF LoadCount
      <4> QED
        BY <4>1, ZenonT(60) DEF TypeOK
    <3> QED
      BY <1>4, <3>1, <3>2, Zenon
  <2> QED
    BY <2>1, <1>s, Zenon
<1>5. ASSUME NEW p \in Threads, GiveUp(p)
      PROVE  LockOrder'
  BY <1>5, <1>r, Zenon DEF GiveUp
<1>6. ASSUME NEW p \in Threads, NEW c \in Chunks, ApplyChunk(p, c)
      PROVE  LockOrder'
  <2>1. CASE Release(p)
    BY <2>1, <1>r, Zenon
  <2>2. CASE op' = [op EXCEPT ![p].todo = @ \ {c}]
    <3>1. op'[p].step = "apply" /\ \A q \in Threads \ {p} : op'[q] = op[q]
      BY <1>6, <2>2, ZenonT(60) DEF ApplyChunk, TypeOK
    <3> QED
      BY <3>1, <1>s, Zenon
  <2> QED
    BY <1>6, <2>1, <2>2, Zenon DEF ApplyChunk
<1>7. CASE \E t \in Txns :
             \/ CountSnapshot(t) \/ ReadClock(t) \/ InsertSnapshot(t)
             \/ Expire(t) \/ Rollback(t) \/ VisitAt(t) \/ \E c \in Chunks : CopyState(t, c)
  <2>1. UNCHANGED op
    BY <1>7, Zenon DEF CountSnapshot, ReadClock, InsertSnapshot, Expire, Rollback, VisitAt, CopyState
  <2> QED
    BY <2>1, <1>1, Zenon
<1> QED
  BY <1>1, <1>2, <1>3, <1>4, <1>5, <1>6, <1>7, LockLocks, StartCommitLocks, Zenon DEF Next, vars

-----------------------------------------------------------------------------
\* The chunks above c: the fewer there are, the further on c lies.
Above(c) == {d \in Chunks : c < d}

LEMMA AboveShrinks ==
  ASSUME NEW c \in Chunks, NEW d \in Chunks, c < d
  PROVE  Cardinality(Above(d)) < Cardinality(Above(c))
<1>1. IsFiniteSet(Above(c)) /\ Above(d) \in SUBSET Above(c) /\ Above(c) # Above(d)
  <2>0. c \in Nat /\ d \in Nat /\ \A x \in Chunks : d < x => c < x
    BY ConstantsAssumption
  <2>1. Above(d) \in SUBSET Above(c) /\ d \in Above(c) /\ d \notin Above(d)
    <3>1. Above(d) \subseteq Above(c) /\ d \in Above(c)
      BY <2>0, Zenon DEF Above
    <3>2. d \notin Above(d)
      BY <2>0 DEF Above
    <3> QED
      BY <3>1, <3>2, Zenon
  <2>2. Above(c) \in SUBSET Chunks
    BY Zenon DEF Above
  <2> QED
    BY <2>1, <2>2, CoordinatesAssumption, FS_Subset, Zenon
<1>2. /\ IsFiniteSet(Above(d)) /\ Cardinality(Above(d)) <= Cardinality(Above(c))
      /\ Cardinality(Above(d)) # Cardinality(Above(c))
  BY <1>1, FS_Subset, Zenon
<1>3. Cardinality(Above(d)) \in Nat /\ Cardinality(Above(c)) \in Nat
  BY <1>1, <1>2, FS_CardinalityType, Zenon
<1> QED
  BY <1>2, <1>3, SMTT(30)

\* Whoever waits wants a next chunk, and waits for a thread that holds it.
LEMMA WaitsForBusy ==
  ASSUME TypeOK, LockOrder, NEW p \in Threads, Waiting(p)
  PROVE  \E c \in NextChunk(p), q \in Threads : op[q] # Idle /\ c \in op[q].held
<1>1. Wants(p) \in SUBSET Nat /\ Wants(p) # {}
  BY ConstantsAssumption, Zenon DEF TypeOK, LockOrder, Waiting, Wants
<1>2. PICK c \in NextChunk(p) : TRUE
  BY <1>1, LeastNatural, Zenon DEF NextChunk
<1>3. PICK q \in Threads : Blocks(q, p, c)
  BY <1>2, Zenon DEF Waiting
<1>4. c \in op[q].held
  BY <1>3, Zenon DEF Blocks, HoldsExclusive
<1>5. op[q] # Idle
  BY <1>4 DEF Idle
<1> QED
  BY <1>2, <1>4, <1>5, Zenon

\* Commits and writes never wait for each other's chunks in a circle
\* (CommitTransaction's targets in coordinate order, its locks beside those of
\* ordinary writes).
THEOREM NoCircularWait == Spec => []NeverAllWaiting
<1>1. Init => LockOrder
  BY DEF Init, LockOrder, Idle
<1>2. TypeOK /\ LockOrder => NeverAllWaiting
  <2> SUFFICES ASSUME TypeOK, LockOrder,
                      NEW r \in Threads, op[r] # Idle,
                      \A p \in Threads : op[p] # Idle => Waiting(p)
               PROVE  FALSE
    BY Zenon DEF NeverAllWaiting
  <2> DEFINE wanted == {c \in Chunks : \E p \in Threads : Waiting(p) /\ c \in NextChunk(p)}
             above == {Cardinality(Above(c)) : c \in wanted}
  <2>1. \A p \in Threads : NextChunk(p) \subseteq Chunks
    BY Zenon DEF TypeOK, NextChunk, Wants
  <2>2. wanted # {}
    <3>1. PICK c \in NextChunk(r) : TRUE
      BY WaitsForBusy, Zenon
    <3> QED
      BY <2>1, <3>1, Zenon
  <2>3. above \in SUBSET Nat /\ above # {}
    <3>1. \A c \in Chunks : IsFiniteSet(Above(c))
      BY CoordinatesAssumption, FS_Subset, Zenon DEF Above
    <3> QED
      BY <2>2, <3>1, FS_CardinalityType, Zenon
  <2>4. PICK c \in wanted : \A d \in wanted : Cardinality(Above(c)) <= Cardinality(Above(d))
    <3> HIDE DEF wanted
    <3>1. PICK n \in above : \A m \in above : n <= m
      BY <2>3, LeastNatural, Zenon
    <3>2. PICK c \in wanted : n = Cardinality(Above(c))
      BY Zenon
    <3> QED
      BY <3>1, <3>2, Zenon
  <2>5. PICK p \in Threads : Waiting(p) /\ c \in NextChunk(p)
    BY Zenon
  <2>6. PICK b \in NextChunk(p), q \in Threads : op[q] # Idle /\ b \in op[q].held
    BY <2>5, WaitsForBusy, Zenon
  <2>7. b = c
    BY <2>1, <2>5, <2>6, ConstantsAssumption DEF NextChunk
  <2>8. PICK d \in NextChunk(q) : d \in Chunks
    BY <2>1, <2>6, WaitsForBusy, Zenon
  <2>9. c < d /\ d \in wanted
    BY <2>6, <2>7, <2>8, Zenon DEF LockOrder, Waiting, NextChunk
  <2>10. Cardinality(Above(d)) < Cardinality(Above(c))
    BY <2>9, AboveShrinks, Zenon
  <2>11. Cardinality(Above(c)) \in Nat /\ Cardinality(Above(d)) \in Nat
    BY <2>3, <2>9, Zenon
  <2> QED
    BY <2>4, <2>9, <2>10, <2>11, SMTT(30)
<1>3. IInv => TypeOK
  BY Zenon DEF IInv
<1> QED
  BY <1>1, <1>2, <1>3, NextLocks, InvariantAlways, PTL DEF Spec
=============================================================================
