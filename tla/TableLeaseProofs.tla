-------------------------- MODULE TableLeaseProofs --------------------------
(***************************************************************************)
(* The store of a table is never taken out under a command or a backup, and *)
(* a table whose feed cleanup failed never serves, for any number of        *)
(* commands, calls, watches and failures.                                   *)
(*                                                                          *)
(* A command's lease is taken without a lock, so the argument joins two     *)
(* facts that no single step establishes: active_leases_ counts exactly the *)
(* commands between their two atomic operations, and from the moment an     *)
(* exclusive operation has seen it at zero until it publishes a new state,  *)
(* state_ is busy and turns every later command back.                       *)
(***************************************************************************)
EXTENDS TableLease, FiniteSetTheorems, TLAPS

CommandAt == {"out", "counted", "leased", "uncount", "last", "nudge", "uncounted", "retry"}
ControlAt == {"out", "asking", "draining", "exclusive", "publish", "notify", "refused",
              "joining", "idle", "finish", "quarantine", "fence", "fenced"}
Control == {"ddl", "watch", "timer"}
Notes == {"none", "done", "busy", "open", "failed", "gone", "closing", "subscribe"}

\* Between BeginExclusive and the state EndExclusive publishes.
Inside(t) == pc[t] \in {"draining", "exclusive", "joining", "quarantine", "fence", "publish"}
Taken(t) == Inside(t) /\ pc[t] # "draining"

\* The commands active_leases_ counts.
Counted == {c \in Commands : pc[c] \in {"counted", "leased", "uncount"}}

Tables == [state : {"open", "busy", "failed", "gone"}, active : Nat, pins : {0, 1},
           home : BOOLEAN, cleanup : BOOLEAN, failed : BOOLEAN]

TypeOK ==
  /\ table \in Tables
  /\ pc \in [Threads -> CommandAt \cup ControlAt \cup {"pinning", "pinned"}]
  /\ note \in [Threads -> Notes]
  /\ \A c \in Commands : pc[c] \in CommandAt
  /\ pc["backup"] \in {"out", "pinning", "pinned"}
  /\ \A t \in Control : pc[t] \in ControlAt
  /\ \A t \in Control : pc[t] = "publish" => note[t] \in {"open", "failed", "gone"}

ActiveCounts == table.active = Cardinality(Counted)

\* One control operation at a time has the table, and the state says so.
OneInside ==
  /\ \A t, u \in Control : Inside(t) /\ Inside(u) => t = u
  /\ \A t \in Control : Inside(t) => table.state = "busy"

\* Once the leases are drained no command has one.
TakenAlone ==
  \A t \in Control : Taken(t) => \A c \in Commands : pc[c] # "leased"

\* The store is in the table wherever a lease could be had or kept.
HomeServes ==
  /\ table.state \in {"open", "failed"} => table.home
  /\ \A t \in Control : pc[t] = "draining" => table.home
  /\ \A c \in Commands : pc[c] = "leased" => table.home

PinCounts ==
  /\ table.pins = IF pc["backup"] = "pinned" THEN 1 ELSE 0
  /\ pc["backup"] = "pinned" => table.state # "busy"

\* A failed cleanup is not open and is not about to be.
Fenced ==
  /\ table.cleanup => table.state # "open"
  /\ \A t \in Control : pc[t] = "publish" /\ note[t] = "open" => ~table.cleanup

Safe == OneInside /\ TakenAlone /\ HomeServes /\ PinCounts /\ Fenced

LeaseInv == TypeOK /\ ActiveCounts /\ Safe

-----------------------------------------------------------------------------
LEMMA ThreadKinds ==
  /\ Commands \subseteq Threads /\ Control \subseteq Threads /\ "backup" \in Threads
  /\ Threads = Commands \cup Control \cup {"backup"}
  /\ \A c \in Commands : c \notin Control /\ c # "backup"
BY ThreadAssumption, Zenon DEF Threads, Control

LEMMA CountedFinite == IsFiniteSet(Counted) /\ Cardinality(Counted) \in Nat
<1>1. Counted \subseteq Commands
  BY Zenon DEF Counted
<1> QED
  BY <1>1, ThreadAssumption, FS_Subset, FS_CardinalityType, Zenon

\* A step that moves no command leaves the count.
LEMMA OthersMove ==
  ASSUME ActiveCounts, table'.active = table.active,
         \A c \in Commands : (pc'[c] \in {"counted", "leased", "uncount"})
                               <=> (pc[c] \in {"counted", "leased", "uncount"})
  PROVE  ActiveCounts'
<1>1. Counted' = Counted
  BY Zenon DEF Counted
<1> QED
  BY <1>1, Zenon DEF ActiveCounts

\* What BeginExclusive does: it is refused, waits, drains or holds the table.
LEMMA BeginExclusiveCases ==
  ASSUME NEW t, BeginExclusive(t)
  PROVE  \/ Goto(t, "refused") /\ UNCHANGED <<table, note>>
         \/ UNCHANGED <<table, pc, note>>
         \/ /\ Vacant /\ table.state # "gone" /\ table.active = 0
            /\ Hold(t) /\ UNCHANGED note
         \/ /\ Vacant /\ table.state # "gone"
            /\ table' = [table EXCEPT !.state = "busy"]
            /\ Goto(t, "draining") /\ UNCHANGED note
<1>1. CASE Cancelled(t)
  BY <1>1, Zenon DEF BeginExclusive
<1>2. CASE ~Cancelled(t) /\ ~(Vacant \/ (~Closing(t) /\ table.cleanup))
  BY <1>2, Zenon DEF BeginExclusive, Block
<1>3. CASE ~Cancelled(t) /\ (Vacant \/ (~Closing(t) /\ table.cleanup))
  BY <1>3, Zenon DEF BeginExclusive
<1> QED
  BY <1>1, <1>2, <1>3, Zenon

-----------------------------------------------------------------------------
\* A command's steps: they move one command, and the count with it.
LEMMA CommandStep ==
  ASSUME LeaseInv, NEW c \in Commands, Command(c)
  PROVE  LeaseInv'
<1>0. TypeOK /\ ActiveCounts /\ Safe
  BY Zenon DEF LeaseInv
<1>1. CASE Acquire(c)
  <2>1. pc[c] \in {"out", "retry"}
    BY <1>1, Zenon DEF Acquire, Call
  <2>2. CASE table.failed
    <3>1. pc' = [pc EXCEPT ![c] = "out"] /\ UNCHANGED <<table, note>>
      BY <1>1, <2>2, Zenon DEF Acquire, Goto
    <3>2. ActiveCounts'
      BY <1>0, <2>1, <3>1, ThreadKinds, OthersMove, Zenon DEF TypeOK, Tables
    <3> QED
      BY <1>0, <2>1, <3>1, <3>2, ThreadKinds DEF LeaseInv, TypeOK, Tables, Safe, OneInside,
        TakenAlone, HomeServes, PinCounts, Fenced, Inside, Taken, CommandAt
  <2>3. CASE ~table.failed
    <3>1. /\ pc' = [pc EXCEPT ![c] = "counted"] /\ UNCHANGED note
          /\ table' = [table EXCEPT !.active = @ + 1]
      BY <1>1, <2>3, Zenon DEF Acquire, Goto
    <3>2. ActiveCounts'
      <4>1. c \notin Counted /\ Counted' = Counted \cup {c}
        BY <1>0, <2>1, <3>1, ThreadKinds DEF Counted, TypeOK, Tables
      <4>2. Cardinality(Counted') = Cardinality(Counted) + 1
        BY <4>1, CountedFinite, FS_AddElement, Zenon
      <4> QED
        BY <1>0, <3>1, <4>2, Zenon DEF ActiveCounts, TypeOK, Tables
    <3> QED
      BY <1>0, <2>1, <3>1, <3>2, ThreadKinds DEF LeaseInv, TypeOK, Tables, Safe, OneInside,
        TakenAlone, HomeServes, PinCounts, Fenced, Inside, Taken, CommandAt
  <2> QED
    BY <2>2, <2>3, Zenon
<1>2. CASE LoadState(c)
  <2>1. ActiveCounts'
    BY <1>0, <1>2, ThreadKinds, OthersMove, SMTT(30) DEF LoadState, Carry, Goto, TypeOK, Tables
  <2>2. TypeOK'
    BY <1>0, <1>2, ThreadKinds DEF LoadState, Carry, Goto, TypeOK, Tables, CommandAt, Notes
  <2>3. Safe'
    BY <1>0, <1>2, ThreadKinds, SMTT(30) DEF LoadState, Carry, Goto, TypeOK, Tables, Safe, OneInside,
      TakenAlone, HomeServes, PinCounts, Fenced, Inside, Taken
  <2> QED
    BY <2>1, <2>2, <2>3, Zenon DEF LeaseInv
<1>3. CASE EndCommand(c)
  <2>1. ActiveCounts'
    BY <1>0, <1>3, ThreadKinds, OthersMove, Zenon DEF EndCommand, Goto, TypeOK, Tables
  <2> QED
    BY <1>0, <1>3, <2>1, ThreadKinds DEF EndCommand, Goto, LeaseInv, TypeOK, Tables, Safe, OneInside,
      TakenAlone, HomeServes, PinCounts, Fenced, Inside, Taken, CommandAt
<1>4. CASE Uncount(c)
  <2>1. pc[c] = "uncount" /\ table' = [table EXCEPT !.active = @ - 1] /\ UNCHANGED note
    BY <1>4, Zenon DEF Uncount
  <2>2. \/ pc' = [pc EXCEPT ![c] = "last"]
        \/ pc' = [pc EXCEPT ![c] = "uncounted"]
    BY <1>4, Zenon DEF Uncount, Goto
  <2>3. c \in Counted /\ Counted' = Counted \ {c}
    BY <1>0, <2>1, <2>2, ThreadKinds, Zenon DEF Counted, TypeOK, Tables
  <2>4. Cardinality(Counted') = Cardinality(Counted) - 1 /\ Cardinality(Counted') \in Nat
    BY <2>3, CountedFinite, FS_RemoveElement, FS_CardinalityType, Zenon
  <2>5. ActiveCounts' /\ table'.active \in Nat
    BY <1>0, <2>1, <2>4, Zenon DEF ActiveCounts, TypeOK, Tables
  <2> QED
    BY <1>0, <2>1, <2>2, <2>5, ThreadKinds DEF LeaseInv, TypeOK, Tables, Safe, OneInside,
      TakenAlone, HomeServes, PinCounts, Fenced, Inside, Taken, CommandAt
<1>5. CASE CheckBusy(c) \/ Nudge(c) \/ AwaitReopen(c)
  <2>1. /\ pc[c] \in {"last", "nudge", "uncounted"} /\ UNCHANGED <<table, note>>
        /\ \E p \in {"nudge", "uncounted", "out", "retry", pc[c]} : pc' = [pc EXCEPT ![c] = p]
    BY <1>0, <1>5, ThreadKinds DEF CheckBusy, Nudge, AwaitReopen, Block, Goto, TypeOK, Tables
  <2>2. ActiveCounts'
    BY <1>0, <2>1, ThreadKinds, OthersMove, Zenon DEF TypeOK, Tables
  <2> QED
    BY <1>0, <2>1, <2>2, ThreadKinds DEF LeaseInv, TypeOK, Tables, Safe, OneInside,
      TakenAlone, HomeServes, PinCounts, Fenced, Inside, Taken, CommandAt
<1> QED
  BY <1>1, <1>2, <1>3, <1>4, <1>5, Zenon DEF Command

-----------------------------------------------------------------------------
\* Steps of control operations, by what they do to the table.  What may fail
\* beside them is the catalog.
OnlyFailed == table' \in {table, [table EXCEPT !.failed = TRUE]}

LEMMA UnmovedStep ==
  ASSUME LeaseInv, OnlyFailed, UNCHANGED <<pc, note>>
  PROVE  LeaseInv'
<1>0. TypeOK /\ ActiveCounts /\ Safe
  BY Zenon DEF LeaseInv
<1>1. ActiveCounts'
  BY <1>0, OthersMove, Zenon DEF OnlyFailed, TypeOK, Tables
<1> QED
  BY <1>0, <1>1, ZenonT(60) DEF OnlyFailed, LeaseInv, TypeOK, Tables, Safe, OneInside, TakenAlone,
    HomeServes, PinCounts, Fenced, Inside, Taken

\* Marking the migration failed leaves the rest of the table.
LEMMA FailedOnly ==
  ASSUME TypeOK, OnlyFailed
  PROVE  /\ table' \in Tables
         /\ table'.state = table.state /\ table'.active = table.active
         /\ table'.pins = table.pins /\ table'.home = table.home
         /\ table'.cleanup = table.cleanup
BY Zenon DEF OnlyFailed, TypeOK, Tables

\* A control operation moves and every other thread stays where it is.
LEMMA ControlMove ==
  ASSUME TypeOK, ActiveCounts, NEW t \in Control, NEW p \in ControlAt,
         pc' = [pc EXCEPT ![t] = p], table' \in Tables, table'.active = table.active,
         note' \in [Threads -> Notes], \A u \in Control \ {t} : note'[u] = note[u],
         p = "publish" => note'[t] \in {"open", "failed", "gone"}
  PROVE  /\ TypeOK' /\ ActiveCounts'
         /\ pc'[t] = p /\ \A u \in Control : u # t => pc'[u] = pc[u]
         /\ \A c \in Commands : pc'[c] = pc[c]
         /\ pc'["backup"] = pc["backup"]
<1>1. t \in Threads /\ pc \in [Threads -> CommandAt \cup ControlAt \cup {"pinning", "pinned"}]
  BY ThreadKinds, Zenon DEF TypeOK, Tables
<1>2. \A c \in Commands : c \in Threads /\ c # t
  BY ThreadKinds, Zenon
<1>3. t # "backup" /\ "backup" \in Threads
  BY ThreadKinds, Zenon DEF Control
<1>4. \A u \in Control : u \in Threads
  BY ThreadKinds, Zenon
<1>5. /\ pc'[t] = p /\ \A u \in Control : u # t => pc'[u] = pc[u]
      /\ \A c \in Commands : pc'[c] = pc[c]
      /\ pc'["backup"] = pc["backup"]
  BY <1>1, <1>2, <1>3, <1>4, Zenon
<1>6. pc' \in [Threads -> CommandAt \cup ControlAt \cup {"pinning", "pinned"}]
  BY <1>1, Zenon
<1>7. \A u \in Control : pc'[u] \in ControlAt
  BY <1>5 DEF TypeOK, Tables
<1>8. \A u \in Control : pc'[u] = "publish" => note'[u] \in {"open", "failed", "gone"}
  BY <1>5 DEF TypeOK, Tables
<1>9. ActiveCounts'
  BY <1>5, OthersMove, Zenon
<1>10. TypeOK'
  BY <1>5, <1>6, <1>7, <1>8 DEF TypeOK, Tables
<1> QED
  BY <1>5, <1>9, <1>10, Zenon

\* A control operation moves between places where it does not have the table.
LEMMA OutsideStep ==
  ASSUME LeaseInv, NEW t \in Control, ~Inside(t), OnlyFailed,
         NEW p \in {"out", "asking", "notify", "refused", "idle", "finish", "fenced"},
         pc' = [pc EXCEPT ![t] = p], note' \in [Threads -> Notes],
         \A u \in Control \ {t} : note'[u] = note[u]
  PROVE  LeaseInv'
<1>0. TypeOK /\ ActiveCounts /\ Safe
  BY Zenon DEF LeaseInv
<1>1. p \in ControlAt /\ p # "publish"
  BY Zenon DEF ControlAt
<1>2. /\ table' \in Tables
      /\ table'.state = table.state /\ table'.active = table.active
      /\ table'.pins = table.pins /\ table'.home = table.home
      /\ table'.cleanup = table.cleanup
  BY <1>0, FailedOnly, Zenon
<1>3. /\ TypeOK' /\ ActiveCounts'
      /\ pc'[t] = p /\ \A u \in Control : u # t => pc'[u] = pc[u]
      /\ \A c \in Commands : pc'[c] = pc[c]
      /\ pc'["backup"] = pc["backup"]
  BY <1>0, <1>1, <1>2, ControlMove, Zenon
<1>4. Safe'
  BY <1>0, <1>2, <1>3 DEF Safe, OneInside, TakenAlone,
    HomeServes, PinCounts, Fenced, Inside, Taken
<1> QED
  BY <1>3, <1>4, Zenon DEF LeaseInv

\* A control operation that has the table keeps it.
LEMMA InsideStep ==
  ASSUME LeaseInv, NEW t \in Control, Taken(t), OnlyFailed,
         NEW p \in {"exclusive", "joining", "quarantine", "fence", "publish"},
         pc' = [pc EXCEPT ![t] = p], note' \in [Threads -> Notes],
         \A u \in Control \ {t} : note'[u] = note[u],
         p = "publish" => /\ note'[t] \in {"open", "failed", "gone"}
                          /\ note'[t] = "open" => ~table.cleanup
  PROVE  LeaseInv'
<1>0. TypeOK /\ ActiveCounts /\ Safe
  BY Zenon DEF LeaseInv
<1>1. p \in ControlAt
  BY Zenon DEF ControlAt
<1>2. /\ table' \in Tables
      /\ table'.state = table.state /\ table'.active = table.active
      /\ table'.pins = table.pins /\ table'.home = table.home
      /\ table'.cleanup = table.cleanup
  BY <1>0, FailedOnly, Zenon
<1>3. /\ TypeOK' /\ ActiveCounts'
      /\ pc'[t] = p /\ \A u \in Control : u # t => pc'[u] = pc[u]
      /\ \A c \in Commands : pc'[c] = pc[c]
      /\ pc'["backup"] = pc["backup"]
  BY <1>0, <1>1, <1>2, ControlMove, Zenon
<1>4. Safe'
  BY <1>0, <1>2, <1>3 DEF Safe, OneInside, TakenAlone,
    HomeServes, PinCounts, Fenced, Inside, Taken
<1> QED
  BY <1>3, <1>4, Zenon DEF LeaseInv

\* It gets the table when nobody has it and no lease or pin is left.
LEMMA HoldStep ==
  ASSUME LeaseInv, NEW t \in Control, table.active = 0, Hold(t), UNCHANGED note,
         (pc[t] = "asking" /\ Vacant) \/ pc[t] = "draining"
  PROVE  LeaseInv'
<1>0. TypeOK /\ ActiveCounts /\ Safe
  BY Zenon DEF LeaseInv
<1>1. \A c \in Commands : pc[c] # "leased"
  <2>1. Counted = {}
    BY <1>0, CountedFinite, FS_EmptySet, Zenon DEF ActiveCounts
  <2> QED
    BY <2>1, Zenon DEF Counted
<1>2. /\ pc' = [pc EXCEPT ![t] = "exclusive"]
      /\ table' = [table EXCEPT !.state = "busy", !.home = FALSE]
  BY Zenon DEF Hold, Goto
<1>3. \A u \in Control : Inside(u) => u = t
  BY <1>0, Zenon DEF Safe, OneInside, Inside, Vacant
<1>4. pc["backup"] # "pinned"
  BY <1>0, SMTT(30) DEF Safe, OneInside, PinCounts, Vacant, Inside
<1>5. /\ table' \in Tables /\ table'.active = table.active
      /\ table'.state = "busy" /\ table'.pins = table.pins /\ table'.cleanup = table.cleanup
  BY <1>0, <1>2, Zenon DEF TypeOK, Tables
<1>6. /\ TypeOK' /\ ActiveCounts'
      /\ pc'[t] = "exclusive" /\ \A u \in Control : u # t => pc'[u] = pc[u]
      /\ \A c \in Commands : pc'[c] = pc[c]
      /\ pc'["backup"] = pc["backup"]
  <2>1. "exclusive" \in ControlAt /\ note' \in [Threads -> Notes]
    BY <1>0, Zenon DEF ControlAt, TypeOK, Tables
  <2> QED
    BY <1>0, <1>2, <1>5, <2>1, ControlMove, Zenon
<1>7. Safe'
  BY <1>0, <1>1, <1>3, <1>4, <1>5, <1>6 DEF Safe, OneInside, TakenAlone,
    HomeServes, PinCounts, Fenced, Inside, Taken
<1> QED
  BY <1>6, <1>7, Zenon DEF LeaseInv

\* It gives the table back with a state, the store in it unless it is gone.
LEMMA StateStep ==
  ASSUME LeaseInv, NEW t \in Control, Inside(t),
         NEW s \in {"open", "failed", "gone"}, NEW h \in BOOLEAN,
         s # "gone" => h,
         s = "open" => ~table.cleanup,
         pc[t] = "draining" => h,
         NEW p \in {"notify", "fenced", "refused"},
         pc' = [pc EXCEPT ![t] = p], UNCHANGED note,
         table' = [table EXCEPT !.state = s, !.home = h]
  PROVE  LeaseInv'
<1>0. TypeOK /\ ActiveCounts /\ Safe
  BY Zenon DEF LeaseInv
<1>1. \A u \in Control : Inside(u) => u = t
  BY <1>0, Zenon DEF Safe, OneInside
<1>2. /\ table' \in Tables /\ table'.active = table.active
      /\ table'.state = s /\ table'.home = h
      /\ table'.pins = table.pins /\ table'.cleanup = table.cleanup
  BY <1>0, Zenon DEF TypeOK, Tables
<1>3. /\ TypeOK' /\ ActiveCounts'
      /\ pc'[t] = p /\ \A u \in Control : u # t => pc'[u] = pc[u]
      /\ \A c \in Commands : pc'[c] = pc[c]
      /\ pc'["backup"] = pc["backup"]
  <2>1. p \in ControlAt /\ p # "publish" /\ note' \in [Threads -> Notes]
    BY <1>0, Zenon DEF ControlAt, TypeOK, Tables
  <2> QED
    BY <1>0, <1>2, <2>1, ControlMove, Zenon
<1>4. Safe'
  BY <1>0, <1>1, <1>2, <1>3 DEF Safe, OneInside, TakenAlone,
    HomeServes, PinCounts, Fenced, Inside, Taken
<1> QED
  BY <1>3, <1>4, Zenon DEF LeaseInv
-----------------------------------------------------------------------------
\* The steps every control operation shares.
LEMMA ExclusiveStep ==
  ASSUME LeaseInv, NEW t \in Control, Exclusive(t)
  PROVE  LeaseInv'
<1>0. TypeOK /\ ActiveCounts /\ Safe
  BY Zenon DEF LeaseInv
<1>n. note \in [Threads -> Notes] /\ t \in Threads
  BY <1>0, ThreadKinds, Zenon DEF TypeOK, Tables
<1>1. CASE BeginExclusive(t)
  <2>0. pc[t] = "asking"
    BY <1>1, Zenon DEF BeginExclusive
  <2>1. CASE Goto(t, "refused") /\ UNCHANGED <<table, note>>
    BY <1>n, <2>0, <2>1, OutsideStep, Zenon DEF Goto, Inside, OnlyFailed
  <2>2. CASE UNCHANGED <<table, pc, note>>
    BY <2>2, UnmovedStep, Zenon DEF OnlyFailed
  <2>3. CASE Vacant /\ table.active = 0 /\ Hold(t) /\ UNCHANGED note
    BY <2>0, <2>3, HoldStep, Zenon
  <2>4. CASE /\ Vacant /\ table.state # "gone"
             /\ table' = [table EXCEPT !.state = "busy"]
             /\ Goto(t, "draining") /\ UNCHANGED note
    <3>1. pc' = [pc EXCEPT ![t] = "draining"]
      BY <2>4, Zenon DEF Goto
    <3>2. \A u \in Control : ~Inside(u)
      BY <1>0, <2>4, Zenon DEF Safe, OneInside, Vacant
    <3>3. pc["backup"] # "pinned" /\ table.home
      BY <1>0, <2>4, SMTT(30) DEF TypeOK, Tables, Safe, PinCounts, HomeServes, Vacant
    <3>4. /\ table' \in Tables /\ table'.active = table.active
          /\ table'.state = "busy" /\ table'.home = table.home
          /\ table'.pins = table.pins /\ table'.cleanup = table.cleanup
      BY <1>0, <2>4, Zenon DEF TypeOK, Tables
    <3>5. /\ TypeOK' /\ ActiveCounts'
          /\ pc'[t] = "draining" /\ \A u \in Control : u # t => pc'[u] = pc[u]
          /\ \A c \in Commands : pc'[c] = pc[c]
          /\ pc'["backup"] = pc["backup"]
      <4>1. "draining" \in ControlAt /\ note' \in [Threads -> Notes]
        BY <1>n, <2>4, Zenon DEF ControlAt
      <4>2. \A u \in Control \ {t} : note'[u] = note[u]
        BY <2>4, Zenon
      <4> QED
        BY <1>0, <3>1, <3>4, <4>1, <4>2, ControlMove, Zenon
    <3>6. Safe'
      BY <1>0, <2>4, <3>2, <3>3, <3>4, <3>5 DEF Safe, OneInside,
        TakenAlone, HomeServes, PinCounts, Fenced, Inside, Taken
    <3> QED
      BY <3>5, <3>6, Zenon DEF LeaseInv
  <2> QED
    BY <1>1, <2>1, <2>2, <2>3, <2>4, BeginExclusiveCases, Zenon
<1>2. CASE Drain(t)
  <2>0. pc[t] = "draining"
    BY <1>2, Zenon DEF Drain
  <2>1. CASE table.active = 0
    BY <1>2, <2>0, <2>1, HoldStep, Zenon DEF Drain
  <2>2. CASE table.active # 0 /\ Cancelled(t)
    <3> DEFINE s == IF table.cleanup THEN "failed" ELSE "open"
    <3>1. table' = [table EXCEPT !.state = s] /\ Goto(t, "refused") /\ UNCHANGED note
      BY <1>2, <2>2, Zenon DEF Drain
    <3>2. table.home = TRUE
      BY <1>0, <2>0, Zenon DEF Safe, HomeServes, TypeOK, Tables
    <3>3. table' = [table EXCEPT !.state = s, !.home = TRUE]
      BY <1>0, <3>1, <3>2, Zenon DEF TypeOK, Tables
    <3>4. s \in {"open", "failed", "gone"} /\ s # "gone" /\ (s = "open" => ~table.cleanup)
      BY Zenon
    <3>5. Inside(t)
      BY <2>0, Zenon DEF Inside
    <3> HIDE DEF s
    <3> QED
      BY <3>1, <3>3, <3>4, <3>5, StateStep, Zenon DEF Goto
  <2>3. CASE table.active # 0 /\ ~Cancelled(t)
    BY <1>2, <2>3, UnmovedStep, Zenon DEF Drain, Block, OnlyFailed
  <2> QED
    BY <2>1, <2>2, <2>3, Zenon
<1>3. CASE Publish(t)
  <2>1. Inside(t) /\ note[t] \in {"open", "failed", "gone"} /\ (note[t] = "open" => ~table.cleanup)
    BY <1>0, <1>3, Zenon DEF Publish, Inside, TypeOK, Tables, Safe, Fenced
  <2>2. pc[t] # "draining"
    BY <1>3, Zenon DEF Publish
  <2> QED
    BY <1>3, <2>1, <2>2, StateStep, Zenon DEF Publish, Goto
<1>4. CASE Notify(t) \/ Refused(t)
  <2>1. /\ ~Inside(t) /\ OnlyFailed /\ note' = [note EXCEPT ![t] = "none"]
        /\ \E p \in {"finish", "idle", "out"} : pc' = [pc EXCEPT ![t] = p]
    BY <1>4, Zenon DEF Notify, Refused, Carry, Goto, Inside, OnlyFailed
  <2>2. note' \in [Threads -> Notes] /\ \A u \in Control \ {t} : note'[u] = note[u]
    BY <1>n, <2>1, ThreadKinds, Zenon DEF Notes
  <2> QED
    BY <2>1, <2>2, OutsideStep, Zenon
<1> QED
  BY <1>1, <1>2, <1>3, <1>4, Zenon DEF Exclusive
\* EndExclusive, with a store or without one.
LEMMA EndStep ==
  ASSUME LeaseInv, NEW t \in Control, Taken(t), OnlyFailed,
         NEW f, EndServing(t, f) \/ EndGone(t, f)
  PROVE  LeaseInv'
<1>0. note \in [Threads -> Notes] /\ t \in Threads
  BY ThreadKinds, Zenon DEF LeaseInv, TypeOK, Tables
<1>1. PICK s \in {"open", "failed", "gone"} :
        Carry(t, "publish", s) /\ (s = "open" => ~table.cleanup)
  BY Zenon DEF EndServing, EndGone
<1>2. /\ note' \in [Threads -> Notes] /\ note'[t] = s
      /\ \A u \in Control \ {t} : note'[u] = note[u]
  BY <1>0, <1>1, ThreadKinds, Zenon DEF Notes, Carry
<1> QED
  BY <1>1, <1>2, InsideStep, Zenon DEF Carry, Goto

LEMMA DdlStep ==
  ASSUME LeaseInv, StartDDL \/ StartRecovery \/ Ddl
  PROVE  LeaseInv'
<1>0. note \in [Threads -> Notes] /\ "ddl" \in Control /\ "ddl" \in Threads
  BY ThreadKinds, Zenon DEF LeaseInv, TypeOK, Tables, Control
<1>1. CASE StartDDL \/ StartRecovery
  <2>1. CASE UNCHANGED <<pc, note>>
    BY <1>1, <2>1, UnmovedStep, Zenon DEF StartDDL, StartRecovery, OnlyFailed
  <2>2. CASE Carry("ddl", "asking", "none") \/ Carry("ddl", "asking", "closing")
    <3>1. /\ note' \in [Threads -> Notes]
          /\ \A u \in Control \ {"ddl"} : note'[u] = note[u]
      BY <1>0, <2>2, ThreadKinds, Zenon DEF Notes, Carry
    <3>2. ~Inside("ddl") /\ OnlyFailed /\ pc' = [pc EXCEPT !["ddl"] = "asking"]
      BY <1>1, <2>2, Zenon DEF StartDDL, StartRecovery, Call, Inside, OnlyFailed, Carry, Goto
    <3> QED
      BY <1>0, <3>1, <3>2, OutsideStep, Zenon
  <2> QED
    BY <1>1, <2>1, <2>2, Zenon DEF StartDDL, StartRecovery
<1>2. CASE Exclusive("ddl")
  BY <1>0, <1>2, ExclusiveStep, Zenon
<1>3. CASE EndDDL
  BY <1>0, <1>3, EndStep, Zenon DEF EndDDL, Taken, Inside, OnlyFailed
<1>4. CASE FailActivation
  <2>1. note' = [note EXCEPT !["ddl"] = "failed"] /\ pc' = [pc EXCEPT !["ddl"] = "publish"]
    BY <1>4, Zenon DEF FailActivation, Carry, Goto
  <2>2. /\ note' \in [Threads -> Notes] /\ note'["ddl"] = "failed"
        /\ \A u \in Control \ {"ddl"} : note'[u] = note[u]
    BY <1>0, <2>1, ThreadKinds, Zenon DEF Notes
  <2> QED
    BY <1>0, <1>4, <2>1, <2>2, InsideStep, Zenon DEF FailActivation, Taken, Inside, OnlyFailed
<1> QED
  BY <1>1, <1>2, <1>3, <1>4, Zenon DEF Ddl

\* A backup pins the store only while no control operation has the table.
LEMMA BackupStep ==
  ASSUME LeaseInv, StartBackup \/ Backup
  PROVE  LeaseInv'
<1>0. TypeOK /\ ActiveCounts /\ Safe
  BY Zenon DEF LeaseInv
<1>1. /\ UNCHANGED note
      /\ \/ \E p \in {"out", "pinning", "pinned"} :
              pc' = [pc EXCEPT !["backup"] = p] /\ p # "pinned" /\ UNCHANGED table
              /\ pc["backup"] # "pinned"
         \/ /\ pc["backup"] = "pinning" /\ pc' = [pc EXCEPT !["backup"] = "pinned"]
            /\ table.state # "busy"
            /\ table' = [table EXCEPT !.pins = @ + 1]
         \/ /\ pc["backup"] = "pinned" /\ pc' = [pc EXCEPT !["backup"] = "out"]
            /\ table' = [table EXCEPT !.pins = @ - 1]
         \/ UNCHANGED <<table, pc>>
  BY <1>0, Zenon DEF StartBackup, Backup, PinForBackup, ReleaseBackupPin, Call, Goto, Block, TypeOK, Tables
<1>2. table'.active = table.active
  BY <1>0, <1>1, Zenon DEF TypeOK, Tables
<1>3. ActiveCounts'
  BY <1>0, <1>1, <1>2, ThreadKinds, OthersMove, SMTT(30) DEF TypeOK, Tables
<1>4. TypeOK'
  <2>1. table' \in Tables
    BY <1>0, <1>1, SMTT(30) DEF TypeOK, Tables, Safe, PinCounts
  <2>2. /\ pc' \in [Threads -> CommandAt \cup ControlAt \cup {"pinning", "pinned"}]
        /\ pc'["backup"] \in {"out", "pinning", "pinned"}
    BY <1>0, <1>1, ThreadKinds DEF TypeOK, CommandAt
  <2>3. \A u \in Commands \cup Control : pc'[u] = pc[u]
    BY <1>0, <1>1, ThreadKinds, ZenonT(60) DEF TypeOK, Control
  <2> QED
    BY <1>0, <1>1, <2>1, <2>2, <2>3, Zenon DEF TypeOK
<1>5. Safe'
  BY <1>0, <1>1, ThreadKinds DEF TypeOK, Tables, Safe, OneInside, TakenAlone, HomeServes,
    PinCounts, Fenced, Inside, Taken
<1> QED
  BY <1>3, <1>4, <1>5, Zenon DEF LeaseInv

LEMMA WatchStep ==
  ASSUME LeaseInv, StartWatch \/ Watch
  PROVE  LeaseInv'
<1>0. note \in [Threads -> Notes] /\ "watch" \in Control /\ "watch" \in Threads
  BY ThreadKinds, Zenon DEF LeaseInv, TypeOK, Tables, Control
<1>1. CASE StartWatch \/ StartRelease
  <2>1. CASE UNCHANGED <<pc, note>>
    BY <1>1, <2>1, UnmovedStep, Zenon DEF StartWatch, StartRelease, OnlyFailed
  <2>2. CASE Carry("watch", "asking", "subscribe") \/ Carry("watch", "asking", "closing")
    <3>1. /\ note' \in [Threads -> Notes]
          /\ \A u \in Control \ {"watch"} : note'[u] = note[u]
      BY <1>0, <2>2, ThreadKinds, Zenon DEF Notes, Carry
    <3>2. ~Inside("watch") /\ OnlyFailed /\ pc' = [pc EXCEPT !["watch"] = "asking"]
      BY <1>1, <2>2, Zenon DEF StartWatch, StartRelease, Call, Inside, OnlyFailed, Carry, Goto
    <3> QED
      BY <1>0, <3>1, <3>2, OutsideStep, Zenon
  <2> QED
    BY <1>1, <2>1, <2>2, Zenon DEF StartWatch, StartRelease
<1>2. CASE Exclusive("watch")
  BY <1>0, <1>2, ExclusiveStep, Zenon
<1>3. CASE Subscribe /\ StartsTimer
  <2>0. TypeOK /\ ActiveCounts /\ Safe
    BY Zenon DEF LeaseInv
  <2>1. /\ pc["watch"] = "exclusive" /\ UNCHANGED table
        /\ pc' = [pc EXCEPT !["watch"] = "publish", !["timer"] = "idle"]
        /\ note' = [note EXCEPT !["watch"] = IF table.cleanup \/ table.failed THEN "failed" ELSE "open"]
    BY <1>3, Zenon DEF Subscribe
  <2>2. ActiveCounts'
    BY <2>0, <2>1, ThreadKinds, OthersMove, Zenon DEF TypeOK, Tables, Control
  <2>3. TypeOK'
    <3>1. /\ pc' \in [Threads -> CommandAt \cup ControlAt \cup {"pinning", "pinned"}]
          /\ \A u \in Commands \cup {"ddl", "backup"} : pc'[u] = pc[u]
          /\ pc'["watch"] = "publish" /\ pc'["timer"] = "idle"
      <4>1. {"watch", "timer", "ddl", "backup"} \subseteq Threads /\ Commands \subseteq Threads
        BY ThreadKinds, Zenon DEF Control
      <4>2. \A u \in Commands \cup {"ddl", "backup"} : u # "watch" /\ u # "timer"
        BY ThreadKinds, Zenon DEF Control
      <4>3. {"publish", "idle"} \subseteq ControlAt
        BY Zenon DEF ControlAt
      <4>4. pc \in [Threads -> CommandAt \cup ControlAt \cup {"pinning", "pinned"}]
        BY <2>0, Zenon DEF TypeOK
      <4> QED
        BY <2>1, <4>1, <4>2, <4>3, <4>4, Zenon
    <3>2. /\ note' \in [Threads -> Notes] /\ note'["watch"] \in {"failed", "open"}
          /\ note'["ddl"] = note["ddl"]
      BY <1>0, <2>1, ThreadKinds, Zenon DEF Notes, Control
    <3>3. \A u \in Control : pc'[u] \in ControlAt
      BY <2>0, <3>1, ZenonT(60) DEF TypeOK, Control, ControlAt
    <3>4. \A u \in Control : pc'[u] = "publish" => note'[u] \in {"open", "failed", "gone"}
      BY <2>0, <3>1, <3>2 DEF TypeOK, Control
    <3>5. (\A c \in Commands : pc'[c] \in CommandAt) /\ pc'["backup"] \in {"out", "pinning", "pinned"}
      BY <2>0, <3>1, Zenon DEF TypeOK
    <3>6. table' \in Tables
      BY <2>0, <2>1, Zenon DEF TypeOK
    <3> QED
      BY <3>1, <3>2, <3>3, <3>4, <3>5, <3>6, Zenon DEF TypeOK
  <2>4. Safe'
    BY <2>0, <2>1, ThreadKinds DEF TypeOK, Tables, Control, Safe, OneInside, TakenAlone,
      HomeServes, PinCounts, Fenced, Inside, Taken
  <2> QED
    BY <2>2, <2>3, <2>4, Zenon DEF LeaseInv
<1>4. CASE Subscribe /\ ~StartsTimer
  BY <1>0, <1>4, EndStep, Zenon DEF Subscribe, Taken, Inside, OnlyFailed
<1>5. CASE Release
  BY <1>0, <1>5, EndStep, Zenon DEF Release, EndRelease, Taken, Inside, OnlyFailed
<1>6. CASE AbandonFeed
  BY <1>0, <1>6, InsideStep, Zenon DEF AbandonFeed, Goto, Taken, Inside, OnlyFailed
<1>7. CASE JoinTimer
  BY <1>0, <1>7, EndStep, Zenon DEF JoinTimer, EndRelease, Taken, Inside, OnlyFailed
<1> QED
  BY <1>1, <1>2, <1>3, <1>4, <1>5, <1>6, <1>7, Zenon DEF Watch
LEMMA TimerStep ==
  ASSUME LeaseInv, Timer
  PROVE  LeaseInv'
<1>0. note \in [Threads -> Notes] /\ "timer" \in Control /\ "timer" \in Threads
  BY ThreadKinds, Zenon DEF LeaseInv, TypeOK, Tables, Control
<1>1. CASE Exclusive("timer")
  BY <1>0, <1>1, ExclusiveStep, Zenon
<1>2. CASE TimerWakes \/ TimerFinishes \/ QuarantineEnds
  <2>1. /\ ~Inside("timer") /\ OnlyFailed /\ UNCHANGED note
        /\ \E p \in {"finish", "asking", "out"} : pc' = [pc EXCEPT !["timer"] = p]
    BY <1>2, Zenon DEF TimerWakes, TimerFinishes, QuarantineEnds, Goto, Inside, OnlyFailed
  <2> QED
    BY <1>0, <2>1, OutsideStep, Zenon
<1>3. CASE ExpireFeedLinger
  BY <1>0, <1>3, EndStep, Zenon DEF ExpireFeedLinger, Taken, Inside, OnlyFailed
<1>4. CASE QuarantineFeedLinger
  <2>0. TypeOK /\ ActiveCounts /\ Safe
    BY Zenon DEF LeaseInv
  <2>1. /\ pc["timer"] = "exclusive" /\ pc' = [pc EXCEPT !["timer"] = "quarantine"]
        /\ table' = [table EXCEPT !.cleanup = TRUE] /\ UNCHANGED note
    BY <1>4, Zenon DEF QuarantineFeedLinger, Goto
  <2>2. table.state = "busy" /\ \A u \in Control : Inside(u) => u = "timer"
    BY <1>0, <2>0, <2>1, Zenon DEF Safe, OneInside, Inside
  <2>3. /\ table' \in Tables /\ table'.active = table.active
        /\ table'.state = table.state /\ table'.home = table.home
        /\ table'.pins = table.pins
    BY <2>0, <2>1, Zenon DEF TypeOK, Tables
  <2>4. /\ TypeOK' /\ ActiveCounts'
        /\ pc'["timer"] = "quarantine" /\ \A u \in Control : u # "timer" => pc'[u] = pc[u]
        /\ \A c \in Commands : pc'[c] = pc[c]
        /\ pc'["backup"] = pc["backup"]
    <3>1. "quarantine" \in ControlAt /\ note' \in [Threads -> Notes]
      BY <1>0, <2>1, Zenon DEF ControlAt
    <3>2. \A u \in Control \ {"timer"} : note'[u] = note[u]
      BY <2>1, Zenon
    <3> QED
      BY <1>0, <2>0, <2>1, <2>3, <3>1, <3>2, ControlMove, Zenon
  <2>5. Safe'
    BY <1>0, <2>0, <2>1, <2>2, <2>3, <2>4 DEF Safe, OneInside, TakenAlone,
      HomeServes, PinCounts, Fenced, Inside, Taken
  <2> QED
    BY <2>4, <2>5, Zenon DEF LeaseInv
<1>5. CASE QuarantineNotifies
  BY <1>0, <1>5, InsideStep, Zenon DEF QuarantineNotifies, Goto, Taken, Inside, OnlyFailed
<1>6. CASE QuarantineFences
  BY <1>0, <1>6, StateStep, Zenon DEF QuarantineFences, Goto, Inside
<1> QED
  BY <1>1, <1>2, <1>3, <1>4, <1>5, <1>6, Zenon DEF Timer

-----------------------------------------------------------------------------
\* The invariant of admission: the count of leases is exact, one control
\* operation at a time has the table, and drained means drained
\* (Table::Acquire, BeginExclusive, EndExclusive, PinForBackup).
THEOREM LeaseInvariant == Spec => []LeaseInv
<1>1. Init => LeaseInv
  <2> SUFFICES ASSUME Init PROVE LeaseInv
    BY Zenon
  <2>1. Counted = {}
    BY ThreadKinds, Zenon DEF Init, Counted
  <2>2. ActiveCounts
    BY <2>1, FS_EmptySet, Zenon DEF Init, ActiveCounts
  <2>3. TypeOK
    BY ThreadKinds, Zenon DEF Notes, Init, TypeOK, Tables, CommandAt, ControlAt
  <2>4. Safe
    BY ThreadKinds, Zenon DEF Init, Safe, OneInside, TakenAlone, HomeServes, PinCounts,
      Fenced, Inside, Taken
  <2> QED
    BY <2>2, <2>3, <2>4, Zenon DEF LeaseInv
<1>2. LeaseInv /\ [Next]_vars => LeaseInv'
  <2> SUFFICES ASSUME LeaseInv, [Next]_vars PROVE LeaseInv'
    BY Zenon
  <2>1. CASE UNCHANGED vars
    BY <2>1, UnmovedStep, Zenon DEF vars, OnlyFailed
  <2>2. CASE FallAsleep \/ DeadlinePasses \/ CatalogFails
    BY <2>2, UnmovedStep, Zenon DEF FallAsleep, DeadlinePasses, CatalogFails, OnlyFailed
  <2>3. CASE \E c \in Commands : Command(c)
    BY <2>3, CommandStep, Zenon
  <2>4. CASE StartDDL \/ StartRecovery \/ Ddl
    BY <2>4, DdlStep, Zenon
  <2>5. CASE StartBackup \/ Backup
    BY <2>5, BackupStep, Zenon
  <2>6. CASE StartWatch \/ Watch
    BY <2>6, WatchStep, Zenon
  <2>7. CASE Timer
    BY <2>7, TimerStep, Zenon
  <2> QED
    BY <2>1, <2>2, <2>3, <2>4, <2>5, <2>6, <2>7, Zenon DEF Next
<1> QED
  BY <1>1, <1>2, PTL DEF Spec

\* The store a command or a backup uses stays in the table, and at most one
\* control operation ever has it taken out (Lease, BackupPin, BeginExclusive).
THEOREM StoreStaysUnderLeases == Spec => []LeasedStoreInPlace
<1>1. LeaseInv => LeasedStoreInPlace
  <2> SUFFICES ASSUME LeaseInv PROVE LeasedStoreInPlace
    BY Zenon
  <2>0. TypeOK /\ Safe
    BY Zenon DEF LeaseInv
  <2> DEFINE taken == {t \in Threads : pc[t] \in {"exclusive", "joining", "quarantine", "fence"}}
  <2>1. taken \subseteq {t \in Control : Taken(t)}
    BY <2>0, ThreadKinds, Zenon DEF TypeOK, Tables, CommandAt, Taken, Inside
  <2>2. taken = {} \/ \E t : taken = {t}
    BY <2>0, <2>1 DEF Safe, OneInside, Taken
  <2> HIDE DEF taken
  <2>3. Cardinality(taken) <= 1
    <3>1. Cardinality(taken) = 0 \/ Cardinality(taken) = 1
      BY <2>2, FS_EmptySet, FS_Singleton, Zenon
    <3> QED
      BY <3>1
  <2>4. (\E c \in Commands : pc[c] = "leased") => taken = {} /\ table.home
    BY <2>0, <2>1, Zenon DEF Safe, TakenAlone, HomeServes
  <2>5. pc["backup"] = "pinned" => taken = {}
    BY <2>0, <2>1, Zenon DEF Safe, PinCounts, OneInside, Taken
  <2> QED
    BY <2>3, <2>4, <2>5, Zenon DEF LeasedStoreInPlace, taken
<1> QED
  BY <1>1, LeaseInvariant, PTL

-----------------------------------------------------------------------------
(* The feed.  Subscriptions are counted, and the ring attached, detached and *)
(* ended, only by whoever has the table, so what FeedInv says of an open     *)
(* table has to hold from EndExclusive on, before the state is published.    *)
(* A subscription outlives its watch only in a table that is gone.           *)
Feeds ==
  [ring : {"none", "attached", "paused", "ended"}, subs : {0, 1}, held : BOOLEAN,
   deadline : {"none", "armed", "passed"}]
Timers == [joinable : BOOLEAN, finished : BOOLEAN, stop : BOOLEAN, expired : BOOLEAN]

\* A control operation is about to publish an open table.
Opening == \E t \in Control : pc[t] = "publish" /\ note[t] = "open"

\* The watch has given its subscription up and it is still counted.
Releasing == note["watch"] = "closing" /\ pc["watch"] \in {"asking", "draining", "exclusive"}

FeedInv ==
  /\ feed \in Feeds /\ timer \in Timers
  /\ timer.stop => pc["watch"] = "joining"
  /\ feed.held => pc["watch"] \in {"publish", "notify", "out"}
  /\ table.state # "gone" => (feed.subs = 1 <=> feed.held \/ Releasing)
  /\ table.state # "gone" /\ feed.subs = 1 => feed.ring # "none"
  /\ table.state = "open" \/ Opening => (feed.subs = 1 => feed.ring = "attached")

\* Steps of commands and backups, and the passing of time.
LEMMA FeedApart ==
  ASSUME FeedInv, table'.state = table.state, timer' \in Timers, timer'.stop = timer.stop,
         \A t \in Control : pc'[t] = pc[t] /\ note'[t] = note[t],
         feed' \in Feeds, feed'.ring = feed.ring, feed'.subs = feed.subs, feed'.held = feed.held
  PROVE  FeedInv'
<1>1. Opening' = Opening /\ Releasing' = Releasing
  BY ZenonT(60) DEF Opening, Releasing, Control
<1> QED
  BY <1>1, Zenon DEF FeedInv, Control

\* A control operation other than the watch moves, and publishes no open table.
LEMMA FeedMove ==
  ASSUME LeaseInv, FeedInv, NEW t \in {"ddl", "timer"}, NEW p \in ControlAt,
         pc' = [pc EXCEPT ![t] = p], p = "publish" => note'[t] # "open",
         \A u \in Control \ {t} : note'[u] = note[u],
         table'.state = table.state \/ (table.state = "busy" /\ table'.state # "open"),
         timer' \in Timers, timer'.stop = timer.stop, feed' \in Feeds,
         feed'.subs = feed.subs, feed'.held = feed.held,
         feed'.ring = feed.ring \/ (Inside(t) /\ feed'.ring = "ended" /\ feed.ring # "none")
  PROVE  FeedInv'
<1>0. TypeOK /\ Safe
  BY Zenon DEF LeaseInv
<1>1. /\ \A u \in Control \ {t} : pc'[u] = pc[u]
      /\ pc'[t] = p
  BY <1>0, ThreadKinds, Zenon DEF TypeOK, Control
<1>2. Releasing' = Releasing /\ pc'["watch"] = pc["watch"]
  BY <1>1, Zenon DEF Releasing, Control
<1>3. Opening' => Opening
  BY <1>1, ZenonT(60) DEF Opening
<1>4. Inside(t) => table.state = "busy" /\ \A u \in Control \ {t} : pc[u] # "publish"
  BY <1>0, Zenon DEF Safe, OneInside, Inside, Control
<1>5. Inside(t) => ~Opening'
  BY <1>1, <1>4, Zenon DEF Opening
<1> QED
  BY <1>2, <1>3, <1>4, <1>5, Zenon DEF FeedInv

\* BeginExclusive: a watch that gives a subscription up is refused only by a
\* table that is gone.
LEMMA BeginFeed ==
  ASSUME LeaseInv, FeedInv, NEW t \in Control, BeginExclusive(t)
  PROVE  \/ /\ Goto(t, "refused") /\ UNCHANGED <<table, note, feed, timer>>
            /\ t = "watch" /\ note[t] = "closing" => table.state = "gone"
         \/ UNCHANGED <<table, pc, note, feed, timer>>
         \/ Vacant /\ table.state # "gone" /\ Hold(t) /\ UNCHANGED <<note, timer>>
         \/ /\ Vacant /\ table.state # "gone"
            /\ table' = [table EXCEPT !.state = "busy"]
            /\ Goto(t, "draining") /\ UNCHANGED <<note, feed, timer>>
<1>1. CASE Cancelled(t)
  BY <1>1, Zenon DEF BeginExclusive, Cancelled
<1>2. CASE ~Cancelled(t) /\ ~(Vacant \/ (~Closing(t) /\ table.cleanup))
  BY <1>2, Zenon DEF BeginExclusive, Block
<1>3. CASE ~Cancelled(t) /\ (Vacant \/ (~Closing(t) /\ table.cleanup))
  BY <1>3, Zenon DEF BeginExclusive, Closing
<1> QED
  BY <1>1, <1>2, <1>3, Zenon

LEMMA HoldFeed ==
  ASSUME LeaseInv, FeedInv, NEW t \in Control, Hold(t), UNCHANGED <<note, timer>>,
         (pc[t] = "asking" /\ Vacant /\ table.state # "gone") \/ pc[t] = "draining"
  PROVE  FeedInv'
<1>0. TypeOK /\ Safe
  BY Zenon DEF LeaseInv
<1>1. /\ \A u \in Control \ {t} : pc'[u] = pc[u]
      /\ pc'[t] = "exclusive"
  BY <1>0, ThreadKinds, Zenon DEF TypeOK, Hold, Goto
<1>2. table'.state = "busy" /\ table.state # "gone"
  BY <1>0, Zenon DEF TypeOK, Tables, Hold, Vacant, Safe, OneInside, Inside
<1>3. ~Opening'
  <2>1. \A u \in Control : pc[u] # "publish"
    BY <1>0, Zenon DEF Safe, OneInside, Inside, Vacant
  <2> QED
    BY <1>1, <2>1, Zenon DEF Opening
<1>4. /\ feed' \in Feeds /\ feed'.subs = feed.subs /\ feed'.held = feed.held
      /\ feed.subs = 1 /\ feed.ring # "none" => feed'.ring # "none"
  BY DEF FeedInv, Feeds, Hold
<1>5. Releasing' = Releasing
  BY <1>1, Zenon DEF Releasing, Control
<1>6. pc'["watch"] = pc["watch"] \/ (t = "watch" /\ ~feed.held /\ ~timer.stop)
  BY <1>1, Zenon DEF FeedInv, Control
<1> QED
  BY <1>2, <1>3, <1>4, <1>5, <1>6, Zenon DEF FeedInv

\* The steps every control operation shares.
LEMMA ExclusiveFeed ==
  ASSUME LeaseInv, FeedInv, NEW t \in Control, Exclusive(t)
  PROVE  FeedInv'
<1>0. TypeOK /\ Safe
  BY Zenon DEF LeaseInv
<1>m. ASSUME NEW p, pc' = [pc EXCEPT ![t] = p]
      PROVE  pc'[t] = p /\ \A u \in Control \ {t} : pc'[u] = pc[u]
  BY <1>0, <1>m, ThreadKinds, Zenon DEF TypeOK
<1>1. CASE BeginExclusive(t)
  <2>0. pc[t] = "asking"
    BY <1>1, Zenon DEF BeginExclusive
  <2>1. CASE /\ Goto(t, "refused") /\ UNCHANGED <<table, note, feed, timer>>
             /\ t = "watch" /\ note[t] = "closing" => table.state = "gone"
    <3>1. pc'[t] = "refused" /\ \A u \in Control \ {t} : pc'[u] = pc[u]
      BY <2>1, <1>m, Zenon DEF Goto
    <3>2. (Opening' => Opening) /\ (t # "watch" => Releasing' = Releasing)
      BY <2>1, <3>1, Zenon DEF Opening, Releasing, Control
    <3>3. t = "watch" => ~feed.held /\ ~timer.stop
      BY <2>0, Zenon DEF FeedInv
    <3>4. t = "watch" /\ table.state # "gone" => ~Releasing /\ ~Releasing'
      BY <2>0, <2>1, <3>1, Zenon DEF Releasing
    <3> QED
      BY <2>1, <3>1, <3>2, <3>3, <3>4, SMTT(30) DEF FeedInv, Control
  <2>2. CASE UNCHANGED <<table, pc, note, feed, timer>>
    BY <2>2, FeedApart, Zenon DEF FeedInv
  <2>3. CASE Vacant /\ table.state # "gone" /\ Hold(t) /\ UNCHANGED <<note, timer>>
    BY <2>0, <2>3, HoldFeed, Zenon
  <2>4. CASE /\ Vacant /\ table.state # "gone"
             /\ table' = [table EXCEPT !.state = "busy"]
             /\ Goto(t, "draining") /\ UNCHANGED <<note, feed, timer>>
    <3>1. pc'[t] = "draining" /\ \A u \in Control \ {t} : pc'[u] = pc[u]
      BY <2>4, <1>m, Zenon DEF Goto
    <3>2. ~Opening' /\ Releasing' = Releasing
      <4>1. \A u \in Control : pc[u] # "publish"
        BY <1>0, <2>4, Zenon DEF Safe, OneInside, Inside, Vacant
      <4> QED
        BY <2>0, <2>4, <3>1, <4>1, Zenon DEF Opening, Releasing, Control
    <3>3. table'.state = "busy"
      BY <1>0, <2>4, Zenon DEF TypeOK, Tables
    <3>4. t = "watch" => ~feed.held /\ ~timer.stop
      BY <2>0, Zenon DEF FeedInv
    <3> QED
      BY <2>4, <3>1, <3>2, <3>3, <3>4, Zenon DEF FeedInv, Control
  <2> QED
    BY <1>1, <2>1, <2>2, <2>3, <2>4, BeginFeed, Zenon
<1>2. CASE Drain(t)
  <2>1. CASE table.active = 0
    BY <1>2, <2>1, HoldFeed, Zenon DEF Drain
  <2>2. CASE table.active # 0 /\ ~Cancelled(t)
    <3>1. UNCHANGED <<table, pc, note, feed, timer>>
      BY <1>2, <2>2, Zenon DEF Drain, Block
    <3> QED
      BY <3>1, FeedApart, Zenon DEF FeedInv
  <2>3. CASE Cancelled(t)
    \* A timer that drains is not told to stop: who stops it has the table.
    <3>1. pc["watch"] = "joining" /\ t = "timer" /\ pc["timer"] = "draining"
      BY <1>2, <2>3, Zenon DEF Drain, Cancelled, FeedInv
    <3> QED
      BY <1>0, <3>1, Zenon DEF Safe, OneInside, Inside, Control
  <2> QED
    BY <2>1, <2>2, <2>3, Zenon
<1>3. CASE Publish(t)
  <2>1. /\ pc[t] = "publish" /\ pc' = [pc EXCEPT ![t] = "notify"]
        /\ table' = [table EXCEPT !.state = note[t], !.home = note[t] # "gone"]
        /\ UNCHANGED <<feed, timer, note>>
    BY <1>3, Zenon DEF Publish, Goto
  <2>2. pc'[t] = "notify" /\ \A u \in Control \ {t} : pc'[u] = pc[u]
    BY <2>1, <1>m, Zenon
  <2>3. table'.state = note[t] /\ table.state = "busy"
    BY <1>0, <2>1, Zenon DEF TypeOK, Tables, Safe, OneInside, Inside
  <2>4. ~Opening'
    BY <1>0, <2>1, <2>2, Zenon DEF Opening, Safe, OneInside, Inside
  <2>5. note[t] = "open" => Opening
    BY <2>1, Zenon DEF Opening
  <2>6. Releasing' = Releasing
    BY <2>1, <2>2, Zenon DEF Releasing, Control
  <2>7. t = "watch" => ~timer.stop
    BY <2>1, Zenon DEF FeedInv
  <2> QED
    BY <2>1, <2>2, <2>3, <2>4, <2>5, <2>6, <2>7, Zenon DEF FeedInv, Control
<1>4. CASE Notify(t) \/ Refused(t)
  <2>1. /\ pc[t] \in {"notify", "refused"} /\ UNCHANGED <<table, feed, timer>>
        /\ \E p \in {"finish", "idle", "out"} :
             /\ pc' = [pc EXCEPT ![t] = p] /\ note' = [note EXCEPT ![t] = "none"]
             /\ t = "watch" => p = "out"
    BY <1>4, Zenon DEF Notify, Refused, Carry, Goto
  <2>2. PICK p \in {"finish", "idle", "out"} :
             /\ pc' = [pc EXCEPT ![t] = p] /\ note' = [note EXCEPT ![t] = "none"]
             /\ t = "watch" => p = "out"
    BY <2>1, Zenon
  <2>3. pc'[t] = p /\ \A u \in Control \ {t} : pc'[u] = pc[u]
    BY <2>2, <1>m, Zenon
  <2>4. \A u \in Control \ {t} : note'[u] = note[u]
    BY <2>2
  <2>5. (Opening' => Opening) /\ Releasing' = Releasing
    BY <2>1, <2>3, <2>4, Zenon DEF Opening, Releasing, Control
  <2>6. t = "watch" => ~timer.stop
    BY <2>1, Zenon DEF FeedInv
  <2> QED
    BY <2>1, <2>3, <2>5, <2>6, SMTT(30) DEF FeedInv, Control
<1> QED
  BY <1>1, <1>2, <1>3, <1>4, Zenon DEF Exclusive

\* EndExclusive with the feed f the operation leaves.
LEMMA EndFeed ==
  ASSUME LeaseInv, FeedInv, NEW t \in Control, Taken(t), table'.state = table.state,
         NEW f \in Feeds, EndServing(t, f) \/ EndGone(t, f),
         timer' \in Timers, timer'.stop => t # "watch" /\ timer.stop,
         f.subs = 1 => f.ring # "none",
         t # "watch" => f.subs = feed.subs /\ f.held = feed.held,
         t = "watch" => (f.subs = 1 <=> f.held)
  PROVE  FeedInv'
<1>0. TypeOK /\ Safe
  BY Zenon DEF LeaseInv
<1>1. PICK s \in {"open", "failed", "gone"} :
        /\ Carry(t, "publish", s)
        /\ feed' \in Feeds /\ feed'.subs = f.subs /\ feed'.held = f.held
        /\ f.subs = 1 => feed'.ring # "none"
        /\ s = "open" /\ f.subs = 1 => feed'.ring = "attached"
  BY SMTT(30) DEF EndServing, EndGone, Feeds
<1>2. /\ pc'[t] = "publish" /\ \A u \in Control \ {t} : pc'[u] = pc[u]
      /\ note'[t] = s /\ \A u \in Control \ {t} : note'[u] = note[u]
  BY <1>0, <1>1, ThreadKinds, Zenon DEF TypeOK, Carry, Goto
<1>3. table.state = "busy" /\ \A u \in Control \ {t} : pc[u] # "publish"
  BY <1>0, Zenon DEF Safe, OneInside, Taken, Inside
<1>4. Opening' => s = "open"
  BY <1>2, <1>3, Zenon DEF Opening
<1>5. CASE t = "watch"
  <2>1. ~Releasing' /\ pc'["watch"] = "publish"
    BY <1>2, <1>5, Zenon DEF Releasing
  <2> QED
    BY <1>1, <1>3, <1>4, <1>5, <2>1, Zenon DEF FeedInv
<1>6. CASE t # "watch"
  <2>1. Releasing' = Releasing /\ pc'["watch"] = pc["watch"]
    BY <1>2, <1>6, Zenon DEF Releasing, Control
  <2> QED
    BY <1>1, <1>3, <1>4, <1>6, <2>1, Zenon DEF FeedInv
<1> QED
  BY <1>5, <1>6, Zenon

LEMMA DdlFeed ==
  ASSUME LeaseInv, FeedInv, StartDDL \/ StartRecovery \/ Ddl
  PROVE  FeedInv'
<1>0. TypeOK /\ Safe /\ "ddl" \in Control /\ "ddl" \in Threads
  BY ThreadKinds, Zenon DEF LeaseInv, Control
<1>1. CASE StartDDL \/ StartRecovery
  <2>1. UNCHANGED <<table, feed, timer>>
    BY <1>1, Zenon DEF StartDDL, StartRecovery
  <2>2. CASE UNCHANGED <<pc, note>>
    BY <2>1, <2>2, FeedApart, Zenon DEF FeedInv
  <2>3. CASE Carry("ddl", "asking", "none") \/ Carry("ddl", "asking", "closing")
    <3>1. pc' = [pc EXCEPT !["ddl"] = "asking"] /\ \A u \in Control \ {"ddl"} : note'[u] = note[u]
      BY <1>0, <2>3, ThreadKinds, Zenon DEF Carry, Goto, TypeOK
    <3> QED
      BY <2>1, <3>1, FeedMove, Zenon DEF FeedInv, ControlAt
  <2> QED
    BY <1>1, <2>2, <2>3, Zenon DEF StartDDL, StartRecovery
<1>2. CASE Exclusive("ddl")
  BY <1>0, <1>2, ExclusiveFeed, Zenon
<1>3. CASE EndDDL
  <2>1. /\ EndServing("ddl", feed) \/ EndGone("ddl", feed)
        /\ Taken("ddl") /\ UNCHANGED timer /\ table'.state = table.state
    BY <1>0, <1>3, Zenon DEF EndDDL, Taken, Inside, TypeOK, Tables
  <2>2. table.state = "busy"
    BY <1>0, <2>1, Zenon DEF Safe, OneInside, Taken
  <2> QED
    BY <1>0, <2>1, <2>2, EndFeed, Zenon DEF FeedInv
<1>4. CASE FailActivation
  <2>1. /\ pc["ddl"] = "exclusive" /\ pc' = [pc EXCEPT !["ddl"] = "publish"]
        /\ note' = [note EXCEPT !["ddl"] = "failed"] /\ UNCHANGED timer
        /\ table'.state = table.state
    BY <1>0, <1>4, Zenon DEF FailActivation, Carry, Goto, TypeOK, Tables
  <2>2. note'["ddl"] = "failed" /\ \A u \in Control \ {"ddl"} : note'[u] = note[u]
    BY <1>0, <2>1 DEF TypeOK
  <2>3. /\ feed' \in Feeds /\ feed'.subs = feed.subs /\ feed'.held = feed.held
        /\ feed'.ring = feed.ring \/ (feed'.ring = "ended" /\ feed.ring # "none")
    BY <1>4, Zenon DEF FailActivation, FeedInv, Feeds
  <2> QED
    BY <2>1, <2>2, <2>3, FeedMove, Zenon DEF FeedInv, ControlAt, Inside
<1> QED
  BY <1>1, <1>2, <1>3, <1>4, Zenon DEF Ddl

LEMMA WatchFeed ==
  ASSUME LeaseInv, FeedInv, StartWatch \/ Watch
  PROVE  FeedInv'
<1>0. TypeOK /\ Safe /\ "watch" \in Control /\ "watch" \in Threads /\ feed \in Feeds /\ timer \in Timers
  BY ThreadKinds, Zenon DEF LeaseInv, Control, FeedInv
<1>m. ASSUME NEW p, NEW n, Carry("watch", p, n)
      PROVE  /\ pc'["watch"] = p /\ \A u \in Control \ {"watch"} : pc'[u] = pc[u]
             /\ note'["watch"] = n /\ \A u \in Control \ {"watch"} : note'[u] = note[u]
  BY <1>0, <1>m, ThreadKinds, Zenon DEF TypeOK, Carry, Goto
<1>b. ASSUME Taken("watch")
      PROVE  /\ table.state = "busy" /\ \A u \in Control \ {"watch"} : pc[u] # "publish"
  BY <1>0, <1>b, Zenon DEF Safe, OneInside, Taken, Inside
<1>1. CASE StartWatch
  <2>1. /\ pc["watch"] = "out" /\ ~feed.held /\ UNCHANGED <<table, feed>> /\ ~timer.stop
    BY <1>1, Zenon DEF StartWatch, Call, FeedInv
  <2>2. timer' \in Timers /\ ~timer'.stop
    <3>1. Joined \in Timers /\ ~Joined.stop
      BY <1>0, Zenon DEF Joined, Timers
    <3>2. timer' = Joined \/ timer' = timer
      BY <1>1, Zenon DEF StartWatch
    <3> QED
      BY <1>0, <2>1, <3>1, <3>2, Zenon
  <2>3. CASE UNCHANGED <<pc, note>>
    <3>1. timer'.stop = timer.stop
      BY <1>0, <2>1, <2>2, Zenon DEF Timers
    <3> QED
      BY <1>0, <2>1, <2>2, <2>3, <3>1, FeedApart, Zenon
  <2>4. CASE Carry("watch", "asking", "subscribe")
    <3>1. /\ pc'["watch"] = "asking" /\ \A u \in Control \ {"watch"} : pc'[u] = pc[u]
          /\ note'["watch"] = "subscribe" /\ \A u \in Control \ {"watch"} : note'[u] = note[u]
      BY <2>4, <1>m, Zenon
    <3>2. ~Releasing /\ ~Releasing' /\ (Opening' => Opening)
      BY <2>1, <3>1, Zenon DEF Releasing, Opening
    <3> QED
      BY <2>1, <2>2, <3>1, <3>2, Zenon DEF FeedInv
  <2> QED
    BY <1>1, <2>3, <2>4, Zenon DEF StartWatch
<1>2. CASE Exclusive("watch")
  BY <1>0, <1>2, ExclusiveFeed, Zenon
<1>3. CASE Subscribe
  <2>1. pc["watch"] = "exclusive" /\ note["watch"] = "subscribe" /\ UNCHANGED table
    BY <1>3, Zenon DEF Subscribe
  <2>2. table.state = "busy" /\ \A u \in Control \ {"watch"} : pc[u] # "publish"
    BY <2>1, <1>b, Zenon DEF Taken, Inside
  <2>3. feed.subs = 0 /\ ~timer.stop
    BY <1>0, <2>1, <2>2, Zenon DEF FeedInv, Releasing, Feeds
  <2> DEFINE f == [feed EXCEPT !.ring = "attached", !.subs = @ + 1, !.held = TRUE, !.deadline = "none"]
  <2>4. f \in Feeds /\ f.subs = 1 /\ f.held /\ f.ring = "attached"
    <3>1. f = [feed EXCEPT !.ring = "attached", !.subs = 1, !.held = TRUE, !.deadline = "none"]
      BY <2>3
    <3> HIDE DEF f
    <3> QED
      BY <1>0, <3>1, Zenon DEF Feeds
  <2>5. CASE StartsTimer
    <3>1. /\ timer' = [timer EXCEPT !.joinable = TRUE, !.finished = FALSE, !.expired = FALSE]
          /\ feed' = [f EXCEPT !.ring = IF table.cleanup \/ table.failed THEN "ended" ELSE @]
          /\ pc' = [pc EXCEPT !["watch"] = "publish", !["timer"] = "idle"]
          /\ note' = [note EXCEPT !["watch"] = IF table.cleanup \/ table.failed THEN "failed" ELSE "open"]
      BY <1>3, <2>5, Zenon DEF Subscribe
    <3> HIDE DEF f
    <3>2. /\ feed' \in Feeds /\ feed'.subs = 1 /\ feed'.held /\ feed'.ring # "none"
          /\ ~(table.cleanup \/ table.failed) => feed'.ring = "attached"
      BY <2>4, <3>1, Zenon DEF Feeds
    <3>3. timer' \in Timers /\ ~timer'.stop
      BY <1>0, <2>3, <3>1, Zenon DEF Timers
    <3>4. pc'["watch"] = "publish" /\ pc'["timer"] = "idle" /\ pc'["ddl"] = pc["ddl"]
      BY <1>0, <3>1, ThreadKinds, Zenon DEF TypeOK, Control
    <3>5. note'["watch"] = (IF table.cleanup \/ table.failed THEN "failed" ELSE "open")
      BY <1>0, <3>1, Zenon DEF TypeOK
    <3>6. Opening' => note'["watch"] = "open"
      BY <2>2, <3>4, Zenon DEF Opening, Control
    <3>7. Opening' => feed'.ring = "attached"
      BY <3>2, <3>5, <3>6, Zenon
    <3> QED
      BY <2>1, <2>2, <3>2, <3>3, <3>4, <3>7, Zenon DEF FeedInv
  <2>6. CASE ~StartsTimer
    <3>1. EndServing("watch", f) /\ UNCHANGED timer
      BY <1>3, <2>6, Zenon DEF Subscribe
    <3> HIDE DEF f
    <3> QED
      BY <1>0, <2>1, <2>3, <2>4, <3>1, EndFeed, Zenon DEF Taken, Inside
  <2> QED
    BY <2>5, <2>6, Zenon
<1>4. CASE StartRelease
  <2>1. /\ pc["watch"] = "out" /\ feed.held /\ UNCHANGED <<table, timer>> /\ ~timer.stop
        /\ feed' = [feed EXCEPT !.held = FALSE]
        /\ Carry("watch", "asking", "closing")
    BY <1>4, Zenon DEF StartRelease, FeedInv
  <2>2. feed' \in Feeds /\ feed'.subs = feed.subs /\ feed'.ring = feed.ring /\ ~feed'.held
    BY <1>0, <2>1, Zenon DEF Feeds
  <2>3. /\ pc'["watch"] = "asking" /\ \A u \in Control \ {"watch"} : pc'[u] = pc[u]
        /\ note'["watch"] = "closing" /\ \A u \in Control \ {"watch"} : note'[u] = note[u]
    BY <2>1, <1>m, Zenon
  <2>4. Releasing' /\ (Opening' => Opening)
    BY <2>3, Zenon DEF Releasing, Opening
  <2> QED
    BY <2>1, <2>2, <2>3, <2>4, Zenon DEF FeedInv
<1>5. CASE Release
  <2>1. pc["watch"] = "exclusive" /\ note["watch"] = "closing" /\ UNCHANGED <<table, timer>>
    BY <1>5, Zenon DEF Release
  <2>2. table.state = "busy"
    BY <2>1, <1>b, Zenon DEF Taken, Inside
  <2>3. feed.subs = 1 /\ ~feed.held /\ ~timer.stop
    BY <2>1, <2>2, Zenon DEF FeedInv, Releasing
  <2> DEFINE f == [feed EXCEPT !.subs = @ - 1,
                              !.deadline = IF Linger /\ ~table.failed THEN "armed" ELSE @,
                              !.ring = IF Linger /\ ~table.failed THEN @ ELSE "none"]
  <2>4. f \in Feeds /\ f.subs = 0 /\ ~f.held
    <3> DEFINE d == IF Linger /\ ~table.failed THEN "armed" ELSE feed.deadline
               g == IF Linger /\ ~table.failed THEN feed.ring ELSE "none"
    <3>1. d \in {"none", "armed", "passed"} /\ g \in {"none", "attached", "paused", "ended"}
      BY <1>0, Zenon DEF Feeds
    <3>2. f = [feed EXCEPT !.subs = feed.subs - 1, !.deadline = d, !.ring = g]
      BY Zenon
    <3> HIDE DEF f, d, g
    <3>3. f = [feed EXCEPT !.subs = 0, !.deadline = d, !.ring = g]
      BY <2>3, <3>2
    <3> QED
      BY <1>0, <2>3, <3>1, <3>3, Zenon DEF Feeds
  <2>5. EndServing("watch", f) \/ EndGone("watch", f)
    BY <1>5, Zenon DEF Release, EndRelease
  <2> HIDE DEF f
  <2> QED
    BY <1>0, <2>1, <2>3, <2>4, <2>5, EndFeed, SMTT(30) DEF Taken, Inside
<1>6. CASE AbandonFeed
  <2>1. /\ pc["watch"] = "exclusive" /\ pc' = [pc EXCEPT !["watch"] = "joining"]
        /\ UNCHANGED <<table, note>>
        /\ timer' = [timer EXCEPT !.stop = timer.joinable]
        /\ feed' = [feed EXCEPT !.deadline = "none", !.subs = 0]
    BY <1>6, Zenon DEF AbandonFeed, Goto
  <2>2. feed' \in Feeds /\ feed'.subs = 0 /\ feed'.held = feed.held /\ timer' \in Timers
    BY <1>0, <2>1, Zenon DEF Feeds, Timers
  <2>3. pc'["watch"] = "joining" /\ ~feed.held
    BY <1>0, <2>1, Zenon DEF TypeOK, FeedInv
  <2>4. ~Releasing'
    BY <2>3, Zenon DEF Releasing
  <2> QED
    BY <2>2, <2>3, <2>4 DEF FeedInv
<1>7. CASE JoinTimer
  <2>1. pc["watch"] = "joining" /\ UNCHANGED table /\ timer' = Joined
    BY <1>7, Zenon DEF JoinTimer
  <2>2. table.state = "busy"
    BY <2>1, <1>b, Zenon DEF Taken, Inside
  <2>3. feed.subs = 0 /\ ~feed.held
    BY <1>0, <2>1, <2>2, Zenon DEF FeedInv, Releasing, Feeds
  <2> DEFINE f == [feed EXCEPT !.ring = "none"]
  <2>4. f \in Feeds /\ f.subs = 0 /\ ~f.held
    BY <1>0, <2>3, Zenon DEF Feeds
  <2>5. EndServing("watch", f) \/ EndGone("watch", f)
    BY <1>7, Zenon DEF JoinTimer, EndRelease
  <2>6. timer' \in Timers /\ ~timer'.stop
    BY <1>0, <2>1, Zenon DEF Joined, Timers
  <2> HIDE DEF f
  <2> QED
    BY <1>0, <2>1, <2>4, <2>5, <2>6, EndFeed DEF Taken, Inside
<1> QED
  BY <1>1, <1>2, <1>3, <1>4, <1>5, <1>6, <1>7, Zenon DEF Watch

LEMMA TimerFeed ==
  ASSUME LeaseInv, FeedInv, Timer
  PROVE  FeedInv'
<1>0. TypeOK /\ Safe /\ "timer" \in Control /\ feed \in Feeds /\ timer \in Timers
  BY Zenon DEF LeaseInv, Control, FeedInv
<1>1. CASE Exclusive("timer")
  BY <1>0, <1>1, ExclusiveFeed, Zenon
<1>2. CASE TimerWakes \/ TimerFinishes \/ QuarantineFeedLinger
  <2>1. /\ UNCHANGED <<feed, note>> /\ table'.state = table.state
        /\ timer' \in Timers /\ timer'.stop = timer.stop
        /\ \E p \in {"finish", "asking", "out", "quarantine"} : pc' = [pc EXCEPT !["timer"] = p]
    BY <1>0, <1>2, ZenonT(60) DEF TimerWakes, TimerFinishes, QuarantineFeedLinger, Goto, Timers, TypeOK, Tables
  <2> QED
    BY <1>0, <2>1, FeedMove, Zenon DEF ControlAt
<1>3. CASE ExpireFeedLinger
  <2> DEFINE f == IF Expires THEN [feed EXCEPT !.deadline = "none", !.ring = "none"] ELSE feed
  <2>1. /\ pc["timer"] = "exclusive" /\ UNCHANGED table
        /\ timer' = [timer EXCEPT !.expired = Expires]
        /\ EndServing("timer", f) \/ EndGone("timer", f)
    BY <1>3, Zenon DEF ExpireFeedLinger
  <2>2. table.state = "busy"
    BY <1>0, <2>1, Zenon DEF Safe, OneInside, Inside
  <2>3. /\ f \in Feeds /\ f.subs = feed.subs /\ f.held = feed.held
        /\ f.subs = 1 => f.ring # "none"
    <3>1. CASE Expires
      <4>1. f = [feed EXCEPT !.deadline = "none", !.ring = "none"] /\ feed.subs = 0
        BY <3>1, Zenon DEF Expires
      <4> HIDE DEF f
      <4>2. f \in Feeds /\ f.subs = feed.subs /\ f.held = feed.held
        BY <1>0, <4>1, Zenon DEF Feeds
      <4> QED
        BY <4>1, <4>2
    <3>2. CASE ~Expires
      BY <1>0, <2>2, <3>2, Zenon DEF FeedInv
    <3> QED
      BY <3>1, <3>2, Zenon
  <2>4. timer' \in Timers /\ timer'.stop = timer.stop
    BY <1>0, <2>1, Zenon DEF Timers, Expires, RetainIdleFeed
  <2> HIDE DEF f
  <2> QED
    BY <1>0, <2>1, <2>3, <2>4, EndFeed, Zenon DEF Taken, Inside
<1>4. CASE QuarantineNotifies
  <2>1. /\ pc["timer"] = "quarantine" /\ pc' = [pc EXCEPT !["timer"] = "fence"]
        /\ UNCHANGED <<table, timer, note>>
    BY <1>4, Zenon DEF QuarantineNotifies, Goto
  <2>2. /\ feed' \in Feeds /\ feed'.subs = feed.subs /\ feed'.held = feed.held
        /\ feed'.ring = feed.ring \/ (feed'.ring = "ended" /\ feed.ring # "none")
    BY <1>0, <1>4, Zenon DEF QuarantineNotifies, Feeds
  <2> QED
    BY <1>0, <2>1, <2>2, FeedMove, Zenon DEF ControlAt, Inside
<1>5. CASE QuarantineFences
  <2>1. /\ pc["timer"] = "fence" /\ pc' = [pc EXCEPT !["timer"] = "fenced"]
        /\ UNCHANGED <<feed, timer, note>> /\ table'.state = "failed"
    BY <1>0, <1>5, Zenon DEF QuarantineFences, Goto, TypeOK, Tables
  <2>2. table.state = "busy"
    BY <1>0, <2>1, Zenon DEF Safe, OneInside, Inside
  <2> QED
    BY <1>0, <2>1, <2>2, FeedMove, Zenon DEF ControlAt
<1>6. CASE QuarantineEnds
  <2>1. /\ pc' = [pc EXCEPT !["timer"] = "finish"] /\ UNCHANGED <<table, timer, note>>
        /\ feed' = [feed EXCEPT !.deadline = "none"]
    BY <1>6, Zenon DEF QuarantineEnds, Goto
  <2>2. feed' \in Feeds /\ feed'.subs = feed.subs /\ feed'.held = feed.held /\ feed'.ring = feed.ring
    BY <1>0, <2>1, Zenon DEF Feeds
  <2> QED
    BY <1>0, <2>1, <2>2, FeedMove, Zenon DEF ControlAt
<1> QED
  BY <1>1, <1>2, <1>3, <1>4, <1>5, <1>6, Zenon DEF Timer

\* Commands and backups, and what happens without a thread.
LEMMA OthersFeed ==
  ASSUME LeaseInv, FeedInv,
         \/ FallAsleep \/ DeadlinePasses \/ CatalogFails \/ StartBackup \/ Backup
         \/ \E c \in Commands : Command(c)
  PROVE  FeedInv'
<1>0. TypeOK /\ feed \in Feeds /\ timer \in Timers
  BY Zenon DEF LeaseInv, FeedInv
<1>1. UNCHANGED timer
  BY Zenon DEF FallAsleep, DeadlinePasses, CatalogFails, StartBackup, Backup, PinForBackup,
    ReleaseBackupPin, Command, Acquire, LoadState, EndCommand, Uncount, CheckBusy, Nudge,
    AwaitReopen
<1>2. /\ feed' \in Feeds
      /\ feed'.ring = feed.ring /\ feed'.subs = feed.subs /\ feed'.held = feed.held
  BY <1>0, Zenon DEF FallAsleep, DeadlinePasses, CatalogFails, StartBackup, Backup, PinForBackup,
    ReleaseBackupPin, Command, Acquire, LoadState, EndCommand, Uncount, CheckBusy, Nudge,
    AwaitReopen, Block, Feeds
<1>3. table'.state = table.state
  BY <1>0, ZenonT(60) DEF FallAsleep, DeadlinePasses, CatalogFails, StartBackup, Backup, PinForBackup,
    ReleaseBackupPin, Command, Acquire, LoadState, EndCommand, Uncount, CheckBusy, Nudge,
    AwaitReopen, Block, TypeOK, Tables
<1>4. \/ UNCHANGED pc
      \/ \E u \in Commands \cup {"backup"}, p \in CommandAt \cup {"pinning", "pinned"} :
           pc' = [pc EXCEPT ![u] = p]
  BY Zenon DEF FallAsleep, DeadlinePasses, CatalogFails, StartBackup, Backup, PinForBackup,
    ReleaseBackupPin, Command, Acquire, LoadState, EndCommand, Uncount, CheckBusy, Nudge,
    AwaitReopen, Block, Goto, Carry, CommandAt
<1>5. \/ UNCHANGED note
      \/ \E c \in Commands, n \in Notes \cup {"busy"} : note' = [note EXCEPT ![c] = n]
  BY <1>0, SMTT(30) DEF FallAsleep, DeadlinePasses, CatalogFails, StartBackup, Backup, PinForBackup,
    ReleaseBackupPin, Command, Acquire, LoadState, EndCommand, Uncount, CheckBusy, Nudge,
    AwaitReopen, Block, Goto, Carry, Notes, TypeOK, Tables
<1>6. \A t \in Control : pc'[t] = pc[t] /\ note'[t] = note[t]
  <2>1. \A t \in Control : pc'[t] = pc[t]
    BY <1>0, <1>4, ThreadKinds, ZenonT(60) DEF TypeOK, Control
  <2>2. \A t \in Control : note'[t] = note[t]
    BY <1>0, <1>5, ThreadKinds, ZenonT(60) DEF TypeOK, Control
  <2> QED
    BY <2>1, <2>2, Zenon
<1> QED
  BY <1>1, <1>2, <1>3, <1>6, FeedApart, <1>0, Zenon

\* The invariant of the feed, beside the one of admission (SubscribeFeed,
\* ReleaseFeed, ExpireFeedLinger, QuarantineFeedLinger, BeginExclusive,
\* EndExclusive).
THEOREM FeedInvariant == Spec => []FeedInv
<1>1. Init => FeedInv
  BY ThreadKinds DEF Init, FeedInv, Feeds, Timers, Opening, Releasing, Control
<1>2. LeaseInv /\ FeedInv /\ [Next]_vars => FeedInv'
  <2> SUFFICES ASSUME LeaseInv, FeedInv, [Next]_vars PROVE FeedInv'
    BY Zenon
  <2>1. CASE UNCHANGED vars
    BY <2>1, FeedApart, Zenon DEF vars, FeedInv
  <2>2. CASE \/ FallAsleep \/ DeadlinePasses \/ CatalogFails \/ StartBackup \/ Backup
             \/ \E c \in Commands : Command(c)
    BY <2>2, OthersFeed, Zenon
  <2>3. CASE StartDDL \/ StartRecovery \/ Ddl
    BY <2>3, DdlFeed, Zenon
  <2>4. CASE StartWatch \/ Watch
    BY <2>4, WatchFeed, Zenon
  <2>5. CASE Timer
    BY <2>5, TimerFeed, Zenon
  <2> QED
    BY <2>1, <2>2, <2>3, <2>4, <2>5, Zenon DEF Next
<1> QED
  BY <1>1, <1>2, LeaseInvariant, PTL DEF Spec

\* A table whose feed cleanup failed is never open to commands again, and an
\* open table never writes past a watch it still serves (QuarantineFeedLinger,
\* BeginExclusive, EndExclusive, SubscribeFeed, ReleaseFeed, ExpireFeedLinger).
THEOREM OpenTablesServeWhole == Spec => []ServesWhole
<1>1. LeaseInv /\ FeedInv => ServesWhole
  BY DEF LeaseInv, Safe, Fenced, FeedInv, Feeds, ServesWhole
<1> QED
  BY <1>1, LeaseInvariant, FeedInvariant, PTL
=============================================================================
