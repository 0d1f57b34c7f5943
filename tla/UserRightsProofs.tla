-------------------------- MODULE UserRightsProofs --------------------------
(***************************************************************************)
(* Rights are never used past the moment they were in force, for any users, *)
(* tables, connections, changes, failed writes and restarts.                *)
(*                                                                          *)
(* Neither a statement nor the feed thread reads the generation and the     *)
(* rights in one step.  Both read the generation first, so what the         *)
(* invariant keeps of a cached right is not the generation it belongs to    *)
(* but that it was in force at some generation at or after the one it was   *)
(* cached under; the generation in turn is never behind an answered change. *)
(***************************************************************************)
EXTENDS UserRights, TLAPS

User == [inc : Nat, manages : BOOLEAN, grants : [Places -> Nat], by : Nat]
Users == [Names -> User]
Query == [op : {"use", "watch", "attach", "change", "own"}, table : Places, need : Nat]
Pcs == {"new", "pending", "idle", "lost", "current", "find", "decide", "change",
        "install", "bump", "wake", "watching", "closed"}
Session ==
  [pc : Pcs, user : Names, inc : Nat, present : Nat, gen : Nat, rights : User, g : Nat,
   q : Query, every : BOOLEAN, wgen : Nat, from : Nat]
Frames == Seq(Nat)
WatchRecord ==
  [on : BOOLEAN, gen : Nat, every : BOOLEAN, table : Places, waiting : Nat,
   queue : Frames, started : BOOLEAN]
Feed ==
  [pc : {"poll", "ack", "ackview", "accept", "pull", "check", "view", "write"},
   todo : SUBSET Sessions, at : Sessions \cup {Nobody}, g : Nat, from : Nat]

TypeOK ==
  /\ users \in Users /\ history \in Seq(Users)
  /\ nextInc \in Nat /\ generation \in Nat /\ acked \in Nat
  /\ nextInc > 0 /\ generation > 0 /\ acked > 0
  /\ holder \in Sessions \cup {Nobody}
  /\ sess \in [Sessions -> Session]
  /\ watch \in [Sessions -> WatchRecord]
  /\ feed \in Feed

\* The generations, and the users each one stands for.  Between its write and
\* its generation a change is one ahead, first in the file, then in memory.
Generations ==
  /\ acked <= generation
  /\ Len(history) = IF holder = Nobody THEN generation ELSE generation + 1
  /\ \A s \in Sessions : sess[s].pc \in {"install", "bump"} <=> holder = s
  /\ users = history[IF \E s \in Sessions : sess[s].pc = "bump"
                     THEN generation + 1 ELSE generation]
  /\ view = ViewOf(users)

\* A user's rights under the users of one generation.
RightsUnder(st, r) == IF st[r.user].inc = r.inc THEN st[r.user] ELSE Absent

\* What a session's record promises of its cached rights and generations, under
\* the users h of the generations, the current one and the last one answered.
Fits(r, h, g, a) ==
  /\ r.pc \in {"new", "pending", "closed"} => r.gen = 0
  /\ r.pc \notin {"new", "pending", "closed"} => r.inc # 0
  /\ r.gen # 0 => \E k \in 1..Len(h) : k >= r.gen /\ r.rights = RightsUnder(h[k], r)
  /\ r.gen <= g /\ r.wgen <= r.gen /\ r.g <= g /\ r.from <= a
  /\ r.pc = "find" => r.from <= r.g /\ r.gen <= r.g /\ r.g # 0
  /\ r.pc = "decide" => r.from <= r.gen /\ r.gen # 0
  /\ r.q.op = "watch" => r.q.need = Read
  /\ r.q.op = "attach" => r.every
SessionOK(r) == Fits(r, history, generation, acked)
SessionsOK == \A s \in Sessions : SessionOK(sess[s])

\* A watch was permitted at some generation at or after the one it keeps.
Permits(st, n, inc, table, every) ==
  /\ HasUser(st, n, inc)
  /\ RightOn(st[n].grants, table) >= Read
  /\ every => st[n].grants[Every] >= Admin
HeldIn(h, x, n, inc, table, every) ==
  \E k \in 1..Len(h) : k >= x /\ Permits(h[k], n, inc, table, every)
HeldSince(s, x) ==
  HeldIn(history, x, sess[s].user, sess[s].inc, watch[s].table, watch[s].every)
WatchesOK ==
  \A s \in Sessions :
    /\ watch[s].on => sess[s].pc = "watching" /\ HeldSince(s, watch[s].gen)
    /\ \A i \in DOMAIN watch[s].queue : watch[s].queue[i] <= acked

\* Where the feed thread is with the watch it serves.
FeedOK ==
  /\ \A s \in feed.todo : watch[s].on
  /\ feed.pc # "poll" => feed.at \in Sessions /\ watch[feed.at].on /\ feed.at \notin feed.todo
  /\ feed.from <= acked /\ feed.g <= generation
  /\ feed.pc = "ackview" => feed.from <= feed.g
  /\ feed.pc = "view" =>
       \A i \in DOMAIN watch[feed.at].queue : watch[feed.at].queue[i] <= feed.g
  /\ feed.pc = "accept" => HeldSince(feed.at, feed.from)
  /\ feed.pc = "write" =>
       \A i \in DOMAIN watch[feed.at].queue : HeldSince(feed.at, watch[feed.at].queue[i])

RightsInv == TypeOK /\ Generations /\ SessionsOK /\ WatchesOK /\ FeedOK

-----------------------------------------------------------------------------
LEMMA MaxOfTwo ==
  ASSUME NEW a \in Nat, NEW b \in Nat
  PROVE  Max({a, b}) \in Nat /\ Max({a, b}) >= a /\ Max({a, b}) >= b
         /\ Max({a, b}) \in {a, b}
<1>1. \E x \in {a, b} : \A y \in {a, b} : x >= y
  OBVIOUS
<1>2. Max({a, b}) \in {a, b} /\ \A y \in {a, b} : Max({a, b}) >= y
  BY <1>1, Zenon DEF Max
<1> QED
  BY <1>2, Zenon

LEMMA RecordTypes ==
  /\ Absent \in User /\ NoSession \in Session /\ NoWatch \in WatchRecord /\ NoFeed \in Feed
  /\ FirstUsers \in Users /\ Every \in Places /\ Tables \subseteq Places
<1>1. Every \in Places /\ Tables \subseteq Places
  BY Zenon DEF Places
<1>2. Absent \in User
  BY Zenon DEF Absent, NoGrants, User
<1>3. Quiet \in Query
  BY <1>1, Zenon DEF Quiet, Query
<1>4. NoSession \in Session
  BY <1>2, <1>3, UserAssumption, Zenon DEF NoSession, Session, Pcs
<1>5. NoWatch \in WatchRecord
  BY <1>1 DEF NoWatch, WatchRecord, Frames
<1>6. NoFeed \in Feed
  BY Zenon DEF NoFeed, Feed
<1>7. FirstUsers \in Users
  <2>1. SUFFICES ASSUME NEW n \in Names PROVE FirstUsers[n] \in User
    BY Zenon DEF FirstUsers, Users
  <2>2. [p \in Places |-> IF n = First THEN IF p = Every THEN Admin ELSE 0
                          ELSE IF p = Every THEN 0 ELSE Read] \in [Places -> Nat]
    BY UserAssumption, Zenon DEF Read
  <2> QED
    BY <2>2, Zenon DEF FirstUsers, User
<1> QED
  BY <1>1, <1>2, <1>4, <1>5, <1>6, <1>7, Zenon

\* Both outlast a change of users: the generations only grow.
LEMMA FitsOnward ==
  ASSUME NEW h \in Seq(Users), NEW h2 \in Seq(Users), Len(h2) >= Len(h),
         \A k \in 1..Len(h) : h2[k] = h[k],
         NEW g \in Nat, NEW g2 \in Nat, g2 >= g, NEW a \in Nat, NEW a2 \in Nat, a2 >= a,
         NEW r \in Session, Fits(r, h, g, a)
  PROVE  Fits(r, h2, g2, a2)
<1>1. /\ r.gen \in Nat /\ r.wgen \in Nat /\ r.g \in Nat /\ r.from \in Nat
      /\ Len(h) \in Nat /\ Len(h2) \in Nat
  BY DEF Session, Pcs
<1>2. r.gen # 0 => \E k \in 1..Len(h2) : k >= r.gen /\ r.rights = RightsUnder(h2[k], r)
  <2>1. SUFFICES ASSUME r.gen # 0
                 PROVE  \E k \in 1..Len(h2) : k >= r.gen /\ r.rights = RightsUnder(h2[k], r)
    BY Zenon
  <2>2. PICK k \in 1..Len(h) : k >= r.gen /\ r.rights = RightsUnder(h[k], r)
    BY <2>1, Zenon DEF Fits
  <2>3. k \in 1..Len(h2) /\ h2[k] = h[k]
    BY <1>1, <2>2
  <2> QED
    BY <2>2, <2>3, Zenon
<1> QED
  BY <1>1, <1>2 DEF Fits

LEMMA HeldOnward ==
  ASSUME NEW h \in Seq(Users), NEW h2 \in Seq(Users), Len(h2) >= Len(h),
         \A k \in 1..Len(h) : h2[k] = h[k],
         NEW x, NEW n, NEW inc, NEW table, NEW every, HeldIn(h, x, n, inc, table, every)
  PROVE  HeldIn(h2, x, n, inc, table, every)
<1>1. PICK k \in 1..Len(h) : k >= x /\ Permits(h[k], n, inc, table, every)
  BY Zenon DEF HeldIn
<1>2. k \in 1..Len(h2) /\ h2[k] = h[k]
  BY <1>1
<1> QED
  BY <1>1, <1>2, Zenon DEF HeldIn

LEMMA HeldEarlier ==
  ASSUME NEW h, NEW x \in Nat, NEW y \in Nat, y <= x,
         NEW n, NEW inc, NEW table, NEW every, HeldIn(h, x, n, inc, table, every)
  PROVE  HeldIn(h, y, n, inc, table, every)
<1>1. PICK k \in 1..Len(h) : k >= x /\ Permits(h[k], n, inc, table, every)
  BY Zenon DEF HeldIn
<1>2. k >= y
  BY <1>1
<1> QED
  BY <1>1, <1>2, Zenon DEF HeldIn

LEMMA PcMoves ==
  ASSUME NEW r \in Session, NEW p \in Pcs
  PROVE  /\ [r EXCEPT !.pc = p] \in Session /\ [r EXCEPT !.pc = p].pc = p
         /\ [r EXCEPT !.pc = p].user = r.user /\ [r EXCEPT !.pc = p].inc = r.inc
  BY Zenon DEF Session, Pcs

\* A session that only moves on to a place that asks nothing of it.
LEMMA FitsElsewhere ==
  ASSUME NEW r \in Session, NEW h, NEW g \in Nat, NEW a, Fits(r, h, g, a),
         r.pc \notin {"new", "pending", "closed"},
         NEW p \in {"idle", "change", "install", "bump", "wake", "watching"}
  PROVE  /\ [r EXCEPT !.pc = p] \in Session /\ [r EXCEPT !.pc = p].pc = p
         /\ [r EXCEPT !.pc = p].user = r.user /\ [r EXCEPT !.pc = p].inc = r.inc
         /\ Fits([r EXCEPT !.pc = p], h, g, a)
<1> DEFINE q == [r EXCEPT !.pc = p]
<1>1. /\ q.pc = p /\ q.user = r.user /\ q.inc = r.inc /\ q.gen = r.gen /\ q.g = r.g
      /\ q.wgen = r.wgen /\ q.from = r.from /\ q.rights = r.rights /\ q.q = r.q
      /\ q.every = r.every
  BY Zenon DEF Session, Pcs
<1>2. q \in Session
  BY Zenon DEF Session, Pcs
<1> HIDE DEF q
<1>3. Fits(q, h, g, a)
  BY <1>1, ZenonT(60) DEF Fits, RightsUnder
<1> QED
  BY <1>1, <1>2, <1>3, Zenon DEF q

-----------------------------------------------------------------------------
\* A session that is not in the registry and not watched moves by itself: what
\* the others rest on is unchanged.
LEMMA SessionMoves ==
  ASSUME RightsInv, NEW s \in Sessions, NEW r \in Session,
         sess' = [sess EXCEPT ![s] = r], SessionOK(r),
         sess[s].pc \notin {"install", "bump", "watching"},
         r.pc \notin {"install", "bump"},
         UNCHANGED <<users, nextInc, view, generation, holder, history, acked, watch, feed>>
  PROVE  RightsInv'
<1>0. TypeOK /\ Generations /\ SessionsOK /\ WatchesOK /\ FeedOK
  BY Zenon DEF RightsInv
<1>1. TypeOK'
  BY <1>0, Zenon DEF TypeOK
<1>2. sess'[s] = r /\ \A u \in Sessions \ {s} : sess'[u] = sess[u]
  BY <1>0, Zenon DEF TypeOK
<1>3. Generations'
  <2>1. (\E u \in Sessions : sess'[u].pc = "bump") <=> \E u \in Sessions : sess[u].pc = "bump"
    BY <1>2, Zenon
  <2>2. \A u \in Sessions : sess'[u].pc \in {"install", "bump"} <=> holder = u
    BY <1>0, <1>2, Zenon DEF Generations
  <2> QED
    BY <1>0, <2>1, <2>2, Zenon DEF Generations
<1>4. SessionsOK'
  <2>1. SessionOK(r)'
    BY Zenon DEF SessionOK, Fits
  <2>2. \A u \in Sessions \ {s} : SessionOK(sess[u])'
    BY <1>0, <1>2 DEF SessionsOK, SessionOK, Fits
  <2> QED
    BY <1>2, <2>1, <2>2 DEF SessionsOK, SessionOK, Fits
<1>5. ~watch[s].on
  BY <1>0, Zenon DEF WatchesOK
<1>6. WatchesOK'
  BY <1>0, <1>2, <1>5, Zenon DEF WatchesOK, HeldSince
<1>7. FeedOK'
  BY <1>0, <1>2, <1>5, Zenon DEF FeedOK, HeldSince
<1> QED
  BY <1>1, <1>3, <1>4, <1>6, <1>7, Zenon DEF RightsInv

\* A statement that ends keeps the cached rights and forgets the rest.
LEMMA FinishedOK ==
  ASSUME RightsInv, NEW s \in Sessions, sess[s].pc \notin {"new", "pending", "closed"}
  PROVE  Finished(s) \in Session /\ SessionOK(Finished(s)) /\ Finished(s).pc = "idle"
<1>1. sess[s] \in Session /\ SessionOK(sess[s]) /\ acked \in Nat
  BY Zenon DEF RightsInv, TypeOK, SessionsOK
<1>2. Quiet.op = "own" /\ Quiet \in Query
  BY RecordTypes, Zenon DEF Quiet, Query
<1> DEFINE f == Finished(s)
<1>3. f \in Session
  BY <1>1, <1>2, Zenon DEF Finished, Session, Pcs
<1>4. /\ f.pc = "idle" /\ f.user = sess[s].user /\ f.inc = sess[s].inc /\ f.gen = sess[s].gen
      /\ f.rights = sess[s].rights /\ f.g = 0 /\ f.q = Quiet /\ f.wgen = 0 /\ f.from = 0
  BY <1>1, Zenon DEF Finished, Session, Pcs
<1>5. f.gen \in Nat /\ generation \in Nat
  BY <1>3, Zenon DEF Session, Pcs, RightsInv, TypeOK
<1> HIDE DEF f
<1>6. SessionOK(f)
  BY <1>1, <1>2, <1>4, <1>5 DEF SessionOK, Fits, RightsUnder
<1> QED
  BY <1>3, <1>4, <1>6, Zenon DEF f

LEMMA NewSessionOK ==
  ASSUME RightsInv
  PROVE  /\ SessionOK(NoSession) /\ SessionOK([NoSession EXCEPT !.pc = "closed"])
         /\ [NoSession EXCEPT !.pc = "closed"] \in Session
<1>1. [NoSession EXCEPT !.pc = "closed"] \in Session
  BY RecordTypes, Zenon DEF Session, Pcs
<1> QED
  BY <1>1 DEF SessionOK, Fits, NoSession, Quiet, RightsInv, TypeOK

-----------------------------------------------------------------------------
\* The steps of a login and of a statement, up to its decision.
LEMMA LoginStep ==
  ASSUME RightsInv, NEW s \in Sessions,
         (\E n \in Names : HandleHello(s, n)) \/ HandleAuth(s)
  PROVE  RightsInv'
<1>0. sess \in [Sessions -> Session] /\ SessionOK(sess[s]) /\ users \in Users
  BY Zenon DEF RightsInv, TypeOK, SessionsOK
<1>1. ASSUME NEW n \in Names, HandleHello(s, n) PROVE RightsInv'
  <2> DEFINE r == [sess[s] EXCEPT !.pc = "pending", !.user = n, !.inc = users[n].inc]
  <2>1. r \in Session /\ r.pc = "pending" /\ sess' = [sess EXCEPT ![s] = r]
    <3>1. sess[s] \in Session /\ users[n].inc \in Nat
      BY <1>0, Zenon DEF Users, User
    <3>2. r \in Session /\ r.pc = "pending"
      BY <3>1, Zenon DEF Session, Pcs
    <3> QED
      BY <1>1, <3>2, Zenon DEF HandleHello
  <2>2. SessionOK(r)
    BY <1>0, <1>1, ZenonT(60) DEF HandleHello, SessionOK, Fits, Session, Pcs
  <2> HIDE DEF r
  <2> QED
    BY <1>1, <2>1, <2>2, SessionMoves, Zenon DEF HandleHello, registry
<1>2. CASE HandleAuth(s)
  <2>1. CASE sess[s].inc # 0 /\ sess' = [sess EXCEPT ![s].pc = "idle"]
    <3> DEFINE r == [sess[s] EXCEPT !.pc = "idle"]
    <3>1. r \in Session /\ r.pc = "idle" /\ sess' = [sess EXCEPT ![s] = r]
      BY <1>0, <2>1 DEF Session, Pcs
    <3>2. SessionOK(r)
      BY <1>0, <1>2, <2>1 DEF HandleAuth, SessionOK, Fits, Session, Pcs
    <3> HIDE DEF r
    <3> QED
      BY <1>2, <3>1, <3>2, SessionMoves, Zenon DEF HandleAuth, registry
  <2>2. CASE sess' = [sess EXCEPT ![s] = NoSession]
    BY <1>2, <2>2, RecordTypes, NewSessionOK, SessionMoves, Zenon DEF HandleAuth, registry, NoSession
  <2> QED
    BY <1>2, <2>1, <2>2, Zenon DEF HandleAuth
<1> QED
  BY <1>1, <1>2, Zenon

LEMMA ExecuteStep ==
  ASSUME RightsInv, NEW s \in Sessions, NEW q \in Statements, NEW every \in BOOLEAN,
         Execute(s, q, every)
  PROVE  RightsInv'
<1>0. /\ sess \in [Sessions -> Session] /\ SessionOK(sess[s])
      /\ generation \in Nat /\ acked \in Nat
  BY Zenon DEF RightsInv, TypeOK, SessionsOK
<1>1. /\ q \in Query
      /\ q.op # "attach" /\ (q.op = "watch" => q.need = Read)
  BY UserAssumption, RecordTypes DEF Statements, Quiet, Read, Query
<1> DEFINE p == IF sess[s].present = generation THEN "current" ELSE "lost"
           r == [sess[s] EXCEPT !.pc = p, !.g = generation, !.q = q, !.every = every,
                                !.from = acked]
<1>2. r \in Session /\ r.pc \in {"current", "lost"} /\ sess' = [sess EXCEPT ![s] = r]
  <2>1. p \in {"current", "lost"}
    BY Zenon
  <2>2. r \in Session /\ r.pc \in {"current", "lost"}
    <3> HIDE DEF p
    <3>1. p \in Pcs /\ sess[s] \in Session
      BY <1>0, <2>1, Zenon DEF Pcs
    <3>2. r \in Session
      BY <1>0, <1>1, <3>1, Zenon DEF Session, Pcs
    <3>3. r.pc = p
      BY <3>1, Zenon DEF Session, Pcs
    <3> QED
      BY <2>1, <3>2, <3>3, Zenon
  <2> QED
    BY <2>2, Zenon DEF Execute
<1>3. SessionOK(r)
  BY <1>0, <1>1 DEF Execute, SessionOK, Fits, Session, Pcs, RightsUnder
<1> HIDE DEF r
<1> QED
  BY <1>2, <1>3, SessionMoves, Zenon DEF Execute, registry

LEMMA LookupStep ==
  ASSUME RightsInv, NEW s \in Sessions,
         LostUserReply(s) \/ CurrentUser(s) \/ FindIncarnation(s)
  PROVE  RightsInv'
<1>0. /\ sess \in [Sessions -> Session] /\ SessionOK(sess[s]) /\ users \in Users
      /\ history \in Seq(Users) /\ generation \in Nat /\ generation > 0 /\ acked \in Nat
      /\ acked <= generation
  BY Zenon DEF RightsInv, TypeOK, SessionsOK, Generations
<1>1. CASE LostUserReply(s)
  <2>1. CASE view[sess[s].user].inc = sess[s].inc
    <3> DEFINE r == [sess[s] EXCEPT !.pc = "current", !.present = sess[s].g]
    <3>1. r \in Session /\ r.pc = "current" /\ sess' = [sess EXCEPT ![s] = r]
      <4>1. r \in Session /\ r.pc = "current"
        BY <1>0, ZenonT(60) DEF Session, Pcs
      <4> QED
        BY <1>1, <2>1, <4>1, Zenon DEF LostUserReply
    <3>2. SessionOK(r)
      BY <1>0, <1>1 DEF LostUserReply, SessionOK, Fits, Session, Pcs, RightsUnder
    <3> HIDE DEF r
    <3> QED
      BY <1>1, <3>1, <3>2, SessionMoves, Zenon DEF LostUserReply, registry
  <2>2. CASE view[sess[s].user].inc # sess[s].inc
    <3> DEFINE r == [NoSession EXCEPT !.pc = "closed"]
    <3>1. r \in Session /\ SessionOK(r) /\ r.pc = "closed"
      BY NewSessionOK, Zenon DEF NoSession
    <3>2. sess' = [sess EXCEPT ![s] = r]
      BY <1>1, <2>2, Zenon DEF LostUserReply
    <3> HIDE DEF r
    <3> QED
      BY <1>1, <3>1, <3>2, SessionMoves, Zenon DEF LostUserReply, registry
  <2> QED
    BY <2>1, <2>2, Zenon
<1>2. CASE CurrentUser(s)
  <2>1. PICK p \in {"change", "decide", "find"} :
          /\ sess' = [sess EXCEPT ![s] = [@ EXCEPT !.g = generation, !.pc = p]]
          /\ p = "decide" => sess[s].gen = generation
    BY <1>2, Zenon DEF CurrentUser, Cached
  <2> DEFINE r == [sess[s] EXCEPT !.g = generation, !.pc = p]
  <2>2. r \in Session /\ r.pc = p /\ sess' = [sess EXCEPT ![s] = r]
    <3>1. r \in Session /\ r.pc = p
      BY <1>0, ZenonT(60) DEF Session, Pcs
    <3> QED
      BY <2>1, <3>1, Zenon
  <2>3. SessionOK(r)
    BY <1>0, <1>2, <2>1, SMTT(30) DEF CurrentUser, SessionOK, Fits, Session, Pcs, RightsUnder
  <2> HIDE DEF r
  <2> QED
    BY <1>2, <2>2, <2>3, SessionMoves, Zenon DEF CurrentUser, registry
<1>3. CASE FindIncarnation(s)
  <2>0. users = history[generation] /\ Len(history) = generation
    BY <1>3, UserAssumption, Zenon DEF FindIncarnation, RightsInv, Generations, Nobody
  <2> DEFINE r == [sess[s] EXCEPT !.pc = "decide", !.rights = Found(s), !.gen = sess[s].g]
  <2>1. Found(s) \in User /\ Found(s) = RightsUnder(history[generation], sess[s])
    BY <1>0, <2>0, RecordTypes, Zenon DEF Found, RightsUnder, Users, Session, Pcs
  <2>2. r \in Session /\ r.pc = "decide" /\ sess' = [sess EXCEPT ![s] = r]
    <3>1. r \in Session /\ r.pc = "decide"
      BY <1>0, <2>1, ZenonT(60) DEF Session, Pcs
    <3> QED
      BY <1>3, <3>1, Zenon DEF FindIncarnation
  <2>3. r.gen # 0 => \E k \in 1..Len(history) : k >= r.gen /\ r.rights = RightsUnder(history[k], r)
    BY <1>0, <2>0, <2>1, SMTT(30) DEF SessionOK, Fits, Session, Pcs, RightsUnder
  <2>4. SessionOK(r)
    BY <1>0, <1>3, <2>3, SMTT(30) DEF FindIncarnation, SessionOK, Fits, Session, Pcs
  <2> HIDE DEF r
  <2> QED
    BY <1>3, <2>2, <2>4, SessionMoves, Zenon DEF FindIncarnation, registry
<1> QED
  BY <1>1, <1>2, <1>3, Zenon

\* The decision, and what follows it outside the registry.
LEMMA DecideStep ==
  ASSUME RightsInv, NEW s \in Sessions,
         Refused(s) \/ Ran(s) \/ GoesOnToChange(s) \/ Attaches(s)
         \/ (\E c \in Changes : UpdateRefused(s, c))
  PROVE  RightsInv'
<1>0. /\ sess \in [Sessions -> Session] /\ SessionOK(sess[s]) /\ acked \in Nat
  BY Zenon DEF RightsInv, TypeOK, SessionsOK
<1>1. CASE Refused(s) \/ Ran(s) \/ \E c \in Changes : UpdateRefused(s, c)
  <2>1. /\ sess[s].pc \in {"decide", "change"} /\ sess' = [sess EXCEPT ![s] = Finished(s)]
        /\ UNCHANGED <<registry, watch, feed>>
    BY <1>1, Zenon DEF Refused, Ran, UpdateRefused
  <2>2. Finished(s) \in Session /\ SessionOK(Finished(s)) /\ Finished(s).pc = "idle"
    BY <2>1, FinishedOK, Zenon
  <2> QED
    BY <2>1, <2>2, SessionMoves, Zenon DEF registry
<1>2. CASE GoesOnToChange(s)
  <2> DEFINE r == [sess[s] EXCEPT !.pc = "change"]
  <2>1. r \in Session /\ r.pc = "change" /\ sess' = [sess EXCEPT ![s] = r]
    BY <1>0, <1>2 DEF GoesOnToChange, Session, Pcs
  <2>2. SessionOK(r)
    BY <1>0, <1>2, SMTT(30) DEF GoesOnToChange, SessionOK, Fits, Session, Pcs, RightsUnder
  <2> HIDE DEF r
  <2> QED
    BY <1>2, <2>1, <2>2, SessionMoves, Zenon DEF GoesOnToChange, registry
<1>3. CASE Attaches(s)
  <2> DEFINE q == [sess[s].q EXCEPT !.op = "attach"]
             r == [sess[s] EXCEPT !.pc = "current", !.wgen = sess[s].gen, !.q = q, !.from = acked]
  <2>1. r \in Session /\ r.pc = "current" /\ sess' = [sess EXCEPT ![s] = r]
    <3>1. q \in Query
      BY <1>0 DEF Session, Pcs, Query
    <3>2. r \in Session /\ r.pc = "current"
      <4>1. /\ sess[s] \in Session /\ sess[s].gen \in Nat
            /\ "current" \in Pcs
        BY <1>0, Zenon DEF Session, Pcs
      <4> HIDE DEF q
      <4>2. r \in Session
        BY <1>0, <3>1, <4>1, Zenon DEF Session, Pcs
      <4>3. r.pc = "current"
        BY <4>1, Zenon DEF Session, Pcs
      <4> QED
        BY <4>2, <4>3, Zenon
    <3> QED
      BY <1>3, <3>2, Zenon DEF Attaches
  <2>2. SessionOK(r)
    <3>1. /\ r.pc = "current" /\ r.user = sess[s].user /\ r.inc = sess[s].inc
          /\ r.gen = sess[s].gen /\ r.g = sess[s].g /\ r.rights = sess[s].rights
          /\ r.wgen = sess[s].gen /\ r.from = acked /\ r.q = q /\ r.every = sess[s].every
      BY <1>0 DEF Session, Pcs
    <3>2. q.op = "attach" /\ sess[s].every /\ sess[s].pc = "decide" /\ sess[s].gen \in Nat
      BY <1>0, <1>3, SMTT(30) DEF Attaches, Session, Pcs, Query
    <3> HIDE DEF r, q
    <3> QED
      BY <1>0, <3>1, <3>2 DEF SessionOK, Fits, RightsUnder
  <2> HIDE DEF r
  <2> QED
    BY <1>3, <2>1, <2>2, SessionMoves, Zenon DEF Attaches, registry
<1> QED
  BY <1>1, <1>2, <1>3, Zenon

\* A granted WATCH, or attachment to a slot, holds its right at some generation
\* at or after the one the watch keeps.
LEMMA GrantedPermits ==
  ASSUME RightsInv, NEW s \in Sessions, sess[s].pc = "decide", Granted(s),
         (sess[s].q.op = "watch" /\ ~sess[s].every) \/ sess[s].q.op = "attach"
  PROVE  \E k \in 1..Len(history) :
           /\ k >= sess[s].gen
           /\ Permits(history[k], sess[s].user, sess[s].inc, sess[s].q.table, sess[s].every)
<1>0. sess[s] \in Session /\ SessionOK(sess[s]) /\ history \in Seq(Users)
  BY Zenon DEF RightsInv, TypeOK, SessionsOK
<1>1. PICK k \in 1..Len(history) :
        k >= sess[s].gen /\ sess[s].rights = RightsUnder(history[k], sess[s])
  BY <1>0, Zenon DEF SessionOK, Fits
<1> DEFINE u == sess[s].rights
<1>2. /\ u = history[k][sess[s].user] /\ HasUser(history[k], sess[s].user, sess[s].inc)
  BY <1>0, <1>1, Zenon DEF Granted, RightsUnder, HasUser, SessionOK, Fits
<1>3. /\ u.grants[sess[s].q.table] \in Nat /\ u.grants[Every] \in Nat
  <2>1. u \in User /\ sess[s].q \in Query
    BY <1>0, Zenon DEF Session, Pcs
  <2>2. u.grants \in [Places -> Nat] /\ sess[s].q.table \in Places
    BY <2>1, Zenon DEF User, Query
  <2> QED
    BY <2>2, RecordTypes, Zenon
<1>4. RightOn(u.grants, sess[s].q.table) >= u.grants[Every]
  BY <1>3, MaxOfTwo, Zenon DEF RightOn
<1>5. CASE sess[s].q.op = "watch" /\ ~sess[s].every
  <2>1. RightOn(u.grants, sess[s].q.table) >= Read
    BY <1>0, <1>5, Zenon DEF Granted, Suffices, SessionOK, Fits
  <2> QED
    BY <1>1, <1>2, <1>5, <2>1, Zenon DEF Permits
<1>6. CASE sess[s].q.op = "attach"
  <2>1. u.grants[Every] >= Admin
    BY <1>6, Zenon DEF Granted, Suffices
  <2>2. RightOn(u.grants, sess[s].q.table) \in Nat
    BY <1>3, MaxOfTwo, Zenon DEF RightOn
  <2>3. RightOn(u.grants, sess[s].q.table) >= Read
    BY <1>3, <1>4, <2>1, <2>2, UserAssumption DEF Read
  <2> QED
    BY <1>1, <1>2, <2>1, <2>3, Zenon DEF Permits
<1> QED
  BY <1>5, <1>6, Zenon

LEMMA WatchesStep ==
  ASSUME RightsInv, NEW s \in Sessions, Watches(s)
  PROVE  RightsInv'
<1>0. TypeOK /\ Generations /\ SessionsOK /\ WatchesOK /\ FeedOK
  BY Zenon DEF RightsInv
<1>t. /\ sess[s] \in Session /\ SessionOK(sess[s]) /\ sess[s].pc = "decide"
      /\ sess \in [Sessions -> Session] /\ watch \in [Sessions -> WatchRecord]
  BY <1>0, Zenon DEF TypeOK, SessionsOK, Watches
<1> DEFINE x == IF sess[s].every THEN sess[s].wgen ELSE sess[s].gen
           w == [NoWatch EXCEPT !.on = TRUE, !.every = sess[s].every,
                                !.table = sess[s].q.table, !.gen = x]
           r == [Finished(s) EXCEPT !.pc = "watching"]
<1>1. Finished(s) \in Session /\ SessionOK(Finished(s))
  BY <1>t, FinishedOK, Zenon
<1>2. /\ r \in Session /\ SessionOK(r) /\ r.pc = "watching"
      /\ r.user = sess[s].user /\ r.inc = sess[s].inc
  <2>1. Finished(s).pc = "idle" /\ generation \in Nat
    BY <1>0, <1>t, Zenon DEF Finished, TypeOK, Session, Pcs
  <2>2. Finished(s).user = sess[s].user /\ Finished(s).inc = sess[s].inc
    BY <1>t, Zenon DEF Finished, Session, Pcs
  <2> QED
    BY <1>1, <2>1, <2>2, FitsElsewhere, ZenonT(60) DEF SessionOK
<1>3. /\ w \in WatchRecord /\ w.on /\ w.gen = x /\ w.queue = <<>>
      /\ w.table = sess[s].q.table /\ w.every = sess[s].every
  <2>1. x \in Nat /\ sess[s].every \in BOOLEAN /\ sess[s].q.table \in Places
    BY <1>t, Zenon DEF Session, Pcs, Query
  <2> HIDE DEF x
  <2>2. w \in WatchRecord
    BY <2>1, RecordTypes, Zenon DEF WatchRecord
  <2>3. /\ w.on /\ w.gen = x /\ w.queue = <<>>
        /\ w.table = sess[s].q.table /\ w.every = sess[s].every
    BY Zenon DEF NoWatch
  <2> QED
    BY <2>2, <2>3, Zenon
<1>4. /\ sess' = [sess EXCEPT ![s] = r] /\ watch' = [watch EXCEPT ![s] = w]
      /\ UNCHANGED <<registry, feed>>
  BY Zenon DEF Watches
<1>5. x <= sess[s].gen
  BY <1>t DEF SessionOK, Fits, Session, Pcs
<1>6. \E k \in 1..Len(history) :
        k >= x /\ Permits(history[k], r.user, r.inc, w.table, w.every)
  <2>1. PICK k \in 1..Len(history) :
          /\ k >= sess[s].gen
          /\ Permits(history[k], sess[s].user, sess[s].inc, sess[s].q.table, sess[s].every)
    BY <1>t, GrantedPermits, Zenon DEF Watches
  <2>2. x \in Nat /\ sess[s].gen \in Nat
    BY <1>t, Zenon DEF Session, Pcs
  <2>3. k >= x
    BY <1>5, <2>1, <2>2
  <2> HIDE DEF x, w, r
  <2> QED
    BY <1>2, <1>3, <2>1, <2>3, Zenon
<1>7. ~watch[s].on
  BY <1>0, <1>t, Zenon DEF WatchesOK
<1> HIDE DEF x, w, r
<1>8. /\ sess'[s] = r /\ watch'[s] = w
      /\ \A u \in Sessions \ {s} : sess'[u] = sess[u] /\ watch'[u] = watch[u]
  BY <1>t, <1>4, Zenon
<1>9. TypeOK'
  BY <1>0, <1>2, <1>3, <1>4, Zenon DEF TypeOK, registry
<1>10. Generations'
  <2>1. (\E u \in Sessions : sess'[u].pc = "bump") <=> \E u \in Sessions : sess[u].pc = "bump"
    BY <1>2, <1>8, <1>t, Zenon
  <2>2. \A u \in Sessions : sess'[u].pc \in {"install", "bump"} <=> holder = u
    BY <1>0, <1>2, <1>8, <1>t, Zenon DEF Generations
  <2> QED
    BY <1>0, <1>4, <2>1, <2>2, Zenon DEF Generations, registry
<1>11. SessionsOK'
  <2>1. \A u \in Sessions : SessionOK(sess'[u])
    BY <1>0, <1>2, <1>8, Zenon DEF SessionsOK
  <2> QED
    BY <1>4, <2>1, SMTT(30) DEF SessionsOK, SessionOK, Fits, registry
<1>12. WatchesOK'
  BY <1>0, <1>2, <1>3, <1>4, <1>6, <1>8, SMTT(30) DEF WatchesOK, HeldSince, HeldIn, registry
<1>13. FeedOK'
  BY <1>0, <1>3, <1>4, <1>7, <1>8, SMTT(30) DEF FeedOK, HeldSince, registry
<1> QED
  BY <1>9, <1>10, <1>11, <1>12, <1>13, Zenon DEF RightsInv

-----------------------------------------------------------------------------
\* The users a change or a new password makes are users again.
LEMMA AppliedUsers ==
  ASSUME users \in Users, nextInc \in Nat, NEW c \in Changes
  PROVE  Applied(users, c) \in Users
<1>0. c.user \in Names /\ c.table \in Places /\ users[c.user] \in User
  BY UserAssumption, RecordTypes, Zenon DEF Changes, Users
<1>1. c.right \in Nat /\ c.right >= 1
  <2>1. c.right \in {1} \/ c.right \in 1..Admin
    BY Zenon DEF Changes, Read
  <2> QED
    BY <2>1, UserAssumption
<1> DEFINE u == users[c.user]
<1> SUFFICES Changed(u, c) \in User
  BY <1>0, Zenon DEF Applied, Users
<1>2. CASE c.kind \in {"create", "creates manager"}
  <2>1. Changed(u, c) \in {[Absent EXCEPT !.inc = nextInc],
                          [Absent EXCEPT !.inc = nextInc, !.manages = TRUE]}
    BY <1>2, Zenon DEF Changed
  <2> QED
    BY <2>1, RecordTypes, Zenon DEF User
<1>3. CASE c.kind = "drop"
  BY <1>3, RecordTypes, Zenon DEF Changed
<1>4. CASE c.kind \in {"manages", "loses"}
  <2>1. Changed(u, c) \in {[u EXCEPT !.manages = TRUE], [u EXCEPT !.manages = FALSE]}
    BY <1>4, Zenon DEF Changed
  <2> QED
    BY <1>0, <2>1, Zenon DEF User
<1>5. CASE c.kind \in {"grant", "revoke"}
  <2>1. u.grants \in [Places -> Nat] /\ u.grants[c.table] \in Nat
    BY <1>0, Zenon DEF User
  <2>2. Max({u.grants[c.table], c.right}) \in Nat
    BY <1>1, <2>1, MaxOfTwo, Zenon
  <2>3. Regranted(u.grants, c) \in [Places -> Nat]
    BY <1>0, <1>1, <2>1, <2>2 DEF Regranted
  <2>4. Changed(u, c) = [u EXCEPT !.grants = Regranted(u.grants, c)]
    BY <1>5, Zenon DEF Changed
  <2> QED
    BY <1>0, <2>3, <2>4, Zenon DEF User
<1>7. c.kind \in {"create", "creates manager", "drop", "manages", "loses", "grant", "revoke"}
  BY Zenon DEF Changes
<1> QED
  BY <1>2, <1>3, <1>4, <1>5, <1>7, Zenon

\* A write that fails ends the statement; nothing else changes in memory.
LEMMA WriteFailsStep ==
  ASSUME RightsInv, NEW s \in Sessions, sess[s].pc = "change", NEW st, WriteFails(s, st)
  PROVE  RightsInv'
<1>1. Finished(s) \in Session /\ SessionOK(Finished(s)) /\ Finished(s).pc = "idle"
  BY FinishedOK, Zenon
<1>2. /\ sess' = [sess EXCEPT ![s] = Finished(s)]
      /\ UNCHANGED <<users, nextInc, view, generation, holder, history, acked, watch, feed>>
  BY Zenon DEF WriteFails, AfterFailure
<1> QED
  BY <1>1, <1>2, SessionMoves, Zenon

\* A write that succeeds puts the new users one ahead of the generation.
LEMMA WriteUsersStep ==
  ASSUME RightsInv, NEW s \in Sessions, sess[s].pc = "change", holder = Nobody,
         NEW st \in Users, WriteUsersFile(s, st)
  PROVE  RightsInv'
<1>0. TypeOK /\ Generations /\ SessionsOK /\ WatchesOK /\ FeedOK
  BY Zenon DEF RightsInv
<1>1. /\ history' = Append(history, st) /\ holder' = s
      /\ sess' = [sess EXCEPT ![s].pc = "install"]
      /\ UNCHANGED <<users, view, generation, acked, watch, feed>>
      /\ nextInc' \in {nextInc, nextInc + 1}
  BY Zenon DEF WriteUsersFile
<1>2. /\ history' \in Seq(Users) /\ Len(history') = Len(history) + 1
      /\ \A k \in 1..Len(history) : history'[k] = history[k]
  BY <1>0, <1>1 DEF TypeOK
<1>3. /\ sess' \in [Sessions -> Session] /\ sess'[s] = [sess[s] EXCEPT !.pc = "install"]
      /\ \A u \in Sessions \ {s} : sess'[u] = sess[u]
  <2>1. [sess[s] EXCEPT !.pc = "install"] \in Session
    <3>1. sess[s] \in Session /\ "install" \in Pcs
      BY <1>0, Zenon DEF TypeOK, Pcs
    <3> QED
      BY <3>1, PcMoves, Zenon
  <2> QED
    BY <1>0, <1>1, <2>1, Zenon DEF TypeOK
<1>n. s # Nobody
  BY UserAssumption, Zenon DEF Nobody
<1>4. TypeOK'
  BY <1>0, <1>1, <1>2, <1>3, SMTT(30) DEF TypeOK
<1>5. Generations'
  <2>1. \A u \in Sessions : sess[u].pc \notin {"install", "bump"}
    BY <1>0, UserAssumption, Zenon DEF Generations, Nobody
  <2>2. /\ sess'[s].pc = "install"
        /\ \A u \in Sessions : sess'[u].pc \in {"install", "bump"} <=> u = s
        /\ ~\E u \in Sessions : sess'[u].pc = "bump"
    BY <1>0, <1>3, <2>1, Zenon DEF TypeOK, Session, Pcs
  <2>3. Len(history) = generation /\ users = history[generation]
    BY <1>0, <2>1, Zenon DEF Generations
  <2>4. users = history'[generation] /\ Len(history') = generation + 1
    BY <1>0, <1>2, <2>3 DEF TypeOK
  <2> QED
    BY <1>0, <1>1, <1>n, <2>2, <2>4, Zenon DEF Generations
<1>6. SessionsOK'
  <2>1. \A u \in Sessions : SessionOK(sess[u])'
    <3>1. SUFFICES ASSUME NEW u \in Sessions
                   PROVE  Fits(sess'[u], history', generation', acked')
      BY Zenon DEF SessionOK
    <3>2. Fits(sess[u], history, generation, acked) /\ sess[u] \in Session /\ sess'[u] \in Session
      BY <1>0, <1>3, Zenon DEF TypeOK, SessionsOK, SessionOK
    <3>3. Fits(sess'[u], history, generation, acked)
      <4>1. CASE u # s
        BY <1>3, <3>2, <4>1, Zenon
      <4>2. CASE u = s
        <5>1. generation \in Nat /\ sess[s].pc \notin {"new", "pending", "closed"}
          BY <1>0, Zenon DEF TypeOK
        <5>2. Fits([sess[s] EXCEPT !.pc = "install"], history, generation, acked)
          BY <3>2, <4>2, <5>1, FitsElsewhere, Zenon
        <5> QED
          BY <1>3, <4>2, <5>2, Zenon
      <4> QED
        BY <4>1, <4>2, Zenon
    <3>4. /\ history \in Seq(Users) /\ generation \in Nat /\ acked \in Nat
          /\ Len(history') >= Len(history)
      BY <1>0, <1>2, SMTT(30) DEF TypeOK
    <3>5. Fits(sess'[u], history', generation, acked)
      BY <1>2, <3>2, <3>3, <3>4, FitsOnward, SMTT(30)
    <3> QED
      BY <1>1, <3>5, Zenon
  <2> QED
    BY <2>1, Zenon DEF SessionsOK
<1>7. \A u \in Sessions : sess'[u].user = sess[u].user /\ sess'[u].inc = sess[u].inc
  <2>1. sess[s] \in Session
    BY <1>0, Zenon DEF TypeOK
  <2>2. sess'[s].user = sess[s].user /\ sess'[s].inc = sess[s].inc
    BY <1>3, <2>1, Zenon DEF Session, Pcs
  <2> QED
    BY <1>3, <2>2, Zenon
<1>h. \A u \in Sessions : \A x : HeldSince(u, x) => HeldSince(u, x)'
  <2>1. history \in Seq(Users) /\ Len(history') >= Len(history)
    BY <1>0, <1>2 DEF TypeOK
  <2>2. SUFFICES ASSUME NEW u \in Sessions, NEW x,
                        HeldIn(history, x, sess[u].user, sess[u].inc, watch[u].table, watch[u].every)
                 PROVE  HeldIn(history', x, sess[u].user, sess[u].inc, watch[u].table, watch[u].every)
    BY <1>1, <1>7, Zenon DEF HeldSince
  <2> QED
    BY <1>2, <2>1, <2>2, HeldOnward, Zenon
<1>8. WatchesOK'
  BY <1>0, <1>1, <1>3, <1>h, Zenon DEF WatchesOK
<1>9. FeedOK'
  BY <1>0, <1>1, <1>h, Zenon DEF FeedOK
<1> QED
  BY <1>4, <1>5, <1>6, <1>8, <1>9, Zenon DEF RightsInv

LEMMA UpdateStep ==
  ASSUME RightsInv, NEW s \in Sessions,
         (\E c \in Changes : Update(s, c)) \/ SetOwnVerifier(s)
  PROVE  RightsInv'
<1>0. users \in Users /\ nextInc \in Nat /\ sess[s] \in Session /\ sess \in [Sessions -> Session]
  BY Zenon DEF RightsInv, TypeOK
<1>1. ASSUME NEW c \in Changes, Update(s, c) PROVE RightsInv'
  BY <1>0, <1>1, AppliedUsers, WriteFailsStep, WriteUsersStep, Zenon DEF Update
<1>2. CASE SetOwnVerifier(s) /\ OwnStill(s)
  <2> DEFINE st == [users EXCEPT ![sess[s].user].by = sess[s].inc]
  <2>1. st \in Users
    BY <1>0, ZenonT(60) DEF Users, User, Session, Pcs
  <2>2. WriteFails(s, st) \/ WriteUsersFile(s, st)
    BY <1>2, Zenon DEF SetOwnVerifier
  <2> HIDE DEF st
  <2> QED
    BY <1>2, <2>1, <2>2, WriteFailsStep, WriteUsersStep, Zenon DEF SetOwnVerifier
<1>3. CASE SetOwnVerifier(s) /\ ~OwnStill(s)
  <2> DEFINE r == [NoSession EXCEPT !.pc = "closed"]
  <2>1. r \in Session /\ SessionOK(r) /\ r.pc = "closed"
    BY NewSessionOK, Zenon DEF NoSession
  <2>2. sess' = [sess EXCEPT ![s] = r] /\ UNCHANGED <<registry, watch, feed>>
    BY <1>3, Zenon DEF SetOwnVerifier
  <2> HIDE DEF r
  <2> QED
    BY <1>3, <2>1, <2>2, SessionMoves, Zenon DEF SetOwnVerifier, registry
<1> QED
  BY <1>1, <1>2, <1>3, Zenon

\* The change is made current: the view first, the generation after it, and the
\* answer once the listeners ran.
LEMMA InstallStep ==
  ASSUME RightsInv, NEW s \in Sessions, InstallLocked(s)
  PROVE  RightsInv'
<1>0. TypeOK /\ Generations /\ SessionsOK /\ WatchesOK /\ FeedOK
  BY Zenon DEF RightsInv
<1>1. /\ sess[s].pc = "install" /\ users' = history[generation + 1] /\ view' = ViewOf(users')
      /\ sess' = [sess EXCEPT ![s].pc = "bump"]
      /\ UNCHANGED <<nextInc, generation, holder, history, acked, watch, feed>>
  BY Zenon DEF InstallLocked
<1>2. holder = s /\ s # Nobody /\ Len(history) = generation + 1
  BY <1>0, <1>1, UserAssumption, Zenon DEF Generations, Nobody
<1>3. /\ sess' \in [Sessions -> Session] /\ sess'[s] = [sess[s] EXCEPT !.pc = "bump"]
      /\ \A u \in Sessions \ {s} : sess'[u] = sess[u]
  <2>1. [sess[s] EXCEPT !.pc = "bump"] \in Session
    <3>1. sess[s] \in Session /\ "bump" \in Pcs
      BY <1>0, Zenon DEF TypeOK, Pcs
    <3> QED
      BY <3>1, PcMoves, Zenon
  <2> QED
    BY <1>0, <1>1, <2>1, Zenon DEF TypeOK
<1>4. /\ sess'[s].pc = "bump"
      /\ \A u \in Sessions : sess'[u].user = sess[u].user /\ sess'[u].inc = sess[u].inc
  <2>1. sess[s] \in Session /\ "bump" \in Pcs
    BY <1>0, Zenon DEF TypeOK, Pcs
  <2>2. LET n == [sess[s] EXCEPT !.pc = "bump"] IN
        n.pc = "bump" /\ n.user = sess[s].user /\ n.inc = sess[s].inc
    BY <2>1, PcMoves, Zenon
  <2>3. /\ sess'[s].pc = "bump" /\ sess'[s].user = sess[s].user /\ sess'[s].inc = sess[s].inc
    BY <1>3, <2>2, Zenon
  <2> QED
    BY <1>3, <2>3, Zenon
<1>5. TypeOK'
  BY <1>0, <1>1, <1>2, <1>3 DEF TypeOK
<1>6. Generations'
  <2>1. \A u \in Sessions : sess'[u].pc \in {"install", "bump"} <=> holder = u
    BY <1>0, <1>2, <1>3, <1>4, Zenon DEF Generations
  <2> QED
    BY <1>0, <1>1, <1>2, <1>4, <2>1, Zenon DEF Generations
<1>7. SessionsOK'
  <2>1. \A u \in Sessions : SessionOK(sess[u])'
    <3>1. SUFFICES ASSUME NEW u \in Sessions
                   PROVE  Fits(sess'[u], history', generation', acked')
      BY Zenon DEF SessionOK
    <3>2. Fits(sess[u], history, generation, acked) /\ sess[u] \in Session
      BY <1>0, Zenon DEF TypeOK, SessionsOK, SessionOK
    <3>3. Fits(sess'[u], history, generation, acked)
      BY <1>0, <1>1, <1>3, <3>2, FitsElsewhere, Zenon DEF TypeOK
    <3> QED
      BY <1>1, <3>3, Zenon
  <2> QED
    BY <2>1, Zenon DEF SessionsOK
<1>8. WatchesOK'
  BY <1>0, <1>1, <1>3, <1>4, Zenon DEF WatchesOK, HeldSince
<1>9. FeedOK'
  BY <1>0, <1>1, <1>4, SMTT(30) DEF FeedOK, HeldSince
<1> QED
  BY <1>5, <1>6, <1>7, <1>8, <1>9, Zenon DEF RightsInv

LEMMA CommitStep ==
  ASSUME RightsInv, NEW s \in Sessions, CommitLocked(s)
  PROVE  RightsInv'
<1>0. TypeOK /\ Generations /\ SessionsOK /\ WatchesOK /\ FeedOK
  BY Zenon DEF RightsInv
<1>1. /\ sess[s].pc = "bump" /\ generation' = generation + 1 /\ holder' = Nobody
      /\ sess' = [sess EXCEPT ![s] = [@ EXCEPT !.pc = "wake", !.g = generation + 1]]
      /\ UNCHANGED <<users, nextInc, view, history, acked, watch, feed>>
  BY Zenon DEF CommitLocked
<1>2. /\ holder = s /\ s # Nobody /\ Len(history) = generation + 1
      /\ users = history[generation + 1]
  BY <1>0, <1>1, UserAssumption, Zenon DEF Generations, Nobody
<1>t. /\ sess \in [Sessions -> Session] /\ sess[s] \in Session
      /\ generation \in Nat /\ acked \in Nat /\ history \in Seq(Users)
  BY <1>0, Zenon DEF TypeOK
<1> DEFINE r == [sess[s] EXCEPT !.pc = "wake", !.g = generation + 1]
<1>r. /\ r \in Session /\ r.pc = "wake" /\ r.g = generation + 1 /\ r.user = sess[s].user
      /\ r.inc = sess[s].inc /\ r.gen = sess[s].gen /\ r.rights = sess[s].rights
      /\ r.q = sess[s].q /\ r.wgen = sess[s].wgen /\ r.from = sess[s].from
      /\ r.every = sess[s].every
  <2>1. generation + 1 \in Nat
    BY <1>t, SMTT(30)
  <2>2. r \in Session
    BY <1>t, <2>1, Zenon DEF Session, Pcs
  <2> QED
    BY <1>t, <2>2, Zenon DEF Session, Pcs
<1> HIDE DEF r
<1>3. /\ sess' \in [Sessions -> Session] /\ sess'[s] = r
      /\ \A u \in Sessions \ {s} : sess'[u] = sess[u]
  BY <1>1, <1>t, <1>r, Zenon DEF r
<1>4. /\ sess'[s].pc = "wake"
      /\ \A u \in Sessions : sess'[u].user = sess[u].user /\ sess'[u].inc = sess[u].inc
  BY <1>3, <1>r, Zenon
<1>5. TypeOK'
  BY <1>0, <1>1, <1>3, SMTT(30) DEF TypeOK
<1>6. Generations'
  <2>1. \A u \in Sessions : sess'[u].pc \notin {"install", "bump"}
    BY <1>0, <1>2, <1>3, <1>4, Zenon DEF Generations
  <2> QED
    BY <1>0, <1>1, <1>2, <2>1, UserAssumption, SMTT(30) DEF Generations, TypeOK, Nobody
<1>7. SessionsOK'
  <2>1. \A u \in Sessions : SessionOK(sess[u])'
    <3>1. SUFFICES ASSUME NEW u \in Sessions
                   PROVE  Fits(sess'[u], history', generation', acked')
      BY Zenon DEF SessionOK
    <3>2. Fits(sess[u], history, generation, acked) /\ sess[u] \in Session
      BY <1>0, <1>t, Zenon DEF SessionsOK, SessionOK
    <3>3. Fits(sess[u], history, generation + 1, acked)
      BY <1>t, <3>2, FitsOnward
    <3>4. Fits(sess'[u], history, generation + 1, acked)
      <4>1. CASE u # s
        BY <1>3, <3>3, <4>1, Zenon
      <4>2. CASE u = s
        BY <1>1, <1>3, <1>r, <1>t, <3>3, <4>2, SMTT(30) DEF Fits, RightsUnder
      <4> QED
        BY <4>1, <4>2, Zenon
    <3> QED
      BY <1>1, <3>4, Zenon
  <2> QED
    BY <2>1, Zenon DEF SessionsOK
<1>8. WatchesOK'
  BY <1>0, <1>1, <1>3, <1>4, ZenonT(60) DEF WatchesOK, HeldSince
<1>9. FeedOK'
  <2>1. feed.g \in Nat /\ feed.g <= generation + 1
    BY <1>0, <1>t, SMTT(30) DEF TypeOK, Feed, FeedOK
  <2> QED
    BY <1>0, <1>1, <1>4, <2>1, SMTT(30) DEF FeedOK, HeldSince
<1> QED
  BY <1>5, <1>6, <1>7, <1>8, <1>9, Zenon DEF RightsInv

LEMMA WakesStep ==
  ASSUME RightsInv, NEW s \in Sessions, Wakes(s)
  PROVE  RightsInv'
<1>0. TypeOK /\ Generations /\ SessionsOK /\ WatchesOK /\ FeedOK
  BY Zenon DEF RightsInv
<1>1. /\ sess[s].pc = "wake" /\ acked' = Max({acked, sess[s].g})
      /\ sess' = [sess EXCEPT ![s] = Finished(s)]
      /\ UNCHANGED <<users, nextInc, view, generation, holder, history, watch, feed>>
  BY Zenon DEF Wakes
<1>2. acked' \in Nat /\ acked' >= acked /\ acked' <= generation
  <2>1. acked \in Nat /\ sess[s].g \in Nat /\ sess[s].g <= generation /\ acked <= generation
    BY <1>0, Zenon DEF TypeOK, Session, Pcs, Generations, SessionsOK, SessionOK, Fits
  <2> QED
    BY <1>1, <2>1, MaxOfTwo, Zenon
<1>3. Finished(s) \in Session /\ SessionOK(Finished(s)) /\ Finished(s).pc = "idle"
  BY <1>1, FinishedOK, Zenon
<1>4. /\ sess' \in [Sessions -> Session] /\ sess'[s] = Finished(s)
      /\ \A u \in Sessions \ {s} : sess'[u] = sess[u]
  BY <1>0, <1>1, <1>3, Zenon DEF TypeOK
<1>5. TypeOK'
  BY <1>0, <1>1, <1>2, <1>4, SMTT(30) DEF TypeOK
<1>6. Generations'
  <2>1. \A u \in Sessions : sess'[u].pc \in {"install", "bump"} <=> holder = u
    BY <1>0, <1>1, <1>3, <1>4, Zenon DEF Generations
  <2>2. (\E u \in Sessions : sess'[u].pc = "bump") <=> \E u \in Sessions : sess[u].pc = "bump"
    BY <1>1, <1>3, <1>4, Zenon
  <2> QED
    BY <1>0, <1>1, <1>2, <2>1, <2>2, Zenon DEF Generations
<1>7. SessionsOK'
  <2>1. \A u \in Sessions : SessionOK(sess'[u])
    BY <1>0, <1>3, <1>4, Zenon DEF SessionsOK
  <2>2. \A u \in Sessions : sess'[u].from \in Nat
    BY <1>4, Zenon DEF Session, Pcs
  <2>3. \A u \in Sessions : SessionOK(sess[u])'
    BY <1>0, <1>1, <1>2, <2>1, <2>2, SMTT(30) DEF SessionOK, Fits, TypeOK
  <2> QED
    BY <2>3, Zenon DEF SessionsOK
<1>8. ~watch[s].on
  BY <1>0, <1>1, Zenon DEF WatchesOK
<1>9. WatchesOK'
  <2>1. \A u \in Sessions : \A i \in DOMAIN watch[u].queue : watch[u].queue[i] \in Nat
    BY <1>0, SMTT(30) DEF TypeOK, WatchRecord, Frames
  <2> QED
    BY <1>0, <1>1, <1>2, <1>4, <1>8, <2>1, SMTT(30) DEF TypeOK, WatchesOK, HeldSince
<1>10. FeedOK'
  BY <1>0, <1>1, <1>2, <1>4, <1>8, SMTT(30) DEF TypeOK, Feed, FeedOK, HeldSince
<1> QED
  BY <1>5, <1>6, <1>7, <1>9, <1>10, Zenon DEF RightsInv

\* Everything starts over, with the users of the file.
LEMMA RestartStep ==
  ASSUME RightsInv, may \subseteq [Names -> [there : BOOLEAN, manages : BOOLEAN,
                                             grants : [Places -> Nat]]],
         Restart
  PROVE  RightsInv'
<1>1. PICK stored \in may : LET st == Numbered(stored) IN
        users' = st /\ view' = ViewOf(st) /\ history' = <<st>>
  BY Zenon DEF Restart
<1> DEFINE st == Numbered(stored)
<1>2. st \in Users
  BY <1>1, RecordTypes, Zenon DEF Numbered, Users, User
<1>3. /\ users' = st /\ view' = ViewOf(st) /\ history' = <<st>>
      /\ nextInc' = 2 /\ generation' = 1 /\ acked' = 1 /\ holder' = Nobody
      /\ sess' = [u \in Sessions |-> NoSession] /\ watch' = [u \in Sessions |-> NoWatch]
      /\ feed' = NoFeed
  BY <1>1, Zenon DEF Restart
<1> HIDE DEF st
<1>4. TypeOK'
  BY <1>2, <1>3, RecordTypes, SMTT(30) DEF TypeOK
<1>5. Generations'
  BY <1>2, <1>3, UserAssumption, SMTT(30) DEF Generations, NoSession, Nobody
<1>6. SessionsOK'
  BY <1>3, SMTT(30) DEF SessionsOK, SessionOK, Fits, NoSession, Quiet
<1>7. WatchesOK' /\ FeedOK'
  BY <1>3 DEF WatchesOK, FeedOK, NoWatch, NoFeed
<1> QED
  BY <1>4, <1>5, <1>6, <1>7, Zenon DEF RightsInv

-----------------------------------------------------------------------------
\* The feed thread, and a write to a watched table, leave sessions and users
\* alone.
LEMMA FeedMoves ==
  ASSUME RightsInv, UNCHANGED <<registry, sess>>,
         watch' \in [Sessions -> WatchRecord], feed' \in Feed, WatchesOK', FeedOK'
  PROVE  RightsInv'
<1>0. TypeOK /\ Generations /\ SessionsOK
  BY Zenon DEF RightsInv
<1>1. TypeOK'
  BY <1>0, Zenon DEF TypeOK, registry
<1>2. Generations'
  BY <1>0, Zenon DEF Generations, registry
<1>3. SessionsOK'
  BY <1>0 DEF SessionsOK, SessionOK, Fits, registry
<1> QED
  BY <1>1, <1>2, <1>3, Zenon DEF RightsInv

LEMMA PublishStep ==
  ASSUME RightsInv, NEW s \in Sessions, Publish(s)
  PROVE  RightsInv'
<1>0. TypeOK /\ WatchesOK /\ FeedOK
  BY Zenon DEF RightsInv
<1>1. watch' = [watch EXCEPT ![s].waiting = @ + 1] /\ UNCHANGED <<registry, sess, feed>>
  BY Zenon DEF Publish
<1>2. watch' \in [Sessions -> WatchRecord]
  <2>1. watch[s] \in WatchRecord /\ watch \in [Sessions -> WatchRecord]
    BY <1>0, Zenon DEF TypeOK
  <2>2. [watch[s] EXCEPT !.waiting = @ + 1] \in WatchRecord
    <3>1. watch[s].waiting + 1 \in Nat
      BY <2>1 DEF WatchRecord
    <3> QED
      BY <2>1, <3>1, Zenon DEF WatchRecord
  <2> QED
    BY <1>1, <2>1, <2>2, Zenon
<1>3. \A u \in Sessions :
        /\ watch'[u].on = watch[u].on /\ watch'[u].gen = watch[u].gen
        /\ watch'[u].every = watch[u].every /\ watch'[u].table = watch[u].table
        /\ watch'[u].queue = watch[u].queue
  BY <1>0, <1>1, ZenonT(60) DEF TypeOK, WatchRecord
<1>4. WatchesOK'
  BY <1>0, <1>1, <1>3, ZenonT(60) DEF WatchesOK, HeldSince, registry
<1>5. FeedOK'
  BY <1>0, <1>1, <1>3 DEF TypeOK, Feed, FeedOK, HeldSince, registry
<1> QED
  BY <1>0, <1>1, <1>2, <1>4, <1>5, FeedMoves, Zenon DEF TypeOK

\* The steps that only move the feed thread.
LEMMA ServeStep ==
  ASSUME RightsInv, Poll \/ (\E s \in Sessions : Turn(s)) \/ Accept \/ Check
  PROVE  RightsInv'
<1>0. TypeOK /\ Generations /\ WatchesOK /\ FeedOK
  BY Zenon DEF RightsInv
<1>1. UNCHANGED <<registry, sess, watch>>
  BY Zenon DEF Poll, Turn, Accept, Check
<1>2. WatchesOK'
  BY <1>0, <1>1, Zenon DEF WatchesOK, HeldSince, registry
<1>n. /\ feed \in Feed /\ acked \in Nat /\ generation \in Nat /\ acked <= generation
      /\ watch \in [Sessions -> WatchRecord]
  BY <1>0, Zenon DEF TypeOK, Generations
<1>3. CASE Poll
  <2>1. feed' \in Feed
    BY <1>n, <1>3, Zenon DEF Poll, Feed, Watched
  <2>2. FeedOK'
    BY <1>0, <1>1, <1>3, <1>n, Zenon DEF Poll, Feed, FeedOK, Watched, registry
  <2> QED
    BY <1>1, <1>2, <1>n, <2>1, <2>2, FeedMoves, Zenon
<1>4. ASSUME NEW s \in Sessions, Turn(s) PROVE RightsInv'
  <2>1. feed' \in Feed
    BY <1>n, <1>4, ZenonT(60) DEF Turn, Feed
  <2>2. FeedOK'
    <3>1. /\ s \in feed.todo /\ watch[s].on /\ feed'.at = s /\ feed'.todo = feed.todo \ {s}
          /\ feed'.pc \in {"ack", "pull"} /\ feed'.from \in {feed.from, acked} /\ feed'.g = feed.g
      BY <1>0, <1>4, <1>n, Zenon DEF Turn, Feed, FeedOK
    <3>2. feed'.from <= acked /\ feed'.g <= generation
      BY <1>0, <1>n, <3>1 DEF FeedOK
    <3> QED
      BY <1>0, <1>1, <3>1, <3>2, Zenon DEF FeedOK, registry
  <2> QED
    BY <1>1, <1>2, <1>n, <2>1, <2>2, FeedMoves, Zenon
<1>5. CASE Accept
  <2>1. feed' \in Feed
    BY <1>n, <1>5, Zenon DEF Accept, Feed
  <2>2. FeedOK'
    BY <1>0, <1>1, <1>5, <1>n DEF Accept, Feed, FeedOK, registry
  <2> QED
    BY <1>1, <1>2, <1>n, <2>1, <2>2, FeedMoves, Zenon
<1>6. CASE Check
  <2> DEFINE s == feed.at
  <2>0. /\ s \in Sessions /\ watch[s].on /\ s \notin feed.todo /\ HeldSince(s, watch[s].gen)
        /\ \A i \in DOMAIN watch[s].queue : watch[s].queue[i] <= acked
        /\ \A i \in DOMAIN watch[s].queue : watch[s].queue[i] \in Nat
        /\ watch[s].gen \in Nat /\ feed.from <= acked /\ feed.from \in Nat
    BY <1>0, <1>6, <1>n, SMTT(30) DEF Check, FeedOK, WatchesOK, WatchRecord, Frames, Feed
  <2>1. feed' \in Feed
    BY <1>n, <1>6, ZenonT(60) DEF Check, Feed, Then
  <2>2. CASE generation = watch[s].gen
    <3>1. /\ feed' = [feed EXCEPT !.pc = IF feed.pc = "ack" THEN "accept" ELSE "write", !.g = 0]
      BY <1>6, <1>n, <2>2, Zenon DEF Check, MustRecheck, Then, Feed
    <3>2. HeldSince(s, acked)
      BY <1>n, <2>0, <2>2, HeldEarlier, Zenon DEF HeldSince
    <3>3. /\ HeldSince(s, feed.from)
          /\ \A i \in DOMAIN watch[s].queue : HeldSince(s, watch[s].queue[i])
      BY <1>n, <2>0, <3>2, HeldEarlier, SMTT(30) DEF HeldSince
    <3>4. FeedOK'
      BY <1>0, <1>1, <1>n, <2>0, <3>1, <3>3 DEF Feed, FeedOK, HeldSince, registry
    <3> QED
      BY <1>1, <1>2, <1>n, <2>1, <3>4, FeedMoves, Zenon
  <2>3. CASE generation # watch[s].gen
    <3>1. feed' = [feed EXCEPT !.pc = IF feed.pc = "ack" THEN "ackview" ELSE "view", !.g = generation]
      BY <1>6, <1>n, <2>3, Zenon DEF Check, MustRecheck, Feed
    <3>2. FeedOK'
      BY <1>0, <1>1, <1>n, <2>0, <3>1 DEF Feed, FeedOK, registry
    <3> QED
      BY <1>1, <1>2, <1>n, <2>1, <3>2, FeedMoves, Zenon
  <2> QED
    BY <2>2, <2>3, Zenon
<1> QED
  BY <1>3, <1>4, <1>5, <1>6, Zenon

LEMMA PullStep ==
  ASSUME RightsInv, Pull
  PROVE  RightsInv'
<1>0. TypeOK /\ WatchesOK /\ FeedOK
  BY Zenon DEF RightsInv
<1> DEFINE s == feed.at
<1>1. /\ s \in Sessions /\ watch[s] \in WatchRecord /\ acked \in Nat /\ feed \in Feed
      /\ feed.pc = "pull" /\ feed' = [feed EXCEPT !.pc = "check"] /\ UNCHANGED <<registry, sess>>
  BY <1>0, Zenon DEF TypeOK, FeedOK, Pull
<1>2. CASE watch' = watch
  <2>1. WatchesOK' /\ FeedOK' /\ feed' \in Feed
    BY <1>0, <1>1, <1>2, Zenon DEF WatchesOK, FeedOK, HeldSince, Feed, registry
  <2> QED
    BY <1>0, <1>1, <1>2, <2>1, FeedMoves, Zenon DEF TypeOK
<1>3. CASE watch[s].waiting # 0
           /\ watch' = [watch EXCEPT ![s] = [watch[s] EXCEPT !.waiting = @ - 1,
                                                             !.queue = Append(watch[s].queue, acked)]]
  <2>1. /\ watch[s].queue \in Seq(Nat) /\ watch[s].waiting - 1 \in Nat
        /\ Append(watch[s].queue, acked) \in Frames
    BY <1>1, <1>3, SMTT(30) DEF WatchRecord, Frames
  <2> DEFINE w == [watch[s] EXCEPT !.waiting = watch[s].waiting - 1,
                                   !.queue = Append(watch[s].queue, acked)]
  <2>w. /\ w \in WatchRecord /\ w.on = watch[s].on /\ w.gen = watch[s].gen
        /\ w.every = watch[s].every /\ w.table = watch[s].table
        /\ w.queue = Append(watch[s].queue, acked)
    BY <1>1, <2>1, Zenon DEF WatchRecord
  <2>v. watch \in [Sessions -> WatchRecord] /\ watch' = [watch EXCEPT ![s] = w]
    <3>1. watch' = [watch EXCEPT ![s] = w]
      BY <1>3, Zenon
    <3> QED
      BY <1>0, <3>1, Zenon DEF TypeOK
  <2> HIDE DEF w
  <2>2. watch' \in [Sessions -> WatchRecord]
    BY <2>w, <2>v, Zenon
  <2>3. \A u \in Sessions :
          /\ watch'[u].on = watch[u].on /\ watch'[u].gen = watch[u].gen
          /\ watch'[u].every = watch[u].every /\ watch'[u].table = watch[u].table
    BY <1>1, <2>w, <2>v, Zenon
  <2>4. \A u \in Sessions : \A i \in DOMAIN watch'[u].queue : watch'[u].queue[i] <= acked
    <3>1. \A u \in Sessions \ {s} : watch'[u].queue = watch[u].queue
      BY <2>v, Zenon
    <3>2. watch'[s].queue = Append(watch[s].queue, acked)
      BY <1>1, <2>w, <2>v, Zenon
    <3>3. \A i \in DOMAIN Append(watch[s].queue, acked) : Append(watch[s].queue, acked)[i] <= acked
      <4> DEFINE old == watch[s].queue
      <4>1. old \in Seq(Nat) /\ \A i \in DOMAIN old : old[i] <= acked
        BY <1>0, <1>1, <2>1, Zenon DEF WatchesOK
      <4> HIDE DEF old
      <4>2. \A i \in DOMAIN Append(old, acked) : Append(old, acked)[i] <= acked
        BY <1>1, <4>1
      <4> QED
        BY <4>2, Zenon DEF old
    <3> QED
      BY <1>0, <3>1, <3>2, <3>3, Zenon DEF WatchesOK
  <2>5. WatchesOK'
    BY <1>0, <1>1, <2>3, <2>4, Zenon DEF WatchesOK, HeldSince, registry
  <2>6. FeedOK' /\ feed' \in Feed
    BY <1>0, <1>1, <2>3, Zenon DEF TypeOK, Feed, FeedOK, registry
  <2> QED
    BY <1>1, <2>2, <2>5, <2>6, FeedMoves, Zenon
<1> QED
  BY <1>2, <1>3, Zenon DEF Pull

\* A watch ends: its session is closed or goes back to a worker.
LEMMA WatchEnds ==
  ASSUME RightsInv, NEW s \in Sessions, watch[s].on, NEW r \in Session, SessionOK(r),
         r.pc \in {"closed", "idle"}, sess' = [sess EXCEPT ![s] = r],
         watch' = [watch EXCEPT ![s] = NoWatch], UNCHANGED registry,
         feed' \in Feed, feed'.pc = "poll", feed'.todo \subseteq feed.todo \ {s},
         feed'.from <= acked, feed'.g <= generation
  PROVE  RightsInv'
<1>0. TypeOK /\ Generations /\ SessionsOK /\ WatchesOK /\ FeedOK
  BY Zenon DEF RightsInv
<1>1. /\ sess'[s] = r /\ watch'[s] = NoWatch /\ sess[s].pc = "watching"
      /\ \A u \in Sessions \ {s} : sess'[u] = sess[u] /\ watch'[u] = watch[u]
  BY <1>0, Zenon DEF TypeOK, WatchesOK
<1>2. TypeOK'
  BY <1>0, RecordTypes, Zenon DEF TypeOK, registry
<1>3. Generations'
  <2>1. (\E u \in Sessions : sess'[u].pc = "bump") <=> \E u \in Sessions : sess[u].pc = "bump"
    BY <1>1, ZenonT(60)
  <2>2. \A u \in Sessions : sess'[u].pc \in {"install", "bump"} <=> holder = u
    BY <1>0, <1>1, Zenon DEF Generations
  <2> QED
    BY <1>0, <2>1, <2>2, Zenon DEF Generations, registry
<1>4. SessionsOK'
  <2>1. \A u \in Sessions : SessionOK(sess'[u])
    BY <1>0, <1>1, Zenon DEF SessionsOK
  <2> QED
    BY <2>1, SMTT(30) DEF SessionsOK, SessionOK, Fits, registry
<1>5. WatchesOK'
  <2>1. ~NoWatch.on /\ NoWatch.queue = <<>>
    BY Zenon DEF NoWatch
  <2>2. \A u \in Sessions \ {s} : \A x : HeldSince(u, x)' <=> HeldSince(u, x)
    BY <1>1, Zenon DEF HeldSince, registry
  <2>3. acked' = acked
    BY Zenon DEF registry
  <2> QED
    BY <1>0, <1>1, <2>1, <2>2, <2>3 DEF WatchesOK
<1>6. FeedOK'
  BY <1>0, <1>1, Zenon DEF TypeOK, Feed, FeedOK, registry
<1> QED
  BY <1>2, <1>3, <1>4, <1>5, <1>6, Zenon DEF RightsInv

LEMMA UnwatchStep ==
  ASSUME RightsInv, NEW s \in Sessions, Unwatch(s)
  PROVE  RightsInv'
<1>0. TypeOK /\ SessionsOK /\ WatchesOK /\ FeedOK
  BY Zenon DEF RightsInv
<1> DEFINE r == [sess[s] EXCEPT !.pc = "idle"]
<1>1. r \in Session /\ r.pc = "idle" /\ sess' = [sess EXCEPT ![s] = r]
  BY <1>0, ZenonT(60) DEF Unwatch, TypeOK, Session, Pcs
<1>2. SessionOK(r)
  <2>1. /\ sess[s] \in Session /\ sess[s].pc = "watching" /\ generation \in Nat
        /\ Fits(sess[s], history, generation, acked)
    BY <1>0, Zenon DEF Unwatch, TypeOK, WatchesOK, SessionsOK, SessionOK
  <2> QED
    BY <2>1, FitsElsewhere, Zenon DEF SessionOK
<1>3. /\ feed' \in Feed /\ feed'.pc = "poll" /\ feed'.todo \subseteq feed.todo \ {s}
      /\ feed'.from <= acked /\ feed'.g <= generation
  BY <1>0, Zenon DEF Unwatch, TypeOK, Feed, FeedOK
<1> HIDE DEF r
<1> QED
  BY <1>1, <1>2, <1>3, WatchEnds, Zenon DEF Unwatch

LEMMA RecheckStep ==
  ASSUME RightsInv, Recheck
  PROVE  RightsInv'
<1>0. TypeOK /\ Generations /\ SessionsOK /\ WatchesOK /\ FeedOK
  BY Zenon DEF RightsInv
<1> DEFINE s == feed.at
<1>1. /\ s \in Sessions /\ watch[s].on /\ s \notin feed.todo /\ sess[s].pc = "watching"
      /\ sess[s] \in Session /\ sess[s].inc # 0 /\ feed \in Feed /\ feed.pc \in {"ackview", "view"}
      /\ watch[s] \in WatchRecord /\ watch \in [Sessions -> WatchRecord]
  BY <1>0, Zenon DEF Recheck, TypeOK, FeedOK, WatchesOK, SessionsOK, SessionOK, Fits
<1>2. CASE ViewHolds(s)
  <2>1. /\ watch' = [watch EXCEPT ![s].gen = feed.g]
        /\ feed' = [feed EXCEPT !.pc = IF feed.pc = "ackview" THEN "accept" ELSE "write", !.g = 0]
        /\ UNCHANGED <<registry, sess>>
    BY <1>1, <1>2, Zenon DEF Recheck, Then
  <2>2. PICK k \in 1..Len(history) : k >= generation /\ users = history[k]
    BY <1>0, UserAssumption, SMTT(30) DEF TypeOK, Generations, Nobody
  <2>3. Permits(history[k], sess[s].user, sess[s].inc, watch[s].table, watch[s].every)
    BY <1>0, <1>1, <1>2, <2>2, Zenon DEF ViewHolds, Permits, HasUser, Generations, ViewOf, Session, Pcs
  <2>4. HeldSince(s, feed.g)
    <3>1. k >= feed.g
      BY <1>0, <1>1, <2>2, SMTT(30) DEF FeedOK, TypeOK, Feed
    <3> QED
      BY <2>2, <2>3, <3>1, Zenon DEF HeldSince, HeldIn
  <2>5. watch' \in [Sessions -> WatchRecord] /\ feed' \in Feed
    BY <1>1, <2>1, Zenon DEF WatchRecord, Feed
  <2>6. /\ \A u \in Sessions : /\ watch'[u].on = watch[u].on /\ watch'[u].queue = watch[u].queue
                               /\ watch'[u].every = watch[u].every /\ watch'[u].table = watch[u].table
        /\ watch'[s].gen = feed.g /\ \A u \in Sessions \ {s} : watch'[u].gen = watch[u].gen
    BY <1>1, <2>1, Zenon DEF WatchRecord
  <2>7. WatchesOK'
    BY <1>0, <1>1, <2>1, <2>4, <2>6 DEF WatchesOK, HeldSince, registry
  <2>8. /\ feed.pc = "ackview" => HeldSince(s, feed.from)
        /\ feed.pc = "view" => \A i \in DOMAIN watch[s].queue : HeldSince(s, watch[s].queue[i])
    <3>1. \A i \in DOMAIN watch[s].queue : watch[s].queue[i] \in Nat
      BY <1>1, SMTT(30) DEF WatchRecord, Frames
    <3> QED
      <4>1. feed.g \in Nat /\ feed.from \in Nat
        BY <1>1, Zenon DEF Feed
      <4>2. /\ feed.pc = "ackview" => feed.from <= feed.g
            /\ feed.pc = "view" => \A i \in DOMAIN watch[s].queue : watch[s].queue[i] <= feed.g
        BY <1>0, Zenon DEF FeedOK
      <4> QED
        BY <2>4, <3>1, <4>1, <4>2, HeldEarlier, SMTT(30) DEF HeldSince
  <2>9. FeedOK'
    BY <1>0, <1>1, <2>1, <2>6, <2>8, SMTT(30) DEF TypeOK, Feed, FeedOK, HeldSince, registry
  <2> QED
    BY <2>1, <2>5, <2>7, <2>9, FeedMoves, Zenon
<1>3. CASE ~ViewHolds(s)
  <2> DEFINE r == [NoSession EXCEPT !.pc = "closed"]
  <2>1. r \in Session /\ SessionOK(r) /\ r.pc = "closed"
    BY NewSessionOK, Zenon DEF NoSession
  <2>2. /\ sess' = [sess EXCEPT ![s] = r] /\ watch' = [watch EXCEPT ![s] = NoWatch]
        /\ feed' = [feed EXCEPT !.pc = "poll", !.at = Nobody, !.g = 0, !.from = 0]
        /\ UNCHANGED registry
    BY <1>3, Zenon DEF Recheck
  <2>3. /\ feed' \in Feed /\ feed'.pc = "poll" /\ feed'.todo \subseteq feed.todo \ {s}
        /\ feed'.from <= acked /\ feed'.g <= generation
    <3>1. acked \in Nat /\ generation \in Nat
      BY <1>0, Zenon DEF TypeOK
    <3>2. /\ feed' \in Feed /\ feed'.pc = "poll" /\ feed'.todo = feed.todo
          /\ feed'.from = 0 /\ feed'.g = 0
      BY <1>1, <2>2, Zenon DEF Feed
    <3> QED
      BY <1>1, <3>1, <3>2
  <2> HIDE DEF r
  <2> QED
    BY <1>1, <2>1, <2>2, <2>3, WatchEnds, Zenon
<1> QED
  BY <1>2, <1>3, Zenon

LEMMA WriteStep ==
  ASSUME RightsInv, Write
  PROVE  RightsInv'
<1>0. TypeOK /\ WatchesOK /\ FeedOK
  BY Zenon DEF RightsInv
<1> DEFINE s == feed.at
<1>1. /\ s \in Sessions /\ watch[s] \in WatchRecord /\ feed \in Feed
      /\ feed' = [feed EXCEPT !.pc = "poll", !.at = Nobody] /\ UNCHANGED <<registry, sess>>
      /\ watch \in [Sessions -> WatchRecord]
  BY <1>0, Zenon DEF TypeOK, FeedOK, Write
<1>2. feed' \in Feed
  BY <1>1, Zenon DEF Feed
<1>3. ASSUME NEW w \in WatchRecord, watch' = [watch EXCEPT ![s] = w], w.on = watch[s].on,
             w.gen = watch[s].gen, w.every = watch[s].every, w.table = watch[s].table,
             \A i \in DOMAIN w.queue : w.queue[i] <= acked
      PROVE  RightsInv'
  <2>1. watch' \in [Sessions -> WatchRecord]
    BY <1>1, <1>3, Zenon
  <2>2. WatchesOK'
    BY <1>0, <1>1, <1>3, Zenon DEF WatchesOK, HeldSince, registry
  <2>3. FeedOK'
    BY <1>0, <1>1, <1>3, Zenon DEF TypeOK, Feed, FeedOK, registry
  <2> QED
    BY <1>1, <1>2, <2>1, <2>2, <2>3, FeedMoves, Zenon
<1>4. CASE UNCHANGED watch
  <2>1. watch' = [watch EXCEPT ![s] = watch[s]]
    BY <1>1, <1>4, Zenon
  <2> QED
    BY <1>0, <1>1, <1>3, <2>1, Zenon DEF WatchesOK
<1>5. CASE watch' = [watch EXCEPT ![s].started = TRUE]
  <2> DEFINE w == [watch[s] EXCEPT !.started = TRUE]
  <2>1. /\ w \in WatchRecord /\ watch' = [watch EXCEPT ![s] = w] /\ w.on = watch[s].on
        /\ w.gen = watch[s].gen /\ w.every = watch[s].every /\ w.table = watch[s].table
        /\ w.queue = watch[s].queue
    BY <1>1, <1>5, Zenon DEF WatchRecord
  <2> HIDE DEF w
  <2> QED
    BY <1>0, <1>1, <1>3, <2>1, Zenon DEF WatchesOK
<1>6. CASE watch[s].queue # <<>>
           /\ watch' = [watch EXCEPT ![s] = [watch[s] EXCEPT !.queue = Tail(@), !.started = FALSE]]
  <2> DEFINE w == [watch[s] EXCEPT !.queue = Tail(watch[s].queue), !.started = FALSE]
  <2>0. watch[s].queue \in Seq(Nat) /\ Tail(watch[s].queue) \in Frames
    BY <1>1, <1>6 DEF WatchRecord, Frames
  <2>1. /\ w \in WatchRecord /\ watch' = [watch EXCEPT ![s] = w] /\ w.on = watch[s].on
        /\ w.gen = watch[s].gen /\ w.every = watch[s].every /\ w.table = watch[s].table
        /\ w.queue = Tail(watch[s].queue)
    <3>1. /\ w \in WatchRecord /\ w.on = watch[s].on /\ w.gen = watch[s].gen
          /\ w.every = watch[s].every /\ w.table = watch[s].table
          /\ w.queue = Tail(watch[s].queue)
      BY <1>1, <2>0, Zenon DEF WatchRecord
    <3>2. watch' = [watch EXCEPT ![s] = w]
      BY <1>6, Zenon
    <3> HIDE DEF w
    <3> QED
      BY <3>1, <3>2, Zenon
  <2>2. \A i \in DOMAIN Tail(watch[s].queue) : Tail(watch[s].queue)[i] <= acked
    BY <1>0, <1>1, <1>6, <2>0, SMTT(30) DEF WatchesOK
  <2> HIDE DEF w
  <2> QED
    BY <1>1, <1>3, <2>1, <2>2, Zenon
<1> QED
  BY <1>4, <1>5, <1>6, Zenon DEF Write

-----------------------------------------------------------------------------
\* What chunkdb.users may hold, and the users that are written to it: a name
\* without a user has nothing else, someone manages users, and a password is
\* the one of its incarnation.
Stored == [Names -> [there : BOOLEAN, manages : BOOLEAN, grants : [Places -> Nat]]]
FileOK(f) ==
  /\ f \in Stored
  /\ \E n \in Names : f[n].manages
  /\ \A n \in Names : ~f[n].there => ~f[n].manages /\ f[n].grants = NoGrants
UsersOK(st) ==
  /\ \A n \in Names : st[n].inc = 0 => st[n] = Absent
  /\ \E n \in Names : st[n].manages
  /\ \A n \in Names : st[n].by # 0 => st[n].by = st[n].inc
FileInv ==
  /\ \A f \in may : FileOK(f)
  /\ UsersOK(users) /\ (holder # Nobody => UsersOK(history[generation + 1]))
  /\ EncodeUsers(IF holder = Nobody THEN users ELSE history[generation + 1]) \in may

LEMMA WrittenUsersOK ==
  ASSUME NEW st \in Users, UsersOK(st)
  PROVE  FileOK(EncodeUsers(st))
<1>1. EncodeUsers(st) \in Stored
  BY Zenon DEF EncodeUsers, Stored, Users, User
<1> QED
  <2>1. \A n \in Names : /\ EncodeUsers(st)[n].there <=> st[n].inc # 0
                         /\ EncodeUsers(st)[n].manages = st[n].manages
                         /\ EncodeUsers(st)[n].grants = st[n].grants
    BY Zenon DEF EncodeUsers
  <2>2. ~Absent.manages /\ Absent.grants = NoGrants
    BY Zenon DEF Absent
  <2>3. \A n \in Names : st[n].inc = 0 => st[n] = Absent
    BY Zenon DEF UsersOK
  <2>4. PICK n \in Names : st[n].manages
    BY Zenon DEF UsersOK
  <2>5. EncodeUsers(st)[n].manages
    BY <2>1, <2>4, Zenon
  <2>6. \A m \in Names : ~EncodeUsers(st)[m].there =>
          ~EncodeUsers(st)[m].manages /\ EncodeUsers(st)[m].grants = NoGrants
    BY <2>1, <2>2, <2>3, Zenon
  <2> QED
    BY <1>1, <2>5, <2>6, Zenon DEF FileOK

\* A start finds in the file the users that were written.
LEMMA ReadUsersOK ==
  ASSUME NEW f, FileOK(f)
  PROVE  UsersOK(Numbered(f)) /\ EncodeUsers(Numbered(f)) = f
<1>a. Absent.inc = 0 /\ Absent.manages = FALSE /\ Absent.grants = NoGrants /\ Absent.by = 0
  BY Zenon DEF Absent
<1>1. \A n \in Names : /\ f[n].there => /\ Numbered(f)[n].inc = 1 /\ Numbered(f)[n].by = 0
                                        /\ Numbered(f)[n].manages = f[n].manages
                                        /\ Numbered(f)[n].grants = f[n].grants
                       /\ ~f[n].there => Numbered(f)[n] = Absent
  BY Zenon DEF Numbered
<1>2. UsersOK(Numbered(f))
  <2>1. PICK n \in Names : f[n].manages
    BY Zenon DEF FileOK
  <2>2. f[n].there
    BY <2>1, Zenon DEF FileOK
  <2> QED
    BY <1>1, <1>a, <2>1, <2>2 DEF UsersOK
<1>3. \A n \in Names : EncodeUsers(Numbered(f))[n] = f[n]
  <2>1. SUFFICES ASSUME NEW n \in Names PROVE EncodeUsers(Numbered(f))[n] = f[n]
    BY Zenon
  <2>2. /\ f[n] \in [there : BOOLEAN, manages : BOOLEAN, grants : [Places -> Nat]]
        /\ ~f[n].there => f[n].manages = FALSE /\ f[n].grants = NoGrants
    BY Zenon DEF FileOK, Stored
  <2>3. EncodeUsers(Numbered(f))[n] = [there |-> Numbered(f)[n].inc # 0,
                                       manages |-> Numbered(f)[n].manages,
                                       grants |-> Numbered(f)[n].grants]
    BY Zenon DEF EncodeUsers
  <2>4. CASE f[n].there
    BY <1>1, <2>2, <2>3, <2>4, SMTT(30)
  <2>5. CASE ~f[n].there
    BY <1>1, <1>a, <2>2, <2>3, <2>5, Zenon
  <2> QED
    BY <2>4, <2>5, Zenon
<1>4. EncodeUsers(Numbered(f)) = f
  BY <1>3, Zenon DEF EncodeUsers, FileOK, Stored
<1> QED
  BY <1>2, <1>4, Zenon

\* A change the rules accept leaves a manager and no remains of a user.
LEMMA ChangedUsersOK ==
  ASSUME users \in Users, nextInc \in Nat, nextInc > 0, UsersOK(users),
         NEW c \in Changes, Accepted(users, c)
  PROVE  UsersOK(Applied(users, c))
<1>0. c.user \in Names /\ users[c.user] \in User /\ c.table \in Places
  BY UserAssumption, RecordTypes, Zenon DEF Changes, Users
<1> DEFINE st == Applied(users, c)
<1>1. \A n \in Names \ {c.user} : st[n] = users[n]
  BY <1>0, Zenon DEF Applied, Users
<1>2. CASE c.kind \in {"create", "creates manager"}
  <2>1. users[c.user].inc = 0 /\ users[c.user] = Absent /\ ~users[c.user].manages
    <3>1. users[c.user].inc = 0
      BY <1>2, Zenon DEF Accepted
    <3>2. users[c.user] = Absent
      BY <1>0, <3>1, Zenon DEF UsersOK
    <3> QED
      BY <3>1, <3>2, SMTT(30) DEF Absent
  <2>2. st[c.user].inc = nextInc /\ st[c.user].by = 0
    BY <1>0, <1>2, Zenon DEF Applied, Changed, Users, Absent
  <2> QED
    BY <1>0, <1>1, <2>1, <2>2, SMTT(30) DEF UsersOK
<1>3. CASE c.kind \in {"drop", "loses"}
  <2>1. \E n \in Names : st[n].manages
    BY <1>3, Zenon DEF Accepted, RequireUserManager
  <2>2. users[c.user].inc # 0
    BY <1>3, Zenon DEF Accepted
  <2>3. \/ st[c.user] = Absent
        \/ st[c.user].inc = users[c.user].inc /\ st[c.user].by = users[c.user].by
    <3>1. Changed(users[c.user], c) \in {Absent, [users[c.user] EXCEPT !.manages = FALSE]}
      BY <1>3, Zenon DEF Changed
    <3>2. st[c.user] = Changed(users[c.user], c)
      BY <1>0, Zenon DEF Applied, Users
    <3> QED
      BY <1>0, <3>1, <3>2, Zenon DEF User
  <2>4. Absent.inc = 0 /\ Absent.by = 0
    BY Zenon DEF Absent
  <2> QED
    BY <1>0, <1>1, <2>1, <2>2, <2>3, <2>4 DEF UsersOK
<1>4. CASE c.kind \in {"manages", "grant", "revoke"}
  <2>1. users[c.user].inc # 0
    BY <1>4, Zenon DEF Accepted
  <2>2. /\ st[c.user].inc = users[c.user].inc /\ st[c.user].by = users[c.user].by
        /\ users[c.user].manages => st[c.user].manages
    BY <1>0, <1>4, Zenon DEF Applied, Changed, Users, User
  <2> QED
    BY <1>0, <1>1, <2>1, <2>2, SMTT(30) DEF UsersOK
<1>5. c.kind \in {"create", "creates manager", "drop", "manages", "loses", "grant", "revoke"}
  BY Zenon DEF Changes
<1> QED
  BY <1>2, <1>3, <1>4, <1>5, Zenon

LEMMA FileUnchanged ==
  ASSUME FileInv, UNCHANGED <<users, holder, may, history, generation>>
  PROVE  FileInv'
BY Zenon DEF FileInv

LEMMA FileWritten ==
  ASSUME RightsInv, FileInv, NEW s \in Sessions, holder = Nobody,
         NEW st \in Users, UsersOK(st), WriteFails(s, st) \/ WriteUsersFile(s, st)
  PROVE  FileInv'
<1>0. FileOK(EncodeUsers(st))
  BY WrittenUsersOK, Zenon
<1>1. CASE WriteFails(s, st)
  BY <1>0, <1>1, Zenon DEF WriteFails, AfterFailure, FileInv
<1>2. CASE WriteUsersFile(s, st)
  <2>1. Len(history) = generation /\ history \in Seq(Users) /\ generation \in Nat
    BY Zenon DEF RightsInv, TypeOK, Generations
  <2>2. history'[generation + 1] = st
    BY <1>2, <2>1, SMTT(30) DEF WriteUsersFile
  <2>3. s # Nobody
    BY UserAssumption, Zenon DEF Nobody
  <2> QED
    BY <1>0, <1>2, <2>2, <2>3, Zenon DEF WriteUsersFile, FileInv
<1> QED
  BY <1>1, <1>2, Zenon

\* The file and the users in memory agree up to the change being made current.
LEMMA FileStep ==
  ASSUME RightsInv, FileInv, [Next]_vars
  PROVE  FileInv'
<1>1. CASE UNCHANGED <<users, holder, may, history, generation>>
  BY <1>1, FileUnchanged, Zenon
<1>2. ASSUME NEW s \in Sessions, NEW c \in Changes, Update(s, c) PROVE FileInv'
  <2>1. /\ users \in Users /\ nextInc \in Nat /\ nextInc > 0 /\ UsersOK(users)
        /\ holder = Nobody /\ Accepted(users, c)
    BY <1>2, Zenon DEF Update, RightsInv, TypeOK, FileInv
  <2>2. Applied(users, c) \in Users /\ UsersOK(Applied(users, c))
    BY <2>1, AppliedUsers, ChangedUsersOK, Zenon
  <2> QED
    BY <1>2, <2>1, <2>2, FileWritten, Zenon DEF Update
<1>3. ASSUME NEW s \in Sessions, SetOwnVerifier(s), OwnStill(s) PROVE FileInv'
  <2>1. /\ users \in Users /\ sess[s] \in Session /\ sess[s].inc # 0 /\ UsersOK(users)
        /\ users[sess[s].user].inc = sess[s].inc /\ holder = Nobody
    BY <1>3, Zenon DEF SetOwnVerifier, OwnStill, RightsInv, TypeOK, SessionsOK, SessionOK, Fits, FileInv
  <2> DEFINE st == [users EXCEPT ![sess[s].user].by = sess[s].inc]
  <2>2. st \in Users
    BY <2>1, ZenonT(60) DEF Users, User, Session, Pcs
  <2>3. /\ \A n \in Names : st[n].inc = users[n].inc /\ st[n].manages = users[n].manages
        /\ \A n \in Names \ {sess[s].user} : st[n] = users[n]
        /\ sess[s].user \in Names /\ st[sess[s].user].by = sess[s].inc
    BY <2>1, Zenon DEF Users, User, Session, Pcs
  <2>4. UsersOK(st)
    BY <2>1, <2>3 DEF UsersOK
  <2>5. WriteFails(s, st) \/ WriteUsersFile(s, st)
    BY <1>3, Zenon DEF SetOwnVerifier
  <2> HIDE DEF st
  <2> QED
    BY <2>1, <2>2, <2>4, <2>5, FileWritten, Zenon
<1>4. ASSUME NEW s \in Sessions, InstallLocked(s) PROVE FileInv'
  <2>1. holder = s /\ s # Nobody
    BY <1>4, UserAssumption, Zenon DEF InstallLocked, RightsInv, Generations, Nobody
  <2> QED
    BY <1>4, <2>1, Zenon DEF InstallLocked, FileInv
<1>5. ASSUME NEW s \in Sessions, CommitLocked(s) PROVE FileInv'
  <2>1. holder = s /\ s # Nobody /\ users = history[generation + 1]
    BY <1>5, UserAssumption, Zenon DEF CommitLocked, RightsInv, Generations, Nobody
  <2> QED
    BY <1>5, <2>1, Zenon DEF CommitLocked, FileInv
<1>6. CASE Restart
  <2>1. PICK f \in may : users' = Numbered(f) /\ holder' = Nobody /\ UNCHANGED may
    BY <1>6, Zenon DEF Restart
  <2> QED
    BY <2>1, ReadUsersOK, Zenon DEF FileInv
<1>7. ASSUME NEW s \in Sessions, SetOwnVerifier(s), ~OwnStill(s)
      PROVE  UNCHANGED <<users, holder, may, history, generation>>
  BY <1>7, Zenon DEF SetOwnVerifier, registry
<1>8. CASE UNCHANGED vars
  BY <1>1, <1>8, Zenon DEF vars
<1>9. CASE \E s \in Sessions : Wakes(s)
  BY <1>1, <1>9, Zenon DEF Wakes
<1>10. CASE \/ \E s \in Sessions, n \in Names : HandleHello(s, n)
            \/ \E s \in Sessions : HandleAuth(s)
            \/ \E s \in Sessions, q \in Statements, every \in BOOLEAN : Execute(s, q, every)
            \/ \E s \in Sessions : LostUserReply(s) \/ CurrentUser(s) \/ FindIncarnation(s)
            \/ \E s \in Sessions : Refused(s) \/ Ran(s) \/ GoesOnToChange(s) \/ Attaches(s)
            \/ \E s \in Sessions : Watches(s) \/ Publish(s) \/ Turn(s) \/ Unwatch(s)
            \/ \E s \in Sessions, c \in Changes : UpdateRefused(s, c)
            \/ Poll \/ Accept \/ Pull \/ Check \/ Recheck \/ Write
  <2>1. UNCHANGED registry
    BY <1>10, Zenon DEF HandleHello, HandleAuth, Execute, LostUserReply, CurrentUser, FindIncarnation,
      Refused, Ran, GoesOnToChange, Attaches, Watches, Publish, Turn, Unwatch, UpdateRefused,
      Poll, Accept, Pull, Check, Recheck, Write
  <2> QED
    BY <1>1, <2>1, Zenon DEF registry
<1> QED
  BY <1>1, <1>2, <1>3, <1>4, <1>5, <1>6, <1>7, <1>8, <1>9, <1>10, Zenon DEF Next

-----------------------------------------------------------------------------
\* The inductive invariant of users, cached rights, watches and the file
\* (user_registry.cpp, the sessions of engine_cql.cpp and the feed thread).
THEOREM RightsInvariant == Spec => [](RightsInv /\ FileInv)
<1>1. Init => RightsInv /\ FileInv
  <2> SUFFICES ASSUME Init PROVE RightsInv /\ FileInv
    BY Zenon
  <2>1. TypeOK
    BY RecordTypes, SMTT(30) DEF Init, TypeOK
  <2>2. Generations
    BY RecordTypes, UserAssumption, SMTT(30) DEF Init, Generations, NoSession, Nobody
  <2>3. SessionsOK
    BY SMTT(30) DEF Init, SessionsOK, SessionOK, Fits, NoSession, Quiet
  <2>4. WatchesOK /\ FeedOK
    BY SMTT(30) DEF Init, WatchesOK, FeedOK, NoWatch, NoFeed
  <2>5. UsersOK(FirstUsers)
    <3>1. /\ \A n \in Names : FirstUsers[n].inc = 1 /\ FirstUsers[n].by = 0
          /\ FirstUsers[First].manages /\ First \in Names
      BY UserAssumption, Zenon DEF FirstUsers
    <3> QED
      BY <3>1, SMTT(30) DEF UsersOK
  <2>6. FileInv
    BY <2>5, RecordTypes, WrittenUsersOK, Zenon DEF Init, FileInv
  <2> QED
    BY <2>1, <2>2, <2>3, <2>4, <2>6, Zenon DEF RightsInv
<1>2. RightsInv /\ FileInv /\ [Next]_vars => RightsInv' /\ FileInv'
  <2> SUFFICES ASSUME RightsInv, FileInv, [Next]_vars PROVE RightsInv'
    BY FileStep, Zenon
  <2>1. CASE UNCHANGED vars
    BY <2>1, ZenonT(60) DEF vars, RightsInv, TypeOK, Generations, SessionsOK, SessionOK, Fits, WatchesOK,
      HeldSince, FeedOK
  <2>2. CASE Restart
    BY <2>2, RestartStep, Zenon DEF FileInv, FileOK, Stored
  <2>3. CASE \E s \in Sessions, q \in Statements, every \in BOOLEAN : Execute(s, q, every)
    BY <2>3, ExecuteStep, Zenon
  <2>4. CASE \/ \E s \in Sessions, n \in Names : HandleHello(s, n)
             \/ \E s \in Sessions : HandleAuth(s)
    BY <2>4, LoginStep, Zenon
  <2>5. CASE \E s \in Sessions : LostUserReply(s) \/ CurrentUser(s) \/ FindIncarnation(s)
    BY <2>5, LookupStep, Zenon
  <2>6. CASE \/ \E s \in Sessions : Refused(s) \/ Ran(s) \/ GoesOnToChange(s) \/ Attaches(s)
             \/ \E s \in Sessions, c \in Changes : UpdateRefused(s, c)
    BY <2>6, DecideStep, Zenon
  <2>7. CASE \/ \E s \in Sessions, c \in Changes : Update(s, c)
             \/ \E s \in Sessions : SetOwnVerifier(s)
    BY <2>7, UpdateStep, Zenon
  <2>8. CASE \E s \in Sessions : InstallLocked(s) \/ CommitLocked(s) \/ Wakes(s)
    BY <2>8, InstallStep, CommitStep, WakesStep, Zenon
  <2>9. CASE \E s \in Sessions : Watches(s) \/ Publish(s) \/ Unwatch(s)
    BY <2>9, WatchesStep, PublishStep, UnwatchStep, Zenon
  <2>10. CASE Poll \/ (\E s \in Sessions : Turn(s)) \/ Accept \/ Check
    BY <2>10, ServeStep, Zenon
  <2>11. CASE Pull \/ Recheck \/ Write
    BY <2>11, PullStep, RecheckStep, WriteStep, Zenon
  <2> QED
    BY <2>1, <2>2, <2>3, <2>4, <2>5, <2>6, <2>7, <2>8, <2>9, <2>10, <2>11, Zenon DEF Next
<1> QED
  BY <1>1, <1>2, PTL DEF Spec

\* A statement is decided by rights its user had at one moment since it began,
\* though they are cached and checked without the registry's mutex
\* (CurrentUser, RequireRight).
THEOREM StatementsDecidedByRights == Spec => []DecidedByRights
<1>1. RightsInv => DecidedByRights
  <2> SUFFICES ASSUME RightsInv, NEW s \in Sessions, sess[s].pc = "decide"
               PROVE  \E k \in Since(sess[s].from) :
                        Granted(s) = Holds(history[k], sess[s].user, sess[s].inc, sess[s].q)
    BY Zenon DEF DecidedByRights
  <2>0. sess[s] \in Session /\ SessionOK(sess[s]) /\ history \in Seq(Users)
    BY Zenon DEF RightsInv, TypeOK, SessionsOK
  <2>1. PICK k \in 1..Len(history) :
          k >= sess[s].gen /\ sess[s].rights = RightsUnder(history[k], sess[s])
    BY <2>0, Zenon DEF SessionOK, Fits
  <2>2. k \in Since(sess[s].from)
    BY <2>0, <2>1, SMTT(30) DEF Since, SessionOK, Fits, Session, Pcs
  <2>3. Granted(s) = Holds(history[k], sess[s].user, sess[s].inc, sess[s].q)
    <3>1. sess[s].inc # 0
      BY <2>0, Zenon DEF SessionOK, Fits
    <3>2. CASE history[k][sess[s].user].inc = sess[s].inc
      <4>1. sess[s].rights = history[k][sess[s].user] /\ sess[s].rights # Absent
        BY <2>1, <3>1, <3>2, SMTT(30) DEF RightsUnder, Absent
      <4> QED
        BY <3>1, <3>2, <4>1, Zenon DEF Granted, Holds, HasUser
    <3>3. CASE history[k][sess[s].user].inc # sess[s].inc
      BY <2>1, <3>3, Zenon DEF RightsUnder, Granted, Holds, HasUser
    <3> QED
      BY <3>2, <3>3, Zenon
  <2> QED
    BY <2>2, <2>3, Zenon
<1> QED
  BY <1>1, RightsInvariant, PTL

\* A frame is written, and an ACK accepted, only with a right held since the
\* frame was pulled or the ACK was read (Permitted, ReadRightCheck).
THEOREM WatchesServedWithRight == Spec => []WatchWithRight
<1>1. RightsInv => WatchWithRight
  <2> SUFFICES ASSUME RightsInv PROVE WatchWithRight
    BY Zenon
  <2>0. FeedOK /\ feed \in Feed /\ watch \in [Sessions -> WatchRecord] /\ history \in Seq(Users)
    BY Zenon DEF RightsInv, TypeOK
  <2>1. ASSUME NEW s \in Sessions, NEW x \in Nat, HeldSince(s, x)
        PROVE  \E k \in Since(x) : WatchHolds(history[k], s)
    <3>1. PICK k \in 1..Len(history) : k >= x
              /\ Permits(history[k], sess[s].user, sess[s].inc, watch[s].table, watch[s].every)
      BY <2>1, Zenon DEF HeldSince, HeldIn
    <3>2. k \in Since(x)
      BY <2>0, <3>1, SMTT(30) DEF Since
    <3> QED
      BY <3>1, <3>2, Zenon DEF Permits, WatchHolds
  <2>2. feed.from \in Nat
    BY <2>0, Zenon DEF Feed
  <2>3. feed.pc = "accept" => \E k \in Since(feed.from) : WatchHolds(history[k], feed.at)
    BY <2>0, <2>1, <2>2, Zenon DEF FeedOK
  <2>4. ASSUME feed.pc = "write", NEW i \in DOMAIN watch[feed.at].queue
        PROVE  \E k \in Since(watch[feed.at].queue[i]) : WatchHolds(history[k], feed.at)
    <3>1. feed.at \in Sessions /\ HeldSince(feed.at, watch[feed.at].queue[i])
      BY <2>0, <2>4, Zenon DEF FeedOK
    <3>2. watch[feed.at].queue[i] \in Nat
      BY <2>0, <2>4, <3>1, SMTT(30) DEF WatchRecord, Frames
    <3> QED
      BY <2>1, <3>1, <3>2, Zenon
  <2> QED
    BY <2>3, <2>4, Zenon DEF WatchWithRight
<1> QED
  BY <1>1, RightsInvariant, PTL

\* A password set as one's own never lands on a later user of the name
\* (SetOwnVerifier).
THEOREM OwnPasswordsOnly == Spec => []OwnPasswordOnly
<1>1. FileInv => OwnPasswordOnly
  BY Zenon DEF FileInv, UsersOK, OwnPasswordOnly
<1> QED
  BY <1>1, RightsInvariant, PTL

\* Whatever a start finds in chunkdb.users, someone manages users, and the users
\* in memory between changes are among what it may find (RequireUserManager,
\* UpdateIf).
THEOREM UsersFileKept == Spec => [](ManagerRemains /\ MemoryOnDisk)
<1>1. FileInv => ManagerRemains /\ MemoryOnDisk
  BY Zenon DEF FileInv, FileOK, ManagerRemains, MemoryOnDisk
<1> QED
  BY <1>1, RightsInvariant, PTL
=============================================================================
