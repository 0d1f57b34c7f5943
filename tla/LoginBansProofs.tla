--------------------------- MODULE LoginBansProofs ---------------------------
(***************************************************************************)
(* A ban lasts its time, and is for failures of its period, for any         *)
(* connections, sources, names and limits.                                  *)
(*                                                                          *)
(* A failure that is recorded while the source is banned, by a connection   *)
(* that was past the ban check, sets the end of the ban anew, from the time *)
(* it read before it waited for the mutex.  What it takes away is bounded   *)
(* because no ban ends later than one that starts now.  A login takes back  *)
(* failures and not the ban, so a ban is accounted for by all failures of   *)
(* the period (since), of which those of the entry are a part.              *)
(***************************************************************************)
EXTENDS LoginBans, TLAPS

Entry == [there : BOOLEAN, failures : Int, by : [Names -> Nat], until : Nat, last : Nat]
Pcs == {"open", "proof", "failed", "closed", "greeted"}
Deciding == {"proof", "failed"}
Connection == [pc : Pcs, pending : Names \cup {NoOne}, attempts : Nat, at : Nat]

TypeOK ==
  /\ sourceOf \in [Connections -> Sources]
  /\ conn \in [Connections -> Connection]
  /\ \A c \in Connections : conn[c].pc \in Deciding => conn[c].pending \in Names
  /\ \A c \in Connections : conn[c].at <= now
  /\ entries \in [Sources -> Entry]
  /\ now \in Nat
  /\ since \in [Sources -> Nat]

\* The entry e of a source with s failures in its period, at time t.
Due(e, s, t) ==
  /\ e.failures <= s
  /\ e.until <= t + BanTicks
  /\ e.until # 0 => MaxAuthFailuresPerIp <= s

BanInv == TypeOK /\ \A a \in Sources : Due(entries[a], since[a], now)

\* Connections have sources; the ban and the limit are counts.
BanConstants ==
  /\ Topologies \subseteq [Connections -> Sources]
  /\ BanTicks \in Nat /\ MaxAuthFailuresPerIp \in Nat \ {0}

-----------------------------------------------------------------------------
LEMMA UntrackedFacts ==
  /\ Untracked \in Entry /\ Untracked.failures = 0 /\ Untracked.until = 0
  /\ [Untracked EXCEPT !.there = TRUE] \in Entry
  /\ [Untracked EXCEPT !.there = TRUE].failures = 0
  /\ [Untracked EXCEPT !.there = TRUE].until = 0
<1>1. 0 \in Nat /\ 0 \in Int
  BY SMT
<1>2. [n \in Names |-> 0] \in [Names -> Nat]
  BY <1>1, Zenon
<1>3. Untracked \in Entry /\ Untracked.failures = 0 /\ Untracked.until = 0
  BY <1>1, <1>2, Zenon DEF Untracked, Entry
<1> QED
  BY <1>3, Zenon DEF Entry

LEMMA UntrackedDue ==
  ASSUME BanConstants, NEW s \in Nat, NEW t \in Nat
  PROVE  Due(Untracked, s, t)
<1>1. 0 <= s /\ 0 <= t + BanTicks
  BY SMT DEF BanConstants
<1> QED
  BY <1>1, UntrackedFacts, Zenon DEF Due

\* A login takes failures back and leaves the end of the ban.
LEMMA ClearedFacts ==
  ASSUME NEW e \in Entry, NEW n \in Names
  PROVE  /\ Cleared(e, n) \in Entry /\ Cleared(e, n).until = e.until
         /\ Cleared(e, n).failures <= e.failures
<1>1. e.by[n] \in Nat /\ e.by \in [Names -> Nat] /\ e.failures \in Int
  BY Zenon DEF Entry
<1>2. PICK f \in Int : f = e.failures - e.by[n] /\ f <= e.failures
  BY <1>1, SMT
<1>3. PICK b \in [Names -> Nat] : b = [e.by EXCEPT ![n] = 0]
  <2>1. 0 \in Nat
    BY SMT
  <2> QED
    BY <1>1, <2>1, Zenon
<1>4. Cleared(e, n) = [e EXCEPT !.failures = f, !.by = b]
  BY <1>2, <1>3, SMT DEF Cleared, Entry
<1>5. /\ [e EXCEPT !.failures = f, !.by = b] \in Entry
      /\ [e EXCEPT !.failures = f, !.by = b].until = e.until
      /\ [e EXCEPT !.failures = f, !.by = b].failures = f
  BY Zenon DEF Entry
<1> QED
  BY <1>2, <1>4, <1>5, Zenon

\* One more failure bans a source from its own time on, or leaves the end.
LEMMA FailureFacts ==
  ASSUME BanConstants, NEW at \in Nat, NEW e \in Entry, NEW n \in Names
  PROVE  LET w == WithFailure(e, n, at) IN
         /\ w \in Entry /\ w.failures = e.failures + 1
         /\ w.until = IF e.failures + 1 >= MaxAuthFailuresPerIp THEN at + BanTicks ELSE e.until
<1> DEFINE up == IF e.by[n] > 0 \/ Cardinality({m \in Names : e.by[m] > 0}) < MaxNames
                 THEN e.by[n] + 1 ELSE e.by[n]
           end == IF e.failures + 1 >= MaxAuthFailuresPerIp THEN at + BanTicks ELSE e.until
<1>1. e.by[n] \in Nat /\ e.by \in [Names -> Nat] /\ e.failures \in Int /\ e.until \in Nat
  BY Zenon DEF Entry
<1>2. PICK f \in Int : f = e.failures + 1
  BY <1>1, SMT
<1>3. PICK b \in [Names -> Nat] : b = [e.by EXCEPT ![n] = up]
  <2>1. e.by[n] + 1 \in Nat
    BY <1>1, SMT
  <2>2. up \in Nat
    BY <1>1, <2>1, Zenon
  <2> QED
    BY <1>1, <2>2, Zenon
<1>4. PICK u \in Nat : u = end
  <2>1. at + BanTicks \in Nat
    BY SMT DEF BanConstants
  <2> QED
    BY <1>1, <2>1, Zenon
<1> HIDE DEF up, end
<1>5. WithFailure(e, n, at) = [e EXCEPT !.there = TRUE, !.last = at, !.failures = f, !.by = b, !.until = u]
  BY <1>2, <1>3, <1>4, SMT DEF WithFailure, Entry, up, end
<1>6. LET w == [e EXCEPT !.there = TRUE, !.last = at, !.failures = f, !.by = b, !.until = u] IN
      w \in Entry /\ w.failures = f /\ w.until = u
  BY Zenon DEF Entry
<1> QED
  BY <1>2, <1>4, <1>5, <1>6, Zenon DEF end

-----------------------------------------------------------------------------
(* The connections *)

Fits(r) == r \in Connection /\ (r.pc \in Deciding => r.pending \in Names) /\ r.at <= now

\* A connection that is not deciding about a login.
LEMMA PlainFits ==
  ASSUME now \in Nat, NEW r \in Connection, r.pc \notin Deciding, r.at = 0
  PROVE  Fits(r)
<1>1. 0 <= now
  BY SMT
<1> QED
  BY <1>1, Zenon DEF Fits

LEMMA PlainPlaces ==
  ASSUME now \in Nat
  PROVE  /\ Fits(Opened)
         /\ Fits([Opened EXCEPT !.pc = "closed"])
         /\ Fits([Opened EXCEPT !.pc = "greeted"])
         /\ \A n \in Nat : Fits([Opened EXCEPT !.attempts = n])
<1>1. 0 \in Nat
  BY SMT
<1>2. /\ {"open", "closed", "greeted"} \subseteq Pcs
      /\ "open" \notin Deciding /\ "closed" \notin Deciding /\ "greeted" \notin Deciding
  BY Zenon DEF Pcs, Deciding
<1>3. Opened \in Connection /\ Opened.pc = "open" /\ Opened.at = 0
  BY <1>1, <1>2, Zenon DEF Opened, Connection
<1>4. ASSUME NEW p \in {"closed", "greeted"}
      PROVE  Fits([Opened EXCEPT !.pc = p])
  <2>1. p \in Pcs /\ p \notin Deciding
    BY <1>2, Zenon
  <2>2. LET r == [Opened EXCEPT !.pc = p] IN r \in Connection /\ r.pc = p /\ r.at = 0
    BY <1>3, <2>1, Zenon DEF Connection
  <2> QED
    BY <2>1, <2>2, PlainFits, Zenon
<1>5. ASSUME NEW n \in Nat
      PROVE  Fits([Opened EXCEPT !.attempts = n])
  <2>1. LET r == [Opened EXCEPT !.attempts = n] IN
        r \in Connection /\ r.pc = "open" /\ r.at = 0
    BY <1>3, Zenon DEF Connection
  <2> QED
    BY <1>2, <2>1, PlainFits, Zenon
<1>6. Fits(Opened)
  BY <1>2, <1>3, PlainFits, Zenon
<1> QED
  BY <1>4, <1>5, <1>6, Zenon

LEMMA CountedFits ==
  ASSUME TypeOK, NEW c \in Connections
  PROVE  Fits(Counted(c))
<1>1. now \in Nat /\ conn[c].attempts \in Nat
  BY Zenon DEF TypeOK, Connection
<1>2. conn[c].attempts + 1 \in Nat
  BY <1>1, SMT
<1> QED
  BY <1>1, <1>2, PlainPlaces, Zenon DEF Counted

LEMMA PendingFits ==
  ASSUME NEW r \in Connection, r.at <= now, r.pc \notin Deciding, NEW n \in Names \cup {NoOne}
  PROVE  Fits([r EXCEPT !.pending = n])
<1>1. LET q == [r EXCEPT !.pending = n] IN q \in Connection /\ q.pc = r.pc /\ q.at = r.at
  BY Zenon DEF Connection
<1> QED
  BY <1>1, Zenon DEF Fits

LEMMA ConnectionMoves ==
  ASSUME TypeOK, NEW c \in Connections, NEW r, Fits(r), conn' = [conn EXCEPT ![c] = r]
  PROVE  /\ conn' \in [Connections -> Connection]
         /\ \A d \in Connections : conn'[d].pc \in Deciding => conn'[d].pending \in Names
         /\ \A d \in Connections : conn'[d].at <= now
<1>1. conn' \in [Connections -> Connection]
  BY Zenon DEF TypeOK, Fits
<1>2. ASSUME NEW d \in Connections
      PROVE  conn'[d] = conn[d] \/ conn'[d] = r
  BY Zenon DEF TypeOK
<1> QED
  BY <1>1, <1>2, Zenon DEF TypeOK, Fits

Good == BanInv' /\ \A a \in Sources : BanKept(a)

LEMMA SameEnd ==
  ASSUME TypeOK, NEW a \in Sources, entries'[a].until = entries[a].until
  PROVE  BanKept(a)
<1>1. entries[a].until \in Nat
  BY Zenon DEF TypeOK, Entry
<1>2. entries[a].until >= entries[a].until
  BY <1>1, SMT
<1> QED
  BY <1>2, Zenon DEF BanKept

\* A line of a connection that no entry is changed for.
LEMMA LineHolds ==
  ASSUME BanInv, NEW c \in Connections, NEW r, Fits(r), conn' = [conn EXCEPT ![c] = r],
         UNCHANGED <<sourceOf, entries, now, since>>
  PROVE  Good
<1>1. TypeOK'
  BY ConnectionMoves, Zenon DEF BanInv, TypeOK
<1>2. \A a \in Sources : Due(entries[a], since[a], now)'
  BY Zenon DEF BanInv, Due
<1>3. \A a \in Sources : BanKept(a)
  BY SameEnd, Zenon DEF BanInv
<1> QED
  BY <1>1, <1>2, <1>3, Zenon DEF Good, BanInv

LEMMA LinesHold ==
  ASSUME BanInv, NEW c \in Connections,
         \/ \E n \in Names : HandleHello(c, n)
         \/ HelloFails(c) \/ NotGreeted(c) \/ RejectPayload(c) \/ HandleAuth(c)
         \/ AuthFails(c) \/ Reconnect(c)
  PROVE  Good
<1>1. UNCHANGED <<sourceOf, entries, now, since>>
  BY Zenon DEF HandleHello, HelloFails, NotGreeted, RejectPayload, HandleAuth, AuthFails,
               Reconnect, Says
<1>2. /\ TypeOK /\ now \in Nat /\ conn[c] \in Connection /\ conn[c].at <= now
      /\ conn[c].pc \in Deciding => conn[c].pending \in Names
  BY Zenon DEF BanInv, TypeOK
<1>3. Fits(Counted(c)) /\ Fits(Opened) /\ Fits(Closed(c))
  BY <1>2, CountedFits, PlainPlaces, Zenon DEF Closed
<1>4. ASSUME Says(c), NEW n \in Names \cup {NoOne}
      PROVE  Fits([conn[c] EXCEPT !.pending = n])
  <2>1. conn[c].pc \notin Deciding
    BY <1>4, Zenon DEF Says, Deciding
  <2> QED
    BY <1>2, <2>1, PendingFits, Zenon
<1>5. ASSUME NEW n \in Names, HandleHello(c, n)
      PROVE  \E r : Fits(r) /\ conn' = [conn EXCEPT ![c] = r]
  <2>1. Fits([conn[c] EXCEPT !.pending = n])
    BY <1>4, <1>5, Zenon DEF HandleHello
  <2>2. \/ conn' = [conn EXCEPT ![c] = Closed(c)]
        \/ conn' = [conn EXCEPT ![c] = [conn[c] EXCEPT !.pending = n]]
    BY <1>5, Zenon DEF HandleHello
  <2> QED
    BY <1>3, <2>1, <2>2, Zenon
<1>6. ASSUME HelloFails(c)
      PROVE  \E r : Fits(r) /\ conn' = [conn EXCEPT ![c] = r]
  <2>1. Fits([conn[c] EXCEPT !.pending = NoOne])
    BY <1>4, <1>6, Zenon DEF HelloFails
  <2>2. \/ conn' = [conn EXCEPT ![c] = Counted(c)]
        \/ conn' = [conn EXCEPT ![c] = [conn[c] EXCEPT !.pending = NoOne]]
    BY <1>6, Zenon DEF HelloFails
  <2> QED
    BY <1>3, <2>1, <2>2, Zenon
<1>7. ASSUME HandleAuth(c)
      PROVE  \E r : Fits(r) /\ conn' = [conn EXCEPT ![c] = r]
  <2>1. PICK r \in Connection : r = conn[c] /\ r.pending \in Names
    BY <1>2, <1>7, Zenon DEF HandleAuth, Connection
  <2>2. Fits([r EXCEPT !.pc = "proof"])
    <3>1. "proof" \in Pcs
      BY Zenon DEF Pcs
    <3>2. LET q == [r EXCEPT !.pc = "proof"] IN
          q \in Connection /\ q.pending = r.pending /\ q.at = r.at
      BY <3>1, Zenon DEF Connection
    <3> QED
      BY <1>2, <2>1, <3>2, Zenon DEF Fits
  <2>3. \/ conn' = [conn EXCEPT ![c] = Closed(c)] \/ conn' = [conn EXCEPT ![c] = Counted(c)]
        \/ conn' = [conn EXCEPT ![c] = [r EXCEPT !.pc = "proof"]]
    BY <1>7, <2>1, Zenon DEF HandleAuth
  <2> QED
    BY <1>3, <2>2, <2>3, Zenon
<1>8. ASSUME AuthFails(c)
      PROVE  \E r : Fits(r) /\ conn' = [conn EXCEPT ![c] = r]
  <2>1. PICK r \in Connection : r = conn[c] /\ r.pending \in Names
    BY <1>2, <1>8, Zenon DEF AuthFails, Deciding
  <2>2. conn' = [conn EXCEPT ![c] = [r EXCEPT !.pc = "failed", !.at = now]]
    BY <1>8, <2>1, Zenon DEF AuthFails
  <2>3. LET q == [r EXCEPT !.pc = "failed", !.at = now] IN
        q \in Connection /\ q.pending = r.pending /\ q.at = now
    <3>1. "failed" \in Pcs
      BY Zenon DEF Pcs
    <3> QED
      BY <1>2, <3>1, Zenon DEF Connection
  <2>4. now <= now
    BY <1>2, SMT
  <2>5. Fits([r EXCEPT !.pc = "failed", !.at = now])
    BY <2>1, <2>3, <2>4, Zenon DEF Fits
  <2> QED
    BY <2>2, <2>5, Zenon
<1>9. \E r : Fits(r) /\ conn' = [conn EXCEPT ![c] = r]
  BY <1>3, <1>5, <1>6, <1>7, <1>8, Zenon DEF NotGreeted, RejectPayload, Reconnect
<1> QED
  BY <1>1, <1>9, LineHolds, Zenon

-----------------------------------------------------------------------------
(* The entries *)

LEMMA TickHolds ==
  ASSUME BanConstants, BanInv, Tick
  PROVE  Good
<1>1. now \in Nat /\ now' = now + 1 /\ UNCHANGED <<sourceOf, conn, entries, since>>
  BY Zenon DEF BanInv, TypeOK, Tick
<1>2. now' \in Nat
  BY <1>1, SMT
<1>3. TypeOK'
  <2>1. ASSUME NEW c \in Connections
        PROVE  conn'[c].at <= now'
    <3>1. conn[c].at \in Nat /\ conn[c].at <= now
      BY Zenon DEF BanInv, TypeOK, Connection
    <3>2. conn[c].at <= now'
      BY <1>1, <3>1, SMT
    <3> QED
      BY <1>1, <3>2, Zenon
  <2> QED
    BY <1>1, <1>2, <2>1, Zenon DEF BanInv, TypeOK
<1>4. ASSUME NEW a \in Sources
      PROVE  Due(entries[a], since[a], now)' /\ BanKept(a)
  <2>1. PICK u \in Nat : u = entries[a].until /\ u <= now + BanTicks
    BY Zenon DEF BanInv, TypeOK, Entry, Due
  <2>2. Due(entries[a], since[a], now)'
    <3>1. u <= now' + BanTicks
      BY <1>1, <2>1, SMT DEF BanConstants
    <3>2. Due(entries[a], since[a], now)
      BY Zenon DEF BanInv
    <3> QED
      BY <1>1, <2>1, <3>1, <3>2, Zenon DEF Due
  <2>3. BanKept(a)
    BY <1>1, SameEnd, Zenon DEF BanInv
  <2> QED
    BY <2>2, <2>3, Zenon
<1> QED
  BY <1>3, <1>4, Zenon DEF Good, BanInv

LEMMA SuccessHolds ==
  ASSUME BanConstants, BanInv, NEW c \in Connections, RecordAuthSuccess(c)
  PROVE  Good
<1>1. TypeOK /\ now \in Nat /\ now' = now /\ sourceOf' = sourceOf
  BY Zenon DEF BanInv, TypeOK, RecordAuthSuccess
<1>2. PICK a \in Sources, n \in Names : a = sourceOf[c] /\ n = conn[c].pending
  BY <1>1, Zenon DEF TypeOK, RecordAuthSuccess, Deciding
<1>3. PICK e \in Entry : e = Cleared(entries[a], n) /\ e.until = entries[a].until
                         /\ e.failures <= entries[a].failures
  BY <1>1, <1>2, ClearedFacts, Zenon DEF TypeOK
<1>4. \/ UNCHANGED <<entries, since>>
      \/ entries' = [entries EXCEPT ![a] = e] /\ UNCHANGED since
      \/ /\ entries' = [entries EXCEPT ![a] = Untracked] /\ since' = [since EXCEPT ![a] = 0]
         /\ e.until <= now
  BY <1>2, <1>3, Zenon DEF RecordAuthSuccess
<1>5. TypeOK'
  <2>1. 0 \in Nat
    BY SMT
  <2>2. Fits([Opened EXCEPT !.pc = "greeted"])
    BY <1>1, PlainPlaces, Zenon
  <2>3. conn' = [conn EXCEPT ![c] = [Opened EXCEPT !.pc = "greeted"]]
    BY Zenon DEF RecordAuthSuccess
  <2>4. entries' \in [Sources -> Entry] /\ since' \in [Sources -> Nat]
    <3>1. entries \in [Sources -> Entry] /\ since \in [Sources -> Nat]
      BY <1>1, Zenon DEF TypeOK
    <3>2. [entries EXCEPT ![a] = e] \in [Sources -> Entry]
      BY <3>1, Zenon
    <3>3. /\ [entries EXCEPT ![a] = Untracked] \in [Sources -> Entry]
          /\ [since EXCEPT ![a] = 0] \in [Sources -> Nat]
      BY <2>1, <3>1, UntrackedFacts, Zenon
    <3> QED
      BY <1>4, <3>1, <3>2, <3>3, Zenon
  <2> QED
    BY <1>1, <2>2, <2>3, <2>4, ConnectionMoves, Zenon DEF TypeOK
<1>6. ASSUME NEW b \in Sources
      PROVE  Due(entries[b], since[b], now)' /\ BanKept(b)
  <2>1. \/ entries'[b] = entries[b] /\ since'[b] = since[b]
        \/ b = a /\ entries'[b] = e /\ since'[b] = since[b]
        \/ b = a /\ entries'[b] = Untracked /\ since'[b] = 0 /\ e.until <= now
    BY <1>1, <1>4, Zenon DEF TypeOK
  <2>2. Due(entries[b], since[b], now) /\ entries[b] \in Entry /\ since[b] \in Nat
    BY Zenon DEF BanInv, TypeOK
  <2>3. CASE entries'[b] = entries[b] /\ since'[b] = since[b]
    BY <1>1, <2>2, <2>3, SameEnd, Zenon DEF Due
  <2>4. CASE b = a /\ entries'[b] = e /\ since'[b] = since[b]
    <3>1. e.failures <= since[b]
      <4>1. /\ e.failures \in Int /\ entries[b].failures \in Int /\ since[b] \in Int
            /\ e.failures <= entries[b].failures /\ entries[b].failures <= since[b]
        <5>1. since[b] \in Int
          BY <2>2, SMT
        <5> QED
          BY <1>3, <2>2, <2>4, <5>1, Zenon DEF Due, Entry
      <4> QED
        BY <4>1, SMT
    <3>2. Due(e, since[b], now)
      BY <1>3, <2>2, <2>4, <3>1, Zenon DEF Due
    <3> QED
      BY <1>1, <1>3, <2>4, <3>2, SameEnd, Zenon DEF Due
  <2>5. CASE b = a /\ entries'[b] = Untracked /\ since'[b] = 0 /\ e.until <= now
    <3>1. 0 \in Nat
      BY SMT
    <3>2. Due(Untracked, 0, now)
      BY <1>1, <3>1, UntrackedDue, Zenon
    <3>3. ~Banned(b)
      <4>1. entries[b].until <= now /\ entries[b].until \in Nat
        BY <1>3, <2>2, <2>5, Zenon DEF Entry
      <4>2. ~(entries[b].until > now)
        BY <1>1, <4>1, SMT
      <4> QED
        BY <4>2, Zenon DEF Banned
    <3> QED
      BY <1>1, <2>5, <3>2, <3>3, Zenon DEF Due, BanKept
  <2> QED
    BY <2>1, <2>3, <2>4, <2>5, Zenon
<1> QED
  BY <1>5, <1>6, Zenon DEF Good, BanInv

\* The failure of a source that starts a period or goes on with one, recorded
\* now with an earlier time.
LEMMA OneMoreFailure ==
  ASSUME BanConstants, now \in Nat, NEW at \in Nat, at <= now,
         NEW e \in Entry, NEW s \in Nat, NEW n \in Names, Due(e, s, now)
  PROVE  /\ WithFailure(e, n, at) \in Entry
         /\ Due(WithFailure(e, n, at), 1 + s, now)
         /\ e.until - WithFailure(e, n, at).until <= now - at
<1>1. PICK w \in Entry :
        /\ w = WithFailure(e, n, at) /\ w.failures = e.failures + 1
        /\ w.until = IF e.failures + 1 >= MaxAuthFailuresPerIp THEN at + BanTicks ELSE e.until
  BY FailureFacts, Zenon
<1>2. PICK f \in Int, u \in Nat, x \in Nat : f = e.failures /\ u = e.until /\ x = w.until
  BY Zenon DEF Entry
<1>3. /\ f <= s /\ u <= now + BanTicks /\ (u # 0 => MaxAuthFailuresPerIp <= s)
      /\ x = IF f + 1 >= MaxAuthFailuresPerIp THEN at + BanTicks ELSE u
  BY <1>1, <1>2, Zenon DEF Due
<1>4. /\ f + 1 <= 1 + s /\ x <= now + BanTicks /\ (x # 0 => MaxAuthFailuresPerIp <= 1 + s)
      /\ u - x <= now - at
  BY <1>3, SMT DEF BanConstants
<1> QED
  BY <1>1, <1>2, <1>4, Zenon DEF Due

\* An entry goes only when its ban has ended, or all looked banned.
LEMMA EvictedNotBanned ==
  ASSUME now \in Nat, NEW at \in Nat, at <= now, entries \in [Sources -> Entry],
         NEW a, NEW gone \in Evicted(a, at), NEW b \in gone
  PROVE  ~Banned(b) \/ \A d \in Tracked : entries[d].until > at
<1>1. b \in Victims(at)
  BY Zenon DEF Evicted
<1> DEFINE free == {d \in Tracked : ~(entries[d].until > at)}
<1>2. CASE free # {}
  <2>1. b \in Sources /\ ~(entries[b].until > at)
    BY <1>1, <1>2, Zenon DEF Victims, Oldest, Tracked
  <2>2. entries[b].until \in Nat
    BY <2>1, Zenon DEF Entry
  <2>3. ~(entries[b].until > now)
    BY <2>1, <2>2, SMT
  <2> QED
    BY <2>3, Zenon DEF Banned
<1>3. CASE free = {}
  BY <1>3, Zenon
<1> QED
  BY <1>2, <1>3, Zenon

LEMMA FailureHolds ==
  ASSUME BanConstants, BanInv, NEW c \in Connections, RecordAuthFailure(c)
  PROVE  Good
<1>1. /\ TypeOK /\ now \in Nat /\ now' = now /\ sourceOf' = sourceOf
      /\ entries \in [Sources -> Entry] /\ since \in [Sources -> Nat]
      /\ \A b \in Sources : Due(entries[b], since[b], now)
  BY Zenon DEF BanInv, TypeOK, RecordAuthFailure
<1> DEFINE a == sourceOf[c]
           n == conn[c].pending
           at == conn[c].at
<1>2. a \in Sources /\ n \in Names /\ at \in Nat /\ at <= now
  BY <1>1, Zenon DEF TypeOK, RecordAuthFailure, Deciding, Connection
<1> DEFINE fresh == Ended(entries[a], at)
<1>3. PICK gone \in Evicted(a, at) :
        /\ entries' = [b \in Sources |->
                         IF b = a THEN WithFailure(NewPeriod(entries[a], at), n, at)
                         ELSE IF b \in gone THEN Untracked ELSE entries[b]]
        /\ since' = [b \in Sources |->
                         IF b = a THEN 1 + (IF fresh THEN 0 ELSE since[a])
                         ELSE IF b \in gone THEN 0 ELSE since[b]]
  BY Zenon DEF RecordAuthFailure
<1>4. Records(c)
  <2>1. Counted(c).pc # "failed"
    <3>1. "open" # "failed" /\ "closed" # "failed"
      BY Zenon
    <3>2. Counted(c).pc \in {"open", "closed"}
      BY SMT DEF Counted, Opened
    <3> QED
      BY <3>1, <3>2, Zenon
  <2>2. conn'[c] = Counted(c)
    BY <1>1, Zenon DEF RecordAuthFailure, TypeOK
  <2> QED
    BY <2>1, <2>2, Zenon DEF Records, RecordAuthFailure
<1>5. \A b \in Sources : b = a => b = sourceOf[c]
  BY Zenon
<1>6. at = conn[c].at
  BY Zenon
<1> HIDE DEF a, n, at
<1>7. PICK e \in Entry, s \in Nat :
        /\ e = NewPeriod(entries[a], at) /\ s = (IF fresh THEN 0 ELSE since[a])
        /\ Due(e, s, now) /\ (entries[a].until > now => e.until = entries[a].until)
  <2>1. CASE fresh
    <3>1. PICK e \in Entry : /\ e = [Untracked EXCEPT !.there = TRUE]
                             /\ e.failures = 0 /\ e.until = 0
      BY UntrackedFacts, Zenon
    <3>2. 0 \in Nat
      BY SMT
    <3>3. Due(e, 0, now)
      <4>1. Due(Untracked, 0, now) /\ Untracked.failures = 0 /\ Untracked.until = 0
        BY <1>1, <3>2, UntrackedDue, UntrackedFacts, Zenon
      <4> QED
        BY <3>1, <4>1, Zenon DEF Due
    <3>4. ~(entries[a].until > now)
      <4>1. entries[a].until \in Nat /\ entries[a].until <= at
        BY <1>1, <1>2, <2>1, Zenon DEF Entry, Ended
      <4> QED
        BY <1>1, <1>2, <4>1, SMT
    <3> QED
      BY <2>1, <3>1, <3>2, <3>3, <3>4, Zenon DEF NewPeriod
  <2>2. CASE ~fresh
    BY <1>1, <1>2, <2>2, Zenon DEF NewPeriod
  <2> QED
    BY <2>1, <2>2, Zenon
<1> HIDE DEF fresh
<1>8. PICK w \in Entry :
        /\ w = WithFailure(e, n, at) /\ Due(w, 1 + s, now)
        /\ e.until - w.until <= now - at
  BY <1>1, <1>2, <1>7, OneMoreFailure, Zenon
<1>9. 1 + s \in Nat /\ 0 \in Nat
  BY SMT
<1>10. ASSUME NEW b \in Sources
       PROVE  \/ b = a /\ entries'[b] = w /\ since'[b] = 1 + s
              \/ b \in gone /\ entries'[b] = Untracked /\ since'[b] = 0
              \/ entries'[b] = entries[b] /\ since'[b] = since[b]
  BY <1>3, <1>7, <1>8, Zenon
<1>11. TypeOK'
  <2>1. \A b \in Sources : entries'[b] \in Entry /\ since'[b] \in Nat
    BY <1>1, <1>9, <1>10, UntrackedFacts, Zenon
  <2>2. entries' \in [Sources -> Entry]
    <3>1. entries' = [b \in Sources |-> entries'[b]]
      BY <1>3, Zenon
    <3> QED
      BY <2>1, <3>1, Zenon
  <2>3. since' \in [Sources -> Nat]
    <3>1. since' = [b \in Sources |-> since'[b]]
      BY <1>3, Zenon
    <3> QED
      BY <2>1, <3>1, Zenon
  <2>4. Fits(Counted(c)) /\ conn' = [conn EXCEPT ![c] = Counted(c)]
    BY <1>1, CountedFits, Zenon DEF RecordAuthFailure
  <2> QED
    BY <1>1, <2>2, <2>3, <2>4, ConnectionMoves, Zenon DEF TypeOK
<1>12. ASSUME NEW b \in Sources
       PROVE  Due(entries[b], since[b], now)' /\ BanKept(b)
  <2>1. CASE b = a /\ entries'[b] = w /\ since'[b] = 1 + s
    <3>1. Due(entries'[b], since'[b], now')
      BY <1>1, <1>8, <2>1, Zenon
    <3>2. entries[b].until > now => entries[b].until - entries'[b].until <= now - at
      BY <1>7, <1>8, <2>1, Zenon
    <3>3. BanKept(b)
      BY <1>4, <1>5, <1>6, <2>1, <3>2, Zenon DEF BanKept, Banned
    <3> QED
      BY <3>1, <3>3, Zenon DEF Due
  <2>2. CASE b \in gone /\ entries'[b] = Untracked /\ since'[b] = 0
    <3>1. Due(entries'[b], since'[b], now')
      BY <1>1, <1>9, <2>2, UntrackedDue, Zenon
    <3>2. ~Banned(b) \/ \A d \in Tracked : entries[d].until > at
      BY <1>1, <1>2, <2>2, EvictedNotBanned, Zenon
    <3>3. BanKept(b)
      BY <1>4, <1>6, <3>2, Zenon DEF BanKept
    <3> QED
      BY <3>1, <3>3, Zenon DEF Due
  <2>3. CASE entries'[b] = entries[b] /\ since'[b] = since[b]
    BY <1>1, <2>3, SameEnd, Zenon DEF Due
  <2> QED
    BY <1>10, <2>1, <2>2, <2>3, Zenon
<1> QED
  BY <1>11, <1>12, Zenon DEF Good, BanInv

-----------------------------------------------------------------------------
LEMMA InitHolds ==
  ASSUME BanConstants, Init
  PROVE  BanInv
<1>1. 0 \in Nat /\ 1 \in Nat
  BY SMT
<1>2. TypeOK
  <2>1. sourceOf \in [Connections -> Sources] /\ now \in Nat
    BY <1>1, Zenon DEF Init, BanConstants
  <2>2. conn \in [Connections -> Connection] /\ \A c \in Connections : conn[c] = Opened
    BY <2>1, PlainPlaces, Zenon DEF Init, Fits
  <2>3. entries \in [Sources -> Entry] /\ since \in [Sources -> Nat]
    BY <1>1, UntrackedFacts, Zenon DEF Init
  <2> QED
    BY <2>1, <2>2, <2>3, PlainPlaces, Zenon DEF TypeOK, Fits
<1>3. ASSUME NEW a \in Sources
      PROVE  Due(entries[a], since[a], now)
  <2>1. entries[a] = Untracked /\ since[a] = 0 /\ now = 1
    BY Zenon DEF Init
  <2> QED
    BY <1>1, <2>1, UntrackedDue, Zenon
<1> QED
  BY <1>2, <1>3, Zenon DEF BanInv

LEMMA NextHolds ==
  ASSUME BanConstants, BanInv, Next
  PROVE  Good
  BY LinesHold, SuccessHolds, FailureHolds, TickHolds, Zenon DEF Next

LEMMA StutterHolds ==
  ASSUME BanInv, UNCHANGED vars
  PROVE  BanInv'
<1>1. TypeOK'
  BY Zenon DEF BanInv, TypeOK, vars
<1>2. ASSUME NEW a \in Sources
      PROVE  Due(entries[a], since[a], now)'
  BY Zenon DEF BanInv, Due, vars
<1> QED
  BY <1>1, <1>2, Zenon DEF BanInv

\* The entries, the periods and the ends of bans are in order in every state.
THEOREM BanInvariant ==
  ASSUME BanConstants
  PROVE  Spec => []BanInv
<1>1. Init => BanInv
  BY InitHolds, Zenon
<1>2. BanInv /\ [Next]_vars => BanInv'
  BY NextHolds, StutterHolds, Zenon DEF Good
<1> QED
  BY <1>1, <1>2, PTL DEF Spec

\* However connections of however many sources race, a ban keeps its end:
\* neither a login (RecordAuthSuccess) nor a line of a connection nor the
\* failure of another source brings it forward, unless every tracked source
\* was banned at the time of that failure; a failure of the banned source
\* itself, which RecordAuthFailure records with the time read before it took
\* the mutex, brings it forward by no more than it waited.
THEOREM BansLast ==
  ASSUME BanConstants
  PROVE  Spec => BanHolds
<1>1. BanInv /\ [Next]_vars => [\A a \in Sources : BanKept(a)]_vars
  BY NextHolds, Zenon DEF Good
<1> QED
  BY <1>1, BanInvariant, PTL DEF Spec, BanHolds

\* A source is banned only for max_auth_failures_per_ip failures of the period
\* the ban is in: neither the ends of bans nor logins in between carry failures
\* over (RecordAuthFailure, RecordAuthSuccess).
THEOREM BansForCause ==
  ASSUME BanConstants
  PROVE  Spec => []BannedForCause
<1>1. BanInv => BannedForCause
  <2>1. SUFFICES ASSUME BanInv, NEW a \in Sources, Banned(a)
                 PROVE  since[a] >= MaxAuthFailuresPerIp
    BY Zenon DEF BannedForCause
  <2>2. /\ entries[a].until \in Nat /\ now \in Nat /\ since[a] \in Nat
        /\ entries[a].until > now
        /\ entries[a].until # 0 => MaxAuthFailuresPerIp <= since[a]
    BY <2>1, Zenon DEF BanInv, TypeOK, Entry, Due, Banned
  <2> QED
    BY <2>2, SMT DEF BanConstants
<1> QED
  BY <1>1, BanInvariant, PTL
=============================================================================
