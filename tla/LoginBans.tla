------------------------------ MODULE LoginBans ------------------------------
(***************************************************************************)
(* Failed logins and temporary bans (engine.cpp).  Every connection counts *)
(* its own failures and is closed at max_auth_failures; per source address *)
(* the failures are counted in a bounded table, by user name too, and the  *)
(* address is banned for a time at max_auth_failures_per_ip.  The ban is   *)
(* asked at HELLO and at AUTH, apart from the recording of the outcome, so *)
(* connections of one source race.  The clock is read before the table's   *)
(* mutex is taken, so a failure may be recorded long after its time.       *)
(*                                                                         *)
(* Time is a counter of ticks.  A login is right or wrong; the SCRAM       *)
(* messages (scram.cpp) are abstracted to that.                            *)
(***************************************************************************)
EXTENDS Naturals, FiniteSets, FiniteSetsExt, Functions

CONSTANTS Connections,
          Sources,
          Topologies,   \* the ways connections have their address keys
          Names,        \* user names
          MaxAuthFailures,      \* max_auth_failures of one connection
          MaxAuthFailuresPerIp, \* max_auth_failures_per_ip
          BanTicks,     \* auth_failure_ban_ms
          MaxTracked,   \* kMaxTrackedAuthFailureSources
          MaxNames,     \* kMaxTrackedAuthFailureNamesPerSource
          MaxTries,     \* bound: HELLO and AUTH lines
          MaxTick       \* bound: ticks

VARIABLES sourceOf, \* the address key of each connection
          conn,     \* SessionState of each connection, as far as logins go
          entries,  \* auth_failures_by_ip_, an Untracked entry being absent
          now,      \* steady_clock
          tries,    \* lines sent so far
          guesses,  \* ghost: wrong proofs per source and name since a login of
                    \* that name, the start of a period or an eviction
          since,    \* ghost: failures of a source in its current period
          late      \* ghost: those of them recorded after the end of a ban
                    \* that was in force at their time

vars == <<sourceOf, conn, entries, now, tries, guesses, since, late>>

NoOne == "no one"
Untracked == [there |-> FALSE, failures |-> 0, by |-> [n \in Names |-> 0],
              until |-> 0, last |-> 0]
NoGuesses == [n \in Names |-> 0]
Opened == [pc |-> "open", pending |-> NoOne, attempts |-> 0, at |-> 0]
SumOf(f) == FoldFunction(+, 0, f)

Init ==
    /\ sourceOf \in Topologies
    /\ conn = [c \in Connections |-> Opened]
    /\ entries = [a \in Sources |-> Untracked]
    /\ now = 1
    /\ tries = 0
    /\ guesses = [a \in Sources |-> NoGuesses]
    /\ since = [a \in Sources |-> 0]
    /\ late = [a \in Sources |-> 0]

(* Mutant: nobody asks about the ban. *)
NeverAsked(a) == {FALSE}

\* Whether a is banned at the time that was read before the table was.
AuthBanReply(a) == {entries[a].until > at : at \in 1..now}

\* A failed line of a connection that is not greeted.
Counted(c) ==
    IF conn[c].attempts + 1 >= MaxAuthFailures
    THEN [Opened EXCEPT !.pc = "closed"]
    ELSE [Opened EXCEPT !.attempts = conn[c].attempts + 1]

Closed(c) == [Opened EXCEPT !.pc = "closed"]

Says(c) ==
    /\ conn[c].pc = "open"
    /\ tries < MaxTries
    /\ tries' = tries + 1
    /\ UNCHANGED <<sourceOf, entries, now, guesses, since, late>>

\* HELLO 3 USER n: a banned source is refused and closed.
HandleHello(c, n) ==
    /\ Says(c)
    /\ \E banned \in AuthBanReply(sourceOf[c]) :
          conn' = [conn EXCEPT ![c] = IF banned THEN Closed(c)
                                      ELSE [@ EXCEPT !.pending = n]]

\* A HELLO that names no user or does not parse counts; one with a bad option
\* does not.  Either ends the pending login.
HelloFails(c) ==
    /\ Says(c)
    /\ conn' \in {[conn EXCEPT ![c] = Counted(c)],
                  [conn EXCEPT ![c].pending = NoOne]}

\* Another command, another protocol's version, or AUTH without a HELLO.
NotGreeted(c) ==
    /\ Says(c)
    /\ conn' = [conn EXCEPT ![c] = Closed(c)]

\* RejectPayload: a parameter frame of HELLO or AUTH that was not taken.
RejectPayload(c) ==
    /\ Says(c)
    /\ conn' = [conn EXCEPT ![c] = Counted(c)]

\* HandleAuth takes the pending login and asks about the ban again.
HandleAuth(c) ==
    /\ conn[c].pending # NoOne
    /\ Says(c)
    /\ \E banned \in AuthBanReply(sourceOf[c]) :
          conn' \in {[conn EXCEPT ![c] = IF banned THEN Closed(c)
                                         ELSE [@ EXCEPT !.pc = "proof"]],
                     [conn EXCEPT ![c] = Counted(c)]}

\* Only the failures under the name that logged in are taken back.
Cleared(e, n) == [e EXCEPT !.failures = @ - e.by[n], !.by[n] = 0]

\* An address without failures is forgotten unless it is banned.
RecordAuthSuccess(c) ==
    /\ conn[c].pc = "proof"
    /\ LET a == sourceOf[c]
           n == conn[c].pending
           e == Cleared(entries[a], n)
           forgotten == e.failures = 0 /\ e.until <= now
       IN  /\ entries' = IF entries[a].by[n] = 0 THEN entries
                         ELSE [entries EXCEPT ![a] = IF forgotten THEN Untracked ELSE e]
           /\ since' = IF entries[a].by[n] # 0 /\ forgotten
                         THEN [since EXCEPT ![a] = 0] ELSE since
           /\ late' = IF entries[a].by[n] # 0 /\ forgotten
                        THEN [late EXCEPT ![a] = 0] ELSE late
           /\ guesses' = [guesses EXCEPT ![a][n] = 0]
    /\ conn' = [conn EXCEPT ![c] = [Opened EXCEPT !.pc = "greeted"]]
    /\ UNCHANGED <<sourceOf, now, tries>>

Tracked == {a \in Sources : entries[a].there}
Oldest(A) == {a \in A : \A b \in A : entries[a].last <= entries[b].last}

(* Mutant: the entry updated longest ago goes, banned or not. *)
EvictsOldest(at) == Oldest(Tracked)

\* The least recently updated entry that is not banned, or if all are banned
\* the least recently updated one.
Victims(at) ==
    LET free == {a \in Tracked : ~(entries[a].until > at)}
    IN  Oldest(IF free # {} THEN free ELSE Tracked)

\* The entry of address a is found or made, in a table of MaxTracked.
Evicted(a, at) ==
    IF entries[a].there \/ Cardinality(Tracked) < MaxTracked
    THEN {{}} ELSE {{v} : v \in Victims(at)}

\* An ended ban starts a new period.
Ended(e, at) == e.until # 0 /\ e.until <= at
NewPeriod(e, at) == IF Ended(e, at) THEN [Untracked EXCEPT !.there = TRUE] ELSE e

\* One more failure; a name beyond the bound is counted but never cleared.
WithFailure(e, n, at) ==
    [e EXCEPT !.there = TRUE, !.last = at, !.failures = @ + 1,
              !.by[n] = IF @ > 0 \/ Cardinality({m \in Names : e.by[m] > 0}) < MaxNames
                        THEN @ + 1 ELSE @,
              !.until = IF e.failures + 1 >= MaxAuthFailuresPerIp THEN at + BanTicks ELSE @]

\* A wrong proof: RecordAuthFailure reads the clock and counts the attempt,
AuthFails(c) ==
    /\ conn[c].pc = "proof"
    /\ conn' = [conn EXCEPT ![c] = [@ EXCEPT !.pc = "failed", !.at = now]]
    /\ UNCHANGED <<sourceOf, entries, now, tries, guesses, since, late>>

\* and takes the mutex of the table, with that time in hand.
RecordAuthFailure(c) ==
    /\ conn[c].pc = "failed"
    /\ LET a == sourceOf[c]
           n == conn[c].pending
           at == conn[c].at
           fresh == Ended(entries[a], at)
           start == IF fresh THEN NoGuesses ELSE guesses[a]
       IN  \E gone \in Evicted(a, at) :
           /\ entries' = [b \in Sources |->
                            IF b = a THEN WithFailure(NewPeriod(entries[a], at), n, at)
                            ELSE IF b \in gone THEN Untracked ELSE entries[b]]
           /\ guesses' = [b \in Sources |->
                            IF b = a THEN [start EXCEPT ![n] = @ + 1]
                            ELSE IF b \in gone THEN NoGuesses ELSE guesses[b]]
           /\ since' = [b \in Sources |->
                            IF b = a THEN 1 + (IF fresh THEN 0 ELSE since[a])
                            ELSE IF b \in gone THEN 0 ELSE since[b]]
           /\ late' = [b \in Sources |->
                            IF b = a THEN IF fresh THEN 0
                                          ELSE IF Ended(entries[a], now) THEN late[a] + 1
                                          ELSE late[a]
                            ELSE IF b \in gone THEN 0 ELSE late[b]]
    /\ conn' = [conn EXCEPT ![c] = Counted(c)]
    /\ UNCHANGED <<sourceOf, now, tries>>

\* A client connects again, from the same address.
Reconnect(c) ==
    /\ conn[c].pc \in {"closed", "greeted"}
    /\ conn' = [conn EXCEPT ![c] = Opened]
    /\ UNCHANGED <<sourceOf, entries, now, tries, guesses, since, late>>

Tick ==
    /\ now < MaxTick
    /\ now' = now + 1
    /\ UNCHANGED <<sourceOf, conn, entries, tries, guesses, since, late>>

Next ==
    \/ \E c \in Connections, n \in Names : HandleHello(c, n)
    \/ \E c \in Connections : HelloFails(c)
    \/ \E c \in Connections : NotGreeted(c)
    \/ \E c \in Connections : RejectPayload(c)
    \/ \E c \in Connections : HandleAuth(c)
    \/ \E c \in Connections : RecordAuthSuccess(c)
    \/ \E c \in Connections : AuthFails(c)
    \/ \E c \in Connections : RecordAuthFailure(c)
    \/ \E c \in Connections : Reconnect(c)
    \/ Tick

Spec == Init /\ [][Next]_vars

-----------------------------------------------------------------------------
Banned(a) == entries[a].until > now

(* However its connections race, a source gets at most                     *)
(* max_auth_failures_per_ip wrong proofs answered in a period, plus one    *)
(* for each other connection that was past the ban check by then; a login  *)
(* under one name takes back no guesses at another (RecordAuthSuccess).  A *)
(* failure that is recorded only after the end of a ban that its own time  *)
(* falls into goes on with the period, and so do the failures of the other *)
(* connections that passed the ban check in between.                       *)
GuessesBounded ==
    \A a \in Sources :
        SumOf(guesses[a]) <=
            MaxAuthFailuresPerIp
            + (Cardinality({c \in Connections : sourceOf[c] = a}) - 1) * (1 + late[a])

(* A source is banned only after max_auth_failures_per_ip failures of the  *)
(* current period: an ended ban starts a new one (RecordAuthFailure).      *)
BannedForCause ==
    \A a \in Sources : Banned(a) => since[a] >= MaxAuthFailuresPerIp

\* This step records the failure of connection c.
Records(c) == conn[c].pc = "failed" /\ conn'[c].pc # "failed"

BanKept(a) ==
    Banned(a) =>
        \/ entries'[a].until >= entries[a].until
        \/ \E c \in Connections :
             /\ Records(c)
             /\ \/ /\ sourceOf[c] = a
                   /\ entries[a].until - entries'[a].until <= now - conn[c].at
                \/ \A b \in Tracked : entries[b].until > conn[c].at

(* A ban keeps its end: neither a login nor the failures of other sources, *)
(* which may fill the table, bring it forward, unless every tracked source *)
(* was banned when that failure happened (the choice of the victim).  A    *)
(* failure of the source itself sets the end anew from its own time, and   *)
(* brings it forward by no more than the time it waited for the mutex.     *)
BanHolds == [][\A a \in Sources : BanKept(a)]_vars
=============================================================================
