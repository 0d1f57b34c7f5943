------------------------------ MODULE FeedLog ------------------------------
(***************************************************************************)
(* What a change feed promises the clients that follow it, without rings,  *)
(* producers or threads.  A client that is following holds a position; it  *)
(* may only move on by receiving the next committed change, by skipping    *)
(* revisions at which nothing was committed, or by being told to start     *)
(* again from a given position (a RESYNC frame, or a subscription without  *)
(* AFTER).  And a change never commits at or below the position of a       *)
(* client that is following: it would have been missed.                    *)
(***************************************************************************)
EXTENDS Naturals

CONSTANTS Clients,    \* the readers
          Revisions   \* the revisions the version clock can issue

VARIABLES committed,  \* the revisions of the committed changes
          position,   \* position[c]: what c was told it has seen
          last        \* last[c]: how c came to its position

logVars == <<committed, position, last>>

LogInit == /\ committed = {}
           /\ position = [c \in Clients |-> 0]
           /\ last = [c \in Clients |-> "start"]

Following(c) == last[c] # "end"

CommitChange(v) == /\ v \in Revisions \ committed
                   /\ \A c \in Clients : Following(c) => v > position[c]
                   /\ committed' = committed \cup {v}
                   /\ UNCHANGED <<position, last>>

\* c comes to position at in one of the four ways.
Comes(c, at, how) == /\ position' = [position EXCEPT ![c] = at]
                     /\ last' = [last EXCEPT ![c] = how]
                     /\ UNCHANGED committed

Deliver(c, v) == /\ Following(c) /\ v \in committed /\ v > position[c]
                 /\ \A u \in committed : u > position[c] => u >= v
                 /\ Comes(c, v, "change")

Skip(c, to) == /\ Following(c) /\ to > position[c]
               /\ \A u \in committed : u > position[c] => u > to
               /\ Comes(c, to, "skip")

StartAgain(c, at) == Comes(c, at, "start")

(* The feed is over for c: its last position cannot be resumed. *)
EndFollowing(c, at) == Comes(c, at, "end")

LogNext == \/ \E v \in Revisions : CommitChange(v)
           \/ \E c \in Clients, r \in Revisions \cup {0} :
                 \/ Deliver(c, r)
                 \/ Skip(c, r)
                 \/ StartAgain(c, r)
                 \/ EndFollowing(c, r)

LogSpec == LogInit /\ [][LogNext]_logVars
=============================================================================
