------------------------------- MODULE MCSlots ------------------------------
(***************************************************************************)
(* The slots of a feed and what they retain, and the watches that read a   *)
(* slot, without and with events that cut a delivery short. A behaviour    *)
(* runs one of these and leaves the variables of the others alone.         *)
(***************************************************************************)
EXTENDS TLC

CONSTANTS p1, p2, s1, none   \* model values

VARIABLE part   \* the component that runs, for the whole of a behaviour
VARIABLES clock, pending, batch, history, fs, out, tracked, ckpt, publisher,
          sync, fullySynced, records, slotFile, acks, reader, phase,
          mishaps, completed, changes, durable, written, staged, slotLost,
          overruns, owner, taker, replaced, watch, got, place

S_Chunks == {p1, p2}
S_Slots == {s1}
S == INSTANCE FeedSlots WITH
       Chunks <- S_Chunks, Slots <- S_Slots, GroupCommit <- 2,
       MaxBytes <- 1, MaxRevision <- 2, MaxMishaps <- 1

W_Watches == {p1, p2}
W_Events == {}
W == INSTANCE SlotWatch WITH
       Watches <- W_Watches, NoWatch <- none, Events <- W_Events,
       MaxRevision <- 2, MaxOverruns <- 1

\* The same with a place of another epoch, a lost slot and overdue acknowledgements.
E_Events == {"foreign", "lost", "expired"}
E == INSTANCE SlotWatch WITH
       Watches <- W_Watches, NoWatch <- none, Events <- E_Events,
       MaxRevision <- 1, MaxOverruns <- 0

vars == <<part, clock, pending, batch, history, fs, out, tracked, ckpt,
          publisher, sync, fullySynced, records, slotFile, acks, reader,
          phase, mishaps, completed, changes, durable, written, staged,
          slotLost, overruns, owner, taker, replaced, watch, got, place>>

Init ==
    \/ /\ part = "slots" /\ S!Init
       /\ completed = 0 /\ changes = 0 /\ durable = 0 /\ written = 0 /\
          staged = 0 /\ slotLost = 0 /\ overruns = 0 /\ owner = 0 /\
          taker = 0 /\ replaced = 0 /\ watch = 0 /\ got = 0 /\ place = 0
    \/ /\ part \in {"watches", "events"} /\ W!Init
       /\ clock = 0 /\ pending = 0 /\ batch = 0 /\ history = 0 /\ fs = 0 /\
          out = 0 /\ tracked = 0 /\ ckpt = 0 /\ publisher = 0 /\ sync = 0 /\
          fullySynced = 0 /\ records = 0 /\ slotFile = 0 /\ acks = 0 /\
          reader = 0 /\ phase = 0 /\ mishaps = 0

Next ==
    \/ /\ part = "slots" /\ S!Next
       /\ UNCHANGED <<part, completed, changes, durable, written, staged,
                      slotLost, overruns, owner, taker, replaced, watch,
                      got, place>>
    \/ /\ \/ part = "watches" /\ W!Next
          \/ part = "events" /\ E!Next
       /\ UNCHANGED <<part, clock, pending, batch, history, fs, out,
                      tracked, ckpt, publisher, sync, fullySynced, records,
                      slotFile, acks, reader, phase, mishaps>>

Spec == Init /\ [][Next]_vars

\* Chunks are interchangeable, and so are watches.
Interchange == Permutations({p1, p2})

-----------------------------------------------------------------------------
(* The durable frontier of the slots never exceeds what a power loss       *)
(* keeps: it is published after the files it stands for are synced.        *)
FrontierIsDurable == part = "slots" => S!FrontierIsDurable

(* Whatever a slot has not acknowledged is still there, in a WAL, an       *)
(* archive or a base image, a reader gets exactly the changes after its    *)
(* position, and a start never refuses what a crash left.                  *)
SlotHistoryKept ==
    part = "slots" =>
        /\ S!HistoryRetained /\ S!BasesExact /\ S!ReaderExact /\ S!AlwaysOpens

(* A consumer of a slot gets each durable change once and in order, none   *)
(* is skipped between the archives and the live feed, and a takeover keeps *)
(* what was acknowledged.                                                  *)
SlotDeliversExactly ==
    part \in {"watches", "events"} =>
        /\ W!NoSkippedChange /\ W!OnlyDurableSent /\ W!EachOnceInOrder /\ W!TakeoverKeepsAcks
=============================================================================
