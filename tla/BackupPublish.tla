--------------------------- MODULE BackupPublish ---------------------------
(***************************************************************************)
(* How BACKUP TO and chunkdb_restore publish a directory: a guard file is  *)
(* made durable before any content, the contents are copied and synced,    *)
(* and the removal of the guard is the completion point                    *)
(* (backup_records.cpp, backup_restore.cpp).  Any operation may fail, the  *)
(* process may die, the power may be lost, and two restores may have the   *)
(* same target.                                                            *)
(*                                                                         *)
(* A directory is an object with entries; paths lead to objects.  A change *)
(* of entries or of paths is visible at once and durable after the sync of *)
(* its directory; a power loss keeps any part of what was not synced.      *)
(***************************************************************************)
EXTENDS Integers, Sequences, FiniteSets, SequencesExt

CONSTANTS
  Procs,      \* processes with the same target
  Inventory,  \* the files of the backup, in order
  MaxFaults,  \* bound: failed operations, deaths and power losses
  MaxStarts,  \* bound: operations begun
  Target      \* the path all aim at, and an empty directory found there

VARIABLES
  kind,     \* what the processes do: "backup" or "restore"
  obj,      \* directory -> entries seen and durable, bytes durable, files rewritten,
            \* and whose operation guarded it
  at,       \* directory -> the path that leads to it, as seen
  kept,     \* directory -> the path that leads to it, as durable
  pr,       \* process -> its place in the program, and what it reported
  bounds

vars == <<kind, obj, at, kept, pr, bounds>>

Files == Range(Inventory)
Root == {"guard", "marker", "tmp"}
Nowhere == "nowhere"
Dirs == Procs \cup {Target}

-----------------------------------------------------------------------------
(* The operations, in the code's order.                                    *)

\* PublishSafeFile, PublishNewFile, CopyBackupFile: create exclusively, sync
\* the bytes, sync the directory.
Publish(n) == << <<"create", n>>, <<"flush", n>>, <<"sync", n>> >>
Copies == FlattenSeq([i \in DOMAIN Inventory |-> Publish(Inventory[i])])

(* Mutant: the marker is renamed into place after the guard is gone. *)
GuardGoesFirst == Publish("tmp") \o << <<"unguard", "guard">>, <<"complete", "">>, <<"rename", "tmp">>, <<"end", "">> >>
\* The end of CompleteBackup: ReplaceSafeFile of the marker, CompleteBackupGuard.
Completion == Publish("tmp") \o << <<"rename", "tmp">>, <<"sync", "marker">>, <<"cancel", "">>,
                                   <<"unguard", "guard">>, <<"complete", "">>, <<"end", "">> >>

\* BackupTo, from PrepareBackupTarget to CompleteBackup.
BackupSteps ==
  << <<"free", "">>, <<"makeTarget", "">>, <<"enterNew", "">>, <<"empty", "">> >> \o Publish("guard")
  \o Copies \o << <<"validate", "">>, <<"syncTree", "">> >> \o Completion

\* The end of RestoreBackup.
Move == << <<"syncTree", "">>, <<"free", "">>, <<"clear", "">>, <<"move", "">>, <<"enter", "">>,
           <<"unguard", "guard">>, <<"complete", "">>, <<"end", "">> >>
\* RestoreBackup: a sibling is filled, rewritten under a new identity, then moved.
RestoreSteps ==
  << <<"free", "">>, <<"noOther", "">>, <<"makeTemporary", "">> >> \o Publish("guard") \o << <<"enter", "">> >>
  \o Copies \o [i \in DOMAIN Inventory |-> <<"rewrite", Inventory[i]>>] \o << <<"validate", "">> >> \o Move

Program == IF kind = "backup" THEN BackupSteps ELSE RestoreSteps
Step(p) == Program[pr[p].pc][1]
Name(p) == Program[pr[p].pc][2]

-----------------------------------------------------------------------------
Init ==
  /\ kind \in {"backup", "restore"}
  /\ obj = [d \in Dirs |-> [vis |-> {}, dur |-> {}, data |-> {}, new |-> {}, owner |-> Nowhere]]
  /\ at \in {[d \in Dirs |-> Nowhere], [d \in Dirs |-> IF d = Target THEN Target ELSE Nowhere]}
  /\ kept = at
  /\ pr = [p \in Procs |-> [pc |-> 0, said |-> "", dir |-> p]]
  /\ bounds = [faults |-> 0, starts |-> 0]

Live(p) == pr[p].pc # 0
There == {d \in Dirs : at[d] = Target}
Bare(d) == obj[d].vis = {}

\* What syncing the directory of entry n makes durable.
Synced(o, n) ==
  LET part == IF n \in Files THEN {n} ELSE Root
  IN [o EXCEPT !.dur = (@ \ part) \cup (o.vis \cap part)]

\* The conditions under which an operation succeeds.  Of ValidateInventory,
\* that no file is missing and none is unexpected.
Succeeds(p) ==
  LET o == obj[pr[p].dir]
  IN CASE Step(p) = "free" -> \A d \in There : Bare(d)
       [] Step(p) = "empty" -> o.vis = {}
       [] Step(p) = "noOther" -> \A d \in Procs : at[d] # d
       [] Step(p) = "makeTemporary" -> at[p] = Nowhere
       [] Step(p) = "create" -> Name(p) \notin o.vis
       [] Step(p) = "validate" -> o.vis \ {"guard", "marker"} = Files
       [] Step(p) = "clear" -> \A d \in There : Bare(d)
       [] Step(p) = "move" -> There = {}
       [] Step(p) = "unguard" -> "guard" \in o.vis
       [] OTHER -> TRUE

\* The entries of the process's directory after the operation.
Entries(p) ==
  LET o == obj[pr[p].dir]
      n == Name(p)
  IN CASE Step(p) = "create" -> [o EXCEPT !.vis = @ \cup {n}, !.data = @ \ {n},
                                             !.owner = IF n = "guard" THEN p ELSE @]
       [] Step(p) = "flush" -> [o EXCEPT !.data = @ \cup {n}]
       [] Step(p) = "sync" -> Synced(o, n)
       [] Step(p) = "syncTree" -> [o EXCEPT !.dur = o.vis, !.data = o.vis]
       [] Step(p) = "rename" -> [o EXCEPT !.vis = (@ \ {"tmp"}) \cup {"marker"}, !.data = @ \cup {"marker"}]
       [] Step(p) = "rewrite" -> [Synced(o, n) EXCEPT !.new = @ \cup {n}]
       [] Step(p) = "unguard" -> [o EXCEPT !.vis = @ \ {"guard"}]
       [] Step(p) = "complete" -> Synced(o, "guard")
       [] OTHER -> o

\* The directory the process works in, and the paths, after the operation.
Opened(p) == IF Step(p) = "makeTarget" /\ There # {} THEN CHOOSE d \in Dirs : d \in There ELSE pr[p].dir
Paths(p) ==
  CASE Step(p) = "makeTarget" /\ There = {} -> [at EXCEPT ![p] = Target]
    [] Step(p) = "makeTemporary" -> [at EXCEPT ![p] = p]
    [] Step(p) = "clear" -> [d \in Dirs |-> IF d \in There THEN Nowhere ELSE at[d]]
    [] Step(p) = "move" -> [at EXCEPT ![p] = Target]
    [] OTHER -> at
ParentSynced(p) == Step(p) \in {"enter", "syncTree"} \/ (Step(p) = "enterNew" /\ pr[p].dir = p)

Do(p) ==
  /\ Live(p) /\ pr[p].said = "" /\ Succeeds(p)
  /\ obj' = [obj EXCEPT ![pr[p].dir] = Entries(p)]
  /\ at' = Paths(p)
  /\ kept' = IF ParentSynced(p) THEN at ELSE kept
  /\ pr' = [pr EXCEPT ![p] = IF Step(p) = "end" THEN [@ EXCEPT !.pc = 0, !.said = "done"]
                             ELSE [@ EXCEPT !.pc = @ + 1, !.dir = Opened(p)]]
  /\ UNCHANGED <<kind, bounds>>

\* What a failure leads to: a failed completion puts the guard back, a
\* restore that did not move its directory removes it.
AfterFailure(p) ==
  IF Step(p) = "complete" THEN "reinstate"
  ELSE IF kind = "restore" /\ at[p] = p THEN "clean" ELSE "failed"

Said(p, what) == pr' = [pr EXCEPT ![p].said = what, ![p].pc = IF what \in {"failed", "unknown"} THEN 0 ELSE @]
Fault == bounds.faults < MaxFaults /\ bounds' = [bounds EXCEPT !.faults = @ + 1]

Fail(p) ==
  /\ Live(p) /\ pr[p].said = "" /\ Step(p) # "end"
  /\ IF Succeeds(p) THEN Fault ELSE UNCHANGED bounds
  /\ Said(p, AfterFailure(p))
  /\ UNCHANGED <<kind, obj, at, kept>>

\* PublishSafeFile of the guard within CompleteBackupGuard.
Reinstate(p) ==
  LET o == obj[pr[p].dir]
  IN /\ Live(p) /\ pr[p].said = "reinstate"
     /\ \/ /\ "guard" \notin o.vis
           /\ obj' = [obj EXCEPT ![pr[p].dir].vis = @ \cup {"guard"}]
           /\ UNCHANGED <<pr, bounds>>
        \/ /\ "guard" \in o.vis
           /\ obj' = [obj EXCEPT ![pr[p].dir] = Synced([o EXCEPT !.data = @ \cup {"guard"}], "guard")]
           /\ Said(p, "failed")
           /\ UNCHANGED bounds
        \/ /\ Fault /\ Said(p, "unknown")
           /\ UNCHANGED obj
     /\ UNCHANGED <<kind, at, kept>>

\* remove_all of the temporary, entry by entry; it may stop halfway.
Clean(p) ==
  /\ Live(p) /\ pr[p].said = "clean"
  /\ \/ /\ \E n \in obj[p].vis : obj' = [obj EXCEPT ![p].vis = @ \ {n}]
        /\ UNCHANGED <<at, pr, bounds>>
     \/ /\ obj[p].vis = {}
        /\ at' = [at EXCEPT ![p] = Nowhere]
        /\ Said(p, "failed")
        /\ UNCHANGED <<obj, bounds>>
     \/ /\ Fault /\ Said(p, "failed")
        /\ UNCHANGED <<obj, at>>
  /\ UNCHANGED <<kind, kept>>

Dead(r) == IF r.pc = 0 THEN r ELSE [r EXCEPT !.pc = 0, !.said = "dead"]
Die(p) ==
  /\ Live(p) /\ Fault
  /\ pr' = [pr EXCEPT ![p] = Dead(@)]
  /\ UNCHANGED <<kind, obj, at, kept>>

Unsynced == {e \in Dirs \X (Root \cup Files) : (e[2] \in obj[e[1]].vis) # (e[2] \in obj[e[1]].dur)}
\* Entries and paths are what was synced, or any part of what came later.
PowerLoss ==
  /\ Fault
  /\ pr' = [p \in Procs |-> Dead(pr[p])]
  /\ \E kept_entries \in SUBSET Unsynced, back \in SUBSET {d \in Dirs : at[d] # kept[d]} :
       LET seen(d) == {n \in Root \cup Files : IF <<d, n>> \in kept_entries \/ <<d, n>> \notin Unsynced
                                               THEN n \in obj[d].vis ELSE n \in obj[d].dur}
           where == [d \in Dirs |-> IF d \in back THEN kept[d] ELSE at[d]]
       IN /\ \A d, e \in Dirs : d # e /\ where[d] # Nowhere => where[d] # where[e]
          /\ obj' = [d \in Dirs |-> [obj[d] EXCEPT !.vis = seen(d), !.dur = seen(d)]]
          /\ at' = where /\ kept' = where
  /\ UNCHANGED kind

\* One backup at a time holds backup_mutex_; restores are processes of their own.
Start(p) ==
  /\ kind = "backup" => \A q \in Procs : ~Live(q)
  /\ ~Live(p) /\ pr[p].said # "done" /\ bounds.starts < MaxStarts
  /\ bounds' = [bounds EXCEPT !.starts = @ + 1]
  /\ pr' = [pr EXCEPT ![p] = [pc |-> 1, said |-> "", dir |-> p]]
  /\ obj' = [d \in Dirs |-> [obj[d] EXCEPT !.owner = IF @ = p THEN Nowhere ELSE @]]
  /\ UNCHANGED <<kind, at, kept>>

Next ==
  \/ \E p \in Procs : Start(p) \/ Do(p) \/ Fail(p) \/ Reinstate(p) \/ Clean(p) \/ Die(p)
  \/ PowerLoss
Spec == Init /\ [][Next]_vars

-----------------------------------------------------------------------------
\* RequireNotBackupDirectory, ReadBackupRecord: what a reader accepts.
Accepted(d) == "guard" \notin obj[d].vis /\ (kind = "backup" => "marker" \in obj[d].vis)
Whole(d) == /\ Files \subseteq obj[d].vis \cap obj[d].data
            /\ kind = "restore" => Files \subseteq obj[d].new

(* What is found at the target is guarded, empty, or a whole backup or     *)
(* restored directory, after any failure, death or power loss, and with    *)
(* another process at work on the same target.                             *)
GuardedUntilWhole == \A d \in There : "guard" \notin obj[d].vis => Bare(d) \/ (Accepted(d) /\ Whole(d))

(* A backup or restore that reported success is there, whole, after every  *)
(* later power loss, and no other process reported success for the target. *)
SuccessStays ==
  \A p \in Procs : pr[p].said = "done" =>
    /\ \E d \in There : Accepted(d) /\ Whole(d)
    /\ \A q \in Procs \ {p} : pr[q].said # "done"

(* After an error other than the unknown outcome, the directory the        *)
(* process guarded is not accepted as complete, not even after a power     *)
(* loss (an ordinary error against BackupPublicationUnknownError).         *)
FailureStays ==
  \A p \in Procs : pr[p].said = "failed" => \A d \in There : obj[d].owner = p => ~Accepted(d)
=============================================================================
