------------------------------- MODULE Catalog -------------------------------
(***************************************************************************)
(* The table catalog of one data directory (table_catalog.cpp,             *)
(* table_catalog_migrations.cpp, migrations_apply.cpp,                     *)
(* migrations_records.cpp, feature_activation_records.cpp): CREATE, DROP,  *)
(* ALTER, the narrowing of a column, RECOVER TABLE, ENABLE FEATURE and     *)
(* MIGRATE, each a sequence of file operations that may fail, and what a   *)
(* process crash or a power loss between two of them leaves for the next   *)
(* start.                                                                  *)
(*                                                                         *)
(* operations_mutex_ serializes the operations, so one record, op, is the  *)
(* operation in progress; only a narrowing gives the mutex and the table   *)
(* back between its steps, and only writes of the table use that.          *)
(* A table is the number of its store_id.  Three groups of files are told  *)
(* apart, by the directory whose sync makes them durable: the root files,  *)
(* the places of the table directories, and each table's manifest.         *)
(***************************************************************************)
EXTENDS Naturals, Sequences, FiniteSets, FiniteSetsExt, SequencesExt

CONSTANTS Names,        \* table names
          Ids,          \* the store ids of tables that may be created
          NoTable,      \* not an id
          Migrations,   \* migration names
          NoMigration,  \* not a migration name
          Kinds,        \* the operations of this instance
          MaxOps,       \* operations started
          MaxFaults,    \* I/O calls that fail
          MaxCrashes,   \* crashes
          MaxTokens     \* version tokens a data directory issues

VARIABLES
    disk,      \* what the files hold: root, place and manifest
    durable,   \* for each group, the contents a power loss may leave
    store,     \* for each table: tokens issued, and whether it holds a value
               \* that the narrowed column could not
    mem,       \* the TableCatalog object: up, served, fenced, failed, floor
    op,        \* the operation in progress
    ghost,     \* what clients were told
    spent      \* operations, faults and crashes so far

vars == <<disk, durable, store, mem, op, ghost, spent>>

(* chunkdb.meta, chunkdb.users, the ledger and the two pending decisions.    *)
NoJournal == [migration |-> NoMigration]
Root == [floor |-> 0, feature |-> FALSE, users |-> {}, ledger |-> {},
         pending |-> NoJournal, activation |-> [on |-> FALSE, tables |-> {}]]

(* A manifest: options and columns as one version, the table-scoped feature, *)
(* the pending and the completed narrowing.                                  *)
Manifest == [name |-> CHOOSE n \in Names : TRUE, version |-> 0, marks |-> {},
             feature |-> FALSE, pending |-> FALSE, narrow |-> FALSE]

Idle == [kind |-> "idle", name |-> CHOOSE n \in Names : TRUE, id |-> NoTable,
         step |-> "none", migration |-> NoMigration, effect |-> "none", todo |-> <<>>,
         left |-> {}]

Boot == [Idle EXCEPT !.kind = "boot", !.step = "activation"]

Down == [up |-> FALSE, served |-> [n \in Names |-> NoTable],
         fenced |-> {}, failed |-> FALSE, floor |-> 0]

Init ==
    /\ disk = [root |-> Root, place |-> [i \in Ids |-> "none"],
               manifest |-> [i \in Ids |-> Manifest]]
    /\ durable = [root |-> {disk.root}, place |-> {disk.place},
                  manifest |-> [i \in Ids |-> {disk.manifest[i]}]]
    /\ store = [i \in Ids |-> [from |-> 0, to |-> 0, opened |-> FALSE, wide |-> FALSE,
                               written |-> FALSE]]
    /\ mem = [Down EXCEPT !.up = TRUE]
    /\ op = Idle
    /\ ghost = [may |-> [n \in Names |-> {<<NoTable, 0>>}],
                forgot |-> {}, sure |-> TRUE, planned |-> [m \in Migrations |-> NoJournal]]
    /\ spent = [ops |-> 0, faults |-> 0, crashes |-> 0]

Count(what, k) == spent' = [spent EXCEPT ![what] = @ + k]
Fail(k) == spent.faults + k <= MaxFaults /\ Count("faults", k)

-----------------------------------------------------------------------------
(* AtomicWrite: a temporary file, synced, renamed over the file, and a sync  *)
(* of the directory.  It fails before the rename, or after it: then the new  *)
(* contents are visible and may or may not be durable.                       *)

WriteRoot(r, how) ==
    CASE how = "done"     -> /\ disk' = [disk EXCEPT !.root = r]
                             /\ durable' = [durable EXCEPT !.root = {r}]
      [] how = "unsynced" -> /\ disk' = [disk EXCEPT !.root = r]
                             /\ durable' = [durable EXCEPT !.root = @ \cup {r}]
      [] how = "refused"  -> UNCHANGED <<disk, durable>>

WriteManifest(i, m, how) ==
    CASE how = "done"     -> /\ disk' = [disk EXCEPT !.manifest[i] = m]
                             /\ durable' = [durable EXCEPT !.manifest[i] = {m}]
      [] how = "unsynced" -> /\ disk' = [disk EXCEPT !.manifest[i] = m]
                             /\ durable' = [durable EXCEPT !.manifest[i] = @ \cup {m}]
      [] how = "refused"  -> UNCHANGED <<disk, durable>>

(* MoveDirectoryNoReplace, with SyncDirectoryPath of both parents or not.    *)
Move(i, place, how) ==
    LET moved == [disk.place EXCEPT ![i] = place] IN
    CASE how = "done"     -> /\ disk' = [disk EXCEPT !.place = moved]
                             /\ durable' = [durable EXCEPT !.place = {moved}]
      [] how = "unsynced" -> /\ disk' = [disk EXCEPT !.place = moved]
                             /\ durable' = [durable EXCEPT !.place = @ \cup {moved}]
      [] how = "refused"  -> UNCHANGED <<disk, durable>>

Hows == {"done", "unsynced", "refused"}
Faults(how) == IF how = "done" THEN 0 ELSE 1

In(place, name) ==
    {i \in Ids : disk.place[i] = place /\ disk.manifest[i].name = name}

Fresh == {i \in Ids : disk.place[i] = "none"}

-----------------------------------------------------------------------------
(* What the next start makes of a set of surviving files: a decided          *)
(* migration is completed first.                                             *)

RedoPlace(r, place) ==
    IF r.pending = NoJournal THEN place
    ELSE CASE r.pending.kind = "create" -> [place EXCEPT ![r.pending.id] = "tables"]
           [] r.pending.kind = "drop" -> [place EXCEPT ![r.pending.id] = "dropped"]
           [] OTHER -> place

RedoManifest(r, i, m) ==
    IF r.pending # NoJournal /\ r.pending.kind \in {"alter", "narrow"} /\ r.pending.id = i
    THEN r.pending.after.manifest ELSE m

RedoRoot(r) ==
    IF r.pending = NoJournal THEN r
    ELSE [r EXCEPT !.floor = r.pending.after.floor, !.users = r.pending.after.users,
                   !.ledger = r.pending.after.ledger]

(* ValidateMigrationJournal: every file is its before or its after image,    *)
(* and the directory is at exactly one of its two places.                    *)
ValidMigration(r, place, manifest) ==
    LET j == r.pending IN
    j # NoJournal =>
        /\ r.floor \in {j.before.floor, j.after.floor}
        /\ r.users \in {j.before.users, j.after.users}
        /\ r.ledger \in {j.before.ledger, j.after.ledger}
        /\ j.kind \in {"alter", "narrow"} =>
              /\ place[j.id] = "tables"
              /\ manifest[j.id] \in {j.before.manifest, j.after.manifest}
        /\ j.kind = "create" =>
              (place[j.id] = "staging") # (\E i \in Ids : /\ place[i] = "tables"
                                                        /\ manifest[i].name = j.after.manifest.name)
        /\ j.kind = "drop" => place[j.id] \in {"tables", "dropped"}

(* ValidateParticipants of feature_activation_records.cpp.                   *)
ValidActivation(r, place) ==
    r.activation.on =>
        /\ r.pending = NoJournal
        /\ {i \in Ids : place[i] = "tables"} = r.activation.tables

-----------------------------------------------------------------------------
(* Openings and fences.                                                      *)

(* OpenStore: a store that never issued a token starts at the floor.         *)
OpenStores(I, floor) ==
    store' = [i \in Ids |-> IF i \notin I \/ store[i].opened THEN store[i]
                  ELSE [store[i] EXCEPT !.from = floor, !.to = floor, !.opened = TRUE]]
Opened(I) == OpenStores(I, mem.floor)

Serve(n, i) == mem' = [mem EXCEPT !.served[n] = i, !.fenced = @ \ {n}]
FenceTable(n) == mem' = [mem EXCEPT !.served[n] = NoTable, !.fenced = @ \cup {n}]
RetireTable(n) == mem' = [mem EXCEPT !.served[n] = NoTable]
FailCatalog(n) == mem' = [mem EXCEPT !.served[n] = NoTable, !.failed = TRUE]

(* ghost.may[n]: the tables, with their versions, that a start may find.  An *)
(* answered CREATE or DROP settles whether there is one; an answered ALTER   *)
(* settles the version of the one there is.                                  *)
May(n, t) == ghost' = [ghost EXCEPT !.may[n] = @ \cup {t}]
Told(n, t) == ghost' = [ghost EXCEPT !.may[n] = {t}]
ToldChanged(n, t) == ghost' = [ghost EXCEPT !.may[n] = {t} \cup (@ \cap {<<NoTable, 0>>})]

Admitted(kind) ==
    /\ kind \in Kinds
    /\ mem.up /\ ~mem.failed /\ op = Idle
    /\ spent.ops < MaxOps
    /\ Count("ops", 1)

Begin(kind, n, i, step) ==
    /\ Admitted(kind)
    /\ op' = [Idle EXCEPT !.kind = kind, !.name = n, !.id = i, !.step = step]

Step(kind, step) == op.kind = kind /\ op.step = step
GoTo(step) == op' = [op EXCEPT !.step = step]
End == op' = Idle

-----------------------------------------------------------------------------
(* CREATE TABLE.                                                             *)

(* The table is built under a staging name; its manifest takes the           *)
(* table-scoped features of the root manifest.                               *)
Stage(n, i, places) ==
    /\ disk' = [disk EXCEPT !.place[i] = "staging",
                            !.manifest[i] = [Manifest EXCEPT !.name = n,
                                                             !.feature = disk.root.feature]]
    /\ durable' = [durable EXCEPT !.place = places,
                                  !.manifest[i] = {disk'.manifest[i]}]

Create(n, i) ==
    /\ Begin("create", n, i, "publish")
    /\ n \notin mem.fenced /\ mem.served[n] = NoTable
    /\ i \in Fresh
    /\ Stage(n, i, durable.place \cup {[disk.place EXCEPT ![i] = "staging"]})
    /\ May(n, <<i, 0>>)
    /\ UNCHANGED <<store, mem>>

(* The rename, or an error that leaves the staging directory to be removed.  *)
CreatePublish ==
    /\ Step("create", "publish")
    /\ \/ /\ In("tables", op.name) = {}
          /\ Move(op.id, "tables", "unsynced")
          /\ GoTo("sync") /\ UNCHANGED spent
       \/ /\ Move(op.id, "gone", "unsynced")
          /\ End
          /\ IF In("tables", op.name) # {} THEN UNCHANGED spent ELSE Fail(1)
    /\ UNCHANGED <<store, mem, ghost>>

(* The syncs and the opening; if one fails MoveToDropped takes the table out *)
(* again, and if that fails too the name is fenced.                          *)
SyncsNothing == "unsynced"     \* mutant: CREATE answers before the syncs
ParentSyncs == "done"
CreateServe ==
    /\ Step("create", "sync")
    /\ End
    /\ \/ /\ Move(op.id, "tables", ParentSyncs)
          /\ Opened({op.id}) /\ Serve(op.name, op.id)
          /\ Told(op.name, <<op.id, 0>>)
          /\ UNCHANGED spent
       \/ \E how \in Hows :
          /\ Fail(1 + Faults(how))
          /\ IF how = "done" THEN Move(op.id, "gone", how) ELSE Move(op.id, "dropped", how)
          /\ IF how = "done" THEN UNCHANGED mem ELSE FenceTable(op.name)
          /\ UNCHANGED <<store, ghost>>

-----------------------------------------------------------------------------
(* DROP TABLE.                                                               *)

Ceiling(i) == store[i].to

Drop(n) ==
    LET i == mem.served[n] IN
    /\ i # NoTable
    /\ Begin("drop", n, i, "floor")
    /\ May(n, <<NoTable, 0>>)
    /\ UNCHANGED <<disk, durable, store, mem>>

(* RaiseVersionFloor: durable before the drop, or the table serves on.       *)
NeedsFloor == Ceiling(op.id) > mem.floor
DropFloor ==
    /\ Step("drop", "floor")
    /\ IF ~NeedsFloor
       THEN UNCHANGED <<disk, durable, mem, spent>> /\ GoTo("move")
       ELSE \E how \in Hows :
            /\ WriteRoot([disk.root EXCEPT !.floor = Ceiling(op.id)], how)
            /\ IF how = "done" THEN mem' = [mem EXCEPT !.floor = Ceiling(op.id)] /\ GoTo("move")
                               ELSE UNCHANGED mem /\ End
            /\ Fail(Faults(how))
    /\ UNCHANGED <<store, ghost>>

(* MoveToDropped and what its failures leave: moved but not synced, the      *)
(* table is gone; still in place, it is reopened or fenced; a place that     *)
(* cannot be told is fenced.                                                 *)
DropMove ==
    /\ Step("drop", "move")
    /\ \/ Move(op.id, "gone", "done") /\ RetireTable(op.name) /\ GoTo("forget") /\ UNCHANGED spent
       \/ Move(op.id, "dropped", "unsynced") /\ RetireTable(op.name) /\ End /\ Fail(1)
       \/ Move(op.id, "tables", "refused") /\ UNCHANGED mem /\ End /\ Fail(1)
       \/ Move(op.id, "tables", "refused") /\ FenceTable(op.name) /\ End /\ Fail(2)
       \/ Move(op.id, "dropped", "unsynced") /\ FenceTable(op.name) /\ End /\ Fail(2)
    /\ UNCHANGED <<store, ghost>>

(* UserRegistry::ForgetTable, after the table left tables_.                  *)
Forgotten(users, n) == users \ {n}
DropForget ==
    /\ Step("drop", "forget")
    /\ \E how \in Hows :
          /\ WriteRoot([disk.root EXCEPT !.users = Forgotten(@, op.name)], how)
          /\ Fail(Faults(how))
          /\ IF how = "done"
             THEN ghost' = [ghost EXCEPT !.may[op.name] = {<<NoTable, 0>>},
                                         !.forgot = @ \cup {op.name}]
             ELSE UNCHANGED ghost
    /\ End
    /\ UNCHANGED <<store, mem>>

(* GRANT of a table to a user: UserRegistry::Update publishes the file.      *)
Grant(n) ==
    /\ Admitted("grant")
    /\ WriteRoot([disk.root EXCEPT !.users = @ \cup {n}], "done")
    /\ ghost' = [ghost EXCEPT !.forgot = @ \ {n}]
    /\ UNCHANGED <<store, mem, op>>

-----------------------------------------------------------------------------
(* RewriteManifest: a failure before the rename serves the old store again;  *)
(* after it, the table is reopened as the file says and the failure is       *)
(* reported; a table that does not reopen is fenced.                         *)

Reopens == [how : Hows \ {"refused"}, opens : BOOLEAN] \cup {[how |-> "refused", opens |-> TRUE]}

RewriteManifest(n, m, o) ==
    LET i == mem.served[n] IN
    /\ WriteManifest(i, m, o.how)
    /\ IF o.opens THEN UNCHANGED mem ELSE FenceTable(n)
    /\ Fail(Faults(o.how) + (IF o.opens THEN 0 ELSE 1))

Succeeds(o) == o.how = "done" /\ o.opens

(* ALTER TABLE: SetOptions, ChangeColumnsIfNeeded.                           *)
Alter(n) ==
    LET i == mem.served[n] IN
    /\ i # NoTable
    /\ Begin("alter", n, i, "rewrite")
    /\ May(n, <<i, disk.manifest[i].version + 1>>)
    /\ UNCHANGED <<disk, durable, store, mem>>

AlterRewrite ==
    LET m == [disk.manifest[op.id] EXCEPT !.version = @ + 1] IN
    /\ Step("alter", "rewrite")
    /\ \E o \in Reopens :
          /\ RewriteManifest(op.name, m, o)
          /\ IF Succeeds(o) THEN ToldChanged(op.name, <<op.id, m.version>>) ELSE UNCHANGED ghost
    /\ End
    /\ UNCHANGED store

(* NarrowColumn: record the narrowing, so that every write must fit; check   *)
(* every stored value; then the new version, or the schema as it was.        *)
Narrow(n) ==
    LET i == mem.served[n] IN
    /\ i # NoTable
    /\ ~disk.manifest[i].pending /\ ~disk.manifest[i].narrow
    /\ Begin("narrow", n, i, "record")
    /\ May(n, <<i, disk.manifest[i].version + 1>>)
    /\ UNCHANGED <<disk, durable, store, mem>>

NarrowRecord ==
    /\ Step("narrow", "record")
    /\ \E o \in Reopens :
          /\ RewriteManifest(op.name, [disk.manifest[op.id] EXCEPT !.pending = TRUE], o)
          /\ IF Succeeds(o) THEN GoTo("scan")
             ELSE IF op.migration # NoMigration /\ o.opens /\ o.how = "unsynced"
             THEN GoTo("undo")     \* drop_recorded_narrowing
             ELSE End
    /\ UNCHANGED <<store, ghost>>

(* ScanNarrowing, with the table serving; a migration goes on to its         *)
(* decision.  A scan that fails is a refusal.                                *)
NarrowScan ==
    /\ Step("narrow", "scan")
    /\ \/ ~store[op.id].wide /\ UNCHANGED spent
          /\ IF op.migration = NoMigration THEN GoTo("end")
             ELSE op' = [op EXCEPT !.kind = "migrate", !.step = "prepare"]
       \/ GoTo("undo") /\ IF store[op.id].wide THEN UNCHANGED spent ELSE Fail(1)
    /\ UNCHANGED <<disk, durable, store, mem, ghost>>

(* EndNarrowing: a table that would serve with the narrowing recorded is     *)
(* fenced.                                                                   *)
Ended(narrow) ==
    IF narrow THEN [disk.manifest[op.id] EXCEPT !.pending = FALSE, !.narrow = TRUE,
                                                !.version = @ + 1]
              ELSE [disk.manifest[op.id] EXCEPT !.pending = FALSE]

FencesRecorded(o) == o.how = "refused"
EndNarrowing ==
    LET narrow == op.step = "end" IN
    /\ op.kind = "narrow" /\ op.step \in {"end", "undo"}
    /\ \E o \in Reopens :
          /\ WriteManifest(op.id, Ended(narrow), o.how)
          /\ IF o.opens /\ ~FencesRecorded(o) THEN UNCHANGED mem ELSE FenceTable(op.name)
          /\ Fail(Faults(o.how) + (IF o.opens THEN 0 ELSE 1))
          /\ IF Succeeds(o) /\ narrow
             THEN ToldChanged(op.name, <<op.id, Ended(narrow).version>>) ELSE UNCHANGED ghost
    /\ End
    /\ UNCHANGED store

-----------------------------------------------------------------------------
(* ghost.sure: every decision was taken, and every start or recovery began,  *)
(* on files whose visible state was durable.  Neither a statement nor a      *)
(* start repairs a directory sync that failed earlier or that a crash left   *)
(* out.                                                                      *)
Settled ==
    /\ durable.place = {disk.place}
    /\ \A i \in Ids : disk.place[i] = "tables" => durable.manifest[i] = {disk.manifest[i]}

(* RECOVER TABLE: the leftovers of the name's interrupted operations are     *)
(* removed, a recorded narrowing is dropped, and the directory is opened.    *)

Cleared(place, names) ==
    [i \in Ids |-> IF place[i] \in {"staging", "dropped"} /\ disk.manifest[i].name \in names
                   THEN "gone" ELSE place[i]]

(* remove_all of .chunkdb.staging/n.* and .chunkdb.dropped/n.*, which syncs  *)
(* no directory; ReadTableToOpen drops the narrowing a crash interrupted.    *)
Cleaned(names, I) ==
    LET kept == [i \in Ids |-> IF i \in I THEN [disk.manifest[i] EXCEPT !.pending = FALSE]
                               ELSE disk.manifest[i]]
    IN  /\ disk' = [disk EXCEPT !.place = Cleared(@, names), !.manifest = kept]
        /\ durable' = [durable EXCEPT !.place = @ \cup {Cleared(p, names) : p \in @},
                !.manifest = [i \in Ids |-> IF kept[i] # disk.manifest[i] THEN {kept[i]} ELSE @[i]]]

RecoverTable(n) ==
    LET found == In("tables", n) IN
    /\ "recover" \in Kinds
    /\ mem.up /\ ~mem.failed /\ op = Idle
    /\ n \in mem.fenced
    /\ \/ /\ Cleaned({n}, found)
          /\ IF found = {} THEN mem' = [mem EXCEPT !.fenced = @ \ {n}] /\ UNCHANGED store
             ELSE \E i \in found : Serve(n, i) /\ Opened({i})
          /\ UNCHANGED spent
       \/ Fail(1) /\ UNCHANGED <<disk, durable, store, mem>>
    /\ ghost' = [ghost EXCEPT !.sure = @ /\ Settled]
    /\ UNCHANGED op

-----------------------------------------------------------------------------
(* ENABLE FEATURE of a table-scoped feature: with every table held, the      *)
(* decision is published, then the root manifest, each table's manifest and  *)
(* the removal of the decision.  A failure after the decision fails the      *)
(* catalog until a restart completes it.                                     *)

Served == {mem.served[n] : n \in Names} \ {NoTable}

ActivationFiles(tables) == {"root"} \cup tables

EnableFeature ==
    LET tables == {i \in Ids : disk.place[i] = "tables"} IN
    /\ Begin("feature", CHOOSE n \in Names : TRUE, NoTable, "decide")
    /\ mem.fenced = {} /\ tables = Served
    /\ disk.root.pending = NoJournal
    /\ ~(disk.root.feature /\ \A i \in tables : disk.manifest[i].feature)
    /\ UNCHANGED <<disk, durable, store, mem, ghost>>

FailsCatalog(how) == how = "unsynced"
EnableDecide ==
    /\ Step("feature", "decide")
    /\ \E how \in Hows :
          /\ WriteRoot([disk.root EXCEPT !.activation = [on |-> TRUE, tables |-> Served]], how)
          /\ Fail(Faults(how))
          /\ IF how = "done"
             THEN op' = [op EXCEPT !.step = "complete", !.left = ActivationFiles(Served)]
             ELSE End
          /\ mem' = [mem EXCEPT !.failed = FailsCatalog(how)]
    /\ ghost' = [ghost EXCEPT !.sure = @ /\ Settled]
    /\ UNCHANGED store

(* One file of CompleteFeatureActivationJournal, by the statement or by the  *)
(* next start (RecoverFeatureActivation).                                    *)
Rest == [op EXCEPT !.todo = Tail(@)]
Stopped == IF mem.up THEN Idle ELSE Boot

ActivationNext ==
    IF "root" \in op.left THEN {"root"} ELSE IF op.left # {} THEN op.left ELSE {"clear"}

ActivationFile(part, how) ==
    CASE part = "root"  -> WriteRoot([disk.root EXCEPT !.feature = TRUE], how)
      [] part = "clear" -> WriteRoot([disk.root EXCEPT !.activation = Root.activation], how)
      [] OTHER -> WriteManifest(part, [disk.manifest[part] EXCEPT !.feature = TRUE], how)

CompleteFeatureActivation ==
    /\ op.step = "complete" /\ disk.root.activation.on
    /\ \E part \in ActivationNext, how \in Hows :
          /\ ActivationFile(part, how)
          /\ Fail(Faults(how))
          /\ op' = IF how = "done" /\ part # "clear" THEN [op EXCEPT !.left = @ \ {part}]
                   ELSE Stopped
          /\ mem' = [mem EXCEPT !.failed = mem.up /\ how # "done"]
    /\ UNCHANGED <<store, ghost>>

-----------------------------------------------------------------------------
(* MIGRATE: the effect of the statement and the ledger entry, decided        *)
(* together by one journal.                                                  *)

(* Admission: a recorded name does nothing; a fenced table refuses.          *)
StartMigration(m, effect, n, i, kind, step) ==
    /\ Admitted("migrate")
    /\ m \notin disk.root.ledger
    /\ effect # "grant" => n \notin mem.fenced
    /\ op' = [Idle EXCEPT !.kind = kind, !.name = n, !.id = i, !.step = step,
                          !.migration = m, !.effect = effect]
    /\ UNCHANGED <<disk, durable, store, mem>>

MigrateCreate(m, n, i) ==
    /\ mem.served[n] = NoTable /\ i \in Fresh
    /\ StartMigration(m, "create", n, i, "migrate", "prepare")
    /\ May(n, <<i, 0>>)

MigrateTable(m, effect, n) ==
    LET i == mem.served[n] IN
    /\ i # NoTable
    /\ effect = "narrow" => ~disk.manifest[i].narrow /\ ~disk.manifest[i].pending
    /\ StartMigration(m, effect, n, i, IF effect = "narrow" THEN "narrow" ELSE "migrate",
                      IF effect = "narrow" THEN "record" ELSE "prepare")
    /\ CASE effect = "drop" -> May(n, <<NoTable, 0>>)
         [] effect \in {"alter", "narrow"} -> May(n, <<i, disk.manifest[i].version + 1>>)
         [] OTHER -> UNCHANGED ghost

(* The before and after images of every participant.                         *)
Images(r, m) == [floor |-> r.floor, users |-> r.users, ledger |-> r.ledger, manifest |-> m]

Altered(m) ==
    [m EXCEPT !.version = @ + 1, !.marks = @ \cup {op.migration}, !.pending = FALSE,
              !.narrow = @ \/ op.effect = "narrow"]

Journal(before) ==
    [migration |-> op.migration, kind |-> op.effect, id |-> op.id, before |-> before,
     after |-> [floor |-> IF op.effect = "drop" THEN Max({mem.floor, Ceiling(op.id)})
                          ELSE before.floor,
                users |-> CASE op.effect = "drop" -> Forgotten(before.users, op.name)
                            [] op.effect = "grant" -> before.users \cup {op.name}
                            [] OTHER -> before.users,
                ledger |-> before.ledger \cup {op.migration},
                manifest |-> IF op.effect \in {"alter", "narrow"} THEN Altered(before.manifest)
                             ELSE before.manifest]]

(* The order of CompleteMigrationJournal.                                    *)
MigrationSteps(effect) ==
    CASE effect = "create" -> <<"move", "ledger", "clear", "serve">>
      [] effect = "drop"   -> <<"floor", "move", "users", "ledger", "clear", "serve">>
      [] effect = "grant"  -> <<"users", "ledger", "clear">>
      [] effect = "noop"   -> <<"ledger", "clear">>
      [] OTHER             -> <<"manifest", "ledger", "clear", "serve">>

(* What is prepared: for CREATE the staged table, its place synced.          *)
MigratePrepare ==
    /\ Step("migrate", "prepare")
    /\ IF op.effect = "create"
       THEN Stage(op.name, op.id, {[p EXCEPT ![op.id] = "staging"] : p \in durable.place})
       ELSE UNCHANGED <<disk, durable>>
    /\ GoTo("decide")
    /\ UNCHANGED <<store, mem, ghost, spent>>

(* WriteMigrationJournal.  Refused, the table serves on, the stage is        *)
(* removed and a recorded narrowing is dropped; a table that cannot serve    *)
(* again fails the catalog, and so does a decision that may not be durable.  *)
MigrateDecide ==
    LET m == IF op.id = NoTable THEN Manifest ELSE disk.manifest[op.id]
        j == Journal(Images(disk.root, m))
    IN
    /\ Step("migrate", "decide")
    /\ ghost' = [ghost EXCEPT !.planned[op.migration] = j, !.sure = @ /\ Settled,
                              !.forgot = IF op.effect = "grant" THEN @ \ {op.name} ELSE @]
    /\ \/ /\ WriteRoot([disk.root EXCEPT !.pending = j], "done")
          /\ op' = [op EXCEPT !.step = "complete", !.todo = MigrationSteps(op.effect)]
          /\ UNCHANGED <<mem, spent>>
       \/ /\ WriteRoot([disk.root EXCEPT !.pending = j], "unsynced")
          /\ FailCatalog(op.name) /\ End /\ Fail(1)
       \/ /\ IF op.effect = "create" THEN Move(op.id, "gone", "unsynced")
             ELSE UNCHANGED <<disk, durable>>
          /\ op' = IF op.effect = "narrow" THEN [op EXCEPT !.kind = "narrow", !.step = "undo"]
                   ELSE Idle
          /\ UNCHANGED mem /\ Fail(1)
       \/ /\ op.effect \in {"drop", "alter", "narrow"}
          /\ FailCatalog(op.name) /\ End /\ Fail(2)
          /\ UNCHANGED <<disk, durable>>
    /\ UNCHANGED store

(* One step of CompleteMigrationJournal.  A directory already moved is only  *)
(* synced.                                                                   *)
MigrationFile(j, part, how) ==
    CASE part = "floor"    -> WriteRoot([disk.root EXCEPT !.floor = j.after.floor], how)
      [] part = "users"    -> WriteRoot([disk.root EXCEPT !.users = j.after.users], how)
      [] part = "ledger"   -> WriteRoot([disk.root EXCEPT !.ledger = j.after.ledger], how)
      [] part = "clear"    -> WriteRoot([disk.root EXCEPT !.pending = NoJournal], how)
      [] part = "manifest" -> WriteManifest(j.id, j.after.manifest, how)
      [] part = "move"     -> Move(j.id, IF j.kind = "create" THEN "tables" ELSE "dropped", how)

CompleteMigrationJournal ==
    /\ op.step = "complete" /\ op.todo # <<>> /\ Head(op.todo) # "serve"
    /\ disk.root.pending # NoJournal
    /\ \E how \in Hows :
          /\ MigrationFile(disk.root.pending, Head(op.todo), how)
          /\ Fail(Faults(how))
          /\ op' = IF how = "done" /\ Tail(op.todo) # <<>> THEN Rest ELSE Stopped
          /\ IF how # "done" /\ mem.up THEN FailCatalog(op.name) ELSE UNCHANGED mem
    /\ UNCHANGED <<store, ghost>>

(* The end of Migrate: the version floor is read again, the new table is     *)
(* opened, the dropped one removed, the altered one reopened.                *)
MigrateServe ==
    LET n == op.name  i == op.id
        floored == [mem EXCEPT !.floor = disk.root.floor]
    IN
    /\ op.step = "complete" /\ op.todo = <<"serve">>
    /\ \/ /\ op.effect = "create"
          /\ OpenStores({i}, disk.root.floor)
          /\ mem' = [floored EXCEPT !.served[n] = i]
          /\ Told(n, <<i, 0>>)
          /\ UNCHANGED <<disk, durable, spent>>
       \/ /\ op.effect = "drop"
          /\ Move(i, "gone", "unsynced")
          /\ mem' = [floored EXCEPT !.served[n] = NoTable]
          /\ ghost' = [ghost EXCEPT !.may[n] = {<<NoTable, 0>>}, !.forgot = @ \cup {n}]
          /\ UNCHANGED <<store, spent>>
       \/ /\ op.effect \in {"alter", "narrow"}
          /\ mem' = floored
          /\ ToldChanged(n, <<i, disk.manifest[i].version>>)
          /\ UNCHANGED <<disk, durable, store, spent>>
       \/ /\ op.effect # "drop"
          /\ FailCatalog(n) /\ Fail(1)
          /\ UNCHANGED <<disk, durable, store, ghost>>
    /\ End

-----------------------------------------------------------------------------
(* The start of the server: TableCatalog::TableCatalog.  An I/O error ends   *)
(* the process, and the next start begins again.                             *)

(* Both decisions are validated before either publishes a file.              *)
OpenActivation ==
    /\ Step("boot", "activation")
    /\ ValidActivation(disk.root, disk.place)
    /\ op' = IF disk.root.activation.on
             THEN [op EXCEPT !.step = "complete",
                             !.left = ActivationFiles(disk.root.activation.tables)]
             ELSE [op EXCEPT !.step = "migration"]
    /\ ghost' = [ghost EXCEPT !.sure = @ /\ Settled /\ durable.root = {disk.root}]
    /\ UNCHANGED <<disk, durable, store, mem, spent>>

RecoverMigrations ==
    /\ Step("boot", "migration")
    /\ ValidMigration(disk.root, disk.place, disk.manifest)
    /\ op' = IF disk.root.pending # NoJournal
             THEN [op EXCEPT !.step = "complete",
                             !.todo = SelectSeq(MigrationSteps(disk.root.pending.kind),
                                                LAMBDA part : part # "serve")]
             ELSE [op EXCEPT !.step = "open"]
    /\ UNCHANGED <<disk, durable, store, mem, ghost, spent>>

(* RemoveInterruptedOperations, OpenExistingTables.                          *)
OpenExistingTables ==
    LET tables == {i \in Ids : disk.place[i] = "tables"} IN
    /\ Step("boot", "open")
    /\ Cleaned(Names, tables)
    /\ OpenStores(tables, disk.root.floor)
    /\ mem' = [Down EXCEPT !.up = TRUE, !.floor = disk.root.floor,
                  !.served = [n \in Names |->
                      IF In("tables", n) = {} THEN NoTable ELSE CHOOSE i \in In("tables", n) : TRUE]]
    /\ End
    /\ UNCHANGED <<ghost, spent>>

(* The process dies; with a power loss the files are what the syncs made     *)
(* sure of.                                                                  *)
Crash ==
    /\ spent.crashes < MaxCrashes /\ Count("crashes", 1)
    /\ mem' = Down /\ op' = Boot
    /\ UNCHANGED <<disk, durable, store, ghost>>

PowerLoss ==
    /\ spent.crashes < MaxCrashes /\ Count("crashes", 1)
    /\ mem' = Down /\ op' = Boot
    /\ \E r \in durable.root, p \in durable.place :
       \E f \in [Ids -> UNION {durable.manifest[i] : i \in Ids}] :
          /\ \A i \in Ids : f[i] \in durable.manifest[i]
          /\ disk' = [root |-> r, place |-> p, manifest |-> f]
          /\ durable' = [root |-> {r}, place |-> {p}, manifest |-> [i \in Ids |-> {f[i]}]]
    /\ UNCHANGED <<store, ghost>>

(* A durable write of a served table, while no operation holds the table.    *)
(* A value too wide for the narrowed type is refused from the moment the     *)
(* narrowing is recorded.                                                    *)
Serving(n) ==
    /\ mem.up /\ ~mem.failed /\ mem.served[n] # NoTable
    /\ \/ op.kind \in {"idle", "create"}
       \/ op.kind \in {"drop", "alter", "narrow", "migrate"} /\ op.name # n
       \/ op.kind = "narrow" /\ op.step \in {"scan", "end", "undo"}
       \/ op.kind = "migrate" /\ op.step = "prepare"

Fits(i, wide) == wide => ~disk.manifest[i].pending /\ ~disk.manifest[i].narrow

Write(n, wide) ==
    LET i == mem.served[n] IN
    /\ Serving(n) /\ Fits(i, wide)
    /\ store[i].to < MaxTokens
    /\ store' = [store EXCEPT ![i].to = @ + 1, ![i].wide = @ \/ wide, ![i].written = TRUE]
    /\ UNCHANGED <<disk, durable, mem, op, ghost, spent>>

Migrating(m, n) ==
    \/ \E i \in Ids : MigrateCreate(m, n, i)
    \/ \E effect \in {"drop", "alter", "narrow", "noop"} : MigrateTable(m, effect, n)
    \/ StartMigration(m, "grant", n, NoTable, "migrate", "prepare") /\ UNCHANGED ghost

Next ==
    \/ \E n \in Names : \E i \in Ids : Create(n, i)
    \/ CreatePublish \/ CreateServe
    \/ \E n \in Names : Drop(n) \/ Grant(n) \/ Alter(n) \/ Narrow(n) \/ RecoverTable(n)
    \/ DropFloor \/ DropMove \/ DropForget
    \/ AlterRewrite \/ NarrowRecord \/ NarrowScan \/ EndNarrowing
    \/ EnableFeature \/ EnableDecide \/ CompleteFeatureActivation
    \/ \E m \in Migrations : \E n \in Names : Migrating(m, n)
    \/ MigratePrepare \/ MigrateDecide \/ CompleteMigrationJournal \/ MigrateServe
    \/ OpenActivation \/ RecoverMigrations \/ OpenExistingTables
    \/ Crash \/ PowerLoss
    \/ \E n \in Names : \E wide \in BOOLEAN : Write(n, wide)

Spec == Init /\ [][Next]_vars

-----------------------------------------------------------------------------
(* Whatever a power loss leaves, the next start finds under each name a      *)
(* table, at a version, that the answers given allow: the one of the last    *)
(* acknowledged statement, or also the result of a later one that failed or  *)
(* has not been answered (Create, Drop, RewriteManifest, Migrate).  Starts   *)
(* and decisions are taken to find durable files.                            *)
AcknowledgedTables ==
    ghost.sure => \A r \in durable.root, p \in durable.place, n \in Names :
        LET place == RedoPlace(r, p)
            found == {i \in Ids : place[i] = "tables" /\ disk.manifest[i].name = n}
        IN  /\ found = {} => <<NoTable, 0>> \in ghost.may[n]
            /\ \A i \in found : \A m \in durable.manifest[i] :
                  <<i, RedoManifest(r, i, m).version>> \in ghost.may[n]

(* The files a crash leaves always open: a pending decision finds every      *)
(* participant at its before or its after image                              *)
(* (ValidateMigrationJournal, ValidateParticipants), as long as decisions    *)
(* are taken on files that are durable.                                      *)
AlwaysOpens ==
    op.kind = "boot" /\ ghost.sure =>
        /\ op.step = "activation" => ValidActivation(disk.root, disk.place)
        /\ op.step = "migration" => ValidMigration(disk.root, disk.place, disk.manifest)

(* Between operations of a catalog that has not failed, every table in       *)
(* tables/ is served or its name is fenced, never both, and every served     *)
(* table is in tables/ (FenceTable, RetireTable, the undo of Create).        *)
NoTableLeftOut ==
    mem.up /\ ~mem.failed /\ op = Idle =>
        \A n \in Names :
            /\ mem.served[n] # NoTable => n \notin mem.fenced /\ In("tables", n) = {mem.served[n]}
            /\ In("tables", n) # {} => mem.served[n] # NoTable \/ n \in mem.fenced

(* No token of a dropped table is issued again by a later table of the name, *)
(* through any crash: RaiseVersionFloor and the floor of a drop's journal.   *)
TokensNeverReused ==
    ghost.sure => \A i, j \in Ids :
        i # j /\ disk.manifest[i].name = disk.manifest[j].name =>
            (store[i].from + 1 .. store[i].to) \cap (store[j].from + 1 .. store[j].to) = {}

(* With no decision pending, a migration is in the ledger exactly when its   *)
(* effect is on its table: a step is neither recorded and lost nor applied   *)
(* and forgotten, in any set of files a power loss may leave, on the same    *)
(* condition.                                                                *)
HasEffect(m, j, p, man) ==
    CASE j.kind = "create" -> p[j.id] \notin {"none", "staging"}
      [] j.kind = "drop" -> p[j.id] # "tables"
      [] j.kind \in {"alter", "narrow"} -> m \in man.marks
      [] OTHER -> TRUE
LedgerMatchesEffects ==
    ghost.sure => \A r \in durable.root, p \in durable.place :
        r.pending = NoJournal =>
            \A m \in Migrations :
                LET j == ghost.planned[m] IN
                j # NoJournal /\ j.kind \in {"create", "drop", "alter", "narrow"} =>
                    \A man \in durable.manifest[j.id] :
                        /\ m \in r.ledger => HasEffect(m, j, p, man)
                        /\ j.kind \in {"alter", "narrow"} /\ m \notin r.ledger =>
                              ~HasEffect(m, j, p, man)

(* With no activation pending, a start finds the feature on in the root      *)
(* manifest and in every table, or in none (CompleteFeatureActivationJournal *)
(* and the features a created table takes), on the same condition.           *)
FeaturesUniform ==
    ghost.sure => \A r \in durable.root, p \in durable.place :
        ~r.activation.on =>
            \A i \in Ids : RedoPlace(r, p)[i] = "tables" =>
                \A man \in durable.manifest[i] : man.feature = r.feature

(* A narrowed column holds only values that fit it: the writes that run      *)
(* between the recording and the end of a narrowing included.                *)
NarrowedFits ==
    \A i \in Ids : \A man \in durable.manifest[i] :
        man.narrow => ~store[i].wide

(* After an acknowledged drop no user holds a right on the name until one is *)
(* granted again: a later table of the name starts with no grants.           *)
DropForgetsGrants ==
    \A n \in ghost.forgot : \A r \in durable.root : n \notin RedoRoot(r).users

(* A table that acknowledged a durable write is there after a power loss     *)
(* unless it is being dropped.                                               *)
WrittenTablesStay ==
    \A n \in Names :
        LET i == mem.served[n] IN
        mem.up /\ i # NoTable /\ store[i].written
            /\ op.kind \notin {"drop", "migrate"} /\ ~mem.failed =>
            \A p \in durable.place : p[i] = "tables"

(* What a start finds, and what is served, is what was acknowledged; what is *)
(* said of written tables holds while decisions are taken on durable files.  *)
AsAcknowledged ==
    /\ AlwaysOpens /\ (ghost.sure => WrittenTablesStay) /\ AcknowledgedTables
    /\ NoTableLeftOut /\ DropForgetsGrants
    /\ TokensNeverReused /\ LedgerMatchesEffects /\ FeaturesUniform /\ NarrowedFits

(* A served table does not keep a narrowing that no operation will end.      *)
NarrowingEnds ==
    \A n \in Names :
        mem.up /\ ~mem.failed /\ op = Idle /\ mem.served[n] # NoTable =>
            ~disk.manifest[mem.served[n]].pending
=============================================================================
