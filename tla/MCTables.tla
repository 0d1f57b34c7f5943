------------------------------ MODULE MCTables ------------------------------
(***************************************************************************)
(* What the server keeps beside the chunks: the version clock of a table,  *)
(* the catalog of its tables, and the transactions of its connections. A   *)
(* behaviour runs one of the three and leaves the variables of the others  *)
(* alone.                                                                  *)
(***************************************************************************)
EXTENDS VersionClock, TLC

CONSTANTS p1, p2, n1, n2, m1, a, b, none   \* model values

VARIABLE part   \* the component that runs, for the whole of a behaviour
VARIABLES disk, durable, store, mem, op, ghost, spent, txn, sess, budget,
          stores, content, statements, acked, told, due

sessionVars == <<txn, sess, budget, stores, content, statements, acked, told, due>>
catalogVars == <<disk, durable, mem, op, ghost, spent>>

C_Names == {n1, n2}
C_Ids == {p1, p2}
C_Migrations == {m1}
C_Kinds == {"create", "drop", "grant", "alter", "narrow", "recover", "feature", "migrate"}
C == INSTANCE Catalog WITH
       Names <- C_Names, Ids <- C_Ids, NoTable <- none,
       Migrations <- C_Migrations, NoMigration <- none, Kinds <- C_Kinds,
       MaxOps <- 3, MaxFaults <- 1, MaxCrashes <- 1, MaxTokens <- 2

\* One name, and a second call that fails.
D_Names == {n1}
D == INSTANCE Catalog WITH
       Names <- D_Names, Ids <- C_Ids, NoTable <- none,
       Migrations <- C_Migrations, NoMigration <- none, Kinds <- C_Kinds,
       MaxOps <- 3, MaxFaults <- 2, MaxCrashes <- 1, MaxTokens <- 2

S_Sessions == {p1, p2}
S_Chunks == {a, b}
S_Sizes == {2}
S_Verbs == {"begin", "commit", "rollback", "other", "read", "set", "set chunk"}
S == INSTANCE TxnSessions WITH
       Sessions <- S_Sessions, Chunks <- S_Chunks, Sizes <- S_Sizes, Verbs <- S_Verbs,
       MaxBytes <- 3, TotalBytes <- 3, MaxWritten <- 2, MaxRead <- 1,
       MaxStatements <- 4, MaxStores <- 2

\* Copies that grow and shrink.
G_Sizes == {1, 2}
G_Verbs == {"begin", "commit", "set", "set chunk"}
G == INSTANCE TxnSessions WITH
       Sessions <- S_Sessions, Chunks <- S_Chunks, Sizes <- G_Sizes, Verbs <- G_Verbs,
       MaxBytes <- 3, TotalBytes <- 3, MaxWritten <- 2, MaxRead <- 1,
       MaxStatements <- 4, MaxStores <- 1

\* A transaction that commits after a write was refused.
B_Verbs == {"begin", "commit", "set"}
B == INSTANCE TxnSessions WITH
       Sessions <- S_Sessions, Chunks <- S_Chunks, Sizes <- S_Sizes, Verbs <- B_Verbs,
       MaxBytes <- 3, TotalBytes <- 3, MaxWritten <- 1, MaxRead <- 1,
       MaxStatements <- 5, MaxStores <- 1

\* Two transactions that write one chunk and commit.
L_Chunks == {a}
L_Sizes == {1}
L == INSTANCE TxnSessions WITH
       Sessions <- S_Sessions, Chunks <- L_Chunks, Sizes <- L_Sizes, Verbs <- B_Verbs,
       MaxBytes <- 3, TotalBytes <- 3, MaxWritten <- 2, MaxRead <- 1,
       MaxStatements <- 6, MaxStores <- 1

all == <<part, vars, store, catalogVars, sessionVars>>
NoSession == /\ txn = 0 /\ sess = 0 /\ budget = 0 /\ stores = 0 /\ content = 0
             /\ statements = 0 /\ acked = 0 /\ told = 0 /\ due = 0
NoCatalog == disk = 0 /\ durable = 0 /\ mem = 0 /\ op = 0 /\ ghost = 0 /\ spent = 0

PartInit ==
    /\ Init
    /\ \/ part = "clock" /\ store = 0 /\ NoCatalog /\ NoSession
       \/ /\ \/ part = "catalog" /\ C!Init
             \/ part = "faults" /\ D!Init
          /\ NoSession
       \/ part \in {"sessions", "growth", "budget"} /\ S!Init /\ NoCatalog
       \/ part = "commits" /\ L!Init /\ NoCatalog

PartNext ==
    \/ /\ part = "clock" /\ Next
       /\ UNCHANGED <<part, store, catalogVars, sessionVars>>
    \/ /\ \/ part = "catalog" /\ C!Next
          \/ part = "faults" /\ D!Next
       /\ UNCHANGED <<part, vars, sessionVars>>
    \/ /\ \/ part = "sessions" /\ S!Next
          \/ part = "growth" /\ G!Next
          \/ part = "budget" /\ B!Next
          \/ part = "commits" /\ L!Next
       /\ UNCHANGED <<part, vars, catalogVars>>

PartSpec == PartInit /\ [][PartNext]_all

\* Threads, table ids and sessions are interchangeable, and so are chunks.
Interchange == Permutations({p1, p2}) \cup Permutations({a, b})

-----------------------------------------------------------------------------
(* A start never refuses what a crash, a power loss or a failed call left  *)
(* of the catalog, its tables, their manifests and the journal of a        *)
(* migration. The tables it finds are exactly the acknowledged ones: no    *)
(* created or written table is missing, none that was dropped comes back   *)
(* or keeps grants, none is left out of serving, and no version token is   *)
(* issued again for a table whose name is reused. The journal of a         *)
(* migration tells which of its effects are there. What is said of files   *)
(* holds while decisions are taken, and starts begin, on durable ones      *)
(* (ghost.sure).                                                           *)
TablesAsAcknowledged ==
    /\ part = "catalog" => C!AsAcknowledged
    /\ part = "faults" => D!AsAcknowledged

(* A transaction that was used is not ended under its session. The table   *)
(* holds the acknowledged writes of the transactions whose COMMIT was      *)
(* answered, each done to what the commits before it left, and nothing of  *)
(* a refused statement or of a transaction that ended otherwise. No        *)
(* statement runs outside of the transaction it was sent in, and the bytes *)
(* of all private copies are counted exactly, within the limit.            *)
TxnsAsTold ==
    /\ part = "sessions" => S!AsTold
    /\ part = "growth" => G!AsTold
    /\ part = "budget" => B!AsTold
    /\ part = "commits" => L!AsTold
=============================================================================
