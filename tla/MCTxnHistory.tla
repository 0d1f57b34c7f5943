---------------------------- MODULE MCTxnHistory ----------------------------
(* Small instances of TxnHistory. *)
EXTENDS TxnHistory, TLC

CONSTANTS t1, t2, w1, w2

\* Transactions and writers are interchangeable; the chunks are ordered.
Interchange == Permutations(Txns) \cup Permutations(Writers)
=============================================================================
