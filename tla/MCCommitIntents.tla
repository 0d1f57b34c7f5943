-------------------------- MODULE MCCommitIntents --------------------------
(***************************************************************************)
(* The stores CommitIntents is checked for: two transactions over two      *)
(* chunks beside ordinary writes, with a third revision or a failing call; *)
(* conditional writes, a transaction and checkpoints of one chunk in a     *)
(* synced mode with up to four failing calls; and the same in relaxed      *)
(* mode, where a conditional write and its rollback are not synced.        *)
(***************************************************************************)
EXTENDS CommitIntents

CONSTANTS c1, c2, t1, t2   \* model values

Transactions == [chunks |-> {c1, c2}, txns |-> {t1, t2}, relaxed |-> FALSE, ops |-> {"write"},
                 revs |-> 3, faults |-> 1, crashes |-> 2]
Conditionals == [chunks |-> {c1}, txns |-> {t1}, relaxed |-> FALSE,
                 ops |-> {"write", "conditional", "checkpoint"},
                 revs |-> 3, faults |-> 4, crashes |-> 2]
MCSettings == {[Transactions EXCEPT !.faults = 0], [Transactions EXCEPT !.revs = 2],
               Conditionals, [Conditionals EXCEPT !.relaxed = TRUE, !.faults = 2]}

\* Chunks are interchangeable, and so are transactions: no action or property
\* orders them.
Interchange == Permutations({c1, c2}) \cup Permutations({t1, t2})
=============================================================================
