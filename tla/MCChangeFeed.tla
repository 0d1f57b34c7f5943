---------------------------- MODULE MCChangeFeed ----------------------------
(* Small instances of ChangeFeed. *)
EXTENDS ChangeFeed, TLC

CONSTANTS p1, p2, c1

\* No definition names a producer.
Interchange == Permutations(Producers)

\* An oversized entry, or an exclusive section with a resumption.
FeedLoads == {[larges |-> 1, resumes |-> 0, sections |-> 0, again |-> FALSE],
              [larges |-> 0, resumes |-> 1, sections |-> 1, again |-> FALSE]}
\* Everything together.
AllLoads == {[larges |-> 1, resumes |-> 1, sections |-> 1, again |-> TRUE]}
=============================================================================
