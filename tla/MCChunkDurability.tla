------------------------- MODULE MCChunkDurability -------------------------
(***************************************************************************)
(* The stores ChunkDurability is checked for: one chunk in relaxed mode    *)
(* with groups of two, under every operation and either a failing call or  *)
(* a crash, and under checkpoints and barriers and both; one chunk in a    *)
(* synced mode, under all of it; two chunks that share a directory and an  *)
(* unsynced set at its limit; and one chunk in each mode with two failing  *)
(* calls, the second of which may be the repair of the first.              *)
(***************************************************************************)
EXTENDS ChunkDurability

CONSTANTS c1, c2, b1, b2   \* model values

OneChunk == [chunks |-> {c1}, blocks |-> {b1, b2}, relaxed |-> TRUE, group |-> 2, limit |-> 8,
             ops |-> Operations, revs |-> 2, faults |-> 1, crashes |-> 1]
TwoChunks == [OneChunk EXCEPT !.chunks = {c1, c2}, !.blocks = {b1}, !.ops = {"checkpoint", "barrier"},
                              !.faults = 0, !.crashes = 0]
MCSettings ==
    {[OneChunk EXCEPT !.crashes = 0],
     [OneChunk EXCEPT !.faults = 0],
     [OneChunk EXCEPT !.blocks = {b1}, !.ops = {"checkpoint", "barrier"}],
     [OneChunk EXCEPT !.relaxed = FALSE, !.group = 1],
     [TwoChunks EXCEPT !.group = 1, !.limit = 1],
     [OneChunk EXCEPT !.blocks = {b1}, !.ops = {"barrier"}, !.faults = 2],
     [OneChunk EXCEPT !.blocks = {b1}, !.ops = {"checkpoint", "barrier"}, !.faults = 2,
                      !.relaxed = FALSE, !.group = 1]}

\* Blocks and chunks are interchangeable: no definition names one of them.
Interchange == Permutations({c1, c2}) \cup Permutations({b1, b2})
=============================================================================
