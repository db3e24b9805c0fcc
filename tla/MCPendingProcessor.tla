------------------------ MODULE MCPendingProcessor -------------------------
(* Small instances of PendingProcessor for TLC.                            *)
EXTENDS PendingProcessor, TLC

CONSTANTS d1, d2, b1, b2, w1, w2

OneDoc == {d1}
TwoDocs == {d1, d2}
OneBatch == {b1}
TwoBatches == {b1, b2}
OneWorker == {w1}
TwoWorkers == {w1, w2}
NoRow == {"absent"}
NoRowOrArchived == {"absent", "archived"}

Symmetry == Permutations(Docs) \cup Permutations(Batches) \cup Permutations(Workers)
=============================================================================
