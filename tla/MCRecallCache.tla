--------------------------- MODULE MCRecallCache ---------------------------
(* Small instances of RecallCache for TLC.                                 *)
EXTENDS RecallCache, TLC

CONSTANTS n1, n2, q1, q2, r1, r2, w1, w2

OneNamespace == {n1}
TwoNamespaces == {n1, n2}
OneQuery == {q1}
TwoQueries == {q1, q2}
TwoRecalls == {r1, r2}
OneRecall == {r1}
OneWriter == {w1}
EveryKind == AllKinds
BumpLast == {"remember"}

Symmetry == Permutations(Namespaces) \cup Permutations(Queries)
            \cup Permutations(Recalls) \cup Permutations(Writers)
=============================================================================
