--------------------------- MODULE MCReplaceMirror ---------------------------
(* Small instances of ReplaceMirror for TLC.                               *)
EXTENDS ReplaceMirror, TLC

CONSTANTS d1, d2, e1, e2, t1, t2

OneDoc == {d1}
TwoDocs == {d1, d2}
OneEntity == {e1}
TwoEntities == {e1, e2}
OneTask == {t1}
TwoTasks == {t1, t2}

Symmetry == Permutations(Docs) \cup Permutations(Entities) \cup Permutations(Tasks)
=============================================================================
