--------------------------- MODULE MCForgetCascade ---------------------------
(* Small instances of ForgetCascade for TLC.                               *)
EXTENDS ForgetCascade, TLC

CONSTANTS d1, d2, ea, eb, ec, rel, f1, f2

TwoDocs == {d1, d2}
ThreeEntities == {ea, eb, ec}
OneRel == {rel}
TwoForgets == {f1, f2}

\* Both documents mention two entities and relate them; one mentions a third as well.
SharedMentions == [d \in Docs |-> IF d = d1 THEN {ea, eb} ELSE {ea, eb, ec}]
SharedRelates == [d \in Docs |-> Rels]
EndsOfRel == [x \in Rels |-> {ea, eb}]

Symmetry == Permutations(Forgets)
=============================================================================
