------------------------------- MODULE MCDream -------------------------------
(* Small instances of Dream for TLC.                                       *)
EXTENDS Dream, TLC

CONSTANTS a1, e1, e2, m1, k1, r1, r2, c1, c2

OneAudit == {a1}
OneEdge == {e1}
TwoEdges == {e1, e2}
OneMerge == {m1}
OneCommunity == {k1}
TwoRuns == {r1, r2}
OneRun == {r1}
TwoCalls == {c1, c2}
OneCall == {c1}

\* Audits, communities, edges, merges: the order of plan_dream.
FullOrder == <<a1, k1, e1, m1>>
EdgeOrder == <<e1, e2>>

Symmetry == Permutations(Runs) \cup Permutations(Calls)
=============================================================================
