--------------------------- MODULE MCHookDispatcher ---------------------------
(* Small instances of HookDispatcher for TLC.                              *)
EXTENDS HookDispatcher, TLC

CONSTANTS n1, n2, c1, p1, d1, d2

OneCallback == {c1}
OneDurable == {p1}
CallbackAndDurable == {c1, p1}
OneNamespace == {n1}
TwoNamespaces == {n1, n2}
OneDispatch == {d1}
TwoDispatches == {d1, d2}
NoSub == {}

\* The durable subscriptions are scoped to a stable id and their delivery hangs; the callback
\* is for all namespaces and dispatches.
StableScopes == [s \in Subs |-> IF s \in Durables THEN n1 ELSE None]
DispatchesAndHangs == [s \in Subs |-> IF s \in Durables THEN "hangs" ELSE "dispatches"]
=============================================================================
