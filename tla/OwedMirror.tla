----------------------------- MODULE OwedMirror -----------------------------
(***************************************************************************)
(* What the dream phase promises of the graph: an outbox.  A change is     *)
(* committed to the primary store together with the debt to replicate it;  *)
(* the replica changes only to pay a debt, and a debt is struck off only   *)
(* when the replica holds what it was for.  Crashes, retries, resumed runs *)
(* and reconcilers are not visible at this level (graph_mirror.py,         *)
(* orchestrator.py: _pre_mark_graph_mirror_pending, _mirror_dream_op,      *)
(* _drain_graph_mirror_pending).                                           *)
(***************************************************************************)

CONSTANTS
    Items,  \* what operations are about
    Parts   \* the parts of an operation's effect on a store

VARIABLES
    primary,  \* the parts committed, by item
    replica,  \* the parts replicated, by item
    owed      \* the item and part of each open debt

vars == <<primary, replica, owed>>

Init ==
    /\ primary = [i \in Items |-> {}]
    /\ replica = [i \in Items |-> {}]
    /\ owed = {}

\* A transaction commits parts of an item and the debt for them.
Commit(i, parts) ==
    /\ primary' = [primary EXCEPT ![i] = @ \cup parts]
    /\ owed' = owed \cup ({i} \X parts)
    /\ UNCHANGED replica

\* A debt is paid; paying it again changes nothing.
Replicate(i, part) ==
    /\ <<i, part>> \in owed
    /\ replica' = [replica EXCEPT ![i] = @ \cup {part}]
    /\ UNCHANGED <<primary, owed>>

\* Debts that are paid are struck off.
Settle(i) ==
    /\ \E paid \in SUBSET replica[i] : owed' = owed \ ({i} \X paid)
    /\ UNCHANGED <<primary, replica>>

Next ==
    \E i \in Items :
      \/ \E parts \in SUBSET Parts : Commit(i, parts)
      \/ \E part \in Parts : Replicate(i, part)
      \/ Settle(i)

Spec == Init /\ [][Next]_vars
=============================================================================
