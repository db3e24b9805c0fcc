-------------------------- MODULE HookSubscriptions --------------------------
(***************************************************************************)
(* Who listens to the hooks of a Khora process (hooks/dispatcher.py): the  *)
(* in-process callbacks of subscribe, which die with the process, and the  *)
(* durable subscriptions of subscribe_persistent, which keep a row in      *)
(* khora_hook_subscriptions and are loaded by connect.                     *)
(*                                                                         *)
(* All subscriptions are to one event type: _subscriptions and _persistent *)
(* hold one list for each type and the lists never meet.  A dispatch walks *)
(* the list object it found, so the module tells list objects apart: add   *)
(* appends to the list in place, remove puts a new list in its place.      *)
(***************************************************************************)
EXTENDS Naturals, Sequences, FiniteSets, SequencesExt, Sublists

CONSTANTS
    Callbacks,      \* in-process subscriptions
    Durables,       \* durable subscriptions
    Present,        \* those of either kind that are there at first
    MaxConnects,    \* bound: connects after the first, of the same process or a new one
    MaxDisturbances \* bound: statements and lookups that raise, new versions and cancelled
                    \* dispatches, all together

ASSUME SubscriptionAssumption ==
    /\ Callbacks \cap Durables = {} /\ Present \subseteq Callbacks \cup Durables
    /\ IsFiniteSet(Callbacks) /\ IsFiniteSet(Durables)
    /\ MaxConnects \in Nat /\ MaxDisturbances \in Nat

VARIABLES
    lists,   \* _subscriptions and _persistent: a list object (0: none is stored) and what it holds
    fresh,   \* list objects made so far
    status,  \* of each subscription, as its owner sees it
    rows,    \* khora_hook_subscriptions
    load,    \* load_persistent: not running, about to read, or the records it read
    degraded,\* _last_persist_degradation: the durable subscriptions whose statement raised
    raced,   \* history: durable subscriptions registered or removed while a load ran
    loaded,  \* history: the last load did not raise
    connects, disturbances \* how many there were

subscriptions == <<lists, fresh, status, rows, load, degraded, raced, loaded, connects>>

Kinds == {"callback", "durable"}
Subs == Callbacks \cup Durables
KindOf(s) == IF s \in Callbacks THEN "callback" ELSE "durable"
Statuses == {"new", "persisting", "on", "deleting", "off"}
Idle == [phase |-> "no", records |-> {}]
NoList == [id |-> 0, subs |-> <<>>]
Memory == ToSet(lists["durable"].subs)

Disturb == disturbances < MaxDisturbances /\ disturbances' = disturbances + 1

\* list.append on the list of the kind; the defaultdict makes one if there is none.
Appended(k, s) ==
    LET l == lists[k] IN
    /\ lists' = [lists EXCEPT ![k] = [id |-> IF l.id = 0 THEN fresh + 1 ELSE l.id, subs |-> Append(l.subs, s)]]
    /\ fresh' = IF l.id = 0 THEN fresh + 1 ELSE fresh

\* The list is replaced by one without the subscription, to which more is appended.
Without(k, s, more) ==
    /\ \E rest \in Lists(lists[k].subs) :
          /\ InOrder(rest, ToSet(lists[k].subs) \ {s}, lists[k].subs)
          /\ lists' = [lists EXCEPT ![k] = [id |-> fresh + 1, subs |-> rest \o more]]
    /\ fresh' = fresh + 1

Subscribe(s) ==
    /\ s \in Callbacks /\ status[s] = "new"
    /\ Appended("callback", s)
    /\ status' = [status EXCEPT ![s] = "on"]
    /\ UNCHANGED <<rows, load, degraded, raced, loaded, connects, disturbances>>

Unsubscribe(s) ==
    /\ s \in Callbacks /\ status[s] = "on"
    /\ Without("callback", s, <<>>)
    /\ status' = [status EXCEPT ![s] = "off"]
    /\ UNCHANGED <<rows, load, degraded, raced, loaded, connects, disturbances>>

\* The outcomes of a store statement that takes the rows to r: it commits, or it raises,
\* perhaps after the commit took effect.
Statement(p, r) ==
    \/ rows' = r /\ UNCHANGED <<degraded, disturbances>>
    \/ /\ Disturb
       /\ rows' \in {rows, r}
       /\ degraded' = degraded \cup {p}

Raced(p) == IF load.phase = "no" THEN raced ELSE raced \cup {p}

\* register_persistent up to the return of persist, which happens in this step.
Persist(p) ==
    /\ p \in Durables /\ status[p] = "new"
    /\ Statement(p, rows \cup {p})
    /\ status' = [status EXCEPT ![p] = "persisting"]
    /\ raced' = Raced(p)
    /\ UNCHANGED <<lists, fresh, load, loaded, connects>>

\* A faulty Registered: a copy that a load has put there stays.
RegisteredTwice(p) ==
    /\ p \in Durables /\ status[p] = "persisting"
    /\ Appended("durable", p)
    /\ status' = [status EXCEPT ![p] = "on"]
    /\ raced' = Raced(p)
    /\ UNCHANGED <<rows, load, degraded, loaded, connects, disturbances>>

\* _add_persistent_in_memory: a copy of the same id, from a load, goes first.
Registered(p) ==
    /\ p \in Durables /\ status[p] = "persisting"
    /\ IF p \in Memory THEN Without("durable", p, <<p>>) ELSE Appended("durable", p)
    /\ status' = [status EXCEPT ![p] = "on"]
    /\ raced' = Raced(p)
    /\ UNCHANGED <<rows, load, degraded, loaded, connects, disturbances>>

\* unregister_persistent up to its await; it returns False for one that is not in memory.
Unregister(p) ==
    /\ p \in Memory /\ status[p] = "on"
    /\ Without("durable", p, <<>>)
    /\ status' = [status EXCEPT ![p] = "deleting"]
    /\ raced' = Raced(p)
    /\ UNCHANGED <<rows, load, degraded, loaded, connects, disturbances>>

\* A faulty DeleteRow: the subscription is only removed from memory, as clear() does.
DeleteRowNever(p) ==
    /\ p \in Durables /\ status[p] = "deleting"
    /\ status' = [status EXCEPT ![p] = "off"]
    /\ raced' = Raced(p)
    /\ UNCHANGED <<lists, fresh, rows, load, degraded, loaded, connects, disturbances>>

\* The rest of unregister_persistent: a delete that raises is logged.
DeleteRow(p) ==
    /\ p \in Durables /\ status[p] = "deleting"
    /\ Statement(p, rows \ {p})
    /\ status' = [status EXCEPT ![p] = "off"]
    /\ raced' = Raced(p)
    /\ UNCHANGED <<lists, fresh, load, loaded, connects>>

\* load_all reads the table.
LoadRead ==
    /\ load.phase = "read"
    /\ load' = [phase |-> "apply", records |-> rows]
    /\ UNCHANGED <<lists, fresh, status, rows, degraded, raced, loaded, connects, disturbances>>

\* The records replace what is in memory; the rows of earlier processes belong to nobody new.
LoadApply ==
    /\ load.phase = "apply"
    /\ lists' = [lists EXCEPT !["durable"] =
                   IF load.records = {} THEN NoList
                   ELSE [id |-> fresh + 1, subs |-> SetToSeq(load.records)]]
    /\ fresh' = IF load.records = {} THEN fresh ELSE fresh + 1
    /\ load' = Idle
    /\ loaded' = TRUE
    /\ UNCHANGED <<status, rows, degraded, raced, connects, disturbances>>

\* load_all raises: zero subscriptions are loaded and connect goes on.
LoadFails ==
    /\ load.phase = "read" /\ Disturb
    /\ load' = Idle
    /\ loaded' = FALSE
    /\ UNCHANGED <<lists, fresh, status, rows, degraded, raced, connects>>

\* disconnect, then connect, of one process: the dispatcher and its lists stay.
Reconnect ==
    /\ load.phase = "no" /\ connects < MaxConnects
    /\ connects' = connects + 1
    /\ load' = [Idle EXCEPT !.phase = "read"]
    /\ raced' = raced \cup {p \in Durables : status[p] \in {"persisting", "deleting"}}
    /\ UNCHANGED <<lists, fresh, status, rows, degraded, loaded, disturbances>>

\* A new process: calls under way are gone, and callbacks are to be subscribed again.
RestartSubscriptions ==
    /\ connects < MaxConnects
    /\ connects' = connects + 1
    /\ lists' = [k \in Kinds |-> NoList]
    /\ status' = [s \in Subs |->
                    CASE s \in Callbacks          -> "new"
                      [] status[s] = "persisting" -> IF s \in rows THEN "on" ELSE "off"
                      [] status[s] = "deleting"   -> IF s \in rows THEN "on" ELSE "off"
                      [] OTHER                    -> status[s]]
    /\ load' = [Idle EXCEPT !.phase = "read"]
    /\ raced' = {}
    /\ UNCHANGED <<fresh, rows, degraded, loaded, disturbances>>

\* A process that has connected, with what it loaded and what was subscribed since.
SubscriptionsInit ==
    /\ lists = [k \in Kinds |-> LET held == {s \in Present : KindOf(s) = k} IN
                  IF held = {} THEN NoList
                  ELSE [id |-> IF k = "callback" THEN 1 ELSE 2, subs |-> SetToSeq(held)]]
    /\ fresh = 2
    /\ status = [s \in Subs |-> IF s \in Present THEN "on" ELSE "new"]
    /\ rows = Present \cap Durables
    /\ load = Idle
    /\ degraded = {} /\ raced = {} /\ loaded = TRUE
    /\ connects = 0 /\ disturbances = 0

SubscriptionStep ==
    \/ \E s \in Callbacks : Subscribe(s) \/ Unsubscribe(s)
    \/ \E p \in Durables : Persist(p) \/ Registered(p) \/ Unregister(p) \/ DeleteRow(p)
    \/ LoadRead \/ LoadApply \/ LoadFails \/ Reconnect

\* Every variable has its type, and no list holds a subscription twice (_add_persistent_in_memory).
SubscriptionsTypeOK ==
    /\ \A k \in Kinds : lists[k].id \in 0 .. fresh /\ IsInjective(lists[k].subs)
    /\ ToSet(lists["callback"].subs) = {s \in Callbacks : status[s] = "on"}
    /\ Memory \subseteq Durables /\ rows \subseteq Durables
    /\ status \in [Subs -> Statuses]
    /\ load.phase \in {"no", "read", "apply"} /\ load.records \subseteq Durables

(* A durable subscription is where its owner thinks it is: once registered, *)
(* in memory and in the table, through restarts and reloads; once removed,  *)
(* in neither.  Excepted are those whose own statement raised (the code     *)
(* records a degradation), a load that raised, and those registered or      *)
(* removed while a load was under way, which load_persistent overwrites.    *)
DurableKept ==
    load.phase = "no" /\ loaded =>
        \A p \in Durables \ (degraded \cup raced) :
            /\ status[p] = "on"  => p \in Memory /\ p \in rows
            /\ status[p] = "off" => p \notin Memory /\ p \notin rows
=============================================================================
