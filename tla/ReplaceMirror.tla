---------------------------- MODULE ReplaceMirror ----------------------------
(***************************************************************************)
(* Document replacement in the storage coordinator: Postgres commits the   *)
(* new chunks first, the graph backend is brought up to date after it, and *)
(* a graph phase that fails leaves its plan in documents.graph_mirror_-    *)
(* pending, which the drain at the start of every replace replays          *)
(* (storage/coordinator.py, storage/replace_mirror.py, backends/neo4j.py). *)
(*                                                                         *)
(* An extraction is the set of entity keys (name, type) it mentions.  The  *)
(* replaced row keeps its id (engine.py, _remember_via_replace), so the    *)
(* old and the new document id are one.  Relationships run through the     *)
(* same plan and verbs; of them only the failure of their last verb, after *)
(* the entities are written, is kept.  All documents are of one namespace. *)
(***************************************************************************)
EXTENDS Naturals, FiniteSets

CONSTANTS
    Docs,           \* document ids
    Entities,       \* entity keys
    Tasks,          \* concurrent replace and reconcile calls
    SameDocument,   \* whether two calls may replace one document at a time
    MaxReplaces,    \* bound: replace calls
    MaxReconciles,  \* bound: explicit reconcile calls
    MaxFaults,      \* bound: store calls that raise
    MaxCrashes,     \* bound: crashes of the process
    MaxCopies,      \* bound: copies of a document id in one source array
    None            \* no document, no plan

ASSUME ConstantsAssumption ==
    /\ None \notin Docs
    /\ SameDocument \in BOOLEAN
    /\ MaxReplaces \in Nat /\ MaxReconciles \in Nat /\ MaxFaults \in Nat /\ MaxCrashes \in Nat
    /\ MaxCopies \in Nat \ {0}

VARIABLES
    extraction, \* Postgres: what the committed content of a document mentions
    marker,     \* Postgres: documents.graph_mirror_pending
    node,       \* the graph's :Entity nodes
    task,       \* the calls
    count,      \* how often the bounded events happened
    exposed     \* history: documents whose mirror was cut short and not queued

vars == <<extraction, marker, node, task, count, exposed>>

Plan == [doc : Docs, retire : SUBSET Entities, remap : SUBSET Entities,
         strip : SUBSET Entities, fresh : SUBSET Entities]

\* NULL is no payload.
ASSUME PlanAssumption == None \notin Plan

\* source_document_ids is an array: how often it holds each document.
Node == [exists : BOOLEAN, sources : [Docs -> Nat], retired : BOOLEAN]

Verbs == {"retire", "remap", "strip", "upsert", "relate"}
TaskPcs == {"idle", "list", "drain", "replay", "clear", "commit", "mirror", "persist"}
Task == [pc : TaskPcs, doc : Docs \cup {None}, new : SUBSET Entities,
         backlog : SUBSET Plan, plan : Plan \cup {None}, verb : Verbs]

IdleTask == [pc |-> "idle", doc |-> None, new |-> {}, backlog |-> {}, plan |-> None,
             verb |-> "retire"]

\* A call to a store raises.
Fault == count.faults < MaxFaults /\ count' = [count EXCEPT !.faults = @ + 1]

-----------------------------------------------------------------------------
(* The plan, and the verbs that carry it out.                              *)

\* size(source_document_ids) = 1, for a node known to hold d.
SoleSource(e, d) ==
    /\ node[e].sources[d] = 1
    /\ \A other \in Docs \ {d} : node[e].sources[other] = 0

\* fetch_document_extraction_state and the classification: an old entity that is
\* mentioned again survives, one no other document sources is retired, the rest
\* lose the document; new keys the document did not source are net-new.
Classify(d, new) ==
    LET old == {e \in Entities : node[e].sources[d] > 0}
    IN  [doc    |-> d,
         remap  |-> old \cap new,
         retire |-> {e \in old \ new : SoleSource(e, d)},
         strip  |-> {e \in old \ new : ~SoleSource(e, d)},
         fresh  |-> new \ old]

\* retire_orphaned_entities_batch stamps valid_until and keeps the sources.
Retired(p) == [e \in Entities |-> IF e \in p.retire THEN [node[e] EXCEPT !.retired = TRUE] ELSE node[e]]

\* remap_source_document_ids_batch leaves one copy of the document where there was any.
Remapped(p) ==
    [e \in Entities |-> IF e \in p.remap /\ node[e].sources[p.doc] > 0
                        THEN [node[e] EXCEPT !.sources[p.doc] = 1] ELSE node[e]]

\* A faulty Stripped: a removal counted down, which a replay counts down again.
StrippedOnce(p) ==
    [e \in Entities |-> IF e \in p.strip THEN [node[e] EXCEPT !.sources[p.doc] = @ - 1] ELSE node[e]]

\* remove_document_from_entity_sources_batch removes every copy.
Stripped(p) ==
    [e \in Entities |-> IF e \in p.strip THEN [node[e] EXCEPT !.sources[p.doc] = 0] ELSE node[e]]

\* upsert_entities_batch: MERGE creates the node, or appends the document to the
\* array of the one it finds, whose valid_until it leaves alone.
Upserted(p) ==
    [e \in Entities |-> IF e \in p.fresh
                        THEN [node[e] EXCEPT !.exists = TRUE,
                                 !.sources[p.doc] = IF @ < MaxCopies THEN @ + 1 ELSE @]
                        ELSE node[e]]

\* The graph after a verb.
Apply(verb, p) ==
    CASE verb = "retire" -> Retired(p)
      [] verb = "remap"  -> Remapped(p)
      [] verb = "strip"  -> Stripped(p)
      [] verb = "upsert" -> Upserted(p)
      [] verb = "relate" -> node

After == [retire |-> "remap", remap |-> "strip", strip |-> "upsert", upsert |-> "relate"]

-----------------------------------------------------------------------------
(* One call.                                                               *)

BeginReplace(t, d, new) ==
    /\ task[t].pc = "idle" /\ count.replaces < MaxReplaces
    /\ SameDocument \/ \A u \in Tasks : task[u].doc # d
    /\ task' = [task EXCEPT ![t] = [IdleTask EXCEPT !.pc = "list", !.doc = d, !.new = new]]
    /\ count' = [count EXCEPT !.replaces = @ + 1]
    /\ UNCHANGED <<extraction, marker, node, exposed>>

\* reconcile_replace_graph_mirror called by an operator: the drain alone.
BeginReconcile(t) ==
    /\ task[t].pc = "idle" /\ count.reconciles < MaxReconciles
    /\ task' = [task EXCEPT ![t].pc = "list"]
    /\ count' = [count EXCEPT !.reconciles = @ + 1]
    /\ UNCHANGED <<extraction, marker, node, exposed>>

\* The drain reads the pending payloads; a failed read is an empty list.
ListPending(t) ==
    /\ task[t].pc = "list"
    /\ \/ /\ task' = [task EXCEPT ![t].pc = "drain",
                         ![t].backlog = {marker[d] : d \in {x \in Docs : marker[x] # None}}]
          /\ UNCHANGED count
       \/ Fault /\ task' = [task EXCEPT ![t].pc = "drain"]
    /\ UNCHANGED <<extraction, marker, node, exposed>>

\* The next payload of the list, in any order (the code sorts by updated_at).
TakePayload(t) ==
    /\ task[t].pc = "drain"
    /\ \E p \in task[t].backlog :
          task' = [task EXCEPT ![t].pc = "replay", ![t].plan = p, ![t].verb = "retire",
                               ![t].backlog = @ \ {p}]
    /\ UNCHANGED <<extraction, marker, node, count, exposed>>

\* The list is done: a reconcile call returns, a replace prefetches and plans.
Prefetch(t) ==
    /\ task[t].pc = "drain" /\ task[t].backlog = {}
    /\ \/ /\ task[t].doc = None
          /\ task' = [task EXCEPT ![t] = IdleTask]
          /\ UNCHANGED count
       \/ /\ task[t].doc # None
          /\ task' = [task EXCEPT ![t].pc = "commit", ![t].plan = Classify(task[t].doc, task[t].new)]
          /\ UNCHANGED count
       \/ task[t].doc # None /\ Fault /\ task' = [task EXCEPT ![t] = IdleTask]
    /\ UNCHANGED <<extraction, marker, node, exposed>>

\* A faulty Commit: the marker of the superseded extraction stays.
CommitKeepsMarker(t) ==
    LET d == task[t].doc
    IN  /\ task[t].pc = "commit"
        /\ task' = [task EXCEPT ![t].pc = "mirror", ![t].verb = "retire"]
        /\ extraction' = [extraction EXCEPT ![d] = task[t].new]
        /\ UNCHANGED <<marker, node, count, exposed>>

\* The Postgres transaction: chunks, COMPLETED and a cleared marker; or a rollback.
Commit(t) ==
    LET d == task[t].doc
    IN  /\ task[t].pc = "commit"
        /\ \/ /\ extraction' = [extraction EXCEPT ![d] = task[t].new]
              /\ marker' = [marker EXCEPT ![d] = None]
              /\ task' = [task EXCEPT ![t].pc = "mirror", ![t].verb = "retire"]
              /\ UNCHANGED count
           \/ Fault /\ task' = [task EXCEPT ![t] = IdleTask] /\ UNCHANGED <<extraction, marker>>
        /\ UNCHANGED <<node, exposed>>

\* One verb of the plan, of the replace's own or of a replayed payload.  After the
\* last one a replay goes on to clear its marker and a replace returns.
Verb(t) ==
    LET last == task[t].verb = "relate"
    IN  /\ task[t].pc \in {"replay", "mirror"}
        /\ node' = Apply(task[t].verb, task[t].plan)
        /\ task' = [task EXCEPT ![t] = IF ~last THEN [@ EXCEPT !.verb = After[task[t].verb]]
                                       ELSE IF @.pc = "replay" THEN [@ EXCEPT !.pc = "clear"]
                                       ELSE IdleTask]
        /\ exposed' = IF last /\ task[t].pc = "mirror" THEN exposed \ {task[t].doc} ELSE exposed
        /\ UNCHANGED <<extraction, marker, count>>

\* A faulty VerbFault: a payload that could not be replayed is cleared as well.
VerbFaultClears(t) ==
    /\ task[t].pc \in {"replay", "mirror"}
    /\ Fault
    /\ task' = [task EXCEPT ![t].pc = IF @ = "replay" THEN "clear" ELSE "persist"]
    /\ UNCHANGED <<extraction, marker, node, exposed>>

\* A verb raises: a replayed payload stays queued, a replace goes on to queue its plan.
VerbFault(t) ==
    /\ task[t].pc \in {"replay", "mirror"}
    /\ Fault
    /\ task' = [task EXCEPT ![t].pc = IF @ = "replay" THEN "drain" ELSE "persist"]
    /\ UNCHANGED <<extraction, marker, node, exposed>>

\* The replayed payload's marker is set to NULL, whatever it holds by now (best effort).
ClearMarker(t) ==
    /\ task[t].pc = "clear"
    /\ \/ marker' = [marker EXCEPT ![task[t].plan.doc] = None] /\ UNCHANGED count
       \/ Fault /\ UNCHANGED marker
    /\ task' = [task EXCEPT ![t].pc = "drain"]
    /\ UNCHANGED <<extraction, node, exposed>>

\* The failed graph phase's plan is queued (best effort) and the call raises.
Persist(t) ==
    LET d == task[t].doc
    IN  /\ task[t].pc = "persist"
        /\ \/ /\ marker' = [marker EXCEPT ![d] = task[t].plan]
              /\ exposed' = exposed \ {d}
              /\ UNCHANGED count
           \/ Fault /\ exposed' = exposed \cup {d} /\ UNCHANGED marker
        /\ task' = [task EXCEPT ![t] = IdleTask]
        /\ UNCHANGED <<extraction, node>>

\* The process dies: a document between its commit and its marker is not queued.
Crash ==
    /\ count.crashes < MaxCrashes
    /\ \E t \in Tasks : task[t].pc # "idle"
    /\ task' = [t \in Tasks |-> IdleTask]
    /\ exposed' = exposed \cup {task[t].doc : t \in {u \in Tasks : task[u].pc \in {"mirror", "persist"}}}
    /\ count' = [count EXCEPT !.crashes = @ + 1]
    /\ UNCHANGED <<extraction, marker, node>>

-----------------------------------------------------------------------------
\* The documents were ingested by remember(), which wrote graph and Postgres alike.
Init ==
    /\ extraction \in [Docs -> SUBSET Entities]
    /\ marker = [d \in Docs |-> None]
    /\ node = [e \in Entities |->
                  [exists |-> \E d \in Docs : e \in extraction[d],
                   sources |-> [d \in Docs |-> IF e \in extraction[d] THEN 1 ELSE 0],
                   retired |-> FALSE]]
    /\ task = [t \in Tasks |-> IdleTask]
    /\ count = [replaces |-> 0, reconciles |-> 0, faults |-> 0, crashes |-> 0]
    /\ exposed = {}

TaskStep(t) ==
    \/ \E d \in Docs, new \in SUBSET Entities : BeginReplace(t, d, new)
    \/ BeginReconcile(t) \/ ListPending(t) \/ TakePayload(t) \/ Prefetch(t) \/ Commit(t)
    \/ Verb(t) \/ VerbFault(t) \/ ClearMarker(t) \/ Persist(t)

Next == Crash \/ \E t \in Tasks : TaskStep(t)

Spec == Init /\ [][Next]_vars

-----------------------------------------------------------------------------
\* Every variable of the two stores and of the calls has its type.
TypeOK ==
    /\ extraction \in [Docs -> SUBSET Entities]
    /\ marker \in [Docs -> Plan \cup {None}]
    /\ node \in [Entities -> Node]
    /\ task \in [Tasks -> Task]
    /\ count \in [replaces : 0..MaxReplaces, reconciles : 0..MaxReconciles,
                  faults : 0..MaxFaults, crashes : 0..MaxCrashes]
    /\ exposed \subseteq Docs

\* Nothing is under way or outstanding for d: its last replace was mirrored, or its
\* queued plan has been replayed.
Settled(d) ==
    /\ marker[d] = None /\ d \notin exposed
    /\ \A t \in Tasks : task[t].pc \in {"replay", "clear", "mirror", "persist"} => task[t].plan.doc # d

\* Once a document is settled, every entity its committed content mentions counts it
\* among its sources, whichever verbs failed and were replayed: an unmirrored commit
\* is queued, or "healed by the next successful replace" (replace_document_extraction).
CommittedMirrored ==
    \A d \in Docs : Settled(d) => \A e \in extraction[d] : node[e].sources[d] > 0

\* Once a document is settled, an entity that counts it as a source without being
\* mentioned by it any more is retired: no superseded extraction is live, "replaying
\* it after this replace would inject stale entities" (replace_document_extraction).
DroppedRetired ==
    \A d \in Docs : Settled(d) =>
        \A e \in Entities \ extraction[d] : node[e].sources[d] > 0 => node[e].retired
=============================================================================
