---------------------------- MODULE ForgetCascade ----------------------------
(***************************************************************************)
(* forget of a document (engines/vectorcypher/engine.py, engines/          *)
(* _forget_cascade.py) on a stack with pgvector and Neo4j, next to the     *)
(* ingests that write the same entities.  The cascade lists the entities   *)
(* of the namespace in pgvector and the relationships in the graph, and    *)
(* sorts those that name the document into orphans, which it deletes, and  *)
(* survivors, which lose the document; the vector store goes first, the    *)
(* graph follows by the ids found in the vector store.  There is no        *)
(* transaction and no lock around it.                                      *)
(*                                                                         *)
(* A row, a node or an edge is an id and the set of its source documents.  *)
(* Every document is ingested once, so the one that creates a row serves   *)
(* as its id, and no source can be there twice.  Chunks, facts and the     *)
(* document row go in one step.  Every edge has both endpoints, so the     *)
(* sweep of malformed edges finds none.                                    *)
(***************************************************************************)
EXTENDS Naturals, Sequences, FiniteSets

CONSTANTS
    Docs, Entities, Rels,
    Mentions,   \* the entities of each document
    Relates,    \* the relationships of each document
    Ends,       \* the endpoints of each relationship
    Forgets,    \* tasks that call forget
    MaxCalls,   \* bound: calls of forget
    MaxFaults,  \* bound: statements that raise, and crashes
    None

Items == Entities \cup Rels

\* A row, a node or an edge.
Record == [id : Docs, src : SUBSET Docs]

ASSUME CascadeAssumption ==
    /\ IsFiniteSet(Docs)
    /\ Entities \cap Rels = {} /\ None \notin Docs \cup Record
    /\ Ends \in [Rels -> SUBSET Entities]
    /\ Mentions \in [Docs -> SUBSET Entities] /\ Relates \in [Docs -> SUBSET Rels]
    /\ \A d \in Docs : \A x \in Relates[d] : Ends[x] \subseteq Mentions[d]
    /\ MaxCalls \in Nat /\ MaxFaults \in Nat

VARIABLES
    vector,  \* pgvector's entities
    graph,   \* Neo4j's nodes and edges
    doc,     \* the documents table: of each document, whether it has a row
    ingest,  \* how far the ingest of each document is, and the entity ids it holds
    call,    \* what each task is at
    calls, faults,
    torn,    \* history: <<document, item>> that an ingest wrote while a cascade had it as an orphan
    crossed, \* history: items that two cascades had as survivors at one time
    met,     \* history: documents whose ingest was under way during their own forget
    broken   \* history: documents with a forget or an ingest that did not reach its end

stores == <<vector, graph>>
history == <<torn, crossed, met, broken>>
vars == <<stores, doc, ingest, call, calls, faults, history>>

IdleCall == [pc |-> "idle", doc |-> None, orphans |-> {}, survivors |-> {}]
Written(d) == Mentions[d] \cup Relates[d]

\* The calls that hold an item as an orphan, and as a survivor.
OrphanOf(x) == {f \in Forgets : \E p \in call[f].orphans : p[1] = x}
SurvivorOf(x) == {f \in Forgets : \E p \in call[f].survivors : p[1] = x}

-------------------------------------------------------------------------------
\* Ingest.

Upserted(store, items, d, ids) ==
    [x \in DOMAIN store |->
       IF x \notin items THEN store[x]
       ELSE IF store[x] = None THEN [id |-> ids[x], src |-> {d}] ELSE [store[x] EXCEPT !.src = @ \cup {d}]]

Tear(d, items) == torn' = torn \cup {<<d, x>> : x \in {y \in items : OrphanOf(y) # {}}}

CreateDocument(d) ==
    /\ doc[d] = "absent"
    /\ doc' = [doc EXCEPT ![d] = "stored"]
    /\ ingest' = [ingest EXCEPT ![d].pc = "vector"]
    /\ UNCHANGED <<stores, call, calls, faults, history>>

\* upsert_entities_batch: the vector store commits first and gives each entity its row's id ...
UpsertVector(d) ==
    /\ ingest[d].pc = "vector"
    /\ vector' = Upserted(vector, Mentions[d], d, [e \in Entities |-> d])
    /\ ingest' = [ingest EXCEPT ![d] = [pc |-> "graph", ids |-> [e \in Mentions[d] |-> vector'[e].id]]]
    /\ Tear(d, Mentions[d])
    /\ UNCHANGED <<graph, doc, call, calls, faults, crossed, met, broken>>

\* ... then the graph, by name: a node that is there keeps its own id.
UpsertGraph(d) ==
    /\ ingest[d].pc = "graph"
    /\ graph' = Upserted(graph, Mentions[d], d, ingest[d].ids)
    /\ ingest' = [ingest EXCEPT ![d] = [pc |-> "relate", ids |-> [e \in Mentions[d] |-> graph'[e].id]]]
    /\ Tear(d, Mentions[d])
    /\ UNCHANGED <<vector, doc, call, calls, faults, crossed, met, broken>>

\* create_relationships_batch matches the endpoints by id and drops an edge without them; then
\* the document is marked completed.
Relate(d) ==
    LET matched == {r \in Relates[d] : \A e \in Ends[r] : graph[e] # None /\ graph[e].id = ingest[d].ids[e]}
    IN
    /\ ingest[d].pc = "relate"
    /\ graph' = Upserted(graph, matched, d, [r \in Rels |-> d])
    /\ ingest' = [ingest EXCEPT ![d].pc = "done"]
    /\ Tear(d, Relates[d])
    /\ UNCHANGED <<vector, doc, call, calls, faults, crossed, met, broken>>

-------------------------------------------------------------------------------
\* Forget.

\* forget: a document without a row is not forgotten.
Forget(f, d) ==
    /\ call[f].pc = "idle" /\ doc[d] = "stored" /\ calls < MaxCalls
    /\ calls' = calls + 1
    /\ call' = [call EXCEPT ![f] = [IdleCall EXCEPT !.pc = "list", !.doc = d]]
    /\ met' = IF ingest[d].pc = "done" THEN met ELSE met \cup {d}
    /\ UNCHANGED <<stores, doc, ingest, faults, torn, crossed, broken>>

\* A faulty IsOrphan: the length is not looked at.
IsOrphanListed(record, d) == d \in record.src

\* A faulty IsOrphan: off by one.
IsOrphanEmpty(record, d) == d \in record.src /\ Cardinality(record.src) = 0

IsOrphan(record, d) == d \in record.src /\ Cardinality(record.src) = 1

IsSurvivor(record, d) == d \in record.src /\ Cardinality(record.src) > 1

\* What a cascade keeps of the items it finds: the item and its id.
OrphansIn(store, items, d) == {<<x, store[x].id>> : x \in {y \in items : store[y] # None /\ IsOrphan(store[y], d)}}
SurvivorsIn(store, items, d) == {<<x, store[x].id>> : x \in {y \in items : store[y] # None /\ IsSurvivor(store[y], d)}}

\* The statements of the cascade in their order; one without ids is not sent.
Stages == <<"orphanRows", "orphanNodes", "orphanEdges", "survivorRows", "survivorNodes", "survivorEdges", "document">>
OfEntities(ps) == {p \in ps : p[1] \in Entities}
Targets(c, stage) ==
    CASE stage \in {"orphanRows", "orphanNodes"}     -> OfEntities(c.orphans)
      [] stage = "orphanEdges"                       -> c.orphans \ OfEntities(c.orphans)
      [] stage \in {"survivorRows", "survivorNodes"} -> OfEntities(c.survivors)
      [] stage = "survivorEdges"                     -> c.survivors \ OfEntities(c.survivors)
      [] OTHER                                       -> {}
Sent(c, n) == Stages[n] = "document" \/ Targets(c, Stages[n]) # {}
StageFrom(c, n) == Stages[CHOOSE m \in n .. Len(Stages) : Sent(c, m) /\ \A k \in n .. m - 1 : ~Sent(c, k)]
StageAfter(c) == StageFrom(c, 1 + CHOOSE n \in DOMAIN Stages : Stages[n] = c.pc)

\* list_entities of pgvector; the classification is of this snapshot.
ListEntities(f) ==
    LET d == call[f].doc IN
    /\ call[f].pc = "list"
    /\ call' = [call EXCEPT ![f].pc = "listEdges",
                            ![f].orphans = OrphansIn(vector, Entities, d),
                            ![f].survivors = SurvivorsIn(vector, Entities, d)]
    /\ crossed' = crossed \cup {p[1] : p \in {q \in call'[f].survivors : SurvivorOf(q[1]) \ {f} # {}}}
    /\ UNCHANGED <<stores, doc, ingest, calls, faults, torn, met, broken>>

\* list_relationships finds none in pgvector, and asks the graph.
ListRelationships(f) ==
    LET d == call[f].doc
        c == [call[f] EXCEPT !.orphans = @ \cup OrphansIn(graph, Rels, d),
                             !.survivors = @ \cup SurvivorsIn(graph, Rels, d)]
    IN
    /\ call[f].pc = "listEdges"
    /\ call' = [call EXCEPT ![f] = [c EXCEPT !.pc = StageFrom(c, 1)]]
    /\ crossed' = crossed \cup {p[1] : p \in {q \in c.survivors : SurvivorOf(q[1]) \ {f} # {}}}
    /\ UNCHANGED <<stores, doc, ingest, calls, faults, torn, met, broken>>

Hit(store, x, targets) == store[x] # None /\ <<x, store[x].id>> \in targets

\* A faulty Deleted: an orphan only loses its sources.
DeletedEmptied(store, targets) ==
    [x \in DOMAIN store |-> IF Hit(store, x, targets) THEN [store[x] EXCEPT !.src = {}] ELSE store[x]]

Deleted(store, targets) == [x \in DOMAIN store |-> IF Hit(store, x, targets) THEN None ELSE store[x]]

\* A faulty Detached: the node is deleted alone.
DetachedNot(g) == g

\* DETACH DELETE takes the edges of a node along.
Detached(g) == [x \in DOMAIN g |-> IF x \in Rels /\ \E e \in Ends[x] : g[e] = None THEN None ELSE g[x]]

\* remove_document_from_..._sources
Stripped(store, targets, d) ==
    [x \in DOMAIN store |-> IF Hit(store, x, targets) THEN [store[x] EXCEPT !.src = @ \ {d}] ELSE store[x]]

\* The stores after the statement a call is at.
Effect(c) ==
    LET t == Targets(c, c.pc) IN
    CASE c.pc = "orphanRows"                         -> <<Deleted(vector, t), graph>>
      [] c.pc \in {"orphanNodes", "orphanEdges"}     -> <<vector, Detached(Deleted(graph, t))>>
      [] c.pc = "survivorRows"                       -> <<Stripped(vector, t, c.doc), graph>>
      [] c.pc \in {"survivorNodes", "survivorEdges"} -> <<vector, Stripped(graph, t, c.doc)>>
      [] OTHER                                       -> stores

AtStage(f) == call[f].pc \in {Stages[n] : n \in DOMAIN Stages}

\* A statement of the cascade.
CascadeStep(f) ==
    /\ AtStage(f) /\ call[f].pc # "document"
    /\ vector' = Effect(call[f])[1] /\ graph' = Effect(call[f])[2]
    /\ call' = [call EXCEPT ![f].pc = StageAfter(call[f])]
    /\ UNCHANGED <<doc, ingest, calls, faults, history>>

\* The chunks and the document row are deleted and forget returns.
DeleteDocument(f) ==
    /\ call[f].pc = "document"
    /\ doc' = [doc EXCEPT ![call[f].doc] = "forgotten"]
    /\ call' = [call EXCEPT ![f] = IdleCall]
    /\ UNCHANGED <<stores, ingest, calls, faults, history>>

-------------------------------------------------------------------------------

\* A statement of a forget raises, perhaps after it took effect; the caller sees the exception.
ForgetRaises(f) ==
    /\ AtStage(f) /\ faults < MaxFaults
    /\ faults' = faults + 1
    /\ \E outcome \in {stores, Effect(call[f])} : vector' = outcome[1] /\ graph' = outcome[2]
    /\ call' = [call EXCEPT ![f] = IdleCall]
    /\ broken' = broken \cup {call[f].doc}
    /\ UNCHANGED <<doc, ingest, calls, torn, crossed, met>>

\* The process dies.
Crash ==
    /\ faults < MaxFaults
    /\ faults' = faults + 1
    /\ call' = [f \in Forgets |-> IdleCall]
    /\ ingest' = [d \in Docs |-> IF ingest[d].pc \in {"no", "done"} THEN ingest[d]
                                 ELSE [pc |-> "done", ids |-> <<>>]]
    /\ broken' = broken \cup {d \in Docs : ingest[d].pc \notin {"no", "done"} \/ \E f \in Forgets : call[f].doc = d}
    /\ UNCHANGED <<stores, doc, calls, torn, crossed, met>>

Init ==
    /\ vector = [e \in Entities |-> None] /\ graph = [x \in Items |-> None]
    /\ doc = [d \in Docs |-> "absent"]
    /\ ingest = [d \in Docs |-> [pc |-> "no", ids |-> <<>>]]
    /\ call = [f \in Forgets |-> IdleCall]
    /\ calls = 0 /\ faults = 0
    /\ torn = {} /\ crossed = {} /\ met = {} /\ broken = {}

Next ==
    \/ \E d \in Docs : CreateDocument(d) \/ UpsertVector(d) \/ UpsertGraph(d) \/ Relate(d)
    \/ \E f \in Forgets, d \in Docs : Forget(f, d)
    \/ \E f \in Forgets :
          ListEntities(f) \/ ListRelationships(f) \/ CascadeStep(f) \/ DeleteDocument(f) \/ ForgetRaises(f)
    \/ Crash

Spec == Init /\ [][Next]_vars

-------------------------------------------------------------------------------

\* Every variable has its type, and no edge outlives one of its endpoints (DETACH DELETE).
TypeOK ==
    /\ vector \in [Entities -> Record \cup {None}] /\ graph \in [Items -> Record \cup {None}]
    /\ doc \in [Docs -> {"absent", "stored", "forgotten"}]
    /\ \A r \in Rels : graph[r] # None => \A e \in Ends[r] : graph[e] # None
    /\ \A f \in Forgets : call[f].pc \in {"idle", "list", "listEdges"} \/ AtStage(f)

(* never hard-delete a still-referenced entity: what a document mentions   *)
(* stays, in both stores, with the document among its sources, as long as  *)
(* nobody forgets that document - through forgets of other documents that  *)
(* run together, raise half way or are repeated.  Excepted is what the     *)
(* document wrote while a cascade had it listed as an orphan.              *)
StillReferencedKept ==
    \A d \in Docs \ broken :
        ingest[d].pc = "done" /\ doc[d] = "stored" /\ (\A f \in Forgets : call[f].doc # d) =>
            /\ \A e \in Mentions[d] : <<d, e>> \in torn \/ (vector[e] # None /\ d \in vector[e].src)
            /\ \A x \in Written(d) : \/ \E y \in {x} \cup (IF x \in Rels THEN Ends[x] ELSE {}) : <<d, y>> \in torn
                                     \/ graph[x] # None /\ d \in graph[x].src

(* A forgotten document is named nowhere: not in the vector store, and not *)
(* in the graph unless a document that shares an item with it had a forget *)
(* or an ingest that broke off, or one during the other, or an item torn.  *)
(* Excepted are documents that were still being ingested when forgotten.   *)
ForgottenGone ==
    \A d \in Docs \ met :
        doc[d] = "forgotten" /\ (\A f \in Forgets : call[f].doc # d) =>
            /\ \A e \in Entities : vector[e] = None \/ d \notin vector[e].src
            /\ \A x \in Items :
                  graph[x] # None /\ d \in graph[x].src =>
                      \/ \E b \in broken \cup met : Written(b) \cap Written(d) # {}
                      \/ \E t \in torn : t[2] \in Written(d)

(* An entity whose last source is forgotten is deleted, so none is left    *)
(* without sources - unless two cascades had it as a survivor of each      *)
(* other's document.                                                       *)
NoneSourceless ==
    \A e \in Entities : vector[e] # None /\ vector[e].src = {} => e \in crossed
=============================================================================
