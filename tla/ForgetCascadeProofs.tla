------------------------- MODULE ForgetCascadeProofs -------------------------
(***************************************************************************)
(* Proofs about ForgetCascade.  BaseInv says what every state of the model *)
(* looks like: the types, what a call holds by its stage, and that a       *)
(* source of an item has written it.  On top of it stand one invariant per *)
(* property: SourcesInv for the entities without sources, KeepInv for what *)
(* is still referenced, and GoneInv and MatchInv for what is forgotten.    *)
(***************************************************************************)
EXTENDS ForgetCascade, FiniteSetTheorems, TLAPS

StageNames == {"orphanRows", "orphanNodes", "orphanEdges", "survivorRows", "survivorNodes", "survivorEdges", "document"}
IngestPcs == {"no", "vector", "graph", "relate", "done"}
IngestIds == {<<>>} \cup UNION {[Mentions[d] -> Docs] : d \in Docs}
Pairs == Items \X Docs
CallType == [pc : {"idle", "list", "listEdges"} \cup StageNames, doc : Docs \cup {None},
             orphans : SUBSET Pairs, survivors : SUBSET Pairs]

\* The types of the variables, those of the history included.
TypeInv ==
    /\ vector \in [Entities -> Record \cup {None}] /\ graph \in [Items -> Record \cup {None}]
    /\ doc \in [Docs -> {"absent", "stored", "forgotten"}]
    /\ ingest \in [Docs -> [pc : IngestPcs, ids : IngestIds]]
    /\ \A d \in Docs : ingest[d].pc \in {"graph", "relate"} => ingest[d].ids \in [Mentions[d] -> Docs]
    /\ call \in [Forgets -> CallType]
    /\ torn \subseteq Docs \X Items /\ crossed \subseteq Items /\ met \subseteq Docs /\ broken \subseteq Docs

\* A document has a row once its ingest has begun; one that is forgotten before its ingest
\* has ended is among those that met it.
DocInv ==
    \A d \in Docs : /\ doc[d] = "absent" <=> ingest[d].pc = "no"
                    /\ doc[d] = "forgotten" => ingest[d].pc = "done" \/ d \in met

\* What a call holds: nothing before it has listed anything, and then only what its own
\* document has written, once it has.
CallInv ==
    \A f \in Forgets :
        /\ call[f].pc = "idle" <=> call[f].doc = None
        /\ call[f].pc \in {"idle", "list"} => call[f].orphans = {} /\ call[f].survivors = {}
        /\ call[f].pc # "idle" => /\ doc[call[f].doc] # "absent"
                                  /\ ingest[call[f].doc].pc = "done" \/ call[f].doc \in met
        /\ \A p \in call[f].orphans \cup call[f].survivors :
              p[1] \in Written(call[f].doc) /\ ingest[call[f].doc].pc \notin {"no", "vector"}

\* A source of an item is a document that has written it.
SourceInv ==
    /\ \A e \in Entities : vector[e] # None => \A s \in vector[e].src :
          e \in Mentions[s] /\ ingest[s].pc \in {"graph", "relate", "done"}
    /\ \A e \in Entities : graph[e] # None => \A s \in graph[e].src :
          e \in Mentions[s] /\ ingest[s].pc \in {"relate", "done"}
    /\ \A r \in Rels : graph[r] # None => \A s \in graph[r].src :
          r \in Relates[s] /\ ingest[s].pc = "done"

\* An edge has both its endpoints.
EdgeInv == \A r \in Rels : graph[r] # None => \A e \in Ends[r] : graph[e] # None

BaseInv == TypeInv /\ DocInv /\ CallInv /\ SourceInv /\ EdgeInv

-------------------------------------------------------------------------------
\* Two calls that have an item as a survivor have crossed; a row that a call has as a
\* survivor has a source beside the call's document, unless calls crossed over it.
CrossInv ==
    \A f, g \in Forgets : f # g =>
        \A p \in call[f].survivors, q \in call[g].survivors : p[1] = q[1] => p[1] \in crossed
OthersInv ==
    \A f \in Forgets : \A e \in Entities :
        Hit(vector, e, call[f].survivors) => e \in crossed \/ \E s \in vector[e].src : s # call[f].doc
SourcesInv == CrossInv /\ OthersInv /\ NoneSourceless

-------------------------------------------------------------------------------
\* A document that is stored, whole, and that nobody forgets.
Live(d) == doc[d] = "stored" /\ d \notin broken /\ \A f \in Forgets : call[f].doc # d

\* A relationship counts as torn with one of its ends.
TornAt(d, r) == \E y \in {r} \cup Ends[r] : <<d, y>> \in torn

\* What a live document has written so far is there, or torn; from the write of the nodes
\* to that of the edges the ids it holds are those of the nodes.
KeepRows ==
    \A d \in Docs : Live(d) /\ ingest[d].pc \in {"graph", "relate", "done"} =>
        \A e \in Mentions[d] : <<d, e>> \in torn \/ (vector[e] # None /\ d \in vector[e].src)
KeepNodes ==
    \A d \in Docs : Live(d) /\ ingest[d].pc \in {"relate", "done"} =>
        \A e \in Mentions[d] :
            <<d, e>> \in torn \/ /\ graph[e] # None /\ d \in graph[e].src
                                 /\ ingest[d].pc = "relate" => graph[e].id = ingest[d].ids[e]
KeepEdges ==
    \A d \in Docs : Live(d) /\ ingest[d].pc = "done" =>
        \A r \in Relates[d] : TornAt(d, r) \/ (graph[r] # None /\ d \in graph[r].src)

\* An item that some call has as an orphan is torn for every live document that wrote it.
OrphanInv ==
    \A f \in Forgets : \A p \in call[f].orphans : \A d \in Docs : Live(d) =>
        /\ p[1] \in Mentions[d] /\ ingest[d].pc \in {"graph", "relate", "done"} => <<d, p[1]>> \in torn
        /\ p[1] \in Relates[d] /\ ingest[d].pc = "done" => TornAt(d, p[1])

KeepInv == KeepRows /\ KeepNodes /\ KeepEdges /\ OrphanInv

-------------------------------------------------------------------------------
\* What a call still has to take its document from, by its stage: the rows ...
RowsLeft(c) ==
    CASE c.pc \in {"listEdges", "orphanRows"}                        -> c.orphans \cup c.survivors
      [] c.pc \in {"orphanNodes", "orphanEdges", "survivorRows"}     -> c.survivors
      [] OTHER                                                       -> {}
\* ... and the edges.
EdgesLeft(c) ==
    CASE c.pc \in {"orphanRows", "orphanNodes", "orphanEdges"}       -> c.orphans \cup c.survivors
      [] c.pc \in {"survivorRows", "survivorNodes", "survivorEdges"} -> c.survivors
      [] OTHER                                                       -> {}

\* A call misses no row and no edge that names its document, and none names a document
\* that is forgotten.
RowsInv ==
    \A f \in Forgets : call[f].doc \notin met /\ call[f].pc \notin {"idle", "list"} =>
        \A e \in Entities : vector[e] # None /\ call[f].doc \in vector[e].src => Hit(vector, e, RowsLeft(call[f]))
EdgesInv ==
    \A f \in Forgets : call[f].doc \notin met /\ call[f].pc \in StageNames =>
        \A r \in Rels : graph[r] # None /\ call[f].doc \in graph[r].src => Hit(graph, r, EdgesLeft(call[f]))
ForgottenInv ==
    \A d \in Docs : doc[d] = "forgotten" /\ d \notin met =>
        /\ \A e \in Entities : vector[e] # None => d \notin vector[e].src
        /\ \A r \in Rels : graph[r] # None => d \notin graph[r].src
GoneInv == RowsInv /\ EdgesInv /\ ForgottenInv

-------------------------------------------------------------------------------
\* An item that no write tore and that only whole documents have written.
Clean(x) == (\A b \in broken \cup met : x \notin Written(b)) /\ (\A t \in torn : t[2] # x)

\* The source of a row that a call has as an orphan is the call's document.
OnlyInv ==
    \A f \in Forgets : \A e \in Entities : Clean(e) /\ Hit(vector, e, call[f].orphans) =>
        \A s \in vector[e].src : s = call[f].doc

\* The node of a clean entity has the id of its row, or is about to go.
SameIdInv ==
    \A e \in Entities : Clean(e) /\ graph[e] # None =>
        \/ vector[e] # None /\ vector[e].id = graph[e].id
        \/ vector[e] = None /\ \E f \in Forgets : call[f].pc = "orphanNodes" /\ Hit(graph, e, call[f].orphans)

\* An ingest between the two stores holds the ids of the rows it wrote.
HeldIdInv ==
    \A d \in Docs : ingest[d].pc = "graph" => \A e \in Mentions[d] :
        Clean(e) => vector[e] # None /\ vector[e].id = ingest[d].ids[e] /\ d \in vector[e].src

\* A node names a document with its row, or a call is about to take the document from it.
BehindInv ==
    \A e \in Entities : Clean(e) /\ graph[e] # None => \A d \in graph[e].src :
        \/ vector[e] # None /\ d \in vector[e].src
        \/ \E f \in Forgets :
              /\ call[f].doc = d
              /\ \/ call[f].pc = "orphanNodes" /\ Hit(graph, e, call[f].orphans)
                 \/ call[f].pc = "survivorNodes" /\ Hit(graph, e, call[f].survivors)

MatchInv == OnlyInv /\ SameIdInv /\ HeldIdInv /\ BehindInv

-------------------------------------------------------------------------------
\* None is no record, and the parts of a record have their types.
LEMMA RecordFacts ==
    /\ None \notin Record /\ None \notin Docs
    /\ \A r \in Record : r.id \in Docs /\ r.src \subseteq Docs
    /\ \A i \in Docs, s \in SUBSET Docs : [id |-> i, src |-> s] \in Record
BY CascadeAssumption DEF Record

\* The statement at each place of the cascade.
LEMMA StageList ==
    /\ Stages[1] = "orphanRows" /\ Stages[2] = "orphanNodes" /\ Stages[3] = "orphanEdges"
    /\ Stages[4] = "survivorRows" /\ Stages[5] = "survivorNodes" /\ Stages[6] = "survivorEdges"
    /\ Stages[7] = "document" /\ Len(Stages) = 7 /\ DOMAIN Stages = 1 .. 7
    /\ {Stages[n] : n \in DOMAIN Stages} = StageNames
<1>1. Len(Stages) = 7 /\ DOMAIN Stages = 1 .. 7
  BY DEF Stages
<1>2. /\ Stages[1] = "orphanRows" /\ Stages[2] = "orphanNodes" /\ Stages[3] = "orphanEdges"
      /\ Stages[4] = "survivorRows" /\ Stages[5] = "survivorNodes" /\ Stages[6] = "survivorEdges"
      /\ Stages[7] = "document"
  BY DEF Stages
<1>3. 1 .. 7 = {1, 2, 3, 4, 5, 6, 7}
  OBVIOUS
<1>4. {Stages[n] : n \in DOMAIN Stages} = StageNames
  BY <1>1, <1>2, <1>3 DEF StageNames
<1> QED
  BY <1>1, <1>2, <1>4

\* StageFrom finds the first statement that is sent, for the last one always is.
LEMMA StageFirst ==
    ASSUME NEW c, NEW n \in 1 .. 7
    PROVE  \E m \in n .. 7 : StageFrom(c, n) = Stages[m] /\ Sent(c, m) /\ \A k \in n .. m - 1 : ~Sent(c, k)
<1> DEFINE First(j) == \E m \in j .. 7 : Sent(c, m) /\ \A k \in j .. m - 1 : ~Sent(c, k)
<1>1. Sent(c, 7)
  BY StageList DEF Sent
<1>2. First(7)
  <2>1. 7 \in 7 .. 7 /\ \A k \in 7 .. 7 - 1 : ~Sent(c, k)
    OBVIOUS
  <2> QED
    BY <1>1, <2>1
<1>3. ASSUME NEW j \in 1 .. 6, First(j + 1)
      PROVE  First(j)
  <2>1. CASE Sent(c, j)
    <3>1. j \in j .. 7 /\ \A k \in j .. j - 1 : ~Sent(c, k)
      OBVIOUS
    <3> QED
      BY <2>1, <3>1
  <2>2. CASE ~Sent(c, j)
    <3>1. PICK m \in j + 1 .. 7 : Sent(c, m) /\ \A k \in j + 1 .. m - 1 : ~Sent(c, k)
      BY <1>3
    <3>2. m \in j .. 7 /\ \A k \in j .. m - 1 : k = j \/ k \in j + 1 .. m - 1
      OBVIOUS
    <3> QED
      BY <2>2, <3>1, <3>2
  <2> QED
    BY <2>1, <2>2
<1> HIDE DEF First
<1>4. First(6) /\ First(5)
  <2>1. 6 + 1 = 7 /\ 5 + 1 = 6 /\ 6 \in 1 .. 6 /\ 5 \in 1 .. 6
    OBVIOUS
  <2> QED
    BY <1>2, <1>3, <2>1
<1>5. First(4) /\ First(3)
  <2>1. 4 + 1 = 5 /\ 3 + 1 = 4 /\ 4 \in 1 .. 6 /\ 3 \in 1 .. 6
    OBVIOUS
  <2> QED
    BY <1>4, <1>3, <2>1
<1>6. First(2) /\ First(1)
  <2>1. 2 + 1 = 3 /\ 1 + 1 = 2 /\ 2 \in 1 .. 6 /\ 1 \in 1 .. 6
    OBVIOUS
  <2> QED
    BY <1>5, <1>3, <2>1
<1>7. First(n)
  <2>1. n \in {1, 2, 3, 4, 5, 6, 7}
    OBVIOUS
  <2> QED
    BY <2>1, <1>2, <1>4, <1>5, <1>6
<1>8. Len(Stages) = 7
  BY StageList
<1> QED
  BY <1>7, <1>8 DEF First, StageFrom

\* The statements that StageFrom passes over have nothing to do.
PassesOver(c, n, q) ==
    /\ q \in StageNames
    /\ n = 1 /\ q # "orphanRows" => OfEntities(c.orphans) = {}
    /\ n \in {1, 2} => q = "orphanNodes" \/ OfEntities(c.orphans) = {} \/ q = "orphanRows"
    /\ n \in {1, 2, 3} /\ q \in {"survivorRows", "survivorNodes", "survivorEdges", "document"} =>
          c.orphans = OfEntities(c.orphans)
    /\ n \in {1, 2, 3, 4} /\ q \in {"survivorNodes", "survivorEdges", "document"} => OfEntities(c.survivors) = {}
    /\ n = 5 => q = "survivorNodes" \/ OfEntities(c.survivors) = {}
    /\ q = "document" /\ n # 7 => c.survivors = OfEntities(c.survivors)
    /\ n \in {2, 3, 4, 5, 6, 7} => q # "orphanRows"
    /\ n \in {3, 4, 5, 6, 7} => q # "orphanNodes"
    /\ n \in {4, 5, 6, 7} => q # "orphanEdges"
    /\ n \in {5, 6, 7} => q # "survivorRows"
    /\ n \in {6, 7} => q # "survivorNodes"
    /\ n = 7 => q = "document"

LEMMA StageFromPasses ==
    ASSUME NEW c, NEW n \in 1 .. 7
    PROVE  PassesOver(c, n, StageFrom(c, n))
<1>1. PICK m \in n .. 7 : StageFrom(c, n) = Stages[m] /\ Sent(c, m) /\ \A k \in n .. m - 1 : ~Sent(c, k)
  BY StageFirst
<1>2. Stages[m] \in StageNames
  <2>1. m \in {1, 2, 3, 4, 5, 6, 7}
    OBVIOUS
  <2> QED
    BY <2>1, StageList DEF StageNames
<1>3. /\ ~Sent(c, 1) => OfEntities(c.orphans) = {}
      /\ ~Sent(c, 2) => OfEntities(c.orphans) = {}
      /\ ~Sent(c, 3) => c.orphans \ OfEntities(c.orphans) = {}
      /\ ~Sent(c, 4) => OfEntities(c.survivors) = {}
      /\ ~Sent(c, 5) => OfEntities(c.survivors) = {}
      /\ ~Sent(c, 6) => c.survivors \ OfEntities(c.survivors) = {}
  BY StageList DEF Sent, Targets
<1>4. /\ OfEntities(c.orphans) \subseteq c.orphans
      /\ OfEntities(c.survivors) \subseteq c.survivors
  BY DEF OfEntities
<1>5. /\ m = 1 <=> Stages[m] = "orphanRows"
      /\ m = 2 <=> Stages[m] = "orphanNodes"
      /\ m = 3 <=> Stages[m] = "orphanEdges"
      /\ m = 4 <=> Stages[m] = "survivorRows"
      /\ m = 5 <=> Stages[m] = "survivorNodes"
      /\ m = 6 <=> Stages[m] = "survivorEdges"
      /\ m = 7 <=> Stages[m] = "document"
  <2>1. m \in {1, 2, 3, 4, 5, 6, 7}
    OBVIOUS
  <2> QED
    BY <2>1, StageList
<1>6. /\ n <= 1 /\ m > 1 => ~Sent(c, 1)
      /\ n <= 2 /\ m > 2 => ~Sent(c, 2)
      /\ n <= 3 /\ m > 3 => ~Sent(c, 3)
      /\ n <= 4 /\ m > 4 => ~Sent(c, 4)
      /\ n <= 5 /\ m > 5 => ~Sent(c, 5)
      /\ n <= 6 /\ m > 6 => ~Sent(c, 6)
  BY <1>1
<1>7. n <= m /\ m \in {1, 2, 3, 4, 5, 6, 7} /\ n \in {1, 2, 3, 4, 5, 6, 7}
  OBVIOUS
<1>8. /\ ~Sent(c, 3) => c.orphans = OfEntities(c.orphans)
      /\ ~Sent(c, 6) => c.survivors = OfEntities(c.survivors)
  BY <1>3, <1>4
<1> DEFINE q == StageFrom(c, n)
<1>9. /\ m = 1 <=> q = "orphanRows"
      /\ m = 2 <=> q = "orphanNodes"
      /\ m = 3 <=> q = "orphanEdges"
      /\ m = 4 <=> q = "survivorRows"
      /\ m = 5 <=> q = "survivorNodes"
      /\ m = 6 <=> q = "survivorEdges"
      /\ m = 7 <=> q = "document"
      /\ q \in StageNames
  BY <1>1, <1>2, <1>5
<1> HIDE DEF q
<1>10. PassesOver(c, n, q)
  BY <1>3, <1>6, <1>7, <1>8, <1>9 DEF PassesOver
<1> QED
  BY <1>10 DEF q

\* The same for the statement after the one a call is at.
LEMMA StageAfterPasses ==
    ASSUME NEW c, c.pc \in StageNames \ {"document"}
    PROVE  /\ c.pc = "orphanRows" => PassesOver(c, 2, StageAfter(c))
           /\ c.pc = "orphanNodes" => PassesOver(c, 3, StageAfter(c))
           /\ c.pc = "orphanEdges" => PassesOver(c, 4, StageAfter(c))
           /\ c.pc = "survivorRows" => PassesOver(c, 5, StageAfter(c))
           /\ c.pc = "survivorNodes" => PassesOver(c, 6, StageAfter(c))
           /\ c.pc = "survivorEdges" => PassesOver(c, 7, StageAfter(c))
           /\ StageAfter(c) \in StageNames
<1> DEFINE n == CHOOSE n \in DOMAIN Stages : Stages[n] = c.pc
<1>1. n \in 1 .. 7 /\ Stages[n] = c.pc
  BY StageList DEF StageNames
<1> HIDE DEF n
<1>2. n \in 1 .. 6 /\ n \in {1, 2, 3, 4, 5, 6}
  BY <1>1, StageList
<1>3. StageAfter(c) = StageFrom(c, 1 + n)
  BY DEF StageAfter, n
<1>4. 1 + n \in 1 .. 7
  BY <1>2
<1>5. PassesOver(c, 1 + n, StageAfter(c))
  BY <1>3, <1>4, StageFromPasses
<1>6. /\ c.pc = "orphanRows" => 1 + n = 2
      /\ c.pc = "orphanNodes" => 1 + n = 3
      /\ c.pc = "orphanEdges" => 1 + n = 4
      /\ c.pc = "survivorRows" => 1 + n = 5
      /\ c.pc = "survivorNodes" => 1 + n = 6
      /\ c.pc = "survivorEdges" => 1 + n = 7
  BY <1>1, <1>2, StageList
<1>7. StageAfter(c) \in StageNames
  BY <1>5 DEF PassesOver
<1> QED
  BY <1>5, <1>6, <1>7

-------------------------------------------------------------------------------
\* What each action does, item by item and field by field.

\* Upserted writes its items and no other.
IsUpsert(U, store, S, items, d, ids) ==
    /\ U \in [S -> Record \cup {None}]
    /\ \A x \in S : x \notin items => U[x] = store[x]
    /\ \A x \in S : x \in items => U[x] # None /\ U[x].id \in Docs
    /\ \A x \in S : x \in items /\ store[x] = None => U[x].id = ids[x] /\ U[x].src = {d}
    /\ \A x \in S : x \in items /\ store[x] # None =>
          U[x].id = store[x].id /\ U[x].src = store[x].src \cup {d}

LEMMA UpsertedRows ==
    ASSUME NEW S, NEW items, NEW d \in Docs, NEW ids,
           NEW store \in [S -> Record \cup {None}],
           \A x \in S \cap items : ids[x] \in Docs,
           NEW U, U = Upserted(store, items, d, ids)
    PROVE  IsUpsert(U, store, S, items, d, ids)
<1> USE U = Upserted(store, items, d, ids)
<1>1. DOMAIN store = S /\ U = [x \in S |-> U[x]]
  BY DEF Upserted
<1>2. ASSUME NEW x \in S, x \notin items
      PROVE  U[x] = store[x]
  BY <1>2 DEF Upserted
<1>3. ASSUME NEW x \in S, x \in items, store[x] = None
      PROVE  /\ U[x] = [id |-> ids[x], src |-> {d}]
             /\ U[x] \in Record /\ U[x].id = ids[x] /\ U[x].src = {d}
  <2>1. U[x] = [id |-> ids[x], src |-> {d}]
    BY <1>3 DEF Upserted
  <2>2. ids[x] \in Docs
    BY <1>3
  <2> QED
    BY <2>1, <2>2 DEF Record
<1>4. ASSUME NEW x \in S, x \in items, store[x] # None
      PROVE  /\ U[x] \in Record
             /\ U[x].id = store[x].id /\ U[x].src = store[x].src \cup {d}
  <2>1. U[x] = [store[x] EXCEPT !.src = @ \cup {d}]
    BY <1>4 DEF Upserted
  <2>2. store[x] \in Record
    BY <1>4
  <2> QED
    BY <2>1, <2>2 DEF Record
<1>5. \A x \in S : U[x] \in Record \cup {None}
  BY <1>2, <1>3, <1>4
<1>6. U \in [S -> Record \cup {None}]
  BY <1>1, <1>5
<1> QED
  BY <1>2, <1>3, <1>4, <1>6, RecordFacts DEF IsUpsert

\* The write of d changes nobody else's ingest and no call.
IngestFrame(d) ==
    /\ \A b \in Docs : b # d => ingest'[b] = ingest[b]
    /\ call' = call /\ crossed' = crossed /\ met' = met /\ broken' = broken

\* What Tear adds.
TornBy(d, items) ==
    /\ \A t \in torn : t \in torn'
    /\ \A t \in torn' : t \in torn \/ (t[1] = d /\ t[2] \in items)
    /\ \A x \in items : (\E f \in Forgets : \E p \in call[f].orphans : p[1] = x) => <<d, x>> \in torn'

LEMMA TearFacts ==
    ASSUME NEW d, NEW items, Tear(d, items)
    PROVE  TornBy(d, items)
<1>1. torn' = torn \cup {<<d, x>> : x \in {y \in items : OrphanOf(y) # {}}}
  BY DEF Tear
<1>2. \A x \in items : (\E f \in Forgets : \E p \in call[f].orphans : p[1] = x) => OrphanOf(x) # {}
  BY DEF OrphanOf
<1> QED
  BY <1>1, <1>2 DEF TornBy

CreateView(d) ==
    /\ vector' = vector /\ graph' = graph /\ torn' = torn /\ IngestFrame(d)
    /\ doc[d] = "absent" /\ doc'[d] = "stored" /\ \A b \in Docs : b # d => doc'[b] = doc[b]
    /\ ingest'[d].pc = "vector"

LEMMA CreateFacts ==
    ASSUME TypeInv, NEW d \in Docs, CreateDocument(d)
    PROVE  CreateView(d)
BY DEF CreateDocument, CreateView, IngestFrame, TypeInv, stores, history

RowsView(d) ==
    /\ graph' = graph /\ doc' = doc /\ IngestFrame(d) /\ TornBy(d, Mentions[d])
    /\ ingest[d].pc = "vector" /\ ingest'[d].pc = "graph"
    /\ \A e \in Entities :
          /\ e \notin Mentions[d] => vector'[e] = vector[e]
          /\ e \in Mentions[d] => vector'[e] # None /\ ingest'[d].ids[e] = vector'[e].id
          /\ e \in Mentions[d] /\ vector[e] = None => vector'[e].id = d /\ vector'[e].src = {d}
          /\ e \in Mentions[d] /\ vector[e] # None =>
                vector'[e].id = vector[e].id /\ vector'[e].src = vector[e].src \cup {d}

LEMMA RowsFacts ==
    ASSUME TypeInv, NEW d \in Docs, UpsertVector(d)
    PROVE  /\ RowsView(d)
           /\ vector' \in [Entities -> Record \cup {None}]
           /\ ingest'[d] \in [pc : IngestPcs, ids : IngestIds] /\ ingest'[d].ids \in [Mentions[d] -> Docs]
<1>1. Mentions[d] \subseteq Entities
  BY CascadeAssumption
<1> DEFINE ids == [e \in Entities |-> d]
<1>2. vector' = Upserted(vector, Mentions[d], d, ids)
  BY DEF UpsertVector
<1>3. vector \in [Entities -> Record \cup {None}]
  BY DEF TypeInv
<1>4. \A x \in Entities : ids[x] = d
  OBVIOUS
<1>4a. \A x \in Entities \cap Mentions[d] : ids[x] \in Docs
  OBVIOUS
<1> HIDE DEF ids
<1>4b. IsUpsert(vector', vector, Entities, Mentions[d], d, ids)
  BY <1>2, <1>3, <1>4a, UpsertedRows
<1>5. /\ vector' \in [Entities -> Record \cup {None}]
      /\ \A x \in Entities :
            /\ x \notin Mentions[d] => vector'[x] = vector[x]
            /\ x \in Mentions[d] => vector'[x] # None /\ vector'[x].id \in Docs
            /\ x \in Mentions[d] /\ vector[x] = None => vector'[x].id = d /\ vector'[x].src = {d}
            /\ x \in Mentions[d] /\ vector[x] # None =>
                  vector'[x].id = vector[x].id /\ vector'[x].src = vector[x].src \cup {d}
  BY <1>4, <1>4b DEF IsUpsert
<1>6. ingest' = [ingest EXCEPT ![d] = [pc |-> "graph", ids |-> [e \in Mentions[d] |-> vector'[e].id]]]
  BY DEF UpsertVector
<1>7. /\ ingest'[d] = [pc |-> "graph", ids |-> [e \in Mentions[d] |-> vector'[e].id]]
      /\ \A b \in Docs : b # d => ingest'[b] = ingest[b]
  BY <1>6 DEF TypeInv
<1>8. [e \in Mentions[d] |-> vector'[e].id] \in [Mentions[d] -> Docs]
  BY <1>1, <1>5
<1>9. /\ ingest'[d] \in [pc : IngestPcs, ids : IngestIds] /\ ingest'[d].ids \in [Mentions[d] -> Docs]
      /\ ingest'[d].pc = "graph"
      /\ \A e \in Mentions[d] : ingest'[d].ids[e] = vector'[e].id
  BY <1>7, <1>8 DEF IngestPcs, IngestIds
<1>10. Tear(d, Mentions[d]) /\ ingest[d].pc = "vector" /\ graph' = graph /\ doc' = doc
       /\ call' = call /\ crossed' = crossed /\ met' = met /\ broken' = broken
  BY DEF UpsertVector
<1>11. TornBy(d, Mentions[d])
  BY <1>10, TearFacts
<1> QED
  BY <1>5, <1>7, <1>9, <1>10, <1>11 DEF RowsView, IngestFrame

NodesView(d) ==
    /\ vector' = vector /\ doc' = doc /\ IngestFrame(d) /\ TornBy(d, Mentions[d])
    /\ ingest[d].pc = "graph" /\ ingest'[d].pc = "relate"
    /\ \A x \in Items :
          /\ x \notin Mentions[d] => graph'[x] = graph[x]
          /\ x \in Mentions[d] => graph'[x] # None /\ ingest'[d].ids[x] = graph'[x].id
          /\ x \in Mentions[d] /\ graph[x] = None => graph'[x].id = ingest[d].ids[x] /\ graph'[x].src = {d}
          /\ x \in Mentions[d] /\ graph[x] # None =>
                graph'[x].id = graph[x].id /\ graph'[x].src = graph[x].src \cup {d}

LEMMA NodesFacts ==
    ASSUME TypeInv, NEW d \in Docs, UpsertGraph(d)
    PROVE  /\ NodesView(d)
           /\ graph' \in [Items -> Record \cup {None}]
           /\ ingest'[d] \in [pc : IngestPcs, ids : IngestIds] /\ ingest'[d].ids \in [Mentions[d] -> Docs]
<1>1. Mentions[d] \subseteq Items
  BY CascadeAssumption DEF Items
<1> DEFINE ids == ingest[d].ids
<1>2. graph' = Upserted(graph, Mentions[d], d, ids)
  BY DEF UpsertGraph
<1>3. graph \in [Items -> Record \cup {None}]
  BY DEF TypeInv
<1>4. \A x \in Items \cap Mentions[d] : ids[x] \in Docs
  BY DEF TypeInv, UpsertGraph
<1> HIDE DEF ids
<1>4b. IsUpsert(graph', graph, Items, Mentions[d], d, ids)
  BY <1>2, <1>3, <1>4, UpsertedRows
<1>5. /\ graph' \in [Items -> Record \cup {None}]
      /\ \A x \in Items :
            /\ x \notin Mentions[d] => graph'[x] = graph[x]
            /\ x \in Mentions[d] => graph'[x] # None /\ graph'[x].id \in Docs
            /\ x \in Mentions[d] /\ graph[x] = None => graph'[x].id = ingest[d].ids[x] /\ graph'[x].src = {d}
            /\ x \in Mentions[d] /\ graph[x] # None =>
                  graph'[x].id = graph[x].id /\ graph'[x].src = graph[x].src \cup {d}
  BY <1>4b DEF IsUpsert, ids
<1>6. ingest' = [ingest EXCEPT ![d] = [pc |-> "relate", ids |-> [e \in Mentions[d] |-> graph'[e].id]]]
  BY DEF UpsertGraph
<1>7. /\ ingest'[d] = [pc |-> "relate", ids |-> [e \in Mentions[d] |-> graph'[e].id]]
      /\ \A b \in Docs : b # d => ingest'[b] = ingest[b]
  BY <1>6 DEF TypeInv
<1>8. [e \in Mentions[d] |-> graph'[e].id] \in [Mentions[d] -> Docs]
  BY <1>1, <1>5
<1>9. /\ ingest'[d] \in [pc : IngestPcs, ids : IngestIds] /\ ingest'[d].ids \in [Mentions[d] -> Docs]
      /\ ingest'[d].pc = "relate"
      /\ \A e \in Mentions[d] : ingest'[d].ids[e] = graph'[e].id
  BY <1>7, <1>8 DEF IngestPcs, IngestIds
<1>10. Tear(d, Mentions[d]) /\ ingest[d].pc = "graph" /\ vector' = vector /\ doc' = doc
       /\ call' = call /\ crossed' = crossed /\ met' = met /\ broken' = broken
  BY DEF UpsertGraph
<1>11. TornBy(d, Mentions[d])
  BY <1>10, TearFacts
<1> QED
  BY <1>5, <1>7, <1>9, <1>10, <1>11 DEF NodesView, IngestFrame

\* The relationships whose endpoints Relate finds.
Matched(d) == {r \in Relates[d] : \A e \in Ends[r] : graph[e] # None /\ graph[e].id = ingest[d].ids[e]}

EdgesView(d) ==
    /\ vector' = vector /\ doc' = doc /\ IngestFrame(d) /\ TornBy(d, Relates[d])
    /\ ingest[d].pc = "relate" /\ ingest'[d].pc = "done"
    /\ \A x \in Items :
          /\ x \notin Matched(d) => graph'[x] = graph[x]
          /\ x \in Matched(d) => graph'[x] # None
          /\ x \in Matched(d) /\ graph[x] = None => graph'[x].id = d /\ graph'[x].src = {d}
          /\ x \in Matched(d) /\ graph[x] # None =>
                graph'[x].id = graph[x].id /\ graph'[x].src = graph[x].src \cup {d}

LEMMA EdgesFacts ==
    ASSUME TypeInv, NEW d \in Docs, Relate(d)
    PROVE  EdgesView(d) /\ graph' \in [Items -> Record \cup {None}]
<1>1. Matched(d) \subseteq Rels
  BY CascadeAssumption DEF Matched
<1> DEFINE ids == [r \in Rels |-> d]
<1>2. graph' = Upserted(graph, Matched(d), d, ids)
  BY DEF Relate, Matched
<1>3. graph \in [Items -> Record \cup {None}]
  BY DEF TypeInv
<1>4. \A x \in Rels : ids[x] = d
  OBVIOUS
<1>4a. \A x \in Items \cap Matched(d) : ids[x] \in Docs
  BY <1>1
<1> HIDE DEF ids
<1>4b. IsUpsert(graph', graph, Items, Matched(d), d, ids)
  BY <1>2, <1>3, <1>4a, UpsertedRows
<1>5. /\ graph' \in [Items -> Record \cup {None}]
      /\ \A x \in Items :
            /\ x \notin Matched(d) => graph'[x] = graph[x]
            /\ x \in Matched(d) => graph'[x] # None
            /\ x \in Matched(d) /\ graph[x] = None => graph'[x].id = d /\ graph'[x].src = {d}
            /\ x \in Matched(d) /\ graph[x] # None =>
                  graph'[x].id = graph[x].id /\ graph'[x].src = graph[x].src \cup {d}
  BY <1>1, <1>4, <1>4b DEF IsUpsert
<1>6. ingest' = [ingest EXCEPT ![d].pc = "done"]
  BY DEF Relate
<1>7. ingest'[d].pc = "done" /\ \A b \in Docs : b # d => ingest'[b] = ingest[b]
  BY <1>6 DEF TypeInv
<1>10. Tear(d, Relates[d]) /\ ingest[d].pc = "relate" /\ vector' = vector /\ doc' = doc
       /\ call' = call /\ crossed' = crossed /\ met' = met /\ broken' = broken
  BY DEF Relate
<1>11. TornBy(d, Relates[d])
  BY <1>10, TearFacts
<1> QED
  BY <1>5, <1>7, <1>10, <1>11 DEF EdgesView, IngestFrame

-------------------------------------------------------------------------------
\* What the cascade lists: an orphan has the document as its only source, a survivor has
\* another one, and every item that names the document is one of the two.
IsListing(o, v, store, items, d) ==
    /\ \A p \in o : /\ p[1] \in items /\ p[2] \in Docs /\ p = <<p[1], p[2]>>
                    /\ store[p[1]] # None /\ p[2] = store[p[1]].id /\ store[p[1]].src = {d}
    /\ \A p \in v : /\ p[1] \in items /\ p[2] \in Docs /\ p = <<p[1], p[2]>>
                    /\ store[p[1]] # None /\ p[2] = store[p[1]].id
                    /\ d \in store[p[1]].src /\ \E s \in store[p[1]].src : s # d
    /\ \A x \in items : store[x] # None /\ d \in store[x].src => Hit(store, x, o \cup v)

LEMMA Listed ==
    ASSUME NEW S, NEW items, items \subseteq S, NEW d \in Docs, NEW store \in [S -> Record \cup {None}]
    PROVE  IsListing(OrphansIn(store, items, d), SurvivorsIn(store, items, d), store, items, d)
<1>1. ASSUME NEW x \in items, store[x] # None
      PROVE  /\ store[x].id \in Docs /\ store[x].src \subseteq Docs
             /\ IsOrphan(store[x], d) => store[x].src = {d}
             /\ IsSurvivor(store[x], d) => d \in store[x].src /\ \E s \in store[x].src : s # d
             /\ d \in store[x].src => IsOrphan(store[x], d) \/ IsSurvivor(store[x], d)
  <2>1. store[x] \in Record
    BY <1>1
  <2>2. store[x].id \in Docs /\ store[x].src \subseteq Docs
    BY <2>1, RecordFacts
  <2> DEFINE T == store[x].src
  <2>3. IsFiniteSet(T) /\ Cardinality(T) \in Nat
    BY <2>2, CascadeAssumption, FS_Subset, FS_CardinalityType
  <2>4. Cardinality(T) = 1 /\ d \in T => T = {d}
    BY <2>3, FS_Singleton
  <2>5. d \in T /\ (\A s \in T : s = d) => T = {d}
    OBVIOUS
  <2>6. Cardinality({d}) = 1
    BY FS_Singleton
  <2>7. d \in T => Cardinality(T) # 0
    BY <2>3, FS_EmptySet
  <2>8. Cardinality(T) > 1 /\ d \in T => \E s \in T : s # d
    <3> SUFFICES ASSUME Cardinality(T) > 1, d \in T, \A s \in T : s = d PROVE FALSE
      OBVIOUS
    <3>1. T = {d}
      BY <2>5
    <3>2. Cardinality(T) = 1
      BY <3>1, <2>6
    <3> QED
      BY <3>2, <2>3
  <2>9. d \in T => Cardinality(T) = 1 \/ Cardinality(T) > 1
    BY <2>3, <2>7
  <2> QED
    BY <2>2, <2>4, <2>8, <2>9 DEF IsOrphan, IsSurvivor
<1>2. \A p \in OrphansIn(store, items, d) : \E x \in items :
         p = <<x, store[x].id>> /\ store[x] # None /\ IsOrphan(store[x], d)
  BY DEF OrphansIn
<1>3. \A p \in SurvivorsIn(store, items, d) : \E x \in items :
         p = <<x, store[x].id>> /\ store[x] # None /\ IsSurvivor(store[x], d)
  BY DEF SurvivorsIn
<1>4. \A x \in items : store[x] # None =>
         /\ IsOrphan(store[x], d) => <<x, store[x].id>> \in OrphansIn(store, items, d)
         /\ IsSurvivor(store[x], d) => <<x, store[x].id>> \in SurvivorsIn(store, items, d)
  BY DEF OrphansIn, SurvivorsIn
<1>5. ASSUME NEW x \in items, store[x] # None, d \in store[x].src
      PROVE  Hit(store, x, OrphansIn(store, items, d) \cup SurvivorsIn(store, items, d))
  BY <1>1, <1>4, <1>5 DEF Hit
<1>6. ASSUME NEW p \in OrphansIn(store, items, d)
      PROVE  /\ p[1] \in items /\ p[2] \in Docs /\ p = <<p[1], p[2]>>
             /\ store[p[1]] # None /\ p[2] = store[p[1]].id /\ store[p[1]].src = {d}
  <2>1. PICK x \in items : p = <<x, store[x].id>> /\ store[x] # None /\ IsOrphan(store[x], d)
    BY <1>2
  <2>2. p[1] = x /\ p[2] = store[x].id
    BY <2>1
  <2> QED
    BY <2>1, <2>2, <1>1
<1>7. ASSUME NEW p \in SurvivorsIn(store, items, d)
      PROVE  /\ p[1] \in items /\ p[2] \in Docs /\ p = <<p[1], p[2]>>
             /\ store[p[1]] # None /\ p[2] = store[p[1]].id
             /\ d \in store[p[1]].src /\ \E s \in store[p[1]].src : s # d
  <2>1. PICK x \in items : p = <<x, store[x].id>> /\ store[x] # None /\ IsSurvivor(store[x], d)
    BY <1>3
  <2>2. p[1] = x /\ p[2] = store[x].id
    BY <2>1
  <2> QED
    BY <2>1, <2>2, <1>1
<1> QED
  BY <1>5, <1>6, <1>7 DEF IsListing

\* A step of f changes no other call.
CallFrame(f) == \A g \in Forgets : g # f => call'[g] = call[g]
Reads(f) == vector' = vector /\ graph' = graph /\ doc' = doc /\ ingest' = ingest /\ torn' = torn /\ CallFrame(f)

\* An item that f comes to have as a survivor, and another call has, is crossed.
CrossedBy(f) ==
    /\ crossed \subseteq crossed'
    /\ crossed' \subseteq crossed \cup {p[1] : p \in call'[f].survivors}
    /\ \A p \in call'[f].survivors : \A g \in Forgets : \A q \in call[g].survivors :
          g # f /\ p[1] = q[1] => p[1] \in crossed'

ForgetView(f, d) ==
    /\ Reads(f) /\ crossed' = crossed /\ broken' = broken
    /\ doc[d] = "stored" /\ call[f].pc = "idle"
    /\ call'[f].pc = "list" /\ call'[f].doc = d /\ call'[f].orphans = {} /\ call'[f].survivors = {}
    /\ met \subseteq met' /\ met' \subseteq met \cup {d}
    /\ ingest[d].pc = "done" \/ d \in met'

LEMMA ForgetFacts ==
    ASSUME TypeInv, NEW f \in Forgets, NEW d \in Docs, Forget(f, d)
    PROVE  ForgetView(f, d) /\ call'[f] \in CallType
<1>1. call' = [call EXCEPT ![f] = [IdleCall EXCEPT !.pc = "list", !.doc = d]]
  BY DEF Forget
<1>2. call'[f] = [pc |-> "list", doc |-> d, orphans |-> {}, survivors |-> {}] /\ CallFrame(f)
  BY <1>1 DEF TypeInv, CallFrame, IdleCall
<1>3. call'[f] \in CallType
  BY <1>2 DEF CallType
<1>4. /\ vector' = vector /\ graph' = graph /\ doc' = doc /\ ingest' = ingest /\ torn' = torn
      /\ crossed' = crossed /\ broken' = broken /\ doc[d] = "stored" /\ call[f].pc = "idle"
  BY DEF Forget, stores
<1>5. /\ met \subseteq met' /\ met' \subseteq met \cup {d}
      /\ ingest[d].pc = "done" \/ d \in met'
  BY DEF Forget
<1> QED
  BY <1>2, <1>3, <1>4, <1>5 DEF ForgetView, Reads

ListView(f) ==
    /\ Reads(f) /\ met' = met /\ broken' = broken /\ CrossedBy(f)
    /\ call[f].pc = "list" /\ call'[f].pc = "listEdges" /\ call'[f].doc = call[f].doc
    /\ IsListing(call'[f].orphans, call'[f].survivors, vector, Entities, call[f].doc)

LEMMA ListFacts ==
    ASSUME TypeInv, CallInv, NEW f \in Forgets, ListEntities(f)
    PROVE  ListView(f) /\ call'[f] \in CallType
<1> DEFINE d == call[f].doc
           o == OrphansIn(vector, Entities, d)
           v == SurvivorsIn(vector, Entities, d)
<1>1. call[f] \in CallType /\ call[f].pc = "list" /\ d \in Docs
  BY DEF TypeInv, CallInv, CallType, ListEntities
<1>2. call' = [call EXCEPT ![f].pc = "listEdges", ![f].orphans = o, ![f].survivors = v]
  BY DEF ListEntities
<1> HIDE DEF o, v
<1>3. /\ call'[f].pc = "listEdges" /\ call'[f].doc = d /\ call'[f].orphans = o /\ call'[f].survivors = v
      /\ CallFrame(f)
  BY <1>1, <1>2 DEF TypeInv, CallFrame, CallType
<1>4. IsListing(o, v, vector, Entities, d)
  BY <1>1, Listed DEF TypeInv, o, v
<1>5. o \subseteq Pairs /\ v \subseteq Pairs
  BY <1>4 DEF IsListing, Pairs, Items
<1>6. call'[f] \in CallType
  BY <1>1, <1>2, <1>5 DEF CallType, TypeInv
<1>7. crossed' = crossed \cup {p[1] : p \in {q \in call'[f].survivors : SurvivorOf(q[1]) \ {f} # {}}}
  BY DEF ListEntities
<1>8. \A x : \A g \in Forgets : \A q \in call[g].survivors : q[1] = x /\ g # f => SurvivorOf(x) \ {f} # {}
  BY DEF SurvivorOf
<1>9. CrossedBy(f)
  BY <1>7, <1>8 DEF CrossedBy
<1> QED
  BY <1>1, <1>3, <1>4, <1>6, <1>9 DEF ListEntities, ListView, Reads, stores

ListEdgesView(f) ==
    /\ Reads(f) /\ met' = met /\ broken' = broken /\ CrossedBy(f)
    /\ call[f].pc = "listEdges" /\ PassesOver(call'[f], 1, call'[f].pc) /\ call'[f].doc = call[f].doc
    /\ \E o, v : /\ IsListing(o, v, graph, Rels, call[f].doc)
                 /\ call'[f].orphans = call[f].orphans \cup o
                 /\ call'[f].survivors = call[f].survivors \cup v

\* What a statement passes over depends on the lists of a call, not on its stage.
LEMMA PassesOverLists ==
    ASSUME NEW c, NEW k, c.orphans = k.orphans, c.survivors = k.survivors, NEW n, NEW q, PassesOver(c, n, q)
    PROVE  PassesOver(k, n, q)
BY DEF PassesOver

LEMMA ListEdgesFacts ==
    ASSUME TypeInv, CallInv, NEW f \in Forgets, ListRelationships(f)
    PROVE  ListEdgesView(f) /\ call'[f] \in CallType
<1> DEFINE d == call[f].doc
           o == OrphansIn(graph, Rels, d)
           v == SurvivorsIn(graph, Rels, d)
           c == [call[f] EXCEPT !.orphans = @ \cup o, !.survivors = @ \cup v]
           q == StageFrom(c, 1)
<1>1. call[f] \in CallType /\ call[f].pc = "listEdges" /\ d \in Docs
  BY DEF TypeInv, CallInv, CallType, ListRelationships
<1>2. call' = [call EXCEPT ![f] = [c EXCEPT !.pc = q]]
  BY DEF ListRelationships
<1>3. crossed' = crossed \cup {p[1] : p \in {q1 \in c.survivors : SurvivorOf(q1[1]) \ {f} # {}}}
  BY DEF ListRelationships
<1>4. PassesOver(c, 1, q)
  BY StageFromPasses
<1>5. q \in StageNames
  BY <1>4 DEF PassesOver
<1>6. IsListing(o, v, graph, Rels, d)
  BY <1>1, Listed DEF TypeInv, Items
<1> HIDE DEF o, v, q
<1>7. o \subseteq Pairs /\ v \subseteq Pairs
  BY <1>6 DEF IsListing, Pairs, Items
<1>8. c \in CallType /\ c.doc = d /\ c.orphans = call[f].orphans \cup o /\ c.survivors = call[f].survivors \cup v
  BY <1>1, <1>7 DEF CallType
<1> HIDE DEF c
<1>9. /\ call'[f] \in CallType /\ call'[f].pc = q /\ call'[f].doc = d
      /\ call'[f].orphans = c.orphans /\ call'[f].survivors = c.survivors /\ CallFrame(f)
  BY <1>2, <1>5, <1>8 DEF CallType, TypeInv, CallFrame
<1>10. PassesOver(call'[f], 1, call'[f].pc)
  BY <1>4, <1>9, PassesOverLists
<1>11. \A x : \A g \in Forgets : \A q1 \in call[g].survivors : q1[1] = x /\ g # f => SurvivorOf(x) \ {f} # {}
  BY DEF SurvivorOf
<1>12. CrossedBy(f)
  BY <1>3, <1>9, <1>11 DEF CrossedBy
<1> QED
  BY <1>1, <1>6, <1>8, <1>9, <1>10, <1>12 DEF ListRelationships, ListEdgesView, Reads, stores

-------------------------------------------------------------------------------
\* What a statement of the cascade may do to a row ...
RowMoves(c) ==
    \A e \in Entities :
        \/ vector'[e] = vector[e]
        \/ c.pc = "orphanRows" /\ Hit(vector, e, c.orphans) /\ vector'[e] = None
        \/ /\ c.pc = "survivorRows" /\ Hit(vector, e, c.survivors)
           /\ vector'[e] # None /\ vector'[e].id = vector[e].id /\ vector'[e].src = vector[e].src \ {c.doc}

\* ... to a node, and to an edge.
NodeMoves(c) ==
    \A e \in Entities :
        \/ graph'[e] = graph[e]
        \/ c.pc = "orphanNodes" /\ Hit(graph, e, c.orphans) /\ graph'[e] = None
        \/ /\ c.pc = "survivorNodes" /\ Hit(graph, e, c.survivors)
           /\ graph'[e] # None /\ graph'[e].id = graph[e].id /\ graph'[e].src = graph[e].src \ {c.doc}
EdgeMoves(c) ==
    \A r \in Rels :
        \/ graph'[r] = graph[r]
        \/ c.pc = "orphanEdges" /\ Hit(graph, r, c.orphans) /\ graph'[r] = None
        \/ graph'[r] = None /\ \E e \in Ends[r] : graph[e] # None /\ graph'[e] = None
        \/ /\ c.pc = "survivorEdges" /\ Hit(graph, r, c.survivors)
           /\ graph'[r] # None /\ graph'[r].id = graph[r].id /\ graph'[r].src = graph[r].src \ {c.doc}
Moves(c) == RowMoves(c) /\ NodeMoves(c) /\ EdgeMoves(c)

\* What it must do.
Does(c) ==
    /\ \A e \in Entities :
          /\ c.pc = "orphanRows" /\ Hit(vector, e, c.orphans) => vector'[e] = None
          /\ c.pc = "survivorRows" /\ Hit(vector, e, c.survivors) => vector'[e].src = vector[e].src \ {c.doc}
          /\ c.pc = "orphanNodes" /\ Hit(graph, e, c.orphans) => graph'[e] = None
          /\ c.pc = "survivorNodes" /\ Hit(graph, e, c.survivors) => graph'[e].src = graph[e].src \ {c.doc}
    /\ \A r \in Rels :
          /\ c.pc = "orphanEdges" /\ Hit(graph, r, c.orphans) => graph'[r] = None
          /\ c.pc = "survivorEdges" /\ Hit(graph, r, c.survivors) => graph'[r].src = graph[r].src \ {c.doc}

\* Stripped keeps the records it does not hit.
LEMMA StrippedRows ==
    ASSUME NEW S, NEW store \in [S -> Record \cup {None}], NEW targets, NEW d
    PROVE  /\ Stripped(store, targets, d) \in [S -> Record \cup {None}]
           /\ \A x \in S : ~Hit(store, x, targets) => Stripped(store, targets, d)[x] = store[x]
           /\ \A x \in S : Hit(store, x, targets) =>
                 /\ Stripped(store, targets, d)[x] # None
                 /\ Stripped(store, targets, d)[x].id = store[x].id
                 /\ Stripped(store, targets, d)[x].src = store[x].src \ {d}
<1> DEFINE U == Stripped(store, targets, d)
<1>1. DOMAIN store = S /\ U = [x \in S |-> U[x]]
  BY DEF Stripped
<1>2. ASSUME NEW x \in S, ~Hit(store, x, targets)
      PROVE  U[x] = store[x]
  BY <1>2 DEF Stripped
<1>3. ASSUME NEW x \in S, Hit(store, x, targets)
      PROVE  U[x] \in Record /\ U[x].id = store[x].id /\ U[x].src = store[x].src \ {d}
  <2>1. U[x] = [store[x] EXCEPT !.src = @ \ {d}]
    BY <1>3 DEF Stripped
  <2>2. store[x] \in Record
    BY <1>3 DEF Hit
  <2> QED
    BY <2>1, <2>2 DEF Record
<1>4. \A x \in S : U[x] \in Record \cup {None}
  BY <1>2, <1>3
<1> QED
  BY <1>1, <1>2, <1>3, <1>4, RecordFacts

\* The statement a call is at does what it must and nothing else.
LEMMA EffectMoves ==
    ASSUME TypeInv, EdgeInv, NEW f \in Forgets, AtStage(f),
           vector' = Effect(call[f])[1], graph' = Effect(call[f])[2]
    PROVE  /\ Moves(call[f]) /\ Does(call[f]) /\ EdgeInv'
           /\ vector' \in [Entities -> Record \cup {None}] /\ graph' \in [Items -> Record \cup {None}]
<1> DEFINE c == call[f]
           t == Targets(c, c.pc)
<1>1. c.pc \in StageNames /\ c \in CallType
  BY StageList DEF AtStage, TypeInv
<1>2. /\ vector \in [Entities -> Record \cup {None}] /\ graph \in [Items -> Record \cup {None}]
      /\ Entities \cap Rels = {} /\ Items = Entities \cup Rels /\ Ends \in [Rels -> SUBSET Entities]
  BY CascadeAssumption DEF TypeInv, Items
<1>3. /\ \A x \in Entities : \A i : <<x, i>> \in OfEntities(c.orphans) <=> <<x, i>> \in c.orphans
      /\ \A x \in Entities : \A i : <<x, i>> \in OfEntities(c.survivors) <=> <<x, i>> \in c.survivors
      /\ \A x \in Rels : \A i : <<x, i>> \notin OfEntities(c.orphans) /\ <<x, i>> \notin OfEntities(c.survivors)
  BY <1>2 DEF OfEntities
<1>4. CASE c.pc = "orphanRows"
  <2>1. vector' = Deleted(vector, t) /\ graph' = graph /\ t = OfEntities(c.orphans)
    BY <1>4 DEF Effect, Targets
  <2>2. \A e \in Entities : Hit(vector, e, t) <=> Hit(vector, e, c.orphans)
    BY <2>1, <1>3 DEF Hit
  <2>3. vector' = [e \in Entities |-> IF Hit(vector, e, t) THEN None ELSE vector[e]]
    BY <2>1, <1>2 DEF Deleted
  <2>4. vector' \in [Entities -> Record \cup {None}]
    BY <2>3, <1>2
  <2> HIDE DEF t
  <2> QED
    BY <2>1, <2>2, <2>3, <2>4, <1>2, <1>4 DEF Moves, RowMoves, NodeMoves, EdgeMoves, Does, EdgeInv
<1>5. CASE c.pc = "survivorRows"
  <2>1. vector' = Stripped(vector, t, c.doc) /\ graph' = graph /\ t = OfEntities(c.survivors)
    BY <1>5 DEF Effect, Targets
  <2>2. \A e \in Entities : Hit(vector, e, t) <=> Hit(vector, e, c.survivors)
    BY <2>1, <1>3 DEF Hit
  <2> HIDE DEF t
  <2>3. /\ vector' \in [Entities -> Record \cup {None}]
        /\ \A x \in Entities : ~Hit(vector, x, t) => vector'[x] = vector[x]
        /\ \A x \in Entities : Hit(vector, x, t) =>
              vector'[x] # None /\ vector'[x].id = vector[x].id /\ vector'[x].src = vector[x].src \ {c.doc}
    BY <2>1, <1>2, StrippedRows
  <2> QED
    BY <2>1, <2>2, <2>3, <1>2, <1>5 DEF Moves, RowMoves, NodeMoves, EdgeMoves, Does, EdgeInv
<1>6. CASE c.pc \in {"survivorNodes", "survivorEdges"}
  <2>1. vector' = vector /\ graph' = Stripped(graph, t, c.doc)
    BY <1>6 DEF Effect
  <2>2. /\ c.pc = "survivorNodes" => t = OfEntities(c.survivors)
        /\ c.pc = "survivorEdges" => t = c.survivors \ OfEntities(c.survivors)
    BY <1>6 DEF Targets
  <2> HIDE DEF t
  <2>3. /\ c.pc = "survivorNodes" => /\ \A e \in Entities : Hit(graph, e, t) <=> Hit(graph, e, c.survivors)
                                     /\ \A r \in Rels : ~Hit(graph, r, t)
        /\ c.pc = "survivorEdges" => /\ \A r \in Rels : Hit(graph, r, t) <=> Hit(graph, r, c.survivors)
                                     /\ \A e \in Entities : ~Hit(graph, e, t)
    BY <2>2, <1>3 DEF Hit
  <2>4. /\ graph' \in [Items -> Record \cup {None}]
        /\ \A x \in Items : ~Hit(graph, x, t) => graph'[x] = graph[x]
        /\ \A x \in Items : Hit(graph, x, t) =>
              graph'[x] # None /\ graph'[x].id = graph[x].id /\ graph'[x].src = graph[x].src \ {c.doc}
    BY <2>1, <1>2, StrippedRows
  <2>5. \A x \in Items : graph'[x] = None <=> graph[x] = None
    BY <2>4 DEF Hit
  <2>6. EdgeInv'
    BY <2>5, <1>2 DEF EdgeInv
  <2>7. \A x \in Entities : x \in Items
    BY <1>2
  <2>8. \A x \in Rels : x \in Items
    BY <1>2
  <2>9. RowMoves(c) /\ NodeMoves(c)
    BY <2>1, <2>3, <2>4, <2>7, <1>6 DEF RowMoves, NodeMoves
  <2>10. EdgeMoves(c)
    BY <2>3, <2>4, <2>8, <1>6 DEF EdgeMoves
  <2>11. Does(c)
    BY <2>1, <2>3, <2>4, <2>7, <2>8, <1>6 DEF Does
  <2> QED
    BY <2>1, <2>4, <2>6, <2>9, <2>10, <2>11, <1>2 DEF Moves
<1>7. CASE c.pc \in {"orphanNodes", "orphanEdges"}
  <2> DEFINE h == Deleted(graph, t)
  <2>1. vector' = vector /\ graph' = Detached(h)
    BY <1>7 DEF Effect
  <2>2. /\ c.pc = "orphanNodes" => t = OfEntities(c.orphans)
        /\ c.pc = "orphanEdges" => t = c.orphans \ OfEntities(c.orphans)
    BY <1>7 DEF Targets
  <2> HIDE DEF t
  <2>3. /\ c.pc = "orphanNodes" => /\ \A e \in Entities : Hit(graph, e, t) <=> Hit(graph, e, c.orphans)
                                   /\ \A r \in Rels : ~Hit(graph, r, t)
        /\ c.pc = "orphanEdges" => /\ \A r \in Rels : Hit(graph, r, t) <=> Hit(graph, r, c.orphans)
                                   /\ \A e \in Entities : ~Hit(graph, e, t)
    BY <2>2, <1>3 DEF Hit
  <2>4. h = [x \in Items |-> IF Hit(graph, x, t) THEN None ELSE graph[x]]
    BY <1>2 DEF Deleted
  <2>5. graph' = [x \in Items |-> IF x \in Rels /\ \E e \in Ends[x] : h[e] = None THEN None ELSE h[x]]
    BY <2>1, <2>4 DEF Detached
  <2>6. \A e \in Entities : h[e] = (IF Hit(graph, e, t) THEN None ELSE graph[e]) /\ graph'[e] = h[e]
    BY <2>4, <2>5, <1>2
  <2>7. \A r \in Rels : /\ h[r] = (IF Hit(graph, r, t) THEN None ELSE graph[r])
                        /\ (\E e \in Ends[r] : h[e] = None) => graph'[r] = None
                        /\ ~(\E e \in Ends[r] : h[e] = None) => graph'[r] = h[r]
    BY <2>4, <2>5, <1>2
  <2> HIDE DEF h
  <2>8. graph' \in [Items -> Record \cup {None}]
    <3>1. \A x \in Items : h[x] \in Record \cup {None}
      BY <2>4, <1>2
    <3> QED
      BY <2>5, <3>1
  <2>9. \A r \in Rels : Ends[r] \subseteq Entities
    BY <1>2
  <2>10. EdgeInv'
    <3> SUFFICES ASSUME NEW r \in Rels, graph'[r] # None, NEW e \in Ends[r] PROVE graph'[e] # None
      BY DEF EdgeInv
    <3> QED
      BY <2>6, <2>7, <2>9
  <2>11. RowMoves(c) /\ NodeMoves(c)
    BY <2>1, <2>3, <2>6, <1>7 DEF RowMoves, NodeMoves
  <2>12. EdgeMoves(c)
    <3> SUFFICES ASSUME NEW r \in Rels, graph'[r] # graph[r]
                 PROVE  \/ c.pc = "orphanEdges" /\ Hit(graph, r, c.orphans) /\ graph'[r] = None
                        \/ graph'[r] = None /\ \E e \in Ends[r] : graph[e] # None /\ graph'[e] = None
      BY DEF EdgeMoves
    <3>1. CASE \E e \in Ends[r] : h[e] = None
      <4>1. PICK e \in Ends[r] : h[e] = None
        BY <3>1
      <4>2. graph'[r] = None /\ graph'[e] = None /\ graph[r] # None
        BY <4>1, <2>6, <2>7, <2>9
      <4>3. graph[e] # None
        BY <4>2 DEF EdgeInv
      <4> QED
        BY <4>2, <4>3
    <3>2. CASE ~\E e \in Ends[r] : h[e] = None
      BY <3>2, <2>3, <2>7, <1>7
    <3> QED
      BY <3>1, <3>2
  <2>13. Does(c)
    BY <2>3, <2>6, <2>7, <1>7 DEF Does
  <2> QED
    BY <2>1, <2>8, <2>10, <2>11, <2>12, <2>13, <1>2 DEF Moves
<1>8. CASE c.pc = "document"
  <2>1. vector' = vector /\ graph' = graph
    BY <1>8 DEF Effect, stores
  <2> QED
    BY <2>1, <1>2, <1>8 DEF Moves, RowMoves, NodeMoves, EdgeMoves, Does, EdgeInv
<1> QED
  BY <1>1, <1>4, <1>5, <1>6, <1>7, <1>8 DEF StageNames

CascadeView(f) ==
    /\ Moves(call[f]) /\ Does(call[f]) /\ CallFrame(f)
    /\ doc' = doc /\ ingest' = ingest /\ torn' = torn /\ crossed' = crossed /\ met' = met /\ broken' = broken
    /\ call[f].pc \in StageNames \ {"document"}
    /\ call'[f].pc \in StageNames /\ call'[f].pc = StageAfter(call[f])
    /\ call'[f].doc = call[f].doc /\ call'[f].orphans = call[f].orphans /\ call'[f].survivors = call[f].survivors

LEMMA CascadeFacts ==
    ASSUME TypeInv, EdgeInv, NEW f \in Forgets, CascadeStep(f)
    PROVE  /\ CascadeView(f) /\ EdgeInv' /\ call'[f] \in CallType
           /\ vector' \in [Entities -> Record \cup {None}] /\ graph' \in [Items -> Record \cup {None}]
<1>1. AtStage(f) /\ vector' = Effect(call[f])[1] /\ graph' = Effect(call[f])[2]
  BY DEF CascadeStep
<1>2. /\ Moves(call[f]) /\ Does(call[f]) /\ EdgeInv'
      /\ vector' \in [Entities -> Record \cup {None}] /\ graph' \in [Items -> Record \cup {None}]
  BY <1>1, EffectMoves
<1>3. call[f].pc \in StageNames \ {"document"} /\ call[f] \in CallType
  BY StageList DEF AtStage, CascadeStep, TypeInv
<1>4. call' = [call EXCEPT ![f].pc = StageAfter(call[f])]
  BY DEF CascadeStep
<1> DEFINE q == StageAfter(call[f])
<1>5. q \in StageNames
  BY <1>3, StageAfterPasses
<1> HIDE DEF q
<1>6. call' = [call EXCEPT ![f].pc = q]
  BY <1>4 DEF q
<1>7. /\ call'[f].pc = q /\ call'[f].doc = call[f].doc /\ CallFrame(f)
      /\ call'[f].orphans = call[f].orphans /\ call'[f].survivors = call[f].survivors
      /\ call'[f] \in CallType
  BY <1>3, <1>5, <1>6 DEF TypeInv, CallType, CallFrame
<1>8. doc' = doc /\ ingest' = ingest /\ torn' = torn /\ crossed' = crossed /\ met' = met /\ broken' = broken
  BY DEF CascadeStep, history
<1>9. call'[f].pc = StageAfter(call[f])
  BY <1>7 DEF q
<1> QED
  BY <1>2, <1>3, <1>5, <1>7, <1>8, <1>9 DEF CascadeView

\* f is idle again.
Returns(f) ==
    /\ CallFrame(f)
    /\ call'[f].pc = "idle" /\ call'[f].doc = None /\ call'[f].orphans = {} /\ call'[f].survivors = {}

LEMMA ReturnsFacts ==
    ASSUME TypeInv, NEW f \in Forgets, call' = [call EXCEPT ![f] = IdleCall]
    PROVE  Returns(f) /\ call'[f] \in CallType
BY DEF TypeInv, Returns, CallFrame, IdleCall, CallType

DeleteView(f) ==
    /\ vector' = vector /\ graph' = graph /\ ingest' = ingest
    /\ torn' = torn /\ crossed' = crossed /\ met' = met /\ broken' = broken
    /\ call[f].pc = "document" /\ Returns(f)
    /\ doc'[call[f].doc] = "forgotten" /\ \A b \in Docs : b # call[f].doc => doc'[b] = doc[b]

LEMMA DeleteFacts ==
    ASSUME TypeInv, CallInv, NEW f \in Forgets, DeleteDocument(f)
    PROVE  DeleteView(f) /\ call'[f] \in CallType /\ call[f].doc \in Docs
<1>1. call[f].doc \in Docs /\ call[f].pc = "document"
  BY DEF DeleteDocument, TypeInv, CallInv, CallType
<1>2. Returns(f) /\ call'[f] \in CallType
  BY ReturnsFacts DEF DeleteDocument
<1>3. doc' = [doc EXCEPT ![call[f].doc] = "forgotten"] /\ doc \in [Docs -> {"absent", "stored", "forgotten"}]
  BY DEF DeleteDocument, TypeInv
<1>4. doc'[call[f].doc] = "forgotten" /\ \A b \in Docs : b # call[f].doc => doc'[b] = doc[b]
  BY <1>1, <1>3
<1> QED
  BY <1>1, <1>2, <1>4 DEF DeleteDocument, DeleteView, stores, history

RaiseView(f) ==
    /\ Moves(call[f]) /\ Returns(f) /\ call[f].pc \in StageNames
    /\ doc' = doc /\ ingest' = ingest /\ torn' = torn /\ crossed' = crossed /\ met' = met
    /\ broken' = broken \cup {call[f].doc}

LEMMA RaiseFacts ==
    ASSUME TypeInv, EdgeInv, NEW f \in Forgets, ForgetRaises(f)
    PROVE  /\ RaiseView(f) /\ EdgeInv' /\ call'[f] \in CallType
           /\ vector' \in [Entities -> Record \cup {None}] /\ graph' \in [Items -> Record \cup {None}]
<1>1. AtStage(f) /\ call[f].pc \in StageNames
  BY StageList DEF ForgetRaises, AtStage
<1>2. Returns(f) /\ call'[f] \in CallType
  BY ReturnsFacts DEF ForgetRaises
<1>3. \/ vector' = vector /\ graph' = graph
      \/ vector' = Effect(call[f])[1] /\ graph' = Effect(call[f])[2]
  BY DEF ForgetRaises, stores
<1>4. /\ Moves(call[f]) /\ EdgeInv'
      /\ vector' \in [Entities -> Record \cup {None}] /\ graph' \in [Items -> Record \cup {None}]
  <2>1. CASE vector' = vector /\ graph' = graph
    BY <2>1 DEF Moves, RowMoves, NodeMoves, EdgeMoves, EdgeInv, TypeInv
  <2>2. CASE vector' = Effect(call[f])[1] /\ graph' = Effect(call[f])[2]
    BY <1>1, <2>2, EffectMoves
  <2> QED
    BY <1>3, <2>1, <2>2
<1> QED
  BY <1>1, <1>2, <1>4 DEF ForgetRaises, RaiseView

CrashView ==
    /\ vector' = vector /\ graph' = graph /\ doc' = doc
    /\ torn' = torn /\ crossed' = crossed /\ met' = met
    /\ \A f \in Forgets : call'[f].pc = "idle" /\ call'[f].doc = None /\ call'[f].orphans = {} /\ call'[f].survivors = {}
    /\ \A d \in Docs : \/ ingest[d].pc \in {"no", "done"} /\ ingest'[d] = ingest[d]
                       \/ ingest[d].pc \notin {"no", "done"} /\ ingest'[d].pc = "done" /\ d \in broken'
    /\ broken \subseteq broken' /\ broken' \subseteq Docs
    /\ \A f \in Forgets : call[f].doc \in Docs => call[f].doc \in broken'

LEMMA CrashFacts ==
    ASSUME TypeInv, Crash
    PROVE  CrashView /\ call' \in [Forgets -> CallType] /\ ingest' \in [Docs -> [pc : IngestPcs, ids : IngestIds]]
<1>1. call' = [f \in Forgets |-> IdleCall]
  BY DEF Crash
<1>2. IdleCall \in CallType
  BY DEF IdleCall, CallType
<1>3. /\ call' \in [Forgets -> CallType]
      /\ \A f \in Forgets :
            call'[f].pc = "idle" /\ call'[f].doc = None /\ call'[f].orphans = {} /\ call'[f].survivors = {}
  BY <1>1, <1>2 DEF IdleCall
<1> DEFINE ended == [pc |-> "done", ids |-> <<>>]
<1>4. ended \in [pc : IngestPcs, ids : IngestIds] /\ ended.pc = "done"
  BY DEF IngestPcs, IngestIds
<1>5. ingest' = [d \in Docs |-> IF ingest[d].pc \in {"no", "done"} THEN ingest[d] ELSE ended]
  BY DEF Crash
<1> HIDE DEF ended
<1>6. ingest' \in [Docs -> [pc : IngestPcs, ids : IngestIds]]
  BY <1>4, <1>5 DEF TypeInv
<1>7. broken' = broken \cup {d \in Docs : ingest[d].pc \notin {"no", "done"} \/ \E f \in Forgets : call[f].doc = d}
  BY DEF Crash
<1>8. /\ broken \subseteq broken' /\ broken' \subseteq Docs
      /\ \A f \in Forgets : call[f].doc \in Docs => call[f].doc \in broken'
      /\ \A d \in Docs : ingest[d].pc \notin {"no", "done"} => d \in broken'
  BY <1>7 DEF TypeInv
<1>9. \A d \in Docs : \/ ingest[d].pc \in {"no", "done"} /\ ingest'[d] = ingest[d]
                      \/ ingest[d].pc \notin {"no", "done"} /\ ingest'[d].pc = "done" /\ d \in broken'
  BY <1>4, <1>5, <1>8
<1> QED
  BY <1>3, <1>6, <1>8, <1>9 DEF Crash, CrashView, stores

-------------------------------------------------------------------------------
\* BaseInv.

\* The types after a step that changes the calls one at a time.
LEMMA CallTypes ==
    ASSUME TypeInv, NEW f \in Forgets, CallFrame(f), call'[f] \in CallType,
           \E k : call' = [call EXCEPT ![f] = k]
    PROVE  call' \in [Forgets -> CallType]
BY DEF TypeInv, CallFrame

LEMMA BaseInit ==
    ASSUME Init
    PROVE  BaseInv
<1>1. IdleCall \in CallType /\ IdleCall.pc = "idle" /\ IdleCall.doc = None /\ IdleCall.orphans = {} /\ IdleCall.survivors = {}
  BY DEF IdleCall, CallType
<1> DEFINE first == [pc |-> "no", ids |-> <<>>]
<1>2. first \in [pc : IngestPcs, ids : IngestIds] /\ first.pc = "no"
  BY DEF IngestPcs, IngestIds
<1>3. /\ \A f \in Forgets : call[f] = IdleCall
      /\ \A d \in Docs : ingest[d] = first /\ doc[d] = "absent"
      /\ \A e \in Entities : vector[e] = None /\ \A x \in Items : graph[x] = None
  BY DEF Init
<1>4. ingest \in [Docs -> [pc : IngestPcs, ids : IngestIds]] /\ \A d \in Docs : ingest[d].pc = "no"
  BY <1>2, <1>3 DEF Init
<1> HIDE DEF first
<1>5. TypeInv
  BY <1>1, <1>3, <1>4 DEF Init, TypeInv
<1>6. DocInv /\ CallInv
  BY <1>1, <1>3, <1>4 DEF DocInv, CallInv
<1>7. SourceInv /\ EdgeInv
  BY <1>3, CascadeAssumption DEF SourceInv, EdgeInv, Items, Init
<1> QED
  BY <1>5, <1>6, <1>7 DEF BaseInv

LEMMA TypeStep ==
    ASSUME BaseInv, [Next]_vars
    PROVE  TypeInv'
<1> USE DEF BaseInv
<1> DEFINE Ingest == [pc : IngestPcs, ids : IngestIds]
<1>1. ASSUME UNCHANGED vars PROVE TypeInv'
  BY <1>1 DEF TypeInv, vars, stores, history
<1>2. ASSUME NEW d \in Docs, CreateDocument(d) PROVE TypeInv'
  <2>1. CreateView(d)
    BY <1>2, CreateFacts
  <2>2. doc' \in [Docs -> {"absent", "stored", "forgotten"}]
    BY <1>2 DEF TypeInv, CreateDocument
  <2>3. ingest' \in [Docs -> Ingest]
    BY <1>2 DEF TypeInv, CreateDocument, IngestPcs
  <2>4. \A b \in Docs : ingest'[b].pc \in {"graph", "relate"} => ingest'[b].ids \in [Mentions[b] -> Docs]
    BY <2>1 DEF CreateView, IngestFrame, TypeInv
  <2> QED
    BY <2>1, <2>2, <2>3, <2>4 DEF TypeInv, CreateView, IngestFrame
<1>3. ASSUME NEW d \in Docs, UpsertVector(d) PROVE TypeInv'
  <2>1. /\ RowsView(d) /\ vector' \in [Entities -> Record \cup {None}]
        /\ ingest'[d] \in Ingest /\ ingest'[d].ids \in [Mentions[d] -> Docs]
    BY <1>3, RowsFacts
  <2>2. ingest' \in [Docs -> Ingest]
    <3>1. \A b \in Docs : ingest'[b] \in Ingest
      BY <2>1 DEF TypeInv, RowsView, IngestFrame
    <3>2. ingest' = [b \in Docs |-> ingest'[b]]
      BY <1>3 DEF TypeInv, UpsertVector
    <3> QED
      BY <3>1, <3>2
  <2>3. \A b \in Docs : ingest'[b].pc \in {"graph", "relate"} => ingest'[b].ids \in [Mentions[b] -> Docs]
    BY <2>1 DEF RowsView, IngestFrame, TypeInv
  <2>4. torn' \subseteq Docs \X Items
    <3>1. Mentions[d] \subseteq Items
      BY CascadeAssumption DEF Items
    <3> QED
      BY <1>3, <3>1 DEF UpsertVector, Tear, TypeInv
  <2> QED
    BY <2>1, <2>2, <2>3, <2>4 DEF TypeInv, RowsView, IngestFrame
<1>4. ASSUME NEW d \in Docs, UpsertGraph(d) PROVE TypeInv'
  <2>1. /\ NodesView(d) /\ graph' \in [Items -> Record \cup {None}]
        /\ ingest'[d] \in Ingest /\ ingest'[d].ids \in [Mentions[d] -> Docs]
    BY <1>4, NodesFacts
  <2>2. ingest' \in [Docs -> Ingest]
    <3>1. \A b \in Docs : ingest'[b] \in Ingest
      BY <2>1 DEF TypeInv, NodesView, IngestFrame
    <3>2. ingest' = [b \in Docs |-> ingest'[b]]
      BY <1>4 DEF TypeInv, UpsertGraph
    <3> QED
      BY <3>1, <3>2
  <2>3. \A b \in Docs : ingest'[b].pc \in {"graph", "relate"} => ingest'[b].ids \in [Mentions[b] -> Docs]
    BY <2>1 DEF NodesView, IngestFrame, TypeInv
  <2>4. torn' \subseteq Docs \X Items
    <3>1. Mentions[d] \subseteq Items
      BY CascadeAssumption DEF Items
    <3> QED
      BY <1>4, <3>1 DEF UpsertGraph, Tear, TypeInv
  <2> QED
    BY <2>1, <2>2, <2>3, <2>4 DEF TypeInv, NodesView, IngestFrame
<1>5. ASSUME NEW d \in Docs, Relate(d) PROVE TypeInv'
  <2>1. EdgesView(d) /\ graph' \in [Items -> Record \cup {None}]
    BY <1>5, EdgesFacts
  <2>2. ingest' \in [Docs -> Ingest]
    BY <1>5 DEF TypeInv, Relate, IngestPcs
  <2>3. \A b \in Docs : ingest'[b].pc \in {"graph", "relate"} => ingest'[b].ids \in [Mentions[b] -> Docs]
    BY <2>1 DEF EdgesView, IngestFrame, TypeInv
  <2>4. torn' \subseteq Docs \X Items
    <3>1. Relates[d] \subseteq Items
      BY CascadeAssumption DEF Items
    <3> QED
      BY <1>5, <3>1 DEF Relate, Tear, TypeInv
  <2> QED
    BY <2>1, <2>2, <2>3, <2>4 DEF TypeInv, EdgesView, IngestFrame
<1>6. ASSUME NEW f \in Forgets, NEW d \in Docs, Forget(f, d) PROVE TypeInv'
  <2>1. ForgetView(f, d) /\ call'[f] \in CallType
    BY <1>6, ForgetFacts
  <2>2. call' \in [Forgets -> CallType]
    BY <1>6, <2>1, CallTypes DEF Forget, ForgetView, Reads
  <2> QED
    BY <2>1, <2>2 DEF TypeInv, ForgetView, Reads
<1>7. ASSUME NEW f \in Forgets, ListEntities(f) PROVE TypeInv'
  <2>1. ListView(f) /\ call'[f] \in CallType
    BY <1>7, ListFacts
  <2>2. call' \in [Forgets -> CallType]
    BY <1>7, <2>1 DEF ListEntities, ListView, Reads, CallFrame, TypeInv
  <2>3. crossed' \subseteq Items
    BY <2>1 DEF ListView, CrossedBy, CallType, Pairs, TypeInv
  <2> QED
    BY <2>1, <2>2, <2>3 DEF TypeInv, ListView, Reads
<1>8. ASSUME NEW f \in Forgets, ListRelationships(f) PROVE TypeInv'
  <2>1. ListEdgesView(f) /\ call'[f] \in CallType
    BY <1>8, ListEdgesFacts
  <2>2. call' \in [Forgets -> CallType]
    BY <1>8, <2>1, CallTypes DEF ListRelationships, ListEdgesView, Reads
  <2>3. crossed' \subseteq Items
    BY <2>1 DEF ListEdgesView, CrossedBy, CallType, Pairs, TypeInv
  <2> QED
    BY <2>1, <2>2, <2>3 DEF TypeInv, ListEdgesView, Reads
<1>9. ASSUME NEW f \in Forgets, CascadeStep(f) PROVE TypeInv'
  <2>1. /\ CascadeView(f) /\ call'[f] \in CallType
        /\ vector' \in [Entities -> Record \cup {None}] /\ graph' \in [Items -> Record \cup {None}]
    BY <1>9, CascadeFacts
  <2>2. call' \in [Forgets -> CallType]
    BY <1>9, <2>1 DEF CascadeStep, CascadeView, CallFrame, TypeInv
  <2> QED
    BY <2>1, <2>2 DEF TypeInv, CascadeView
<1>10. ASSUME NEW f \in Forgets, DeleteDocument(f) PROVE TypeInv'
  <2>1. DeleteView(f) /\ call'[f] \in CallType
    BY <1>10, DeleteFacts
  <2>2. call' \in [Forgets -> CallType]
    BY <1>10, <2>1, CallTypes DEF DeleteDocument, DeleteView, Returns
  <2>3. doc' \in [Docs -> {"absent", "stored", "forgotten"}]
    BY <1>10 DEF DeleteDocument, TypeInv
  <2> QED
    BY <2>1, <2>2, <2>3 DEF TypeInv, DeleteView
<1>11. ASSUME NEW f \in Forgets, ForgetRaises(f) PROVE TypeInv'
  <2>1. /\ RaiseView(f) /\ call'[f] \in CallType
        /\ vector' \in [Entities -> Record \cup {None}] /\ graph' \in [Items -> Record \cup {None}]
    BY <1>11, RaiseFacts
  <2>2. call' \in [Forgets -> CallType]
    BY <1>11, <2>1, CallTypes DEF ForgetRaises, RaiseView, Returns
  <2>3. call[f].doc \in Docs
    BY <2>1 DEF RaiseView, CallInv, TypeInv, CallType, StageNames
  <2> QED
    BY <2>1, <2>2, <2>3 DEF TypeInv, RaiseView
<1>12. ASSUME Crash PROVE TypeInv'
  <2>1. CrashView /\ call' \in [Forgets -> CallType] /\ ingest' \in [Docs -> Ingest]
    BY <1>12, CrashFacts
  <2>2. \A d \in Docs : ingest'[d].pc \notin {"graph", "relate"}
    BY <2>1 DEF CrashView
  <2> QED
    BY <2>1, <2>2 DEF TypeInv, CrashView
<1> QED
  BY <1>1, <1>2, <1>3, <1>4, <1>5, <1>6, <1>7, <1>8, <1>9, <1>10, <1>11, <1>12 DEF Next

\* The rest of BaseInv, from the views.
LEMMA BaseStep ==
    ASSUME BaseInv, [Next]_vars
    PROVE  BaseInv'
<1> USE DEF BaseInv
<1>0. TypeInv'
  BY TypeStep
<1> DEFINE Rest == DocInv /\ CallInv /\ SourceInv /\ EdgeInv
<1>a. /\ \A d \in Docs : Mentions[d] \subseteq Entities /\ Relates[d] \subseteq Rels
      /\ \A d \in Docs : Written(d) = Mentions[d] \cup Relates[d]
      /\ Entities \cap Rels = {} /\ Items = Entities \cup Rels
      /\ \A r \in Rels : Ends[r] \subseteq Entities
  BY CascadeAssumption DEF Written, Items
<1>1. ASSUME UNCHANGED vars PROVE Rest'
  BY <1>1 DEF DocInv, CallInv, SourceInv, EdgeInv, vars, stores, history, Written
<1>2. ASSUME NEW d \in Docs, CreateDocument(d) PROVE Rest'
  <2>1. CreateView(d)
    BY <1>2, CreateFacts
  <2>2. ingest[d].pc = "no" /\ \A b \in Docs : b # d => ingest'[b] = ingest[b]
    BY <2>1 DEF CreateView, DocInv, IngestFrame
  <2>3. DocInv' /\ CallInv'
    BY <2>1, <2>2 DEF CreateView, DocInv, CallInv, IngestFrame, TypeInv, CallType, Written
  <2>4. SourceInv'
    <3>1. \A e \in Entities : vector[e] # None => vector[e].src \subseteq Docs
      BY RecordFacts DEF TypeInv
    <3>2. \A x \in Items : graph[x] # None => graph[x].src \subseteq Docs
      BY RecordFacts DEF TypeInv
    <3> QED
      BY <2>1, <2>2, <3>1, <3>2, <1>a DEF CreateView, SourceInv
  <2>5. EdgeInv'
    BY <2>1 DEF CreateView, EdgeInv
  <2> QED
    BY <2>3, <2>4, <2>5
<1>b. /\ \A e \in Entities : vector[e] # None => vector[e].src \subseteq Docs
      /\ \A e \in Entities : graph[e] # None => graph[e].src \subseteq Docs
      /\ \A r \in Rels : graph[r] # None => graph[r].src \subseteq Docs
  BY <1>a, RecordFacts DEF TypeInv
<1>3. ASSUME NEW d \in Docs, UpsertVector(d) PROVE Rest'
  <2>1. RowsView(d)
    BY <1>3, RowsFacts
  <2>2. DocInv' /\ CallInv'
    <3>1. /\ doc' = doc /\ call' = call /\ met' = met
          /\ ingest[d].pc = "vector" /\ ingest'[d].pc \notin {"no", "vector"}
          /\ \A b \in Docs : b # d => ingest'[b] = ingest[b]
      BY <2>1 DEF RowsView, IngestFrame
    <3>2. \A g \in Forgets : call[g].pc # "idle" => call[g].doc \in Docs
      BY DEF TypeInv, CallInv, CallType
    <3>3. \A b \in Docs : /\ ingest[b].pc = "no" <=> ingest'[b].pc = "no"
                          /\ ingest[b].pc = "done" => ingest'[b].pc = "done"
                          /\ ingest[b].pc \notin {"no", "vector"} => ingest'[b].pc \notin {"no", "vector"}
      BY <3>1
    <3>4. DocInv'
      BY <3>1, <3>3 DEF DocInv
    <3> QED
      BY <3>1, <3>2, <3>3, <3>4 DEF CallInv
  <2>3. SourceInv'
    <3>1. ASSUME NEW e \in Entities, vector'[e] # None, NEW s, s \in vector'[e].src
          PROVE  e \in Mentions[s] /\ ingest'[s].pc \in {"graph", "relate", "done"}
      <4>1. (s = d /\ e \in Mentions[d]) \/ (vector[e] # None /\ s \in vector[e].src)
        BY <2>1, <3>1 DEF RowsView
      <4> QED
        BY <2>1, <4>1, <1>b DEF RowsView, IngestFrame, SourceInv
    <3>2. \A s \in Docs : ingest[s].pc \in {"relate", "done"} => ingest'[s].pc = ingest[s].pc
      BY <2>1 DEF RowsView, IngestFrame
    <3> QED
      BY <2>1, <3>1, <3>2, <1>b DEF RowsView, SourceInv
  <2>4. EdgeInv'
    BY <2>1 DEF RowsView, EdgeInv
  <2> QED
    BY <2>2, <2>3, <2>4
<1>4. ASSUME NEW d \in Docs, UpsertGraph(d) PROVE Rest'
  <2>1. NodesView(d)
    BY <1>4, NodesFacts
  <2>2. DocInv' /\ CallInv'
    <3>1. /\ doc' = doc /\ call' = call /\ met' = met
          /\ ingest[d].pc = "graph" /\ ingest'[d].pc \notin {"no", "vector"}
          /\ \A b \in Docs : b # d => ingest'[b] = ingest[b]
      BY <2>1 DEF NodesView, IngestFrame
    <3>2. \A g \in Forgets : call[g].pc # "idle" => call[g].doc \in Docs
      BY DEF TypeInv, CallInv, CallType
    <3>3. \A b \in Docs : /\ ingest[b].pc = "no" <=> ingest'[b].pc = "no"
                          /\ ingest[b].pc = "done" => ingest'[b].pc = "done"
                          /\ ingest[b].pc \notin {"no", "vector"} => ingest'[b].pc \notin {"no", "vector"}
      BY <3>1
    <3>4. DocInv'
      BY <3>1, <3>3 DEF DocInv
    <3> QED
      BY <3>1, <3>2, <3>3, <3>4 DEF CallInv
  <2>3. SourceInv'
    <3>1. ASSUME NEW e \in Entities, graph'[e] # None, NEW s, s \in graph'[e].src
          PROVE  e \in Mentions[s] /\ ingest'[s].pc \in {"relate", "done"}
      <4>1. (s = d /\ e \in Mentions[d]) \/ (graph[e] # None /\ s \in graph[e].src)
        BY <2>1, <3>1, <1>a DEF NodesView
      <4> QED
        BY <2>1, <4>1, <1>b DEF NodesView, IngestFrame, SourceInv
    <3>2. \A r \in Rels : graph'[r] = graph[r]
      BY <2>1, <1>a DEF NodesView
    <3>3. \A s \in Docs : /\ ingest[s].pc = "done" => ingest'[s].pc = "done"
                          /\ ingest[s].pc \in {"graph", "relate", "done"} => ingest'[s].pc \in {"graph", "relate", "done"}
      BY <2>1 DEF NodesView, IngestFrame
    <3> QED
      BY <2>1, <3>1, <3>2, <3>3, <1>b DEF NodesView, SourceInv
  <2>4. EdgeInv'
    BY <2>1, <1>a DEF NodesView, EdgeInv
  <2> QED
    BY <2>2, <2>3, <2>4
<1>5. ASSUME NEW d \in Docs, Relate(d) PROVE Rest'
  <2>1. EdgesView(d)
    BY <1>5, EdgesFacts
  <2>2. DocInv' /\ CallInv'
    <3>1. /\ doc' = doc /\ call' = call /\ met' = met
          /\ ingest[d].pc = "relate" /\ ingest'[d].pc \notin {"no", "vector"}
          /\ \A b \in Docs : b # d => ingest'[b] = ingest[b]
      BY <2>1 DEF EdgesView, IngestFrame
    <3>2. \A g \in Forgets : call[g].pc # "idle" => call[g].doc \in Docs
      BY DEF TypeInv, CallInv, CallType
    <3>3. \A b \in Docs : /\ ingest[b].pc = "no" <=> ingest'[b].pc = "no"
                          /\ ingest[b].pc = "done" => ingest'[b].pc = "done"
                          /\ ingest[b].pc \notin {"no", "vector"} => ingest'[b].pc \notin {"no", "vector"}
      BY <3>1
    <3>4. DocInv'
      BY <3>1, <3>3 DEF DocInv
    <3> QED
      BY <3>1, <3>2, <3>3, <3>4 DEF CallInv
  <2>3. /\ Matched(d) \subseteq Relates[d] /\ \A e \in Entities : graph'[e] = graph[e]
        /\ \A r \in Matched(d) : \A e \in Ends[r] : graph[e] # None
    BY <2>1, <1>a DEF EdgesView, Matched
  <2>4. SourceInv'
    <3>1. ASSUME NEW r \in Rels, graph'[r] # None, NEW s, s \in graph'[r].src
          PROVE  r \in Relates[s] /\ ingest'[s].pc = "done"
      <4>1. (s = d /\ r \in Relates[d]) \/ (graph[r] # None /\ s \in graph[r].src)
        BY <2>1, <2>3, <3>1, <1>a DEF EdgesView
      <4> QED
        BY <2>1, <4>1, <1>b DEF EdgesView, IngestFrame, SourceInv
    <3>2. \A s \in Docs : ingest[s].pc \in {"relate", "done"} => ingest'[s].pc \in {"relate", "done"}
      BY <2>1 DEF EdgesView, IngestFrame
    <3>3. \A s \in Docs : ingest[s].pc \in {"graph", "relate", "done"} => ingest'[s].pc \in {"graph", "relate", "done"}
      BY <2>1 DEF EdgesView, IngestFrame
    <3> QED
      BY <2>1, <2>3, <3>1, <3>2, <3>3, <1>b DEF EdgesView, SourceInv
  <2>5. EdgeInv'
    BY <2>1, <2>3, <1>a DEF EdgesView, EdgeInv
  <2> QED
    BY <2>2, <2>4, <2>5
<1>6. ASSUME NEW f \in Forgets, NEW d \in Docs, Forget(f, d) PROVE Rest'
  <2>1. ForgetView(f, d)
    BY <1>6, ForgetFacts
  <2>2. DocInv' /\ EdgeInv'
    BY <2>1 DEF ForgetView, Reads, DocInv, EdgeInv
  <2>3. SourceInv'
    BY <2>1 DEF ForgetView, Reads, SourceInv
  <2>4. CallInv'
    <3> SUFFICES ASSUME NEW g \in Forgets PROVE CallInv!(g)'
      BY DEF CallInv
    <3>1. CASE g = f
      BY <3>1, <2>1, RecordFacts DEF ForgetView, Reads
    <3>2. CASE g # f
      BY <3>2, <2>1 DEF ForgetView, Reads, CallFrame, CallInv
    <3> QED
      BY <3>1, <3>2
  <2> QED
    BY <2>2, <2>3, <2>4
<1>7. ASSUME NEW f \in Forgets, ListEntities(f) PROVE Rest'
  <2>1. ListView(f)
    BY <1>7, ListFacts
  <2>2. DocInv' /\ EdgeInv'
    BY <2>1 DEF ListView, Reads, DocInv, EdgeInv
  <2>3. SourceInv'
    BY <2>1 DEF ListView, Reads, SourceInv
  <2>4. CallInv'
    <3> SUFFICES ASSUME NEW g \in Forgets PROVE CallInv!(g)'
      BY DEF CallInv
    <3>1. CASE g = f
      <4>1. call[f].doc \in Docs /\ call[f].pc = "list"
        BY <2>1 DEF ListView, CallInv, TypeInv, CallType
      <4>2. \A p \in call'[f].orphans \cup call'[f].survivors :
               p[1] \in Entities /\ vector[p[1]] # None /\ call[f].doc \in vector[p[1]].src
        BY <2>1 DEF ListView, IsListing
      <4>3. \A p \in call'[f].orphans \cup call'[f].survivors :
               p[1] \in Written(call[f].doc) /\ ingest[call[f].doc].pc \notin {"no", "vector"}
        BY <4>1, <4>2, <1>a DEF SourceInv
      <4> QED
        BY <3>1, <2>1, <4>1, <4>3, RecordFacts DEF ListView, Reads, CallInv, Written
    <3>2. CASE g # f
      BY <3>2, <2>1 DEF ListView, Reads, CallFrame, CallInv
    <3> QED
      BY <3>1, <3>2
  <2> QED
    BY <2>2, <2>3, <2>4
<1>8. ASSUME NEW f \in Forgets, ListRelationships(f) PROVE Rest'
  <2>1. ListEdgesView(f)
    BY <1>8, ListEdgesFacts
  <2>2. DocInv' /\ EdgeInv'
    BY <2>1 DEF ListEdgesView, Reads, DocInv, EdgeInv
  <2>3. SourceInv'
    BY <2>1 DEF ListEdgesView, Reads, SourceInv
  <2>4. CallInv'
    <3> SUFFICES ASSUME NEW g \in Forgets PROVE CallInv!(g)'
      BY DEF CallInv
    <3>1. CASE g = f
      <4>1. call[f].doc \in Docs /\ call[f].pc = "listEdges"
        BY <2>1 DEF ListEdgesView, CallInv, TypeInv, CallType
      <4>2. \A p \in call'[f].orphans \cup call'[f].survivors :
               \/ p \in call[f].orphans \cup call[f].survivors
               \/ p[1] \in Rels /\ graph[p[1]] # None /\ call[f].doc \in graph[p[1]].src
        BY <2>1 DEF ListEdgesView, IsListing
      <4>3. \A p \in call'[f].orphans \cup call'[f].survivors :
               p[1] \in Written(call[f].doc) /\ ingest[call[f].doc].pc \notin {"no", "vector"}
        BY <4>1, <4>2, <1>a DEF SourceInv, CallInv
      <4>4. call'[f].pc \in StageNames
        BY <2>1 DEF ListEdgesView, PassesOver
      <4> QED
        BY <3>1, <2>1, <4>1, <4>3, <4>4, RecordFacts DEF ListEdgesView, Reads, CallInv, Written, StageNames
    <3>2. CASE g # f
      BY <3>2, <2>1 DEF ListEdgesView, Reads, CallFrame, CallInv
    <3> QED
      BY <3>1, <3>2
  <2> QED
    BY <2>2, <2>3, <2>4
<1>c. ASSUME NEW f \in Forgets, Moves(call[f]), ingest' = ingest
      PROVE  SourceInv'
  <2>1. /\ \A e \in Entities : vector'[e] # None => vector[e] # None /\ vector'[e].src \subseteq vector[e].src
        /\ \A e \in Entities : graph'[e] # None => graph[e] # None /\ graph'[e].src \subseteq graph[e].src
        /\ \A r \in Rels : graph'[r] # None => graph[r] # None /\ graph'[r].src \subseteq graph[r].src
    BY <1>c DEF Moves, RowMoves, NodeMoves, EdgeMoves, Hit
  <2> QED
    BY <2>1, <1>c DEF SourceInv
<1>9. ASSUME NEW f \in Forgets, CascadeStep(f) PROVE Rest'
  <2>1. CascadeView(f) /\ EdgeInv'
    BY <1>9, CascadeFacts
  <2>2. DocInv'
    BY <2>1 DEF CascadeView, DocInv
  <2>3. SourceInv'
    BY <2>1, <1>c DEF CascadeView
  <2>4. CallInv'
    BY <2>1 DEF CascadeView, CallFrame, CallInv, StageNames, Written
  <2> QED
    BY <2>1, <2>2, <2>3, <2>4
<1>10. ASSUME NEW f \in Forgets, DeleteDocument(f) PROVE Rest'
  <2>1. DeleteView(f) /\ call[f].doc \in Docs
    BY <1>10, DeleteFacts
  <2>2. DocInv'
    BY <2>1 DEF DeleteView, DocInv, CallInv
  <2>3. SourceInv' /\ EdgeInv'
    BY <2>1 DEF DeleteView, SourceInv, EdgeInv
  <2>4. CallInv'
    <3>1. \A b \in Docs : doc[b] # "absent" => doc'[b] # "absent"
      BY <2>1 DEF DeleteView
    <3>2. \A g \in Forgets : call[g].pc # "idle" => call[g].doc \in Docs
      BY DEF TypeInv, CallInv, CallType
    <3> SUFFICES ASSUME NEW g \in Forgets PROVE CallInv!(g)'
      BY DEF CallInv
    <3>3. CASE g = f
      BY <3>3, <2>1 DEF DeleteView, Returns
    <3>4. CASE g # f
      BY <3>4, <2>1, <3>1, <3>2 DEF DeleteView, Returns, CallFrame, CallInv
    <3> QED
      BY <3>3, <3>4
  <2> QED
    BY <2>2, <2>3, <2>4
<1>11. ASSUME NEW f \in Forgets, ForgetRaises(f) PROVE Rest'
  <2>1. RaiseView(f) /\ EdgeInv'
    BY <1>11, RaiseFacts
  <2>2. DocInv'
    BY <2>1 DEF RaiseView, DocInv
  <2>3. SourceInv'
    BY <2>1, <1>c DEF RaiseView
  <2>4. CallInv'
    BY <2>1 DEF RaiseView, Returns, CallFrame, CallInv, Written
  <2> QED
    BY <2>1, <2>2, <2>3, <2>4
<1>12. ASSUME Crash PROVE Rest'
  <2>1. CrashView
    BY <1>12, CrashFacts
  <2>2. DocInv'
    BY <2>1 DEF CrashView, DocInv
  <2>3. CallInv' /\ EdgeInv'
    BY <2>1 DEF CrashView, CallInv, EdgeInv
  <2>4. SourceInv'
    <3>1. \A s \in Docs : /\ ingest[s].pc \in {"graph", "relate", "done"} => ingest'[s].pc \in {"graph", "relate", "done"}
                          /\ ingest[s].pc \in {"relate", "done"} => ingest'[s].pc \in {"relate", "done"}
                          /\ ingest[s].pc = "done" => ingest'[s].pc = "done"
      BY <2>1 DEF CrashView
    <3> QED
      BY <2>1, <3>1, <1>b DEF CrashView, SourceInv
  <2> QED
    BY <2>2, <2>3, <2>4
<1>13. Rest'
  <2> HIDE DEF Rest
  <2> QED
    BY <1>1, <1>2, <1>3, <1>4, <1>5, <1>6, <1>7, <1>8, <1>9, <1>10, <1>11, <1>12 DEF Next
<1> QED
  BY <1>0, <1>13

\* Every variable keeps its type, and no edge outlives one of its endpoints (DETACH DELETE in
\* the cascade's deletes, the match of the endpoints in create_relationships_batch).
THEOREM CascadeTypes == Spec => []TypeOK
<1>1. Init => BaseInv
  BY BaseInit
<1>2. BaseInv /\ [Next]_vars => BaseInv'
  BY BaseStep
<1>3. BaseInv => TypeOK
  <2>1. BaseInv => \A f \in Forgets : call[f].pc \in {"idle", "list", "listEdges"} \/ AtStage(f)
    BY StageList DEF BaseInv, TypeInv, CallType, AtStage
  <2> QED
    BY <2>1 DEF BaseInv, TypeInv, EdgeInv, TypeOK
<1> QED
  BY <1>1, <1>2, <1>3, PTL DEF Spec

-------------------------------------------------------------------------------
\* SourcesInv.

\* The stores and the calls of a step that writes no row and adds no survivor.
LEMMA SourcesSame ==
    ASSUME SourcesInv, vector' = vector, crossed \subseteq crossed',
           \A f \in Forgets : call'[f].survivors = {}
                              \/ (call'[f].survivors = call[f].survivors /\ call'[f].doc = call[f].doc)
    PROVE  SourcesInv'
<1>1. CrossInv'
  BY DEF SourcesInv, CrossInv
<1>2. OthersInv'
  BY DEF SourcesInv, OthersInv, Hit
<1>3. NoneSourceless'
  BY DEF SourcesInv, NoneSourceless
<1> QED
  BY <1>1, <1>2, <1>3 DEF SourcesInv

\* A statement that a call executes keeps SourcesInv.
LEMMA SourcesMoves ==
    ASSUME BaseInv, SourcesInv, NEW f \in Forgets, Moves(call[f]), crossed' = crossed,
           \A g \in Forgets : call'[g].survivors = {}
                              \/ (call'[g].survivors = call[g].survivors /\ call'[g].doc = call[g].doc)
    PROVE  SourcesInv'
<1>1. CrossInv'
  BY DEF SourcesInv, CrossInv
<1>2. OthersInv'
  <2> SUFFICES ASSUME NEW g \in Forgets, NEW e \in Entities, Hit(vector', e, call'[g].survivors)
               PROVE  e \in crossed \/ \E s \in vector'[e].src : s # call'[g].doc
    BY DEF OthersInv
  <2>1. /\ vector'[e] # None /\ <<e, vector'[e].id>> \in call[g].survivors
        /\ call'[g].survivors = call[g].survivors /\ call'[g].doc = call[g].doc
    BY DEF Hit
  <2>2. CASE vector'[e] = vector[e]
    BY <2>1, <2>2 DEF SourcesInv, OthersInv, Hit
  <2>3. CASE vector'[e] # vector[e]
    <3>1. /\ Hit(vector, e, call[f].survivors) /\ vector'[e].id = vector[e].id
          /\ vector'[e].src = vector[e].src \ {call[f].doc}
      BY <2>1, <2>3 DEF Moves, RowMoves
    <3>2. Hit(vector, e, call[g].survivors)
      BY <2>1, <3>1 DEF Hit
    <3>3. CASE g # f
      <4>1. e \in crossed
        <5>1. <<e, vector[e].id>> \in call[f].survivors /\ <<e, vector[e].id>> \in call[g].survivors
          BY <3>1, <3>2 DEF Hit
        <5>2. <<e, vector[e].id>>[1] = e
          OBVIOUS
        <5> QED
          BY <3>3, <5>1, <5>2 DEF SourcesInv, CrossInv
      <4> QED
        BY <4>1
    <3>4. CASE g = f
      BY <2>1, <3>1, <3>4 DEF SourcesInv, OthersInv
    <3> QED
      BY <3>3, <3>4
  <2> QED
    BY <2>2, <2>3
<1>3. NoneSourceless'
  <2> SUFFICES ASSUME NEW e \in Entities, vector'[e] # None, vector'[e].src = {} PROVE e \in crossed
    BY DEF NoneSourceless
  <2>1. CASE vector'[e] = vector[e]
    BY <2>1 DEF SourcesInv, NoneSourceless
  <2>2. CASE vector'[e] # vector[e]
    <3>1. Hit(vector, e, call[f].survivors) /\ vector'[e].src = vector[e].src \ {call[f].doc}
      BY <2>2 DEF Moves, RowMoves
    <3> QED
      BY <3>1 DEF SourcesInv, OthersInv
  <2> QED
    BY <2>1, <2>2
<1> QED
  BY <1>1, <1>2, <1>3 DEF SourcesInv

LEMMA SourcesStep ==
    ASSUME BaseInv, SourcesInv, [Next]_vars
    PROVE  SourcesInv'
<1> USE DEF BaseInv
<1>1. ASSUME UNCHANGED vars PROVE SourcesInv'
  BY <1>1, SourcesSame DEF vars, stores, history
<1>2. ASSUME NEW d \in Docs, CreateDocument(d) PROVE SourcesInv'
  BY <1>2, SourcesSame, CreateFacts DEF CreateView, IngestFrame
<1>3. ASSUME NEW d \in Docs, UpsertVector(d) PROVE SourcesInv'
  <2>1. RowsView(d)
    BY <1>3, RowsFacts
  <2>2. call' = call /\ crossed' = crossed
    BY <2>1 DEF RowsView, IngestFrame
  <2>3. CrossInv'
    BY <2>2 DEF SourcesInv, CrossInv
  <2>4. OthersInv'
    <3> SUFFICES ASSUME NEW f \in Forgets, NEW e \in Entities, Hit(vector', e, call[f].survivors)
                 PROVE  e \in crossed \/ \E s \in vector'[e].src : s # call[f].doc
      BY <2>2 DEF OthersInv
    <3>1. CASE e \notin Mentions[d]
      BY <3>1, <2>1 DEF RowsView, Hit, SourcesInv, OthersInv
    <3>2. CASE e \in Mentions[d] /\ vector[e] # None
      <4>1. vector'[e].id = vector[e].id /\ vector'[e].src = vector[e].src \cup {d}
        BY <3>2, <2>1 DEF RowsView
      <4>2. Hit(vector, e, call[f].survivors)
        BY <3>2, <4>1 DEF Hit
      <4> QED
        BY <4>1, <4>2 DEF SourcesInv, OthersInv
    <3>3. CASE e \in Mentions[d] /\ vector[e] = None
      <4>1. vector'[e].src = {d} /\ ingest[d].pc = "vector"
        BY <3>3, <2>1 DEF RowsView
      <4>2. <<e, vector'[e].id>> \in call[f].survivors
        BY DEF Hit
      <4>3. ingest[call[f].doc].pc \notin {"no", "vector"}
        BY <4>2 DEF CallInv
      <4>4. d # call[f].doc
        BY <4>1, <4>3
      <4> QED
        BY <4>1, <4>4
    <3> QED
      BY <3>1, <3>2, <3>3
  <2>5. NoneSourceless'
    <3> SUFFICES ASSUME NEW e \in Entities, vector'[e] # None, vector'[e].src = {} PROVE e \in crossed
      BY <2>2 DEF NoneSourceless
    <3>1. e \notin Mentions[d]
      BY <2>1 DEF RowsView
    <3> QED
      BY <3>1, <2>1 DEF RowsView, SourcesInv, NoneSourceless
  <2> QED
    BY <2>3, <2>4, <2>5 DEF SourcesInv
<1>4. ASSUME NEW d \in Docs, UpsertGraph(d) PROVE SourcesInv'
  BY <1>4, SourcesSame, NodesFacts DEF NodesView, IngestFrame
<1>5. ASSUME NEW d \in Docs, Relate(d) PROVE SourcesInv'
  BY <1>5, SourcesSame, EdgesFacts DEF EdgesView, IngestFrame
<1>6. ASSUME NEW f \in Forgets, NEW d \in Docs, Forget(f, d) PROVE SourcesInv'
  <2>1. ForgetView(f, d)
    BY <1>6, ForgetFacts
  <2>2. /\ vector' = vector /\ crossed' = crossed /\ call'[f].survivors = {}
        /\ \A g \in Forgets : g # f => call'[g] = call[g]
    BY <2>1 DEF ForgetView, Reads, CallFrame
  <2> QED
    BY <2>2, SourcesSame
<1>a. ASSUME NEW f \in Forgets, Reads(f), CrossedBy(f), call'[f].doc = call[f].doc,
             \A e \in Entities : Hit(vector, e, call'[f].survivors) =>
                 Hit(vector, e, call[f].survivors) \/ \E s \in vector[e].src : s # call[f].doc
      PROVE  SourcesInv'
  <2>1. CrossInv'
    <3> SUFFICES ASSUME NEW g \in Forgets, NEW h \in Forgets, g # h,
                        NEW p, p \in call'[g].survivors, NEW q, q \in call'[h].survivors, p[1] = q[1]
                 PROVE  p[1] \in crossed'
      BY DEF CrossInv
    <3>1. CASE g # f /\ h # f
      BY <3>1, <1>a DEF Reads, CallFrame, CrossedBy, SourcesInv, CrossInv
    <3>2. CASE g = f
      <4>1. q \in call[h].survivors
        BY <3>2, <1>a DEF Reads, CallFrame
      <4> QED
        BY <3>2, <4>1, <1>a DEF CrossedBy
    <3>3. CASE h = f
      <4>1. p \in call[g].survivors
        BY <3>3, <1>a DEF Reads, CallFrame
      <4>2. q[1] \in crossed'
        BY <3>3, <4>1, <1>a DEF CrossedBy
      <4> QED
        BY <4>2
    <3> QED
      BY <3>1, <3>2, <3>3
  <2>2. vector' = vector /\ crossed \subseteq crossed' /\ \A g \in Forgets : g # f => call'[g] = call[g]
    BY <1>a DEF Reads, CallFrame, CrossedBy
  <2>3. OthersInv'
    <3> SUFFICES ASSUME NEW g \in Forgets, NEW e \in Entities, Hit(vector, e, call'[g].survivors)
                 PROVE  e \in crossed' \/ \E s \in vector[e].src : s # call'[g].doc
      BY <2>2 DEF OthersInv
    <3>1. CASE g = f
      BY <3>1, <2>2, <1>a DEF SourcesInv, OthersInv
    <3>2. CASE g # f
      BY <3>2, <2>2 DEF SourcesInv, OthersInv
    <3> QED
      BY <3>1, <3>2
  <2>4. NoneSourceless'
    BY <2>2 DEF SourcesInv, NoneSourceless
  <2> QED
    BY <2>1, <2>3, <2>4 DEF SourcesInv
<1>7. ASSUME NEW f \in Forgets, ListEntities(f) PROVE SourcesInv'
  <2>1. ListView(f)
    BY <1>7, ListFacts
  <2>2. \A e \in Entities : Hit(vector, e, call'[f].survivors) => \E s \in vector[e].src : s # call[f].doc
    <3> SUFFICES ASSUME NEW e \in Entities, Hit(vector, e, call'[f].survivors)
                 PROVE  \E s \in vector[e].src : s # call[f].doc
      OBVIOUS
    <3>1. <<e, vector[e].id>> \in call'[f].survivors /\ <<e, vector[e].id>>[1] = e
      BY DEF Hit
    <3> QED
      BY <2>1, <3>1 DEF ListView, IsListing
  <2> QED
    BY <2>1, <2>2, <1>a DEF ListView
<1>8. ASSUME NEW f \in Forgets, ListRelationships(f) PROVE SourcesInv'
  <2>1. ListEdgesView(f)
    BY <1>8, ListEdgesFacts
  <2>2. ASSUME NEW e \in Entities, Hit(vector, e, call'[f].survivors)
        PROVE  Hit(vector, e, call[f].survivors)
    <3>1. PICK o, v : /\ IsListing(o, v, graph, Rels, call[f].doc)
                      /\ call'[f].survivors = call[f].survivors \cup v
      BY <2>1 DEF ListEdgesView
    <3>2. <<e, vector[e].id>>[1] = e /\ e \notin Rels
      BY CascadeAssumption
    <3>3. <<e, vector[e].id>> \notin v
      BY <3>1, <3>2 DEF IsListing
    <3> QED
      BY <2>2, <3>1, <3>3 DEF Hit
  <2> QED
    BY <2>1, <2>2, <1>a DEF ListEdgesView
<1>9. ASSUME NEW f \in Forgets, CascadeStep(f) PROVE SourcesInv'
  <2>1. CascadeView(f)
    BY <1>9, CascadeFacts
  <2>2. \A g \in Forgets : call'[g].survivors = call[g].survivors /\ call'[g].doc = call[g].doc
    BY <2>1 DEF CascadeView, CallFrame
  <2> QED
    BY <2>1, <2>2, SourcesMoves DEF CascadeView
<1>10. ASSUME NEW f \in Forgets, DeleteDocument(f) PROVE SourcesInv'
  <2>1. DeleteView(f)
    BY <1>10, DeleteFacts
  <2>2. /\ vector' = vector /\ crossed' = crossed /\ call'[f].survivors = {}
        /\ \A g \in Forgets : g # f => call'[g] = call[g]
    BY <2>1 DEF DeleteView, Returns, CallFrame
  <2> QED
    BY <2>2, SourcesSame
<1>11. ASSUME NEW f \in Forgets, ForgetRaises(f) PROVE SourcesInv'
  <2>1. RaiseView(f)
    BY <1>11, RaiseFacts
  <2>2. call'[f].survivors = {} /\ \A g \in Forgets : g # f => call'[g] = call[g]
    BY <2>1 DEF RaiseView, Returns, CallFrame
  <2> QED
    BY <2>1, <2>2, SourcesMoves DEF RaiseView
<1>12. ASSUME Crash PROVE SourcesInv'
  <2>1. CrashView
    BY <1>12, CrashFacts
  <2> QED
    BY <2>1, SourcesSame DEF CrashView
<1> QED
  BY <1>1, <1>2, <1>3, <1>4, <1>5, <1>6, <1>7, <1>8, <1>9, <1>10, <1>11, <1>12 DEF Next

\* The last forget of an entity's sources deletes it, unless two cascades had it as a
\* survivor of each other's document: whatever the cascades and ingests that run together do,
\* and wherever they raise or die (cascade_forget).
THEOREM NoSourcelessEntity == Spec => []NoneSourceless
<1>1. Init => BaseInv /\ SourcesInv
  <2> SUFFICES ASSUME Init PROVE SourcesInv
    BY BaseInit
  <2>1. /\ \A f \in Forgets : call[f].survivors = {}
        /\ \A e \in Entities : vector[e] = None
    BY DEF Init, IdleCall
  <2> QED
    BY <2>1 DEF SourcesInv, CrossInv, OthersInv, NoneSourceless, Hit
<1>2. BaseInv /\ SourcesInv /\ [Next]_vars => (BaseInv /\ SourcesInv)'
  BY BaseStep, SourcesStep
<1>3. BaseInv /\ SourcesInv => NoneSourceless
  BY DEF SourcesInv
<1> QED
  BY <1>1, <1>2, <1>3, PTL DEF Spec

-------------------------------------------------------------------------------
\* KeepInv.

\* A step that writes no store and lists nothing.
LEMMA KeepSame ==
    ASSUME KeepInv, vector' = vector, graph' = graph, torn' = torn,
           \A b \in Docs : Live(b)' => ingest'[b].pc = "vector" \/ (Live(b) /\ ingest'[b] = ingest[b]),
           \A f \in Forgets : call'[f].orphans \subseteq call[f].orphans
    PROVE  KeepInv'
<1>1. KeepRows'
  BY DEF KeepInv, KeepRows
<1>2. KeepNodes'
  BY DEF KeepInv, KeepNodes
<1>3. \A d, r : TornAt(d, r)' <=> TornAt(d, r)
  BY DEF TornAt
<1>4. KeepEdges'
  BY <1>3 DEF KeepInv, KeepEdges
<1>5. OrphanInv'
  BY <1>3 DEF KeepInv, OrphanInv
<1> QED
  BY <1>1, <1>2, <1>4, <1>5 DEF KeepInv

\* A call whose lists are new, and name nothing of a live document.
LEMMA KeepListed ==
    ASSUME KeepInv, NEW f \in Forgets, Reads(f), broken' = broken, call'[f].doc = call[f].doc,
           \A p \in call'[f].orphans : \A d \in Docs : p \in call[f].orphans \/ (Live(d) =>
               /\ p[1] \in Mentions[d] /\ ingest[d].pc \in {"graph", "relate", "done"} => <<d, p[1]>> \in torn
               /\ p[1] \in Relates[d] /\ ingest[d].pc = "done" => TornAt(d, p[1]))
    PROVE  KeepInv'
<1>1. /\ vector' = vector /\ graph' = graph /\ doc' = doc /\ ingest' = ingest /\ torn' = torn
      /\ \A g \in Forgets : g # f => call'[g] = call[g]
  BY DEF Reads, CallFrame
<1>2. \A g \in Forgets : call'[g].doc = call[g].doc
  BY <1>1
<1>3. \A b \in Docs : Live(b)' => Live(b)
  BY <1>1, <1>2 DEF Live
<1>4. KeepRows'
  BY <1>1, <1>3 DEF KeepInv, KeepRows
<1>5. KeepNodes'
  BY <1>1, <1>3 DEF KeepInv, KeepNodes
<1>6. \A d, r : TornAt(d, r)' <=> TornAt(d, r)
  BY <1>1 DEF TornAt
<1>7. KeepEdges'
  BY <1>1, <1>3, <1>6 DEF KeepInv, KeepEdges
<1>8. OrphanInv'
  <2> SUFFICES ASSUME NEW g \in Forgets, NEW p, p \in call'[g].orphans, NEW d \in Docs, Live(d)
               PROVE  /\ p[1] \in Mentions[d] /\ ingest[d].pc \in {"graph", "relate", "done"} => <<d, p[1]>> \in torn
                      /\ p[1] \in Relates[d] /\ ingest[d].pc = "done" => TornAt(d, p[1])
    BY <1>1, <1>3, <1>6 DEF OrphanInv
  <2>1. CASE p \in call[g].orphans
    BY <2>1 DEF KeepInv, OrphanInv
  <2>2. CASE p \notin call[g].orphans
    <3>1. g = f
      BY <1>1, <2>2
    <3> QED
      BY <2>2, <3>1
  <2> QED
    BY <2>1, <2>2
<1> QED
  BY <1>4, <1>5, <1>7, <1>8 DEF KeepInv

\* A statement of a cascade takes nothing from a live document but what is torn.
LEMMA KeepMoves ==
    ASSUME BaseInv, KeepInv, NEW f \in Forgets, call[f].doc \in Docs, Moves(call[f]), torn' = torn, ingest' = ingest,
           \A b \in Docs : Live(b)' => Live(b),
           \A g \in Forgets : call'[g].orphans \subseteq call[g].orphans
    PROVE  KeepInv'
<1> USE DEF BaseInv
<1>a. /\ \A d \in Docs : Mentions[d] \subseteq Entities /\ Relates[d] \subseteq Rels
      /\ \A d \in Docs : \A r \in Relates[d] : Ends[r] \subseteq Mentions[d]
  BY CascadeAssumption
<1>b. \A b \in Docs : Live(b) => call[f].doc # b
  BY DEF Live
<1>c. \A x : \A i : <<x, i>>[1] = x
  OBVIOUS
<1>1. KeepRows'
  <2> SUFFICES ASSUME NEW d \in Docs, Live(d), ingest[d].pc \in {"graph", "relate", "done"},
                      NEW e \in Mentions[d], <<d, e>> \notin torn
               PROVE  vector'[e] # None /\ d \in vector'[e].src
    BY DEF KeepRows
  <2>1. e \in Entities /\ vector[e] # None /\ d \in vector[e].src
    BY <1>a DEF KeepInv, KeepRows
  <2>2. ~Hit(vector, e, call[f].orphans)
    BY <1>c DEF Hit, KeepInv, OrphanInv
  <2> QED
    BY <2>1, <2>2, <1>b DEF Moves, RowMoves
<1>2. \A d \in Docs : Live(d) /\ ingest[d].pc \in {"relate", "done"} => \A e \in Mentions[d] :
         <<d, e>> \in torn \/ ~Hit(graph, e, call[f].orphans)
  BY <1>c DEF Hit, KeepInv, OrphanInv
<1>3. \A d \in Docs : Live(d) /\ ingest[d].pc \in {"relate", "done"} => \A e \in Mentions[d] :
         \/ <<d, e>> \in torn
         \/ graph'[e] # None /\ graph[e] # None /\ graph'[e].id = graph[e].id /\ d \in graph'[e].src
  <2> SUFFICES ASSUME NEW d \in Docs, Live(d), ingest[d].pc \in {"relate", "done"},
                      NEW e \in Mentions[d], <<d, e>> \notin torn
               PROVE  graph'[e] # None /\ graph[e] # None /\ graph'[e].id = graph[e].id /\ d \in graph'[e].src
    OBVIOUS
  <2>1. e \in Entities /\ graph[e] # None /\ d \in graph[e].src
    BY <1>a DEF KeepInv, KeepNodes
  <2> QED
    BY <2>1, <1>2, <1>b DEF Moves, NodeMoves
<1>4. KeepNodes'
  BY <1>3 DEF KeepInv, KeepNodes
<1>5. \A d, r : TornAt(d, r)' <=> TornAt(d, r)
  BY DEF TornAt
<1>6. KeepEdges'
  <2> SUFFICES ASSUME NEW d \in Docs, Live(d), ingest[d].pc = "done", NEW r \in Relates[d], ~TornAt(d, r)
               PROVE  graph'[r] # None /\ d \in graph'[r].src
    BY <1>5 DEF KeepEdges
  <2>1. r \in Rels /\ graph[r] # None /\ d \in graph[r].src
    BY <1>a DEF KeepInv, KeepEdges
  <2>2. ~Hit(graph, r, call[f].orphans)
    BY <1>c DEF Hit, KeepInv, OrphanInv
  <2>3. \A e \in Ends[r] : graph'[e] # None
    BY <1>3, <1>a DEF TornAt
  <2> QED
    BY <2>1, <2>2, <2>3, <1>b DEF Moves, EdgeMoves
<1>7. OrphanInv'
  BY <1>5 DEF KeepInv, OrphanInv
<1> QED
  BY <1>1, <1>4, <1>6, <1>7 DEF KeepInv

\* A write of a document adds to what is torn, and leaves the others where they were.
LEMMA KeepTorn ==
    ASSUME NEW d \in Docs, NEW items, TornBy(d, items)
    PROVE  /\ \A b, x : <<b, x>> \in torn => <<b, x>> \in torn'
           /\ \A b, r : TornAt(b, r) => TornAt(b, r)'
BY DEF TornBy, TornAt

LEMMA KeepStep ==
    ASSUME BaseInv, KeepInv, [Next]_vars
    PROVE  KeepInv'
<1> USE DEF BaseInv
<1>a. /\ \A d \in Docs : Mentions[d] \subseteq Entities /\ Relates[d] \subseteq Rels
      /\ Entities \subseteq Items /\ Rels \subseteq Items /\ Entities \cap Rels = {}
      /\ \A d \in Docs : \A r \in Relates[d] : Ends[r] \subseteq Mentions[d]
  BY CascadeAssumption DEF Items
<1>1. ASSUME UNCHANGED vars PROVE KeepInv'
  <2>1. vector' = vector /\ graph' = graph /\ torn' = torn /\ ingest' = ingest /\ call' = call
        /\ doc' = doc /\ broken' = broken
    BY <1>1 DEF vars, stores, history
  <2> QED
    BY <2>1, KeepSame DEF Live
<1>2. ASSUME NEW d \in Docs, CreateDocument(d) PROVE KeepInv'
  <2>1. CreateView(d)
    BY <1>2, CreateFacts
  <2>2. \A b \in Docs : Live(b)' => ingest'[b].pc = "vector" \/ (Live(b) /\ ingest'[b] = ingest[b])
    BY <2>1 DEF CreateView, IngestFrame, Live
  <2> QED
    BY <2>1, <2>2, KeepSame DEF CreateView, IngestFrame
<1>3. ASSUME NEW d \in Docs, UpsertVector(d) PROVE KeepInv'
  <2>1. RowsView(d)
    BY <1>3, RowsFacts
  <2>2. /\ graph' = graph /\ call' = call /\ \A b \in Docs : b # d => ingest'[b] = ingest[b]
        /\ ingest'[d].pc = "graph" /\ TornBy(d, Mentions[d]) /\ doc' = doc /\ broken' = broken
    BY <2>1 DEF RowsView, IngestFrame
  <2>3. \A b \in Docs : Live(b)' <=> Live(b)
    BY <2>2 DEF Live
  <2>4. /\ \A b, x : <<b, x>> \in torn => <<b, x>> \in torn'
        /\ \A b, r : TornAt(b, r) => TornAt(b, r)'
    BY <2>2, KeepTorn
  <2>5. KeepRows'
    <3>1. \A e \in Entities : vector[e] # None => vector'[e] # None /\ vector[e].src \subseteq vector'[e].src
      BY <2>1 DEF RowsView
    <3>2. \A e \in Mentions[d] : vector'[e] # None /\ d \in vector'[e].src
      BY <2>1, <1>a DEF RowsView
    <3> QED
      BY <2>2, <2>3, <2>4, <3>1, <3>2, <1>a DEF KeepInv, KeepRows
  <2>6. KeepNodes'
    BY <2>2, <2>3, <2>4 DEF KeepInv, KeepNodes
  <2>7. KeepEdges'
    BY <2>2, <2>3, <2>4 DEF KeepInv, KeepEdges
  <2>8. OrphanInv'
    BY <2>2, <2>3, <2>4 DEF KeepInv, OrphanInv, TornBy
  <2> QED
    BY <2>5, <2>6, <2>7, <2>8 DEF KeepInv
<1>4. ASSUME NEW d \in Docs, UpsertGraph(d) PROVE KeepInv'
  <2>1. NodesView(d)
    BY <1>4, NodesFacts
  <2>2. /\ vector' = vector /\ call' = call /\ \A b \in Docs : b # d => ingest'[b] = ingest[b]
        /\ ingest[d].pc = "graph" /\ ingest'[d].pc = "relate"
        /\ TornBy(d, Mentions[d]) /\ doc' = doc /\ broken' = broken
    BY <2>1 DEF NodesView, IngestFrame
  <2>3. \A b \in Docs : Live(b)' <=> Live(b)
    BY <2>2 DEF Live
  <2>4. /\ \A b, x : <<b, x>> \in torn => <<b, x>> \in torn'
        /\ \A b, r : TornAt(b, r) => TornAt(b, r)'
    BY <2>2, KeepTorn
  <2>5. KeepRows'
    BY <2>2, <2>3, <2>4 DEF KeepInv, KeepRows
  <2>6. KeepNodes'
    <3>1. \A e \in Entities : graph[e] # None =>
             graph'[e] # None /\ graph'[e].id = graph[e].id /\ graph[e].src \subseteq graph'[e].src
      BY <2>1, <1>a DEF NodesView
    <3>2. \A e \in Mentions[d] : graph'[e] # None /\ d \in graph'[e].src /\ graph'[e].id = ingest'[d].ids[e]
      BY <2>1, <1>a DEF NodesView
    <3> QED
      BY <2>2, <2>3, <2>4, <3>1, <3>2, <1>a DEF KeepInv, KeepNodes
  <2>7. KeepEdges'
    <3>1. \A r \in Rels : graph'[r] = graph[r]
      BY <2>1, <1>a DEF NodesView
    <3> QED
      BY <2>2, <2>3, <2>4, <3>1, <1>a DEF KeepInv, KeepEdges
  <2>8. OrphanInv'
    BY <2>2, <2>3, <2>4 DEF KeepInv, OrphanInv, TornBy
  <2> QED
    BY <2>5, <2>6, <2>7, <2>8 DEF KeepInv
<1>5. ASSUME NEW d \in Docs, Relate(d) PROVE KeepInv'
  <2>1. EdgesView(d)
    BY <1>5, EdgesFacts
  <2>2. /\ vector' = vector /\ call' = call /\ \A b \in Docs : b # d => ingest'[b] = ingest[b]
        /\ ingest[d].pc = "relate" /\ ingest'[d].pc = "done"
        /\ TornBy(d, Relates[d]) /\ doc' = doc /\ broken' = broken
    BY <2>1 DEF EdgesView, IngestFrame
  <2>3. \A b \in Docs : Live(b)' <=> Live(b)
    BY <2>2 DEF Live
  <2>4. /\ \A b, x : <<b, x>> \in torn => <<b, x>> \in torn'
        /\ \A b, r : TornAt(b, r) => TornAt(b, r)'
    BY <2>2, KeepTorn
  <2>5. KeepRows'
    BY <2>2, <2>3, <2>4 DEF KeepInv, KeepRows
  <2>6. \A e \in Entities : graph'[e] = graph[e]
    BY <2>1, <1>a DEF EdgesView, Matched
  <2>7. KeepNodes'
    BY <2>2, <2>3, <2>4, <2>6, <1>a DEF KeepInv, KeepNodes
  <2>8. KeepEdges'
    <3>1. \A r \in Rels : graph[r] # None => graph'[r] # None /\ graph[r].src \subseteq graph'[r].src
      BY <2>1, <1>a DEF EdgesView
    <3>2. \A r \in Matched(d) : graph'[r] # None /\ d \in graph'[r].src
      BY <2>1, <1>a DEF EdgesView, Matched
    <3>3. ASSUME Live(d), NEW r \in Relates[d], r \notin Matched(d)
          PROVE  TornAt(d, r)'
      <4>1. PICK e \in Ends[r] : ~(graph[e] # None /\ graph[e].id = ingest[d].ids[e])
        BY <3>3 DEF Matched
      <4>2. e \in Mentions[d]
        BY <1>a
      <4>3. <<d, e>> \in torn
        BY <3>3, <4>1, <4>2, <2>2 DEF KeepInv, KeepNodes
      <4> QED
        BY <2>4, <4>3 DEF TornAt
    <3> QED
      BY <2>2, <2>3, <2>4, <3>1, <3>2, <3>3, <1>a DEF KeepInv, KeepEdges
  <2>9. OrphanInv'
    <3> SUFFICES ASSUME NEW f \in Forgets, NEW p \in call[f].orphans, NEW b \in Docs, Live(b)
                 PROVE  /\ p[1] \in Mentions[b] /\ ingest'[b].pc \in {"graph", "relate", "done"} => <<b, p[1]>> \in torn'
                        /\ p[1] \in Relates[b] /\ ingest'[b].pc = "done" => TornAt(b, p[1])'
      BY <2>2, <2>3 DEF OrphanInv
    <3>1. CASE b # d
      BY <3>1, <2>2, <2>4 DEF KeepInv, OrphanInv
    <3>2. CASE b = d
      <4>1. p[1] \in Relates[d] => <<d, p[1]>> \in torn'
        BY <2>2 DEF TornBy
      <4> QED
        BY <3>2, <4>1, <2>2, <2>4 DEF KeepInv, OrphanInv, TornAt
    <3> QED
      BY <3>1, <3>2
  <2> QED
    BY <2>5, <2>7, <2>8, <2>9 DEF KeepInv
<1>6. ASSUME NEW f \in Forgets, NEW d \in Docs, Forget(f, d) PROVE KeepInv'
  <2>1. ForgetView(f, d)
    BY <1>6, ForgetFacts
  <2>2. /\ vector' = vector /\ graph' = graph /\ torn' = torn /\ ingest' = ingest /\ doc' = doc /\ broken' = broken
        /\ call[f].doc = None /\ call'[f].orphans = {} /\ \A g \in Forgets : g # f => call'[g] = call[g]
    BY <2>1 DEF ForgetView, Reads, CallFrame, CallInv
  <2>3. \A b \in Docs : Live(b)' => Live(b)
    BY <2>2, RecordFacts DEF Live
  <2> QED
    BY <2>2, <2>3, KeepSame
<1>7. ASSUME NEW f \in Forgets, ListEntities(f) PROVE KeepInv'
  <2>1. ListView(f)
    BY <1>7, ListFacts
  <2>2. ASSUME NEW p, p \in call'[f].orphans, NEW d \in Docs, Live(d)
        PROVE  /\ p[1] \in Mentions[d] /\ ingest[d].pc \in {"graph", "relate", "done"} => <<d, p[1]>> \in torn
               /\ p[1] \in Relates[d] /\ ingest[d].pc = "done" => TornAt(d, p[1])
    <3>1. p[1] \in Entities /\ vector[p[1]].src = {call[f].doc} /\ call[f].doc # d
      BY <2>1, <2>2 DEF ListView, IsListing, Live
    <3> QED
      BY <2>2, <3>1, <1>a DEF KeepInv, KeepRows
  <2> QED
    BY <2>1, <2>2, KeepListed DEF ListView
<1>8. ASSUME NEW f \in Forgets, ListRelationships(f) PROVE KeepInv'
  <2>1. ListEdgesView(f)
    BY <1>8, ListEdgesFacts
  <2>2. ASSUME NEW p, p \in call'[f].orphans, NEW d \in Docs, p \notin call[f].orphans, Live(d)
        PROVE  /\ p[1] \in Mentions[d] /\ ingest[d].pc \in {"graph", "relate", "done"} => <<d, p[1]>> \in torn
               /\ p[1] \in Relates[d] /\ ingest[d].pc = "done" => TornAt(d, p[1])
    <3>1. PICK o, v : /\ IsListing(o, v, graph, Rels, call[f].doc)
                      /\ call'[f].orphans = call[f].orphans \cup o
      BY <2>1 DEF ListEdgesView
    <3>2. p[1] \in Rels /\ graph[p[1]].src = {call[f].doc} /\ call[f].doc # d
      BY <2>2, <3>1 DEF IsListing, Live
    <3> QED
      BY <2>2, <3>2, <1>a DEF KeepInv, KeepEdges
  <2> QED
    BY <2>1, <2>2, KeepListed DEF ListEdgesView
<1>9. ASSUME NEW f \in Forgets, CascadeStep(f) PROVE KeepInv'
  <2>1. CascadeView(f)
    BY <1>9, CascadeFacts
  <2>2. \A g \in Forgets : call'[g].orphans = call[g].orphans /\ call'[g].doc = call[g].doc
    BY <2>1 DEF CascadeView, CallFrame
  <2>3. \A b \in Docs : Live(b)' => Live(b)
    BY <2>1, <2>2 DEF CascadeView, Live
  <2>4. call[f].doc \in Docs
    BY <2>1 DEF CascadeView, StageNames, TypeInv, CallInv, CallType
  <2> QED
    BY <2>1, <2>2, <2>3, <2>4, KeepMoves DEF CascadeView
<1>10. ASSUME NEW f \in Forgets, DeleteDocument(f) PROVE KeepInv'
  <2>1. DeleteView(f)
    BY <1>10, DeleteFacts
  <2>2. \A b \in Docs : Live(b)' => Live(b)
    BY <2>1 DEF DeleteView, Returns, CallFrame, Live
  <2>3. \A g \in Forgets : call'[g].orphans \subseteq call[g].orphans
    BY <2>1 DEF DeleteView, Returns, CallFrame
  <2> QED
    BY <2>1, <2>2, <2>3, KeepSame DEF DeleteView
<1>11. ASSUME NEW f \in Forgets, ForgetRaises(f) PROVE KeepInv'
  <2>1. RaiseView(f)
    BY <1>11, RaiseFacts
  <2>2. \A b \in Docs : Live(b)' => Live(b)
    BY <2>1 DEF RaiseView, Returns, CallFrame, Live
  <2>3. \A g \in Forgets : call'[g].orphans \subseteq call[g].orphans
    BY <2>1 DEF RaiseView, Returns, CallFrame
  <2>4. call[f].doc \in Docs
    BY <2>1 DEF RaiseView, StageNames, TypeInv, CallInv, CallType
  <2> QED
    BY <2>1, <2>2, <2>3, <2>4, KeepMoves DEF RaiseView
<1>12. ASSUME Crash PROVE KeepInv'
  <2>1. CrashView
    BY <1>12, CrashFacts
  <2>2. \A b \in Docs : Live(b)' => Live(b) /\ ingest'[b] = ingest[b]
    BY <2>1 DEF CrashView, Live
  <2> QED
    BY <2>1, <2>2, KeepSame DEF CrashView
<1> QED
  BY <1>1, <1>2, <1>3, <1>4, <1>5, <1>6, <1>7, <1>8, <1>9, <1>10, <1>11, <1>12 DEF Next

\* A still-referenced entity is never hard-deleted: through concurrent, repeated and broken
\* forgets of other documents, what a document wrote stays in both stores with the document
\* among its sources, except what it wrote while a cascade had it listed as an orphan
\* (cascade_forget's classification of a snapshot).
THEOREM StillReferenced == Spec => []StillReferencedKept
<1>1. Init => BaseInv /\ KeepInv
  <2> SUFFICES ASSUME Init PROVE KeepInv
    BY BaseInit
  <2>1. \A d \in Docs : ingest[d].pc = "no"
    BY DEF Init
  <2>2. \A f \in Forgets : call[f].orphans = {}
    BY DEF Init, IdleCall
  <2> QED
    BY <2>1, <2>2 DEF KeepInv, KeepRows, KeepNodes, KeepEdges, OrphanInv
<1>2. BaseInv /\ KeepInv /\ [Next]_vars => (BaseInv /\ KeepInv)'
  BY BaseStep, KeepStep
<1>3. BaseInv /\ KeepInv => StillReferencedKept
  <2> SUFFICES ASSUME BaseInv, KeepInv, NEW d \in Docs \ broken, ingest[d].pc = "done", doc[d] = "stored",
                      \A f \in Forgets : call[f].doc # d
               PROVE  /\ \A e \in Mentions[d] : <<d, e>> \in torn \/ (vector[e] # None /\ d \in vector[e].src)
                      /\ \A x \in Written(d) :
                            \/ \E y \in {x} \cup (IF x \in Rels THEN Ends[x] ELSE {}) : <<d, y>> \in torn
                            \/ graph[x] # None /\ d \in graph[x].src
    BY DEF StillReferencedKept
  <2>1. Live(d) /\ d \in Docs
    BY DEF Live
  <2>2. \A e \in Mentions[d] : <<d, e>> \in torn \/ (vector[e] # None /\ d \in vector[e].src)
    BY <2>1 DEF KeepInv, KeepRows
  <2>3. \A e \in Mentions[d] : <<d, e>> \in torn \/ (graph[e] # None /\ d \in graph[e].src)
    BY <2>1 DEF KeepInv, KeepNodes
  <2>4. \A r \in Relates[d] : r \in Rels /\ (TornAt(d, r) \/ (graph[r] # None /\ d \in graph[r].src))
    BY <2>1, CascadeAssumption DEF KeepInv, KeepEdges
  <2> QED
    BY <2>2, <2>3, <2>4 DEF Written, TornAt
<1> QED
  BY <1>1, <1>2, <1>3, PTL DEF Spec

-------------------------------------------------------------------------------
\* GoneInv.

\* No row and no edge comes to name a document whose ingest is done, or changes its id while
\* it names one.
OldRows ==
    \A e \in Entities : \A b \in Docs : vector'[e] # None /\ ingest[b].pc = "done" /\ b \in vector'[e].src =>
        vector[e] # None /\ b \in vector[e].src /\ vector'[e].id = vector[e].id
OldEdges ==
    \A r \in Rels : \A b \in Docs : graph'[r] # None /\ ingest[b].pc = "done" /\ b \in graph'[r].src =>
        graph[r] # None /\ b \in graph[r].src /\ graph'[r].id = graph[r].id

LEMMA MovesOld ==
    ASSUME NEW f \in Forgets, Moves(call[f])
    PROVE  OldRows /\ OldEdges
<1>1. OldRows
  BY DEF Moves, RowMoves, OldRows, Hit
<1>2. OldEdges
  BY DEF Moves, EdgeMoves, OldEdges, Hit
<1> QED
  BY <1>1, <1>2

\* A step by which no call advances and no document is forgotten.
LEMMA GoneSame ==
    ASSUME BaseInv, GoneInv, OldRows, OldEdges, met \subseteq met',
           \A f \in Forgets : call'[f].pc \in {"idle", "list"} \/ call'[f] = call[f],
           \A b \in Docs : doc'[b] = "forgotten" => doc[b] = "forgotten"
    PROVE  GoneInv'
<1> USE DEF BaseInv
<1>1. \A f \in Forgets : call[f].pc # "idle" /\ call[f].doc \notin met =>
         call[f].doc \in Docs /\ ingest[call[f].doc].pc = "done"
  BY DEF CallInv, TypeInv, CallType
<1>2. RowsInv'
  <2> SUFFICES ASSUME NEW f \in Forgets, call'[f].doc \notin met', call'[f].pc \notin {"idle", "list"},
                      NEW e \in Entities, vector'[e] # None, call'[f].doc \in vector'[e].src
               PROVE  Hit(vector', e, RowsLeft(call'[f]))
    BY DEF RowsInv
  <2>1. call'[f] = call[f] /\ call[f].doc \notin met /\ call[f].pc \notin {"idle", "list"}
    OBVIOUS
  <2>2. call[f].doc \in Docs /\ ingest[call[f].doc].pc = "done"
    BY <2>1, <1>1
  <2>3. vector[e] # None /\ call[f].doc \in vector[e].src /\ vector'[e].id = vector[e].id
    BY <2>1, <2>2 DEF OldRows
  <2>4. Hit(vector, e, RowsLeft(call[f]))
    BY <2>1, <2>3 DEF GoneInv, RowsInv
  <2> QED
    BY <2>1, <2>3, <2>4 DEF Hit
<1>3. EdgesInv'
  <2> SUFFICES ASSUME NEW f \in Forgets, call'[f].doc \notin met', call'[f].pc \in StageNames,
                      NEW r \in Rels, graph'[r] # None, call'[f].doc \in graph'[r].src
               PROVE  Hit(graph', r, EdgesLeft(call'[f]))
    BY DEF EdgesInv
  <2>1. call'[f] = call[f] /\ call[f].doc \notin met /\ call[f].pc \in StageNames /\ call[f].pc # "idle"
    BY DEF StageNames
  <2>2. call[f].doc \in Docs /\ ingest[call[f].doc].pc = "done"
    BY <2>1, <1>1
  <2>3. graph[r] # None /\ call[f].doc \in graph[r].src /\ graph'[r].id = graph[r].id
    BY <2>1, <2>2 DEF OldEdges
  <2>4. Hit(graph, r, EdgesLeft(call[f]))
    BY <2>1, <2>3 DEF GoneInv, EdgesInv
  <2> QED
    BY <2>1, <2>3, <2>4 DEF Hit
<1>4. ForgottenInv'
  <2> SUFFICES ASSUME NEW d \in Docs, doc'[d] = "forgotten", d \notin met'
               PROVE  /\ \A e \in Entities : vector'[e] # None => d \notin vector'[e].src
                      /\ \A r \in Rels : graph'[r] # None => d \notin graph'[r].src
    BY DEF ForgottenInv
  <2>1. doc[d] = "forgotten" /\ d \notin met /\ ingest[d].pc = "done"
    BY DEF DocInv
  <2> QED
    BY <2>1 DEF OldRows, OldEdges, GoneInv, ForgottenInv
<1> QED
  BY <1>2, <1>3, <1>4 DEF GoneInv

LEMMA GoneStep ==
    ASSUME BaseInv, GoneInv, [Next]_vars
    PROVE  GoneInv'
<1> USE DEF BaseInv
<1>a. /\ \A d \in Docs : Mentions[d] \subseteq Entities /\ Relates[d] \subseteq Rels
      /\ Entities \subseteq Items /\ Rels \subseteq Items /\ Entities \cap Rels = {}
  BY CascadeAssumption DEF Items
<1>b. ASSUME vector' = vector, graph' = graph PROVE OldRows /\ OldEdges
  BY <1>b DEF OldRows, OldEdges
<1>c. ASSUME NEW c, NEW x, NEW i
      PROVE  /\ x \in Entities => (<<x, i>> \in c.orphans <=> <<x, i>> \in OfEntities(c.orphans))
             /\ x \in Entities => (<<x, i>> \in c.survivors <=> <<x, i>> \in OfEntities(c.survivors))
             /\ x \in Rels => <<x, i>> \notin OfEntities(c.orphans) /\ <<x, i>> \notin OfEntities(c.survivors)
  BY <1>a DEF OfEntities
<1>1. ASSUME UNCHANGED vars PROVE GoneInv'
  BY <1>1, <1>b, GoneSame DEF vars, stores, history
<1>2. ASSUME NEW d \in Docs, CreateDocument(d) PROVE GoneInv'
  BY <1>2, <1>b, CreateFacts, GoneSame DEF CreateView, IngestFrame
<1>3. ASSUME NEW d \in Docs, UpsertVector(d) PROVE GoneInv'
  <2>1. RowsView(d)
    BY <1>3, RowsFacts
  <2>2. OldRows
    BY <2>1 DEF RowsView, OldRows
  <2>3. OldEdges
    BY <2>1 DEF RowsView, OldEdges
  <2> QED
    BY <2>1, <2>2, <2>3, GoneSame DEF RowsView, IngestFrame
<1>4. ASSUME NEW d \in Docs, UpsertGraph(d) PROVE GoneInv'
  <2>1. NodesView(d)
    BY <1>4, NodesFacts
  <2>2. OldRows
    BY <2>1 DEF NodesView, OldRows
  <2>3. OldEdges
    BY <2>1, <1>a DEF NodesView, OldEdges
  <2> QED
    BY <2>1, <2>2, <2>3, GoneSame DEF NodesView, IngestFrame
<1>5. ASSUME NEW d \in Docs, Relate(d) PROVE GoneInv'
  <2>1. EdgesView(d)
    BY <1>5, EdgesFacts
  <2>2. OldRows
    BY <2>1 DEF EdgesView, OldRows
  <2>3. OldEdges
    BY <2>1, <1>a DEF EdgesView, OldEdges
  <2> QED
    BY <2>1, <2>2, <2>3, GoneSame DEF EdgesView, IngestFrame
<1>6. ASSUME NEW f \in Forgets, NEW d \in Docs, Forget(f, d) PROVE GoneInv'
  <2>1. ForgetView(f, d)
    BY <1>6, ForgetFacts
  <2>2. \A g \in Forgets : call'[g].pc \in {"idle", "list"} \/ call'[g] = call[g]
    BY <2>1 DEF ForgetView, Reads, CallFrame
  <2> QED
    BY <2>1, <2>2, <1>b, GoneSame DEF ForgetView, Reads
<1>7. ASSUME NEW f \in Forgets, ListEntities(f) PROVE GoneInv'
  <2>1. ListView(f)
    BY <1>7, ListFacts
  <2>2. /\ vector' = vector /\ graph' = graph /\ doc' = doc /\ met' = met
        /\ \A g \in Forgets : g # f => call'[g] = call[g]
    BY <2>1 DEF ListView, Reads, CallFrame
  <2>3. RowsLeft(call'[f]) = call'[f].orphans \cup call'[f].survivors
    BY <2>1 DEF ListView, RowsLeft
  <2>4. \A e \in Entities : vector[e] # None /\ call'[f].doc \in vector[e].src => Hit(vector, e, RowsLeft(call'[f]))
    BY <2>1, <2>3 DEF ListView, IsListing
  <2>5. RowsInv'
    BY <2>2, <2>4 DEF GoneInv, RowsInv
  <2>6. EdgesInv'
    <3>1. call'[f].pc \notin StageNames
      BY <2>1 DEF ListView, StageNames
    <3> QED
      BY <2>2, <3>1 DEF GoneInv, EdgesInv
  <2>7. ForgottenInv'
    BY <2>2 DEF GoneInv, ForgottenInv
  <2> QED
    BY <2>5, <2>6, <2>7 DEF GoneInv
<1>8. ASSUME NEW f \in Forgets, ListRelationships(f) PROVE GoneInv'
  <2>1. ListEdgesView(f)
    BY <1>8, ListEdgesFacts
  <2>2. /\ vector' = vector /\ graph' = graph /\ doc' = doc /\ met' = met
        /\ \A g \in Forgets : g # f => call'[g] = call[g]
        /\ call[f].pc = "listEdges" /\ call'[f].doc = call[f].doc
    BY <2>1 DEF ListEdgesView, Reads, CallFrame
  <2> DEFINE c == call'[f]
  <2>3. PassesOver(c, 1, c.pc) /\ c.pc \in StageNames
    BY <2>1 DEF ListEdgesView, PassesOver
  <2>4. PICK o, v : /\ IsListing(o, v, graph, Rels, call[f].doc)
                    /\ c.orphans = call[f].orphans \cup o /\ c.survivors = call[f].survivors \cup v
    BY <2>1 DEF ListEdgesView
  <2> HIDE DEF c
  <2>5. ASSUME c.doc \notin met, NEW e \in Entities, vector[e] # None, c.doc \in vector[e].src
        PROVE  Hit(vector, e, RowsLeft(c))
    <3>1. Hit(vector, e, call[f].orphans \cup call[f].survivors)
      BY <2>2, <2>5 DEF GoneInv, RowsInv, RowsLeft, c
    <3>2. <<e, vector[e].id>> \in OfEntities(c.orphans) \cup OfEntities(c.survivors)
      BY <3>1, <2>4, <1>c DEF Hit
    <3>3. CASE c.pc = "orphanRows"
      BY <3>1, <3>3, <2>4 DEF Hit, RowsLeft
    <3>4. CASE c.pc \in {"orphanNodes", "orphanEdges", "survivorRows"}
      <4>1. OfEntities(c.orphans) = {}
        BY <3>4, <2>3 DEF PassesOver
      <4>2. <<e, vector[e].id>> \in c.survivors /\ RowsLeft(c) = c.survivors
        BY <4>1, <3>2, <3>4, <1>c DEF RowsLeft
      <4> QED
        BY <4>2, <2>5 DEF Hit
    <3>5. CASE c.pc \in {"survivorNodes", "survivorEdges", "document"}
      BY <3>2, <3>5, <2>3 DEF PassesOver
    <3> QED
      BY <2>3, <3>3, <3>4, <3>5 DEF StageNames
  <2>6. ASSUME NEW r \in Rels, graph[r] # None, c.doc \in graph[r].src
        PROVE  Hit(graph, r, EdgesLeft(c))
    <3>1. Hit(graph, r, o \cup v)
      BY <2>2, <2>4, <2>6 DEF IsListing, c
    <3>2. <<r, graph[r].id>> \in c.orphans \cup c.survivors
      BY <3>1, <2>4 DEF Hit
    <3>3. CASE c.pc \in {"orphanRows", "orphanNodes", "orphanEdges"}
      BY <3>2, <3>3, <2>6 DEF Hit, EdgesLeft
    <3>4. CASE c.pc \in {"survivorRows", "survivorNodes", "survivorEdges"}
      <4>1. c.orphans = OfEntities(c.orphans)
        BY <3>4, <2>3 DEF PassesOver
      <4>2. <<r, graph[r].id>> \in c.survivors /\ EdgesLeft(c) = c.survivors
        BY <4>1, <3>2, <3>4, <1>c DEF EdgesLeft
      <4> QED
        BY <4>2, <2>6 DEF Hit
    <3>5. CASE c.pc = "document"
      <4>1. c.orphans = OfEntities(c.orphans) /\ c.survivors = OfEntities(c.survivors)
        BY <3>5, <2>3 DEF PassesOver
      <4> QED
        BY <4>1, <3>2, <1>c
    <3> QED
      BY <2>3, <3>3, <3>4, <3>5 DEF StageNames
  <2>7. RowsInv'
    BY <2>2, <2>5 DEF GoneInv, RowsInv, c
  <2>8. EdgesInv'
    BY <2>2, <2>6 DEF GoneInv, EdgesInv, c
  <2>9. ForgottenInv'
    BY <2>2 DEF GoneInv, ForgottenInv
  <2> QED
    BY <2>7, <2>8, <2>9 DEF GoneInv
<1>9. ASSUME NEW f \in Forgets, CascadeStep(f) PROVE GoneInv'
  <2>1. CascadeView(f) /\ OldRows /\ OldEdges
    BY <1>9, CascadeFacts, MovesOld DEF CascadeView
  <2> DEFINE c == call[f]
             q == call'[f].pc
  <2>2. /\ doc' = doc /\ met' = met /\ ingest' = ingest /\ Does(c)
        /\ \A g \in Forgets : g # f => call'[g] = call[g]
        /\ c.pc \in StageNames \ {"document"} /\ q \in StageNames /\ q = StageAfter(c)
        /\ call'[f].doc = c.doc /\ call'[f].orphans = c.orphans /\ call'[f].survivors = c.survivors
    BY <2>1 DEF CascadeView, CallFrame
  <2>3. /\ c.pc = "orphanRows" => PassesOver(c, 2, q)
        /\ c.pc = "orphanNodes" => PassesOver(c, 3, q)
        /\ c.pc = "orphanEdges" => PassesOver(c, 4, q)
        /\ c.pc = "survivorRows" => PassesOver(c, 5, q)
        /\ c.pc = "survivorNodes" => PassesOver(c, 6, q)
        /\ c.pc = "survivorEdges" => PassesOver(c, 7, q)
    BY <2>2, StageAfterPasses
  <2>4. /\ RowsLeft(call'[f]) = CASE q \in {"listEdges", "orphanRows"} -> c.orphans \cup c.survivors
                                  [] q \in {"orphanNodes", "orphanEdges", "survivorRows"} -> c.survivors
                                  [] OTHER -> {}
        /\ EdgesLeft(call'[f]) = CASE q \in {"orphanRows", "orphanNodes", "orphanEdges"} -> c.orphans \cup c.survivors
                                   [] q \in {"survivorRows", "survivorNodes", "survivorEdges"} -> c.survivors
                                   [] OTHER -> {}
    BY <2>2 DEF RowsLeft, EdgesLeft
  <2>5. c.doc \in Docs /\ (c.doc \in met \/ ingest[c.doc].pc = "done")
    BY <2>2 DEF StageNames, CallInv, TypeInv, CallType
  <2> HIDE DEF c, q
  <2>6. ASSUME c.doc \notin met, NEW e \in Entities, vector'[e] # None, c.doc \in vector'[e].src
        PROVE  Hit(vector', e, RowsLeft(call'[f]))
    <3>1. vector[e] # None /\ c.doc \in vector[e].src /\ vector'[e].id = vector[e].id
      BY <2>1, <2>5, <2>6 DEF OldRows
    <3>2. Hit(vector, e, RowsLeft(c))
      BY <2>2, <2>6, <3>1 DEF GoneInv, RowsInv, c, StageNames
    <3>3. c.pc \in {"orphanRows", "orphanNodes", "orphanEdges", "survivorRows"}
      BY <3>2, <2>2 DEF RowsLeft, Hit, StageNames
    <3>4. c.pc # "survivorRows"
      <4> SUFFICES ASSUME c.pc = "survivorRows" PROVE FALSE
        OBVIOUS
      <4>1. Hit(vector, e, c.survivors)
        BY <3>2 DEF RowsLeft
      <4>2. vector'[e].src = vector[e].src \ {c.doc}
        BY <4>1, <2>2 DEF Does
      <4> QED
        BY <4>2, <2>6
    <3>5. <<e, vector[e].id>> \in c.survivors
      <4>1. CASE c.pc = "orphanRows"
        BY <4>1, <3>2, <2>2, <2>6 DEF RowsLeft, Hit, Does
      <4>2. CASE c.pc \in {"orphanNodes", "orphanEdges"}
        BY <4>2, <3>2 DEF RowsLeft, Hit
      <4> QED
        BY <3>3, <3>4, <4>1, <4>2
    <3>6. OfEntities(c.survivors) # {}
      BY <3>5, <1>c
    <3>7. q \in {"orphanNodes", "orphanEdges", "survivorRows"}
      BY <2>2, <2>3, <3>3, <3>4, <3>6 DEF PassesOver, StageNames
    <3>8. RowsLeft(call'[f]) = c.survivors
      BY <2>4, <3>7
    <3> QED
      BY <3>1, <3>5, <3>8, <2>6 DEF Hit
  <2>7. ASSUME c.doc \notin met, NEW r \in Rels, graph'[r] # None, c.doc \in graph'[r].src
        PROVE  Hit(graph', r, EdgesLeft(call'[f]))
    <3>1. graph[r] # None /\ c.doc \in graph[r].src /\ graph'[r].id = graph[r].id
      BY <2>1, <2>5, <2>7 DEF OldEdges
    <3>2. Hit(graph, r, EdgesLeft(c))
      BY <2>2, <2>7, <3>1 DEF GoneInv, EdgesInv, c
    <3>3. c.pc # "survivorEdges"
      <4> SUFFICES ASSUME c.pc = "survivorEdges" PROVE FALSE
        OBVIOUS
      <4>1. Hit(graph, r, c.survivors)
        BY <3>2 DEF EdgesLeft
      <4>2. graph'[r].src = graph[r].src \ {c.doc}
        BY <4>1, <2>2 DEF Does
      <4> QED
        BY <4>2, <2>7
    <3>4. CASE c.pc \in {"orphanRows", "orphanNodes"}
      <4>1. <<r, graph[r].id>> \in c.orphans \cup c.survivors
        BY <3>4, <3>2 DEF EdgesLeft, Hit
      <4>2. CASE q \in {"orphanNodes", "orphanEdges"}
        <5>1. EdgesLeft(call'[f]) = c.orphans \cup c.survivors
          BY <4>2, <2>4
        <5> QED
          BY <5>1, <4>1, <3>1, <2>7 DEF Hit
      <4>3. CASE q \in {"survivorRows", "survivorNodes", "survivorEdges"}
        <5>1. c.orphans = OfEntities(c.orphans)
          BY <3>4, <4>3, <2>3 DEF PassesOver
        <5>2. EdgesLeft(call'[f]) = c.survivors
          BY <4>3, <2>4
        <5> QED
          BY <5>1, <5>2, <4>1, <3>1, <2>7, <1>c DEF Hit
      <4>4. CASE q = "document"
        <5>1. c.orphans = OfEntities(c.orphans) /\ c.survivors = OfEntities(c.survivors)
          BY <3>4, <4>4, <2>3 DEF PassesOver
        <5> QED
          BY <5>1, <4>1, <1>c
      <4> QED
        BY <4>2, <4>3, <4>4, <2>2, <2>3, <3>4 DEF StageNames, PassesOver
    <3>5. CASE c.pc \in {"orphanEdges", "survivorRows", "survivorNodes"}
      <4>1. <<r, graph[r].id>> \in c.survivors
        <5>1. CASE c.pc = "orphanEdges"
          BY <5>1, <3>2, <2>2, <2>7 DEF EdgesLeft, Hit, Does
        <5>2. CASE c.pc \in {"survivorRows", "survivorNodes"}
          BY <5>2, <3>2 DEF EdgesLeft, Hit
        <5> QED
          BY <3>5, <5>1, <5>2
      <4>2. c.survivors # OfEntities(c.survivors)
        BY <4>1, <1>c
      <4>3. q \in {"survivorRows", "survivorNodes", "survivorEdges"}
        BY <4>2, <3>5, <2>2, <2>3 DEF PassesOver, StageNames
      <4>4. EdgesLeft(call'[f]) = c.survivors
        BY <4>3, <2>4
      <4> QED
        BY <4>1, <4>4, <3>1, <2>7 DEF Hit
    <3> QED
      BY <2>2, <3>3, <3>4, <3>5 DEF StageNames
  <2>8. ASSUME NEW g \in Forgets, g # f, call[g].doc \notin met, call[g].pc # "idle"
        PROVE  call[g].doc \in Docs /\ ingest[call[g].doc].pc = "done"
    BY <2>8 DEF CallInv, TypeInv, CallType
  <2>9. RowsInv'
    <3> SUFFICES ASSUME NEW g \in Forgets, call'[g].doc \notin met, call'[g].pc \notin {"idle", "list"},
                        NEW e \in Entities, vector'[e] # None, call'[g].doc \in vector'[e].src
                 PROVE  Hit(vector', e, RowsLeft(call'[g]))
      BY <2>2 DEF RowsInv
    <3>1. CASE g = f
      BY <3>1, <2>2, <2>6
    <3>2. CASE g # f
      <4>1. call'[g] = call[g]
        BY <3>2, <2>2
      <4>2. vector[e] # None /\ call[g].doc \in vector[e].src /\ vector'[e].id = vector[e].id
        BY <3>2, <4>1, <2>1, <2>8 DEF OldRows
      <4>3. Hit(vector, e, RowsLeft(call[g]))
        BY <4>1, <4>2 DEF GoneInv, RowsInv
      <4> QED
        BY <4>1, <4>2, <4>3 DEF Hit
    <3> QED
      BY <3>1, <3>2
  <2>10. EdgesInv'
    <3> SUFFICES ASSUME NEW g \in Forgets, call'[g].doc \notin met, call'[g].pc \in StageNames,
                        NEW r \in Rels, graph'[r] # None, call'[g].doc \in graph'[r].src
                 PROVE  Hit(graph', r, EdgesLeft(call'[g]))
      BY <2>2 DEF EdgesInv
    <3>1. CASE g = f
      BY <3>1, <2>2, <2>7
    <3>2. CASE g # f
      <4>1. call'[g] = call[g] /\ call[g].pc # "idle"
        BY <3>2, <2>2 DEF StageNames
      <4>2. graph[r] # None /\ call[g].doc \in graph[r].src /\ graph'[r].id = graph[r].id
        BY <3>2, <4>1, <2>1, <2>8 DEF OldEdges
      <4>3. Hit(graph, r, EdgesLeft(call[g]))
        BY <4>1, <4>2 DEF GoneInv, EdgesInv
      <4> QED
        BY <4>1, <4>2, <4>3 DEF Hit
    <3> QED
      BY <3>1, <3>2
  <2>11. ForgottenInv'
    <3>1. \A d \in Docs : doc[d] = "forgotten" /\ d \notin met => ingest[d].pc = "done"
      BY DEF DocInv
    <3> QED
      BY <3>1, <2>1, <2>2 DEF OldRows, OldEdges, GoneInv, ForgottenInv
  <2> QED
    BY <2>9, <2>10, <2>11 DEF GoneInv
<1>10. ASSUME NEW f \in Forgets, DeleteDocument(f) PROVE GoneInv'
  <2>1. DeleteView(f)
    BY <1>10, DeleteFacts
  <2>2. /\ vector' = vector /\ graph' = graph /\ met' = met /\ call[f].pc = "document" /\ call'[f].pc = "idle"
        /\ \A g \in Forgets : g # f => call'[g] = call[g]
        /\ \A b \in Docs : b # call[f].doc => doc'[b] = doc[b]
    BY <2>1 DEF DeleteView, Returns, CallFrame
  <2>3. RowsInv'
    BY <2>2 DEF GoneInv, RowsInv
  <2>4. EdgesInv'
    BY <2>2 DEF GoneInv, EdgesInv, StageNames
  <2>5. RowsLeft(call[f]) = {} /\ EdgesLeft(call[f]) = {}
    BY <2>2 DEF RowsLeft, EdgesLeft
  <2>6. call[f].doc \notin met =>
           /\ \A e \in Entities : vector[e] # None => call[f].doc \notin vector[e].src
           /\ \A r \in Rels : graph[r] # None => call[f].doc \notin graph[r].src
    BY <2>2, <2>5 DEF GoneInv, RowsInv, EdgesInv, Hit, StageNames
  <2>7. ForgottenInv'
    BY <2>2, <2>6 DEF GoneInv, ForgottenInv
  <2> QED
    BY <2>3, <2>4, <2>7 DEF GoneInv
<1>11. ASSUME NEW f \in Forgets, ForgetRaises(f) PROVE GoneInv'
  <2>1. RaiseView(f) /\ OldRows /\ OldEdges
    BY <1>11, RaiseFacts, MovesOld DEF RaiseView
  <2>2. \A g \in Forgets : call'[g].pc \in {"idle", "list"} \/ call'[g] = call[g]
    BY <2>1 DEF RaiseView, Returns, CallFrame
  <2> QED
    BY <2>1, <2>2, GoneSame DEF RaiseView
<1>12. ASSUME Crash PROVE GoneInv'
  <2>1. CrashView
    BY <1>12, CrashFacts
  <2> QED
    BY <2>1, <1>b, GoneSame DEF CrashView
<1> QED
  BY <1>1, <1>2, <1>3, <1>4, <1>5, <1>6, <1>7, <1>8, <1>9, <1>10, <1>11, <1>12 DEF Next

-------------------------------------------------------------------------------
\* MatchInv.

\* What is not clean stays so.
LEMMA CleanBack ==
    ASSUME broken \subseteq broken', met \subseteq met', torn \subseteq torn'
    PROVE  \A x : Clean(x)' => Clean(x)
BY DEF Clean, Written

\* A step that writes no row and no node of an entity, and by which no call passes the write
\* of a node.
LEMMA MatchSame ==
    ASSUME MatchInv, vector' = vector, \A e \in Entities : graph'[e] = graph[e],
           \A x : Clean(x)' => Clean(x),
           \A d \in Docs : ingest'[d].pc = "graph" => ingest'[d] = ingest[d],
           \A f \in Forgets :
              \/ call'[f] = call[f]
              \/ /\ \A e \in Entities : Clean(e)' /\ Hit(vector, e, call'[f].orphans) =>
                       \A s \in vector[e].src : s = call'[f].doc
                 /\ \/ call[f].pc \notin {"orphanNodes", "survivorNodes"}
                    \/ \A e \in Entities : \A i : <<e, i>> \in call[f].orphans \cup call[f].survivors => ~Clean(e)'
    PROVE  MatchInv'
<1>1. OnlyInv'
  BY DEF MatchInv, OnlyInv, Hit
<1>2. ASSUME NEW f \in Forgets, NEW e \in Entities, Clean(e)', call[f].pc \in {"orphanNodes", "survivorNodes"},
             Hit(graph, e, call[f].orphans \cup call[f].survivors)
      PROVE  call'[f] = call[f]
  BY <1>2 DEF Hit
<1>3. SameIdInv'
  <2> SUFFICES ASSUME NEW e \in Entities, Clean(e)', graph[e] # None
               PROVE  \/ vector[e] # None /\ vector[e].id = graph[e].id
                      \/ vector[e] = None /\ \E f \in Forgets : call'[f].pc = "orphanNodes" /\ Hit(graph', e, call'[f].orphans)
    BY DEF SameIdInv
  <2>1. CASE vector[e] # None /\ vector[e].id = graph[e].id
    BY <2>1
  <2>2. CASE vector[e] = None /\ \E f \in Forgets : call[f].pc = "orphanNodes" /\ Hit(graph, e, call[f].orphans)
    <3>1. PICK f \in Forgets : call[f].pc = "orphanNodes" /\ Hit(graph, e, call[f].orphans)
      BY <2>2
    <3>2. call'[f] = call[f]
      BY <3>1, <1>2 DEF Hit
    <3> QED
      BY <2>2, <3>1, <3>2 DEF Hit
  <2> QED
    BY <2>1, <2>2 DEF MatchInv, SameIdInv
<1>4. HeldIdInv'
  BY DEF MatchInv, HeldIdInv
<1>5. BehindInv'
  <2> SUFFICES ASSUME NEW e \in Entities, Clean(e)', graph[e] # None, NEW d, d \in graph[e].src
               PROVE  \/ vector[e] # None /\ d \in vector[e].src
                      \/ \E f \in Forgets :
                            /\ call'[f].doc = d
                            /\ \/ call'[f].pc = "orphanNodes" /\ Hit(graph', e, call'[f].orphans)
                               \/ call'[f].pc = "survivorNodes" /\ Hit(graph', e, call'[f].survivors)
    BY DEF BehindInv
  <2>1. CASE vector[e] # None /\ d \in vector[e].src
    BY <2>1
  <2>2. CASE \E f \in Forgets : /\ call[f].doc = d
                                /\ \/ call[f].pc = "orphanNodes" /\ Hit(graph, e, call[f].orphans)
                                   \/ call[f].pc = "survivorNodes" /\ Hit(graph, e, call[f].survivors)
    <3>1. PICK f \in Forgets : /\ call[f].doc = d
                               /\ \/ call[f].pc = "orphanNodes" /\ Hit(graph, e, call[f].orphans)
                                  \/ call[f].pc = "survivorNodes" /\ Hit(graph, e, call[f].survivors)
      BY <2>2
    <3>2. call'[f] = call[f]
      BY <3>1, <1>2 DEF Hit
    <3> QED
      BY <3>1, <3>2 DEF Hit
  <2> QED
    BY <2>1, <2>2 DEF MatchInv, BehindInv
<1> QED
  BY <1>1, <1>3, <1>4, <1>5 DEF MatchInv

\* A statement of a cascade that breaks off has touched nothing clean.
LEMMA MatchRaises ==
    ASSUME BaseInv, MatchInv, NEW f \in Forgets, RaiseView(f)
    PROVE  MatchInv'
<1> USE DEF BaseInv
<1>1. \A x : Clean(x)' => Clean(x)
  BY CleanBack DEF RaiseView
<1>2. \A x : \A i : <<x, i>> \in call[f].orphans \cup call[f].survivors => ~Clean(x)'
  <2> SUFFICES ASSUME NEW x, NEW i, <<x, i>> \in call[f].orphans \cup call[f].survivors PROVE ~Clean(x)'
    OBVIOUS
  <2>1. <<x, i>>[1] = x
    OBVIOUS
  <2>2. x \in Written(call[f].doc) /\ call[f].doc \in broken'
    BY <2>1 DEF CallInv, RaiseView
  <2> QED
    BY <2>2 DEF Clean, Written
<1>3. \A e \in Entities : Clean(e)' => vector'[e] = vector[e] /\ graph'[e] = graph[e]
  BY <1>2 DEF RaiseView, Moves, RowMoves, NodeMoves, Hit
<1>4. \A g \in Forgets : call'[g] = call[g] \/ g = f
  BY DEF RaiseView, Returns, CallFrame
<1>5. call'[f].orphans = {} /\ ingest' = ingest
  BY DEF RaiseView, Returns
<1>6. OnlyInv'
  BY <1>1, <1>3, <1>4, <1>5 DEF MatchInv, OnlyInv, Hit
<1>7. SameIdInv'
  <2> SUFFICES ASSUME NEW e \in Entities, Clean(e)', graph'[e] # None
               PROVE  \/ vector'[e] # None /\ vector'[e].id = graph'[e].id
                      \/ vector'[e] = None /\ \E g \in Forgets : call'[g].pc = "orphanNodes" /\ Hit(graph', e, call'[g].orphans)
    BY DEF SameIdInv
  <2>1. vector'[e] = vector[e] /\ graph'[e] = graph[e]
    BY <1>3
  <2>2. \A g \in Forgets : Hit(graph, e, call[g].orphans) => call'[g] = call[g]
    BY <1>2, <1>4 DEF Hit
  <2> QED
    BY <1>1, <2>1, <2>2 DEF MatchInv, SameIdInv, Hit
<1>8. HeldIdInv'
  <2>1. \A d \in Docs : Mentions[d] \subseteq Entities
    BY CascadeAssumption
  <2> QED
    BY <1>1, <1>3, <1>5, <2>1 DEF MatchInv, HeldIdInv
<1>9. BehindInv'
  <2> SUFFICES ASSUME NEW e \in Entities, Clean(e)', graph'[e] # None, NEW d, d \in graph'[e].src
               PROVE  \/ vector'[e] # None /\ d \in vector'[e].src
                      \/ \E g \in Forgets :
                            /\ call'[g].doc = d
                            /\ \/ call'[g].pc = "orphanNodes" /\ Hit(graph', e, call'[g].orphans)
                               \/ call'[g].pc = "survivorNodes" /\ Hit(graph', e, call'[g].survivors)
    BY DEF BehindInv
  <2>1. vector'[e] = vector[e] /\ graph'[e] = graph[e]
    BY <1>3
  <2>2. \A g \in Forgets : Hit(graph, e, call[g].orphans) \/ Hit(graph, e, call[g].survivors) => call'[g] = call[g]
    BY <1>2, <1>4 DEF Hit
  <2> QED
    BY <1>1, <2>1, <2>2 DEF MatchInv, BehindInv, Hit
<1> QED
  BY <1>6, <1>7, <1>8, <1>9 DEF MatchInv

\* A statement of a cascade that is executed.
LEMMA MatchCascade ==
    ASSUME BaseInv, MatchInv, NEW f \in Forgets, CascadeView(f)
    PROVE  MatchInv'
<1> USE DEF BaseInv
<1>1. \A x : Clean(x)' <=> Clean(x)
  BY DEF CascadeView, Clean, Written
<1> DEFINE c == call[f]
           q == call'[f].pc
<1>2. /\ Does(c) /\ Moves(c) /\ ingest' = ingest
      /\ \A g \in Forgets : g # f => call'[g] = call[g]
      /\ c.pc \in StageNames \ {"document"} /\ q = StageAfter(c)
      /\ call'[f].doc = c.doc /\ call'[f].orphans = c.orphans /\ call'[f].survivors = c.survivors
  BY DEF CascadeView, CallFrame
<1>3. /\ \A e \in Entities : c.pc = "orphanRows" /\ Hit(vector, e, c.orphans) => q = "orphanNodes"
      /\ \A e \in Entities : c.pc = "survivorRows" /\ Hit(vector, e, c.survivors) => q = "survivorNodes"
  <2>1. /\ c.pc = "orphanRows" => PassesOver(c, 2, q)
        /\ c.pc = "survivorRows" => PassesOver(c, 5, q)
    BY <1>2, StageAfterPasses
  <2>2. \A e \in Entities : /\ Hit(vector, e, c.orphans) => OfEntities(c.orphans) # {}
                            /\ Hit(vector, e, c.survivors) => OfEntities(c.survivors) # {}
    BY DEF Hit, OfEntities
  <2> QED
    BY <2>1, <2>2 DEF PassesOver
<1>4. c.doc \in Docs /\ (c.doc \in met \/ ingest[c.doc].pc = "done")
  BY <1>2 DEF StageNames, CallInv, TypeInv, CallType
<1>5. \A g \in Forgets : call'[g].doc = call[g].doc /\ call'[g].orphans = call[g].orphans /\ call'[g].survivors = call[g].survivors
  BY <1>2
<1> HIDE DEF c, q
<1>6. OnlyInv'
  <2>1. \A e \in Entities : vector'[e] # None =>
           vector[e] # None /\ vector'[e].id = vector[e].id /\ vector'[e].src \subseteq vector[e].src
    BY <1>2 DEF Moves, RowMoves, Hit
  <2> QED
    BY <2>1, <1>1, <1>5 DEF MatchInv, OnlyInv, Hit
<1>7. HeldIdInv'
  <2> SUFFICES ASSUME NEW d \in Docs, ingest[d].pc = "graph", NEW e \in Mentions[d], Clean(e)
               PROVE  vector'[e] # None /\ vector'[e].id = ingest[d].ids[e] /\ d \in vector'[e].src
    BY <1>1, <1>2 DEF HeldIdInv
  <2>1. e \in Entities /\ vector[e] # None /\ vector[e].id = ingest[d].ids[e] /\ d \in vector[e].src
    BY CascadeAssumption DEF MatchInv, HeldIdInv
  <2>2. d # c.doc
    <3>1. d \notin met
      BY DEF Clean, Written
    <3> QED
      BY <3>1, <1>4
  <2>3. ~Hit(vector, e, c.orphans)
    BY <2>1, <2>2 DEF MatchInv, OnlyInv, c
  <2> QED
    BY <2>1, <2>2, <2>3, <1>2 DEF Moves, RowMoves
<1>8. SameIdInv'
  <2> SUFFICES ASSUME NEW e \in Entities, Clean(e), graph'[e] # None
               PROVE  \/ vector'[e] # None /\ vector'[e].id = graph'[e].id
                      \/ vector'[e] = None /\ \E g \in Forgets : call'[g].pc = "orphanNodes" /\ Hit(graph', e, call'[g].orphans)
    BY <1>1 DEF SameIdInv
  <2>1. graph[e] # None /\ graph'[e].id = graph[e].id
    BY <1>2 DEF Moves, NodeMoves, Hit
  <2>2. CASE vector[e] # None /\ vector[e].id = graph[e].id
    <3>1. CASE vector'[e] # None
      <4>1. vector'[e].id = vector[e].id
        BY <3>1, <1>2 DEF Moves, RowMoves
      <4> QED
        BY <2>1, <2>2, <3>1, <4>1
    <3>2. CASE vector'[e] = None
      <4>1. c.pc = "orphanRows" /\ Hit(vector, e, c.orphans)
        BY <2>2, <3>2, <1>2 DEF Moves, RowMoves
      <4>2. Hit(graph', e, call'[f].orphans)
        BY <4>1, <2>1, <2>2, <1>2 DEF Hit
      <4>3. call'[f].pc = "orphanNodes"
        BY <4>1, <1>3 DEF q
      <4> QED
        BY <3>2, <4>2, <4>3
    <3> QED
      BY <3>1, <3>2
  <2>3. CASE vector[e] = None /\ \E g \in Forgets : call[g].pc = "orphanNodes" /\ Hit(graph, e, call[g].orphans)
    <3>1. PICK g \in Forgets : call[g].pc = "orphanNodes" /\ Hit(graph, e, call[g].orphans)
      BY <2>3
    <3>2. vector'[e] = None
      BY <2>3, <1>2 DEF Moves, RowMoves, Hit
    <3>3. g # f
      BY <3>1, <1>2 DEF Does, c
    <3>4. call'[g].pc = "orphanNodes" /\ Hit(graph', e, call'[g].orphans)
      BY <3>1, <3>3, <2>1, <1>2 DEF Hit
    <3> QED
      BY <3>2, <3>4
  <2> QED
    BY <2>1, <2>2, <2>3 DEF MatchInv, SameIdInv
<1>9. BehindInv'
  <2> SUFFICES ASSUME NEW e \in Entities, Clean(e), graph'[e] # None, NEW d, d \in graph'[e].src
               PROVE  \/ vector'[e] # None /\ d \in vector'[e].src
                      \/ \E g \in Forgets :
                            /\ call'[g].doc = d
                            /\ \/ call'[g].pc = "orphanNodes" /\ Hit(graph', e, call'[g].orphans)
                               \/ call'[g].pc = "survivorNodes" /\ Hit(graph', e, call'[g].survivors)
    BY <1>1 DEF BehindInv
  <2>1. graph[e] # None /\ graph'[e].id = graph[e].id /\ d \in graph[e].src
    BY <1>2 DEF Moves, NodeMoves, Hit
  <2>2. CASE vector[e] # None /\ d \in vector[e].src
    <3>1. vector[e].id = graph[e].id
      BY <2>1, <2>2 DEF MatchInv, SameIdInv
    <3>2. CASE vector'[e] # None /\ d \in vector'[e].src
      BY <3>2
    <3>3. CASE vector'[e] = None
      <4>1. c.pc = "orphanRows" /\ Hit(vector, e, c.orphans)
        BY <2>2, <3>3, <1>2 DEF Moves, RowMoves
      <4>2. d = c.doc
        BY <4>1, <2>2 DEF MatchInv, OnlyInv, c
      <4>3. Hit(graph', e, call'[f].orphans)
        BY <4>1, <2>1, <3>1, <1>2 DEF Hit
      <4>4. call'[f].pc = "orphanNodes" /\ call'[f].doc = d
        BY <4>1, <4>2, <1>2, <1>3 DEF q
      <4> QED
        BY <4>3, <4>4
    <3>4. CASE vector'[e] # None /\ d \notin vector'[e].src
      <4>1. c.pc = "survivorRows" /\ Hit(vector, e, c.survivors) /\ d = c.doc
        BY <2>2, <3>4, <1>2 DEF Moves, RowMoves
      <4>2. Hit(graph', e, call'[f].survivors)
        BY <4>1, <2>1, <3>1, <1>2 DEF Hit
      <4>3. call'[f].pc = "survivorNodes" /\ call'[f].doc = d
        BY <4>1, <1>2, <1>3 DEF q
      <4> QED
        BY <4>2, <4>3
    <3> QED
      BY <3>2, <3>3, <3>4
  <2>3. CASE \E g \in Forgets : /\ call[g].doc = d
                                /\ \/ call[g].pc = "orphanNodes" /\ Hit(graph, e, call[g].orphans)
                                   \/ call[g].pc = "survivorNodes" /\ Hit(graph, e, call[g].survivors)
    <3>1. PICK g \in Forgets : /\ call[g].doc = d
                               /\ \/ call[g].pc = "orphanNodes" /\ Hit(graph, e, call[g].orphans)
                                  \/ call[g].pc = "survivorNodes" /\ Hit(graph, e, call[g].survivors)
      BY <2>3
    <3>2. g # f
      <4> SUFFICES ASSUME g = f PROVE FALSE
        OBVIOUS
      <4>1. CASE c.pc = "orphanNodes" /\ Hit(graph, e, c.orphans)
        BY <4>1, <1>2 DEF Does
      <4>2. CASE c.pc = "survivorNodes" /\ Hit(graph, e, c.survivors)
        <5>1. graph'[e].src = graph[e].src \ {c.doc} /\ c.doc = d
          BY <3>1, <4>2, <1>2 DEF Does, c
        <5> QED
          BY <5>1
      <4> QED
        BY <3>1, <4>1, <4>2 DEF c
    <3>3. call'[g] = call[g]
      BY <3>2, <1>2
    <3> QED
      BY <3>1, <3>3, <2>1 DEF Hit
  <2> QED
    BY <2>1, <2>2, <2>3 DEF MatchInv, BehindInv
<1> QED
  BY <1>6, <1>7, <1>8, <1>9 DEF MatchInv

LEMMA MatchStep ==
    ASSUME BaseInv, MatchInv, [Next]_vars
    PROVE  MatchInv'
<1> USE DEF BaseInv
<1>a. /\ \A d \in Docs : Mentions[d] \subseteq Entities /\ Relates[d] \subseteq Rels
      /\ Entities \subseteq Items /\ Rels \subseteq Items /\ Entities \cap Rels = {}
  BY CascadeAssumption DEF Items
<1>b. \A e, i : <<e, i>>[1] = e /\ \A d, x : <<d, x>>[2] = x
  OBVIOUS
<1>1. ASSUME UNCHANGED vars PROVE MatchInv'
  <2>1. /\ vector' = vector /\ graph' = graph /\ ingest' = ingest /\ call' = call
        /\ torn' = torn /\ met' = met /\ broken' = broken
    BY <1>1 DEF vars, stores, history
  <2> QED
    BY <2>1, CleanBack, MatchSame
<1>2. ASSUME NEW d \in Docs, CreateDocument(d) PROVE MatchInv'
  <2>1. CreateView(d)
    BY <1>2, CreateFacts
  <2>2. /\ vector' = vector /\ graph' = graph /\ call' = call /\ torn' = torn /\ met' = met /\ broken' = broken
        /\ \A b \in Docs : ingest'[b].pc = "graph" => ingest'[b] = ingest[b]
    BY <2>1 DEF CreateView, IngestFrame
  <2> QED
    BY <2>2, CleanBack, MatchSame
<1>3. ASSUME NEW d \in Docs, UpsertVector(d) PROVE MatchInv'
  <2>1. RowsView(d)
    BY <1>3, RowsFacts
  <2>2. /\ graph' = graph /\ call' = call /\ TornBy(d, Mentions[d])
        /\ \A b \in Docs : b # d => ingest'[b] = ingest[b]
        /\ met' = met /\ broken' = broken
    BY <2>1 DEF RowsView, IngestFrame
  <2>3. \A x : Clean(x)' => Clean(x)
    BY <2>2, CleanBack DEF TornBy
  <2>4. \A x \in Mentions[d] : Clean(x)' => \A f \in Forgets : \A i : <<x, i>> \notin call[f].orphans
    <3> SUFFICES ASSUME NEW x \in Mentions[d], NEW f \in Forgets, NEW i, <<x, i>> \in call[f].orphans
                 PROVE  ~Clean(x)'
      OBVIOUS
    <3>1. <<d, x>> \in torn'
      BY <2>2, <1>b DEF TornBy
    <3> QED
      BY <3>1, <1>b DEF Clean
  <2>5. OnlyInv'
    BY <2>1, <2>2, <2>3, <2>4 DEF RowsView, MatchInv, OnlyInv, Hit
  <2>6. \A e \in Entities : vector[e] # None =>
           vector'[e] # None /\ vector'[e].id = vector[e].id /\ vector[e].src \subseteq vector'[e].src
    BY <2>1 DEF RowsView
  <2>7. SameIdInv'
    <3> SUFFICES ASSUME NEW e \in Entities, Clean(e)', graph[e] # None
                 PROVE  \/ vector'[e] # None /\ vector'[e].id = graph[e].id
                        \/ vector'[e] = None /\ \E f \in Forgets : call[f].pc = "orphanNodes" /\ Hit(graph, e, call[f].orphans)
      BY <2>2 DEF SameIdInv
    <3>1. CASE vector[e] # None
      BY <3>1, <2>3, <2>6 DEF MatchInv, SameIdInv
    <3>2. CASE vector[e] = None
      <4>1. \E f \in Forgets : call[f].pc = "orphanNodes" /\ Hit(graph, e, call[f].orphans)
        BY <3>2, <2>3 DEF MatchInv, SameIdInv
      <4>2. e \notin Mentions[d]
        BY <4>1, <2>4 DEF Hit
      <4> QED
        BY <3>2, <4>1, <4>2, <2>1 DEF RowsView
    <3> QED
      BY <3>1, <3>2
  <2>8. HeldIdInv'
    <3> SUFFICES ASSUME NEW b \in Docs, ingest'[b].pc = "graph", NEW e \in Mentions[b], Clean(e)'
                 PROVE  vector'[e] # None /\ vector'[e].id = ingest'[b].ids[e] /\ b \in vector'[e].src
      BY DEF HeldIdInv
    <3>1. CASE b = d
      BY <3>1, <2>1, <1>a DEF RowsView
    <3>2. CASE b # d
      BY <3>2, <2>2, <2>3, <2>6, <1>a DEF MatchInv, HeldIdInv
    <3> QED
      BY <3>1, <3>2
  <2>9. BehindInv'
    BY <2>2, <2>3, <2>6 DEF MatchInv, BehindInv
  <2> QED
    BY <2>5, <2>7, <2>8, <2>9 DEF MatchInv
<1>4. ASSUME NEW d \in Docs, UpsertGraph(d) PROVE MatchInv'
  <2>1. NodesView(d)
    BY <1>4, NodesFacts
  <2>2. /\ vector' = vector /\ call' = call /\ TornBy(d, Mentions[d])
        /\ \A b \in Docs : b # d => ingest'[b] = ingest[b]
        /\ ingest[d].pc = "graph" /\ ingest'[d].pc = "relate"
        /\ met' = met /\ broken' = broken
    BY <2>1 DEF NodesView, IngestFrame
  <2>3. \A x : Clean(x)' => Clean(x)
    BY <2>2, CleanBack DEF TornBy
  <2>4. OnlyInv'
    BY <2>2, <2>3 DEF MatchInv, OnlyInv
  <2>5. HeldIdInv'
    BY <2>2, <2>3 DEF MatchInv, HeldIdInv
  <2>6. \A e \in Mentions[d] : Clean(e) => vector[e] # None /\ vector[e].id = ingest[d].ids[e] /\ d \in vector[e].src
    BY <2>2 DEF MatchInv, HeldIdInv
  <2>7. SameIdInv'
    <3> SUFFICES ASSUME NEW e \in Entities, Clean(e)', graph'[e] # None
                 PROVE  \/ vector[e] # None /\ vector[e].id = graph'[e].id
                        \/ vector[e] = None /\ \E f \in Forgets : call[f].pc = "orphanNodes" /\ Hit(graph', e, call[f].orphans)
      BY <2>2 DEF SameIdInv
    <3>1. CASE graph[e] # None
      <4>1. graph'[e].id = graph[e].id
        BY <3>1, <2>1, <1>a DEF NodesView
      <4> QED
        BY <3>1, <4>1, <2>3 DEF MatchInv, SameIdInv, Hit
    <3>2. CASE graph[e] = None
      BY <3>2, <2>1, <2>3, <2>6, <1>a DEF NodesView
    <3> QED
      BY <3>1, <3>2
  <2>8. BehindInv'
    <3> SUFFICES ASSUME NEW e \in Entities, Clean(e)', graph'[e] # None, NEW b, b \in graph'[e].src
                 PROVE  \/ vector[e] # None /\ b \in vector[e].src
                        \/ \E f \in Forgets :
                              /\ call[f].doc = b
                              /\ \/ call[f].pc = "orphanNodes" /\ Hit(graph', e, call[f].orphans)
                                 \/ call[f].pc = "survivorNodes" /\ Hit(graph', e, call[f].survivors)
      BY <2>2 DEF BehindInv
    <3>1. CASE b = d /\ e \in Mentions[d]
      BY <3>1, <2>3, <2>6
    <3>2. CASE graph[e] # None /\ b \in graph[e].src
      <4>1. graph'[e].id = graph[e].id
        BY <3>2, <2>1, <1>a DEF NodesView
      <4> QED
        BY <3>2, <4>1, <2>3 DEF MatchInv, BehindInv, Hit
    <3> QED
      BY <3>1, <3>2, <2>1, <1>a DEF NodesView
  <2> QED
    BY <2>4, <2>5, <2>7, <2>8 DEF MatchInv
<1>5. ASSUME NEW d \in Docs, Relate(d) PROVE MatchInv'
  <2>1. EdgesView(d)
    BY <1>5, EdgesFacts
  <2>2. /\ vector' = vector /\ call' = call /\ TornBy(d, Relates[d]) /\ met' = met /\ broken' = broken
        /\ \A b \in Docs : ingest'[b].pc = "graph" => ingest'[b] = ingest[b]
    BY <2>1 DEF EdgesView, IngestFrame
  <2>3. \A e \in Entities : graph'[e] = graph[e]
    BY <2>1, <1>a DEF EdgesView, Matched
  <2>4. \A x : Clean(x)' => Clean(x)
    BY <2>2, CleanBack DEF TornBy
  <2> QED
    BY <2>2, <2>3, <2>4, MatchSame
<1>6. ASSUME NEW f \in Forgets, NEW d \in Docs, Forget(f, d) PROVE MatchInv'
  <2>1. ForgetView(f, d)
    BY <1>6, ForgetFacts
  <2>2. /\ vector' = vector /\ graph' = graph /\ ingest' = ingest /\ torn' = torn /\ met \subseteq met' /\ broken' = broken
        /\ call[f].pc = "idle" /\ call'[f].orphans = {}
        /\ \A g \in Forgets : g # f => call'[g] = call[g]
    BY <2>1 DEF ForgetView, Reads, CallFrame
  <2>3. \A x : Clean(x)' => Clean(x)
    BY <2>2, CleanBack
  <2>4. \A e \in Entities : ~Hit(vector, e, call'[f].orphans)
    BY <2>2 DEF Hit
  <2> QED
    BY <2>2, <2>3, <2>4, MatchSame
<1>7. ASSUME NEW f \in Forgets, ListEntities(f) PROVE MatchInv'
  <2>1. ListView(f)
    BY <1>7, ListFacts
  <2>2. /\ vector' = vector /\ graph' = graph /\ ingest' = ingest /\ torn' = torn /\ met' = met /\ broken' = broken
        /\ call[f].pc = "list" /\ call'[f].doc = call[f].doc
        /\ \A g \in Forgets : g # f => call'[g] = call[g]
    BY <2>1 DEF ListView, Reads, CallFrame
  <2>3. \A x : Clean(x)' => Clean(x)
    BY <2>2, CleanBack
  <2>4. \A e \in Entities : Hit(vector, e, call'[f].orphans) => \A s \in vector[e].src : s = call'[f].doc
    BY <2>1, <2>2, <1>b DEF Hit, ListView, IsListing
  <2> QED
    BY <2>2, <2>3, <2>4, MatchSame
<1>8. ASSUME NEW f \in Forgets, ListRelationships(f) PROVE MatchInv'
  <2>1. ListEdgesView(f)
    BY <1>8, ListEdgesFacts
  <2>2. /\ vector' = vector /\ graph' = graph /\ ingest' = ingest /\ torn' = torn /\ met' = met /\ broken' = broken
        /\ call[f].pc = "listEdges" /\ call'[f].doc = call[f].doc
        /\ \A g \in Forgets : g # f => call'[g] = call[g]
    BY <2>1 DEF ListEdgesView, Reads, CallFrame
  <2>3. \A x : Clean(x)' => Clean(x)
    BY <2>2, CleanBack
  <2>4. ASSUME NEW e \in Entities, Hit(vector, e, call'[f].orphans)
        PROVE  Hit(vector, e, call[f].orphans)
    <3>1. PICK o, v : /\ IsListing(o, v, graph, Rels, call[f].doc)
                      /\ call'[f].orphans = call[f].orphans \cup o
      BY <2>1 DEF ListEdgesView
    <3>2. <<e, vector[e].id>> \notin o
      BY <3>1, <1>a, <1>b DEF IsListing
    <3> QED
      BY <2>4, <3>1, <3>2 DEF Hit
  <2>5. \A e \in Entities : Clean(e)' /\ Hit(vector, e, call'[f].orphans) => \A s \in vector[e].src : s = call'[f].doc
    BY <2>2, <2>3, <2>4 DEF MatchInv, OnlyInv
  <2> QED
    BY <2>2, <2>3, <2>5, MatchSame
<1>9. ASSUME NEW f \in Forgets, CascadeStep(f) PROVE MatchInv'
  BY <1>9, CascadeFacts, MatchCascade
<1>10. ASSUME NEW f \in Forgets, DeleteDocument(f) PROVE MatchInv'
  <2>1. DeleteView(f)
    BY <1>10, DeleteFacts
  <2>2. /\ vector' = vector /\ graph' = graph /\ ingest' = ingest /\ torn' = torn /\ met' = met /\ broken' = broken
        /\ call[f].pc = "document" /\ call'[f].orphans = {}
        /\ \A g \in Forgets : g # f => call'[g] = call[g]
    BY <2>1 DEF DeleteView, Returns, CallFrame
  <2>3. \A x : Clean(x)' => Clean(x)
    BY <2>2, CleanBack
  <2>4. \A e \in Entities : ~Hit(vector, e, call'[f].orphans)
    BY <2>2 DEF Hit
  <2> QED
    BY <2>2, <2>3, <2>4, MatchSame
<1>11. ASSUME NEW f \in Forgets, ForgetRaises(f) PROVE MatchInv'
  BY <1>11, RaiseFacts, MatchRaises
<1>12. ASSUME Crash PROVE MatchInv'
  <2>1. CrashView
    BY <1>12, CrashFacts
  <2>2. /\ vector' = vector /\ graph' = graph /\ torn' = torn /\ met' = met /\ broken \subseteq broken'
        /\ \A d \in Docs : ingest'[d].pc # "graph"
        /\ \A f \in Forgets : call'[f].orphans = {}
    BY <2>1 DEF CrashView
  <2>3. \A x : Clean(x)' => Clean(x)
    BY <2>2, CleanBack
  <2>4. ASSUME NEW f \in Forgets, NEW e \in Entities, NEW i, <<e, i>> \in call[f].orphans \cup call[f].survivors
        PROVE  ~Clean(e)'
    <3>1. call[f].pc # "idle" /\ call[f].doc \in Docs
      BY <2>4 DEF CallInv, TypeInv, CallType
    <3>2. e \in Written(call[f].doc)
      BY <2>4, <1>b DEF CallInv
    <3>3. call[f].doc \in broken'
      BY <3>1, <2>1 DEF CrashView
    <3> QED
      BY <3>2, <3>3 DEF Clean, Written
  <2>5. \A f \in Forgets : \A e \in Entities : ~Hit(vector, e, call'[f].orphans)
    BY <2>2 DEF Hit
  <2> QED
    BY <2>2, <2>3, <2>4, <2>5, MatchSame
<1> QED
  BY <1>1, <1>2, <1>3, <1>4, <1>5, <1>6, <1>7, <1>8, <1>9, <1>10, <1>11, <1>12 DEF Next

\* A forgotten document is named nowhere: never in the vector store, and in the graph only
\* next to a document whose forget or ingest broke off or overlapped, or a torn item; no order
\* of the statements of cascades and ingests that run together leaves it behind.
THEOREM ForgottenIsGone == Spec => []ForgottenGone
<1>1. Init => BaseInv /\ GoneInv /\ MatchInv
  <2> SUFFICES ASSUME Init PROVE GoneInv /\ MatchInv
    BY BaseInit
  <2>1. \A f \in Forgets : call[f].pc = "idle" /\ call[f].orphans = {}
    BY DEF Init, IdleCall
  <2>2. \A d \in Docs : ingest[d].pc = "no" /\ doc[d] = "absent"
    BY DEF Init
  <2>3. \A e \in Entities : vector[e] = None /\ graph[e] = None
    BY DEF Init, Items
  <2>4. GoneInv
    BY <2>1, <2>2 DEF GoneInv, RowsInv, EdgesInv, ForgottenInv, StageNames
  <2>5. MatchInv
    BY <2>1, <2>2, <2>3 DEF MatchInv, OnlyInv, SameIdInv, HeldIdInv, BehindInv, Hit
  <2> QED
    BY <2>4, <2>5
<1>2. BaseInv /\ GoneInv /\ MatchInv /\ [Next]_vars => (BaseInv /\ GoneInv /\ MatchInv)'
  BY BaseStep, GoneStep, MatchStep
<1>3. BaseInv /\ GoneInv /\ MatchInv => ForgottenGone
  <2> SUFFICES ASSUME BaseInv, GoneInv, MatchInv, NEW d \in Docs \ met, doc[d] = "forgotten",
                      \A f \in Forgets : call[f].doc # d
               PROVE  /\ \A e \in Entities : vector[e] = None \/ d \notin vector[e].src
                      /\ \A x \in Items : graph[x] # None /\ d \in graph[x].src =>
                            \/ \E b \in broken \cup met : Written(b) \cap Written(d) # {}
                            \/ \E t \in torn : t[2] \in Written(d)
    BY DEF ForgottenGone
  <2>1. /\ \A e \in Entities : vector[e] # None => d \notin vector[e].src
        /\ \A r \in Rels : graph[r] # None => d \notin graph[r].src
    BY DEF GoneInv, ForgottenInv
  <2>2. ASSUME NEW e \in Entities, graph[e] # None, d \in graph[e].src
        PROVE  \/ \E b \in broken \cup met : Written(b) \cap Written(d) # {}
               \/ \E t \in torn : t[2] \in Written(d)
    <3>1. e \in Written(d)
      BY <2>2 DEF BaseInv, SourceInv, Written
    <3>2. ~Clean(e)
      BY <2>1, <2>2 DEF MatchInv, BehindInv
    <3> QED
      BY <3>1, <3>2 DEF Clean
  <2> QED
    BY <2>1, <2>2 DEF Items
<1> QED
  BY <1>1, <1>2, <1>3, PTL DEF Spec
=============================================================================
