-------------------------- MODULE ReplaceMirrorProofs --------------------------
(***************************************************************************)
(* Proofs about ReplaceMirror, for any documents and entities: type        *)
(* correctness for any number of concurrent calls, and what the graph      *)
(* shows of a settled document when the calls run one after the other.     *)
(***************************************************************************)
EXTENDS ReplaceMirror, TLAPS

\* A call that writes to Postgres has its document, one that writes to the graph
\* its plan, and the plan a replace carries out is one of its own document.
CallInv(k) ==
    /\ k.pc \in {"commit", "mirror", "persist"} => k.doc \in Docs /\ k.plan \in Plan /\ k.plan.doc = k.doc
    /\ k.pc \in {"replay", "clear"} => k.plan \in Plan

\* The strengthening of TypeOK: it is needed because Verb, ClearMarker and Persist
\* use the call's plan and document without looking at them.
CallsInv == TypeOK /\ \A t \in Tasks : CallInv(task[t])

-----------------------------------------------------------------------------
(* The plan and the verbs.                                                 *)

\* The classification is a plan of the document it was made for.
LEMMA ClassifyType ==
    ASSUME NEW d \in Docs, NEW new \in SUBSET Entities
    PROVE  Classify(d, new) \in Plan /\ Classify(d, new).doc = d
  BY DEF Classify, Plan

\* Every graph verb, replayed or not, leaves well-formed nodes.
LEMMA ApplyType ==
    ASSUME node \in [Entities -> Node], NEW p \in Plan, NEW verb \in Verbs
    PROVE  Apply(verb, p) \in [Entities -> Node]
  <1>0. p.doc \in Docs /\ \A e \in Entities : node[e] \in Node /\ node[e].sources[p.doc] \in Nat
    BY DEF Plan, Node
  <1>1. Retired(p) \in [Entities -> Node]
    BY <1>0 DEF Retired, Node
  <1>2. Remapped(p) \in [Entities -> Node]
    BY <1>0 DEF Remapped, Node
  <1>3. Stripped(p) \in [Entities -> Node]
    BY <1>0 DEF Stripped, Node
  <1>4. Upserted(p) \in [Entities -> Node]
    <2> DEFINE more(e) == IF node[e].sources[p.doc] < MaxCopies THEN node[e].sources[p.doc] + 1
                          ELSE node[e].sources[p.doc]
    <2>1. ASSUME NEW e \in Entities
          PROVE  [node[e] EXCEPT !.exists = TRUE, !.sources[p.doc] = more(e)] \in Node
      <3>1. more(e) \in Nat
        BY <1>0
      <3> HIDE DEF more
      <3> QED
        BY <3>1, <1>0 DEF Node
    <2> QED
      BY <2>1 DEF Upserted
  <1> QED
    BY <1>1, <1>2, <1>3, <1>4 DEF Apply, Verbs

\* A call that moves on within its type leaves the other calls alone.
LEMMA CallUpdate ==
    ASSUME task \in [Tasks -> Task], \A u \in Tasks : CallInv(task[u]),
           NEW t \in Tasks, NEW k \in Task, CallInv(k),
           task' = [task EXCEPT ![t] = k]
    PROVE  task' \in [Tasks -> Task] /\ \A u \in Tasks : CallInv(task'[u])
  <1>1. task' \in [Tasks -> Task]
    OBVIOUS
  <1>2. \A u \in Tasks : task'[u] = IF u = t THEN k ELSE task[u]
    OBVIOUS
  <1> QED
    BY <1>1, <1>2

\* The resting call.
LEMMA IdleType == IdleTask \in Task /\ CallInv(IdleTask)
  BY DEF IdleTask, Task, TaskPcs, Verbs, CallInv

CountType == [replaces : 0..MaxReplaces, reconciles : 0..MaxReconciles,
              faults : 0..MaxFaults, crashes : 0..MaxCrashes]

\* A call to a store that raises stays within its bound.
LEMMA FaultType ==
    ASSUME count \in CountType, Fault
    PROVE  count' \in CountType
  BY ConstantsAssumption DEF CountType, Fault

-----------------------------------------------------------------------------
(* One step.                                                               *)

\* Every step of a call, and a crash, keep the stores and the calls well-formed.
LEMMA CallsStep == CallsInv /\ [Next]_vars => CallsInv'
  <1> SUFFICES ASSUME CallsInv, [Next]_vars PROVE CallsInv'
    OBVIOUS
  <1> USE ConstantsAssumption
  <1>0. /\ extraction \in [Docs -> SUBSET Entities]
        /\ marker \in [Docs -> Plan \cup {None}]
        /\ node \in [Entities -> Node]
        /\ task \in [Tasks -> Task]
        /\ \A t \in Tasks : CallInv(task[t])
        /\ count \in CountType
        /\ exposed \subseteq Docs
    BY DEF CallsInv, TypeOK, CountType
  <1> DEFINE TaskGoal == task' \in [Tasks -> Task] /\ \A t \in Tasks : CallInv(task'[t])
             Goal == /\ extraction' \in [Docs -> SUBSET Entities]
                     /\ marker' \in [Docs -> Plan \cup {None}]
                     /\ node' \in [Entities -> Node]
                     /\ TaskGoal
                     /\ count' \in CountType
                     /\ exposed' \subseteq Docs
  <1> SUFFICES Goal
    BY DEF CallsInv, TypeOK, CountType, CallInv
  <1>1. CASE UNCHANGED vars
    BY <1>0, <1>1 DEF vars
  <1>2. CASE Crash
    <2>1. count' \in CountType
      BY <1>0, <1>2 DEF Crash, CountType
    <2>2. TaskGoal
      BY <1>0, <1>2, IdleType DEF Crash
    <2>3. \A t \in Tasks : task[t].pc \in {"mirror", "persist"} => task[t].doc \in Docs
      BY <1>0 DEF CallInv
    <2>4. exposed' \subseteq Docs
      BY <1>0, <1>2, <2>3 DEF Crash
    <2> QED
      BY <1>0, <1>2, <2>1, <2>2, <2>4 DEF Crash
  <1>3. ASSUME NEW t \in Tasks, TaskStep(t) PROVE Goal
    <2>0. task[t] \in Task /\ CallInv(task[t])
      BY <1>0
    <2>1. ASSUME NEW d \in Docs, NEW new \in SUBSET Entities, BeginReplace(t, d, new) PROVE Goal
      <3> DEFINE k == [IdleTask EXCEPT !.pc = "list", !.doc = d, !.new = new]
      <3>1. k \in Task /\ CallInv(k)
        BY IdleType DEF IdleTask, Task, TaskPcs, CallInv
      <3>2. TaskGoal
        BY <1>0, <2>1, <3>1, CallUpdate DEF BeginReplace
      <3>3. count' \in CountType
        BY <1>0, <2>1 DEF BeginReplace, CountType
      <3> QED
        BY <1>0, <2>1, <3>2, <3>3 DEF BeginReplace
    <2>2. CASE BeginReconcile(t)
      <3> DEFINE k == [task[t] EXCEPT !.pc = "list"]
      <3>1. k \in Task /\ CallInv(k)
        BY <2>0 DEF Task, TaskPcs, CallInv
      <3>2. task' = [task EXCEPT ![t] = k]
        BY <2>2 DEF BeginReconcile
      <3>3. TaskGoal
        BY <1>0, <3>1, <3>2, CallUpdate
      <3>4. count' \in CountType
        BY <1>0, <2>2 DEF BeginReconcile, CountType
      <3> QED
        BY <1>0, <2>2, <3>3, <3>4 DEF BeginReconcile
    <2>3. CASE ListPending(t)
      <3> DEFINE pending == {marker[d] : d \in {x \in Docs : marker[x] # None}}
                 k == [task[t] EXCEPT !.pc = "drain", !.backlog = pending]
                 j == [task[t] EXCEPT !.pc = "drain"]
      <3>1. pending \in SUBSET Plan
        BY <1>0
      <3>2. k \in Task /\ CallInv(k) /\ j \in Task /\ CallInv(j)
        BY <2>0, <3>1 DEF Task, TaskPcs, CallInv
      <3>3. CASE task' = [task EXCEPT ![t] = k] /\ UNCHANGED count
        BY <1>0, <2>3, <3>2, <3>3, CallUpdate DEF ListPending
      <3>4. CASE task' = [task EXCEPT ![t] = j] /\ Fault
        BY <1>0, <2>3, <3>2, <3>4, CallUpdate, FaultType DEF ListPending
      <3> QED
        BY <2>3, <3>3, <3>4 DEF ListPending
    <2>4. CASE TakePayload(t)
      <3>1. PICK p \in task[t].backlog :
               task' = [task EXCEPT ![t].pc = "replay", ![t].plan = p, ![t].verb = "retire",
                                    ![t].backlog = @ \ {p}]
        BY <2>4 DEF TakePayload
      <3> DEFINE k == [task[t] EXCEPT !.pc = "replay", !.plan = p, !.verb = "retire", !.backlog = @ \ {p}]
      <3>2. p \in Plan
        BY <2>0 DEF Task
      <3>3. k \in Task /\ CallInv(k)
        BY <2>0, <3>2 DEF Task, TaskPcs, Verbs, CallInv
      <3>4. task' = [task EXCEPT ![t] = k]
        BY <3>1, <1>0
      <3> QED
        BY <1>0, <2>4, <3>3, <3>4, CallUpdate DEF TakePayload
    <2>5. CASE Prefetch(t)
      <3> DEFINE plan == Classify(task[t].doc, task[t].new)
                 k == [task[t] EXCEPT !.pc = "commit", !.plan = plan]
      <3>1. CASE task' = [task EXCEPT ![t] = IdleTask] /\ UNCHANGED count
        BY <1>0, <2>5, <3>1, IdleType, CallUpdate DEF Prefetch
      <3>2. CASE task' = [task EXCEPT ![t] = IdleTask] /\ Fault
        BY <1>0, <2>5, <3>2, IdleType, CallUpdate, FaultType DEF Prefetch
      <3>3. CASE /\ task[t].doc # None /\ UNCHANGED count
                 /\ task' = [task EXCEPT ![t].pc = "commit", ![t].plan = Classify(task[t].doc, task[t].new)]
        <4>1. task[t].doc \in Docs /\ task[t].new \in SUBSET Entities
          BY <2>0, <3>3 DEF Task
        <4>2. plan \in Plan /\ plan.doc = task[t].doc
          BY <4>1, ClassifyType
        <4>3. k \in Task /\ CallInv(k)
          <5> HIDE DEF plan
          <5> QED
            BY <2>0, <4>1, <4>2 DEF Task, TaskPcs, CallInv
        <4>4. task' = [task EXCEPT ![t] = k]
          BY <3>3, <1>0
        <4> HIDE DEF k
        <4> QED
          BY <1>0, <2>5, <3>3, <4>3, <4>4, CallUpdate DEF Prefetch
      <3> QED
        BY <2>5, <3>1, <3>2, <3>3 DEF Prefetch
    <2>6. CASE Commit(t)
      <3> DEFINE k == [task[t] EXCEPT !.pc = "mirror", !.verb = "retire"]
      <3>1. task[t].doc \in Docs /\ task[t].new \in SUBSET Entities
        BY <2>0, <2>6 DEF Commit, CallInv, Task
      <3>2. k \in Task /\ CallInv(k)
        BY <2>0, <2>6 DEF Commit, Task, TaskPcs, Verbs, CallInv
      <3>3. CASE /\ extraction' = [extraction EXCEPT ![task[t].doc] = task[t].new]
                 /\ marker' = [marker EXCEPT ![task[t].doc] = None]
                 /\ task' = [task EXCEPT ![t].pc = "mirror", ![t].verb = "retire"]
                 /\ UNCHANGED count
        <4>1. task' = [task EXCEPT ![t] = k]
          BY <3>3, <1>0
        <4>2. TaskGoal
          BY <1>0, <3>2, <4>1, CallUpdate
        <4> QED
          BY <1>0, <2>6, <3>1, <3>3, <4>2 DEF Commit
      <3>4. CASE Fault /\ task' = [task EXCEPT ![t] = IdleTask] /\ UNCHANGED <<extraction, marker>>
        BY <1>0, <2>6, <3>4, IdleType, CallUpdate, FaultType DEF Commit
      <3> QED
        BY <2>6, <3>3, <3>4 DEF Commit
    <2>7. CASE Verb(t)
      <3> DEFINE k == IF task[t].verb # "relate" THEN [task[t] EXCEPT !.verb = After[task[t].verb]]
                      ELSE IF task[t].pc = "replay" THEN [task[t] EXCEPT !.pc = "clear"]
                      ELSE IdleTask
      <3>1. task[t].plan \in Plan /\ task[t].verb \in Verbs
        BY <2>0, <2>7 DEF Verb, CallInv, Task
      <3>2. node' \in [Entities -> Node]
        BY <1>0, <2>7, <3>1, ApplyType DEF Verb
      <3>3. task[t].verb # "relate" => After[task[t].verb] \in Verbs
        BY <3>1 DEF After, Verbs
      <3>4. k \in Task /\ CallInv(k)
        BY <2>0, <2>7, <3>1, <3>3, IdleType DEF Verb, Task, TaskPcs, CallInv
      <3>5. task' = [task EXCEPT ![t] = k]
        <4>1. CASE task[t].verb # "relate"
          BY <1>0, <2>7, <4>1 DEF Verb
        <4>2. CASE task[t].verb = "relate"
          BY <1>0, <2>7, <4>2 DEF Verb
        <4> QED
          BY <4>1, <4>2
      <3> HIDE DEF k
      <3>6. TaskGoal
        BY <1>0, <3>4, <3>5, CallUpdate
      <3> QED
        BY <1>0, <2>7, <3>2, <3>6 DEF Verb
    <2>8. CASE VerbFault(t)
      <3> DEFINE k == [task[t] EXCEPT !.pc = IF @ = "replay" THEN "drain" ELSE "persist"]
      <3>1. k \in Task /\ CallInv(k)
        BY <2>0, <2>8 DEF VerbFault, Task, TaskPcs, CallInv
      <3>2. task' = [task EXCEPT ![t] = k]
        BY <1>0, <2>8 DEF VerbFault
      <3> HIDE DEF k
      <3> QED
        BY <1>0, <2>8, <3>1, <3>2, CallUpdate, FaultType DEF VerbFault
    <2>9. CASE ClearMarker(t)
      <3> DEFINE k == [task[t] EXCEPT !.pc = "drain"]
      <3>1. k \in Task /\ CallInv(k)
        BY <2>0 DEF Task, TaskPcs, CallInv
      <3>2. task' = [task EXCEPT ![t] = k]
        BY <1>0, <2>9 DEF ClearMarker
      <3>3. TaskGoal
        BY <1>0, <3>1, <3>2, CallUpdate
      <3>4. marker' \in [Docs -> Plan \cup {None}] /\ count' \in CountType
        BY <1>0, <2>9, FaultType DEF ClearMarker
      <3> QED
        BY <1>0, <2>9, <3>3, <3>4 DEF ClearMarker
    <2>10. CASE Persist(t)
      <3>1. task[t].doc \in Docs /\ task[t].plan \in Plan
        BY <2>0, <2>10 DEF Persist, CallInv
      <3>2. TaskGoal
        BY <1>0, <2>10, IdleType, CallUpdate DEF Persist
      <3>3. marker' \in [Docs -> Plan \cup {None}] /\ count' \in CountType /\ exposed' \subseteq Docs
        BY <1>0, <2>10, <3>1, FaultType DEF Persist
      <3> QED
        BY <1>0, <2>10, <3>2, <3>3 DEF Persist
    <2> QED
      BY <1>3, <2>1, <2>2, <2>3, <2>4, <2>5, <2>6, <2>7, <2>8, <2>9, <2>10 DEF TaskStep
  <1> QED
    BY <1>1, <1>2, <1>3 DEF Next

\* The program starts with resting calls and an empty queue.
LEMMA CallsStart == Init => CallsInv
  <1> SUFFICES ASSUME Init PROVE CallsInv
    OBVIOUS
  <1>1. \A t \in Tasks : task[t] = IdleTask
    BY DEF Init
  <1>2. task \in [Tasks -> Task] /\ \A t \in Tasks : CallInv(task[t])
    BY <1>1, IdleType DEF Init
  <1>3. node \in [Entities -> Node]
    BY DEF Init, Node
  <1> QED
    BY <1>2, <1>3, ConstantsAssumption DEF Init, CallsInv, TypeOK

\* The stores and the calls stay well-formed, whatever calls run concurrently, fail,
\* are replayed or die: no verb runs without a plan, and no marker is written for
\* a call without a document (replace_document_extraction, reconcile_replace_graph_mirror).
THEOREM TypeCorrect == Spec => []TypeOK
  <1>1. Init => CallsInv
    BY CallsStart
  <1>2. CallsInv /\ [Next]_vars => CallsInv'
    BY CallsStep
  <1>3. CallsInv => TypeOK
    BY DEF CallsInv
  <1> QED
    BY <1>1, <1>2, <1>3, PTL DEF Spec

-----------------------------------------------------------------------------
(* Replacements that run one after the other.  Each predicate below is one *)
(* of a graph g, a plan p and the content S of the plan's document.        *)

\* One call is under way at a time.
OneCaller == \E t : Tasks = {t}

Counts(g, e, d) == g[e].sources[d] > 0

\* The plan sorts what the content mentions and what the graph counts, and the verbs
\* may still be any number of steps from done.
Fits(p, S, g) ==
    /\ p.remap \cup p.fresh = S /\ p.retire \cap S = {} /\ p.strip \cap S = {}
    /\ \A e \in p.remap : Counts(g, e, p.doc)
    /\ \A e \in Entities : Counts(g, e, p.doc) => e \in p.remap \cup p.fresh \cup p.retire \cup p.strip

\* The verbs before the next one have been carried out.
Progress(p, verb, g) ==
    /\ verb # "retire" => \A e \in p.retire : g[e].retired
    /\ verb \in {"upsert", "relate"} => \A e \in p.strip : ~Counts(g, e, p.doc)
    /\ verb = "relate" => \A e \in p.fresh : Counts(g, e, p.doc)

\* The graph shows the content of document d.
Mirrored(d, S, g) ==
    /\ \A e \in S : Counts(g, e, d)
    /\ \A e \in Entities \ S : Counts(g, e, d) => g[e].retired

\* What a verb may do to the graph: it turns g into h.
Effect(p, verb, g, h) ==
    /\ \A e \in Entities : h[e].retired <=> g[e].retired \/ (verb = "retire" /\ e \in p.retire)
    /\ \A e \in Entities, d \in Docs : d # p.doc => (Counts(h, e, d) <=> Counts(g, e, d))
    /\ \A e \in Entities :
          Counts(h, e, p.doc) <=> \/ verb = "upsert" /\ e \in p.fresh
                                  \/ Counts(g, e, p.doc) /\ ~(verb = "strip" /\ e \in p.strip)

\* The call k with the markers m: what it drains is still queued, and the plan it
\* carries out fits.  x is the committed content.
RunOK(k, m, x, g) ==
    /\ k.pc = "idle" => k = IdleTask
    /\ k.pc \in {"idle", "list", "commit", "mirror", "persist"} => k.backlog = {}
    /\ \A p \in k.backlog : m[p.doc] = p
    /\ k.pc \in {"replay", "clear"} => m[k.plan.doc] = k.plan /\ k.plan \notin k.backlog
    /\ k.pc \in {"mirror", "persist"} => m[k.doc] = None /\ Fits(k.plan, x[k.doc], g)
    /\ k.pc \in {"replay", "mirror"} => Progress(k.plan, k.verb, g)
    /\ k.pc = "clear" => Mirrored(k.plan.doc, x[k.plan.doc], g)
    /\ k.pc = "commit" => Fits(k.plan, k.new, g)

\* The call k carries out, or has yet to queue or to clear, a plan of document d.
Active(k, d) == k.pc \in {"replay", "clear", "mirror", "persist"} /\ k.plan.doc = d

\* A queued plan fits, and a document with nothing outstanding is mirrored.
StoresOK(k, m, x, g, s) ==
    /\ \A d \in Docs : m[d] # None => m[d].doc = d /\ Fits(m[d], x[d], g)
    /\ \A d \in Docs : m[d] = None /\ d \notin s /\ ~Active(k, d) => Mirrored(d, x[d], g)

MirrorInv ==
    /\ CallsInv
    /\ \A t \in Tasks : /\ RunOK(task[t], marker, extraction, node)
                        /\ StoresOK(task[t], marker, extraction, node, exposed)

-----------------------------------------------------------------------------
(* Plans and verbs, in terms of these.                                     *)

\* A plan fits the graph it was made from.
LEMMA ClassifyFits ==
    ASSUME NEW d \in Docs, NEW new \in SUBSET Entities
    PROVE  Fits(Classify(d, new), new, node)
  <1> DEFINE p == Classify(d, new)
             old == {e \in Entities : node[e].sources[d] > 0}
  <1>1. /\ p.doc = d /\ p.remap = old \cap new /\ p.fresh = new \ old
        /\ p.retire = {e \in old \ new : SoleSource(e, d)} /\ p.strip = {e \in old \ new : ~SoleSource(e, d)}
    BY DEF Classify
  <1> HIDE DEF p
  <1>2. p.remap \cup p.fresh = new /\ p.retire \cap new = {} /\ p.strip \cap new = {}
    BY <1>1
  <1>3. p.retire \cup p.strip = old \ new
    BY <1>1
  <1>4. Fits(p, new, node)
    BY <1>1, <1>2, <1>3 DEF Fits, Counts
  <1> QED BY <1>4 DEF p

\* Every verb has the effect it should, however often it is carried out.
LEMMA VerbEffect ==
    ASSUME node \in [Entities -> Node], NEW p \in Plan, NEW verb \in Verbs, NEW h, h = Apply(verb, p)
    PROVE  Effect(p, verb, node, h)
  <1>0. p.doc \in Docs /\ MaxCopies \in Nat \ {0}
    BY ConstantsAssumption DEF Plan
  <1>1. \A e \in Entities : /\ node[e] \in Node /\ node[e].sources \in [Docs -> Nat]
                            /\ \A d \in Docs : node[e].sources[d] \in Nat
    BY DEF Node
  <1>2. CASE verb = "retire"
    <2>1. h = Retired(p)
      BY <1>2 DEF Apply
    <2>2. \A e \in Entities : /\ h[e].sources = node[e].sources
                              /\ h[e].retired <=> node[e].retired \/ e \in p.retire
      BY <1>1, <2>1 DEF Retired, Node
    <2> QED BY <1>2, <2>2 DEF Effect, Counts
  <1>3. CASE verb = "remap"
    <2>1. h = Remapped(p)
      BY <1>3 DEF Apply
    <2>2. ASSUME NEW e \in Entities
          PROVE  /\ h[e].retired <=> node[e].retired
                 /\ \A d \in Docs : h[e].sources[d] > 0 <=> node[e].sources[d] > 0
      <3>1. CASE e \in p.remap /\ node[e].sources[p.doc] > 0
        <4>1. h[e] = [node[e] EXCEPT !.sources[p.doc] = 1]
          BY <2>1, <3>1 DEF Remapped
        <4>2. h[e].retired = node[e].retired /\ h[e].sources = [node[e].sources EXCEPT ![p.doc] = 1]
          BY <1>1, <4>1 DEF Node
        <4> QED BY <1>0, <1>1, <3>1, <4>2
      <3>2. CASE ~(e \in p.remap /\ node[e].sources[p.doc] > 0)
        BY <2>1, <3>2 DEF Remapped
      <3> QED BY <3>1, <3>2
    <2> QED BY <1>0, <1>3, <2>2 DEF Effect, Counts
  <1>4. CASE verb = "strip"
    <2>1. h = Stripped(p)
      BY <1>4 DEF Apply
    <2>2. ASSUME NEW e \in Entities
          PROVE  /\ h[e].retired <=> node[e].retired
                 /\ \A d \in Docs : d # p.doc => h[e].sources[d] = node[e].sources[d]
                 /\ h[e].sources[p.doc] = IF e \in p.strip THEN 0 ELSE node[e].sources[p.doc]
      <3>1. CASE e \in p.strip
        <4>1. h[e] = [node[e] EXCEPT !.sources[p.doc] = 0]
          BY <2>1, <3>1 DEF Stripped
        <4>2. h[e].retired = node[e].retired /\ h[e].sources = [node[e].sources EXCEPT ![p.doc] = 0]
          BY <1>1, <4>1 DEF Node
        <4> QED BY <1>0, <1>1, <3>1, <4>2
      <3>2. CASE e \notin p.strip
        BY <2>1, <3>2 DEF Stripped
      <3> QED BY <3>1, <3>2
    <2>3. \A e \in Entities : h[e].sources[p.doc] > 0 <=> node[e].sources[p.doc] > 0 /\ e \notin p.strip
      BY <2>2
    <2> QED BY <1>0, <1>4, <2>2, <2>3 DEF Effect, Counts
  <1>5. CASE verb = "upsert"
    <2>1. h = Upserted(p)
      BY <1>5 DEF Apply
    <2>2. ASSUME NEW e \in Entities
          PROVE  /\ h[e].retired <=> node[e].retired
                 /\ \A d \in Docs : d # p.doc => h[e].sources[d] = node[e].sources[d]
                 /\ h[e].sources[p.doc] > 0 <=> e \in p.fresh \/ node[e].sources[p.doc] > 0
      <3>1. CASE e \in p.fresh
        <4> DEFINE n == IF node[e].sources[p.doc] < MaxCopies THEN node[e].sources[p.doc] + 1
                        ELSE node[e].sources[p.doc]
        <4>0. n > 0
          BY <1>0, <1>1
        <4>1. h[e] = [node[e] EXCEPT !.exists = TRUE, !.sources[p.doc] = n]
          BY <2>1, <3>1 DEF Upserted
        <4> HIDE DEF n
        <4>2. h[e].retired = node[e].retired /\ h[e].sources = [node[e].sources EXCEPT ![p.doc] = n]
          BY <1>1, <4>1 DEF Node
        <4> QED BY <1>0, <1>1, <3>1, <4>0, <4>2
      <3>2. CASE e \notin p.fresh
        BY <2>1, <3>2 DEF Upserted
      <3> QED BY <3>1, <3>2
    <2> QED BY <1>0, <1>5, <2>2 DEF Effect, Counts
  <1>6. CASE verb = "relate"
    <2>1. h = node
      BY <1>6 DEF Apply
    <2> QED BY <1>6, <2>1 DEF Effect
  <1> QED BY <1>2, <1>3, <1>4, <1>5, <1>6 DEF Verbs

\* A verb leaves its plan fitting and one step further, and after the last one the
\* document is mirrored.
LEMMA VerbAdvances ==
    ASSUME NEW p \in Plan, NEW verb \in Verbs, NEW g, NEW h, Effect(p, verb, g, h), NEW S \in SUBSET Entities,
           Fits(p, S, g), Progress(p, verb, g)
    PROVE  /\ Fits(p, S, h)
           /\ verb # "relate" => Progress(p, After[verb], h)
           /\ verb = "relate" => Mirrored(p.doc, S, h)
  <1>1. p.retire \subseteq Entities /\ p.strip \subseteq Entities /\ p.fresh \subseteq Entities /\ p.remap \subseteq Entities
    BY DEF Plan
  <1>2. Fits(p, S, h)
    <2>1. \A e \in p.remap : Counts(h, e, p.doc)
      BY <1>1 DEF Fits, Effect
    <2>2. \A e \in Entities : Counts(h, e, p.doc) => e \in p.remap \cup p.fresh \cup p.retire \cup p.strip
      BY DEF Fits, Effect
    <2> QED BY <2>1, <2>2 DEF Fits
  <1>3. ASSUME verb # "relate" PROVE Progress(p, After[verb], h)
    <2>1. CASE verb = "retire"
      <3>1. After[verb] = "remap"
        BY <2>1 DEF After
      <3> QED BY <1>1, <2>1, <3>1 DEF Progress, Effect
    <2>2. CASE verb = "remap"
      <3>1. After[verb] = "strip"
        BY <2>2 DEF After
      <3> QED BY <1>1, <2>2, <3>1 DEF Progress, Effect
    <2>3. CASE verb = "strip"
      <3>1. After[verb] = "upsert"
        BY <2>3 DEF After
      <3> QED BY <1>1, <2>3, <3>1 DEF Progress, Effect
    <2>4. CASE verb = "upsert"
      <3>1. After[verb] = "relate"
        BY <2>4 DEF After
      <3>2. p.strip \cap p.fresh = {}
        BY DEF Fits
      <3> QED BY <1>1, <2>4, <3>1, <3>2 DEF Progress, Effect
    <2> QED BY <1>3, <2>1, <2>2, <2>3, <2>4 DEF Verbs
  <1>4. ASSUME verb = "relate" PROVE Mirrored(p.doc, S, h)
    <2>1. \A e \in S : Counts(h, e, p.doc)
      BY <1>1, <1>4 DEF Fits, Progress, Effect
    <2>2. \A e \in Entities \ S : Counts(h, e, p.doc) => h[e].retired
      BY <1>1, <1>4 DEF Fits, Progress, Effect
    <2> QED BY <2>1, <2>2 DEF Mirrored
  <1> QED BY <1>2, <1>3, <1>4

\* A verb of one document leaves what the graph shows of the others.
LEMMA VerbSpares ==
    ASSUME NEW p, NEW verb, NEW g, NEW h, Effect(p, verb, g, h), NEW d \in Docs, d # p.doc,
           NEW S \in SUBSET Entities
    PROVE  /\ \A q \in Plan : q.doc = d /\ Fits(q, S, g) => Fits(q, S, h)
           /\ Mirrored(d, S, g) => Mirrored(d, S, h)
  <1>1. ASSUME NEW q \in Plan, q.doc = d, Fits(q, S, g) PROVE Fits(q, S, h)
    <2>1. q.remap \subseteq Entities
      BY DEF Plan
    <2> QED BY <1>1, <2>1 DEF Fits, Effect
  <1>2. Mirrored(d, S, g) => Mirrored(d, S, h)
    BY DEF Mirrored, Effect
  <1> QED BY <1>1, <1>2

-----------------------------------------------------------------------------
(* One step of the one call.                                               *)

\* Nothing is owed by a call that carries out no plan, or a queued one.
LEMMA Resting ==
    ASSUME NEW k, NEW q, NEW m, NEW x, NEW g, NEW s, StoresOK(k, m, x, g, s),
           k.pc \notin {"replay", "clear", "mirror", "persist"} \/ m[k.plan.doc] # None
    PROVE  StoresOK(q, m, x, g, s)
  <1>1. ASSUME NEW d \in Docs, m[d] = None PROVE ~Active(k, d)
    BY <1>1 DEF Active
  <1> QED BY <1>1 DEF StoresOK

\* A call between its plans.
LEMMA RestingRuns ==
    ASSUME NEW m, NEW x, NEW g
    PROVE  /\ RunOK(IdleTask, m, x, g) /\ IdleTask.pc = "idle" /\ IdleTask.backlog = {}
           /\ \A k : (k.pc \in {"list", "drain"} /\ k.backlog = {}) => RunOK(k, m, x, g)
  <1>1. IdleTask.pc = "idle" /\ IdleTask.backlog = {}
    BY DEF IdleTask
  <1> QED BY <1>1 DEF RunOK

\* A replace or a reconcile begins, and lists the queue.
LEMMA BeginMirrors ==
    ASSUME CallsInv, NEW t \in Tasks, NEW k \in Task, k = task[t], NEW q, q = task'[t],
           RunOK(k, marker, extraction, node), StoresOK(k, marker, extraction, node, exposed),
           \/ \E d \in Docs, new \in SUBSET Entities : BeginReplace(t, d, new)
           \/ BeginReconcile(t) \/ ListPending(t)
    PROVE  RunOK(q, marker', extraction', node') /\ StoresOK(q, marker', extraction', node', exposed')
  <1>1. /\ task \in [Tasks -> Task] /\ UNCHANGED <<marker, extraction, node, exposed>>
        /\ marker \in [Docs -> Plan \cup {None}]
    BY DEF CallsInv, TypeOK, BeginReplace, BeginReconcile, ListPending
  <1>2. k.pc \in {"idle", "list"} /\ k.backlog = {}
    BY DEF BeginReplace, BeginReconcile, ListPending, RunOK
  <1>3. StoresOK(q, marker, extraction, node, exposed)
    BY <1>2, Resting
  <1>4. RunOK(q, marker, extraction, node)
    <2>1. CASE \E d \in Docs, new \in SUBSET Entities : BeginReplace(t, d, new)
      <3>1. PICK d \in Docs, new \in SUBSET Entities : BeginReplace(t, d, new)
        BY <2>1
      <3>2. q = [IdleTask EXCEPT !.pc = "list", !.doc = d, !.new = new]
        BY <1>1, <3>1 DEF BeginReplace
      <3>3. q.pc = "list" /\ q.backlog = {}
        BY <3>2 DEF IdleTask
      <3> QED BY <3>3, RestingRuns
    <2>2. CASE BeginReconcile(t)
      <3>1. q = [k EXCEPT !.pc = "list"]
        BY <1>1, <2>2 DEF BeginReconcile
      <3>2. q.pc = "list" /\ q.backlog = {}
        BY <1>2, <3>1 DEF Task
      <3> QED BY <3>2, RestingRuns
    <2>3. CASE ListPending(t)
      <3> DEFINE pending == {marker[d] : d \in {y \in Docs : marker[y] # None}}
      <3>1. q = [k EXCEPT !.pc = "drain", !.backlog = pending] \/ q = [k EXCEPT !.pc = "drain"]
        BY <1>1, <2>3 DEF ListPending
      <3> HIDE DEF pending
      <3>2. q.pc = "drain" /\ (q.backlog = pending \/ q.backlog = {})
        BY <1>2, <3>1 DEF Task
      <3>3. \A p \in pending : marker[p.doc] = p
        BY DEF pending, StoresOK
      <3> QED BY <3>2, <3>3 DEF RunOK
    <2> QED BY <2>1, <2>2, <2>3
  <1> QED BY <1>1, <1>3, <1>4

\* The drain takes a payload, or the plan of the replace is made and committed.
LEMMA PlanMirrors ==
    ASSUME CallsInv, NEW t \in Tasks, NEW k \in Task, k = task[t], NEW q, q = task'[t],
           RunOK(k, marker, extraction, node), StoresOK(k, marker, extraction, node, exposed),
           TakePayload(t) \/ Prefetch(t) \/ Commit(t)
    PROVE  RunOK(q, marker', extraction', node') /\ StoresOK(q, marker', extraction', node', exposed')
  <1>1. /\ task \in [Tasks -> Task] /\ CallInv(k) /\ UNCHANGED <<node, exposed>>
        /\ marker \in [Docs -> Plan \cup {None}] /\ extraction \in [Docs -> SUBSET Entities]
    BY DEF CallsInv, TypeOK, TakePayload, Prefetch, Commit
  <1>2. k.pc \in {"drain", "commit"}
    BY DEF TakePayload, Prefetch, Commit
  <1>3. ASSUME UNCHANGED <<marker, extraction>> PROVE StoresOK(q, marker', extraction', node', exposed')
    BY <1>1, <1>2, <1>3, Resting
  <1>4. CASE TakePayload(t)
    <2>1. PICK p \in k.backlog :
             task' = [task EXCEPT ![t].pc = "replay", ![t].plan = p, ![t].verb = "retire", ![t].backlog = @ \ {p}]
      BY <1>4 DEF TakePayload
    <2> DEFINE rest == k.backlog \ {p}
    <2>2. q = [k EXCEPT !.pc = "replay", !.plan = p, !.verb = "retire", !.backlog = rest]
      BY <1>1, <2>1
    <2> HIDE DEF rest
    <2>3. q.pc = "replay" /\ q.plan = p /\ q.verb = "retire" /\ q.backlog = rest
      BY <2>2 DEF Task
    <2>4. RunOK(q, marker, extraction, node)
      BY <2>3 DEF RunOK, Progress, rest
    <2>5. UNCHANGED <<marker, extraction>>
      BY <1>4 DEF TakePayload
    <2> QED BY <1>1, <1>3, <2>4, <2>5
  <1>5. CASE Prefetch(t)
    <2>1. UNCHANGED <<marker, extraction>> /\ k.backlog = {}
      BY <1>5 DEF Prefetch
    <2>2. CASE task' = [task EXCEPT ![t] = IdleTask]
      <3>1. q = IdleTask
        BY <1>1, <2>2
      <3> QED BY <1>3, <2>1, <3>1, RestingRuns
    <2>3. CASE k.doc # None /\ task' = [task EXCEPT ![t].pc = "commit", ![t].plan = Classify(k.doc, k.new)]
      <3> DEFINE p == Classify(k.doc, k.new)
      <3>1. k.doc \in Docs /\ k.new \in SUBSET Entities
        BY <2>3 DEF Task
      <3>2. Fits(p, k.new, node)
        BY <3>1, ClassifyFits
      <3>3. q = [k EXCEPT !.pc = "commit", !.plan = p]
        BY <1>1, <2>3
      <3> HIDE DEF p
      <3>4. q.pc = "commit" /\ q.plan = p /\ q.new = k.new /\ q.backlog = {}
        BY <2>1, <3>3 DEF Task
      <3>5. RunOK(q, marker, extraction, node)
        BY <3>2, <3>4 DEF RunOK
      <3> QED BY <1>1, <1>3, <2>1, <3>5
    <2> QED BY <1>5, <2>2, <2>3 DEF Prefetch
  <1>6. CASE Commit(t)
    <2>1. CASE task' = [task EXCEPT ![t] = IdleTask] /\ UNCHANGED <<extraction, marker>>
      <3>1. q = IdleTask
        BY <1>1, <2>1
      <3> QED BY <1>3, <2>1, <3>1, RestingRuns
    <2>2. CASE /\ extraction' = [extraction EXCEPT ![k.doc] = k.new] /\ marker' = [marker EXCEPT ![k.doc] = None]
               /\ task' = [task EXCEPT ![t].pc = "mirror", ![t].verb = "retire"]
      <3>1. k.pc = "commit" /\ k.doc \in Docs /\ k.plan \in Plan /\ k.plan.doc = k.doc
        BY <1>1, <1>6 DEF Commit, CallInv
      <3>2. q = [k EXCEPT !.pc = "mirror", !.verb = "retire"]
        BY <1>1, <2>2
      <3>3. q.pc = "mirror" /\ q.verb = "retire" /\ q.plan = k.plan /\ q.doc = k.doc /\ q.backlog = k.backlog
        BY <3>2 DEF Task
      <3>4. /\ marker'[k.doc] = None /\ extraction'[k.doc] = k.new
            /\ \A d \in Docs : d # k.doc => marker'[d] = marker[d] /\ extraction'[d] = extraction[d]
        BY <1>1, <2>2, <3>1
      <3>5. k.backlog = {} /\ Fits(k.plan, k.new, node)
        BY <3>1 DEF RunOK
      <3>6. RunOK(q, marker', extraction', node')
        BY <1>1, <3>3, <3>4, <3>5 DEF RunOK, Progress
      <3>7. ASSUME NEW d \in Docs, marker'[d] # None
            PROVE  marker'[d].doc = d /\ Fits(marker'[d], extraction'[d], node')
        BY <1>1, <3>4, <3>7 DEF StoresOK
      <3>8. ASSUME NEW d \in Docs, marker'[d] = None, d \notin exposed', ~Active(q, d)
            PROVE  Mirrored(d, extraction'[d], node')
        <4>1. d # k.doc
          BY <3>1, <3>3, <3>8 DEF Active
        <4>2. ~Active(k, d)
          BY <3>1 DEF Active
        <4> QED BY <1>1, <3>4, <3>8, <4>1, <4>2 DEF StoresOK
      <3> QED BY <3>6, <3>7, <3>8 DEF StoresOK
    <2> QED BY <1>6, <2>1, <2>2 DEF Commit
  <1> QED BY <1>4, <1>5, <1>6

\* The plan that a verb is carried out for fits.
LEMMA RunningFits ==
    ASSUME CallsInv, NEW k \in Task, CallInv(k), k.pc \in {"replay", "mirror", "persist"},
           RunOK(k, marker, extraction, node), StoresOK(k, marker, extraction, node, exposed)
    PROVE  /\ k.plan \in Plan /\ k.plan.doc \in Docs /\ k.plan # None
           /\ extraction[k.plan.doc] \in SUBSET Entities /\ Fits(k.plan, extraction[k.plan.doc], node)
           /\ k.pc = "replay" => marker[k.plan.doc] = k.plan /\ k.plan \notin k.backlog
           /\ k.pc \in {"mirror", "persist"} => marker[k.plan.doc] = None /\ k.doc = k.plan.doc
  <1>1. k.plan \in Plan /\ k.plan.doc \in Docs /\ k.plan # None
    BY PlanAssumption DEF CallInv, Plan
  <1>2. extraction[k.plan.doc] \in SUBSET Entities
    BY <1>1 DEF CallsInv, TypeOK
  <1>3. CASE k.pc = "replay"
    <2>1. marker[k.plan.doc] = k.plan /\ k.plan \notin k.backlog
      BY <1>3 DEF RunOK
    <2> QED BY <1>1, <1>2, <1>3, <2>1 DEF StoresOK
  <1>4. CASE k.pc \in {"mirror", "persist"}
    BY <1>1, <1>2, <1>4 DEF RunOK, CallInv
  <1> QED BY <1>3, <1>4

\* A verb is carried out, of a replayed payload or of the replace's own plan.
LEMMA VerbMirrors ==
    ASSUME CallsInv, NEW t \in Tasks, NEW k \in Task, k = task[t], NEW q, q = task'[t],
           RunOK(k, marker, extraction, node), StoresOK(k, marker, extraction, node, exposed),
           Verb(t)
    PROVE  RunOK(q, marker', extraction', node') /\ StoresOK(q, marker', extraction', node', exposed')
  <1>1. /\ task \in [Tasks -> Task] /\ CallInv(k) /\ UNCHANGED <<marker, extraction>>
        /\ marker \in [Docs -> Plan \cup {None}] /\ extraction \in [Docs -> SUBSET Entities]
        /\ node \in [Entities -> Node] /\ k.pc \in {"replay", "mirror"} /\ k.verb \in Verbs
    BY DEF CallsInv, TypeOK, Verb, Task
  <1>2. PICK p \in Plan, verb \in Verbs, c \in Docs : p = k.plan /\ verb = k.verb /\ c = p.doc
    BY <1>1, RunningFits
  <1>3. /\ p # None /\ extraction[c] \in SUBSET Entities /\ Fits(p, extraction[c], node)
        /\ k.pc = "replay" => marker[c] = p /\ p \notin k.backlog
        /\ k.pc = "mirror" => marker[c] = None /\ k.doc = c
    BY <1>1, <1>2, RunningFits
  <1>4. PICK h : h = node'
    OBVIOUS
  <1>5. Effect(p, verb, node, h)
    BY <1>1, <1>2, <1>4, VerbEffect DEF Verb
  <1>6. Progress(p, verb, node)
    BY <1>1, <1>2 DEF RunOK
  <1>7. /\ Fits(p, extraction[c], h)
        /\ verb # "relate" => Progress(p, After[verb], h)
        /\ verb = "relate" => Mirrored(c, extraction[c], h)
    BY <1>2, <1>3, <1>5, <1>6, VerbAdvances
  <1>8. ASSUME NEW d \in Docs, d # c
        PROVE  /\ \A r \in Plan : r.doc = d /\ Fits(r, extraction[d], node) => Fits(r, extraction[d], h)
               /\ Mirrored(d, extraction[d], node) => Mirrored(d, extraction[d], h)
    BY <1>1, <1>2, <1>5, <1>8, VerbSpares
  <1>9. \A b \in k.backlog : marker[b.doc] = b
    BY DEF RunOK
  <1>10. CASE verb # "relate"
    <2> DEFINE v == After[verb]
    <2>1. q = [k EXCEPT !.verb = v] /\ exposed' = exposed
      BY <1>1, <1>2, <1>10 DEF Verb
    <2> HIDE DEF v
    <2>2. /\ q.pc = k.pc /\ q.verb = v /\ q.plan = p /\ q.doc = k.doc /\ q.backlog = k.backlog
      BY <1>2, <2>1 DEF Task
    <2>3. k.pc = "mirror" => k.backlog = {}
      BY DEF RunOK
    <2>4. RunOK(q, marker, extraction, h)
      BY <1>1, <1>2, <1>3, <1>7, <1>9, <1>10, <2>2, <2>3 DEF RunOK, v
    <2>5. \A d \in Docs : Active(q, d) <=> d = c
      BY <1>1, <1>2, <2>2 DEF Active
    <2>6. \A d \in Docs : Active(k, d) <=> d = c
      BY <1>1, <1>2 DEF Active
    <2>7. ASSUME NEW d \in Docs, marker[d] # None PROVE marker[d].doc = d /\ Fits(marker[d], extraction[d], h)
      BY <1>1, <1>3, <1>7, <1>8, <2>7 DEF StoresOK
    <2>8. ASSUME NEW d \in Docs, marker[d] = None, d \notin exposed, ~Active(q, d)
          PROVE  Mirrored(d, extraction[d], h)
      BY <1>8, <2>5, <2>6, <2>8 DEF StoresOK
    <2>9. StoresOK(q, marker, extraction, h, exposed)
      BY <2>7, <2>8 DEF StoresOK
    <2> QED BY <1>1, <1>4, <2>1, <2>4, <2>9
  <1>11. CASE verb = "relate"
    <2>1. Mirrored(c, extraction[c], h)
      BY <1>7, <1>11
    <2>2. ASSUME NEW d \in Docs, marker[d] # None PROVE marker[d].doc = d /\ Fits(marker[d], extraction[d], h)
      BY <1>1, <1>3, <1>7, <1>8, <2>2 DEF StoresOK
    <2>3. ASSUME NEW d \in Docs, marker[d] = None, d \notin exposed \/ d = c PROVE Mirrored(d, extraction[d], h)
      <3>1. CASE d = c
        BY <2>1, <3>1
      <3>2. CASE d # c
        <4>1. ~Active(k, d)
          BY <1>2, <3>2 DEF Active
        <4>2. Mirrored(d, extraction[d], node)
          BY <2>3, <3>2, <4>1 DEF StoresOK
        <4> QED BY <1>8, <3>2, <4>2
      <3> QED BY <3>1, <3>2
    <2>4. exposed' = exposed \/ exposed' = exposed \ {c}
      BY <1>1, <1>2, <1>3 DEF Verb
    <2>5. StoresOK(q, marker, extraction, h, exposed')
      BY <2>2, <2>3, <2>4 DEF StoresOK
    <2>6. RunOK(q, marker, extraction, h)
      <3>1. CASE k.pc = "replay"
        <4>1. q = [k EXCEPT !.pc = "clear"]
          BY <1>1, <1>2, <1>11, <3>1 DEF Verb
        <4>2. q.pc = "clear" /\ q.plan = p /\ q.backlog = k.backlog
          BY <1>2, <4>1 DEF Task
        <4> QED BY <1>2, <1>3, <1>9, <2>1, <3>1, <4>2 DEF RunOK
      <3>2. CASE k.pc = "mirror"
        <4>1. q = IdleTask
          BY <1>1, <1>2, <1>11, <3>2 DEF Verb
        <4> QED BY <4>1, RestingRuns
      <3> QED BY <1>1, <3>1, <3>2
    <2> QED BY <1>1, <1>4, <2>5, <2>6
  <1> QED BY <1>10, <1>11

\* A verb raises.
LEMMA FaultMirrors ==
    ASSUME CallsInv, NEW t \in Tasks, NEW k \in Task, k = task[t], NEW q, q = task'[t],
           RunOK(k, marker, extraction, node), StoresOK(k, marker, extraction, node, exposed),
           VerbFault(t)
    PROVE  RunOK(q, marker', extraction', node') /\ StoresOK(q, marker', extraction', node', exposed')
  <1>1. /\ task \in [Tasks -> Task] /\ CallInv(k) /\ UNCHANGED <<marker, extraction, node, exposed>>
        /\ k.pc \in {"replay", "mirror"}
    BY DEF CallsInv, TypeOK, VerbFault
  <1>2. /\ k.plan # None
        /\ k.pc = "replay" => marker[k.plan.doc] = k.plan
    BY <1>1, RunningFits
  <1>3. CASE k.pc = "replay"
    <2>1. q = [k EXCEPT !.pc = "drain"]
      BY <1>1, <1>3 DEF VerbFault
    <2>2. q.pc = "drain" /\ q.backlog = k.backlog
      BY <2>1 DEF Task
    <2>3. RunOK(q, marker, extraction, node)
      BY <2>2 DEF RunOK
    <2>4. StoresOK(q, marker, extraction, node, exposed)
      BY <1>2, <1>3, Resting
    <2> QED BY <1>1, <2>3, <2>4
  <1>4. CASE k.pc = "mirror"
    <2>1. q = [k EXCEPT !.pc = "persist"]
      BY <1>1, <1>4 DEF VerbFault
    <2>2. q.pc = "persist" /\ q.backlog = k.backlog /\ q.plan = k.plan /\ q.doc = k.doc
      BY <2>1 DEF Task
    <2>3. RunOK(q, marker, extraction, node)
      BY <1>4, <2>2 DEF RunOK
    <2>4. \A d \in Docs : Active(q, d) <=> Active(k, d)
      BY <1>4, <2>2 DEF Active
    <2>5. StoresOK(q, marker, extraction, node, exposed)
      BY <2>4 DEF StoresOK
    <2> QED BY <1>1, <2>3, <2>5
  <1> QED BY <1>1, <1>3, <1>4

\* A replayed payload leaves the queue, and a failed mirror's plan enters it.
LEMMA MarkerMirrors ==
    ASSUME CallsInv, NEW t \in Tasks, NEW k \in Task, k = task[t], NEW q, q = task'[t],
           RunOK(k, marker, extraction, node), StoresOK(k, marker, extraction, node, exposed),
           ClearMarker(t) \/ Persist(t)
    PROVE  RunOK(q, marker', extraction', node') /\ StoresOK(q, marker', extraction', node', exposed')
  <1>1. /\ task \in [Tasks -> Task] /\ CallInv(k) /\ UNCHANGED <<extraction, node>>
        /\ marker \in [Docs -> Plan \cup {None}]
    BY DEF CallsInv, TypeOK, ClearMarker, Persist
  <1>2. CASE ClearMarker(t)
    <2>1. k.pc = "clear" /\ k.plan \in Plan /\ k.plan # None /\ k.plan.doc \in Docs /\ exposed' = exposed
      BY <1>1, <1>2, PlanAssumption DEF ClearMarker, CallInv, Plan
    <2>2. PICK p \in Plan, c \in Docs : p = k.plan /\ c = p.doc
      BY <2>1
    <2>3. q = [k EXCEPT !.pc = "drain"]
      BY <1>1, <1>2 DEF ClearMarker
    <2>4. q.pc = "drain" /\ q.backlog = k.backlog
      BY <2>3 DEF Task
    <2>5. /\ marker[c] = p /\ p \notin k.backlog /\ Mirrored(c, extraction[c], node)
          /\ \A b \in k.backlog : marker[b.doc] = b
      BY <2>1, <2>2 DEF RunOK
    <2>6. CASE marker' = marker
      <3>1. RunOK(q, marker, extraction, node)
        BY <2>4, <2>5 DEF RunOK
      <3>2. StoresOK(q, marker, extraction, node, exposed)
        BY <2>1, <2>2, <2>5, Resting
      <3> QED BY <1>1, <2>1, <2>6, <3>1, <3>2
    <2>7. CASE marker' = [marker EXCEPT ![c] = None]
      <3>1. marker'[c] = None /\ \A d \in Docs : d # c => marker'[d] = marker[d]
        BY <1>1, <2>7
      <3>2. ASSUME NEW b \in k.backlog PROVE marker'[b.doc] = b
        <4>1. b \in Plan /\ b.doc \in Docs
          BY DEF Task, Plan
        <4>2. b.doc # c
          BY <2>5
        <4> QED BY <2>5, <3>1, <4>1, <4>2
      <3>3. RunOK(q, marker', extraction', node')
        BY <2>4, <3>2 DEF RunOK
      <3>4. ASSUME NEW d \in Docs, marker'[d] = None, d \notin exposed PROVE Mirrored(d, extraction[d], node)
        <4>1. CASE d = c
          BY <2>5, <4>1
        <4>2. CASE d # c
          <5>1. ~Active(k, d)
            BY <2>2, <4>2 DEF Active
          <5> QED BY <3>1, <3>4, <4>2, <5>1 DEF StoresOK
        <4> QED BY <4>1, <4>2
      <3>5. ASSUME NEW d \in Docs, marker'[d] # None
            PROVE  marker'[d].doc = d /\ Fits(marker'[d], extraction[d], node)
        BY <3>1, <3>5 DEF StoresOK
      <3>6. StoresOK(q, marker', extraction', node', exposed')
        BY <1>1, <2>1, <3>4, <3>5 DEF StoresOK
      <3> QED BY <3>3, <3>6
    <2> QED BY <1>2, <2>2, <2>6, <2>7 DEF ClearMarker
  <1>3. CASE Persist(t)
    <2>1. k.pc = "persist"
      BY <1>3 DEF Persist
    <2>2. PICK p \in Plan, c \in Docs : p = k.plan /\ c = p.doc
      BY <1>1, <2>1, RunningFits
    <2>3. p # None /\ Fits(p, extraction[c], node) /\ marker[c] = None /\ k.doc = c
      BY <1>1, <2>1, <2>2, RunningFits
    <2>4. q = IdleTask
      BY <1>1, <1>3 DEF Persist
    <2>5. RunOK(q, marker', extraction', node')
      BY <2>4, RestingRuns
    <2>6. \A d \in Docs : d # c => ~Active(k, d)
      BY <2>2 DEF Active
    <2>7. \/ marker' = [marker EXCEPT ![c] = p] /\ exposed' = exposed \ {c}
          \/ marker' = marker /\ exposed' = exposed \cup {c}
      BY <1>3, <2>2, <2>3 DEF Persist
    <2>8. \A d \in Docs : d # c => marker'[d] = marker[d] /\ (d \in exposed' <=> d \in exposed)
      BY <1>1, <2>7
    <2>9. (marker'[c] = p /\ p # None) \/ (marker'[c] = None /\ c \in exposed')
      BY <1>1, <2>3, <2>7
    <2>10. ASSUME NEW d \in Docs, marker'[d] # None
           PROVE  marker'[d].doc = d /\ Fits(marker'[d], extraction[d], node)
      <3>1. CASE d = c
        BY <2>2, <2>3, <2>9, <2>10, <3>1
      <3>2. CASE d # c
        BY <2>8, <2>10, <3>2 DEF StoresOK
      <3> QED BY <3>1, <3>2
    <2>11. ASSUME NEW d \in Docs, marker'[d] = None, d \notin exposed' PROVE Mirrored(d, extraction[d], node)
      <3>1. d # c
        BY <2>9, <2>11
      <3> QED BY <2>6, <2>8, <2>11, <3>1 DEF StoresOK
    <2>12. StoresOK(q, marker', extraction', node', exposed')
      BY <1>1, <2>10, <2>11 DEF StoresOK
    <2> QED BY <2>5, <2>12
  <1> QED BY <1>2, <1>3

\* Every step of the one call, and a crash, keep the invariant.
LEMMA MirrorStep ==
    ASSUME OneCaller
    PROVE  MirrorInv /\ [Next]_vars => MirrorInv'
  <1> SUFFICES ASSUME MirrorInv, [Next]_vars PROVE MirrorInv'
    OBVIOUS
  <1>0. CallsInv' /\ CallsInv
    BY CallsStep DEF MirrorInv
  <1>1. PICK t : Tasks = {t}
    BY DEF OneCaller
  <1>2. PICK k : k = task[t]
    OBVIOUS
  <1>3. PICK q : q = task'[t]
    OBVIOUS
  <1>4. k \in Task /\ t \in Tasks /\ CallInv(k)
    BY <1>0, <1>1, <1>2 DEF CallsInv, TypeOK
  <1>5. RunOK(k, marker, extraction, node) /\ StoresOK(k, marker, extraction, node, exposed)
    BY <1>1, <1>2 DEF MirrorInv
  <1>6. SUFFICES RunOK(q, marker', extraction', node') /\ StoresOK(q, marker', extraction', node', exposed')
    BY <1>0, <1>1, <1>3 DEF MirrorInv
  <1>7. CASE TaskStep(t)
    BY <1>0, <1>2, <1>3, <1>4, <1>5, <1>7, BeginMirrors, PlanMirrors, VerbMirrors, FaultMirrors, MarkerMirrors
       DEF TaskStep
  <1>8. CASE Crash
    <2>1. /\ q = IdleTask /\ UNCHANGED <<extraction, marker, node>>
          /\ exposed' = exposed \cup {task[u].doc : u \in {v \in Tasks : task[v].pc \in {"mirror", "persist"}}}
      BY <1>3, <1>4, <1>8 DEF Crash
    <2>2. RunOK(q, marker', extraction', node')
      BY <2>1, RestingRuns
    <2>3. ASSUME NEW d \in Docs, marker[d] = None, d \notin exposed' PROVE d \notin exposed /\ ~Active(k, d)
      <3>1. d \notin exposed
        BY <2>1, <2>3
      <3>2. ASSUME Active(k, d) PROVE FALSE
        <4>1. k.pc \in {"replay", "clear", "mirror", "persist"} /\ k.plan.doc = d /\ k.plan # None
          BY <1>4, <3>2, PlanAssumption DEF Active, CallInv
        <4>2. CASE k.pc \in {"replay", "clear"}
          BY <1>5, <2>3, <4>1, <4>2 DEF RunOK
        <4>3. CASE k.pc \in {"mirror", "persist"}
          <5>1. k.doc = d
            BY <1>4, <4>1, <4>3 DEF CallInv
          <5> QED BY <1>2, <1>4, <2>1, <2>3, <4>3, <5>1
        <4> QED BY <4>1, <4>2, <4>3
      <3> QED BY <3>1, <3>2
    <2>4. StoresOK(q, marker, extraction, node, exposed')
      BY <1>5, <2>3 DEF StoresOK
    <2> QED BY <2>1, <2>2, <2>4
  <1>9. CASE UNCHANGED vars
    <2>1. q = k /\ UNCHANGED <<marker, extraction, node, exposed>>
      BY <1>2, <1>3, <1>9 DEF vars
    <2> QED BY <1>5, <2>1
  <1> QED BY <1>1, <1>7, <1>8, <1>9 DEF Next

\* remember() wrote the graph and Postgres alike.
LEMMA MirrorStart == Init => MirrorInv
  <1> SUFFICES ASSUME Init PROVE MirrorInv
    OBVIOUS
  <1>1. CallsInv
    BY CallsStart
  <1>2. /\ \A t \in Tasks : task[t] = IdleTask
        /\ \A d \in Docs : marker[d] = None
        /\ \A e \in Entities, d \in Docs : node[e].sources[d] = IF e \in extraction[d] THEN 1 ELSE 0
    BY DEF Init
  <1>3. \A d \in Docs : extraction[d] \in SUBSET Entities
    BY DEF Init
  <1>4. \A d \in Docs : Mirrored(d, extraction[d], node)
    BY <1>2, <1>3 DEF Mirrored, Counts
  <1>5. \A k : StoresOK(k, marker, extraction, node, exposed)
    BY <1>2, <1>4 DEF StoresOK
  <1> QED BY <1>1, <1>2, <1>5, RestingRuns DEF MirrorInv

\* A document with nothing outstanding is mirrored.
LEMMA SettledMirrored ==
    ASSUME OneCaller, MirrorInv, NEW d \in Docs, Settled(d)
    PROVE  Mirrored(d, extraction[d], node)
  <1>1. PICK t : Tasks = {t}
    BY DEF OneCaller
  <1>2. PICK k : k = task[t]
    OBVIOUS
  <1>3. marker[d] = None /\ d \notin exposed /\ ~Active(k, d)
    BY <1>1, <1>2 DEF Settled, Active
  <1>4. StoresOK(k, marker, extraction, node, exposed)
    BY <1>1, <1>2 DEF MirrorInv
  <1> QED BY <1>3, <1>4 DEF StoresOK

\* When the calls on a namespace run one after the other, whichever verbs fail, are
\* replayed, or are cut short by a crash: every entity the committed content of a settled
\* document mentions counts the document among its sources.
THEOREM SerialCommitsAreMirrored ==
    ASSUME OneCaller
    PROVE  Spec => []CommittedMirrored
  <1>1. MirrorInv => CommittedMirrored
    BY SettledMirrored DEF CommittedMirrored, Mirrored, Counts
  <1>2. MirrorInv /\ [Next]_vars => MirrorInv'
    BY MirrorStep
  <1> QED BY <1>1, <1>2, MirrorStart, PTL DEF Spec

\* And an entity that counts a settled document without being mentioned by it is retired:
\* a replayed payload injects nothing stale.
THEOREM SerialDropsAreRetired ==
    ASSUME OneCaller
    PROVE  Spec => []DroppedRetired
  <1>1. MirrorInv => DroppedRetired
    BY SettledMirrored DEF DroppedRetired, Mirrored, Counts
  <1>2. MirrorInv /\ [Next]_vars => MirrorInv'
    BY MirrorStep
  <1> QED BY <1>1, <1>2, MirrorStart, PTL DEF Spec
=============================================================================
