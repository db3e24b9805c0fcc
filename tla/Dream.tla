-------------------------------- MODULE Dream --------------------------------
(***************************************************************************)
(* The dream phase: an orchestrator call takes the namespace's lock, plans *)
(* maintenance operations, applies each in a Postgres transaction of its   *)
(* own together with the run's checkpoint, and mirrors it to the graph     *)
(* after the commit; dream_undo reverses one operation in both stores      *)
(* (dream/orchestrator.py, runstore.py, graph_mirror.py, api.py and        *)
(* engines/vectorcypher/).                                                 *)
(*                                                                         *)
(* An operation is named by what it is about: an edge to prune, an         *)
(* absorbed entity to merge away, a community to summarise, an audit.  Its *)
(* effect on a store is a set of legs.  Postgres and the graph are two     *)
(* stores (the Neo4j stack); all runs are of one namespace.  Operation     *)
(* numbers and the checkpoint count from 1, so that the code's -1 is 0.    *)
(* Self-loops a merge invalidates and timestamps are left out.             *)
(***************************************************************************)
EXTENDS Naturals, Sequences, FiniteSets

CONSTANTS
    Audits,       \* report-only operations
    Edges,        \* edges the pruner finds
    Merges,       \* absorbed entities the deduplicator finds
    Communities,  \* communities to summarise
    Order,        \* every operation, in the order the planner emits them
    Runs,         \* run ids
    Calls,        \* concurrent orchestrator calls
    RunCap,       \* DreamConfig.llm_max_tokens_per_run, 0 for none
    DayCap,       \* DreamConfig.llm_max_tokens_per_namespace_per_day, 0 for none
    MaxCalls,     \* bound: orchestrator calls
    MaxFaults,    \* bound: store calls that raise
    MaxCrashes,   \* bound: crashes of the process
    MaxCancels,   \* bound: cancel requests
    MaxUndos,     \* bound: dream_undo calls
    MaxDays,      \* bound: budget days that pass
    None          \* no call

Targets == Edges \cup Merges \cup Communities
Ops == Audits \cup Targets

ASSUME ConstantsAssumption ==
    /\ None \notin Calls \cup Runs
    /\ Audits \cap Targets = {} /\ Edges \cap (Merges \cup Communities) = {} /\ Merges \cap Communities = {}
    /\ Order \in Seq(Ops) /\ \A m, n \in DOMAIN Order : Order[m] = Order[n] => m = n
    /\ RunCap \in Nat /\ DayCap \in Nat
    /\ MaxCalls \in Nat /\ MaxFaults \in Nat /\ MaxCrashes \in Nat
    /\ MaxCancels \in Nat /\ MaxUndos \in Nat /\ MaxDays \in Nat

VARIABLES
    pg,        \* Postgres: the legs of each operation that are committed
    graph,     \* the graph: the legs that are mirrored
    row,       \* khora_dream_runs
    undoFile,  \* {run_id}.undo.json
    lock,      \* the namespace's advisory lock
    flag,      \* _CANCEL_FLAGS: the call whose flag a run id leads to
    call,      \* DreamOrchestrator.run
    undo,      \* dream_undo
    today,     \* the namespace's day bucket of LLM tokens
    count,     \* how often the bounded events happened
    undone     \* history: the operations dream_undo was called on

vars == <<pg, graph, row, undoFile, lock, flag, call, undo, today, count, undone>>
stores == <<pg, graph, row, undoFile>>

Legs == {"rewrite", "invalidate", "retire", "materialize"}

LegsOf(i) ==
    CASE i \in Edges       -> {"invalidate"}
      [] i \in Merges      -> {"rewrite", "retire"}
      [] i \in Communities -> {"materialize"}

Entry == [run : Runs, seq : 1 .. Len(Order), op : Targets, legs : SUBSET Legs]
UndoRecord == [op : Targets, legs : SUBSET Legs]
Row == [state : {"none", "planning", "applying", "completed", "failed"}, last : Nat,
        pending : SUBSET Entry]
\* Operations that a plan may list.
Plans == UNION {[1 .. n -> Ops] : n \in 0 .. Len(Order)}
CallPcs == {"idle", "lock", "init", "plan", "persist", "read", "list", "drain", "replay",
            "apply", "mirror", "queue", "clear", "record", "complete", "fail"}
Call == [pc : CallPcs, run : Runs \cup {None}, mode : {"dry-run", "apply"}, resume : BOOLEAN,
         plan : Plans, seq : Nat \ {0}, last : Nat, backlog : SUBSET Entry, entry : Entry \cup {None},
         todo : SUBSET Legs, records : SUBSET UndoRecord, cancelled : BOOLEAN, usage : Nat, spent : Nat]

IdleCall == [pc |-> "idle", run |-> None, mode |-> "dry-run", resume |-> FALSE, plan |-> <<>>,
             seq |-> 1, last |-> 0, backlog |-> {}, entry |-> None, todo |-> {}, records |-> {},
             cancelled |-> FALSE, usage |-> 0, spent |-> 0]
IdleUndo == [op |-> None, todo |-> {}]

\* A call to a store raises.
Fault == count.faults < MaxFaults /\ count' = [count EXCEPT !.faults = @ + 1]

Goto(c, pc) == call' = [call EXCEPT ![c].pc = pc]

\* The next verb of a mirror (apply_mirror_targets) or of its reversal (unmirror_targets).
MirrorOrder == <<"rewrite", "invalidate", "retire", "materialize">>
UnmirrorOrder == <<"retire", "rewrite", "invalidate">>
First(order, legs) == order[CHOOSE n \in DOMAIN order :
                              order[n] \in legs /\ \A k \in 1 .. n - 1 : order[k] \notin legs]

-----------------------------------------------------------------------------
(* Begin, lock, plan.                                                      *)

\* run: a fresh run id, or the one of a run that has a row (resume_from).
\* _register_cancel_flag overwrites the flag of another call of the same run.
Begin(c, r, mode) ==
    LET resume == row[r].state # "none"
    IN  /\ call[c].pc = "idle" /\ count.calls < MaxCalls
        /\ resume \/ \A d \in Calls : call[d].run # r
        /\ call' = [call EXCEPT ![c] = [IdleCall EXCEPT !.pc = "lock", !.run = r, !.mode = mode,
                                           !.resume = resume]]
        /\ flag' = [flag EXCEPT ![r] = c]
        /\ count' = [count EXCEPT !.calls = @ + 1]
        /\ UNCHANGED <<stores, lock, undo, today, undone>>

\* A faulty AcquireLock: a resumed run registers its row again.
AcquireLockAgain(c) ==
    /\ call[c].pc = "lock" /\ lock = None
    /\ lock' = c
    /\ Goto(c, "init")
    /\ UNCHANGED <<stores, flag, undo, today, count, undone>>

\* _lock and _init_run_row's early return: a resumed run has its row.
AcquireLock(c) ==
    /\ call[c].pc = "lock" /\ lock = None
    /\ lock' = c
    /\ Goto(c, IF call[c].resume THEN "plan" ELSE "init")
    /\ UNCHANGED <<stores, flag, undo, today, count, undone>>

\* Sixty seconds pass while another call holds the lock: DreamLockUnavailable.
LockTimeout(c) ==
    /\ call[c].pc = "lock" /\ lock # None
    /\ Goto(c, "fail")
    /\ UNCHANGED <<stores, lock, flag, undo, today, count, undone>>

NewRow == [state |-> "planning", last |-> 0, pending |-> {}]

\* record_run.
InitRow(c) ==
    /\ call[c].pc = "init"
    /\ row' = [row EXCEPT ![call[c].run] = NewRow]
    /\ Goto(c, "plan")
    /\ UNCHANGED <<pg, graph, undoFile, lock, flag, undo, today, count, undone>>

\* The pruner reads Postgres, and the deduplicator lists the entities of the graph, which
\* hides the retired ones.
EdgeFound(i) == "invalidate" \notin pg[i]
DuplicateFound(i) == "retire" \notin graph[i]

\* What plan_dream finds; audits and communities are planned every time.
Plannable(i) == (i \in Edges => EdgeFound(i)) /\ (i \in Merges => DuplicateFound(i))

\* i comes before j in the planner's order.
Before(i, j) == \E m, n \in DOMAIN Order : m < n /\ Order[m] = i /\ Order[n] = j

\* The plan of plan_dream lists what there is to do, in order.
IsPlan(plan) ==
    /\ {plan[n] : n \in DOMAIN plan} = {i \in {Order[n] : n \in DOMAIN Order} : Plannable(i)}
    /\ \A m, n \in DOMAIN plan : m < n => Before(plan[m], plan[n])

\* _plan_phase plans afresh, on a resumed run too.
PlanPhase(c) ==
    /\ call[c].pc = "plan"
    /\ \E plan \in Plans :
         IsPlan(plan) /\ call' = [call EXCEPT ![c].pc = "persist", ![c].plan = plan]
    /\ UNCHANGED <<stores, lock, flag, undo, today, count, undone>>

\* persist_plan (its hash is written and never read); a dry run reports its plan to the
\* sinks and has nothing to apply.
PersistPlan(c) ==
    /\ call[c].pc = "persist"
    /\ row' = [row EXCEPT ![call[c].run].state = IF @ = "planning" THEN "applying" ELSE @]
    /\ Goto(c, IF call[c].mode = "apply" THEN "read" ELSE "complete")
    /\ UNCHANGED <<pg, graph, undoFile, lock, flag, undo, today, count, undone>>

\* _read_last_committed.
ReadCheckpoint(c) ==
    /\ call[c].pc = "read"
    /\ call' = [call EXCEPT ![c].pc = "list", ![c].last = row[call[c].run].last]
    /\ UNCHANGED <<stores, lock, flag, undo, today, count, undone>>

-----------------------------------------------------------------------------
(* The reconciler's drain.                                                 *)

\* get_open_graph_mirror_pending, over every run of the namespace; a read that
\* raises is recorded as a degradation and leaves nothing to drain.
ListPending(c) ==
    /\ call[c].pc = "list"
    /\ \/ /\ call' = [call EXCEPT ![c].pc = "drain", ![c].backlog = UNION {row[r].pending : r \in Runs}]
          /\ UNCHANGED count
       \/ Fault /\ Goto(c, "drain")
    /\ UNCHANGED <<stores, lock, flag, undo, today, undone>>

\* Rows come in no order, the entries of one row by their number.
DrainEntry(c) ==
    /\ call[c].pc = "drain"
    /\ \E e \in call[c].backlog :
         /\ \A f \in call[c].backlog : f.run = e.run => f.seq >= e.seq
         /\ call' = [call EXCEPT ![c].pc = "replay", ![c].backlog = @ \ {e}, ![c].entry = e,
                                 ![c].todo = e.legs]
    /\ UNCHANGED <<stores, lock, flag, undo, today, count, undone>>

DrainDone(c) ==
    /\ call[c].pc = "drain" /\ call[c].backlog = {}
    /\ call' = [call EXCEPT ![c].pc = "apply", ![c].entry = None]
    /\ UNCHANGED <<stores, lock, flag, undo, today, count, undone>>

-----------------------------------------------------------------------------
(* The mirror: the verbs, from the operation just committed or a pending    *)
(* entry, and what follows them.                                            *)

\* One verb of apply_mirror_targets.
MirrorVerb(c) ==
    /\ call[c].pc \in {"replay", "mirror"} /\ call[c].todo # {}
    /\ LET leg == First(MirrorOrder, call[c].todo)
       IN  /\ graph' = [graph EXCEPT ![call[c].entry.op] = @ \cup {leg}]
           /\ call' = [call EXCEPT ![c].todo = @ \ {leg}]
    /\ UNCHANGED <<pg, row, undoFile, lock, flag, undo, today, count, undone>>

\* A verb raises: a drained entry stays queued, the operation is queued again.
MirrorFault(c) ==
    /\ call[c].pc \in {"replay", "mirror"} /\ call[c].todo # {}
    /\ Fault
    /\ call' = [call EXCEPT ![c].pc = IF @ = "replay" THEN "drain" ELSE "queue", ![c].todo = {}]
    /\ UNCHANGED <<stores, lock, flag, undo, today, undone>>

\* _merge_pending: an entry replaces the one with its number.
Queued(pending, e) == {f \in pending : f.seq # e.seq} \cup {e}

\* _queue_graph_mirror_pending.
QueueMirror(c) ==
    /\ call[c].pc = "queue"
    /\ row' = [row EXCEPT ![call[c].run].pending = Queued(@, call[c].entry)]
    /\ Goto(c, "record")
    /\ UNCHANGED <<pg, graph, undoFile, lock, flag, undo, today, count, undone>>

\* A faulty ClearMirror: the entry is struck off before its verbs have run.
ClearMirrorEarly(c) ==
    /\ call[c].pc \in {"replay", "mirror"}
    /\ LET e == call[c].entry
       IN  row' = [row EXCEPT ![e.run].pending = {f \in @ : f.seq # e.seq}]
    /\ Goto(c, IF call[c].pc = "replay" THEN "drain" ELSE "record")
    /\ UNCHANGED <<pg, graph, undoFile, lock, flag, undo, today, count, undone>>

\* clear_graph_mirror_pending, once every verb went through.
ClearMirror(c) ==
    /\ call[c].pc \in {"replay", "mirror"} /\ call[c].todo = {}
    /\ LET e == call[c].entry
       IN  row' = [row EXCEPT ![e.run].pending = {f \in @ : f.seq # e.seq}]
    /\ Goto(c, IF call[c].pc = "replay" THEN "drain" ELSE "record")
    /\ UNCHANGED <<pg, graph, undoFile, lock, flag, undo, today, count, undone>>

-----------------------------------------------------------------------------
(* The operation loop of _apply_phase.                                     *)

InLoop(c) == call[c].pc = "apply" /\ ~call[c].cancelled /\ call[c].seq <= Len(call[c].plan)
Op(c) == call[c].plan[call[c].seq]

Skipped(c) == call[c].seq <= call[c].last

SkipOp(c) ==
    /\ InLoop(c) /\ Skipped(c)
    /\ call' = [call EXCEPT ![c].seq = @ + 1]
    /\ UNCHANGED <<stores, lock, flag, undo, today, count, undone>>

\* No apply handler: the audit only moves the checkpoint.
AuditOp(c) ==
    /\ InLoop(c) /\ ~Skipped(c) /\ Op(c) \in Audits
    /\ row' = [row EXCEPT ![call[c].run].last = call[c].seq]
    /\ call' = [call EXCEPT ![c].seq = @ + 1]
    /\ UNCHANGED <<pg, graph, undoFile, lock, flag, undo, today, count, undone>>

\* A faulty Breach: operations that call no LLM are held to the budget too.
BreachAnyKind(c) ==
    \/ RunCap > 0 /\ call[c].spent >= RunCap
    \/ DayCap > 0 /\ today >= DayCap

\* _llm_budget_breach.
Breach(c) ==
    /\ Op(c) \in Communities
    /\ \/ RunCap > 0 /\ call[c].spent >= RunCap
       \/ DayCap > 0 /\ today >= DayCap

\* An operation over the budget is passed over, and the checkpoint is left alone.
BudgetSkip(c) ==
    /\ InLoop(c) /\ ~Skipped(c) /\ Breach(c)
    /\ call' = [call EXCEPT ![c].seq = @ + 1]
    /\ UNCHANGED <<stores, lock, flag, undo, today, count, undone>>

\* What each handler may write, and the LLM calls it makes.  A pruned edge and a live
\* community are no-ops, and a community may lack grounded claims; a merge may be put to
\* the judges and deferred, and is not aware that it was applied before.
PruneOutcomes(i) == {[legs |-> LegsOf(i) \ pg[i], usage |-> 0]}

SummaryOutcomes(i) ==
    IF pg[i] # {} THEN {[legs |-> {}, usage |-> 0]}
    ELSE {[legs |-> legs, usage |-> 1] : legs \in {{}, LegsOf(i)}}

MergeOutcomes(i) ==
    LET merged == {"retire"} \cup ({"rewrite"} \ pg[i])
    IN  {[legs |-> {}, usage |-> 1], [legs |-> merged, usage |-> 0], [legs |-> merged, usage |-> 1]}

\* get_apply_handler.
Outcomes(i) ==
    CASE i \in Edges       -> PruneOutcomes(i)
      [] i \in Communities -> SummaryOutcomes(i)
      [] i \in Merges      -> MergeOutcomes(i)

\* A faulty PreMarked: nothing is queued until the mirror has failed.
PreMarkedNever(legs) == FALSE

\* _pre_mark_graph_mirror_pending looks for soft-deletes only.
PreMarked(legs) == legs \cap {"retire", "invalidate"} # {}

\* _mirror_dream_op has nothing to mirror after a no-op.
NothingToMirror(legs) == legs = {}

\* The mirror payload of the operation in hand.
OpEntry(c, legs) == [run |-> call[c].run, seq |-> call[c].seq, op |-> Op(c), legs |-> legs]

\* The transaction of _apply_one_op: the handler's writes, the checkpoint and the pending
\* entry commit together.
CommitOp(c, out) ==
    LET e == OpEntry(c, out.legs)
    IN  /\ pg' = [pg EXCEPT ![e.op] = @ \cup e.legs]
        /\ row' = [row EXCEPT ![e.run].last = e.seq,
                              ![e.run].pending = IF PreMarked(e.legs) THEN Queued(@, e) ELSE @]
        /\ call' = [call EXCEPT ![c].pc = IF NothingToMirror(e.legs) THEN "record" ELSE "mirror",
                                ![c].entry = e, ![c].todo = e.legs, ![c].usage = out.usage,
                                ![c].records = @ \cup {[op |-> e.op, legs |-> e.legs]}]

ApplyOp(c) ==
    /\ InLoop(c) /\ ~Skipped(c) /\ Op(c) \in Targets /\ ~Breach(c)
    /\ \E out \in Outcomes(Op(c)) : CommitOp(c, out)
    /\ UNCHANGED <<graph, undoFile, lock, flag, undo, today, count, undone>>

\* _drain_llm_usage, then write_undo_incremental, which replaces the file by this
\* call's records and swallows an OSError.
RecordUndo(c) ==
    /\ call[c].pc = "record"
    /\ today' = today + call[c].usage
    /\ call' = [call EXCEPT ![c].pc = "apply", ![c].seq = @ + 1, ![c].entry = None,
                            ![c].spent = @ + call[c].usage, ![c].usage = 0]
    /\ \/ undoFile' = [undoFile EXCEPT ![call[c].run] = call[c].records] /\ UNCHANGED count
       \/ Fault /\ UNCHANGED undoFile
    /\ UNCHANGED <<pg, graph, row, lock, flag, undo, undone>>

LoopDone(c) ==
    /\ call[c].pc = "apply" /\ ~InLoop(c)
    /\ Goto(c, "complete")
    /\ UNCHANGED <<stores, lock, flag, undo, today, count, undone>>

-----------------------------------------------------------------------------
(* The end of a call, cancellation, undo, crash.                           *)

\* _finalize_run_row inside the lock, then _clear_cancel_flag.
Complete(c) ==
    /\ call[c].pc = "complete"
    /\ row' = [row EXCEPT ![call[c].run].state = "completed"]
    /\ lock' = None
    /\ flag' = [flag EXCEPT ![call[c].run] = None]
    /\ call' = [call EXCEPT ![c] = IdleCall]
    /\ UNCHANGED <<pg, graph, undoFile, undo, today, count, undone>>

\* A store call or a handler raises: the transaction is rolled back and the lock released.
Raise(c) ==
    /\ \/ call[c].pc \in {"init", "plan", "persist", "read", "queue", "complete"}
       \/ call[c].pc \in {"replay", "mirror"} /\ call[c].todo = {}
       \/ InLoop(c) /\ ~Skipped(c) /\ ~Breach(c)
    /\ Fault
    /\ lock' = None
    /\ Goto(c, "fail")
    /\ UNCHANGED <<stores, flag, undo, today, undone>>

\* _finalize_run_row outside the lock, which may raise as well and updates no row
\* when there is none.
Fail(c) ==
    /\ call[c].pc = "fail"
    /\ \/ /\ row' = [row EXCEPT ![call[c].run].state = IF @ = "none" THEN @ ELSE "failed"]
          /\ UNCHANGED count
       \/ Fault /\ UNCHANGED row
    /\ flag' = [flag EXCEPT ![call[c].run] = None]
    /\ call' = [call EXCEPT ![c] = IdleCall]
    /\ UNCHANGED <<pg, graph, undoFile, lock, undo, today, undone>>

\* request_cancel.
Cancel(r) ==
    /\ count.cancels < MaxCancels /\ flag[r] # None
    /\ call' = [call EXCEPT ![flag[r]].cancelled = TRUE]
    /\ count' = [count EXCEPT !.cancels = @ + 1]
    /\ UNCHANGED <<stores, lock, flag, undo, today, undone>>

\* A faulty Undo: dispatched whatever the operation's type.
UndoAny(r, u) ==
    /\ undo.op = None /\ count.undos < MaxUndos
    /\ u \in undoFile[r] /\ u.legs # {}
    /\ count' = [count EXCEPT !.undos = @ + 1]
    /\ pg' = [pg EXCEPT ![u.op] = @ \ u.legs]
    /\ undo' = IF "retire" \in pg[u.op] \/ "rewrite" \in u.legs
               THEN [op |-> u.op, todo |-> u.legs] ELSE undo
    /\ undone' = undone \cup {u.op}
    /\ UNCHANGED <<graph, row, undoFile, lock, flag, call, today>>

\* dream_undo finds the record in an undo file; only merges have a reverse handler, and one
\* the judges deferred has nothing to reverse.
Reversible(r, u) == u \in undoFile[r] /\ u.op \in Merges /\ u.legs # {}

\* dream_undo's transaction: the tombstone is cleared and every recorded edge pointed
\* back, without the namespace's lock.
Undo(r, u) ==
    /\ undo.op = None /\ count.undos < MaxUndos
    /\ Reversible(r, u)
    /\ count' = [count EXCEPT !.undos = @ + 1]
    /\ pg' = [pg EXCEPT ![u.op] = @ \ u.legs]
    /\ undo' = IF "retire" \in pg[u.op] \/ "rewrite" \in u.legs
               THEN [op |-> u.op, todo |-> u.legs] ELSE undo
    /\ undone' = undone \cup {u.op}
    /\ UNCHANGED <<graph, row, undoFile, lock, flag, call, today>>

\* One verb of unmirror_targets.
UnmirrorVerb ==
    /\ undo.op # None /\ undo.todo # {}
    /\ LET leg == First(UnmirrorOrder, undo.todo)
       IN  /\ graph' = [graph EXCEPT ![undo.op] = @ \ {leg}]
           /\ undo' = IF undo.todo = {leg} THEN IdleUndo ELSE [undo EXCEPT !.todo = @ \ {leg}]
    /\ UNCHANGED <<pg, row, undoFile, lock, flag, call, today, count, undone>>

\* A verb raises: the graph is left as it is.
UnmirrorFault ==
    /\ undo.op # None
    /\ Fault
    /\ undo' = IdleUndo
    /\ UNCHANGED <<stores, lock, flag, call, today, undone>>

\* The day bucket's window rolls over.
NewDay ==
    /\ count.days < MaxDays /\ today > 0
    /\ today' = 0
    /\ count' = [count EXCEPT !.days = @ + 1]
    /\ UNCHANGED <<stores, lock, flag, call, undo, undone>>

\* The process dies: its calls, the lock, the flags and the bucket go with it.
Crash ==
    /\ count.crashes < MaxCrashes
    /\ (\E c \in Calls : call[c].pc # "idle") \/ undo.op # None
    /\ count' = [count EXCEPT !.crashes = @ + 1]
    /\ call' = [c \in Calls |-> IdleCall]
    /\ lock' = None
    /\ flag' = [r \in Runs |-> None]
    /\ undo' = IdleUndo
    /\ today' = 0
    /\ UNCHANGED <<stores, undone>>

-----------------------------------------------------------------------------
Init ==
    /\ pg = [i \in Targets |-> {}]
    /\ graph = [i \in Targets |-> {}]
    /\ row = [r \in Runs |-> [NewRow EXCEPT !.state = "none"]]
    /\ undoFile = [r \in Runs |-> {}]
    /\ lock = None
    /\ flag = [r \in Runs |-> None]
    /\ call = [c \in Calls |-> IdleCall]
    /\ undo = IdleUndo
    /\ today = 0
    /\ count = [calls |-> 0, faults |-> 0, crashes |-> 0, cancels |-> 0, undos |-> 0, days |-> 0]
    /\ undone = {}

Step(c) ==
    \/ \E r \in Runs, mode \in {"dry-run", "apply"} : Begin(c, r, mode)
    \/ AcquireLock(c) \/ LockTimeout(c) \/ InitRow(c) \/ PlanPhase(c) \/ PersistPlan(c)
    \/ ReadCheckpoint(c) \/ ListPending(c) \/ DrainEntry(c) \/ DrainDone(c)
    \/ MirrorVerb(c) \/ MirrorFault(c) \/ QueueMirror(c) \/ ClearMirror(c)
    \/ SkipOp(c) \/ AuditOp(c) \/ BudgetSkip(c) \/ ApplyOp(c) \/ RecordUndo(c) \/ LoopDone(c)
    \/ Complete(c) \/ Raise(c) \/ Fail(c)

Next ==
    \/ \E c \in Calls : Step(c)
    \/ \E r \in Runs : Cancel(r) \/ \E u \in undoFile[r] : Undo(r, u)
    \/ UnmirrorVerb \/ UnmirrorFault \/ NewDay \/ Crash

Spec == Init /\ [][Next]_vars

-----------------------------------------------------------------------------
(* Properties.                                                             *)

\* Every variable has its type; in particular only merges are ever undone (dream_undo).
TypeOK ==
    /\ pg \in [Targets -> SUBSET Legs] /\ graph \in [Targets -> SUBSET Legs]
    /\ row \in [Runs -> Row]
    /\ undoFile \in [Runs -> SUBSET UndoRecord]
    /\ lock \in Calls \cup {None}
    /\ flag \in [Runs -> Calls \cup {None}]
    /\ call \in [Calls -> Call]
    /\ undo \in [op : Merges \cup {None}, todo : SUBSET Legs]
    /\ today \in Nat
    /\ undone \subseteq Merges

\* The graph lags Postgres only under a durable pending entry: whatever crashes, raises
\* or is resumed or cancelled, a pruned edge or a merge that is committed in Postgres and
\* not in the graph is listed, leg by leg, in the graph_mirror_pending of some run, so
\* that the next run's drain can heal it; and the graph is never ahead.  Communities are
\* not pre-marked, and dream_undo works past the queue: both are left out.
MirrorOwed ==
    \A i \in Edges \cup (Merges \ undone) :
      /\ graph[i] \subseteq pg[i]
      /\ \A leg \in pg[i] \ graph[i] :
           \E r \in Runs : \E e \in row[r].pending : e.op = i /\ leg \in e.legs

\* A run's checkpoint never moves back, over crashes and resumes, once the run has a row.
CheckpointAdvances == [][\A r \in Runs : row[r].last <= row'[r].last]_vars

\* The legs of an edge that some run's graph_mirror_pending lists.
OwedLegs == {p \in Edges \X Legs :
               \E r \in Runs : \E e \in row[r].pending : e.op = p[1] /\ p[2] \in e.legs}

Outbox == INSTANCE OwedMirror WITH
    Items <- Edges, Parts <- Legs, owed <- OwedLegs,
    primary <- [i \in Edges |-> pg[i]], replica <- [i \in Edges |-> graph[i]]

\* For edges, the checkpoint, the pending entries, the mirror and the reconciler implement
\* an outbox, step by step: Postgres never changes without the debt in the same commit,
\* the graph never changes but to pay one, and no crash, retry, resumed run or entry with
\* a reused number strikes a debt off before the graph holds it.
ImplementsOutbox == Outbox!Spec

\* What a call that is about to record "completed" has left of its plan.
Unapplied(c) ==
    {n \in 1 .. Len(call[c].plan) :
       call[c].plan[n] \in Edges /\ "invalidate" \notin pg[call[c].plan[n]]}

\* A run that completes uncancelled has pruned every edge it planned to prune, whatever
\* the budget passed over, other runs did and the mirror failed to do.
PlanApplied ==
    \A c \in Calls :
      call[c].pc = "complete" /\ call[c].mode = "apply" /\ ~call[c].cancelled /\ ~call[c].resume
        => Unapplied(c) = {}

\* The same of a resumed run, which the module docstring says continues after the last
\* committed operation (orchestrator.py, crash semantics).
ResumeApplies ==
    \A c \in Calls :
      call[c].pc = "complete" /\ call[c].mode = "apply" /\ ~call[c].cancelled => Unapplied(c) = {}
=============================================================================
