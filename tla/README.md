# TLA+ models of Khora

Khora is a memory library for agents: documents are chunked, embedded and
extracted into a knowledge graph, and `recall()` answers queries from vector,
full-text and graph stores. This directory models the parts of it that keep
state across `await`s, processes and stores, model-checks them on small
instances with TLC, and proves theorems about them with TLAPS.

    tlc -config RecallCache.cfg MCRecallCache      # one run
    tlapm RecallCacheProofs.tla                    # the proofs of one module

`PROJECT.json` lists the components, the runs, the source lines every definition
stands for, the findings and the hazards.

## 1. The system

| Component | State | Operations | Hard part |
|---|---|---|---|
| Recall result cache (`engines/vectorcypher/recall_cache.py`) | bounded LRU store, bounded LRU map of namespace epochs | `get`, `set`, `bump_epoch`, `bump_all_epochs`, `current_epoch`, `clear` | a recall spans many awaits; writes bump the epoch under it; the epoch map evicts |
| Pending processor (`khora.py`) | queue, pool workers, batch registrations and handles, chunk semaphore, per-batch semaphores; document rows and chunks in Postgres | `submit_batch`, the worker loop, orphan recovery, `start_`/`stop_pending_processor`, `BatchHandle.wait` | several workers and submitters, cancellation, crash and recovery, results exactly once |
| Replace path (`storage/coordinator.py`, `storage/replace_mirror.py`) | document rows with `graph_mirror_pending`, source arrays on graph nodes | `replace_document_extraction`, `reconcile_replace_graph_mirror` | two stores without a common transaction, replay of queued plans, concurrent drains |
| VectorCypher engine (`engines/vectorcypher/engine.py`) | none of its own between calls | `remember`, `recall`, `forget`, `process_staged_document` | the order of store writes and cache invalidation |
| Forget cascade (`engines/_forget_cascade.py`) | none between calls; source arrays in pgvector and Neo4j | list, classify, delete orphans, strip survivors | list-then-delete against concurrent ingests and forgets, two stores, no transaction |
| Dream (`dream/`) | run rows with checkpoint and `graph_mirror_pending`, undo file, namespace lock, cancel flags, token budgets | run, resume, plan, apply, mirror, drain, cancel, undo | crash between commit, mirror, marker and undo file; resumed plans; undo without the lock |
| Hook dispatcher (`hooks/dispatcher.py`, `subscription_store.py`) | subscription lists, `khora_hook_subscriptions`, resolver cache, semaphore | subscribe, register, load, dispatch | lists change under a dispatch; a cache that a new namespace version makes stale; callbacks that dispatch |
| LLM filter (`hooks/llm_evaluator.py`) | queue of futures, timer, batch tasks, decision cache, hourly budgets | evaluate, flush, batch | size flush against timer flush, cancelled callers, replies that break off |
| Telemetry (`telemetry/collector.py`) | bounded buffer, flush loop, flush task | record, flush, re-enqueue, shutdown | three flushers, failed flush, cancellation of a flush |
| Facade (`khora.py`) | shared instance per configuration | `shared`, `connect`, `disconnect` | two event loops |

Calls go from the facade to an engine, from the engine to the storage
coordinator, and from the coordinator to the backends. The pending processor
calls back into the engine (`process_staged_document`). The cache sits inside
the engine; the facade reaches it for dream and undo. Ingestion and the dream
phase emit events into the dispatcher, whose filters await the evaluator, whose
LLM calls are recorded by the telemetry collector. All of it runs on asyncio:
a step between two awaits is atomic, everything else interleaves.

What is pure computation (chunking, prompts, fusion of rankings, filter
compilation, numeric kernels) has no such state and is left out; the list with
reasons is in `PROJECT.json`.

## 2. The modules

### RecallCache

`store` and `epochs`/`epochOrder` are the two `OrderedDict`s. A result is
abstracted to the version of the namespace's storage it was computed from, so
"stale" is a comparison of numbers. A recall runs through `StartRecall` (the
epoch is captured), `GetHit` or `GetMiss`, `Retrieve`, `SetResult` (refused when
the epoch moved) and `FinishRecall`. Writers differ in where they invalidate:
`remember`, replace and batch bump after their mutations; `forget` bumps and then
deletes the row; `process_staged_document` does not bump; `dream_undo` bumps
everything. `invalidated` and `acked` are history variables: what had been
mutated when the namespace was last invalidated, and the newest mutation of a
write that has returned. TTL expiry is a choice at the lookup; the key digest is
taken to be injective.

### PendingProcessor

`row` and `chunks` are the tables, `queue`, `worker`, `batch`, `gate` the
processor's memory, which a crash wipes and a stop mostly keeps. A content is
named by the batch that submitted it, so an overwrite by an older copy is
visible, and `chunks` counts copies of each window, so a duplicate is visible.
Staging is one action per document because each awaits a store; a lookup result
is a snapshot (`existing`) that the staging acts on later, as in the code.
A worker takes one action per await: load, per-batch permit, clearing of partial
state, tokens of the chunk semaphore, the window, the final update, the report.
`Fault` stands for a store call that raises wherever the code catches or
propagates one. `old` says that a row is past its grace period; a scan computes
its cutoffs once.

### ReplaceMirror

An extraction is the set of entity keys it mentions. `extraction` and `marker`
are the Postgres side, `node` the graph: `sources[d]` counts how often the array
`source_document_ids` holds `d`, because duplicates matter. A call drains the
pending payloads, plans (`Classify`), commits in Postgres and carries the plan
out verb by verb; between any two steps other calls run, a verb may raise, or the
process may die. A replay runs the same verbs from a queued plan. `exposed` is a
history variable: documents whose graph phase was cut short without being queued.
Relationships go through the same plan; the last verb ("relate") stands for
their write so that a failure after the entities' upsert happens. The PostgreSQL
and Neo4j backends are modelled. The drain takes payloads in any order, which
includes the code's (`updated_at`), and without its limit of 50.

### Dream and OwedMirror

An operation is named by what it is about: an audit, an edge to prune, an
absorbed entity to merge away, a community to summarise. Its effect on a store
is a set of legs (`rewrite`, `invalidate`, `retire`, `materialize`), so `pg[i]`
and `graph[i]` say how far each store is. `row` is `khora_dream_runs`: state,
checkpoint and `graph_mirror_pending`. A call runs from `Begin` (which resumes
when the run has a row) through lock, plan, `persist_plan`, the reconciler's
drain and the operation loop. `ApplyOp` is one transaction: the handler's
writes, the checkpoint and the pre-marked entry. Then the mirror runs verb by
verb, and the entry is cleared or queued again. `Raise` is a store call or a
handler that raises at any point where the code lets it through. `Undo` is the
transaction of `dream_undo`, which takes no lock; its graph half follows verb by
verb. `undone` is a history variable. Operation numbers count from 1.

OwedMirror is the abstract specification: an outbox. A commit to the primary
adds the debt in the same step, the replica changes only to pay a debt, and a
debt is struck off only when the replica holds its part. Dream implements it for
edges, with `owed` mapped to the legs that any run's pending entries list. For
merges the refinement does not hold step by step once `dream_undo` takes part,
and for communities it does not hold at all (they are not pre-marked);
`MirrorOwed` says what is left of it.

### HookSubscriptions and HookDispatcher

HookSubscriptions has the two lists, in-process and durable, the table, and the
load at connect. List objects have an identity because `dispatch` walks the
object it found: an append in place is seen by a running dispatch, a replacement
is not. A statement commits, or raises with or without effect. `raced`,
`degraded` and `loaded` record what the code admits to losing.

HookDispatcher extends it with `dispatch`. A call looks at one subscription
after the other; a scope check compares row ids through the resolver cache, with
an await for each lookup and the refresh of stale suspects. Deliveries and
callbacks enter the shared semaphore, and end, hang or dispatch from within; a
timeout or a cancellation ends everything nested in them. `create_namespace_version`
is two steps with a gap. `sure` and `missed` are history: a check that must match
because the event is of the active version and nothing stale is in flight.

### LLMFilterEvaluator, TelemetryCollector, FilterTelemetry

An event is its summary, which is what cache, coalescing and prompt see. A
caller is idle, waiting on its future, or answered; the queue, the timer and the
batch tasks are as in the code. A reply of the LLM gives each slot a decision,
nothing, or something unreadable, which raises half way through the bucket.
`said` records what the LLM decided.

In TelemetryCollector events are numbered; a flusher drains the buffer before
its first await and then commits, or raises (rolled back or in effect), and
re-queues in front. `cut` and `unsure` are history: events in a flush that
shutdown cancelled, and events of a commit whose answer was lost.

FilterTelemetry composes the two: a reply and the record of its call are one
step (`acompletion` records before the reply is read), a call that times out
records nothing, everything else interleaves.

### ForgetCascade

A row, node or edge is an id and the set of its sources. `vector` and `graph` are
the two stores; an ingest commits to the vector store, then by name to the graph,
then relates by id. A forget lists, classifies the snapshot, and sends the
statements of the cascade in order, each to one store; ids found in the vector
store are used in the graph, so a node whose id differs is missed, as in the
code. History: `torn` (a document wrote an item a cascade had listed as an
orphan), `crossed` (two cascades had it as a survivor), `met` (forgotten while
still being ingested), `broken` (a forget or ingest that did not end).

### Sublists

A list comprehension `[x for x in s if ...]` as a relation between the list and
its result (`Lists`, `InOrder`): what passes the filter, in the order of the list.
The evaluator uses it for the bucket of one filter (`NextBucket`) and the
subscriptions for a list without one of its members (`Without`). Stated so, it
needs no recursion, and theorems can be proved about the modules that use it.

### What they share

RecallCache, PendingProcessor, ReplaceMirror, Dream, the hook modules and
ForgetCascade share no variables. They meet at the document row (its status and
content in PendingProcessor, its extraction in ReplaceMirror, its existence in
ForgetCascade), at the graph nodes, at the epoch, which a replace bumps after it
returns (a "remember" writer of RecallCache), and at the filter's answer (the
choice in `Gate` of HookDispatcher is what FilterTelemetry computes).

## 3. Runs

| Run | Instance | Checks |
|---|---|---|
| `recall_cache` | 1 namespace, 2 queries, 2 recalls, a writer of every kind, store of 1 entry, 3 mutations | `TypeOK`, `NoStaleAfterBump` |
| `recall_cache_evict` (violation) | 2 namespaces, epoch map of 1 | `ReadYourWrites` |
| `pending` | 1 document, 2 batches, 2 workers, one each of stop, crash, forget, fault; rows new or archived | `TypeOK`, `BatchAccounting`, `SemaphoresExact` |
| `pending_live` | 2 documents, 1 batch, 2 workers, 1 stop, 1 fault, a window larger than the semaphore | `BatchAccounting`, `WaitReturnsUnlessDropped` |
| `replace` | 2 documents, 2 entities, 1 call at a time, 3 replaces, 1 reconcile, 2 faults, 1 crash | `TypeOK`, `CommittedMirrored`, `DroppedRetired` |
| `replace_drain` (violation) | 2 concurrent calls on different documents, 1 fault | `DroppedRetired` |
| `dream` | one audit, community, edge and merge; 2 runs, 2 calls at once, token caps of 1, 2 faults, one each of crash, cancel, undo, new day | `TypeOK`, `MirrorOwed`, `PlanApplied`, `CheckpointAdvances`, `ImplementsOutbox` |
| `dream_resume` (violation) | 2 edges, 1 run, 1 crash | `ResumeApplies` |
| `filter_telemetry` | 2 callers, 2 filters, 2 summaries, batches of 2, caps of 3 tokens; buffer of 1, 2 events, 1 failure; 1 upset | `TypeOK`, `OnlyDecisions`, `Accounted`, `AllAnswered`, `Settles` |
| `hooks` | 2 dispatches, a callback that dispatches and a durable subscription that hangs, 2 namespaces, 2 versions of one, 1 permit, 1 disturbance | `TypeOK`, `NoLeak`, `StaleHeals`, `DispatchReturns` |
| `hooks_durable` | 1 callback, 1 durable subscription, 2 connects, 2 disturbances | `TypeOK`, `DurableKept` |
| `forget` | 2 documents sharing 2 entities and a relationship, a third entity, 2 forgets at once, 3 calls, 1 fault or crash | `TypeOK`, `StillReferencedKept`, `ForgottenGone`, `NoneSourceless` |

Why the bounds are enough. A stale entry needs a recall that read before a
mutation, a bump, and a second recall: two recalls, two queries against a store
of one entry (so that eviction happens) and three mutations give every order of
these. In `pending`, one document under two batches is where staging, processing
and forgetting collide; two documents under one batch (`pending_live`) is where
results of several workers are counted. The window of 2 over a semaphore of 1
makes the clamp in `acquire` matter. In `replace`, two documents that may share
two entities give all four classes of the plan (retire, remap, strip, net-new);
three replaces let a plan that failed be superseded and the superseding one fail
too; two faults let a verb and its marker write, or a verb and its replay, fail.

In `dream`, two calls are a run and its resume, or two runs of which the second
drains what the first left; two faults let a mirror and its queueing, or the
mirror and the later drain, fail; one operation of each kind is enough because
operations touch disjoint data, and two edges (`dream_resume`) are needed only
where the numbering matters. In `filter_telemetry` two callers fill a batch or
leave it to the timer, share a slot, a filter or nothing, and every assignment is
an initial state; the caps of 3 refuse a second charge; a buffer of one makes the
re-enqueue overflow. In `hooks`, one permit makes the nested dispatch wait for
its own outer callback; a second version of one namespace is what makes the
resolver cache stale, and one disturbance is that version, a failing lookup, or a
cancellation. In `forget`, two documents with a common relationship give orphans
and survivors of every kind, and a third call repeats a forget that raised.

`CHECK_DEADLOCK FALSE` is set where the bounded events run out and the system is
at rest. RecallCache never rests.

Fairness. PendingProcessor: weak fairness of each worker's next step, which the
asyncio loop provides to a runnable task; weak fairness of recovery, a step of
the same kind; and of `Start`, which says that the operator starts the processor
again after a stop (the documented use: it can "be restarted by calling
start_pending_processor() again"). Nothing is assumed of submitters, and stops,
crashes, forgets and faults are never forced. FilterTelemetry: weak fairness of
the evaluator's timer, of the batch tasks (an LLM call returns or meets the
deadline `acompletion` puts on it), of the flush loop, the flush task, the last
flush of shutdown, and of each flusher's transaction, which ends one way or the
other. Callers, shutdown and upsets are never forced. HookDispatcher: weak
fairness of the steps of dispatches taken together; a callback that hangs ends by
`asyncio.wait_for`, which the code puts around each one. The other modules state
no fairness and claim no liveness.

Every property of a passing run has a mutant: a faulty form of one definition
(named as such beside the definition it stands for) under which TLC finds the
property violated.

## 4. What the runs show

Holding: a recall that starts after an invalidation never gets a result from
before it, through concurrent fills, evictions and expiry. Every document of a
batch is reported exactly once and `wait()` returns, unless a stop dropped a
document in a worker's hands; tokens and permits are never lost. With one replace
at a time, a settled document is a source of exactly the entities its committed
content mentions, and of retired ones, whichever verbs failed, were replayed, or
were cut short by a crash and healed by the next replace.

The dream phase: what Postgres has and the graph lacks, for pruned edges and for
merges nobody undid, is listed in a pending entry, whatever crashes, raises, is
cancelled or resumed; for edges this is a step-by-step refinement of an outbox; a
checkpoint never moves back; a run that completes, and was neither resumed nor
cancelled, has pruned every edge it planned. The LLM filter: every caller is
answered; only what the LLM decided is refused or cached. Telemetry: an event is
in one place, stored once, or counted as dropped, and settles. Hooks: no event
crosses a namespace through the resolver cache, the cache heals, every dispatch
returns although a callback may dispatch with the last permit. Durable
subscriptions are in memory and in the table, or in neither. Forget: what another
document mentions stays in both stores; a forgotten document is gone from the
vector store, and from the graph when nothing it shares was disturbed; no entity
is left without sources.

Several of these are stated with exceptions, and each exception is a behaviour of
the code that TLC reaches without it:

- `WaitReturnsUnlessDropped`: a stop that takes a document out of a worker's
  hands leaves `wait()` blocked for ever.
- `MirrorOwed`: communities are not pre-marked, so a crash before their mirror
  loses it; `dream_undo` leaves the pending entry in place, and a later drain
  retires the restored entity again in the graph.
- `Accounted`: shutdown cancels the flush loop inside its transaction and the
  drained events are neither re-queued nor counted (`cut`); a commit whose answer
  is lost is written again (`unsure`).
- `DurableKept`: a load replaces what was registered or removed while it read
  (`raced`).
- `StaleHeals`: a lookup from before a new version may still be written to the
  cache after it.
- `StillReferencedKept`: an ingest that mentions an entity after a cascade listed
  it as an orphan loses it (`torn`).
- `ForgottenGone`: after a graph statement raises, a repeated forget finds nothing
  in the vector store and leaves the graph as it is (`broken`).
- `NoneSourceless`: two forgets that each see the other's document strip an
  entity to no sources (`crossed`).

Further behaviour the models have and no run states: orphan recovery does not
clear the windows a crashed attempt stored; of two overlapping `submit_batch`
calls for one external id the older content may be written last; replaying a
payload whose upsert had succeeded repeats the document in the source array; a
resumed dream run overwrites the undo file with its own records; a call that
times out on the lock marks the run it wanted to resume as failed while that run
goes on; after a restart, ingest events reach durable subscriptions only once a
callback is subscribed.

Not holding, against what the repository says (`findings` quotes the lines):

- `recall_cache_evict`: a namespace evicted from the epoch map restarts at epoch
  0 and entries of its old epoch 0 become current; the comment rules that out.
- `replace_drain`: a drain replays a payload it listed before a newer replace
  cleared it, so entities of the superseded extraction are live again.
- `dream_resume`: a resumed run plans afresh but skips by the old plan's numbers,
  and completes with operations of its plan unapplied.

## 5. Theorems

Every invariant and every action property of the passing runs is proved: the run
shows it on a small instance, the theorem for every value of the constants that
satisfies the module's named assumptions. These say that caps and bounds are
numbers, that kinds of names are disjoint and `None` is none of them, that
documents, workers and subscriptions are finitely many, and that the pieces of an
instance fit together (`Order` lists no operation twice, a relationship's ends
are entities). TLC evaluates them on every run. The bounds on crashes, faults and
calls are arbitrary numbers in the theorems, so they limit nothing.

Three theorems have a hypothesis beyond these: `StaleFree` and the two serial
theorems of ReplaceMirror. The runs `recall_cache_evict` and `replace_drain` show
what goes wrong without it.

Hardly any property is inductive; below is what each proof adds to it.

`RecallCacheProofs`

- `TypeCorrect`: `Spec => []TypeOK`, with both `OrderedDict`s within their caps.
- `StaleFree`: `Spec => []NoStaleAfterBump`, assuming that the epoch map's cap
  covers the (finitely many) namespaces. `recall_cache_evict` is why the
  assumption is there.

`NoStaleAfterBump` speaks of finished recalls. `EpochInv` adds: keys of the epoch
map are distinct (so that a map under its cap never evicts); an entry keyed with
the current epoch is no older than the last invalidation, and one keyed with an
epoch some recall still holds is no older than the invalidation that recall saw;
a recall whose epoch is current has seen the last invalidation. The middle part
is what `SetResult` needs (an entry filed under the captured epoch is fresh for
everyone who holds it) and `GetHit` uses it. `BumpNoEviction` turns the cap
assumption into "no epoch ever falls".

`ReplaceMirrorProofs`

- `TypeCorrect`: any number of concurrent calls. `CallsInv` adds what a call
  carries at each point (a document and a plan of that document from the prefetch
  on, a plan while a payload is replayed), without which `Verb`, `ClearMarker` and
  `Persist` would act on nothing.
- `SerialCommitsAreMirrored` and `SerialDropsAreRetired`: `CommittedMirrored` and
  `DroppedRetired` when one call is under way at a time (`OneCaller`).

`MirrorInv` says of a plan that it `Fits` its document's committed content and
the graph: it keeps or adds exactly what the content mentions, and whatever else
counts the document is in its retire or strip class. A queued plan always fits,
a plan being carried out fits and the verbs before the next one have had their
effect (`Progress`), what a drain has listed is still queued, and a document with
nothing queued, exposed or under way is mirrored. `VerbEffect` states what a verb
does, so that carrying one out again cannot undo an earlier one: replaying a plan
from the start is harmless as long as the plan fits. The hypothesis enters where a
listed payload must still be queued; in `replace_drain` another call has cleared
it by then.

`PendingProcessorProofs`

- `TypeCorrect`, `SemaphoresStayExact`, `BatchesBalance`: `TypeOK`,
  `SemaphoresExact` and `BatchAccounting`.

`ItemsInv`: an item of a batch is queued once at most and held by one worker at
most. `AccountOK`: queued, held and dropped items of a batch are disjoint, together
they are as many as `_remaining`, and the done event is set exactly at zero. Each
action moves one item from one place to the next, or reports it, and the count
follows (`stop` and the crash move many at once). `WorkerOK` says what a worker
holds at each point of its loop. `GateInv` counts the tokens as the windows being
stored times the clamped size of a window, so that the tokens given back are those
that were taken, and `PermitsInv` bounds a batch's workers. Finite documents and
workers are needed for the cardinalities, and for the list a submission enqueues.

`DreamProofs`

- `TypeCorrect`; `MirrorIsOwed`: `MirrorOwed`; `CheckpointNeverBack`: the action
  property `CheckpointAdvances`; `FreshPlanApplied`: `PlanApplied`.
- `OutboxRefinement`: `Spec => ImplementsOutbox`, the refinement of OwedMirror:
  each step of each action is a commit with its debt, a payment, the striking off
  of paid debts, or changes nothing the outbox sees.

`RowsInv`: the call that holds the lock is the only one past it (`LockInv`), a row
is made once, and a call that plans has its row. `MirrorInv`: an entry's number is
its identity within its run and not ahead of the checkpoint (`PendingInv`); what a
drain has read is still pending, the entry of the operation just applied is in the
row, and the verbs that are not left to do went through (`OwnInv`); the graph is
never ahead of PostgreSQL; what it lacks is listed (`OwedInv`). The second is what
lets an entry be cleared: its legs are in the graph, or its operation was undone.
`FreshPlanApplied` adds how far a call has come with its plan (`ProgressInv`).

`ForgetCascadeProofs`

- `CascadeTypes`, `NoSourcelessEntity`, `StillReferenced`, `ForgottenIsGone`:
  `TypeOK`, `NoneSourceless`, `StillReferencedKept`, `ForgottenGone`.

`BaseInv` is common: what a call holds by its stage, that a source of an item is a
document that wrote it, that no edge outlives its ends. `SourcesInv`: a row some
cascade has as a survivor keeps a source beside that cascade's document, unless
two cascades crossed. `KeepInv`: what a document has written so far is there; an
item on a list of orphans is torn for each live document that wrote it.
`GoneInv`: a cascade has on its lists every row and edge that names its document.
The graph's nodes are found by the ids of the rows, so `MatchInv` has to say that
for undisturbed items row and node have one id (also in the hands of an ingest
between the two stores) and that a node is behind its row only where a cascade is
about to catch up.

`FilterTelemetryProofs`

- `TypeCorrect`; `EventsAccounted`: `Accounted`; `RefusedByDecision`:
  `OnlyDecisions`.

`ApartInv`: buffer and flushers hold disjoint lists without repetitions;
`LedgerInv`: an event that shutdown did not cut and whose commit is not in doubt is
in memory, stored once, or dropped. For the evaluator, every bucket is of one
filter (`BucketInv`), so that a reply's decisions are filed under the filter that
asked.

`HookDispatcherProofs`

- `TypeCorrect`; `DurableIsKept`: `DurableKept`; `ScopeNeverLeaks`: `NoLeak`;
  `StaleCacheHeals`: `StaleHeals`.

`KeptInv` relates table, memory and a load under way to what the owner of a
subscription asked for. `CallOK` says what a call carries between two awaits, and
`CacheOK` that a cached row belongs to the namespace it was asked for; `NoLeak`
follows. `SureInv` is for healing: a check that began on the active version and was
not disturbed can only suspect the scope, and no lookup under way anywhere holds
another row for it. The number of permits taken is bounded by the semaphore.

Only model-checked: the liveness properties `WaitReturnsUnlessDropped`,
`AllAnswered`, `Settles` and `DispatchReturns`, because liveness under fairness is
outside the prover's reach. Nothing is claimed about `CommittedMirrored` and
`DroppedRetired` with concurrent calls (the second is then false).

## 6. Plan

1. *Done:* the modules of section 2 with their runs; the theorems of section 5,
   which cover all their safety properties.
2. Model: a cap on source arrays in ForgetCascade, so that a document that falls
   off the array is seen; a read-your-invalidations cache as the abstract
   specification of RecallCache, and the step simulation.
3. Prove: under which condition on two calls (the same document never twice) the
   replace path keeps `CommittedMirrored` although a drain races; a refinement of
   an exactly-once delivery for the collector.

## 7. Not modelled

Two hosts on one database (orphan claims use `FOR UPDATE SKIP LOCKED`); backends
other than PostgreSQL and Neo4j, and with them the embedded and AGE paths of
dream; `forget_session`, a loop of forgets; the shared-instance accessor, which
runs on several threads; the Chronicle and Skeleton engines; ingestion and
extraction, retrieval and ranking, filter compilation, integrations,
configuration and migrations. Most of the repository's lines are of these last
kinds: they compute on text, vectors and scores, hold no state between calls, and
have nothing a model checker would explore. The models cover the parts that keep
state.

`PROJECT.json` gives the reason for each.
