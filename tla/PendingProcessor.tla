-------------------------- MODULE PendingProcessor --------------------------
(***************************************************************************)
(* submit_batch() and the unified pending processor of the Khora facade    *)
(* (khora.py), with the document rows they share and the staged processing *)
(* of the VectorCypher engine (process_staged_document).                   *)
(*                                                                         *)
(* A document is named by its external id.  Its content is named by the    *)
(* batch that submitted it, so a row says whose content it holds, and the  *)
(* chunk store counts the copies of every window of every content.         *)
(***************************************************************************)
EXTENDS Integers, Sequences, FiniteSets

CONSTANTS
    Docs,               \* external ids
    Batches,            \* submit_batch() calls
    Workers,            \* pending_processor_max_concurrent pool workers
    Windows,            \* windows a document's chunks are split into
    WindowSize,         \* chunks per window (max_chunks_in_flight of the call)
    Capacity,           \* capacity of the global chunk semaphore
    MaxConcurrent,      \* permits of a batch's own semaphore
    ReprocessArchived,  \* submit_batch(reprocess_archived=...)
    InitialStatuses,    \* statuses a row may start with
    MaxStops,           \* bound: stop_pending_processor() or disconnect() calls
    MaxCrashes,         \* bound: crashes of the process
    MaxForgets,         \* bound: forget() calls
    MaxFaults,          \* bound: calls to a store that raise
    MaxCopies,          \* bound: copies of a window that are told apart
    None                \* no batch, no content

Statuses == {"absent", "pending", "processing", "completed", "failed", "archived"}

ASSUME ConstantsAssumption ==
    /\ None \notin Batches /\ IsFiniteSet(Docs) /\ IsFiniteSet(Workers)
    /\ Windows \in Nat \ {0} /\ WindowSize \in Nat \ {0} /\ Capacity \in Nat \ {0}
    /\ MaxConcurrent \in Nat \ {0}
    /\ ReprocessArchived \in BOOLEAN
    /\ InitialStatuses \subseteq Statuses
    /\ MaxStops \in Nat /\ MaxCrashes \in Nat /\ MaxForgets \in Nat /\ MaxFaults \in Nat
    /\ MaxCopies \in Nat \ {0}

VARIABLES
    row,        \* documents table: status, content, and whether the row is past its grace period
    chunks,     \* chunk store: copies of each window of each content of a document
    queue,      \* _processor_queue
    processor,  \* _processor_task: stopped, recovering (phase 1) or running (phase 2)
    worker,     \* the pool workers of phase 2
    batch,      \* submit_batch calls, their BatchHandle and _BatchRegistration
    gate,       \* _chunk_semaphore: whether it exists, and its _in_flight tokens
    count,      \* how often the bounded events happened
    lost        \* history: batch items that a cancelled worker was holding

vars == <<row, chunks, queue, processor, worker, batch, gate, count, lost>>

Contents == Batches \cup {None}
Item == [doc : Docs, batch : Batches \cup {None}]
Row == [status : Statuses, content : Contents, old : BOOLEAN]

WorkerPcs == {"idle", "load", "permit", "clear", "acquire", "store", "commit", "fail", "fire",
              "fault"}
Worker == [pc : WorkerPcs, doc : Docs \cup {None}, batch : Batches \cup {None},
           content : Contents, window : Nat, gated : BOOLEAN, ok : BOOLEAN]

BatchPcs == {"new", "staging", "submitted", "raised", "dead"}
Batch == [pc : BatchPcs,
          todo : SUBSET Docs,             \* documents not yet staged
          existing : [Docs -> Statuses],  \* existing_by_ext_id, the snapshot of the lookup
          pending : SUBSET Docs,          \* pending_docs
          preFailed : SUBSET Docs,        \* pre_failed_doc_ids
          errors : Nat, skipped : Nat,    \* pre_failed_docs, pre_completed_docs
          total : Nat, completed : Nat, failed : Nat, remaining : Int,
          done : BOOLEAN]

Absent == [status |-> "absent", content |-> None, old |-> FALSE]
IdleWorker == [pc |-> "idle", doc |-> None, batch |-> None, content |-> None,
               window |-> 0, gated |-> FALSE, ok |-> FALSE]
NewBatch == [pc |-> "new", todo |-> {}, existing |-> [d \in Docs |-> "absent"],
             pending |-> {}, preFailed |-> {}, errors |-> 0, skipped |-> 0,
             total |-> 0, completed |-> 0, failed |-> 0, remaining |-> 0, done |-> FALSE]
NoChunks == [c \in Contents |-> [n \in 1..Windows |-> 0]]

-----------------------------------------------------------------------------
(* BatchHandle, _BatchRegistration and the semaphores.                     *)

\* A faulty fire_result: the done event waits for one result too many.
FireResultLate(b, success) ==
    [b EXCEPT !.completed = @ + 1,
              !.failed = IF success THEN @ ELSE @ + 1,
              !.remaining = @ - 1,
              !.done = @ \/ b.remaining - 1 < 0]

\* fire_result: count the result, and set the done event when none remains.
FireResult(b, success) ==
    [b EXCEPT !.completed = @ + 1,
              !.failed = IF success THEN @ ELSE @ + 1,
              !.remaining = @ - 1,
              !.done = @ \/ b.remaining - 1 <= 0]

\* Deliver a worker's result to the batch of its item; an orphan has none.
Deliver(w, success) ==
    batch' = IF worker[w].batch = None THEN batch
             ELSE [batch EXCEPT ![worker[w].batch] = FireResult(@, success)]

\* A faulty acquire: a window larger than the capacity is not clamped to it.
TokensUnclamped == WindowSize

\* The tokens a window takes: acquire() clamps them to the capacity.
Tokens == IF WindowSize < Capacity THEN WindowSize ELSE Capacity

\* Workers inside "async with concurrency_sem" of batch b.
HoldsPermit(w) == worker[w].pc \in {"clear", "acquire", "store", "commit", "fail", "fire"}
Permits(b) == {w \in Workers : worker[w].batch = b /\ HoldsPermit(w)}

\* update_document writes every mutable column of the row it finds, the loaded
\* content included; on a row that is gone it changes nothing.
UpdateDocument(d, status, content) ==
    [row EXCEPT ![d] = IF @.status = "absent" THEN @
                       ELSE [status |-> status, content |-> content, old |-> FALSE]]

-----------------------------------------------------------------------------
(* submit_batch: look the documents up, stage each, register and enqueue.  *)

\* A call to a store raises.
Fault == count.faults < MaxFaults /\ count' = [count EXCEPT !.faults = @ + 1]

\* get_documents_by_external_ids; when it raises, every document is treated as new.
SubmitLookup(b) ==
    \E docs \in SUBSET Docs \ {{}} :
        /\ batch[b].pc = "new"
        /\ \/ /\ batch' = [batch EXCEPT ![b].pc = "staging", ![b].todo = docs,
                              ![b].existing = [d \in Docs |-> IF d \in docs THEN row[d].status ELSE "absent"]]
              /\ UNCHANGED count
           \/ /\ Fault
              /\ batch' = [batch EXCEPT ![b].pc = "staging", ![b].todo = docs]
        /\ UNCHANGED <<row, chunks, queue, processor, worker, gate, lost>>

\* Reported as skipped: done, held by a worker, or archived and left so.
Skippable == {"completed", "processing"} \cup (IF ReprocessArchived THEN {} ELSE {"archived"})

StageSkip(b, d) ==
    /\ batch[b].pc = "staging" /\ d \in batch[b].todo
    /\ batch[b].existing[d] \in Skippable
    /\ batch' = [batch EXCEPT ![b].todo = @ \ {d}, ![b].skipped = @ + 1]
    /\ UNCHANGED <<row, chunks, queue, processor, worker, gate, count, lost>>

\* create_document: the row is PENDING before submit_batch returns.
StageNew(b, d) ==
    /\ batch[b].pc = "staging" /\ d \in batch[b].todo
    /\ batch[b].existing[d] = "absent"
    /\ row[d].status = "absent"
    /\ row' = [row EXCEPT ![d] = [status |-> "pending", content |-> b, old |-> FALSE]]
    /\ batch' = [batch EXCEPT ![b].todo = @ \ {d}, ![b].pending = @ \cup {d}]
    /\ UNCHANGED <<chunks, queue, processor, worker, gate, count, lost>>

\* An existing row is reset to PENDING with the new content, from the snapshot.
StageExisting(b, d) ==
    /\ batch[b].pc = "staging" /\ d \in batch[b].todo
    /\ batch[b].existing[d] \notin Skippable \cup {"absent"}
    /\ row' = UpdateDocument(d, "pending", b)
    /\ batch' = [batch EXCEPT ![b].todo = @ \ {d}, ![b].pending = @ \cup {d},
                    ![b].preFailed = IF batch[b].existing[d] \in {"failed", "archived"}
                                     THEN @ \cup {d} ELSE @]
    /\ UNCHANGED <<chunks, queue, processor, worker, gate, count, lost>>

\* create_document meets a row created since the lookup (the external id is
\* unique), or the store raises: the document is in pre_failed_docs.
StageError(b, d) ==
    /\ batch[b].pc = "staging" /\ d \in batch[b].todo
    /\ batch[b].existing[d] \notin Skippable
    /\ \/ batch[b].existing[d] = "absent" /\ row[d].status # "absent" /\ UNCHANGED count
       \/ Fault
    /\ batch' = [batch EXCEPT ![b].todo = @ \ {d}, ![b].errors = @ + 1]
    /\ UNCHANGED <<row, chunks, queue, processor, worker, gate, lost>>

\* The orders in which a set of documents can be listed.
Listings(S) == {f \in [1..Cardinality(S) -> S] : \A i, j \in 1..Cardinality(S) : f[i] = f[j] => i = j}

\* Register the batch, fire the results already known, and enqueue the pending
\* documents.  The first call with max_chunks_in_flight creates the chunk semaphore.
\* The lists of the staging phase go out of scope.
SubmitFinish(b) ==
    LET known == batch[b].errors + batch[b].skipped
        left  == Cardinality(batch[b].pending)
    IN  /\ batch[b].pc = "staging" /\ batch[b].todo = {}
        /\ left = 0 \/ processor # "stopped"
        /\ batch' = [batch EXCEPT ![b] =
                        [NewBatch EXCEPT !.pc = "submitted", !.preFailed = batch[b].preFailed,
                           !.total = known + left, !.completed = known, !.failed = batch[b].errors,
                           !.remaining = left, !.done = left = 0]]
        /\ \E f \in Listings(batch[b].pending) :
              queue' = queue \o [i \in 1..left |-> [doc |-> f[i], batch |-> b]]
        /\ gate' = [gate EXCEPT !.exists = TRUE]
        /\ UNCHANGED <<row, chunks, processor, worker, count, lost>>

\* With documents to process and no processor running, submit_batch raises: the
\* rows stay PENDING and no handle is returned.
SubmitRaises(b) ==
    /\ batch[b].pc = "staging" /\ batch[b].todo = {} /\ batch[b].pending # {}
    /\ processor = "stopped"
    /\ batch' = [batch EXCEPT ![b] = [NewBatch EXCEPT !.pc = "raised"]]
    /\ gate' = [gate EXCEPT !.exists = TRUE]
    /\ UNCHANGED <<row, chunks, queue, processor, worker, count, lost>>

-----------------------------------------------------------------------------
(* The pool workers.                                                       *)

Dequeue(w) ==
    /\ processor = "running" /\ worker[w].pc = "idle" /\ queue # <<>>
    /\ worker' = [worker EXCEPT ![w] = [IdleWorker EXCEPT !.pc = "load",
                     !.doc = Head(queue).doc, !.batch = Head(queue).batch]]
    /\ queue' = Tail(queue)
    /\ UNCHANGED <<row, chunks, processor, batch, gate, count, lost>>

\* get_document returns the row; its status is not looked at again.
Load(w) ==
    LET d == worker[w].doc
    IN  /\ worker[w].pc = "load"
        /\ row[d].status # "absent"
        /\ worker' = [worker EXCEPT ![w].content = row[d].content,
                         ![w].pc = IF worker[w].batch = None THEN "clear" ELSE "permit"]
        /\ UNCHANGED <<row, chunks, queue, processor, batch, gate, count, lost>>

\* A faulty LoadNothing: a document whose row is gone, or whose load raises, ends
\* without a result.
LoadNothingSilent(w) ==
    /\ worker[w].pc = "load"
    /\ (row[worker[w].doc].status = "absent" /\ UNCHANGED count) \/ Fault
    /\ worker' = [worker EXCEPT ![w] = IdleWorker]
    /\ UNCHANGED <<row, chunks, queue, processor, batch, gate, lost>>

\* The row is gone, or the load raises: one result, and the item is finished.
LoadNothing(w) ==
    /\ worker[w].pc = "load"
    /\ \/ row[worker[w].doc].status = "absent" /\ Deliver(w, TRUE) /\ UNCHANGED count
       \/ Fault /\ Deliver(w, FALSE)
    /\ worker' = [worker EXCEPT ![w] = IdleWorker]
    /\ UNCHANGED <<row, chunks, queue, processor, gate, lost>>

\* async with concurrency_sem.
TakePermit(w) ==
    /\ worker[w].pc = "permit"
    /\ Cardinality(Permits(worker[w].batch)) < MaxConcurrent
    /\ worker' = [worker EXCEPT ![w].pc = "clear"]
    /\ UNCHANGED <<row, chunks, queue, processor, batch, gate, count, lost>>

\* H1: the chunks of a document this batch found FAILED or ARCHIVED are deleted
\* (best effort); then process_staged_document starts, with the semaphore as it is.
ClearState(w) ==
    LET d == worker[w].doc
        clears == worker[w].batch # None /\ d \in batch[worker[w].batch].preFailed
    IN  /\ worker[w].pc = "clear"
        /\ \/ clears /\ chunks' = [chunks EXCEPT ![d] = NoChunks] /\ UNCHANGED count
           \/ clears /\ Fault /\ UNCHANGED chunks
           \/ ~clears /\ UNCHANGED <<chunks, count>>
        /\ worker' = [worker EXCEPT ![w].pc = "acquire", ![w].window = 1, ![w].gated = gate.exists]
        /\ UNCHANGED <<row, queue, processor, batch, gate, lost>>

\* A fault before the inner try leaves the per-batch semaphore; an orphan is only
\* logged, and its row stays PROCESSING.
ClearFault(w) ==
    /\ worker[w].pc = "clear"
    /\ Fault
    /\ worker' = [worker EXCEPT ![w] = IF worker[w].batch = None THEN IdleWorker
                                       ELSE [@ EXCEPT !.pc = "fault"]]
    /\ UNCHANGED <<row, chunks, queue, processor, batch, gate, lost>>

\* The worker's own handler: mark_failed and update_document (best effort), and
\* exactly one failure result.
HandleFault(w) ==
    /\ worker[w].pc = "fault"
    /\ \/ row' = UpdateDocument(worker[w].doc, "failed", worker[w].content) /\ UNCHANGED count
       \/ Fault /\ UNCHANGED row
    /\ Deliver(w, FALSE)
    /\ worker' = [worker EXCEPT ![w] = IdleWorker]
    /\ UNCHANGED <<chunks, queue, processor, gate, lost>>

\* Take the window's tokens of the global chunk semaphore.
AcquireWindow(w) ==
    /\ worker[w].pc = "acquire"
    /\ worker[w].gated => gate.inFlight + Tokens <= Capacity
    /\ gate' = IF worker[w].gated THEN [gate EXCEPT !.inFlight = @ + Tokens] ELSE gate
    /\ worker' = [worker EXCEPT ![w].pc = "store"]
    /\ UNCHANGED <<row, chunks, queue, processor, batch, count, lost>>

\* A faulty release: tokens are given back by a document that took none.
ReleasedAlways(w) == [gate EXCEPT !.inFlight = @ - Tokens]

Released(w) == IF worker[w].gated THEN [gate EXCEPT !.inFlight = @ - Tokens] ELSE gate

\* create_chunks_batch gives the window's chunks new ids; extraction; release.
StoreWindow(w) ==
    LET d == worker[w].doc
    IN  /\ worker[w].pc = "store"
        /\ chunks' = [chunks EXCEPT ![d][worker[w].content][worker[w].window] =
                                            IF @ < MaxCopies THEN @ + 1 ELSE @]
        /\ gate' = Released(w)
        /\ \/ /\ worker' = [worker EXCEPT ![w].window = @ + 1,
                               ![w].pc = IF worker[w].window = Windows THEN "commit" ELSE "acquire"]
              /\ UNCHANGED count
           \/ Fault /\ worker' = [worker EXCEPT ![w].pc = "fail"]
        /\ UNCHANGED <<row, queue, processor, batch, lost>>

\* A faulty StoreFault: the release is not in a finally block.
StoreFaultLeaks(w) ==
    /\ worker[w].pc = "store"
    /\ Fault
    /\ worker' = [worker EXCEPT ![w].pc = "fail"]
    /\ UNCHANGED <<row, chunks, queue, processor, batch, gate, lost>>

\* Embedding or the chunk write raises: nothing is stored, the tokens come back.
StoreFault(w) ==
    /\ worker[w].pc = "store"
    /\ Fault
    /\ gate' = Released(w)
    /\ worker' = [worker EXCEPT ![w].pc = "fail"]
    /\ UNCHANGED <<row, chunks, queue, processor, batch, lost>>

\* mark_completed and update_document; or that raises.
Commit(w) ==
    /\ worker[w].pc = "commit"
    /\ \/ /\ row' = UpdateDocument(worker[w].doc, "completed", worker[w].content)
          /\ worker' = [worker EXCEPT ![w].pc = "fire", ![w].ok = TRUE]
          /\ UNCHANGED count
       \/ Fault /\ worker' = [worker EXCEPT ![w].pc = "fail"] /\ UNCHANGED row
    /\ UNCHANGED <<chunks, queue, processor, batch, gate, lost>>

\* mark_failed and update_document, best effort.
Fail(w) ==
    /\ worker[w].pc = "fail"
    /\ \/ row' = UpdateDocument(worker[w].doc, "failed", worker[w].content) /\ UNCHANGED count
       \/ Fault /\ UNCHANGED row
    /\ worker' = [worker EXCEPT ![w].pc = "fire", ![w].ok = FALSE]
    /\ UNCHANGED <<chunks, queue, processor, batch, gate, lost>>

\* The result goes to the batch and the worker takes its next item.
Fire(w) ==
    /\ worker[w].pc = "fire"
    /\ Deliver(w, worker[w].ok)
    /\ worker' = [worker EXCEPT ![w] = IdleWorker]
    /\ UNCHANGED <<row, chunks, queue, processor, gate, count, lost>>

-----------------------------------------------------------------------------
(* The processor's life, and what happens around it.                       *)

\* start_pending_processor.
Start ==
    /\ processor = "stopped"
    /\ processor' = "recovering"
    /\ UNCHANGED <<row, chunks, queue, worker, batch, gate, count, lost>>

Claimable(d) == row[d].old /\ row[d].status \in {"pending", "processing"}

\* claim_orphaned_documents: a row past its grace period becomes PROCESSING and
\* is enqueued without a batch.
ClaimOrphan(d) ==
    /\ processor = "recovering"
    /\ Claimable(d)
    /\ row' = [row EXCEPT ![d].status = "processing", ![d].old = FALSE]
    /\ queue' = Append(queue, [doc |-> d, batch |-> None])
    /\ UNCHANGED <<chunks, processor, worker, batch, gate, count, lost>>

\* Phase 1 ends when nothing is left to claim, or when it raises (logged).
RecoveryEnds ==
    /\ processor = "recovering"
    /\ \/ (\A d \in Docs : ~Claimable(d)) /\ UNCHANGED count
       \/ (\E d \in Docs : Claimable(d)) /\ Fault
    /\ processor' = "running"
    /\ UNCHANGED <<row, chunks, queue, worker, batch, gate, lost>>

\* stop_pending_processor and disconnect cancel the workers: what they hold is
\* dropped without a result, their tokens and permits are released; the queue stays.
Stop ==
    /\ processor # "stopped" /\ count.stops < MaxStops
    /\ count' = [count EXCEPT !.stops = @ + 1]
    /\ processor' = "stopped"
    /\ lost' = lost \cup {<<worker[w].batch, worker[w].doc>> : w \in {v \in Workers : worker[v].batch # None}}
    /\ worker' = [w \in Workers |-> IdleWorker]
    /\ gate' = [gate EXCEPT !.inFlight = 0]
    /\ UNCHANGED <<row, chunks, queue, batch>>

\* The process dies: only the stores survive.
Crash ==
    /\ count.crashes < MaxCrashes
    /\ count' = [count EXCEPT !.crashes = @ + 1]
    /\ processor' = "stopped" /\ queue' = <<>>
    /\ worker' = [w \in Workers |-> IdleWorker]
    /\ gate' = [exists |-> FALSE, inFlight |-> 0]
    /\ batch' = [b \in Batches |-> IF batch[b].pc = "new" THEN batch[b]
                                   ELSE [NewBatch EXCEPT !.pc = "dead"]]
    /\ lost' = {}
    /\ UNCHANGED <<row, chunks>>

\* Time passes: updated_at falls behind the grace period of the row's status.
\* A scan computes its cutoffs once, so no row becomes older than them during it.
Age(d) ==
    /\ processor # "recovering"
    /\ row[d].status \in {"pending", "processing"} /\ ~row[d].old
    /\ row' = [row EXCEPT ![d].old = TRUE]
    /\ UNCHANGED <<chunks, queue, processor, worker, batch, gate, count, lost>>

\* forget(): the document's chunks and its row go.
Forget(d) ==
    /\ row[d].status # "absent" /\ count.forgets < MaxForgets
    /\ count' = [count EXCEPT !.forgets = @ + 1]
    /\ row' = [row EXCEPT ![d] = Absent]
    /\ chunks' = [chunks EXCEPT ![d] = NoChunks]
    /\ UNCHANGED <<queue, processor, worker, batch, gate, lost>>

-----------------------------------------------------------------------------
Init ==
    /\ row \in [Docs -> {[status |-> s, content |-> None, old |-> FALSE] : s \in InitialStatuses}]
    /\ chunks = [d \in Docs |-> NoChunks]
    /\ queue = <<>>
    /\ processor = "stopped"
    /\ worker = [w \in Workers |-> IdleWorker]
    /\ batch = [b \in Batches |-> NewBatch]
    /\ gate = [exists |-> FALSE, inFlight |-> 0]
    /\ count = [stops |-> 0, crashes |-> 0, forgets |-> 0, faults |-> 0]
    /\ lost = {}

SubmitStep(b) ==
    \/ SubmitLookup(b) \/ SubmitFinish(b) \/ SubmitRaises(b)
    \/ \E d \in Docs : StageSkip(b, d) \/ StageNew(b, d) \/ StageExisting(b, d) \/ StageError(b, d)

WorkerStep(w) ==
    \/ Dequeue(w) \/ Load(w) \/ LoadNothing(w) \/ TakePermit(w)
    \/ ClearState(w) \/ ClearFault(w) \/ HandleFault(w) \/ AcquireWindow(w) \/ StoreWindow(w) \/ StoreFault(w)
    \/ Commit(w) \/ Fail(w) \/ Fire(w)

Recover == RecoveryEnds \/ \E d \in Docs : ClaimOrphan(d)

Lifecycle == Start \/ Recover \/ Stop \/ Crash \/ \E d \in Docs : Age(d) \/ Forget(d)

Next ==
    \/ \E b \in Batches : SubmitStep(b)
    \/ \E w \in Workers : WorkerStep(w)
    \/ Lifecycle

\* The event loop runs every task that can run, and a stopped processor is started again.
Fairness ==
    /\ \A w \in Workers : WF_vars(WorkerStep(w))
    /\ WF_vars(Start) /\ WF_vars(Recover)

Spec == Init /\ [][Next]_vars /\ Fairness

-----------------------------------------------------------------------------
\* Every variable of the processor, the batches and the stores has its type.
TypeOK ==
    /\ row \in [Docs -> Row]
    /\ chunks \in [Docs -> [Contents -> [1..Windows -> Nat]]]
    /\ queue \in Seq(Item)
    /\ processor \in {"stopped", "recovering", "running"}
    /\ worker \in [Workers -> Worker]
    /\ batch \in [Batches -> Batch]
    /\ gate \in [exists : BOOLEAN, inFlight : Nat]
    /\ count \in [stops : 0..MaxStops, crashes : 0..MaxCrashes, forgets : 0..MaxForgets, faults : 0..MaxFaults]
    /\ lost \subseteq Batches \X Docs

\* The documents of batch b that still owe it a result: queued, held by a
\* worker, or dropped when a worker was cancelled.
Queued(b) == {d \in Docs : \E i \in DOMAIN queue : queue[i] = [doc |-> d, batch |-> b]}
Held(b) == {d \in Docs : \E w \in Workers : worker[w].batch = b /\ worker[w].doc = d}
Dropped(b) == {d \in Docs : <<b, d>> \in lost}

\* Every document of a batch is in one place at a time and is reported exactly
\* once: _remaining is what is queued, held or dropped, and the done event is set
\* when, and only when, nothing is (fire_result, the worker's three cases).
BatchAccounting ==
    \A b \in Batches : batch[b].pc = "submitted" =>
        /\ Queued(b) \cap Held(b) = {} /\ Queued(b) \cap Dropped(b) = {} /\ Held(b) \cap Dropped(b) = {}
        /\ batch[b].remaining = Cardinality(Queued(b) \cup Held(b) \cup Dropped(b))
        /\ batch[b].completed + batch[b].remaining = batch[b].total
        /\ batch[b].done <=> batch[b].remaining = 0

\* The chunk semaphore's count is the tokens its holders took, through faults and
\* cancellation, so it never exceeds the capacity and never leaks; and no more
\* than MaxConcurrent workers process one batch (acquire, release, concurrency_sem).
SemaphoresExact ==
    /\ gate.inFlight = Tokens * Cardinality({w \in Workers : worker[w].pc = "store" /\ worker[w].gated})
    /\ gate.inFlight <= Capacity
    /\ \A b \in Batches : Cardinality(Permits(b)) <= MaxConcurrent

\* wait() returns: a submitted batch is eventually done, unless the process died
\* or a stop of the processor dropped one of its documents.
WaitReturnsUnlessDropped ==
    \A b \in Batches :
        batch[b].pc = "submitted" ~> batch[b].done \/ Dropped(b) # {} \/ batch[b].pc = "dead"
=============================================================================
