-------------------------- MODULE TelemetryCollector --------------------------
(***************************************************************************)
(* The telemetry collector (telemetry/collector.py): records are appended  *)
(* to a buffer, and written to the database by a timer loop, by a flush    *)
(* task that a full buffer schedules, and by the last flush of shutdown.   *)
(* A flush takes the whole buffer before its first await; one that raises  *)
(* puts its events back in front and drops the oldest beyond the cap.      *)
(*                                                                         *)
(* Events are numbered as they are recorded.  The three tables are written *)
(* in one transaction, so an event's kind does not matter.                 *)
(***************************************************************************)
EXTENDS Naturals, Sequences, FiniteSets

CONSTANTS
    FlushThreshold,  \* buffered events that schedule a flush
    MaxBuffer,       \* max_buffer_size
    MaxEvents,       \* bound: recorded events
    MaxFailures      \* bound: transactions that raise

ASSUME CollectorAssumption ==
    /\ FlushThreshold \in Nat \ {0} /\ MaxBuffer \in Nat \ {0}
    /\ MaxEvents \in Nat /\ MaxFailures \in Nat

VARIABLES
    recorded,  \* events recorded so far
    buffer,    \* _buffer
    flush,     \* what each flusher holds: the events it drained
    loop,      \* _flush_task: the timer loop
    threshold, \* _threshold_flush_task
    phase,     \* shutdown: what it waits for
    stored,    \* the rows in the database, by event
    dropped,   \* khora.telemetry.flush.dropped_total: the events it counted
    cut,       \* history: events in the hands of a flush that was cancelled
    unsure,    \* history: events of a transaction that raised after it took effect
    failures   \* how many transactions raised

telemetry == <<recorded, buffer, flush, loop, threshold, phase, stored, dropped, cut, unsure, failures>>

Flushers == {"timer", "threshold", "final"}
Records == 1 .. MaxEvents
Held(s) == {s[n] : n \in DOMAIN s}

\* record_llm_call, record_storage_op, record_pipeline_stage, then _maybe_schedule_flush.
Record ==
    /\ recorded < MaxEvents
    /\ recorded' = recorded + 1
    /\ buffer' = Append(buffer, recorded')
    /\ threshold' = IF Len(buffer') >= FlushThreshold /\ threshold = "done" THEN "scheduled" ELSE threshold
    /\ UNCHANGED <<flush, loop, phase, stored, dropped, cut, unsure, failures>>

\* The top of _flush, without an await: the buffer is drained, or was empty.
Drain(f) ==
    /\ flush' = [flush EXCEPT ![f] = buffer]
    /\ buffer' = <<>>

\* _flush_loop wakes up with something in the buffer.
TimerTick ==
    /\ loop = "sleep" /\ buffer # <<>>
    /\ Drain("timer")
    /\ loop' = "flush"
    /\ UNCHANGED <<recorded, threshold, phase, stored, dropped, cut, unsure, failures>>

\* shutdown waits for the threshold task it found.
Awaited == IF phase = "await" THEN "drain" ELSE phase

\* The scheduled task gets to run, perhaps after another flusher has emptied the buffer.
ThresholdStart ==
    /\ threshold = "scheduled"
    /\ Drain("threshold")
    /\ IF buffer = <<>> THEN threshold' = "done" /\ phase' = Awaited
                        ELSE threshold' = "flush" /\ UNCHANGED phase
    /\ UNCHANGED <<recorded, loop, stored, dropped, cut, unsure, failures>>

Flushing(f) ==
    CASE f = "timer"     -> loop = "flush"
      [] f = "threshold" -> threshold = "flush"
      [] f = "final"     -> phase = "final"

\* A faulty Finished: the timer loop ends with its first flush.
FinishedOnce(f) ==
    /\ flush' = [flush EXCEPT ![f] = <<>>]
    /\ loop' = IF f = "timer" THEN "cancelled" ELSE loop
    /\ threshold' = IF f = "threshold" THEN "done" ELSE threshold
    /\ phase' = CASE f = "final" -> "stopped" [] f = "threshold" -> Awaited [] OTHER -> phase

\* The flusher has returned from its transaction.
Finished(f) ==
    /\ flush' = [flush EXCEPT ![f] = <<>>]
    /\ loop' = IF f = "timer" THEN "sleep" ELSE loop
    /\ threshold' = IF f = "threshold" THEN "done" ELSE threshold
    /\ phase' = CASE f = "final" -> "stopped" [] f = "threshold" -> Awaited [] OTHER -> phase

\* The database once the transaction of a flusher has taken effect.
Inserted(f) == [e \in Records |-> IF e \in Held(flush[f]) THEN stored[e] + 1 ELSE stored[e]]

CommitBatch(f) ==
    /\ Flushing(f)
    /\ stored' = Inserted(f)
    /\ Finished(f)
    /\ UNCHANGED <<recorded, buffer, dropped, cut, unsure, failures>>

\* A faulty Kept: the events recorded since the drain are overwritten.
KeptFailedOnly(failed) == failed

\* _requeue's order: the failed batch, then what was recorded since.
Kept(failed) == failed \o buffer

\* The transaction raises, rolled back or (its answer lost) in effect: _requeue.
Requeue(f) ==
    LET combined == Kept(flush[f])
        overflow == IF Len(combined) > MaxBuffer THEN Len(combined) - MaxBuffer ELSE 0
    IN  /\ Flushing(f) /\ failures < MaxFailures
        /\ failures' = failures + 1
        /\ buffer' = SubSeq(combined, overflow + 1, Len(combined))
        /\ dropped' = dropped \cup Held(SubSeq(combined, 1, overflow))
        /\ \/ UNCHANGED <<stored, unsure>>
           \/ stored' = Inserted(f) /\ unsure' = unsure \cup Held(flush[f])
        /\ Finished(f)
        /\ UNCHANGED <<recorded, cut>>

\* shutdown cancels the timer loop; CancelledError is no Exception, so what a flush of
\* the loop holds is not put back, whether or not its transaction took effect.
Shutdown ==
    /\ phase = "running"
    /\ phase' = IF threshold = "done" THEN "drain" ELSE "await"
    /\ loop' = "cancelled"
    /\ cut' = cut \cup Held(flush["timer"])
    /\ stored' \in {stored, Inserted("timer")}
    /\ flush' = [flush EXCEPT !["timer"] = <<>>]
    /\ UNCHANGED <<recorded, buffer, threshold, dropped, unsure, failures>>

\* The last flush of shutdown.
FinalFlush ==
    /\ phase = "drain"
    /\ Drain("final")
    /\ phase' = IF buffer = <<>> THEN "stopped" ELSE "final"
    /\ UNCHANGED <<recorded, loop, threshold, stored, dropped, cut, unsure, failures>>

CollectorInit ==
    /\ recorded = 0
    /\ buffer = <<>>
    /\ flush = [f \in Flushers |-> <<>>]
    /\ loop = "sleep"
    /\ threshold = "done"
    /\ phase = "running"
    /\ stored = [e \in Records |-> 0]
    /\ dropped = {}
    /\ cut = {}
    /\ unsure = {}
    /\ failures = 0

CollectorStep ==
    \/ TimerTick \/ ThresholdStart \/ Shutdown \/ FinalFlush
    \/ \E f \in Flushers : CommitBatch(f) \/ Requeue(f)

-----------------------------------------------------------------------------
(* Properties.                                                             *)

\* Every variable of the collector has its type.
CollectorTypeOK ==
    /\ recorded \in 0 .. MaxEvents
    /\ buffer \in Seq(Records)
    /\ flush \in [Flushers -> Seq(Records)]
    /\ loop \in {"sleep", "flush", "cancelled"}
    /\ threshold \in {"done", "scheduled", "flush"}
    /\ phase \in {"running", "await", "drain", "final", "stopped"}
    /\ stored \in [Records -> Nat]
    /\ dropped \subseteq Records /\ cut \subseteq Records /\ unsure \subseteq Records
    /\ failures \in 0 .. MaxFailures

\* Where an event is in memory: in the buffer, or in the hands of a flusher.
Places(e) ==
    LET in(s) == {n \in DOMAIN s : s[n] = e}
    IN  {<<"buffer", n>> : n \in in(buffer)} \cup UNION {{<<f, n>> : n \in in(flush[f])} : f \in Flushers}

\* No event is lost or written twice, whatever the three flushers do at once: a recorded
\* event is in one place in memory, or in the database once, or counted as dropped.
\* Exempt are the events of a transaction whose answer was lost, which _requeue writes
\* again, and those of a timer flush that shutdown cancelled.
Accounted ==
    \A e \in (1 .. recorded) \ (unsure \cup cut) :
      Cardinality(Places(e)) + stored[e] + (IF e \in dropped THEN 1 ELSE 0) = 1

\* Every recorded event reaches the database, or is counted, or the collector has stopped.
Settles ==
    \A e \in Records :
      (e <= recorded) ~> (stored[e] > 0 \/ e \in dropped \/ e \in cut \/ phase = "stopped")
=============================================================================
