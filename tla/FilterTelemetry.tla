--------------------------- MODULE FilterTelemetry ---------------------------
(***************************************************************************)
(* The filter evaluator and the telemetry collector in one process: an LLM *)
(* call that returns is recorded (config/llm.py, acompletion) before its   *)
(* reply is read, and one that times out or raises is not.                 *)
(***************************************************************************)
EXTENDS LLMFilterEvaluator, TelemetryCollector

\* Every caller's LLM call has room within the collector's bound.
ASSUME RoomAssumption == Cardinality(Callers) <= MaxEvents

vars == <<evaluator, telemetry>>

Init == EvaluatorInit /\ CollectorInit

\* acompletion returns.
Reply(b, reply) == LLMAnswers(b, reply) /\ Record

BatchStep(b) ==
    \/ \E reply \in Replies : Reply(b, reply)
    \/ (StartBucket(b) \/ LLMFails(b)) /\ UNCHANGED telemetry

EvaluatorStep ==
    \/ \E c \in Callers : EvaluateHit(c) \/ EvaluateMiss(c) \/ Leave(c)
    \/ TimerFires
    \/ \E k \in Keys : Expire(k)
    \/ NewHour

Next ==
    \/ \E b \in batches : BatchStep(b)
    \/ EvaluatorStep /\ UNCHANGED telemetry
    \/ CollectorStep /\ UNCHANGED evaluator

\* The event loop runs the tasks that are ready, a sleep ends, and an LLM call returns or
\* meets its deadline (asyncio.wait_for in acompletion).
Fairness ==
    /\ WF_vars(TimerFires /\ UNCHANGED telemetry)
    /\ WF_vars(\E b \in batches : BatchStep(b))
    /\ WF_vars(TimerTick /\ UNCHANGED evaluator)
    /\ WF_vars(ThresholdStart /\ UNCHANGED evaluator)
    /\ WF_vars(FinalFlush /\ UNCHANGED evaluator)
    /\ \A f \in Flushers : WF_vars((CommitBatch(f) \/ Requeue(f)) /\ UNCHANGED evaluator)

Spec == Init /\ [][Next]_vars /\ Fairness

\* Both components keep their types (evaluate's queue limit, the collector's buffer).
TypeOK == EvaluatorTypeOK /\ CollectorTypeOK
=============================================================================
