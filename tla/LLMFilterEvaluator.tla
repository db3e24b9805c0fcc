-------------------------- MODULE LLMFilterEvaluator --------------------------
(***************************************************************************)
(* The micro-batching LLM filter of the hooks (hooks/llm_evaluator.py).  A *)
(* dispatch awaits evaluate(event, filter); a full queue starts a batch    *)
(* task, a timer flushes one that does not fill, and a batch makes one LLM *)
(* call per filter, charging it to two hourly budgets first.  Every kind   *)
(* of trouble answers True.                                                *)
(*                                                                         *)
(* An event is its summary (name, type, description): what the prompt, the *)
(* cache and the coalescing see of it.  All events are of one namespace,   *)
(* and a prompt costs one token, and one more for each of its slots.       *)
(***************************************************************************)
EXTENDS Naturals, Sequences, FiniteSets, Sublists

CONSTANTS
    Callers,    \* calls of evaluate
    Filters,    \* subscriptions
    Summaries,  \* event summaries
    BatchSize,  \* llm_batch_size
    SpaceCap,   \* llm_max_tokens_per_namespace_per_hour, 0 for none
    FilterCap,  \* llm_max_tokens_per_subscription_per_hour, 0 for none
    MaxUpsets   \* bound: windows that end, cache entries that go, callers that are cancelled

ASSUME EvaluatorAssumption ==
    /\ BatchSize \in Nat \ {0} /\ SpaceCap \in Nat /\ FilterCap \in Nat
    /\ MaxUpsets \in Nat

VARIABLES
    caller,  \* the calls of evaluate and their futures
    queue,   \* _queue, in order of arrival
    timer,   \* whether _flush_task sleeps
    batches, \* the running _run_batch tasks
    cache,   \* _cache: the decision for a filter and summary
    spent,   \* the tokens charged in the current window
    upsets,  \* how many upsets there were
    said     \* history: the decisions the LLM has made

evaluator == <<caller, queue, timer, batches, cache, spent, upsets, said>>

Decisions == {"yes", "no"}
Keys == Filters \X Summaries

Caller == [state : {"idle", "waiting", "yes", "no", "left"}, filter : Filters, summary : Summaries]

\* todo: what is not evaluated yet; bucket: what the LLM is asked about now.
Batch == [todo : Seq(Callers), bucket : Seq(Callers)]

Elements(s) == {s[n] : n \in DOMAIN s}
Key(c) == <<caller[c].filter, caller[c].summary>>
Batched(items) == [todo |-> items, bucket |-> <<>>]

Upset == upsets < MaxUpsets /\ upsets' = upsets + 1

\* set_result on the futures of cs that are not done.
Answered(cs, answer) ==
    [c \in Callers |-> IF c \in cs /\ caller[c].state = "waiting"
                       THEN [caller[c] EXCEPT !.state = answer[c]] ELSE caller[c]]

\* set_result(True), the answer to every trouble.
FailOpen == [c \in Callers |-> "yes"]

-----------------------------------------------------------------------------
(* evaluate and the timer.                                                 *)

\* A cache hit answers at once.
EvaluateHit(c) ==
    /\ caller[c].state = "idle" /\ Key(c) \in DOMAIN cache
    /\ caller' = [caller EXCEPT ![c].state = cache[Key(c)]]
    /\ UNCHANGED <<queue, timer, batches, cache, spent, upsets, said>>

\* A faulty Full: off by one.
FullLate(n) == n > BatchSize

Full(n) == n >= BatchSize

\* A miss is queued: a full queue becomes a batch and its timer is cancelled, any other
\* has a timer.
EvaluateMiss(c) ==
    /\ caller[c].state = "idle" /\ Key(c) \notin DOMAIN cache
    /\ caller' = [caller EXCEPT ![c].state = "waiting"]
    /\ IF Full(Len(queue) + 1)
       THEN /\ batches' = batches \cup {Batched(Append(queue, c))}
            /\ queue' = <<>>
            /\ timer' = FALSE
       ELSE /\ queue' = Append(queue, c)
            /\ timer' = TRUE
            /\ UNCHANGED batches
    /\ UNCHANGED <<cache, spent, upsets, said>>

\* _flush_after_delay: the sleep is over; the queue is taken before the next await.
TimerFires ==
    /\ timer
    /\ timer' = FALSE
    /\ queue' = <<>>
    /\ batches' = IF queue = <<>> THEN batches ELSE batches \cup {Batched(queue)}
    /\ UNCHANGED <<caller, cache, spent, upsets, said>>

\* The awaiting dispatch is cancelled, and with it the future; it stays queued.
Leave(c) ==
    /\ caller[c].state = "waiting"
    /\ caller' = [caller EXCEPT ![c].state = "left"]
    /\ Upset
    /\ UNCHANGED <<queue, timer, batches, cache, spent, said>>

-----------------------------------------------------------------------------
(* A batch.                                                                *)

Replaced(b, new) ==
    batches' = (batches \ {b}) \cup (IF new.todo = <<>> /\ new.bucket = <<>> THEN {} ELSE {new})

\* The next bucket: the first filter, and the items that wait for it, each its own future.
NextBucket(b, next) ==
    LET mine == {c \in Elements(b.todo) : caller[c].filter = caller[b.todo[1]].filter}
    IN  InOrder(next.bucket, mine, b.todo) /\ InOrder(next.todo, Elements(b.todo) \ mine, b.todo)

\* Duplicates in a bucket share one slot of the prompt.
Slots(items) == {caller[c].summary : c \in Elements(items)}

\* _charge_budget's checks, both before either bucket is charged.
Fits(f, charge) ==
    /\ FilterCap > 0 => spent.filter[f] + charge <= FilterCap
    /\ SpaceCap > 0 => spent.space + charge <= SpaceCap

\* _evaluate_bucket up to the LLM call; a refused charge answers True.
StartBucket(b) ==
    /\ b \in batches /\ b.bucket = <<>>
    /\ \E next \in [todo : Lists(b.todo), bucket : Lists(b.todo)] :
         LET f == caller[b.todo[1]].filter
             charge == 1 + Cardinality(Slots(next.bucket))
         IN  /\ NextBucket(b, next)
             /\ IF Fits(f, charge)
                THEN /\ Replaced(b, next)
                     /\ spent' = [spent EXCEPT !.space = @ + charge, !.filter[f] = @ + charge]
                     /\ UNCHANGED caller
                ELSE /\ Replaced(b, [next EXCEPT !.bucket = <<>>])
                     /\ caller' = Answered(Elements(next.bucket), FailOpen)
                     /\ UNCHANGED spent
    /\ UNCHANGED <<queue, timer, cache, upsets, said>>

\* The LLM call times out or raises: the bucket is answered True, the batch goes on.
LLMFails(b) ==
    /\ b \in batches /\ b.bucket # <<>>
    /\ caller' = Answered(Elements(b.bucket), FailOpen)
    /\ Replaced(b, [b EXCEPT !.bucket = <<>>])
    /\ UNCHANGED <<queue, timer, cache, spent, upsets, said>>

\* The slots before the first one whose entry cannot be read (float() raises).
Readable(items, reply) ==
    LET bad == {n \in DOMAIN items : reply[caller[items[n]].summary] = "unreadable"}
    IN  {caller[items[n]].summary : n \in {m \in DOMAIN items : \A k \in bad : m < k}}

\* A faulty Cacheable: the fail-open answer of a slot the reply left out is cached.
CacheableMissing(seen, reply) == seen

\* What is cached: the decisions the reply holds.
Cacheable(seen, reply) == {v \in seen : reply[v] \in Decisions}

\* A faulty StillOpen: only the bucket is answered when its reply raises.
StillOpenBucket(b, raised) == Elements(b.bucket)

\* Whose futures the end of a bucket resolves: its own, and those of the whole batch when
\* the reply raises (the guard of _run_batch).
StillOpen(b, raised) == Elements(b.bucket) \cup (IF raised THEN Elements(b.todo) ELSE {})

\* The LLM answers: a decision per slot, fanned out to the slot's duplicates and cached;
\* a slot the reply leaves out is answered True; an entry that cannot be read raises, and
\* the guard of _run_batch answers True to whatever of the batch is still open.
LLMAnswers(b, reply) ==
    /\ b \in batches /\ b.bucket # <<>>
    /\ LET f == caller[b.bucket[1]].filter
           seen == Readable(b.bucket, reply)
           raised == seen # Slots(b.bucket)
           decided == {v \in seen : reply[v] \in Decisions}
           kept == Cacheable(seen, reply)
           told == {c \in Elements(b.bucket) : caller[c].summary \in decided}
       IN  /\ caller' = Answered(StillOpen(b, raised),
                      [c \in Callers |-> IF c \in told THEN reply[caller[c].summary] ELSE "yes"])
           /\ cache' = [k \in DOMAIN cache \cup ({f} \X kept) |->
                          IF k \in {f} \X kept
                          THEN IF reply[k[2]] \in Decisions THEN reply[k[2]] ELSE "yes"
                          ELSE cache[k]]
           /\ said' = said \cup {<<<<f, v>>, reply[v]>> : v \in decided}
           /\ Replaced(b, IF raised THEN Batched(<<>>) ELSE [b EXCEPT !.bucket = <<>>])
    /\ UNCHANGED <<queue, timer, spent, upsets>>

\* An entry's time is up, or the least recently used one makes room.
Expire(k) ==
    /\ k \in DOMAIN cache
    /\ cache' = [j \in DOMAIN cache \ {k} |-> cache[j]]
    /\ Upset
    /\ UNCHANGED <<caller, queue, timer, batches, spent, said>>

NoSpending == [space |-> 0, filter |-> [f \in Filters |-> 0]]

\* The hour of a budget bucket is over; every bucket has its own window.
NewHour ==
    /\ \/ spent.space > 0 /\ spent' = [spent EXCEPT !.space = 0]
       \/ \E f \in Filters : spent.filter[f] > 0 /\ spent' = [spent EXCEPT !.filter[f] = 0]
    /\ Upset
    /\ UNCHANGED <<caller, queue, timer, batches, cache, said>>

\* Replies of the LLM: an entry per slot, or none, or one that cannot be read.
Replies == [Summaries -> Decisions \cup {"missing", "unreadable"}]

EvaluatorInit ==
    /\ caller \in [Callers -> {[state |-> "idle", filter |-> f, summary |-> v] : f \in Filters, v \in Summaries}]
    /\ queue = <<>>
    /\ timer = FALSE
    /\ batches = {}
    /\ cache = [k \in {} |-> "no"]
    /\ spent = NoSpending
    /\ upsets = 0
    /\ said = {}

-----------------------------------------------------------------------------
(* Properties.                                                             *)

\* Every variable has its type, and the queue never holds a full batch (evaluate).
EvaluatorTypeOK ==
    /\ caller \in [Callers -> Caller]
    /\ queue \in Seq(Callers) /\ Len(queue) < BatchSize
    /\ timer \in BOOLEAN
    /\ batches \subseteq Batch
    /\ DOMAIN cache \subseteq Keys /\ \A k \in DOMAIN cache : cache[k] \in Decisions
    /\ spent \in [space : Nat, filter : [Filters -> Nat]]
    /\ said \subseteq Keys \X Decisions

\* Trouble never turns into an answer that outlives it: an event is refused only if the
\* LLM refused that very summary for that very filter, through coalescing, reordering,
\* replies that leave slots out or stop being readable half way; and the cache holds only
\* what the LLM decided, never a fail-open answer.
OnlyDecisions ==
    /\ \A c \in Callers : caller[c].state = "no" => <<Key(c), "no">> \in said
    /\ \A k \in DOMAIN cache : <<k, cache[k]>> \in said

\* No caller is stranded: evaluate returns, whatever happens to its batch.
AllAnswered == \A c \in Callers : caller[c].state = "waiting" ~> caller[c].state # "waiting"
=============================================================================
