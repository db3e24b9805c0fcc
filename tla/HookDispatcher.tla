---------------------------- MODULE HookDispatcher ----------------------------
(***************************************************************************)
(* HookDispatcher.dispatch (hooks/dispatcher.py): the subscriptions are    *)
(* matched one after the other, the durable ones after the callbacks; the  *)
(* deliveries of the durable matches run first, then the callbacks, each   *)
(* under a shared semaphore and a timeout.  A callback may write to Khora  *)
(* itself and so dispatch from within.                                     *)
(*                                                                         *)
(* A namespace has a stable id and one row id per version; resolve maps    *)
(* either to the row of the active version.  A scope check compares the    *)
(* event's id and the subscription's in row ids, over a cache that a new   *)
(* version makes stale.                                                    *)
(*                                                                         *)
(* An action runs from one await to the next.  Between two subscriptions   *)
(* the code may not await; the model lets other tasks in there too.        *)
(***************************************************************************)
EXTENDS HookSubscriptions

CONSTANTS
    Namespaces,        \* stable ids
    MaxVersion,        \* bound: versions of a namespace
    Versioned,         \* bound: the namespaces that get new versions
    Dispatches,        \* calls of dispatch, each made at most once
    Scope,             \* of each subscription: a stable id, a row id or None
    Filtered,          \* subscriptions that carry a filter
    Behaviour,         \* of each callback or delivery: it ends, hangs, or dispatches
    Permits,           \* max_concurrent
    SinkWired,         \* a delivery_sink is set
    None

Rows == Namespaces \X (1 .. MaxVersion)
Ids == Namespaces \cup Rows

ASSUME DispatcherAssumption ==
    /\ Permits \in Nat \ {0} /\ MaxVersion \in Nat \ {0} /\ SinkWired \in BOOLEAN
    /\ Scope \in [Subs -> Ids \cup {None}] /\ Filtered \subseteq Subs
    /\ \A s \in Callbacks : Scope[s] # None => s \in Filtered  \* subscribe puts the scope on the filter
    /\ Behaviour \in [Subs -> {"ends", "hangs", "dispatches"}]
    /\ None \notin Ids /\ Namespaces \cap Rows = {}

VARIABLES
    version,  \* the newest version of each namespace
    active,   \* whether that version is active: create_namespace_version has a gap
    cache,    \* _ns_resolve_cache
    calls     \* the dispatches

dispatcher == <<version, active, cache, calls>>
vars == <<subscriptions, dispatcher, disturbances>>

Matching == {"next", "ask", "got", "gate"}
Active == Matching \cup {"deliver", "invoke"}

NewCall ==
    [pc |-> "new", event |-> None, kind |-> "callback",
     todo |-> [k \in Kinds |-> <<>>], held |-> [k \in Kinds |-> 0],
     sub |-> None, again |-> FALSE, suspects |-> <<>>, refresh |-> FALSE,
     left |-> None, right |-> None, asked |-> None, answer |-> None,
     matched |-> {}, run |-> [s \in Subs |-> "no"], within |-> <<>>,
     sure |-> FALSE, missed |-> {}]

\* Of a call that has returned or was cancelled nothing is left.
Ended(r) == [NewCall EXCEPT !.pc = "returned", !.missed = r.missed]

ActiveRow(n) == <<n, version[n]>>

\* resolve_namespace: the row of the active version that has the id, or None: it raises.
Resolve(id) ==
    LET hits == {n \in Namespaces : active[n] /\ id \in {n, ActiveRow(n)}} IN
    IF hits = {} THEN None ELSE ActiveRow(CHOOSE n \in hits : TRUE)

\* A lookup that has read a row which is no longer the answer.
StaleAnswer(r) == r.pc = "got" /\ r.answer # None /\ r.answer # Resolve(r.asked)

-------------------------------------------------------------------------------

\* dispatch: both lists are looked up; with neither, it returns at once.  The facade refuses
\* the calls that emit events until connect, and with it the load, is over.
Begin(d, e, within) ==
    /\ calls[d].pc = "new" /\ load.phase = "no"
    /\ \E k \in Kinds : lists[k].subs # <<>>
    /\ calls' = [calls EXCEPT ![d] =
                   [NewCall EXCEPT !.pc = "next", !.event = e, !.within = within,
                                   !.todo = [k \in Kinds |-> lists[k].subs],
                                   !.held = [k \in Kinds |-> lists[k].id]]]

\* should_dispatch_hooks counts the in-process subscriptions only.
ShouldDispatch == lists["callback"].subs # <<>>

\* dispatch_hook of an ingest; the row was resolved earlier and may have been superseded.
Emit(d, e) == ShouldDispatch /\ Begin(d, e, <<>>) /\ UNCHANGED <<version, active, cache, disturbances>>

\* The dream event sink dispatches without that guard.
EmitDirect(d, e) == Begin(d, e, <<>>) /\ UNCHANGED <<version, active, cache, disturbances>>

-------------------------------------------------------------------------------

\* The current subscription is done with, whether it matched or not.
Advance(r) == [r EXCEPT !.pc = "next", !.sub = None, !.again = FALSE, !.sure = FALSE, !.asked = None,
                        !.answer = None, !.left = None, !.right = None, !.suspects = <<>>, !.refresh = FALSE]

Match(r) == Advance([r EXCEPT !.matched = @ \cup {r.sub}])

\* The scope matches.  A durable subscription with a filter is checked again by the cascade.
InScope(r) ==
    IF r.sub \in Filtered \cap Durables /\ ~r.again
    THEN [Advance(r) EXCEPT !.again = TRUE, !.todo[r.kind] = <<r.sub>> \o @]
    ELSE IF r.sub \in Filtered THEN [r EXCEPT !.pc = "gate"] ELSE Match(r)

OutOfScope(r) == Advance([r EXCEPT !.missed = IF r.sure THEN @ \cup {r.sub} ELSE @])

\* _namespace_scope_matches from a point where its next id is looked up: what is cached is used
\* without an await, the event's side first.
Compare(r, c) ==
    LET l == IF r.left # None THEN r.left ELSE c[r.event]
        g == IF r.right # None THEN r.right ELSE c[Scope[r.sub]]
    IN CASE l = None            -> [r EXCEPT !.pc = "ask", !.asked = r.event]
         [] l # None /\ g = None -> [r EXCEPT !.pc = "ask", !.asked = Scope[r.sub], !.left = l]
         [] l # None /\ l = g   -> InScope(r)
         [] OTHER -> IF r.suspects = <<>> THEN OutOfScope(r)
                     ELSE [r EXCEPT !.pc = "ask", !.asked = Head(r.suspects), !.refresh = TRUE]

Suspect(id) == IF cache[id] \in {None, id} THEN <<>> ELSE <<id>>

\* A faulty StaleSuspects: nothing is looked up again.
StaleSuspectsNone(e, scope) == <<>>

\* The sides that are cached under a different id.
StaleSuspects(e, scope) == Suspect(e) \o Suspect(scope)

\* History: the event is of the active version the scope names, and no lookup made before
\* that version is still to be written to the cache.
Sure(e, scope) ==
    /\ scope \in Namespaces /\ Resolve(scope) = e
    /\ \A d \in Dispatches : ~StaleAnswer(calls[d])

\* The next subscription of the list, or the end of the lists.
NextSub(d) ==
    LET r == calls[d]
        s == Head(r.todo[r.kind])
        q == [r EXCEPT !.sub = s, !.todo[r.kind] = Tail(@),
                       !.suspects = StaleSuspects(r.event, Scope[s]),
                       !.sure = Sure(r.event, Scope[s])]
    IN
    /\ r.pc = "next"
    /\ calls' = [calls EXCEPT ![d] =
         IF r.todo[r.kind] # <<>>
         THEN IF Scope[s] = None THEN InScope([r EXCEPT !.sub = s, !.todo[r.kind] = Tail(@)])
                                 ELSE Compare(q, cache)
         ELSE IF r.kind = "callback" THEN [r EXCEPT !.kind = "durable"]
         ELSE [r EXCEPT !.pc = "deliver",
                        !.run = [t \in Subs |-> IF SinkWired /\ t \in r.matched \cap Durables
                                                THEN "wait" ELSE "no"]]]
    /\ UNCHANGED <<version, active, cache, disturbances>>

\* The resolver reads the namespace table, or fails.
Lookup(d) ==
    /\ calls[d].pc = "ask"
    /\ \/ /\ calls' = [calls EXCEPT ![d].pc = "got", ![d].answer = Resolve(calls[d].asked)]
          /\ UNCHANGED disturbances
       \/ /\ Disturb
          /\ calls' = [calls EXCEPT ![d].pc = "got", ![d].answer = None, ![d].sure = FALSE]
    /\ UNCHANGED <<version, active, cache>>

\* A faulty Fallback: a lookup that raised is taken for a match.
FallbackMatches(r) == IF r.asked = r.event THEN Scope[r.sub] ELSE r.left

\* The value of a lookup that raised: the id itself.
Fallback(r) == r.asked

\* _resolve_ns resumes: an answer is cached, a failure is not.
Resume(d) ==
    LET r == calls[d]
        v == IF r.answer = None THEN Fallback(r) ELSE r.answer
        q == [r EXCEPT !.asked = None, !.answer = None]
    IN
    /\ r.pc = "got"
    /\ cache' = IF r.answer = None THEN cache ELSE [cache EXCEPT ![r.asked] = r.answer]
    /\ calls' = [calls EXCEPT ![d] =
         IF ~r.refresh
         THEN Compare(IF r.left = None THEN [q EXCEPT !.left = v] ELSE [q EXCEPT !.right = v], cache')
         ELSE IF Len(r.suspects) > 1
         THEN [q EXCEPT !.pc = "ask", !.suspects = Tail(@), !.asked = Head(Tail(r.suspects))]
         ELSE Compare([q EXCEPT !.suspects = <<>>, !.refresh = FALSE, !.left = None, !.right = None], cache')]
    /\ UNCHANGED <<version, active, disturbances>>

\* Levels 0 to 2 of the filter decide; level 2 is the LLM evaluator.
Gate(d) ==
    /\ calls[d].pc = "gate"
    /\ \E passes \in BOOLEAN :
          calls' = [calls EXCEPT ![d] = IF passes THEN Match(@) ELSE Advance(@)]
    /\ UNCHANGED <<version, active, cache, disturbances>>

-------------------------------------------------------------------------------

Invocations == {i \in Dispatches \X Subs : calls[i[1]].run[i[2]] = "run"}

\* A faulty Acquire: the semaphore is not entered.
AcquireAny(d, s) ==
    /\ calls[d].run[s] = "wait"
    /\ calls' = [calls EXCEPT ![d].run[s] = "run"]
    /\ UNCHANGED <<version, active, cache, disturbances>>

\* _safe_deliver and _safe_invoke enter the semaphore and start the callback.
Acquire(d, s) ==
    /\ calls[d].run[s] = "wait" /\ Cardinality(Invocations) < Permits
    /\ calls' = [calls EXCEPT ![d].run[s] = "run"]
    /\ UNCHANGED <<version, active, cache, disturbances>>

Nested(d, s) == {x \in Dispatches : <<d, s>> \in ToSet(calls[x].within)}

\* The callback writes to Khora, whose ingest emits an event.
Nest(d, s, x, e) ==
    /\ calls[d].run[s] = "run" /\ Behaviour[s] = "dispatches" /\ Nested(d, s) = {}
    /\ ShouldDispatch /\ Begin(x, e, Append(calls[d].within, <<d, s>>))
    /\ UNCHANGED <<version, active, cache, disturbances>>

\* The calls once an invocation is over; the dispatches inside it, cancelled with it, release theirs.
Released(d, s) ==
    [x \in Dispatches |->
       CASE x = d             -> [calls[x] EXCEPT !.run[s] = "done"]
         [] x \in Nested(d, s) -> Ended(calls[x])
         [] OTHER              -> calls[x]]

\* The callback returns or raises.
Return(d, s) ==
    /\ calls[d].run[s] = "run" /\ Behaviour[s] # "hangs"
    /\ \A x \in Nested(d, s) : calls[x].pc = "returned"
    /\ calls' = Released(d, s)
    /\ UNCHANGED <<version, active, cache, disturbances>>

\* A faulty TimesOut: the timeout does not reach a callback that waits for the semaphore itself.
TimesOutUnlessNested(d, s) == Nested(d, s) = {}

\* wait_for covers the callback and all that it awaits.
TimesOut(d, s) == TRUE

Timeout(d, s) ==
    /\ calls[d].run[s] = "run" /\ TimesOut(d, s)
    /\ calls' = Released(d, s)
    /\ UNCHANGED <<version, active, cache, disturbances>>

\* A gather is over: first the deliveries', then the callbacks'.
Gathered(d) ==
    LET r == calls[d] IN
    /\ r.pc \in {"deliver", "invoke"} /\ \A s \in Subs : r.run[s] \notin {"wait", "run"}
    /\ calls' = [calls EXCEPT ![d] =
         IF r.pc = "deliver"
         THEN [r EXCEPT !.pc = "invoke",
                        !.run = [s \in Subs |-> IF s \in r.matched \cap Callbacks THEN "wait" ELSE "no"]]
         ELSE Ended(r)]
    /\ UNCHANGED <<version, active, cache, disturbances>>

\* The task that called dispatch is cancelled.
CancelDispatch(d) ==
    /\ calls[d].pc \in Active /\ calls[d].within = <<>> /\ Disturb
    /\ calls' = [x \in Dispatches |->
                   IF x = d \/ \E s \in Subs : x \in Nested(d, s) THEN Ended(calls[x]) ELSE calls[x]]
    /\ UNCHANGED <<version, active, cache>>

-------------------------------------------------------------------------------

\* create_namespace_version: the old version is deactivated in a transaction of its own ...
Deactivate(n) ==
    /\ n \in Versioned /\ active[n] /\ version[n] < MaxVersion /\ Disturb
    /\ active' = [active EXCEPT ![n] = FALSE]
    /\ calls' = [d \in Dispatches |-> [calls[d] EXCEPT !.sure = FALSE]]
    /\ UNCHANGED <<version, cache>>

\* ... and the new row is inserted in another.
CreateVersion(n) ==
    /\ ~active[n]
    /\ version' = [version EXCEPT ![n] = @ + 1]
    /\ active' = [active EXCEPT ![n] = TRUE]
    /\ UNCHANGED <<cache, calls, disturbances>>

\* A dispatch that walks a list object sees what is appended to that object.
Follows(r, k) == r.pc \in Matching /\ (k = "durable" \/ r.kind = "callback")

SubscriptionsMove ==
    /\ SubscriptionStep
    /\ calls' = [d \in Dispatches |->
         LET r == calls[d]
             Grown(k) == /\ Follows(r, k) /\ r.held[k] = lists[k].id /\ lists'[k].id = lists[k].id
                         /\ Len(lists'[k].subs) > Len(lists[k].subs)
         IN [r EXCEPT !.todo = [k \in Kinds |-> IF Grown(k) THEN Append(r.todo[k], Last(lists'[k].subs))
                                                            ELSE r.todo[k]]]]
    /\ UNCHANGED <<version, active, cache>>

\* The process dies and a new one connects.
Restart ==
    /\ RestartSubscriptions
    /\ calls' = [d \in Dispatches |-> IF calls[d].pc = "new" THEN calls[d] ELSE Ended(calls[d])]
    /\ cache' = [id \in Ids |-> None]
    /\ UNCHANGED <<version, active>>

Init ==
    /\ SubscriptionsInit
    /\ version = [n \in Namespaces |-> 1] /\ active = [n \in Namespaces |-> TRUE]
    /\ cache = [id \in Ids |-> None]
    /\ calls = [d \in Dispatches |-> NewCall]

Emitted == {e \in Rows : e[2] <= version[e[1]]}

\* What a dispatch does by itself.
DispatchStep(d) ==
    \/ NextSub(d) \/ Lookup(d) \/ Resume(d) \/ Gate(d) \/ Gathered(d)
    \/ \E s \in Subs : Acquire(d, s) \/ Return(d, s) \/ Timeout(d, s)

DispatcherStep ==
    \/ \E d \in Dispatches, e \in Emitted : Emit(d, e) \/ EmitDirect(d, e)
    \/ \E d, x \in Dispatches, s \in Subs, e \in Emitted : Nest(d, s, x, e)
    \/ \E d \in Dispatches : DispatchStep(d) \/ CancelDispatch(d)
    \/ \E n \in Namespaces : Deactivate(n) \/ CreateVersion(n)

Next ==
    \/ DispatcherStep /\ UNCHANGED subscriptions
    \/ SubscriptionsMove
    \/ Restart

\* A dispatch is run by the event loop, the database answers, and a timeout is reached.
Fairness == WF_vars((\E d \in Dispatches : DispatchStep(d)) /\ UNCHANGED subscriptions)

Spec == Init /\ [][Next]_vars /\ Fairness

-------------------------------------------------------------------------------

\* Every variable has its type, a call waits for an id exactly while it looks one up, and no
\* more callbacks run than the semaphore has permits (_safe_invoke, _safe_deliver).
TypeOK ==
    /\ SubscriptionsTypeOK
    /\ version \in [Namespaces -> 1 .. MaxVersion] /\ active \in [Namespaces -> BOOLEAN]
    /\ \A id \in Ids : cache[id] \in Rows \cup {None} /\ (id \in Rows => cache[id] \in {id, None})
    /\ \A d \in Dispatches :
          /\ calls[d].pc \in Active \cup {"new", "returned"}
          /\ calls[d].pc \in {"ask", "got"} <=> calls[d].asked # None
          /\ calls[d].matched \cup calls[d].missed \subseteq Subs
    /\ Cardinality(Invocations) <= Permits

(* A scoped subscription never matches an event of another namespace,      *)
(* whatever the cache holds, whichever lookups fail and whatever version   *)
(* becomes active during the check.                                        *)
NoLeak ==
    \A d \in Dispatches : \A s \in calls[d].matched :
        Scope[s] # None => calls[d].event[1] = (IF Scope[s] \in Rows THEN Scope[s][1] ELSE Scope[s])

(* The cache heals: an event of the active version is in scope for a       *)
(* subscription to its stable id, even when the cache predates the version *)
(* - unless a lookup fails, a version is made during the check, or a       *)
(* lookup from before the version is still under way when the check begins.*)
StaleHeals == \A d \in Dispatches : calls[d].missed = {}

(* Every dispatch returns: a callback that hangs, or that dispatches while *)
(* it holds the last permit of the semaphore, delays it by its timeout.    *)
DispatchReturns == \A d \in Dispatches : (calls[d].pc \in Active) ~> (calls[d].pc = "returned")
=============================================================================
