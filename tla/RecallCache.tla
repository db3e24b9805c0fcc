---------------------------- MODULE RecallCache ----------------------------
(***************************************************************************)
(* The epoch-invalidated recall result cache of the VectorCypher engine    *)
(* (engines/vectorcypher/recall_cache.py), the recalls that read and fill  *)
(* it and the writers that invalidate it (engine.py, khora.py).            *)
(*                                                                         *)
(* A recall result is abstracted to the version of the namespace's storage *)
(* it was computed from: version[ns] counts the durable mutations of ns.   *)
(* The many parameters of one recall (query text, mode, limit, filters,    *)
(* configuration fingerprint) are one member of Queries: sha256 over them  *)
(* is taken to be injective.  Wall-clock expiry is a choice made at the    *)
(* lookup, where the code compares the entry's age with the TTL.           *)
(***************************************************************************)
EXTENDS Naturals, Sequences, FiniteSets

CONSTANTS
    Namespaces,     \* namespace ids
    Queries,        \* result-affecting inputs of one recall, namespace and epoch apart
    Recalls,        \* concurrent recall() tasks
    Writers,        \* concurrent write tasks
    WriteKinds,     \* kinds of write that happen, a subset of AllKinds
    MaxSize,        \* result_cache_max_size; 0 disables the cache
    EpochsCap,      \* cap of the epoch map: max(max_size, 1000) in the code
    MaxVersion,     \* bound: durable mutations per namespace
    None            \* no namespace, no query

(* remember: remember(), replace and remember_batch() of this engine, and  *)
(* dream-apply and delete_namespace through the facade: mutate, then       *)
(* bump the namespace's epoch.  forget: bumps, then deletes the row.       *)
(* staged: process_staged_document, run by the pending processor.          *)
(* undo: dream_undo, which bumps all the epochs.                           *)
AllKinds == {"remember", "forget", "staged", "undo"}

ASSUME ConstantsAssumption ==
    /\ WriteKinds \subseteq AllKinds
    /\ MaxSize \in Nat /\ EpochsCap \in Nat \ {0} /\ MaxSize <= EpochsCap
    /\ MaxVersion \in Nat

VARIABLES
    store,          \* _store: the OrderedDict of entries, oldest first
    epochs,         \* _epochs: the write epoch of a namespace, 0 when it has no entry
    epochOrder,     \* _epochs: its keys, least recently used first
    version,        \* durable mutations of each namespace so far
    invalidated,    \* history: version[ns] when ns was last invalidated
    acked,          \* history: newest version some returned write of ns had made
    recall,         \* the recall() tasks
    writer          \* the write tasks

vars == <<store, epochs, epochOrder, version, invalidated, acked, recall, writer>>

Entry == [ns : Namespaces, query : Queries, epoch : Nat, result : Nat]

RecallTask == [pc : {"idle", "get", "retrieve", "set", "done"},
               ns : Namespaces \cup {None}, query : Queries \cup {None},
               epoch : Nat, result : Nat, invalidated : Nat, acked : Nat]

IdleRecall == [pc |-> "idle", ns |-> None, query |-> None, epoch |-> 0, result |-> 0,
               invalidated |-> 0, acked |-> 0]

WriteTask == [pc : {"idle", "writing", "deleting", "returning"},
              kind : AllKinds \cup {None}, ns : Namespaces \cup {None}, wrote : Nat]

IdleWriter == [pc |-> "idle", kind |-> None, ns |-> None, wrote |-> 0]

-----------------------------------------------------------------------------
(* The OrderedDict operations the cache uses.                              *)

\* del d[key]: the sequence without position i.
Drop(s, i) == [j \in 1..(Len(s) - 1) |-> IF j < i THEN s[j] ELSE s[j + 1]]

\* The positions of _store (at most one) that hold the digest of these inputs.
Digest(ns, query, epoch) ==
    {i \in DOMAIN store : /\ store[i].ns = ns
                          /\ store[i].query = query
                          /\ store[i].epoch = epoch}

\* move_to_end of ns in the epoch map, adding it when it is missing.
Touch(ns) ==
    IF \E i \in DOMAIN epochOrder : epochOrder[i] = ns
    THEN Append(Drop(epochOrder, CHOOSE i \in DOMAIN epochOrder : epochOrder[i] = ns), ns)
    ELSE Append(epochOrder, ns)

Seen(ns) == \E i \in DOMAIN epochOrder : epochOrder[i] = ns

\* bump_epoch: the namespace's epoch goes up, and the least recently used
\* namespace leaves a map that is over its cap (its epoch is 0 again).
BumpEpoch(ns) ==
    LET bumped == [epochs EXCEPT ![ns] = @ + 1]
        order  == Touch(ns)
    IN  /\ IF Len(order) > EpochsCap
           THEN /\ epochOrder' = Tail(order)
                /\ epochs' = [bumped EXCEPT ![Head(order)] = 0]
           ELSE /\ epochOrder' = order
                /\ epochs' = bumped
        /\ invalidated' = [invalidated EXCEPT ![ns] = version[ns]]
        /\ UNCHANGED store

\* bump_all_epochs: every namespace in the epoch map, and the store is dropped.
BumpAllEpochs ==
    /\ epochs' = [ns \in Namespaces |-> IF Seen(ns) THEN epochs[ns] + 1 ELSE epochs[ns]]
    /\ invalidated' = [ns \in Namespaces |-> IF Seen(ns) THEN version[ns] ELSE invalidated[ns]]
    /\ store' = <<>>
    /\ UNCHANGED epochOrder

\* A faulty Put: nothing is evicted.
PutUnbounded(entry) ==
    LET same == Digest(entry.ns, entry.query, entry.epoch)
    IN  Append(IF same = {} THEN store ELSE Drop(store, CHOOSE i \in same : TRUE), entry)

\* The entry goes to the end of _store, replacing one with its key, and the
\* oldest entry leaves a store that is over max_size.
Put(entry) ==
    LET same == Digest(entry.ns, entry.query, entry.epoch)
        kept == IF same = {} THEN store ELSE Drop(store, CHOOSE i \in same : TRUE)
        full == Append(kept, entry)
    IN  IF Len(full) > MaxSize THEN Tail(full) ELSE full

-----------------------------------------------------------------------------
(* recall(): one action per step between which other tasks may run.        *)

\* current_epoch: the epoch captured at recall start, touched on read.
StartRecall(r, ns, query) ==
    /\ recall[r].pc = "idle"
    /\ recall' = [recall EXCEPT ![r] =
          [pc |-> "get", ns |-> ns, query |-> query, epoch |-> epochs[ns], result |-> 0,
           invalidated |-> invalidated[ns], acked |-> acked[ns]]]
    /\ epochOrder' = IF Seen(ns) THEN Touch(ns) ELSE epochOrder
    /\ UNCHANGED <<store, epochs, version, invalidated, acked, writer>>

\* get: a fresh entry is served and becomes the most recently used one.
GetHit(r) ==
    LET same == Digest(recall[r].ns, recall[r].query, recall[r].epoch)
    IN  /\ recall[r].pc = "get"
        /\ MaxSize > 0
        /\ \E i \in same :
              /\ store' = Append(Drop(store, i), store[i])
              /\ recall' = [recall EXCEPT ![r] = [@ EXCEPT !.pc = "done", !.result = store[i].result]]
        /\ UNCHANGED <<epochs, epochOrder, version, invalidated, acked, writer>>

\* get: an expired entry is deleted; that, no entry and a disabled cache are misses.
GetMiss(r) ==
    LET same == Digest(recall[r].ns, recall[r].query, recall[r].epoch)
    IN  /\ recall[r].pc = "get"
        /\ \/ MaxSize > 0 /\ \E i \in same : store' = Drop(store, i)
           \/ (MaxSize = 0 \/ same = {}) /\ UNCHANGED store
        /\ recall' = [recall EXCEPT ![r].pc = "retrieve"]
        /\ UNCHANGED <<epochs, epochOrder, version, invalidated, acked, writer>>

\* The retrieval pipeline reads the stores.
Retrieve(r) ==
    /\ recall[r].pc = "retrieve"
    /\ recall' = [recall EXCEPT ![r].pc = "set", ![r].result = version[recall[r].ns]]
    /\ UNCHANGED <<store, epochs, epochOrder, version, invalidated, acked, writer>>

\* A faulty SetResult: the entry is filed under the epoch of the moment, not under
\* the one captured when the recall started.
SetResultLateEpoch(r) ==
    /\ recall[r].pc = "set"
    /\ store' = IF MaxSize > 0
                THEN Put([ns |-> recall[r].ns, query |-> recall[r].query,
                          epoch |-> epochs[recall[r].ns], result |-> recall[r].result])
                ELSE store
    /\ recall' = [recall EXCEPT ![r].pc = "done"]
    /\ UNCHANGED <<epochs, epochOrder, version, invalidated, acked, writer>>

\* set: refused when the epoch moved since the recall started.
SetResult(r) ==
    /\ recall[r].pc = "set"
    /\ store' = IF MaxSize > 0 /\ epochs[recall[r].ns] = recall[r].epoch
                THEN Put([ns |-> recall[r].ns, query |-> recall[r].query,
                          epoch |-> recall[r].epoch, result |-> recall[r].result])
                ELSE store
    /\ recall' = [recall EXCEPT ![r].pc = "done"]
    /\ UNCHANGED <<epochs, epochOrder, version, invalidated, acked, writer>>

\* The result is with the caller; the task is free for another recall.
FinishRecall(r) ==
    /\ recall[r].pc = "done"
    /\ recall' = [recall EXCEPT ![r] = IdleRecall]
    /\ UNCHANGED <<store, epochs, epochOrder, version, invalidated, acked, writer>>

-----------------------------------------------------------------------------
(* Writers.                                                                *)

BeginWrite(w, kind, ns) ==
    /\ writer[w].pc = "idle"
    /\ writer' = [writer EXCEPT ![w] = [pc |-> "writing", kind |-> kind, ns |-> ns, wrote |-> 0]]
    /\ UNCHANGED <<store, epochs, epochOrder, version, invalidated, acked, recall>>

\* One durable mutation: a window of chunks, an entity batch, a deletion.
Mutate(w) ==
    LET ns == writer[w].ns
    IN  /\ writer[w].pc = "writing"
        /\ version[ns] < MaxVersion
        /\ version' = [version EXCEPT ![ns] = @ + 1]
        /\ writer' = [writer EXCEPT ![w].wrote = version[ns] + 1]
        /\ UNCHANGED <<store, epochs, epochOrder, invalidated, acked, recall>>

\* remember, replace, remember_batch, invalidate_recall_cache: bump, then return.
\* forget: bump, then delete the document row.
Invalidate(w) ==
    /\ writer[w].pc = "writing" /\ writer[w].wrote > 0
    /\ writer[w].kind \in {"remember", "forget"}
    /\ BumpEpoch(writer[w].ns)
    /\ writer' = [writer EXCEPT ![w].pc = IF writer[w].kind = "forget" THEN "deleting" ELSE "returning"]
    /\ UNCHANGED <<version, acked, recall>>

\* dream_undo: invalidate_all_recall_cache.
InvalidateAll(w) ==
    /\ writer[w].pc = "writing" /\ writer[w].wrote > 0
    /\ writer[w].kind = "undo"
    /\ BumpAllEpochs
    /\ writer' = [writer EXCEPT ![w].pc = "returning"]
    /\ UNCHANGED <<version, acked, recall>>

\* process_staged_document completes the document and leaves the epoch alone.
CompleteStaged(w) ==
    /\ writer[w].pc = "writing" /\ writer[w].wrote > 0
    /\ writer[w].kind = "staged"
    /\ writer' = [writer EXCEPT ![w].pc = "returning"]
    /\ UNCHANGED <<store, epochs, epochOrder, version, invalidated, acked, recall>>

\* forget's last step: the row, and with it the chunks the full-text fallback reads.
DeleteDocument(w) ==
    LET ns == writer[w].ns
    IN  /\ writer[w].pc = "deleting"
        /\ version[ns] < MaxVersion
        /\ version' = [version EXCEPT ![ns] = @ + 1]
        /\ writer' = [writer EXCEPT ![w].pc = "returning", ![w].wrote = version[ns] + 1]
        /\ UNCHANGED <<store, epochs, epochOrder, invalidated, acked, recall>>

ReturnWrite(w) ==
    LET ns == writer[w].ns
    IN  /\ writer[w].pc = "returning"
        /\ acked' = [acked EXCEPT ![ns] = IF writer[w].wrote > @ THEN writer[w].wrote ELSE @]
        /\ writer' = [writer EXCEPT ![w] = IdleWriter]
        /\ UNCHANGED <<store, epochs, epochOrder, version, invalidated, recall>>

\* A store raises: the operation fails with what it wrote in place and no bump.
FailWrite(w) ==
    /\ writer[w].pc \in {"writing", "deleting"}
    /\ writer' = [writer EXCEPT ![w] = IdleWriter]
    /\ UNCHANGED <<store, epochs, epochOrder, version, invalidated, acked, recall>>

\* clear: the engine disconnects (the epochs stay).
Clear ==
    /\ store # <<>>
    /\ store' = <<>>
    /\ UNCHANGED <<epochs, epochOrder, version, invalidated, acked, recall, writer>>

-----------------------------------------------------------------------------
Init ==
    /\ store = <<>>
    /\ epochs = [ns \in Namespaces |-> 0]
    /\ epochOrder = <<>>
    /\ version = [ns \in Namespaces |-> 0]
    /\ invalidated = [ns \in Namespaces |-> 0]
    /\ acked = [ns \in Namespaces |-> 0]
    /\ recall = [r \in Recalls |-> IdleRecall]
    /\ writer = [w \in Writers |-> IdleWriter]

RecallStep(r) ==
    \/ \E ns \in Namespaces, query \in Queries : StartRecall(r, ns, query)
    \/ GetHit(r) \/ GetMiss(r) \/ Retrieve(r) \/ SetResult(r) \/ FinishRecall(r)

WriteStep(w) ==
    \/ \E kind \in WriteKinds, ns \in Namespaces : BeginWrite(w, kind, ns)
    \/ Mutate(w) \/ Invalidate(w) \/ InvalidateAll(w) \/ CompleteStaged(w)
    \/ DeleteDocument(w) \/ ReturnWrite(w) \/ FailWrite(w)

Next ==
    \/ \E r \in Recalls : RecallStep(r)
    \/ \E w \in Writers : WriteStep(w)
    \/ Clear

Spec == Init /\ [][Next]_vars

-----------------------------------------------------------------------------
CacheType ==
    /\ store \in Seq(Entry) /\ Len(store) <= MaxSize
    /\ epochs \in [Namespaces -> Nat]
    /\ epochOrder \in Seq(Namespaces) /\ Len(epochOrder) <= EpochsCap

HistoryType ==
    /\ version \in [Namespaces -> Nat]
    /\ invalidated \in [Namespaces -> Nat]
    /\ acked \in [Namespaces -> Nat]

RecallType ==
    /\ recall \in [Recalls -> RecallTask]
    /\ \A r \in Recalls : recall[r].pc # "idle" => /\ recall[r].ns \in Namespaces
                                                  /\ recall[r].query \in Queries

WriterType ==
    /\ writer \in [Writers -> WriteTask]
    /\ \A w \in Writers : writer[w].pc # "idle" => writer[w].ns \in Namespaces

\* Every variable of the cache and of its users has its type, a busy task names
\* its namespace, and both OrderedDicts stay within their caps (recall_cache.py).
TypeOK ==
    /\ CacheType
    /\ HistoryType
    /\ RecallType
    /\ WriterType

\* A recall that starts after its namespace was invalidated never returns a
\* result computed from the storage as it was before that invalidation, whether
\* the result comes from the cache or from a racing recall (recall, get, set).
NoStaleAfterBump ==
    \A r \in Recalls : recall[r].pc = "done" => recall[r].result >= recall[r].invalidated

\* A recall that starts after a write to its namespace has returned reflects that
\* write, whatever its kind: "a post-write query can never hit a stale entry"
\* (engine.py, recall), "Called on ANY write to the namespace" (bump_epoch).
ReadYourWrites ==
    \A r \in Recalls : recall[r].pc = "done" => recall[r].result >= recall[r].acked

-----------------------------------------------------------------------------
(* The inductive strengthening of NoStaleAfterBump, for an epoch map that  *)
(* never has to evict.                                                     *)

Elements(s) == {s[i] : i \in DOMAIN s}

\* A namespace occurs once in the epoch map.
OrderInv == \A i, j \in DOMAIN epochOrder : epochOrder[i] = epochOrder[j] => i = j

\* An entry is keyed with an epoch its namespace has reached; one of the current
\* epoch is no older than the last invalidation, and no entry is older than the
\* invalidation a recall holding its epoch has seen.
EntryInv ==
    \A e \in Elements(store) :
        /\ e.epoch <= epochs[e.ns]
        /\ e.epoch = epochs[e.ns] => e.result >= invalidated[e.ns]
        /\ \A r \in Recalls : /\ recall[r].pc # "idle"
                               /\ recall[r].ns = e.ns
                               /\ recall[r].epoch = e.epoch
                              => e.result >= recall[r].invalidated

\* A recall whose epoch is current has seen the last invalidation.
RecallInv ==
    \A r \in Recalls : recall[r].pc # "idle" =>
        /\ recall[r].epoch <= epochs[recall[r].ns]
        /\ recall[r].epoch = epochs[recall[r].ns] =>
              recall[r].invalidated = invalidated[recall[r].ns]
        /\ recall[r].invalidated <= version[recall[r].ns]
        /\ recall[r].pc \in {"set", "done"} => recall[r].result >= recall[r].invalidated

EpochInv ==
    /\ TypeOK
    /\ OrderInv
    /\ \A ns \in Namespaces : invalidated[ns] <= version[ns]
    /\ EntryInv
    /\ RecallInv

=============================================================================
