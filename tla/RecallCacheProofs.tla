------------------------ MODULE RecallCacheProofs --------------------------
(***************************************************************************)
(* What the recall cache guarantees for any number of namespaces, queries, *)
(* recalls and writers, of any kind.                                       *)
(***************************************************************************)
EXTENDS RecallCache, FiniteSetTheorems, TLAPS

-----------------------------------------------------------------------------
(* The sequences that stand for the OrderedDicts.                          *)

\* Deleting a position of an OrderedDict keeps the other items (del d[key]).
LEMMA DropElements ==
    ASSUME NEW S, NEW s \in Seq(S), NEW i \in DOMAIN s
    PROVE  /\ Drop(s, i) \in Seq(S)
           /\ Len(Drop(s, i)) = Len(s) - 1
           /\ Elements(Drop(s, i)) \subseteq Elements(s)
  <1>1. Len(s) \in Nat /\ DOMAIN s = 1..Len(s) /\ i \in 1..Len(s)
    OBVIOUS
  <1>2. DOMAIN Drop(s, i) = 1..(Len(s) - 1) /\ Len(s) - 1 \in Nat
    BY <1>1 DEF Drop
  <1>3. ASSUME NEW j \in 1..(Len(s) - 1)
        PROVE  \E k \in DOMAIN s : Drop(s, i)[j] = s[k]
    BY <1>1 DEF Drop
  <1>4. Drop(s, i) \in [1..(Len(s) - 1) -> S]
    BY <1>1 DEF Drop
  <1>5. Drop(s, i) \in Seq(S) /\ Len(Drop(s, i)) = Len(s) - 1
    BY <1>2, <1>4
  <1> QED
    BY <1>2, <1>3, <1>5 DEF Elements

\* Adding an item at the end of an OrderedDict (d[key] = value, move_to_end).
LEMMA AppendElements ==
    ASSUME NEW S, NEW s \in Seq(S), NEW e \in S
    PROVE  /\ Append(s, e) \in Seq(S)
           /\ Len(Append(s, e)) = Len(s) + 1
           /\ Elements(Append(s, e)) \subseteq Elements(s) \cup {e}
  BY DEF Elements

\* Taking the first item of an OrderedDict away (popitem(last=False)).
LEMMA TailElements ==
    ASSUME NEW S, NEW s \in Seq(S), Len(s) > 0
    PROVE  /\ Tail(s) \in Seq(S)
           /\ Len(Tail(s)) = Len(s) - 1
           /\ Elements(Tail(s)) \subseteq Elements(s)
  BY DEF Elements

\* Touching a namespace adds it at most once (_epochs.move_to_end).
LEMMA TouchType ==
    ASSUME epochOrder \in Seq(Namespaces), NEW ns \in Namespaces
    PROVE  /\ Touch(ns) \in Seq(Namespaces)
           /\ Len(Touch(ns)) = IF Seen(ns) THEN Len(epochOrder) ELSE Len(epochOrder) + 1
  <1>1. CASE Seen(ns)
    <2> DEFINE i == CHOOSE i \in DOMAIN epochOrder : epochOrder[i] = ns
    <2>1. i \in DOMAIN epochOrder
      BY <1>1 DEF Seen
    <2>2. /\ Drop(epochOrder, i) \in Seq(Namespaces)
          /\ Len(Drop(epochOrder, i)) = Len(epochOrder) - 1
      BY <2>1, DropElements
    <2>3. Touch(ns) = Append(Drop(epochOrder, i), ns)
      BY <1>1 DEF Touch, Seen
    <2> HIDE DEF i
    <2> DEFINE d == Drop(epochOrder, i)
    <2>4. d \in Seq(Namespaces) /\ Len(d) = Len(epochOrder) - 1 /\ Touch(ns) = Append(d, ns)
      BY <2>2, <2>3
    <2> HIDE DEF d
    <2> QED
      BY <1>1, <2>4, AppendElements
  <1>2. CASE ~Seen(ns)
    <2>1. Touch(ns) = Append(epochOrder, ns)
      BY <1>2 DEF Touch, Seen
    <2> QED
      BY <1>2, <2>1
  <1> QED
    BY <1>1, <1>2

\* Storing an entry keeps the store within max_size and adds nothing else (set).
LEMMA PutType ==
    ASSUME store \in Seq(Entry), Len(store) <= MaxSize, MaxSize > 0, NEW e \in Entry
    PROVE  /\ Put(e) \in Seq(Entry)
           /\ Len(Put(e)) <= MaxSize
           /\ Elements(Put(e)) \subseteq Elements(store) \cup {e}
  <1> DEFINE same == Digest(e.ns, e.query, e.epoch)
             kept == IF same = {} THEN store ELSE Drop(store, CHOOSE i \in same : TRUE)
             full == Append(kept, e)
  <1>1. /\ kept \in Seq(Entry) /\ Len(kept) <= MaxSize
        /\ Elements(kept) \subseteq Elements(store)
    <2>1. CASE same = {}
      BY <2>1
    <2>2. CASE same # {}
      <3>1. (CHOOSE i \in same : TRUE) \in DOMAIN store
        BY <2>2 DEF Digest
      <3> DEFINE i == CHOOSE i \in same : TRUE
      <3>2. i \in DOMAIN store /\ kept = Drop(store, i)
        BY <2>2, <3>1
      <3> HIDE DEF i, kept
      <3>3. /\ Drop(store, i) \in Seq(Entry) /\ Len(Drop(store, i)) = Len(store) - 1
            /\ Elements(Drop(store, i)) \subseteq Elements(store)
        BY <3>2, DropElements
      <3> QED
        BY <3>2, <3>3, ConstantsAssumption
    <2> QED
      BY <2>1, <2>2
  <1>2. /\ full \in Seq(Entry) /\ Len(full) = Len(kept) + 1
        /\ Elements(full) \subseteq Elements(store) \cup {e}
    <2> HIDE DEF kept
    <2> QED
      BY <1>1, AppendElements
  <1>3. Put(e) = IF Len(full) > MaxSize THEN Tail(full) ELSE full
    BY DEF Put
  <1>4. Len(kept) \in Nat
    BY <1>1
  <1> HIDE DEF full, kept
  <1>5. CASE Len(full) > MaxSize
    <2>1. /\ Tail(full) \in Seq(Entry) /\ Len(Tail(full)) = Len(full) - 1
          /\ Elements(Tail(full)) \subseteq Elements(full)
      BY <1>2, <1>4, TailElements
    <2> QED
      BY <1>1, <1>2, <1>3, <1>4, <1>5, <2>1, ConstantsAssumption
  <1>6. CASE ~(Len(full) > MaxSize)
    BY <1>1, <1>2, <1>3, <1>4, <1>6, ConstantsAssumption
  <1> QED
    BY <1>5, <1>6

\* What one step of the epoch map does to its type (bump_epoch).
LEMMA BumpType ==
    ASSUME TypeOK, NEW ns \in Namespaces, BumpEpoch(ns)
    PROVE  /\ epochs' \in [Namespaces -> Nat]
           /\ epochOrder' \in Seq(Namespaces) /\ Len(epochOrder') <= EpochsCap
           /\ invalidated' = [invalidated EXCEPT ![ns] = version[ns]]
           /\ store' = store
  <1> DEFINE order == Touch(ns)
             bumped == [epochs EXCEPT ![ns] = @ + 1]
  <1>1. order \in Seq(Namespaces) /\ Len(order) <= Len(epochOrder) + 1 /\ Len(epochOrder) \in Nat
    BY TouchType DEF TypeOK, CacheType
  <1>2. bumped \in [Namespaces -> Nat]
    BY DEF TypeOK, CacheType, HistoryType
  <1>3. /\ IF Len(order) > EpochsCap
           THEN /\ epochOrder' = Tail(order)
                /\ epochs' = [bumped EXCEPT ![Head(order)] = 0]
           ELSE epochOrder' = order /\ epochs' = bumped
        /\ invalidated' = [invalidated EXCEPT ![ns] = version[ns]]
        /\ store' = store
    BY DEF BumpEpoch
  <1> HIDE DEF order, bumped
  <1>4. CASE Len(order) > EpochsCap
    <2>1. Tail(order) \in Seq(Namespaces) /\ Len(Tail(order)) = Len(order) - 1
      BY <1>1, <1>4, ConstantsAssumption
    <2>2. epochs' \in [Namespaces -> Nat]
      BY <1>2, <1>3, <1>4
    <2>3. Len(Tail(order)) <= EpochsCap
      BY <1>1, <2>1, ConstantsAssumption DEF TypeOK, CacheType
    <2> QED
      BY <1>3, <1>4, <2>1, <2>2, <2>3
  <1>5. CASE ~(Len(order) > EpochsCap)
    BY <1>1, <1>2, <1>3, <1>5, ConstantsAssumption
  <1> QED
    BY <1>3, <1>4, <1>5

-----------------------------------------------------------------------------
(* Type correctness.                                                       *)

\* A task that moves on within its type keeps the types of the other tasks.
LEMMA RecallUpdate ==
    ASSUME RecallType, NEW r \in Recalls, NEW task \in RecallTask,
           task.pc # "idle" => task.ns \in Namespaces /\ task.query \in Queries,
           recall' = [recall EXCEPT ![r] = task]
    PROVE  RecallType'
  BY DEF RecallType

\* The same of the write tasks.
LEMMA WriterUpdate ==
    ASSUME WriterType, NEW w \in Writers, NEW task \in WriteTask,
           task.pc # "idle" => task.ns \in Namespaces,
           writer' = [writer EXCEPT ![w] = task]
    PROVE  WriterType'
  BY DEF WriterType

\* One step keeps the types of the cache and of the tasks around it.
LEMMA TypeStep ==
    ASSUME TypeOK, [Next]_vars
    PROVE  TypeOK'
  <1> USE DEF TypeOK
  <1>1. ASSUME NEW r \in Recalls, NEW ns \in Namespaces, NEW query \in Queries,
               StartRecall(r, ns, query)
        PROVE  TypeOK'
    <2>1. epochOrder' \in Seq(Namespaces) /\ Len(epochOrder') <= EpochsCap
      BY <1>1, TouchType DEF StartRecall, CacheType
    <2> DEFINE task == [pc |-> "get", ns |-> ns, query |-> query, epoch |-> epochs[ns],
                        result |-> 0, invalidated |-> invalidated[ns], acked |-> acked[ns]]
    <2>2. task \in RecallTask
      BY DEF RecallTask, CacheType, HistoryType
    <2>3. RecallType'
      BY <1>1, <2>2, RecallUpdate DEF StartRecall
    <2> QED
      BY <1>1, <2>1, <2>3 DEF StartRecall, CacheType, HistoryType, WriterType
  <1>2. ASSUME NEW r \in Recalls, GetHit(r)
        PROVE  TypeOK'
    <2>1. PICK i \in DOMAIN store :
             /\ store' = Append(Drop(store, i), store[i])
             /\ recall' = [recall EXCEPT ![r] = [@ EXCEPT !.pc = "done", !.result = store[i].result]]
      BY <1>2 DEF GetHit, Digest
    <2>2. Drop(store, i) \in Seq(Entry) /\ Len(Drop(store, i)) = Len(store) - 1
      BY DropElements DEF CacheType
    <2>3. store[i] \in Entry
      BY DEF CacheType
    <2>6. store[i].result \in Nat
      BY <2>3 DEF Entry
    <2>4. store' \in Seq(Entry) /\ Len(store') = Len(store)
      <3> DEFINE d == Drop(store, i)
      <3>1. d \in Seq(Entry) /\ Len(d) = Len(store) - 1 /\ store' = Append(d, store[i])
        BY <2>1, <2>2
      <3> HIDE DEF d
      <3> QED
        BY <2>3, <3>1 DEF CacheType
    <2>5. RecallType'
      <3> DEFINE n == store[i].result
                 task == [recall[r] EXCEPT !.pc = "done", !.result = n]
      <3>1. n \in Nat /\ recall' = [recall EXCEPT ![r] = task]
        BY <2>1, <2>6
      <3>2. recall[r] \in RecallTask /\ recall[r].ns \in Namespaces /\ recall[r].query \in Queries
        BY <1>2 DEF GetHit, RecallType
      <3> HIDE DEF n
      <3>3. task \in RecallTask /\ task.ns \in Namespaces /\ task.query \in Queries
        BY <3>1, <3>2 DEF RecallTask
      <3> HIDE DEF task
      <3> QED
        BY <3>1, <3>3, RecallUpdate
    <2> QED
      BY <1>2, <2>4, <2>5 DEF GetHit, CacheType, HistoryType, WriterType
  <1>3. ASSUME NEW r \in Recalls, GetMiss(r)
        PROVE  TypeOK'
    <2>1. store' \in Seq(Entry) /\ Len(store') <= MaxSize
      <3>1. CASE store' = store
        BY <3>1 DEF CacheType
      <3>2. CASE \E i \in DOMAIN store : store' = Drop(store, i)
        <4>1. PICK i \in DOMAIN store : store' = Drop(store, i)
          BY <3>2
        <4>2. store' \in Seq(Entry) /\ Len(store') = Len(store) - 1
          BY <4>1, DropElements DEF CacheType
        <4> QED
          BY <4>2, ConstantsAssumption DEF CacheType
      <3> QED
        BY <1>3, <3>1, <3>2 DEF GetMiss, Digest
    <2>2. RecallType'
      BY <1>3 DEF GetMiss, RecallType, RecallTask
    <2> QED
      BY <1>3, <2>1, <2>2 DEF GetMiss, CacheType, HistoryType, WriterType
  <1>4. ASSUME NEW r \in Recalls, Retrieve(r)
        PROVE  TypeOK'
    <2>1. version[recall[r].ns] \in Nat
      BY <1>4 DEF Retrieve, RecallType, HistoryType
    <2>2. RecallType'
      BY ZenonT(30), <1>4, <2>1 DEF Retrieve, RecallType, RecallTask
    <2> QED
      BY <1>4, <2>2 DEF Retrieve, CacheType, HistoryType, WriterType
  <1>5. ASSUME NEW r \in Recalls, SetResult(r)
        PROVE  TypeOK'
    <2> DEFINE e == [ns |-> recall[r].ns, query |-> recall[r].query,
                     epoch |-> recall[r].epoch, result |-> recall[r].result]
    <2>1. e \in Entry
      BY <1>5 DEF SetResult, RecallType, RecallTask, Entry
    <2>2. store' = store \/ (MaxSize > 0 /\ store' = Put(e))
      BY <1>5 DEF SetResult
    <2> HIDE DEF e
    <2>3. store' \in Seq(Entry) /\ Len(store') <= MaxSize
      BY <2>1, <2>2, PutType DEF CacheType
    <2>4. RecallType'
      BY <1>5 DEF SetResult, RecallType, RecallTask
    <2> QED
      BY <1>5, <2>3, <2>4 DEF SetResult, CacheType, HistoryType, WriterType
  <1>6. ASSUME NEW r \in Recalls, FinishRecall(r)
        PROVE  TypeOK'
    <2>1. IdleRecall \in RecallTask /\ IdleRecall.pc = "idle"
      BY DEF IdleRecall, RecallTask
    <2>2. RecallType'
      BY <1>6, <2>1, RecallUpdate DEF FinishRecall
    <2> QED
      BY <1>6, <2>2 DEF FinishRecall, CacheType, HistoryType, WriterType
  <1>7. ASSUME NEW w \in Writers, NEW kind \in WriteKinds, NEW ns \in Namespaces,
               BeginWrite(w, kind, ns)
        PROVE  TypeOK'
    <2> DEFINE task == [pc |-> "writing", kind |-> kind, ns |-> ns, wrote |-> 0]
    <2>1. task \in WriteTask
      BY ConstantsAssumption DEF WriteTask
    <2>2. WriterType'
      BY <1>7, <2>1, WriterUpdate DEF BeginWrite
    <2> QED
      BY <1>7, <2>2 DEF BeginWrite, CacheType, HistoryType, RecallType
  <1>8. ASSUME NEW w \in Writers, Mutate(w)
        PROVE  TypeOK'
    <2>1. writer[w].ns \in Namespaces /\ version[writer[w].ns] + 1 \in Nat
      BY <1>8 DEF Mutate, WriterType, HistoryType
    <2>2. WriterType'
      BY <1>8, <2>1 DEF Mutate, WriterType, WriteTask
    <2>3. HistoryType'
      BY <1>8, <2>1 DEF Mutate, HistoryType
    <2> QED
      BY <1>8, <2>2, <2>3 DEF Mutate, CacheType, RecallType
  <1>9. ASSUME NEW w \in Writers, Invalidate(w)
        PROVE  TypeOK'
    <2>1. writer[w].ns \in Namespaces /\ BumpEpoch(writer[w].ns)
      BY <1>9 DEF Invalidate, WriterType
    <2>2. CacheType' /\ HistoryType'
      BY <1>9, <2>1, BumpType DEF Invalidate, CacheType, HistoryType
    <2>3. WriterType'
      BY <1>9 DEF Invalidate, WriterType, WriteTask
    <2> QED
      BY <1>9, <2>2, <2>3 DEF Invalidate, RecallType
  <1>10. ASSUME NEW w \in Writers, InvalidateAll(w)
         PROVE  TypeOK'
    <2>1. CacheType' /\ HistoryType'
      BY <1>10, ConstantsAssumption DEF InvalidateAll, BumpAllEpochs, CacheType, HistoryType
    <2>2. WriterType'
      BY <1>10 DEF InvalidateAll, WriterType, WriteTask
    <2> QED
      BY <1>10, <2>1, <2>2 DEF InvalidateAll, RecallType
  <1>11. ASSUME NEW w \in Writers, CompleteStaged(w)
         PROVE  TypeOK'
    <2>1. WriterType'
      BY <1>11 DEF CompleteStaged, WriterType, WriteTask
    <2> QED
      BY <1>11, <2>1 DEF CompleteStaged, CacheType, HistoryType, RecallType
  <1>12. ASSUME NEW w \in Writers, DeleteDocument(w)
         PROVE  TypeOK'
    <2>1. writer[w].ns \in Namespaces /\ version[writer[w].ns] + 1 \in Nat
      BY <1>12 DEF DeleteDocument, WriterType, HistoryType
    <2>2. WriterType'
      BY <1>12, <2>1 DEF DeleteDocument, WriterType, WriteTask
    <2>3. HistoryType'
      BY <1>12, <2>1 DEF DeleteDocument, HistoryType
    <2> QED
      BY <1>12, <2>2, <2>3 DEF DeleteDocument, CacheType, RecallType
  <1>13. ASSUME NEW w \in Writers, ReturnWrite(w)
         PROVE  TypeOK'
    <2>1. IdleWriter \in WriteTask /\ IdleWriter.pc = "idle"
      BY DEF IdleWriter, WriteTask
    <2>2. WriterType'
      BY <1>13, <2>1, WriterUpdate DEF ReturnWrite
    <2>3. HistoryType'
      BY <1>13 DEF ReturnWrite, HistoryType, WriterType, WriteTask
    <2> QED
      BY <1>13, <2>2, <2>3 DEF ReturnWrite, CacheType, RecallType
  <1>14. ASSUME NEW w \in Writers, FailWrite(w)
         PROVE  TypeOK'
    <2>1. IdleWriter \in WriteTask /\ IdleWriter.pc = "idle"
      BY DEF IdleWriter, WriteTask
    <2>2. WriterType'
      BY <1>14, <2>1, WriterUpdate DEF FailWrite
    <2> QED
      BY <1>14, <2>2 DEF FailWrite, CacheType, HistoryType, RecallType
  <1>15. ASSUME Clear
         PROVE  TypeOK'
    BY <1>15, ConstantsAssumption DEF Clear, CacheType, HistoryType, RecallType, WriterType
  <1>16. ASSUME UNCHANGED vars
         PROVE  TypeOK'
    BY <1>16 DEF vars, CacheType, HistoryType, RecallType, WriterType
  <1> QED
    BY <1>1, <1>2, <1>3, <1>4, <1>5, <1>6, <1>7, <1>8, <1>9, <1>10, <1>11, <1>12,
       <1>13, <1>14, <1>15, <1>16 DEF Next, RecallStep, WriteStep

\* The initial state of the cache has the types (RecallResultCache.__init__).
LEMMA TypeInit == Init => TypeOK
  BY ConstantsAssumption DEF Init, TypeOK, CacheType, HistoryType, RecallType, WriterType, IdleRecall, IdleWriter, RecallTask, WriteTask

\* The cache and the epoch map stay within their caps, and every task keeps its
\* type, whatever the interleaving of recalls, writes and disconnects.
THEOREM TypeCorrect == Spec => []TypeOK
  <1>1. TypeOK /\ [Next]_vars => TypeOK'
    BY TypeStep
  <1> QED
    BY <1>1, TypeInit, PTL DEF Spec

-----------------------------------------------------------------------------
(* No stale result after an invalidation.                                  *)

\* The epoch map holds a namespace once, so it never has more keys than there
\* are namespaces.
Distinct(s) == \A i, j \in DOMAIN s : s[i] = s[j] => i = j

\* An OrderedDict has at most as many keys as there are namespaces.
LEMMA DistinctLen ==
    ASSUME IsFiniteSet(Namespaces), NEW s \in Seq(Namespaces), Distinct(s)
    PROVE  Len(s) <= Cardinality(Namespaces)
  <1>1. Len(s) \in Nat /\ DOMAIN s = 1..Len(s)
    OBVIOUS
  <1>2. s \in Injection(1..Len(s), Namespaces)
    BY <1>1 DEF Distinct, Injection, IsInjective
  <1>3. Cardinality(1..Len(s)) = Len(s)
    BY <1>1, FS_Interval
  <1> QED
    BY <1>2, <1>3, FS_Injection

\* Touching a namespace keeps the keys of the epoch map distinct.
LEMMA TouchDistinct ==
    ASSUME epochOrder \in Seq(Namespaces), OrderInv, NEW ns \in Namespaces
    PROVE  Distinct(Touch(ns))
  <1>1. Len(epochOrder) \in Nat /\ DOMAIN epochOrder = 1..Len(epochOrder)
    OBVIOUS
  <1>2. CASE Seen(ns)
    <2> DEFINE i == CHOOSE i \in DOMAIN epochOrder : epochOrder[i] = ns
               d == Drop(epochOrder, i)
    <2>1. i \in DOMAIN epochOrder /\ epochOrder[i] = ns
      BY <1>2 DEF Seen
    <2>2. Touch(ns) = Append(d, ns)
      BY <1>2 DEF Touch, Seen
    <2> HIDE DEF i
    <2>3. /\ d \in Seq(Namespaces) /\ Len(d) = Len(epochOrder) - 1
          /\ \A j \in 1..Len(d) : d[j] = IF j < i THEN epochOrder[j] ELSE epochOrder[j + 1]
      BY <1>1, <2>1, DropElements DEF Drop
    <2>4. \A j \in 1..Len(d) : d[j] # ns
      BY SMTT(30), <1>1, <2>1, <2>3 DEF OrderInv
    <2>5. \A j, k \in 1..Len(d) : d[j] = d[k] => j = k
      BY SMTT(30), <1>1, <2>1, <2>3 DEF OrderInv
    <2> HIDE DEF d
    <2>6. \A j \in 1..(Len(d) + 1) : Append(d, ns)[j] = IF j <= Len(d) THEN d[j] ELSE ns
      BY <2>3
    <2> QED
      BY <2>2, <2>3, <2>4, <2>5, <2>6 DEF Distinct
  <1>3. CASE ~Seen(ns)
    <2>1. Touch(ns) = Append(epochOrder, ns)
      BY <1>3 DEF Touch, Seen
    <2>2. \A j \in 1..Len(epochOrder) : epochOrder[j] # ns
      BY <1>1, <1>3 DEF Seen
    <2> QED
      BY <1>1, <2>1, <2>2 DEF Distinct, OrderInv
  <1> QED
    BY <1>2, <1>3

\* When the cap covers the namespaces, bump_epoch evicts no epoch.
LEMMA BumpNoEviction ==
    ASSUME IsFiniteSet(Namespaces), Cardinality(Namespaces) <= EpochsCap,
           TypeOK, OrderInv, NEW ns \in Namespaces, BumpEpoch(ns)
    PROVE  /\ epochs' = [epochs EXCEPT ![ns] = @ + 1]
           /\ OrderInv'
  <1> DEFINE order == Touch(ns)
  <1>1. order \in Seq(Namespaces) /\ Distinct(order)
    BY TouchType, TouchDistinct DEF TypeOK, CacheType
  <1>2. Len(order) <= Cardinality(Namespaces)
    BY <1>1, DistinctLen
  <1>3. ~(Len(order) > EpochsCap)
    BY <1>1, <1>2, FS_CardinalityType, ConstantsAssumption
  <1>4. epochOrder' = order /\ epochs' = [epochs EXCEPT ![ns] = @ + 1]
    BY <1>3 DEF BumpEpoch
  <1> QED
    BY <1>1, <1>4 DEF OrderInv, Distinct

\* One step keeps the inductive invariant.
LEMMA EpochStep ==
    ASSUME IsFiniteSet(Namespaces), Cardinality(Namespaces) <= EpochsCap,
           EpochInv, [Next]_vars
    PROVE  EpochInv'
  <1>0. TypeOK'
    BY TypeStep DEF EpochInv
  <1> DEFINE VersionInv == \A ns \in Namespaces : invalidated[ns] <= version[ns]
  <1>a. /\ CacheType /\ HistoryType /\ RecallType /\ WriterType
        /\ CacheType' /\ HistoryType' /\ RecallType' /\ WriterType'
    BY <1>0 DEF EpochInv, TypeOK
  <1>b. \A e \in Elements(store) : e \in Entry
    BY <1>a DEF CacheType, Elements
  <1> SUFFICES OrderInv' /\ VersionInv' /\ EntryInv' /\ RecallInv'
    BY <1>0 DEF EpochInv
  <1>1. ASSUME NEW r \in Recalls, NEW ns \in Namespaces, NEW query \in Queries,
               StartRecall(r, ns, query)
        PROVE  OrderInv' /\ VersionInv' /\ EntryInv' /\ RecallInv'
    <2>1. OrderInv'
      <3>1. CASE Seen(ns)
        <4>1. epochOrder' = Touch(ns) /\ Distinct(Touch(ns))
          BY <1>1, <1>a, <3>1, TouchDistinct DEF StartRecall, CacheType, EpochInv
        <4> QED
          BY <4>1 DEF OrderInv, Distinct
      <3>2. CASE ~Seen(ns)
        BY <1>1, <3>2 DEF StartRecall, EpochInv, OrderInv
      <3> QED
        BY <3>1, <3>2
    <2>2. \A s \in Recalls : recall'[s] = IF s = r
              THEN [pc |-> "get", ns |-> ns, query |-> query, epoch |-> epochs[ns], result |-> 0,
                    invalidated |-> invalidated[ns], acked |-> acked[ns]]
              ELSE recall[s]
      BY <1>1, <1>a DEF StartRecall, RecallType
    <2>3. /\ store' = store /\ epochs' = epochs /\ version' = version
          /\ invalidated' = invalidated
      BY <1>1 DEF StartRecall
    <2>4. EntryInv'
      BY <1>b, <2>2, <2>3 DEF EntryInv, EpochInv, Entry
    <2>5. RecallInv'
      <3>1. epochs[ns] \in Nat /\ invalidated[ns] <= version[ns]
        BY <1>a DEF EpochInv, CacheType
      <3>2. /\ recall'[r].pc = "get" /\ recall'[r].ns = ns /\ recall'[r].epoch = epochs[ns]
            /\ recall'[r].invalidated = invalidated[ns]
        BY <2>2
      <3>3. \A s \in Recalls : s # r => recall'[s] = recall[s]
        BY <2>2
      <3> QED
        BY <2>3, <3>1, <3>2, <3>3 DEF RecallInv, EpochInv
    <2> QED
      BY <2>1, <2>3, <2>4, <2>5 DEF EpochInv
  <1>2. ASSUME NEW r \in Recalls, GetHit(r)
        PROVE  OrderInv' /\ VersionInv' /\ EntryInv' /\ RecallInv'
    <2>1. PICK i \in DOMAIN store :
             /\ store[i].ns = recall[r].ns /\ store[i].epoch = recall[r].epoch
             /\ store' = Append(Drop(store, i), store[i])
             /\ recall' = [recall EXCEPT ![r] = [@ EXCEPT !.pc = "done", !.result = store[i].result]]
      BY <1>2 DEF GetHit, Digest
    <2> DEFINE e == store[i]
    <2>2. e \in Entry /\ e \in Elements(store)
      BY <1>a DEF CacheType, Elements
    <2>3. Elements(store') \subseteq Elements(store)
      <3> DEFINE d == Drop(store, i)
      <3>1. d \in Seq(Entry) /\ Elements(d) \subseteq Elements(store) /\ store' = Append(d, e)
        BY <1>a, <2>1, DropElements DEF CacheType
      <3> HIDE DEF d, e
      <3> QED
        BY <2>2, <3>1, AppendElements
    <2>4. recall[r].pc = "get" /\ e.ns = recall[r].ns /\ e.epoch = recall[r].epoch
      BY <1>2, <2>1 DEF GetHit
    <2>5. e.result >= recall[r].invalidated
      BY <2>2, <2>4 DEF EpochInv, EntryInv
    <2>6. \A s \in Recalls : recall'[s] = IF s = r
              THEN [recall[s] EXCEPT !.pc = "done", !.result = e.result] ELSE recall[s]
      BY <1>a, <2>1 DEF RecallType
    <2> HIDE DEF e
    <2>7. \A s \in Recalls : /\ recall'[s].pc # "idle" <=> recall[s].pc # "idle"
                             /\ recall'[s].ns = recall[s].ns
                             /\ recall'[s].epoch = recall[s].epoch
                             /\ recall'[s].invalidated = recall[s].invalidated
                             /\ s # r => recall'[s] = recall[s]
      BY <1>a, <2>4, <2>6 DEF RecallType, RecallTask
    <2>8. recall'[r].result = e.result
      BY <1>a, <2>6 DEF RecallType, RecallTask
    <2>9. /\ epochs' = epochs /\ version' = version /\ invalidated' = invalidated
          /\ epochOrder' = epochOrder
      BY <1>2 DEF GetHit
    <2>10. EntryInv'
      BY <2>3, <2>7, <2>9 DEF EntryInv, EpochInv
    <2>11. RecallInv'
      BY <2>5, <2>7, <2>8, <2>9 DEF RecallInv, EpochInv
    <2> QED
      BY <2>9, <2>10, <2>11 DEF EpochInv, OrderInv
  <1>3. ASSUME NEW r \in Recalls, GetMiss(r)
        PROVE  OrderInv' /\ VersionInv' /\ EntryInv' /\ RecallInv'
    <2>1. Elements(store') \subseteq Elements(store)
      <3>1. store' = store \/ \E i \in DOMAIN store : store' = Drop(store, i)
        BY <1>3 DEF GetMiss, Digest
      <3> QED
        BY <1>a, <3>1, DropElements DEF CacheType
    <2>2. \A s \in Recalls : recall'[s] = IF s = r
              THEN [recall[s] EXCEPT !.pc = "retrieve"] ELSE recall[s]
      BY <1>3, <1>a DEF GetMiss, RecallType
    <2>3. recall[r].pc = "get"
      BY <1>3 DEF GetMiss
    <2>4. /\ epochs' = epochs /\ version' = version /\ invalidated' = invalidated
          /\ epochOrder' = epochOrder
      BY <1>3 DEF GetMiss
    <2>5. EntryInv'
      BY <1>a, <2>1, <2>2, <2>3, <2>4 DEF EntryInv, EpochInv, RecallType, RecallTask
    <2>6. \A s \in Recalls : /\ recall'[s].pc # "idle" <=> recall[s].pc # "idle"
                             /\ recall'[s].ns = recall[s].ns
                             /\ recall'[s].epoch = recall[s].epoch
                             /\ recall'[s].invalidated = recall[s].invalidated
                             /\ s # r => recall'[s] = recall[s]
      BY <1>a, <2>2, <2>3 DEF RecallType, RecallTask
    <2>7. recall'[r].pc = "retrieve"
      BY <1>a, <2>2 DEF RecallType, RecallTask
    <2>8. RecallInv'
      BY <2>4, <2>6, <2>7 DEF RecallInv, EpochInv
    <2> QED
      BY <2>4, <2>5, <2>8 DEF EpochInv, OrderInv
  <1>4. ASSUME NEW r \in Recalls, Retrieve(r)
        PROVE  OrderInv' /\ VersionInv' /\ EntryInv' /\ RecallInv'
    <2>1. \A s \in Recalls : recall'[s] = IF s = r
              THEN [recall[s] EXCEPT !.pc = "set", !.result = version[recall[s].ns]]
              ELSE recall[s]
      BY <1>4, <1>a DEF Retrieve, RecallType
    <2>2. /\ recall[r].pc = "retrieve" /\ store' = store /\ epochs' = epochs
          /\ version' = version /\ invalidated' = invalidated /\ epochOrder' = epochOrder
      BY <1>4 DEF Retrieve
    <2>3. \A s \in Recalls : /\ recall'[s].pc # "idle" <=> recall[s].pc # "idle"
                             /\ recall'[s].ns = recall[s].ns
                             /\ recall'[s].epoch = recall[s].epoch
                             /\ recall'[s].invalidated = recall[s].invalidated
                             /\ s # r => recall'[s] = recall[s]
      BY <1>a, <2>1, <2>2 DEF RecallType, RecallTask
    <2>4. recall'[r].result = version[recall[r].ns]
      BY <1>a, <2>1 DEF RecallType, RecallTask
    <2>5. EntryInv'
      BY <2>2, <2>3 DEF EntryInv, EpochInv
    <2>6. recall[r].invalidated <= version[recall[r].ns]
      BY <2>2 DEF EpochInv, RecallInv
    <2>7. recall[r].ns \in Namespaces /\ recall[r].invalidated \in Nat
          /\ version[recall[r].ns] \in Nat
      BY <1>a, <2>2 DEF RecallType, RecallTask, HistoryType
    <2>8. RecallInv'
      BY <2>2, <2>3, <2>4, <2>6, <2>7 DEF RecallInv, EpochInv
    <2> QED
      BY <2>2, <2>5, <2>8 DEF EpochInv, OrderInv
  <1>5. ASSUME NEW r \in Recalls, SetResult(r)
        PROVE  OrderInv' /\ VersionInv' /\ EntryInv' /\ RecallInv'
    <2> DEFINE e == [ns |-> recall[r].ns, query |-> recall[r].query,
                     epoch |-> recall[r].epoch, result |-> recall[r].result]
    <2>1. \A s \in Recalls : recall'[s] = IF s = r
              THEN [recall[s] EXCEPT !.pc = "done"] ELSE recall[s]
      BY <1>5, <1>a DEF SetResult, RecallType
    <2>2. /\ recall[r].pc = "set" /\ epochs' = epochs /\ version' = version
          /\ invalidated' = invalidated /\ epochOrder' = epochOrder
      BY <1>5 DEF SetResult
    <2>3. \A s \in Recalls : /\ recall'[s].pc # "idle" <=> recall[s].pc # "idle"
                             /\ recall'[s].ns = recall[s].ns
                             /\ recall'[s].epoch = recall[s].epoch
                             /\ recall'[s].invalidated = recall[s].invalidated
                             /\ recall'[s].result = recall[s].result
                             /\ s # r => recall'[s] = recall[s]
      BY <1>a, <2>1, <2>2 DEF RecallType, RecallTask
    <2>4. RecallInv'
      BY <2>2, <2>3 DEF RecallInv, EpochInv
    <2>5. e \in Entry
      BY <1>a, <2>2 DEF RecallType, RecallTask, Entry
    <2>6. \/ store' = store
          \/ MaxSize > 0 /\ epochs[recall[r].ns] = recall[r].epoch /\ store' = Put(e)
      BY <1>5 DEF SetResult
    <2>7. CASE store' = store
      <3>1. EntryInv'
        BY <2>2, <2>3, <2>7 DEF EntryInv, EpochInv
      <3> QED
        BY <2>2, <2>4, <3>1 DEF EpochInv, OrderInv
    <2>8. CASE MaxSize > 0 /\ epochs[recall[r].ns] = recall[r].epoch /\ store' = Put(e)
      <3>1. e.ns = recall[r].ns /\ e.epoch = recall[r].epoch /\ e.result = recall[r].result
        OBVIOUS
      <3> HIDE DEF e
      <3>2. Elements(store') \subseteq Elements(store) \cup {e}
        BY <1>a, <2>5, <2>8, PutType DEF CacheType
      <3>3. /\ recall[r].result >= recall[r].invalidated
            /\ recall[r].invalidated = invalidated[recall[r].ns]
        BY <2>2, <2>8 DEF EpochInv, RecallInv
      <3>4. \A s \in Recalls : recall[s].pc # "idle" /\ recall[s].ns = e.ns /\ recall[s].epoch = e.epoch
                => recall[s].invalidated = invalidated[e.ns]
        BY <2>8, <3>1 DEF EpochInv, RecallInv
      <3>5. /\ e.epoch <= epochs[e.ns]
            /\ e.result >= invalidated[e.ns]
            /\ \A s \in Recalls : recall[s].pc # "idle" /\ recall[s].ns = e.ns
                                  /\ recall[s].epoch = e.epoch
                  => e.result >= recall[s].invalidated
        BY <2>5, <2>8, <3>1, <3>3, <3>4 DEF Entry
      <3>6. EntryInv'
        BY <2>2, <2>3, <3>2, <3>5 DEF EntryInv, EpochInv
      <3> QED
        BY <2>2, <2>4, <3>6 DEF EpochInv, OrderInv
    <2> QED
      BY <2>6, <2>7, <2>8
  <1>6. ASSUME NEW r \in Recalls, FinishRecall(r)
        PROVE  OrderInv' /\ VersionInv' /\ EntryInv' /\ RecallInv'
    <2>1. \A s \in Recalls : recall'[s] = IF s = r THEN IdleRecall ELSE recall[s]
      BY <1>6, <1>a DEF FinishRecall, RecallType
    <2>2. UNCHANGED <<store, epochs, epochOrder, version, invalidated>> /\ IdleRecall.pc = "idle"
      BY <1>6 DEF FinishRecall, IdleRecall
    <2>3. EntryInv' /\ RecallInv'
      BY <2>1, <2>2 DEF EntryInv, RecallInv, EpochInv
    <2> QED
      BY <2>2, <2>3 DEF EpochInv, OrderInv
  <1>7. ASSUME NEW w \in Writers, \/ \E kind \in WriteKinds, ns \in Namespaces : BeginWrite(w, kind, ns)
                                  \/ CompleteStaged(w) \/ ReturnWrite(w) \/ FailWrite(w)
        PROVE  OrderInv' /\ VersionInv' /\ EntryInv' /\ RecallInv'
    <2>1. UNCHANGED <<store, epochs, epochOrder, version, invalidated, recall>>
      BY <1>7 DEF BeginWrite, CompleteStaged, ReturnWrite, FailWrite
    <2> QED
      BY <2>1 DEF EpochInv, OrderInv, EntryInv, RecallInv
  <1>8. ASSUME NEW w \in Writers, Mutate(w) \/ DeleteDocument(w)
        PROVE  OrderInv' /\ VersionInv' /\ EntryInv' /\ RecallInv'
    <2>1. /\ UNCHANGED <<store, epochs, epochOrder, invalidated, recall>>
          /\ version' = [version EXCEPT ![writer[w].ns] = @ + 1]
      BY <1>8 DEF Mutate, DeleteDocument
    <2>2. \A ns \in Namespaces : version[ns] \in Nat /\ version'[ns] >= version[ns]
      BY <1>a, <2>1 DEF HistoryType
    <2>3. VersionInv'
      BY <1>a, <2>1, <2>2 DEF EpochInv, HistoryType
    <2>4. RecallInv'
      <3>1. \A s \in Recalls : recall[s].pc # "idle" =>
                recall[s].ns \in Namespaces /\ recall[s].invalidated \in Nat
        BY <1>a DEF RecallType, RecallTask
      <3>2. \A s \in Recalls : recall[s].pc # "idle" =>
                recall[s].invalidated <= version'[recall[s].ns]
        BY <1>a, <2>2, <3>1 DEF EpochInv, RecallInv, HistoryType
      <3> QED
        BY <2>1, <3>2 DEF EpochInv, RecallInv
    <2> QED
      BY <2>1, <2>3, <2>4 DEF EpochInv, OrderInv, EntryInv
  <1>9. ASSUME NEW w \in Writers, Invalidate(w)
        PROVE  OrderInv' /\ VersionInv' /\ EntryInv' /\ RecallInv'
    <2> DEFINE n == writer[w].ns
    <2>1. n \in Namespaces /\ BumpEpoch(n) /\ UNCHANGED <<version, recall>>
      BY <1>9, <1>a DEF Invalidate, WriterType
    <2> HIDE DEF n
    <2>2. /\ epochs' = [epochs EXCEPT ![n] = @ + 1] /\ OrderInv'
          /\ invalidated' = [invalidated EXCEPT ![n] = version[n]] /\ store' = store
      BY <2>1, BumpNoEviction, BumpType DEF EpochInv
    <2>3. VersionInv'
      BY <1>a, <2>1, <2>2 DEF EpochInv, HistoryType
    <2>4. EntryInv'
      <3>1. \A e \in Elements(store) : e.ns \in Namespaces /\ e.epoch \in Nat
        BY <1>b DEF Entry
      <3>2. \A e \in Elements(store) :
               /\ e.epoch <= epochs'[e.ns]
               /\ e.epoch = epochs'[e.ns] => e.result >= invalidated'[e.ns]
        BY <1>a, <2>1, <2>2, <3>1 DEF EntryInv, EpochInv, CacheType, HistoryType
      <3> QED
        BY <2>1, <2>2, <3>2 DEF EntryInv, EpochInv
    <2>5. RecallInv'
      <3>1. \A s \in Recalls : recall[s].pc # "idle" => recall[s].ns \in Namespaces /\ recall[s].epoch \in Nat
        BY <1>a DEF RecallType, RecallTask
      <3>2. \A s \in Recalls : recall[s].pc # "idle" =>
               /\ recall[s].epoch <= epochs'[recall[s].ns]
               /\ recall[s].epoch = epochs'[recall[s].ns] =>
                     recall[s].invalidated = invalidated'[recall[s].ns]
        <4> SUFFICES ASSUME NEW s \in Recalls, recall[s].pc # "idle"
                     PROVE  /\ recall[s].epoch <= epochs'[recall[s].ns]
                            /\ recall[s].epoch = epochs'[recall[s].ns] =>
                                  recall[s].invalidated = invalidated'[recall[s].ns]
          OBVIOUS
        <4> DEFINE m == recall[s].ns
        <4>1. m \in Namespaces /\ recall[s].epoch \in Nat /\ epochs[m] \in Nat
          BY <1>a, <3>1 DEF CacheType
        <4>2. /\ recall[s].epoch <= epochs[m]
              /\ recall[s].epoch = epochs[m] => recall[s].invalidated = invalidated[m]
          BY DEF RecallInv, EpochInv
        <4>3. /\ m = n => epochs'[m] = epochs[m] + 1
              /\ m # n => epochs'[m] = epochs[m] /\ invalidated'[m] = invalidated[m]
          BY <1>a, <2>1, <2>2, <4>1 DEF CacheType, HistoryType
        <4> HIDE DEF m
        <4> QED
          BY <4>1, <4>2, <4>3 DEF m
      <3> QED
        BY <2>1, <3>2 DEF RecallInv, EpochInv
    <2> QED
      BY <2>2, <2>3, <2>4, <2>5
  <1>10. ASSUME NEW w \in Writers, InvalidateAll(w)
         PROVE  OrderInv' /\ VersionInv' /\ EntryInv' /\ RecallInv'
    <2>1. /\ UNCHANGED <<epochOrder, version, recall>> /\ store' = <<>>
          /\ epochs' = [ns \in Namespaces |-> IF Seen(ns) THEN epochs[ns] + 1 ELSE epochs[ns]]
          /\ invalidated' = [ns \in Namespaces |->
                               IF Seen(ns) THEN version[ns] ELSE invalidated[ns]]
      BY <1>10 DEF InvalidateAll, BumpAllEpochs
    <2>2. OrderInv' /\ VersionInv'
      BY <1>a, <2>1 DEF EpochInv, OrderInv, HistoryType
    <2>3. Elements(store') = {}
      BY <2>1 DEF Elements
    <2>4. RecallInv'
      <3>1. \A s \in Recalls : recall[s].pc # "idle" => recall[s].ns \in Namespaces /\ recall[s].epoch \in Nat
        BY <1>a DEF RecallType, RecallTask
      <3>2. \A s \in Recalls : recall[s].pc # "idle" =>
               /\ recall[s].epoch <= epochs'[recall[s].ns]
               /\ recall[s].epoch = epochs'[recall[s].ns] =>
                     recall[s].invalidated = invalidated'[recall[s].ns]
        <4> SUFFICES ASSUME NEW s \in Recalls, recall[s].pc # "idle"
                     PROVE  /\ recall[s].epoch <= epochs'[recall[s].ns]
                            /\ recall[s].epoch = epochs'[recall[s].ns] =>
                                  recall[s].invalidated = invalidated'[recall[s].ns]
          OBVIOUS
        <4> DEFINE n == recall[s].ns
        <4>1. n \in Namespaces /\ recall[s].epoch \in Nat /\ epochs[n] \in Nat
          BY <1>a, <3>1 DEF CacheType
        <4>2. /\ recall[s].epoch <= epochs[n]
              /\ recall[s].epoch = epochs[n] => recall[s].invalidated = invalidated[n]
          BY DEF RecallInv, EpochInv
        <4> HIDE DEF n
        <4>3. CASE Seen(n)
          <5>1. epochs'[n] = epochs[n] + 1
            BY <2>1, <4>1, <4>3
          <5> QED
            BY <4>1, <4>2, <5>1 DEF n
        <4>4. CASE ~Seen(n)
          <5>1. epochs'[n] = epochs[n] /\ invalidated'[n] = invalidated[n]
            BY <2>1, <4>1, <4>4
          <5> QED
            BY <4>2, <5>1 DEF n
        <4> QED
          BY <4>3, <4>4
      <3> QED
        BY <2>1, <3>2 DEF RecallInv, EpochInv
    <2> QED
      BY <2>2, <2>3, <2>4 DEF EntryInv
  <1>11. ASSUME Clear
         PROVE  OrderInv' /\ VersionInv' /\ EntryInv' /\ RecallInv'
    <2>1. /\ UNCHANGED <<epochs, epochOrder, version, invalidated, recall>>
          /\ Elements(store') = {}
      BY <1>11 DEF Clear, Elements
    <2> QED
      BY <2>1 DEF EpochInv, OrderInv, EntryInv, RecallInv
  <1>12. ASSUME UNCHANGED vars
         PROVE  OrderInv' /\ VersionInv' /\ EntryInv' /\ RecallInv'
    BY <1>12 DEF vars, EpochInv, OrderInv, EntryInv, RecallInv
  <1> QED
    BY <1>1, <1>2, <1>3, <1>4, <1>5, <1>6, <1>7, <1>8, <1>9, <1>10, <1>11, <1>12
       DEF Next, RecallStep, WriteStep

\* With an epoch map large enough for the namespaces in use, a recall never
\* returns a result older than the last invalidation it has seen (recall, get,
\* set, bump_epoch, bump_all_epochs).
THEOREM StaleFree ==
    ASSUME IsFiniteSet(Namespaces), Cardinality(Namespaces) <= EpochsCap
    PROVE  Spec => []NoStaleAfterBump
  <1>1. Init => EpochInv
    <2> SUFFICES ASSUME Init PROVE EpochInv
      OBVIOUS
    <2>1. TypeOK
      BY TypeInit
    <2>2. Elements(store) = {} /\ \A r \in Recalls : recall[r].pc = "idle"
      BY DEF Init, Elements, IdleRecall
    <2> QED
      BY <2>1, <2>2 DEF EpochInv, OrderInv, EntryInv, RecallInv, Init
  <1>2. EpochInv /\ [Next]_vars => EpochInv'
    BY EpochStep
  <1>3. EpochInv => NoStaleAfterBump
    BY DEF EpochInv, RecallInv, NoStaleAfterBump
  <1> QED
    BY <1>1, <1>2, <1>3, PTL DEF Spec
=============================================================================
