------------------------- MODULE HookDispatcherProofs -------------------------
(***************************************************************************)
(* Proofs about HookSubscriptions and HookDispatcher.  The subscriptions'  *)
(* part shows what the lists hold (ListsInv) and that the table follows    *)
(* each owner's view, a load at a time (KeptInv).  The dispatcher's part   *)
(* shows what a call carries from one await to the next (CallOK), that the *)
(* cache never crosses namespaces (CacheOK), and that a check which began  *)
(* on the active version cannot end in a miss (SureInv).                   *)
(***************************************************************************)
EXTENDS HookDispatcher, SequenceTheorems, FiniteSetTheorems, TLAPS

-------------------------------------------------------------------------------
(* Lists.                                                                  *)

ListType == [id : Nat, subs : Seq(Subs)]

\* The types of the lists: each kind's list holds its own, none of them twice.
ListsInv ==
    /\ lists \in [Kinds -> ListType] /\ fresh \in Nat
    /\ \A k \in Kinds : lists[k].id <= fresh /\ IsInjective(lists[k].subs)
    /\ ToSet(lists["callback"].subs) = {s \in Callbacks : status[s] = "on"}
    /\ Memory \subseteq Durables
    /\ status \in [Subs -> Statuses] /\ \A s \in Callbacks : status[s] \in {"new", "on", "off"}

LoadInv ==
    /\ rows \subseteq Durables /\ load \in [phase : {"no", "read", "apply"}, records : SUBSET Durables]
    /\ loaded \in BOOLEAN

\* The table follows the owner's view, except where a statement raised; the list in memory
\* follows both, once a load is over that nobody raced with.
KeptInv ==
    \A p \in Durables \ degraded :
        /\ p \in rows <=> status[p] \in {"persisting", "on", "deleting"}
        /\ p \notin raced =>
              /\ load.phase # "no" => status[p] \in {"new", "on", "off"}
              /\ load.phase = "apply" => (p \in load.records <=> p \in rows)
              /\ load.phase = "no" /\ loaded =>
                    /\ status[p] = "on" => p \in Memory
                    /\ status[p] \in {"new", "off", "deleting"} => p \notin Memory

SubscriptionsInv == ListsInv /\ LoadInv /\ KeptInv

\* The empty list.
LEMMA EmptyList == /\ ToSet(<<>>) = {} /\ IsInjective(<<>>) /\ DOMAIN <<>> = {}
                   /\ \A S : <<>> \in Seq(S) /\ Len(<<>>) = 0
  <1>1. DOMAIN <<>> = {}
    OBVIOUS
  <1> QED BY <1>1, EmptySeq DEF ToSet, IsInjective

\* What a list holds.
LEMMA ToSetFacts ==
    ASSUME NEW S, NEW s \in Seq(S)
    PROVE  /\ ToSet(s) \subseteq S /\ Len(s) \in Nat /\ DOMAIN s = 1 .. Len(s)
           /\ s # <<>> => 1 \in DOMAIN s /\ Len(s) \in DOMAIN s
           /\ ToSet(s) = {} <=> s = <<>>
  <1>1. Len(s) \in Nat /\ DOMAIN s = 1 .. Len(s) /\ \A n \in 1 .. Len(s) : s[n] \in S
    BY LenProperties
  <1>2. s # <<>> => Len(s) \in Nat \ {0}
    BY EmptySeq
  <1>3. s # <<>> => 1 \in DOMAIN s /\ Len(s) \in DOMAIN s
    BY <1>1, <1>2
  <1>4. ToSet(s) \subseteq S
    BY <1>1 DEF ToSet
  <1>5. s # <<>> => s[1] \in ToSet(s)
    BY <1>3 DEF ToSet
  <1>6. s = <<>> => ToSet(s) = {}
    BY EmptyList
  <1> QED BY <1>1, <1>3, <1>4, <1>5, <1>6

\* list.append of something new.
LEMMA AppendFacts ==
    ASSUME NEW S, NEW s \in Seq(S), NEW e \in S, IsInjective(s), e \notin ToSet(s)
    PROVE  /\ Append(s, e) \in Seq(S) /\ IsInjective(Append(s, e))
           /\ ToSet(Append(s, e)) = ToSet(s) \cup {e}
           /\ s \o <<e>> = Append(s, e)
           /\ Append(s, e)[Len(Append(s, e))] = e
  <1> DEFINE t == Append(s, e)
  <1>1. /\ t \in Seq(S) /\ Len(t) = Len(s) + 1 /\ t[Len(s) + 1] = e
        /\ \A i \in 1 .. Len(s) : t[i] = s[i]
    BY AppendProperties
  <1>2. /\ Len(s) \in Nat /\ DOMAIN s = 1 .. Len(s) /\ DOMAIN t = 1 .. Len(s) + 1
    BY <1>1, LenProperties
  <1>3. DOMAIN t = DOMAIN s \cup {Len(s) + 1} /\ Len(s) + 1 \notin DOMAIN s
    BY <1>2
  <1>6. s \o <<e>> = t
    BY AppendIsConcat
  <1> HIDE DEF t
  <1>4. ToSet(t) = ToSet(s) \cup {e}
    BY <1>1, <1>2, <1>3 DEF ToSet
  <1>5. IsInjective(t)
    BY <1>1, <1>2, <1>3 DEF ToSet, IsInjective
  <1> QED
    BY <1>1, <1>4, <1>5, <1>6 DEF t

\* A filtered list.
LEMMA SublistFacts ==
    ASSUME NEW S, NEW s \in Seq(S), IsInjective(s), NEW T, NEW list \in Lists(s), InOrder(list, T, s)
    PROVE  list \in Seq(S) /\ IsInjective(list) /\ ToSet(list) = T
  <1>1. PICK n \in 0 .. Len(s) : list \in [1 .. n -> ToSet(s)]
    BY DEF Lists, ToSet
  <1>2. n \in Nat /\ ToSet(s) \subseteq S
    BY ToSetFacts
  <1>3. list \in Seq(ToSet(s))
    BY <1>1, <1>2
  <1>4. list \in Seq(S)
    BY <1>2, <1>3, SeqMonotonic
  <1>5. ToSet(list) = T
    BY DEF InOrder, ToSet
  <1>6. DOMAIN list = 1 .. n
    BY <1>1
  <1>7. ASSUME NEW a \in DOMAIN list, NEW b \in DOMAIN list, a < b PROVE list[a] # list[b]
    <2>1. PICK i, j \in DOMAIN s : i < j /\ s[i] = list[a] /\ s[j] = list[b]
      BY <1>7 DEF InOrder
    <2>2. i # j
      <3>1. DOMAIN s = 1 .. Len(s) /\ Len(s) \in Nat
        BY ToSetFacts
      <3> QED BY <2>1, <3>1
    <2> QED BY <2>1, <2>2 DEF IsInjective
  <1>8. IsInjective(list)
    <2>1. \A a, b \in DOMAIN list : a = b \/ a < b \/ b < a
      BY <1>2, <1>6
    <2> QED BY <1>7, <2>1 DEF IsInjective
  <1> QED BY <1>4, <1>5, <1>8

\* The list of a set, in any order.
LEMMA SetToSeqFacts ==
    ASSUME NEW S, IsFiniteSet(S)
    PROVE  SetToSeq(S) \in Seq(S) /\ IsInjective(SetToSeq(S)) /\ ToSet(SetToSeq(S)) = S
  <1> DEFINE N == Cardinality(S)
  <1>1. N \in Nat /\ ExistsBijection(1 .. N, S)
    BY FS_CardinalityType
  <1>2. PICK f \in Bijection(1 .. N, S) : TRUE
    BY <1>1 DEF ExistsBijection
  <1>3. f \in [1 .. N -> S] /\ IsInjective(f)
    BY <1>2 DEF Bijection, Injection, IsInjective
  <1> DEFINE g == SetToSeq(S)
  <1>4. g \in [1 .. N -> S] /\ IsInjective(g)
    BY <1>3 DEF SetToSeq
  <1>5. g \in Seq(S)
    BY <1>1, <1>4
  <1> HIDE DEF g, N
  <1>6. g \in Injection(1 .. N, S)
    BY <1>4 DEF Injection, IsInjective
  <1>7. IsFiniteSet(1 .. N) /\ Cardinality(1 .. N) = N
    BY <1>1, FS_Interval
  <1>8. g \in Surjection(1 .. N, S)
    BY <1>6, <1>7, FS_Injection DEF N
  <1>9. ToSet(g) = S
    BY <1>8 DEF Surjection, ToSet
  <1> QED BY <1>4, <1>5, <1>9 DEF g

-------------------------------------------------------------------------------
(* What the list operations do.                                            *)

\* Only the list of one kind changes, and T is what it holds.
ListMoved(k, T) ==
    /\ lists' \in [Kinds -> ListType] /\ fresh' \in Nat
    /\ \A j \in Kinds : lists'[j].id <= fresh' /\ IsInjective(lists'[j].subs)
    /\ ToSet(lists'[k].subs) = T
    /\ \A j \in Kinds : j # k => lists'[j] = lists[j]

\* A list object takes another's place.
LEMMA NewList ==
    ASSUME ListsInv, NEW k \in Kinds, NEW l \in ListType, l.id <= fresh', IsInjective(l.subs),
           lists' = [lists EXCEPT ![k] = l], fresh' \in Nat, fresh <= fresh'
    PROVE  ListMoved(k, ToSet(l.subs)) /\ lists'[k] = l
  <1>1. /\ lists' \in [Kinds -> ListType] /\ lists'[k] = l /\ \A j \in Kinds : j # k => lists'[j] = lists[j]
    BY DEF ListsInv
  <1>2. \A j \in Kinds : lists[j].id <= fresh' /\ IsInjective(lists[j].subs)
    <2>1. \A j \in Kinds : lists[j].id \in Nat /\ lists[j].id <= fresh /\ IsInjective(lists[j].subs)
      BY DEF ListsInv, ListType
    <2> QED BY <2>1 DEF ListsInv
  <1>3. \A j \in Kinds : lists'[j].id <= fresh' /\ IsInjective(lists'[j].subs)
    BY <1>1, <1>2
  <1> QED BY <1>1, <1>3 DEF ListMoved

\* append.
LEMMA AppendedFacts ==
    ASSUME ListsInv, NEW k \in Kinds, NEW s \in Subs, s \notin ToSet(lists[k].subs), Appended(k, s)
    PROVE  ListMoved(k, ToSet(lists[k].subs) \cup {s}) /\ Last(lists'[k].subs) = s
  <1> DEFINE new == Append(lists[k].subs, s)
             id == IF lists[k].id = 0 THEN fresh + 1 ELSE lists[k].id
             l == [id |-> id, subs |-> new]
  <1>1. lists[k] \in ListType /\ lists[k].subs \in Seq(Subs) /\ lists[k].id \in Nat /\ lists[k].id <= fresh
        /\ fresh \in Nat /\ IsInjective(lists[k].subs)
    BY DEF ListsInv, ListType
  <1>2. new \in Seq(Subs) /\ IsInjective(new) /\ ToSet(new) = ToSet(lists[k].subs) \cup {s} /\ new[Len(new)] = s
    BY <1>1, AppendFacts
  <1>3. lists' = [lists EXCEPT ![k] = l] /\ fresh' = IF lists[k].id = 0 THEN fresh + 1 ELSE fresh
    BY DEF Appended
  <1>4. id \in Nat /\ id <= fresh' /\ fresh' \in Nat /\ fresh <= fresh'
    BY <1>1, <1>3
  <1> HIDE DEF new, id
  <1>5. l \in ListType /\ l.subs = new /\ l.id = id
    BY <1>2, <1>4 DEF ListType
  <1> HIDE DEF l
  <1>6. ListMoved(k, ToSet(l.subs)) /\ lists'[k] = l
    BY <1>2, <1>3, <1>4, <1>5, NewList
  <1> QED BY <1>2, <1>5, <1>6 DEF Last

\* The list is rebuilt without the subscription, and perhaps with it at the end.
LEMMA WithoutFacts ==
    ASSUME ListsInv, NEW k \in Kinds, NEW s \in Subs, NEW more \in {<<>>, <<s>>}, Without(k, s, more)
    PROVE  /\ more = <<>> => ListMoved(k, ToSet(lists[k].subs) \ {s})
           /\ more = <<s>> => ListMoved(k, (ToSet(lists[k].subs) \ {s}) \cup {s})
           /\ lists'[k].id # lists[k].id
  <1> DEFINE old == lists[k].subs
  <1>1. lists[k] \in ListType /\ old \in Seq(Subs) /\ lists[k].id \in Nat /\ lists[k].id <= fresh
        /\ fresh \in Nat /\ IsInjective(old)
    BY DEF ListsInv, ListType
  <1>2. PICK rest \in Lists(old) :
          /\ InOrder(rest, ToSet(old) \ {s}, old)
          /\ lists' = [lists EXCEPT ![k] = [id |-> fresh + 1, subs |-> rest \o more]]
    BY DEF Without
  <1>3. fresh' = fresh + 1 /\ fresh' \in Nat /\ fresh <= fresh' /\ fresh + 1 <= fresh' /\ lists[k].id # fresh + 1
    BY <1>1 DEF Without
  <1>4. rest \in Seq(Subs) /\ IsInjective(rest) /\ ToSet(rest) = ToSet(old) \ {s}
    BY <1>1, <1>2, SublistFacts
  <1>5. rest \o <<>> = rest
    BY <1>4, ConcatEmptySeq
  <1>6. /\ rest \o <<s>> \in Seq(Subs) /\ IsInjective(rest \o <<s>>)
        /\ ToSet(rest \o <<s>>) = (ToSet(old) \ {s}) \cup {s}
    <2>1. s \notin ToSet(rest)
      BY <1>4
    <2>2. /\ Append(rest, s) \in Seq(Subs) /\ IsInjective(Append(rest, s))
          /\ ToSet(Append(rest, s)) = ToSet(rest) \cup {s} /\ rest \o <<s>> = Append(rest, s)
      BY <1>4, <2>1, AppendFacts
    <2> QED BY <1>4, <2>2
  <1>7. ASSUME NEW new \in Seq(Subs), IsInjective(new), lists' = [lists EXCEPT ![k] = [id |-> fresh + 1, subs |-> new]]
        PROVE  ListMoved(k, ToSet(new)) /\ lists'[k].id = fresh + 1
    <2> DEFINE l == [id |-> fresh + 1, subs |-> new]
    <2>1. l \in ListType /\ l.id = fresh + 1 /\ l.subs = new
      BY <1>1, <1>7 DEF ListType
    <2>2. lists' = [lists EXCEPT ![k] = l]
      BY <1>7
    <2> HIDE DEF l
    <2> QED BY <1>3, <1>7, <2>1, <2>2, NewList
  <1>8. CASE more = <<>>
    <2>1. ListMoved(k, ToSet(rest)) /\ lists'[k].id = fresh + 1
      BY <1>2, <1>4, <1>5, <1>7, <1>8
    <2>2. <<>> # <<s>>
      OBVIOUS
    <2> QED BY <1>3, <1>4, <1>8, <2>1, <2>2
  <1>9. CASE more = <<s>>
    <2>1. ListMoved(k, ToSet(rest \o <<s>>)) /\ lists'[k].id = fresh + 1
      BY <1>2, <1>6, <1>7, <1>9
    <2>2. <<>> # <<s>>
      OBVIOUS
    <2> QED BY <1>3, <1>6, <1>9, <2>1, <2>2
  <1> QED BY <1>8, <1>9

\* The kinds of subscription.
LEMMA KindFacts ==
    /\ Kinds = {"callback", "durable"} /\ "callback" \in Kinds /\ "durable" \in Kinds
    /\ Callbacks \subseteq Subs /\ Durables \subseteq Subs /\ Callbacks \cap Durables = {}
    /\ Subs = Callbacks \cup Durables
  BY SubscriptionAssumption DEF Kinds, Subs

-------------------------------------------------------------------------------
(* The steps of the subscriptions.                                         *)

\* subscribe and unsubscribe.
LEMMA CallbackSteps ==
    ASSUME SubscriptionsInv, NEW s \in Callbacks, Subscribe(s) \/ Unsubscribe(s)
    PROVE  SubscriptionsInv'
  <1> USE KindFacts
  <1>0. ListsInv /\ status \in [Subs -> Statuses] /\ ToSet(lists["callback"].subs) = {t \in Callbacks : status[t] = "on"}
    BY DEF SubscriptionsInv, ListsInv
  <1>1. UNCHANGED <<rows, load, degraded, raced, loaded>>
    BY DEF Subscribe, Unsubscribe
  <1>2. PICK st \in {"on", "off"} :
          /\ status' = [status EXCEPT ![s] = st]
          /\ ListMoved("callback", {t \in Callbacks : t # s /\ status[t] = "on"} \cup (IF st = "on" THEN {s} ELSE {}))
    <2>1. CASE Subscribe(s)
      <3>1. status[s] = "new" /\ Appended("callback", s) /\ status' = [status EXCEPT ![s] = "on"]
        BY <2>1 DEF Subscribe
      <3>2. ListMoved("callback", ToSet(lists["callback"].subs) \cup {s})
        BY <1>0, <3>1, AppendedFacts
      <3>3. ToSet(lists["callback"].subs) \cup {s} = {t \in Callbacks : t # s /\ status[t] = "on"} \cup (IF "on" = "on" THEN {s} ELSE {})
        BY <1>0, <3>1
      <3> QED BY <3>1, <3>2, <3>3
    <2>2. CASE Unsubscribe(s)
      <3>1. Without("callback", s, <<>>) /\ status' = [status EXCEPT ![s] = "off"]
        BY <2>2 DEF Unsubscribe
      <3>2. ListMoved("callback", ToSet(lists["callback"].subs) \ {s})
        BY <1>0, <3>1, WithoutFacts
      <3>3. ToSet(lists["callback"].subs) \ {s} = {t \in Callbacks : t # s /\ status[t] = "on"} \cup (IF "off" = "on" THEN {s} ELSE {})
        BY <1>0
      <3> QED BY <3>1, <3>2, <3>3
    <2> QED BY <2>1, <2>2
  <1>3. /\ status' \in [Subs -> Statuses] /\ status'[s] = st /\ \A t \in Subs : t # s => status'[t] = status[t]
    BY <1>0, <1>2 DEF Statuses
  <1>4. lists'["durable"] = lists["durable"] /\ Memory' = Memory
    BY <1>2 DEF ListMoved, Memory
  <1>5. ToSet(lists'["callback"].subs) = {t \in Callbacks : status'[t] = "on"}
    BY <1>2, <1>3 DEF ListMoved
  <1>6. ListsInv'
    BY <1>2, <1>3, <1>4, <1>5 DEF ListMoved, SubscriptionsInv, ListsInv
  <1>7. LoadInv'
    BY <1>1 DEF SubscriptionsInv, LoadInv
  <1>8. KeptInv'
    BY <1>1, <1>3, <1>4 DEF SubscriptionsInv, KeptInv
  <1> QED BY <1>6, <1>7, <1>8 DEF SubscriptionsInv

\* What a statement of the store leaves of the rows and of the degradations.
LEMMA StatementFacts ==
    ASSUME NEW p, NEW r, Statement(p, r)
    PROVE  /\ rows' \in {rows, r} /\ degraded \subseteq degraded' /\ degraded' \subseteq degraded \cup {p}
           /\ p \notin degraded' => rows' = r
  BY DEF Statement

\* A durable subscription whose status changes, and it alone.
LEMMA DurableStatus ==
    ASSUME SubscriptionsInv, NEW p \in Durables, NEW st \in Statuses, status' = [status EXCEPT ![p] = st]
    PROVE  /\ status' \in [Subs -> Statuses] /\ status'[p] = st
           /\ \A t \in Subs : t # p => status'[t] = status[t]
           /\ {t \in Callbacks : status'[t] = "on"} = {t \in Callbacks : status[t] = "on"}
           /\ \A t \in Callbacks : status'[t] = status[t]
  <1>1. /\ status' \in [Subs -> Statuses] /\ status'[p] = st
        /\ \A t \in Subs : t # p => status'[t] = status[t]
    BY KindFacts DEF SubscriptionsInv, ListsInv
  <1>2. \A t \in Callbacks : t \in Subs /\ t # p
    BY KindFacts
  <1> QED BY <1>1, <1>2

\* The statements of the store: persist and delete.
LEMMA StatementSteps ==
    ASSUME SubscriptionsInv, NEW p \in Durables, Persist(p) \/ DeleteRow(p)
    PROVE  SubscriptionsInv'
  <1> USE KindFacts
  <1>1. /\ UNCHANGED <<lists, fresh, load, loaded>> /\ raced' = Raced(p)
        /\ \/ /\ status[p] = "new" /\ status' = [status EXCEPT ![p] = "persisting"] /\ Statement(p, rows \cup {p})
           \/ /\ status[p] = "deleting" /\ status' = [status EXCEPT ![p] = "off"] /\ Statement(p, rows \ {p})
    BY DEF Persist, DeleteRow
  <1>2. PICK st \in {"persisting", "off"} :
          /\ status' = [status EXCEPT ![p] = st]
          /\ st = "persisting" => status[p] = "new" /\ Statement(p, rows \cup {p})
          /\ st = "off" => status[p] = "deleting" /\ Statement(p, rows \ {p})
    BY <1>1
  <1>3. /\ status' \in [Subs -> Statuses] /\ status'[p] = st /\ \A t \in Subs : t # p => status'[t] = status[t]
        /\ {t \in Callbacks : status'[t] = "on"} = {t \in Callbacks : status[t] = "on"}
        /\ \A t \in Callbacks : status'[t] = status[t]
    BY <1>2, DurableStatus DEF Statuses
  <1>4. Memory' = Memory
    BY <1>1 DEF Memory
  <1>5. /\ degraded \subseteq degraded' /\ degraded' \subseteq degraded \cup {p}
        /\ \A q \in Durables : q # p => (q \in rows' <=> q \in rows)
        /\ rows' \subseteq Durables
        /\ p \notin degraded' => (p \in rows' <=> st = "persisting")
    <2>1. CASE st = "persisting"
      <3>1. Statement(p, rows \cup {p})
        BY <1>2, <2>1
      <3> QED BY <2>1, <3>1, StatementFacts DEF SubscriptionsInv, LoadInv
    <2>2. CASE st = "off"
      <3>1. Statement(p, rows \ {p})
        BY <1>2, <2>2
      <3> QED BY <2>2, <3>1, StatementFacts DEF SubscriptionsInv, LoadInv
    <2> QED BY <2>1, <2>2
  <1>6. raced \subseteq raced' /\ raced' \subseteq raced \cup {p} /\ (load.phase # "no" => p \in raced')
    BY <1>1 DEF Raced
  <1>7. ListsInv'
    BY <1>1, <1>3, <1>4 DEF SubscriptionsInv, ListsInv
  <1>8. LoadInv'
    BY <1>1, <1>5 DEF SubscriptionsInv, LoadInv
  <1>9. ASSUME NEW q \in Durables \ degraded', q # p
        PROVE  /\ q \in rows' <=> status'[q] \in {"persisting", "on", "deleting"}
               /\ q \notin raced' =>
                     /\ load'.phase # "no" => status'[q] \in {"new", "on", "off"}
                     /\ load'.phase = "apply" => (q \in load'.records <=> q \in rows')
                     /\ load'.phase = "no" /\ loaded' =>
                           /\ status'[q] = "on" => q \in Memory'
                           /\ status'[q] \in {"new", "off", "deleting"} => q \notin Memory'
    BY <1>1, <1>3, <1>4, <1>5, <1>6, <1>9 DEF SubscriptionsInv, KeptInv
  <1>10. ASSUME p \notin degraded'
         PROVE  /\ p \in rows' <=> status'[p] \in {"persisting", "on", "deleting"}
                /\ p \notin raced' =>
                     /\ load'.phase # "no" => status'[p] \in {"new", "on", "off"}
                     /\ load'.phase = "apply" => (p \in load'.records <=> p \in rows')
                     /\ load'.phase = "no" /\ loaded' =>
                           /\ status'[p] = "on" => p \in Memory'
                           /\ status'[p] \in {"new", "off", "deleting"} => p \notin Memory'
    <2>1. p \in rows' <=> status'[p] \in {"persisting", "on", "deleting"}
      BY <1>3, <1>5, <1>10
    <2>2. p \notin raced' => load.phase = "no"
      BY <1>6
    <2>3. p \notin raced' /\ loaded /\ st = "off" => p \notin Memory
      BY <1>2, <1>5, <1>6, <1>10, <2>2 DEF SubscriptionsInv, KeptInv
    <2> QED BY <1>1, <1>3, <1>4, <2>1, <2>2, <2>3
  <1>11. KeptInv'
    BY <1>9, <1>10 DEF KeptInv
  <1> QED BY <1>7, <1>8, <1>11 DEF SubscriptionsInv

\* register_persistent's end and unregister_persistent's beginning.
LEMMA MemorySteps ==
    ASSUME SubscriptionsInv, NEW p \in Durables, Registered(p) \/ Unregister(p)
    PROVE  SubscriptionsInv'
  <1> USE KindFacts
  <1>0. ListsInv
    BY DEF SubscriptionsInv
  <1>1. UNCHANGED <<rows, load, degraded, loaded>> /\ raced' = Raced(p)
    BY DEF Registered, Unregister
  <1>2. PICK st \in {"on", "deleting"} :
          /\ status' = [status EXCEPT ![p] = st] /\ status[p] \in {"persisting", "on"}
          /\ ListMoved("durable", (Memory \ {p}) \cup (IF st = "on" THEN {p} ELSE {}))
    <2>1. CASE Registered(p)
      <3>1. /\ status[p] = "persisting" /\ status' = [status EXCEPT ![p] = "on"]
            /\ IF p \in Memory THEN Without("durable", p, <<p>>) ELSE Appended("durable", p)
        BY <2>1 DEF Registered
      <3>2. CASE p \in Memory
        <4>1. ListMoved("durable", (Memory \ {p}) \cup {p})
          BY <1>0, <3>1, <3>2, WithoutFacts DEF Memory
        <4> QED BY <3>1, <4>1
      <3>3. CASE p \notin Memory
        <4>1. ListMoved("durable", Memory \cup {p})
          BY <1>0, <3>1, <3>3, AppendedFacts DEF Memory
        <4>2. Memory \cup {p} = (Memory \ {p}) \cup (IF "on" = "on" THEN {p} ELSE {})
          BY <3>3
        <4> QED BY <3>1, <4>1, <4>2
      <3> QED BY <3>2, <3>3
    <2>2. CASE Unregister(p)
      <3>1. status[p] = "on" /\ status' = [status EXCEPT ![p] = "deleting"] /\ Without("durable", p, <<>>)
        BY <2>2 DEF Unregister
      <3>2. ListMoved("durable", Memory \ {p})
        BY <1>0, <3>1, WithoutFacts DEF Memory
      <3>3. Memory \ {p} = (Memory \ {p}) \cup (IF "deleting" = "on" THEN {p} ELSE {})
        OBVIOUS
      <3> QED BY <3>1, <3>2, <3>3
    <2> QED BY <2>1, <2>2
  <1>3. /\ status' \in [Subs -> Statuses] /\ status'[p] = st /\ \A t \in Subs : t # p => status'[t] = status[t]
        /\ {t \in Callbacks : status'[t] = "on"} = {t \in Callbacks : status[t] = "on"}
        /\ \A t \in Callbacks : status'[t] = status[t]
    BY <1>2, DurableStatus DEF Statuses
  <1>4. Memory' = (Memory \ {p}) \cup (IF st = "on" THEN {p} ELSE {}) /\ lists'["callback"] = lists["callback"]
    BY <1>2 DEF ListMoved, Memory
  <1>5. raced \subseteq raced' /\ raced' \subseteq raced \cup {p} /\ (load.phase # "no" => p \in raced')
    BY <1>1 DEF Raced
  <1>6. ListsInv'
    BY <1>2, <1>3, <1>4 DEF ListMoved, SubscriptionsInv, ListsInv
  <1>7. LoadInv'
    BY <1>1 DEF SubscriptionsInv, LoadInv
  <1>8. ASSUME NEW q \in Durables \ degraded', q # p
        PROVE  /\ q \in rows' <=> status'[q] \in {"persisting", "on", "deleting"}
               /\ q \notin raced' =>
                     /\ load'.phase # "no" => status'[q] \in {"new", "on", "off"}
                     /\ load'.phase = "apply" => (q \in load'.records <=> q \in rows')
                     /\ load'.phase = "no" /\ loaded' =>
                           /\ status'[q] = "on" => q \in Memory'
                           /\ status'[q] \in {"new", "off", "deleting"} => q \notin Memory'
    BY <1>1, <1>3, <1>4, <1>5, <1>8 DEF SubscriptionsInv, KeptInv
  <1>9. ASSUME p \notin degraded'
         PROVE  /\ p \in rows' <=> status'[p] \in {"persisting", "on", "deleting"}
                /\ p \notin raced' =>
                     /\ load'.phase # "no" => status'[p] \in {"new", "on", "off"}
                     /\ load'.phase = "apply" => (p \in load'.records <=> p \in rows')
                     /\ load'.phase = "no" /\ loaded' =>
                           /\ status'[p] = "on" => p \in Memory'
                           /\ status'[p] \in {"new", "off", "deleting"} => p \notin Memory'
    <2>1. p \in rows
      BY <1>1, <1>2, <1>9 DEF SubscriptionsInv, KeptInv
    <2>2. p \notin raced' => load.phase = "no"
      BY <1>5
    <2> QED BY <1>1, <1>3, <1>4, <2>1, <2>2
  <1>10. KeptInv'
    BY <1>8, <1>9 DEF KeptInv
  <1> QED BY <1>6, <1>7, <1>10 DEF SubscriptionsInv

\* load_persistent, connect and a new process.
LEMMA LoadSteps ==
    ASSUME SubscriptionsInv, LoadRead \/ LoadApply \/ LoadFails \/ Reconnect \/ RestartSubscriptions
    PROVE  SubscriptionsInv'
  <1> USE KindFacts
  <1>0. /\ ListsInv /\ LoadInv /\ KeptInv
        /\ load \in [phase : {"no", "read", "apply"}, records : SUBSET Durables]
    BY DEF SubscriptionsInv, LoadInv
  <1>i. Idle \in [phase : {"no", "read", "apply"}, records : SUBSET Durables] /\ Idle.phase = "no" /\ Idle.records = {}
        /\ [Idle EXCEPT !.phase = "read"] \in [phase : {"no", "read", "apply"}, records : SUBSET Durables]
        /\ [Idle EXCEPT !.phase = "read"].phase = "read"
    BY DEF Idle
  <1>1. CASE LoadRead
    <2>1. /\ load.phase = "read" /\ load' = [phase |-> "apply", records |-> rows]
          /\ UNCHANGED <<lists, fresh, status, rows, degraded, raced, loaded>>
      BY <1>1 DEF LoadRead
    <2>2. load'.phase = "apply" /\ load'.records = rows
      BY <2>1
    <2>3. ListsInv'
      BY <1>0, <2>1 DEF ListsInv, Memory
    <2>4. LoadInv'
      BY <1>0, <2>1 DEF LoadInv
    <2>5. KeptInv'
      BY <1>0, <2>1, <2>2 DEF KeptInv
    <2> QED BY <2>3, <2>4, <2>5 DEF SubscriptionsInv
  <1>2. CASE LoadApply
    <2>1. /\ load.phase = "apply" /\ load' = Idle /\ loaded' = TRUE
          /\ lists' = [lists EXCEPT !["durable"] = IF load.records = {} THEN NoList
                                                   ELSE [id |-> fresh + 1, subs |-> SetToSeq(load.records)]]
          /\ fresh' = IF load.records = {} THEN fresh ELSE fresh + 1
          /\ UNCHANGED <<status, rows, degraded, raced>>
      BY <1>2 DEF LoadApply
    <2>2. load.records \subseteq Durables /\ IsFiniteSet(load.records)
      BY <1>0, FS_Subset, SubscriptionAssumption
    <2>3. ListMoved("durable", load.records)
      <3>1. fresh \in Nat /\ fresh' \in Nat /\ fresh <= fresh' /\ fresh + 1 \in Nat
        BY <1>0, <2>1 DEF ListsInv
      <3>2. CASE load.records = {}
        <4>1. lists' = [lists EXCEPT !["durable"] = NoList]
          BY <2>1, <3>2
        <4>2. NoList \in ListType /\ NoList.id = 0 /\ NoList.subs = <<>>
          BY EmptyList DEF NoList, ListType
        <4>3. NoList.id <= fresh' /\ IsInjective(NoList.subs) /\ ToSet(NoList.subs) = {}
          BY <3>1, <4>2, EmptyList
        <4>4. ListMoved("durable", ToSet(NoList.subs))
          BY <1>0, <3>1, <4>1, <4>2, <4>3, NewList
        <4> QED BY <3>2, <4>3, <4>4
      <3>3. CASE load.records # {}
        <4> DEFINE seq == SetToSeq(load.records)
                   l == [id |-> fresh + 1, subs |-> seq]
        <4>1. seq \in Seq(load.records) /\ IsInjective(seq) /\ ToSet(seq) = load.records
          BY <2>2, SetToSeqFacts
        <4>2. seq \in Seq(Subs)
          BY <2>2, <4>1, SeqMonotonic
        <4>3. lists' = [lists EXCEPT !["durable"] = l] /\ fresh' = fresh + 1
          BY <2>1, <3>3
        <4> HIDE DEF seq
        <4>4. l \in ListType /\ l.id = fresh + 1 /\ l.subs = seq
          BY <3>1, <4>2 DEF ListType
        <4> HIDE DEF l
        <4>5. l.id <= fresh'
          BY <3>1, <4>3, <4>4
        <4>6. ListMoved("durable", ToSet(l.subs))
          BY <1>0, <3>1, <4>1, <4>3, <4>4, <4>5, NewList
        <4> QED BY <4>1, <4>4, <4>6
      <3> QED BY <3>2, <3>3
    <2>4. Memory' = load.records /\ lists'["callback"] = lists["callback"]
      BY <2>3 DEF ListMoved, Memory
    <2>5. ListsInv'
      BY <1>0, <2>1, <2>2, <2>3, <2>4 DEF ListMoved, ListsInv
    <2>6. LoadInv'
      BY <1>0, <1>i, <2>1 DEF LoadInv
    <2>7. KeptInv'
      BY <1>0, <1>i, <2>1, <2>4 DEF KeptInv
    <2> QED BY <2>5, <2>6, <2>7 DEF SubscriptionsInv
  <1>3. CASE LoadFails
    <2>1. /\ load.phase = "read" /\ load' = Idle /\ loaded' = FALSE
          /\ UNCHANGED <<lists, fresh, status, rows, degraded, raced>>
      BY <1>3 DEF LoadFails
    <2>3. ListsInv'
      BY <1>0, <2>1 DEF ListsInv, Memory
    <2>4. LoadInv'
      BY <1>0, <1>i, <2>1 DEF LoadInv
    <2>5. KeptInv'
      BY <1>0, <1>i, <2>1 DEF KeptInv
    <2> QED BY <2>3, <2>4, <2>5 DEF SubscriptionsInv
  <1>4. CASE Reconnect
    <2>1. /\ load.phase = "no" /\ load' = [Idle EXCEPT !.phase = "read"]
          /\ raced' = raced \cup {p \in Durables : status[p] \in {"persisting", "deleting"}}
          /\ UNCHANGED <<lists, fresh, status, rows, degraded, loaded>>
      BY <1>4 DEF Reconnect
    <2>2. load'.phase = "read"
      BY <1>i, <2>1
    <2>3. ListsInv'
      BY <1>0, <2>1 DEF ListsInv, Memory
    <2>4. LoadInv'
      BY <1>0, <1>i, <2>1 DEF LoadInv
    <2>5. \A p \in Durables : status[p] \in Statuses
      BY <1>0 DEF ListsInv
    <2>6. KeptInv'
      BY <1>0, <2>1, <2>2, <2>5 DEF KeptInv, Statuses
    <2> QED BY <2>3, <2>4, <2>6 DEF SubscriptionsInv
  <1>5. CASE RestartSubscriptions
    <2>1. /\ lists' = [k \in Kinds |-> NoList] /\ load' = [Idle EXCEPT !.phase = "read"]
          /\ raced' = {} /\ UNCHANGED <<fresh, rows, degraded, loaded>>
      BY <1>5 DEF RestartSubscriptions
    <2>2. /\ status' \in [Subs -> Statuses] /\ \A s \in Callbacks : status'[s] = "new"
          /\ \A p \in Durables : status'[p] = CASE status[p] = "persisting" -> IF p \in rows THEN "on" ELSE "off"
                                                [] status[p] = "deleting"   -> IF p \in rows THEN "on" ELSE "off"
                                                [] OTHER                    -> status[p]
      <3> DEFINE S(s) == CASE s \in Callbacks          -> "new"
                           [] status[s] = "persisting" -> IF s \in rows THEN "on" ELSE "off"
                           [] status[s] = "deleting"   -> IF s \in rows THEN "on" ELSE "off"
                           [] OTHER                    -> status[s]
      <3>1. status' = [s \in Subs |-> S(s)]
        BY <1>5 DEF RestartSubscriptions
      <3>2. \A s \in Callbacks : S(s) = "new"
        BY <1>0 DEF ListsInv
      <3>3. \A p \in Durables : S(p) = CASE status[p] = "persisting" -> IF p \in rows THEN "on" ELSE "off"
                                         [] status[p] = "deleting"   -> IF p \in rows THEN "on" ELSE "off"
                                         [] OTHER                    -> status[p]
        OBVIOUS
      <3>4. \A s \in Subs : status[s] \in Statuses
        BY <1>0 DEF ListsInv
      <3>5. \A s \in Subs : S(s) \in Statuses
        BY <3>4 DEF Statuses
      <3> HIDE DEF S
      <3> QED BY <3>1, <3>2, <3>3, <3>5
    <2>3. load'.phase = "read"
      BY <1>i, <2>1
    <2>4. \A k \in Kinds : lists'[k] = NoList /\ NoList \in ListType /\ NoList.id = 0 /\ NoList.subs = <<>>
      BY <2>1, EmptyList DEF NoList, ListType
    <2>5. lists' \in [Kinds -> ListType]
      BY <2>1, <2>4
    <2>6. \A k \in Kinds : lists'[k].id <= fresh' /\ IsInjective(lists'[k].subs) /\ ToSet(lists'[k].subs) = {}
      <3>1. fresh' \in Nat
        BY <1>0, <2>1 DEF ListsInv
      <3>2. \A k \in Kinds : lists'[k].id = 0 /\ lists'[k].subs = <<>>
        BY <2>4
      <3> QED BY <3>1, <3>2, EmptyList
    <2>7. {s \in Callbacks : status'[s] = "on"} = {}
      BY <2>2
    <2>8. ListsInv'
      BY <1>0, <2>1, <2>2, <2>5, <2>6, <2>7 DEF ListsInv, Memory
    <2>9. LoadInv'
      BY <1>0, <1>i, <2>1 DEF LoadInv
    <2>10. \A p \in Durables \ degraded : (p \in rows <=> status'[p] = "on") /\ status'[p] \in {"new", "on", "off"}
      <3> SUFFICES ASSUME NEW p \in Durables \ degraded
                   PROVE  (p \in rows <=> status'[p] = "on") /\ status'[p] \in {"new", "on", "off"}
        OBVIOUS
      <3>1. (p \in rows <=> status[p] \in {"persisting", "on", "deleting"}) /\ status[p] \in Statuses
        BY <1>0 DEF KeptInv, ListsInv
      <3>2. status[p] \in {"persisting", "deleting"} => status'[p] = "on"
        BY <2>2, <3>1
      <3>3. status[p] \in {"new", "on", "off"} => status'[p] = status[p]
        BY <2>2
      <3> QED BY <3>1, <3>2, <3>3 DEF Statuses
    <2>11. KeptInv'
      BY <2>1, <2>3, <2>10 DEF KeptInv
    <2> QED BY <2>8, <2>9, <2>11 DEF SubscriptionsInv
  <1> QED BY <1>1, <1>2, <1>3, <1>4, <1>5

\* Every step of the subscriptions, and a new process, keep their invariant.
LEMMA SubscriptionsKeep ==
    ASSUME SubscriptionsInv, SubscriptionStep \/ RestartSubscriptions \/ UNCHANGED subscriptions
    PROVE  SubscriptionsInv'
  <1>1. CASE SubscriptionStep
    BY <1>1, CallbackSteps, StatementSteps, MemorySteps, LoadSteps DEF SubscriptionStep
  <1>2. CASE RestartSubscriptions
    BY <1>2, LoadSteps
  <1>3. CASE UNCHANGED subscriptions
    BY <1>3 DEF SubscriptionsInv, ListsInv, LoadInv, KeptInv, Memory, subscriptions
  <1> QED BY <1>1, <1>2, <1>3

\* A process that has connected.
LEMMA SubscriptionsStart == SubscriptionsInit => SubscriptionsInv
  <1> USE KindFacts
  <1> SUFFICES ASSUME SubscriptionsInit PROVE SubscriptionsInv
    OBVIOUS
  <1> DEFINE held(k) == {s \in Present : KindOf(s) = k}
             l(k) == IF held(k) = {} THEN NoList
                     ELSE [id |-> IF k = "callback" THEN 1 ELSE 2, subs |-> SetToSeq(held(k))]
  <1>1. /\ lists = [k \in Kinds |-> l(k)] /\ fresh = 2 /\ rows = Present \cap Durables /\ load = Idle
        /\ status = [s \in Subs |-> IF s \in Present THEN "on" ELSE "new"]
        /\ degraded = {} /\ raced = {} /\ loaded = TRUE
    BY DEF SubscriptionsInit
  <1>2. Present \subseteq Subs /\ IsFiniteSet(Subs)
    BY SubscriptionAssumption, FS_Union DEF Subs
  <1>3. \A k \in Kinds : held(k) \subseteq Subs /\ IsFiniteSet(held(k))
    BY <1>2, FS_Subset
  <1>4. held("callback") = Present \cap Callbacks /\ held("durable") = Present \cap Durables
    BY <1>2 DEF KindOf
  <1>5. ASSUME NEW k \in Kinds
        PROVE  /\ l(k) \in ListType /\ l(k).id <= 2
               /\ IsInjective(l(k).subs) /\ ToSet(l(k).subs) = held(k)
    <2>1. CASE held(k) = {}
      <3>1. l(k) = NoList
        BY <2>1
      <3>2. NoList \in ListType /\ NoList.id = 0 /\ NoList.subs = <<>>
        BY EmptyList DEF NoList, ListType
      <3> HIDE DEF l
      <3>3. l(k) \in ListType /\ l(k).id = 0 /\ l(k).subs = <<>>
        BY <3>1, <3>2
      <3> QED BY <2>1, <3>3, EmptyList
    <2>2. CASE held(k) # {}
      <3> DEFINE seq == SetToSeq(held(k))
                 id == IF k = "callback" THEN 1 ELSE 2
      <3>1. seq \in Seq(held(k)) /\ IsInjective(seq) /\ ToSet(seq) = held(k)
        BY <1>3, <1>5, SetToSeqFacts
      <3>2. seq \in Seq(Subs)
        BY <1>3, <1>5, <3>1, SeqMonotonic
      <3>3. l(k) = [id |-> id, subs |-> seq]
        BY <2>2
      <3>4. id \in Nat /\ id <= 2
        OBVIOUS
      <3> HIDE DEF seq, id, l, held
      <3>5. l(k) \in ListType /\ l(k).id = id /\ l(k).subs = seq
        BY <3>2, <3>3, <3>4 DEF ListType
      <3> QED BY <3>1, <3>4, <3>5
    <2> QED BY <2>1, <2>2
  <1> HIDE DEF l
  <1>6. \A k \in Kinds : lists[k] = l(k)
    BY <1>1
  <1> HIDE DEF held
  <1>7. lists \in [Kinds -> ListType]
    BY <1>1, <1>5
  <1>8. \A k \in Kinds : lists[k].id <= fresh /\ IsInjective(lists[k].subs) /\ ToSet(lists[k].subs) = held(k)
    BY <1>1, <1>5, <1>6
  <1>9. Memory = Present \cap Durables /\ ToSet(lists["callback"].subs) = Present \cap Callbacks
    BY <1>4, <1>8 DEF Memory
  <1>10. /\ status \in [Subs -> Statuses] /\ \A s \in Subs : status[s] = IF s \in Present THEN "on" ELSE "new"
    BY <1>1 DEF Statuses
  <1>11. \A s \in Callbacks : status[s] \in {"new", "on", "off"}
    BY <1>10
  <1>12. Present \cap Callbacks = {s \in Callbacks : status[s] = "on"}
    BY <1>10
  <1>13. ListsInv
    BY <1>1, <1>7, <1>8, <1>9, <1>10, <1>11, <1>12 DEF ListsInv
  <1>14. LoadInv
    BY <1>1 DEF LoadInv, Idle
  <1>15. KeptInv
    BY <1>1, <1>9, <1>10 DEF KeptInv, Idle
  <1> QED BY <1>13, <1>14, <1>15 DEF SubscriptionsInv

\* The invariant is what the properties say.
LEMMA SubscriptionsMean == SubscriptionsInv => SubscriptionsTypeOK /\ DurableKept
  <1> SUFFICES ASSUME SubscriptionsInv PROVE SubscriptionsTypeOK /\ DurableKept
    OBVIOUS
  <1>1. \A k \in Kinds : lists[k].id \in 0 .. fresh /\ IsInjective(lists[k].subs)
    <2>1. \A k \in Kinds : lists[k].id \in Nat /\ lists[k].id <= fresh /\ fresh \in Nat
      BY DEF SubscriptionsInv, ListsInv, ListType
    <2> QED BY <2>1 DEF SubscriptionsInv, ListsInv
  <1>2. SubscriptionsTypeOK
    BY <1>1 DEF SubscriptionsInv, ListsInv, LoadInv, SubscriptionsTypeOK
  <1>3. DurableKept
    BY DEF SubscriptionsInv, KeptInv, DurableKept
  <1> QED BY <1>2, <1>3

\* A step of the process is one of the subscriptions, a new process, or leaves them alone.
LEMMA SubscriptionsInNext ==
    [Next]_vars => SubscriptionStep \/ RestartSubscriptions \/ UNCHANGED subscriptions
  BY DEF Next, vars, SubscriptionsMove, Restart

\* DurableKept for any subscriptions, any number of reconnects and restarts, and any failures
\* of the store: register_persistent, unregister_persistent and load_persistent keep memory,
\* table and the owner's view together, but for the raised statements they record, a load
\* that raised and those that raced a load.
THEOREM DurableIsKept == Spec => []DurableKept
  <1>1. Init => SubscriptionsInv
    BY SubscriptionsStart DEF Init
  <1>2. SubscriptionsInv /\ [Next]_vars => SubscriptionsInv'
    BY SubscriptionsInNext, SubscriptionsKeep
  <1>3. SubscriptionsInv => DurableKept
    BY SubscriptionsMean
  <1> QED BY <1>1, <1>2, <1>3, PTL DEF Spec

-------------------------------------------------------------------------------
(* A dispatch, from one await to the next.                                 *)

CallType ==
    [pc : Active \cup {"new", "returned"}, event : Rows \cup {None}, kind : Kinds,
     todo : [Kinds -> Seq(Subs)], held : [Kinds -> Nat],
     sub : Subs \cup {None}, again : BOOLEAN, suspects : Seq(Ids), refresh : BOOLEAN,
     left : Ids \cup {None}, right : Ids \cup {None}, asked : Ids \cup {None}, answer : Rows \cup {None},
     matched : SUBSET Subs, run : [Subs -> {"no", "wait", "run", "done"}], within : Seq(Dispatches \X Subs),
     sure : BOOLEAN, missed : SUBSET Subs]

\* The namespace that an id names, or a version of which it names.
Home(id) == IF id \in Rows THEN id[1] ELSE id

\* What a lookup of the id may return: a row is only ever resolved to itself.
Found(id, row) == row \in Rows /\ Home(row) = Home(id) /\ (id \in Rows => row = id)

CacheOK(c) == c \in [Ids -> Rows \cup {None}] /\ \A id \in Ids : c[id] # None => Found(id, c[id])

\* A scope check under way: the event's side is the event, and the scope's side is of the
\* scope's namespace, also where the lookup raised.
Checking(r) ==
    /\ r.event \in Rows /\ r.sub \in Subs /\ Scope[r.sub] \in Ids
    /\ r.left \in {None, r.event} /\ (r.right # None => Home(r.right) = Home(Scope[r.sub]))
    /\ \A i \in DOMAIN r.suspects : r.suspects[i] \in {r.event, Scope[r.sub]}

\* The id that the check looks up, and the answer.
Asking(r) ==
    /\ r.asked \in {r.event, Scope[r.sub]}
    /\ r.refresh => r.suspects # <<>> /\ r.asked = Head(r.suspects)
    /\ ~r.refresh => r.asked = IF r.left = None THEN r.event ELSE Scope[r.sub]
    /\ r.pc = "ask" => r.answer = None
    /\ r.answer # None => Found(r.asked, r.answer)

InTheirScope(r, S) == \A s \in S : Scope[s] # None => Home(Scope[s]) = r.event[1]

Between(r) ==
    /\ r.sub = None /\ r.left = None /\ r.right = None /\ r.answer = None
    /\ r.suspects = <<>> /\ ~r.refresh /\ ~r.sure

CallOK(r) ==
    /\ r \in CallType
    /\ r.pc \in {"ask", "got"} <=> r.asked # None
    /\ r.pc \in Active => r.event \in Rows
    /\ r.pc \notin Active => r.matched = {}
    /\ InTheirScope(r, r.matched)
    /\ r.pc \in {"ask", "got"} => Checking(r) /\ Asking(r)
    /\ r.pc = "gate" => r.sub \in Subs /\ InTheirScope(r, {r.sub})
    /\ r.pc = "next" => Between(r)

\* A check that began on the active version and has not been disturbed: only the scope can be
\* a stale suspect, and once it is none the cache has the event's row for it.
SureOK(r, c) ==
    LET sc == Scope[r.sub] IN
    /\ sc \in Namespaces /\ r.right \in {None, r.event}
    /\ \A i \in DOMAIN r.suspects : r.suspects[i] = sc
    /\ r.suspects = <<>> => c[sc] \in {None, r.event}

\* A lookup of the scope that is under way has not read another row.
Honest(r, sc, e) == r.pc = "got" /\ r.asked = sc => r.answer \in {None, e}

Certain(r) == r.sure /\ r.pc \in {"ask", "got"}

VersionInv ==
    /\ version \in [Namespaces -> 1 .. MaxVersion] /\ active \in [Namespaces -> BOOLEAN]
    /\ \A n \in Namespaces : ~active[n] => version[n] < MaxVersion

CallsInv == calls \in [Dispatches -> CallType] /\ \A d \in Dispatches : CallOK(calls[d])

PermitInv == IsFiniteSet(Invocations) /\ Cardinality(Invocations) <= Permits

SureInv ==
    \A d \in Dispatches :
        LET r == calls[d]
            sc == Scope[r.sub]
        IN
        /\ r.missed = {}
        /\ Certain(r) =>
              /\ SureOK(r, cache) /\ active[sc] /\ r.event = ActiveRow(sc)
              /\ r.pc = "got" => r.answer = r.event
              /\ \A x \in Dispatches : Honest(calls[x], sc, r.event)

DispatcherInv == VersionInv /\ CallsInv /\ CacheOK(cache) /\ PermitInv /\ SureInv

\* Ids of the two kinds are told apart.
LEMMA HomeFacts ==
    /\ \A e \in Rows : e \in Ids /\ e # None /\ Home(e) = e[1] /\ e[1] \in Namespaces /\ e \notin Namespaces
    /\ \A n \in Namespaces : n \in Ids /\ n # None /\ Home(n) = n /\ n \notin Rows
  BY DispatcherAssumption DEF Ids, Home, Rows

\* resolve_namespace gives the row of a version of the namespace asked for; of a namespace
\* that is active, the active one.
LEMMA ResolveFacts ==
    ASSUME VersionInv
    PROVE  /\ \A id \in Ids : Resolve(id) # None => Found(id, Resolve(id))
           /\ \A n \in Namespaces : /\ ActiveRow(n) \in Rows /\ Home(ActiveRow(n)) = n
                                    /\ active[n] => Resolve(n) = ActiveRow(n) /\ Resolve(ActiveRow(n)) = ActiveRow(n)
                                    /\ ~active[n] => Resolve(n) = None
  <1>1. \A n \in Namespaces : ActiveRow(n) \in Rows /\ ActiveRow(n)[1] = n
    BY DEF VersionInv, ActiveRow, Rows
  <1>2. \A n \in Namespaces : Home(ActiveRow(n)) = n
    BY <1>1, HomeFacts
  <1> DEFINE hits(id) == {n \in Namespaces : active[n] /\ id \in {n, ActiveRow(n)}}
  <1>3. \A id \in Ids : \A n \in hits(id) : n = Home(id) /\ (id \in Rows => ActiveRow(n) = id)
    BY <1>1, <1>2, HomeFacts
  <1>4. ASSUME NEW id \in Ids, hits(id) # {}
        PROVE  \E n \in hits(id) : Resolve(id) = ActiveRow(n)
    BY <1>4 DEF Resolve
  <1>5. \A id \in Ids : hits(id) = {} => Resolve(id) = None
    BY DEF Resolve
  <1>6. ASSUME NEW id \in Ids, Resolve(id) # None PROVE Found(id, Resolve(id))
    <2>1. PICK n \in hits(id) : Resolve(id) = ActiveRow(n)
      BY <1>4, <1>5, <1>6
    <2>2. n \in Namespaces /\ n = Home(id) /\ (id \in Rows => ActiveRow(n) = id)
      BY <1>3
    <2> QED BY <1>1, <1>2, <2>1, <2>2 DEF Found
  <1>7. ASSUME NEW n \in Namespaces, active[n]
        PROVE  Resolve(n) = ActiveRow(n) /\ Resolve(ActiveRow(n)) = ActiveRow(n)
    <2>1. n \in hits(n) /\ n \in hits(ActiveRow(n))
      BY <1>7
    <2>2. n \in Ids /\ ActiveRow(n) \in Ids
      BY <1>1, HomeFacts
    <2>3. \A m \in hits(n) : m = n
      BY <1>3, <2>2, HomeFacts
    <2>4. \A m \in hits(ActiveRow(n)) : ActiveRow(m) = ActiveRow(n)
      BY <1>1, <1>3, <2>2
    <2>5. Resolve(n) = ActiveRow(n)
      BY <1>4, <2>1, <2>2, <2>3
    <2>6. Resolve(ActiveRow(n)) = ActiveRow(n)
      BY <1>4, <2>1, <2>2, <2>4
    <2> QED BY <2>5, <2>6
  <1>8. ASSUME NEW n \in Namespaces, ~active[n] PROVE Resolve(n) = None
    BY <1>3, <1>5, <1>8, HomeFacts
  <1> QED BY <1>1, <1>2, <1>6, <1>7, <1>8

\* What the steps of one call leave alone.
Same(r, q) == q.event = r.event /\ q.run = r.run /\ q.missed = r.missed

\* The call goes on with the next subscription.
LEMMA AdvanceFacts ==
    ASSUME NEW r \in CallType, r.event \in Rows, InTheirScope(r, r.matched)
    PROVE  /\ CallOK(Advance(r)) /\ Same(r, Advance(r)) /\ Advance(r).pc = "next"
           /\ Advance(r).todo = r.todo /\ Advance(r).kind = r.kind /\ Advance(r).matched = r.matched
           /\ \A t \in [Kinds -> Seq(Subs)] :
                 LET q == [Advance(r) EXCEPT !.again = TRUE, !.todo = t] IN CallOK(q) /\ Same(r, q) /\ q.pc = "next"
  <1> DEFINE q == Advance(r)
  <1>1. /\ q \in CallType /\ q.pc = "next" /\ q.event = r.event /\ q.matched = r.matched /\ q.run = r.run
        /\ q.missed = r.missed /\ q.todo = r.todo /\ q.kind = r.kind
        /\ q.sub = None /\ q.asked = None /\ q.left = None /\ q.right = None /\ q.answer = None
        /\ q.suspects = <<>> /\ ~q.refresh /\ ~q.sure
    BY EmptySeq DEF Advance, CallType, Active, Matching
  <1> HIDE DEF q
  <1>2. CallOK(q) /\ Same(r, q)
    BY <1>1 DEF CallOK, Same, Between, InTheirScope, Active, Matching
  <1>3. ASSUME NEW t \in [Kinds -> Seq(Subs)]
        PROVE  LET p == [q EXCEPT !.again = TRUE, !.todo = t] IN CallOK(p) /\ Same(r, p) /\ p.pc = "next"
    <2> DEFINE p == [q EXCEPT !.again = TRUE, !.todo = t]
    <2>1. /\ p \in CallType /\ p.pc = "next" /\ p.event = r.event /\ p.matched = r.matched /\ p.run = r.run
          /\ p.missed = r.missed /\ p.sub = None /\ p.asked = None /\ p.left = None /\ p.right = None
          /\ p.answer = None /\ p.suspects = <<>> /\ ~p.refresh /\ ~p.sure
      BY <1>1 DEF CallType
    <2> HIDE DEF p
    <2>2. CallOK(p) /\ Same(r, p) /\ p.pc = "next"
      BY <2>1 DEF CallOK, Same, Between, InTheirScope, Active, Matching
    <2> QED BY <2>2 DEF p
  <1> QED BY <1>1, <1>2, <1>3 DEF q

\* The subscription matched, or its filter decides.
LEMMA InScopeFacts ==
    ASSUME NEW r \in CallType, r.event \in Rows, r.sub \in Subs, r.asked = None,
           InTheirScope(r, r.matched), InTheirScope(r, {r.sub})
    PROVE  /\ CallOK(Match(r)) /\ Same(r, Match(r)) /\ Match(r).pc = "next"
           /\ CallOK(InScope(r)) /\ Same(r, InScope(r)) /\ InScope(r).pc \in {"next", "gate"}
  <1> DEFINE m == [r EXCEPT !.matched = @ \cup {r.sub}]
             g == [r EXCEPT !.pc = "gate"]
             t == [r.todo EXCEPT ![r.kind] = <<r.sub>> \o @]
             a == [Advance(r) EXCEPT !.again = TRUE, !.todo = t]
  <1>1. m \in CallType /\ m.event = r.event /\ m.matched = r.matched \cup {r.sub} /\ Same(r, m)
    BY ZenonT(30) DEF CallType, Same
  <1>2. InTheirScope(m, m.matched)
    BY <1>1 DEF InTheirScope
  <1>3. CallOK(Match(r)) /\ Same(r, Match(r)) /\ Match(r).pc = "next"
    <2> HIDE DEF m
    <2>1. CallOK(Advance(m)) /\ Same(m, Advance(m)) /\ Advance(m).pc = "next"
      BY <1>1, <1>2, AdvanceFacts
    <2>2. Match(r) = Advance(m)
      BY DEF Match, m
    <2> QED BY <1>1, <2>1, <2>2 DEF Same
  <1>4. CallOK(g) /\ Same(r, g) /\ g.pc = "gate"
    <2>0. "gate" \in Active \cup {"new", "returned"}
      BY DEF Active, Matching
    <2>1. g \in CallType
      BY ZenonT(30), <2>0 DEF CallType
    <2>2. /\ g.pc = "gate" /\ g.event = r.event /\ g.matched = r.matched /\ g.run = r.run
          /\ g.missed = r.missed /\ g.sub = r.sub /\ g.asked = None
      BY DEF CallType
    <2> HIDE DEF g
    <2> QED BY <2>1, <2>2 DEF CallOK, Same, InTheirScope, Active, Matching
  <1>5. t \in [Kinds -> Seq(Subs)]
    <2>1. r.kind \in Kinds /\ r.todo \in [Kinds -> Seq(Subs)] /\ r.todo[r.kind] \in Seq(Subs)
      BY DEF CallType
    <2>2. <<r.sub>> \in Seq(Subs)
      OBVIOUS
    <2>3. <<r.sub>> \o r.todo[r.kind] \in Seq(Subs)
      BY <2>1, <2>2, ConcatProperties
    <2> QED BY <2>1, <2>3
  <1>6. CallOK(a) /\ Same(r, a) /\ a.pc = "next"
    BY <1>5, AdvanceFacts
  <1>7. InScope(r) \in {a, g, Match(r)}
    <2>0. Advance(r).todo = r.todo /\ Advance(r) \in CallType
      BY AdvanceFacts DEF CallOK
    <2>1. Advance(r).todo = r.todo /\ "todo" \in DOMAIN Advance(r) /\ "again" \in DOMAIN Advance(r)
      BY <2>0 DEF CallType
    <2>2. [Advance(r) EXCEPT !.again = TRUE, !.todo[r.kind] = <<r.sub>> \o @] = a
      <3> DEFINE b == [Advance(r) EXCEPT !.again = TRUE]
      <3>1. b.todo = r.todo
        BY <2>1
      <3> QED BY <3>1
    <2> QED BY <2>2 DEF InScope
  <1> HIDE DEF a, g
  <1> QED BY <1>3, <1>4, <1>6, <1>7

\* The subscription did not match.
LEMMA OutOfScopeFacts ==
    ASSUME NEW r \in CallType, r.event \in Rows, r.sub \in Subs, InTheirScope(r, r.matched)
    PROVE  /\ CallOK(OutOfScope(r)) /\ OutOfScope(r).pc = "next" /\ OutOfScope(r).run = r.run
           /\ ~r.sure => OutOfScope(r).missed = r.missed
  <1> DEFINE x == IF r.sure THEN r.missed \cup {r.sub} ELSE r.missed
             m == [r EXCEPT !.missed = x]
  <1>1. x \in SUBSET Subs /\ (~r.sure => x = r.missed)
    BY DEF CallType
  <1> HIDE DEF x
  <1>2. m \in CallType /\ m.event = r.event /\ m.matched = r.matched /\ m.run = r.run /\ m.missed = x
    BY <1>1 DEF CallType
  <1>3. OutOfScope(r) = Advance(m)
    BY DEF OutOfScope, x
  <1> HIDE DEF m
  <1>4. CallOK(Advance(m)) /\ Same(m, Advance(m)) /\ Advance(m).pc = "next"
    BY <1>2, AdvanceFacts DEF InTheirScope
  <1> QED BY <1>1, <1>2, <1>3, <1>4 DEF Same

\* A check that goes on without an await.
Resumed(r) ==
    /\ r \in CallType /\ Checking(r) /\ InTheirScope(r, r.matched)
    /\ ~r.refresh /\ r.asked = None /\ r.answer = None

\* It leads to a lookup, or to the end of the check: without a leak, and without a miss where
\* it was sure.
Compared(r, c, q) ==
    /\ CallOK(q) /\ q.pc \in {"ask", "gate", "next"} /\ q.run = r.run
    /\ (r.sure => SureOK(r, c)) =>
          /\ q.missed = r.missed
          /\ q.pc = "ask" => q.event = r.event /\ q.sub = r.sub /\ q.sure = r.sure /\ (r.sure => SureOK(q, c))

\* An id of the check is looked up.
LEMMA AskFacts ==
    ASSUME NEW r, Resumed(r), NEW q \in CallType, q.pc = "ask", q.event = r.event, q.sub = r.sub,
           q.matched = r.matched, q.run = r.run, q.missed = r.missed, q.right = r.right,
           q.suspects = r.suspects, q.answer = r.answer, q.sure = r.sure,
           q.left \in {None, r.event}, q.asked \in {r.event, Scope[r.sub]},
           q.refresh => q.suspects # <<>> /\ q.asked = Head(q.suspects),
           ~q.refresh => q.asked = IF q.left = None THEN r.event ELSE Scope[r.sub]
    PROVE  \A c : Compared(r, c, q)
  <1>1. Checking(q)
    BY DEF Resumed, Checking
  <1>2. Asking(q)
    BY DEF Resumed, Asking
  <1>3. q.asked # None
    BY DispatcherAssumption, HomeFacts DEF Resumed, Checking
  <1>4. InTheirScope(q, q.matched)
    BY DEF Resumed, InTheirScope
  <1>5. q.event \in Rows
    BY DEF Resumed, Checking
  <1>6. CallOK(q)
    BY <1>1, <1>2, <1>3, <1>4, <1>5 DEF CallOK, Active, Matching
  <1>7. \A c : SureOK(r, c) => SureOK(q, c)
    BY DEF SureOK
  <1> QED BY <1>6, <1>7 DEF Compared

\* _namespace_scope_matches, as far as it goes without an await.
LEMMA CompareFacts ==
    ASSUME NEW r, Resumed(r), NEW c, CacheOK(c)
    PROVE  Compared(r, c, Compare(r, c))
  <1> DEFINE l == IF r.left # None THEN r.left ELSE c[r.event]
             g == IF r.right # None THEN r.right ELSE c[Scope[r.sub]]
             sc == Scope[r.sub]
             q == Compare(r, c)
  <1>1. /\ r \in CallType /\ r.event \in Rows /\ r.event \in Ids /\ r.event # None /\ r.sub \in Subs
        /\ sc \in Ids /\ sc # None
    BY HomeFacts, DispatcherAssumption DEF Resumed, Checking
  <1>2. l \in {None, r.event}
    BY <1>1 DEF Resumed, Checking, CacheOK, Found
  <1>3. g # None => Home(g) = Home(sc)
    BY <1>1 DEF Resumed, Checking, CacheOK, Found
  <1>4. CASE l = None
    <2>1. q = [r EXCEPT !.pc = "ask", !.asked = r.event]
      BY <1>4 DEF Compare
    <2>2. r.left = None
      BY <1>1, <1>4
    <2>3. /\ q \in CallType /\ q.pc = "ask" /\ q.event = r.event /\ q.sub = r.sub
          /\ q.matched = r.matched /\ q.run = r.run /\ q.missed = r.missed /\ q.right = r.right
          /\ q.suspects = r.suspects /\ q.answer = r.answer /\ q.sure = r.sure
          /\ q.left = r.left /\ q.asked = r.event /\ q.refresh = r.refresh
      BY ZenonT(30), <1>1, <2>1 DEF CallType, Active, Matching
    <2> HIDE DEF q
    <2>4. \A b : Compared(r, b, q)
      BY <2>2, <2>3, AskFacts DEF Resumed
    <2> QED BY <2>4 DEF q
  <1>5. CASE l # None /\ g = None
    <2>1. q = [r EXCEPT !.pc = "ask", !.asked = sc, !.left = l]
      BY <1>5 DEF Compare
    <2>2. l = r.event /\ l \in Ids \cup {None}
      BY <1>1, <1>2, <1>5
    <2> HIDE DEF l
    <2>3. /\ q \in CallType /\ q.pc = "ask" /\ q.event = r.event /\ q.sub = r.sub
          /\ q.matched = r.matched /\ q.run = r.run /\ q.missed = r.missed /\ q.right = r.right
          /\ q.suspects = r.suspects /\ q.answer = r.answer /\ q.sure = r.sure
          /\ q.left = l /\ q.asked = sc /\ q.refresh = r.refresh
      BY ZenonT(30), <1>1, <2>1, <2>2 DEF CallType, Active, Matching
    <2> HIDE DEF q
    <2>4. \A b : Compared(r, b, q)
      BY <1>1, <2>2, <2>3, AskFacts DEF Resumed
    <2> QED BY <2>4 DEF q
  <1>6. CASE l # None /\ g # None /\ l = g
    <2>1. q = InScope(r)
      BY <1>6 DEF Compare
    <2>2. Home(sc) = r.event[1]
      BY <1>1, <1>2, <1>3, <1>6, HomeFacts
    <2>3. InTheirScope(r, {r.sub})
      BY <2>2 DEF InTheirScope
    <2>4. CallOK(q) /\ Same(r, q) /\ q.pc \in {"next", "gate"}
      BY <1>1, <2>1, <2>3, InScopeFacts DEF Resumed
    <2> QED BY <2>4 DEF Compared, Same
  <1>7. CASE l # None /\ g # None /\ l # g /\ r.suspects = <<>>
    <2>1. q = OutOfScope(r)
      BY <1>7 DEF Compare
    <2>2. /\ CallOK(q) /\ q.pc = "next" /\ q.run = r.run
          /\ ~r.sure => q.missed = r.missed
      BY <1>1, <2>1, OutOfScopeFacts DEF Resumed
    <2>3. ~SureOK(r, c)
      BY <1>1, <1>2, <1>7 DEF SureOK
    <2> QED BY <2>2, <2>3 DEF Compared
  <1>8. CASE l # None /\ g # None /\ l # g /\ r.suspects # <<>>
    <2> DEFINE h == Head(r.suspects)
    <2>1. q = [r EXCEPT !.pc = "ask", !.asked = h, !.refresh = TRUE]
      BY <1>8 DEF Compare
    <2>2. h \in {r.event, sc}
      <3>1. r.suspects \in Seq(Ids)
        BY <1>1 DEF CallType
      <3>2. 1 \in DOMAIN r.suspects /\ h = r.suspects[1]
        BY <1>8, <3>1, ToSetFacts
      <3> QED BY <3>2 DEF Resumed, Checking
    <2>3. h \in Ids
      BY <1>1, <2>2
    <2> HIDE DEF h, q
    <2>4. /\ q \in CallType /\ q.pc = "ask" /\ q.event = r.event /\ q.sub = r.sub
          /\ q.matched = r.matched /\ q.run = r.run /\ q.missed = r.missed /\ q.right = r.right
          /\ q.suspects = r.suspects /\ q.answer = r.answer /\ q.sure = r.sure
          /\ q.left = r.left /\ q.asked = h /\ q.refresh = TRUE
      BY <1>1, <2>1, <2>3 DEF CallType, Active, Matching
    <2>5. q.asked = Head(q.suspects)
      BY <2>4 DEF h
    <2>6. q.left \in {None, r.event}
      BY <2>4 DEF Resumed, Checking
    <2>7. \A b : Compared(r, b, q)
      BY <1>8, <2>2, <2>4, <2>5, <2>6, AskFacts
    <2> QED BY <2>7 DEF q
  <1> HIDE DEF l, g
  <1> QED BY <1>4, <1>5, <1>6, <1>7, <1>8

\* Calls that were not made, and calls that are over.
LEMMA EndedFacts ==
    /\ CallOK(NewCall) /\ NewCall.missed = {} /\ NewCall.pc = "new" /\ \A s \in Subs : NewCall.run[s] = "no"
    /\ \A r \in CallType : /\ CallOK(Ended(r)) /\ Ended(r).pc = "returned" /\ Ended(r).missed = r.missed
                           /\ \A s \in Subs : Ended(r).run[s] = "no"
  <1> DEFINE n == NewCall
  <1>1. /\ n \in CallType /\ n.pc = "new" /\ n.missed = {} /\ n.asked = None /\ n.matched = {}
        /\ n.run = [s \in Subs |-> "no"]
    <2>1. <<>> \in Seq(Subs) /\ <<>> \in Seq(Ids) /\ <<>> \in Seq(Dispatches \X Subs)
      BY EmptySeq
    <2>2. [k \in Kinds |-> <<>>] \in [Kinds -> Seq(Subs)] /\ [k \in Kinds |-> 0] \in [Kinds -> Nat]
      BY <2>1
    <2>3. [s \in Subs |-> "no"] \in [Subs -> {"no", "wait", "run", "done"}]
      OBVIOUS
    <2>4. "callback" \in Kinds
      BY DEF Kinds
    <2>5. n \in CallType
      BY <2>1, <2>2, <2>3, <2>4 DEF NewCall, CallType, Active, Matching
    <2> QED BY <2>5 DEF NewCall
  <1> HIDE DEF n
  <1>2. CallOK(n) /\ \A s \in Subs : n.run[s] = "no"
    BY <1>1 DEF CallOK, InTheirScope, Active, Matching
  <1>3. ASSUME NEW r \in CallType
        PROVE  /\ CallOK(Ended(r)) /\ Ended(r).pc = "returned" /\ Ended(r).missed = r.missed
               /\ \A s \in Subs : Ended(r).run[s] = "no"
    <2> DEFINE q == Ended(r)
               m == r.missed
    <2>1. m \in SUBSET Subs
      BY DEF CallType
    <2>2. q = [n EXCEPT !.pc = "returned", !.missed = m]
      BY DEF Ended, n
    <2> HIDE DEF q, m
    <2>6. q \in CallType
      <3>1. n \in CallType
        BY <1>1
      <3> QED BY ONLY ZenonT(30), <2>1, <2>2, <3>1 DEF CallType
    <2>7. q.pc = "returned" /\ q.missed = m /\ q.asked = None
      BY <1>1, <2>1, <2>2 DEF CallType
    <2>3. q \in CallType /\ q.pc = "returned" /\ q.missed = r.missed /\ q.asked = None
      BY <2>6, <2>7 DEF m
    <2>5. q.matched = {} /\ q.run = n.run
      BY <1>1, <2>1, <2>2 DEF CallType
    <2>4. CallOK(q) /\ \A s \in Subs : q.run[s] = "no"
      BY <1>1, <2>3, <2>5 DEF CallOK, InTheirScope, Active, Matching
    <2> QED BY <2>3, <2>4 DEF q
  <1> QED BY <1>1, <1>2, <1>3 DEF n

NoneStarted(r, q) == \A s \in Subs : q.run[s] = "run" => r.run[s] = "run"

\* A call that is left alone, as far as its check goes, or that is over.
Quiet(r, q) ==
    /\ CallOK(q) /\ q.missed = r.missed
    /\ q.pc = "got" => r.pc = "got" /\ q.asked = r.asked /\ q.answer = r.answer
    /\ Certain(q) => Certain(r) /\ q.sub = r.sub /\ q.event = r.event /\ q.right = r.right /\ q.suspects = r.suspects

\* The step is about something else than the call's check.
Alike(r, q) ==
    /\ q \in CallType /\ q.pc = r.pc /\ q.event = r.event /\ q.sub = r.sub /\ q.suspects = r.suspects
    /\ q.refresh = r.refresh /\ q.left = r.left /\ q.right = r.right /\ q.asked = r.asked /\ q.answer = r.answer
    /\ q.matched = r.matched /\ q.missed = r.missed /\ (q.sure => r.sure)

LEMMA QuietFacts ==
    ASSUME NEW r, CallOK(r)
    PROVE  /\ Quiet(r, r) /\ NoneStarted(r, r)
           /\ Quiet(r, Ended(r)) /\ NoneStarted(r, Ended(r))
           /\ \A q : Alike(r, q) => Quiet(r, q)
  <1>1. r \in CallType
    BY DEF CallOK
  <1>2. Quiet(r, Ended(r)) /\ NoneStarted(r, Ended(r))
    BY <1>1, EndedFacts DEF Quiet, NoneStarted, Certain
  <1>3. ASSUME NEW q, Alike(r, q) PROVE Quiet(r, q)
    <2>1. InTheirScope(q, q.matched) /\ (r.pc = "gate" => q.sub \in Subs /\ InTheirScope(q, {q.sub}))
      BY <1>3 DEF Alike, CallOK, InTheirScope
    <2>2. r.pc \in {"ask", "got"} => Checking(q) /\ Asking(q)
      BY <1>3 DEF Alike, CallOK, Checking, Asking
    <2>3. r.pc = "next" => Between(q)
      BY <1>3 DEF Alike, CallOK, Between
    <2>4. CallOK(q)
      BY <1>3, <2>1, <2>2, <2>3 DEF Alike, CallOK
    <2> QED BY <1>3, <2>4 DEF Alike, Quiet, Certain
  <1> QED BY <1>2, <1>3 DEF Quiet, NoneStarted

\* No step but Acquire starts a callback.
LEMMA NoneAcquired ==
    ASSUME PermitInv, \A x \in Dispatches : NoneStarted(calls[x], calls'[x])
    PROVE  PermitInv'
  <1>1. Invocations' \subseteq Invocations
    BY DEF Invocations, NoneStarted
  <1>2. IsFiniteSet(Invocations') /\ Cardinality(Invocations') <= Cardinality(Invocations)
    BY <1>1, FS_Subset DEF PermitInv
  <1>3. Cardinality(Invocations') \in Nat /\ Cardinality(Invocations) \in Nat /\ Permits \in Nat
    BY <1>2, FS_CardinalityType, DispatcherAssumption DEF PermitInv
  <1> QED BY <1>2, <1>3 DEF PermitInv

\* Steps that leave every call alone or end it.
LEMMA AllQuiet ==
    ASSUME DispatcherInv, calls' = [x \in Dispatches |-> calls'[x]],
           \A x \in Dispatches : Quiet(calls[x], calls'[x]),
           CacheOK(cache'), \A id \in Ids : cache'[id] \in {cache[id], None}, VersionInv',
           \/ \A x \in Dispatches : ~Certain(calls'[x])
           \/ \A n \in Namespaces : active[n] => active'[n] /\ version'[n] = version[n]
    PROVE  /\ VersionInv' /\ CallsInv' /\ CacheOK(cache)' /\ SureInv'
           /\ (\A x \in Dispatches : NoneStarted(calls[x], calls'[x])) => DispatcherInv'
  <1>1. CallsInv'
    BY DEF Quiet, CallsInv, CallOK
  <1>2. (\A x \in Dispatches : NoneStarted(calls[x], calls'[x])) => PermitInv'
    BY NoneAcquired DEF DispatcherInv
  <1>3. \A x \in Dispatches : calls'[x].missed = {}
    BY DEF Quiet, DispatcherInv, SureInv
  <1>4. ASSUME NEW d \in Dispatches, Certain(calls'[d])
        PROVE  LET r == calls'[d]
                   sc == Scope[r.sub] IN
               /\ SureOK(r, cache') /\ active'[sc] /\ r.event = <<sc, version'[sc]>>
               /\ r.pc = "got" => r.answer = r.event
               /\ \A x \in Dispatches : Honest(calls'[x], sc, r.event)
    <2> DEFINE r == calls[d]
               q == calls'[d]
               sc == Scope[r.sub]
    <2>1. /\ Certain(r) /\ q.sub = r.sub /\ q.event = r.event /\ q.right = r.right /\ q.suspects = r.suspects
          /\ q.pc = "got" => r.pc = "got" /\ q.answer = r.answer
      BY <1>4 DEF Quiet
    <2>2. /\ SureOK(r, cache) /\ active[sc] /\ r.event = <<sc, version[sc]>>
          /\ r.pc = "got" => r.answer = r.event
          /\ \A x \in Dispatches : Honest(calls[x], sc, r.event)
      BY <2>1 DEF DispatcherInv, SureInv, ActiveRow
    <2>3. sc \in Namespaces /\ sc \in Ids
      BY <2>2 DEF SureOK, Ids
    <2>4. active'[sc] /\ version'[sc] = version[sc]
      BY <1>4, <2>2, <2>3
    <2>5. \A x \in Dispatches : Honest(calls'[x], sc, r.event)
      BY <2>2 DEF Honest, Quiet
    <2>6. SureOK(q, cache')
      <3>1. cache'[sc] \in {cache[sc], None}
        BY <2>3
      <3> QED BY <2>1, <2>2, <3>1 DEF SureOK
    <2> QED BY <2>1, <2>2, <2>4, <2>5, <2>6
  <1>5. SureInv'
    BY <1>3, <1>4 DEF SureInv, ActiveRow
  <1> QED BY <1>1, <1>2, <1>5 DEF DispatcherInv

\* What a step of one call does to it.  The answer it caches is the one it read; an answer it
\* reads is that of the moment.
Moves(r, q) ==
    /\ CallOK(q) /\ q.missed = {}
    /\ \A id \in Ids : cache'[id] = cache[id] \/ (r.pc = "got" /\ r.asked = id /\ cache'[id] \in {r.answer})
    /\ q.pc = "got" => q.answer \in {None, Resolve(q.asked)}
    /\ Certain(q) =>
          LET sc == Scope[q.sub] IN
          /\ SureOK(q, cache') /\ active[sc] /\ q.event = ActiveRow(sc)
          /\ q.pc = "got" => q.answer = q.event
          /\ \A x \in Dispatches : Honest(calls[x], sc, q.event)

\* One call moves: the others stay as they are, and what they were sure of stands.
LEMMA OneMoves ==
    ASSUME DispatcherInv, NEW d \in Dispatches, NEW q, calls' = [calls EXCEPT ![d] = q],
           Moves(calls[d], q), UNCHANGED <<version, active>>, CacheOK(cache')
    PROVE  VersionInv' /\ CallsInv' /\ CacheOK(cache)' /\ SureInv'
  <1>0. /\ calls'[d] = q /\ \A x \in Dispatches : x # d => calls'[x] = calls[x]
        /\ \A x \in Dispatches : CallOK(calls'[x])
    BY DEF DispatcherInv, CallsInv, Moves
  <1>1. CallsInv'
    BY <1>0 DEF CallsInv, CallOK, DispatcherInv
  <1>2. VersionInv'
    BY DEF DispatcherInv, VersionInv
  <1>3. \A x \in Dispatches : calls'[x].missed = {}
    BY <1>0 DEF DispatcherInv, SureInv, Moves
  <1>4. ASSUME NEW sc \in Namespaces, active[sc], NEW e, e = ActiveRow(sc),
               \A x \in Dispatches : x = d \/ Honest(calls[x], sc, e)
        PROVE  \A x \in Dispatches : Honest(calls'[x], sc, e)
    <2>1. Resolve(sc) = e
      BY <1>4, ResolveFacts DEF DispatcherInv
    <2>2. Honest(q, sc, e)
      BY <2>1 DEF Moves, Honest
    <2> QED BY <1>0, <1>4, <2>2
  <1>5. ASSUME NEW y \in Dispatches, Certain(calls'[y])
        PROVE  LET r == calls'[y]
                   sc == Scope[r.sub] IN
               /\ SureOK(r, cache') /\ active[sc] /\ r.event = ActiveRow(sc)
               /\ r.pc = "got" => r.answer = r.event
               /\ \A x \in Dispatches : Honest(calls'[x], sc, r.event)
    <2>1. CASE y = d
      <3>1. LET sc == Scope[q.sub] IN
            /\ SureOK(q, cache') /\ active[sc] /\ q.event = ActiveRow(sc)
            /\ q.pc = "got" => q.answer = q.event
            /\ \A x \in Dispatches : Honest(calls[x], sc, q.event)
        BY <1>0, <1>5, <2>1 DEF Moves
      <3>2. Scope[q.sub] \in Namespaces
        BY <3>1 DEF SureOK
      <3>3. \A x \in Dispatches : Honest(calls'[x], Scope[q.sub], q.event)
        BY <1>4, <3>1, <3>2
      <3> QED BY <1>0, <2>1, <3>1, <3>3
    <2>2. CASE y # d
      <3> DEFINE r == calls[y]
                 sc == Scope[r.sub]
      <3>1. calls'[y] = r /\ Certain(r)
        BY <1>0, <1>5, <2>2
      <3>2. /\ SureOK(r, cache) /\ active[sc] /\ r.event = ActiveRow(sc)
            /\ r.pc = "got" => r.answer = r.event
            /\ \A x \in Dispatches : Honest(calls[x], sc, r.event)
        BY <3>1 DEF DispatcherInv, SureInv
      <3>3. sc \in Namespaces /\ sc \in Ids
        BY <3>2 DEF SureOK, Ids
      <3>4. \A x \in Dispatches : Honest(calls'[x], sc, r.event)
        BY <1>4, <3>2, <3>3
      <3>5. cache'[sc] = cache[sc] \/ cache'[sc] \in {None, r.event}
        BY <3>2, <3>3 DEF Moves, Honest
      <3>6. SureOK(r, cache')
        BY <3>2, <3>5 DEF SureOK
      <3> QED BY <3>1, <3>2, <3>4, <3>6
    <2> QED BY <2>1, <2>2
  <1>6. SureInv'
    BY <1>3, <1>5 DEF SureInv, ActiveRow
  <1> QED BY <1>1, <1>2, <1>6

\* One call moves and starts no callback.
LEMMA MovesKeep ==
    ASSUME DispatcherInv, NEW d \in Dispatches, NEW q, calls' = [calls EXCEPT ![d] = q],
           Moves(calls[d], q), NoneStarted(calls[d], q), UNCHANGED <<version, active>>, CacheOK(cache')
    PROVE  DispatcherInv'
  <1>1. VersionInv' /\ CallsInv' /\ CacheOK(cache)' /\ SureInv'
    BY OneMoves
  <1>2. \A x \in Dispatches : NoneStarted(calls[x], calls'[x])
    BY DEF NoneStarted, DispatcherInv, CallsInv
  <1>3. PermitInv'
    BY <1>2, NoneAcquired DEF DispatcherInv
  <1> QED BY <1>1, <1>3 DEF DispatcherInv

\* A dispatch begins.
LEMMA BeginKeeps ==
    ASSUME DispatcherInv, ListsInv, NEW d \in Dispatches, NEW e \in Rows, NEW w \in Seq(Dispatches \X Subs),
           Begin(d, e, w), UNCHANGED <<version, active, cache>>
    PROVE  DispatcherInv'
  <1> DEFINE todo == [k \in Kinds |-> lists[k].subs]
             held == [k \in Kinds |-> lists[k].id]
             n == NewCall
             q == [n EXCEPT !.pc = "next", !.event = e, !.within = w, !.todo = todo, !.held = held]
  <1>1. calls' = [calls EXCEPT ![d] = q]
    BY DEF Begin
  <1>2. todo \in [Kinds -> Seq(Subs)] /\ held \in [Kinds -> Nat]
    BY DEF ListsInv, ListType
  <1>3. /\ n \in CallType /\ n.missed = {} /\ n.asked = None /\ n.matched = {}
        /\ n.sub = None /\ n.left = None /\ n.right = None /\ n.answer = None
        /\ n.suspects = <<>> /\ n.refresh = FALSE /\ n.sure = FALSE /\ \A s \in Subs : n.run[s] = "no"
    BY EndedFacts DEF CallOK, NewCall
  <1> HIDE DEF todo, held, n
  <1>4. q \in CallType
    <2>1. n \in CallType
      BY <1>3
    <2> QED BY ZenonT(30), <1>2, <2>1 DEF CallType, Active, Matching
  <1>5. /\ q.pc = "next" /\ q.event = e /\ q.missed = n.missed /\ q.asked = n.asked /\ q.matched = n.matched
        /\ q.sub = n.sub /\ q.left = n.left /\ q.right = n.right /\ q.answer = n.answer
        /\ q.suspects = n.suspects /\ q.refresh = n.refresh /\ q.sure = n.sure /\ q.run = n.run
    BY <1>3 DEF CallType
  <1> HIDE DEF q
  <1>6. CallOK(q)
    BY <1>3, <1>4, <1>5 DEF CallOK, Between, InTheirScope, Active, Matching
  <1>7. Moves(calls[d], q) /\ NoneStarted(calls[d], q)
    BY <1>3, <1>5, <1>6 DEF Moves, Certain, NoneStarted
  <1>8. CacheOK(cache')
    BY DEF DispatcherInv
  <1> QED BY <1>1, <1>7, <1>8, MovesKeep

\* The filter decides; a gather ends.
LEMMA GateKeeps ==
    ASSUME DispatcherInv, NEW d \in Dispatches, Gate(d) \/ Gathered(d)
    PROVE  DispatcherInv'
  <1> DEFINE r == calls[d]
  <1>1. CallOK(r) /\ r \in CallType /\ r.missed = {} /\ CacheOK(cache)
    BY DEF DispatcherInv, CallsInv, CallOK, SureInv
  <1>2. CASE Gate(d)
    <2>1. r.event \in Rows /\ InTheirScope(r, r.matched) /\ r.sub \in Subs /\ InTheirScope(r, {r.sub}) /\ r.asked = None
      BY <1>1, <1>2 DEF Gate, CallOK, Active, Matching
    <2>2. PICK q \in {Match(r), Advance(r)} : calls' = [calls EXCEPT ![d] = q]
      BY <1>2 DEF Gate
    <2>3. CallOK(q) /\ Same(r, q) /\ q.pc = "next"
      BY ZenonT(30), <1>1, <2>1, AdvanceFacts, InScopeFacts
    <2>4. UNCHANGED <<version, active, cache>>
      BY <1>2 DEF Gate
    <2>5. Moves(r, q) /\ NoneStarted(r, q)
      BY <1>1, <2>3, <2>4 DEF Moves, NoneStarted, Certain, Same
    <2> QED BY <1>1, <2>2, <2>4, <2>5, MovesKeep
  <1>3. CASE Gathered(d) /\ r.pc = "deliver"
    <2> DEFINE run == [s \in Subs |-> IF s \in r.matched \cap Callbacks THEN "wait" ELSE "no"]
               q == [r EXCEPT !.pc = "invoke", !.run = run]
    <2>1. calls' = [calls EXCEPT ![d] = q] /\ UNCHANGED <<version, active, cache>>
      BY <1>3 DEF Gathered
    <2>2. run \in [Subs -> {"no", "wait", "run", "done"}] /\ \A s \in Subs : run[s] # "run"
      OBVIOUS
    <2> HIDE DEF run
    <2>3. q \in CallType /\ q.pc = "invoke" /\ q.event = r.event /\ q.asked = r.asked /\ q.run = run
      BY ZenonT(30), <1>1, <2>2 DEF CallType, Active, Matching
    <2>4. q.matched = r.matched /\ q.missed = r.missed
      BY <1>1, <2>2 DEF CallType
    <2> HIDE DEF q
    <2>5. CallOK(q)
      BY <1>1, <1>3, <2>3, <2>4 DEF CallOK, InTheirScope, Active, Matching
    <2>6. Moves(r, q) /\ NoneStarted(r, q)
      BY <1>1, <2>1, <2>2, <2>3, <2>4, <2>5 DEF Moves, NoneStarted, Certain
    <2> QED BY <1>1, <2>1, <2>6, MovesKeep
  <1>4. CASE Gathered(d) /\ r.pc # "deliver"
    <2> DEFINE q == Ended(r)
    <2>1. calls' = [calls EXCEPT ![d] = q] /\ UNCHANGED <<version, active, cache>>
      BY <1>4 DEF Gathered
    <2>2. CallOK(q) /\ q.pc = "returned" /\ q.missed = {} /\ \A s \in Subs : q.run[s] = "no"
      BY <1>1, EndedFacts
    <2> HIDE DEF q
    <2>3. Moves(r, q) /\ NoneStarted(r, q)
      BY <2>1, <2>2 DEF Moves, NoneStarted, Certain
    <2> QED BY <1>1, <2>1, <2>3, MovesKeep
  <1> QED BY <1>2, <1>3, <1>4

\* A lookup is answered.
LEMMA LookupKeeps ==
    ASSUME DispatcherInv, NEW d \in Dispatches, Lookup(d)
    PROVE  DispatcherInv'
  <1> DEFINE r == calls[d]
             sc == Scope[r.sub]
             a == Resolve(r.asked)
  <1>1. CallOK(r) /\ r \in CallType /\ r.missed = {} /\ CacheOK(cache) /\ r.pc = "ask"
    BY DEF DispatcherInv, CallsInv, CallOK, SureInv, Lookup
  <1>2. Checking(r) /\ Asking(r) /\ r.asked # None /\ UNCHANGED <<version, active, cache>>
    BY <1>1 DEF CallOK, Lookup
  <1>3. r.asked \in Ids /\ (a # None => Found(r.asked, a)) /\ a \in Rows \cup {None}
    <2>1. r.asked \in Ids
      BY <1>1, <1>2 DEF CallType
    <2>2. a # None => Found(r.asked, a)
      BY <2>1, ResolveFacts DEF DispatcherInv
    <2> QED BY <2>1, <2>2 DEF Found
  <1> HIDE DEF a
  <1>4. ASSUME NEW q \in CallType, q.pc = "got", q.answer \in {None, a}, q.sure => r.sure /\ q.answer = a,
               q.event = r.event, q.sub = r.sub, q.left = r.left, q.right = r.right, q.asked = r.asked,
               q.suspects = r.suspects, q.refresh = r.refresh, q.matched = r.matched, q.missed = r.missed,
               q.run = r.run, calls' = [calls EXCEPT ![d] = q]
        PROVE  DispatcherInv'
    <2>1. Checking(q)
      BY <1>2, <1>4 DEF Checking
    <2>2. Asking(q)
      BY <1>2, <1>3, <1>4 DEF Asking
    <2>3. CallOK(q)
      BY <1>1, <1>2, <1>4, <2>1, <2>2 DEF CallOK, InTheirScope, Active, Matching
    <2>4. ASSUME q.sure
          PROVE  /\ SureOK(q, cache') /\ active[sc] /\ q.event = ActiveRow(sc) /\ q.answer = q.event
                 /\ \A x \in Dispatches : Honest(calls[x], sc, q.event)
      <3>1. /\ SureOK(r, cache) /\ active[sc] /\ r.event = ActiveRow(sc)
            /\ \A x \in Dispatches : Honest(calls[x], sc, r.event)
        BY <1>1, <1>4, <2>4 DEF DispatcherInv, SureInv, Certain
      <3>2. sc \in Namespaces
        BY <3>1 DEF SureOK
      <3>3. a = r.event
        BY <1>2, <3>1, <3>2, ResolveFacts DEF Asking, a, DispatcherInv
      <3>4. SureOK(q, cache')
        BY <1>2, <1>4, <3>1 DEF SureOK
      <3> QED BY <1>4, <2>4, <3>1, <3>3, <3>4
    <2>5. Moves(r, q) /\ NoneStarted(r, q)
      BY <1>1, <1>2, <1>4, <2>3, <2>4 DEF Moves, NoneStarted, Certain, a
    <2> QED BY <1>1, <1>2, <1>4, <2>5, MovesKeep
  <1>5. CASE calls' = [calls EXCEPT ![d].pc = "got", ![d].answer = Resolve(calls[d].asked)]
    <2> DEFINE q == [r EXCEPT !.pc = "got", !.answer = a]
    <2>1. calls' = [calls EXCEPT ![d] = q]
      BY <1>5 DEF a, DispatcherInv, CallsInv
    <2>2. /\ q \in CallType /\ q.pc = "got" /\ q.answer = a /\ q.sure = r.sure
          /\ q.event = r.event /\ q.sub = r.sub /\ q.left = r.left /\ q.right = r.right /\ q.asked = r.asked
      BY ZenonT(30), <1>1, <1>3 DEF CallType, Active, Matching
    <2>3. /\ q.suspects = r.suspects /\ q.refresh = r.refresh /\ q.matched = r.matched /\ q.missed = r.missed
          /\ q.run = r.run
      BY <1>1, <1>3 DEF CallType
    <2> HIDE DEF q
    <2> QED BY <1>4, <2>1, <2>2, <2>3
  <1>6. CASE calls' = [calls EXCEPT ![d].pc = "got", ![d].answer = None, ![d].sure = FALSE]
    <2> DEFINE q == [r EXCEPT !.pc = "got", !.answer = None, !.sure = FALSE]
    <2>1. calls' = [calls EXCEPT ![d] = q]
      BY <1>6 DEF DispatcherInv, CallsInv
    <2>2. /\ q \in CallType /\ q.pc = "got" /\ q.answer = None /\ q.sure = FALSE
          /\ q.event = r.event /\ q.sub = r.sub /\ q.left = r.left /\ q.right = r.right /\ q.asked = r.asked
      BY ZenonT(30), <1>1 DEF CallType, Active, Matching
    <2>3. /\ q.suspects = r.suspects /\ q.refresh = r.refresh /\ q.matched = r.matched /\ q.missed = r.missed
          /\ q.run = r.run
      BY <1>1 DEF CallType
    <2> HIDE DEF q
    <2> QED BY <1>4, <2>1, <2>2, <2>3
  <1> QED BY <1>5, <1>6 DEF Lookup

\* _resolve_ns resumes, and the check with it.
LEMMA ResumeKeeps ==
    ASSUME DispatcherInv, NEW d \in Dispatches, Resume(d)
    PROVE  DispatcherInv'
  <1> DEFINE r == calls[d]
             sc == Scope[r.sub]
             v == IF r.answer = None THEN Fallback(r) ELSE r.answer
             q == [r EXCEPT !.asked = None, !.answer = None]
  <1>1. CallOK(r) /\ r \in CallType /\ r.missed = {} /\ CacheOK(cache) /\ r.pc = "got"
    BY DEF DispatcherInv, CallsInv, CallOK, SureInv, Resume
  <1>2. /\ Checking(r) /\ Asking(r) /\ r.asked # None /\ UNCHANGED <<version, active>>
        /\ InTheirScope(r, r.matched)
    BY <1>1 DEF CallOK, Resume
  <1>3. /\ r.asked \in Ids /\ r.answer \in Rows \cup {None} /\ (r.answer # None => Found(r.asked, r.answer))
        /\ r.suspects \in Seq(Ids) /\ r.event \in Rows /\ r.event # None /\ r.sub \in Subs /\ sc \in Ids /\ sc # None
    BY <1>1, <1>2, HomeFacts, DispatcherAssumption DEF CallType, Asking, Checking
  <1>4. cache' = IF r.answer = None THEN cache ELSE [cache EXCEPT ![r.asked] = r.answer]
    BY DEF Resume
  <1>5. CacheOK(cache')
    BY <1>1, <1>3, <1>4 DEF CacheOK, Found
  <1>6. \A id \in Ids : cache'[id] = cache[id] \/ (r.pc = "got" /\ r.asked = id /\ cache'[id] \in {r.answer})
    BY <1>1, <1>3, <1>4 DEF CacheOK
  <1>7. /\ v \in Ids \cup {None} /\ v # None
        /\ r.asked = r.event => v = r.event
        /\ Home(v) = Home(r.asked)
    BY <1>3, HomeFacts, DispatcherAssumption DEF Fallback, Found, Ids
  <1>8. r.sure => /\ SureOK(r, cache) /\ active[sc] /\ r.event = ActiveRow(sc) /\ r.answer = r.event
                  /\ \A x \in Dispatches : Honest(calls[x], sc, r.event)
    BY <1>1 DEF DispatcherInv, SureInv, Certain
  <1>9. r.sure => cache'[r.asked] = r.event /\ v = r.event /\ (r.asked # sc => cache'[sc] = cache[sc])
    BY <1>1, <1>3, <1>4, <1>8 DEF CacheOK
  <1>10. /\ q \in CallType /\ q.pc = r.pc /\ q.event = r.event /\ q.sub = r.sub /\ q.asked = None /\ q.answer = None
         /\ q.left = r.left /\ q.right = r.right /\ q.suspects = r.suspects /\ q.refresh = r.refresh
         /\ q.matched = r.matched /\ q.missed = r.missed /\ q.sure = r.sure /\ q.run = r.run
    BY <1>1 DEF CallType
  <1>11. calls' = [calls EXCEPT ![d] =
           IF ~r.refresh
           THEN Compare(IF r.left = None THEN [q EXCEPT !.left = v] ELSE [q EXCEPT !.right = v], cache')
           ELSE IF Len(r.suspects) > 1
           THEN [q EXCEPT !.pc = "ask", !.suspects = Tail(@), !.asked = Head(Tail(r.suspects))]
           ELSE Compare([q EXCEPT !.suspects = <<>>, !.refresh = FALSE, !.left = None, !.right = None], cache')]
    BY DEF Resume
  <1> HIDE DEF q, v
  <1>12. ASSUME NEW z, CallOK(z), z.pc \in {"ask", "gate", "next"}, z.run = r.run, z.missed = r.missed,
                z.pc = "ask" /\ z.sure => r.sure /\ z.event = r.event /\ z.sub = r.sub /\ SureOK(z, cache'),
                calls' = [calls EXCEPT ![d] = z]
         PROVE  DispatcherInv'
    <2>1. Moves(r, z) /\ NoneStarted(r, z)
      BY <1>1, <1>6, <1>8, <1>12 DEF Moves, NoneStarted, Certain
    <2> QED BY <1>2, <1>5, <1>12, <2>1, MovesKeep
  <1>13. ASSUME NEW p \in CallType, p.event = r.event, p.sub = r.sub, p.matched = r.matched, p.missed = r.missed,
                p.sure = r.sure, p.run = r.run, ~p.refresh, p.asked = None, p.answer = None,
                p.left \in {None, r.event}, p.right # None => Home(p.right) = Home(sc),
                \A i \in DOMAIN p.suspects : p.suspects[i] \in {r.event, sc},
                r.sure => SureOK(p, cache'),
                calls' = [calls EXCEPT ![d] = Compare(p, cache')]
         PROVE  DispatcherInv'
    <2>1. Resumed(p)
      BY <1>2, <1>3, <1>13 DEF Resumed, Checking, InTheirScope
    <2>2. Compared(p, cache', Compare(p, cache'))
      BY <1>5, <2>1, CompareFacts
    <2> DEFINE z == Compare(p, cache')
    <2> HIDE DEF z
    <2>3. /\ CallOK(z) /\ z.pc \in {"ask", "gate", "next"} /\ z.run = r.run /\ z.missed = r.missed
          /\ z.pc = "ask" /\ z.sure => r.sure /\ z.event = r.event /\ z.sub = r.sub /\ SureOK(z, cache')
      BY <1>13, <2>2 DEF Compared, z
    <2>4. calls' = [calls EXCEPT ![d] = z]
      BY <1>13 DEF z
    <2> QED BY <1>12, <2>3, <2>4
  <1>14. CASE ~r.refresh /\ r.left = None
    <2> DEFINE p == [q EXCEPT !.left = v]
    <2>1. calls' = [calls EXCEPT ![d] = Compare(p, cache')]
      BY <1>11, <1>14
    <2>2. r.asked = r.event /\ v = r.event
      BY <1>2, <1>7, <1>14 DEF Asking
    <2>3. /\ p \in CallType /\ p.event = r.event /\ p.sub = r.sub /\ p.matched = r.matched /\ p.missed = r.missed
          /\ p.sure = r.sure /\ p.run = r.run /\ p.refresh = r.refresh /\ p.asked = None /\ p.answer = None
          /\ p.left = v /\ p.right = r.right /\ p.suspects = r.suspects
      BY <1>7, <1>10 DEF CallType
    <2> HIDE DEF p
    <2>4. r.sure => SureOK(p, cache')
      <3>1. r.sure => sc \in Namespaces /\ r.asked # sc
        BY <1>3, <1>8, <2>2, HomeFacts DEF SureOK
      <3> QED BY <1>8, <1>9, <2>3, <3>1 DEF SureOK
    <2>5. /\ p.left \in {None, r.event} /\ (p.right # None => Home(p.right) = Home(sc)) /\ ~p.refresh
          /\ \A i \in DOMAIN p.suspects : p.suspects[i] \in {r.event, sc}
      BY <1>2, <1>14, <2>2, <2>3 DEF Checking
    <2> QED BY <1>13, <2>1, <2>3, <2>4, <2>5
  <1>15. CASE ~r.refresh /\ r.left # None
    <2> DEFINE p == [q EXCEPT !.right = v]
    <2>1. calls' = [calls EXCEPT ![d] = Compare(p, cache')]
      BY <1>11, <1>15
    <2>2. r.asked = sc /\ Home(v) = Home(sc)
      BY <1>2, <1>7, <1>15 DEF Asking
    <2>3. /\ p \in CallType /\ p.event = r.event /\ p.sub = r.sub /\ p.matched = r.matched /\ p.missed = r.missed
          /\ p.sure = r.sure /\ p.run = r.run /\ p.refresh = r.refresh /\ p.asked = None /\ p.answer = None
          /\ p.left = r.left /\ p.right = v /\ p.suspects = r.suspects
      BY <1>7, <1>10 DEF CallType
    <2> HIDE DEF p
    <2>4. r.sure => SureOK(p, cache')
      BY <1>8, <1>9, <2>2, <2>3 DEF SureOK
    <2>5. /\ p.left \in {None, r.event} /\ (p.right # None => Home(p.right) = Home(sc)) /\ ~p.refresh
          /\ \A i \in DOMAIN p.suspects : p.suspects[i] \in {r.event, sc}
      BY <1>2, <1>15, <2>2, <2>3 DEF Checking
    <2> QED BY <1>13, <2>1, <2>3, <2>4, <2>5
  <1>16. CASE r.refresh /\ Len(r.suspects) > 1
    <2> DEFINE t == Tail(r.suspects)
               h == Head(t)
               z == [q EXCEPT !.pc = "ask", !.suspects = t, !.asked = h]
    <2>1. calls' = [calls EXCEPT ![d] = z]
      BY <1>10, <1>11, <1>16
    <2>2. /\ t \in Seq(Ids) /\ Len(t) = Len(r.suspects) - 1 /\ t # <<>> /\ h = t[1]
          /\ \A i \in DOMAIN t : i \in Nat /\ i + 1 \in DOMAIN r.suspects /\ t[i] = r.suspects[i + 1]
      <3>1. Len(r.suspects) \in Nat /\ DOMAIN r.suspects = 1 .. Len(r.suspects) /\ r.suspects # <<>>
        BY <1>3, <1>16, ToSetFacts, EmptyList
      <3>2. t \in Seq(Ids) /\ Len(t) = Len(r.suspects) - 1 /\ \A i \in 1 .. Len(t) : t[i] = r.suspects[i + 1]
        BY <1>3, <3>1, HeadTailProperties
      <3> HIDE DEF t
      <3>4. DOMAIN t = 1 .. Len(t)
        BY <3>2, ToSetFacts
      <3>5. Len(t) # 0
        BY <1>16, <3>1, <3>2
      <3>6. Len(<<>>) = 0
        BY EmptyList
      <3>3. DOMAIN t = 1 .. Len(t) /\ t # <<>>
        BY <3>4, <3>5, <3>6
      <3> QED BY <3>1, <3>2, <3>3
    <2>3. 1 \in DOMAIN t
      BY <2>2, ToSetFacts
    <2>4. /\ \A i \in DOMAIN t : t[i] \in {r.event, sc}
          /\ r.sure => \A i \in DOMAIN t : t[i] = sc
      BY <1>2, <1>8, <2>2 DEF Checking, SureOK
    <2>5. h \in {r.event, sc} /\ h \in Ids /\ h # None
      BY <1>3, <2>2, <2>3, <2>4, HomeFacts
    <2> HIDE DEF t, h
    <2>11. q \in CallType /\ t \in Seq(Ids) /\ h \in Ids
      BY <1>10, <2>2, <2>5
    <2>12. z \in CallType
      BY ONLY <2>11 DEF CallType, Active, Matching
    <2>13. /\ z.pc = "ask" /\ z.event = q.event /\ z.sub = q.sub /\ z.matched = q.matched
           /\ z.missed = q.missed /\ z.sure = q.sure /\ z.run = q.run /\ z.refresh = q.refresh
           /\ z.asked = h /\ z.answer = q.answer /\ z.left = q.left /\ z.right = q.right /\ z.suspects = t
      BY ONLY <2>11 DEF CallType
    <2>6. /\ z \in CallType /\ z.pc = "ask" /\ z.event = r.event /\ z.sub = r.sub /\ z.matched = r.matched
          /\ z.missed = r.missed /\ z.sure = r.sure /\ z.run = r.run /\ z.refresh = r.refresh
          /\ z.asked = h /\ z.answer = None /\ z.left = r.left /\ z.right = r.right /\ z.suspects = t
      BY <1>10, <2>12, <2>13
    <2> HIDE DEF z
    <2>7. Checking(z)
      BY <1>2, <2>4, <2>6 DEF Checking
    <2>8. Asking(z)
      BY <1>16, <2>2, <2>5, <2>6 DEF Asking, h
    <2>9. CallOK(z)
      BY <1>2, <1>3, <2>5, <2>6, <2>7, <2>8 DEF CallOK, InTheirScope, Active, Matching
    <2>10. r.sure => SureOK(z, cache')
      BY <1>8, <2>2, <2>4, <2>6 DEF SureOK
    <2> QED BY <1>12, <2>1, <2>6, <2>9, <2>10
  <1>17. CASE r.refresh /\ ~(Len(r.suspects) > 1)
    <2> DEFINE p == [q EXCEPT !.suspects = <<>>, !.refresh = FALSE, !.left = None, !.right = None]
    <2>1. calls' = [calls EXCEPT ![d] = Compare(p, cache')]
      BY <1>11, <1>17
    <2>2. r.sure => r.asked = sc
      <3>1. r.suspects # <<>> /\ r.asked = Head(r.suspects)
        BY <1>2, <1>17 DEF Asking
      <3>2. 1 \in DOMAIN r.suspects /\ r.asked = r.suspects[1]
        BY <1>3, <3>1, ToSetFacts
      <3> QED BY <1>8, <3>2 DEF SureOK
    <2>3. /\ p \in CallType /\ p.event = r.event /\ p.sub = r.sub /\ p.matched = r.matched /\ p.missed = r.missed
          /\ p.sure = r.sure /\ p.run = r.run /\ p.refresh = FALSE /\ p.asked = None /\ p.answer = None
          /\ p.left = None /\ p.right = None /\ p.suspects = <<>>
      BY <1>10, EmptySeq DEF CallType
    <2> HIDE DEF p
    <2>4. DOMAIN p.suspects = {}
      BY <2>3, EmptyList
    <2>5. r.sure => SureOK(p, cache')
      BY <1>8, <1>9, <2>2, <2>3, <2>4 DEF SureOK
    <2> QED BY <1>13, <2>1, <2>3, <2>4, <2>5
  <1> QED BY <1>14, <1>15, <1>16, <1>17

\* Only the scope's side can be a stale suspect: a row is cached under itself.
LEMMA SuspectFacts ==
    ASSUME CacheOK(cache), NEW e \in Rows, NEW sc \in Ids
    PROVE  /\ StaleSuspects(e, sc) \in {<<>>, <<sc>>} /\ StaleSuspects(e, sc) \in Seq(Ids)
           /\ \A i \in DOMAIN StaleSuspects(e, sc) : StaleSuspects(e, sc)[i] = sc
           /\ StaleSuspects(e, sc) = <<>> => cache[sc] \in {None, sc}
  <1>1. Suspect(e) = <<>>
    BY HomeFacts DEF Suspect, CacheOK, Found
  <1>2. Suspect(sc) \in {<<>>, <<sc>>} /\ Suspect(sc) \in Seq(Ids)
    BY EmptySeq DEF Suspect
  <1>3. StaleSuspects(e, sc) = Suspect(sc)
    BY <1>1, <1>2, ConcatEmptySeq DEF StaleSuspects
  <1>4. Suspect(sc) = <<>> => cache[sc] \in {None, sc}
    BY DEF Suspect
  <1>5. \A i \in DOMAIN Suspect(sc) : Suspect(sc)[i] = sc
    <2>1. CASE Suspect(sc) = <<>>
      BY <2>1, EmptyList
    <2>2. CASE Suspect(sc) = <<sc>>
      BY <2>2
    <2> QED BY <1>2, <2>1, <2>2
  <1> QED BY <1>2, <1>3, <1>4, <1>5

\* The next subscription, or the end of a list.
LEMMA NextSubKeeps ==
    ASSUME DispatcherInv, NEW d \in Dispatches, NextSub(d)
    PROVE  DispatcherInv'
  <1> DEFINE r == calls[d]
             s == Head(r.todo[r.kind])
             sc == Scope[s]
  <1>1. CallOK(r) /\ r \in CallType /\ r.missed = {} /\ CacheOK(cache) /\ r.pc = "next"
    BY DEF DispatcherInv, CallsInv, CallOK, SureInv, NextSub
  <1>2. /\ r.event \in Rows /\ InTheirScope(r, r.matched) /\ r.asked = None /\ Between(r)
        /\ UNCHANGED <<version, active, cache>> /\ CacheOK(cache')
    BY <1>1 DEF CallOK, NextSub, Active, Matching
  <1>3. ASSUME NEW z, CallOK(z), z.pc # "got", z.missed = {}, NoneStarted(r, z), calls' = [calls EXCEPT ![d] = z],
               z.pc = "ask" /\ z.sure =>
                  /\ SureOK(z, cache) /\ active[Scope[z.sub]] /\ z.event = ActiveRow(Scope[z.sub])
                  /\ \A x \in Dispatches : Honest(calls[x], Scope[z.sub], z.event)
        PROVE  DispatcherInv'
    <2>1. Moves(r, z)
      BY <1>2, <1>3 DEF Moves, Certain
    <2> QED BY <1>2, <1>3, <2>1, MovesKeep
  <1>4. CASE r.todo[r.kind] = <<>> /\ r.kind = "callback"
    <2> DEFINE z == [r EXCEPT !.kind = "durable"]
    <2>1. calls' = [calls EXCEPT ![d] = z]
      BY <1>4 DEF NextSub
    <2>2. Alike(r, z) /\ z.run = r.run
      BY ZenonT(30), <1>1 DEF CallType, Kinds, Alike
    <2> HIDE DEF z
    <2>3. Quiet(r, z) /\ z.pc = "next" /\ z.missed = {}
      BY <1>1, <2>2, QuietFacts DEF Alike
    <2> QED BY <1>3, <2>1, <2>2, <2>3 DEF Quiet, NoneStarted
  <1>5. CASE r.todo[r.kind] = <<>> /\ r.kind # "callback"
    <2> DEFINE run == [t \in Subs |-> IF SinkWired /\ t \in r.matched \cap Durables THEN "wait" ELSE "no"]
               z == [r EXCEPT !.pc = "deliver", !.run = run]
    <2>1. calls' = [calls EXCEPT ![d] = z]
      BY <1>5 DEF NextSub
    <2>2. run \in [Subs -> {"no", "wait", "run", "done"}] /\ \A t \in Subs : run[t] # "run"
      OBVIOUS
    <2> HIDE DEF run
    <2>3. z \in CallType
      BY <1>1, <2>2 DEF CallType, Active, Matching
    <2>4. /\ z.pc = "deliver" /\ z.run = run /\ z.event = r.event /\ z.asked = r.asked
          /\ z.matched = r.matched /\ z.missed = r.missed
      BY <1>1 DEF CallType
    <2> HIDE DEF z
    <2>5. CallOK(z)
      BY <1>2, <2>3, <2>4 DEF CallOK, InTheirScope, Active, Matching
    <2> QED BY <1>1, <1>3, <2>1, <2>2, <2>4, <2>5 DEF NoneStarted
  <1>6. CASE r.todo[r.kind] # <<>>
    <2> DEFINE todo == [r.todo EXCEPT ![r.kind] = Tail(@)]
    <2>1. s \in Subs /\ todo \in [Kinds -> Seq(Subs)] /\ r.kind \in Kinds
      <3>1. r.kind \in Kinds /\ r.todo \in [Kinds -> Seq(Subs)] /\ r.todo[r.kind] \in Seq(Subs)
        BY <1>1 DEF CallType
      <3>2. s \in Subs /\ Tail(r.todo[r.kind]) \in Seq(Subs)
        BY <1>6, <3>1, HeadTailProperties
      <3> QED BY <3>1, <3>2
    <2>2. CASE sc = None
      <3> DEFINE p == [r EXCEPT !.sub = s, !.todo = todo]
      <3>1. calls' = [calls EXCEPT ![d] = InScope(p)]
        <4>1. [r EXCEPT !.sub = s, !.todo[r.kind] = Tail(@)] = p
          <5> DEFINE b == [r EXCEPT !.sub = s]
          <5>1. b.todo = r.todo
            BY <1>1 DEF CallType
          <5> QED BY <5>1
        <4>2. calls' = [calls EXCEPT ![d] = InScope([r EXCEPT !.sub = s, !.todo[r.kind] = Tail(@)])]
          BY <1>6, <2>2 DEF NextSub
        <4> QED BY <4>1, <4>2
      <3> HIDE DEF s, todo
      <3>2. p \in CallType
        BY <1>1, <2>1 DEF CallType
      <3>3. /\ p.sub = s /\ p.event = r.event /\ p.matched = r.matched /\ p.missed = r.missed /\ p.asked = r.asked
            /\ p.run = r.run
        BY <1>1 DEF CallType
      <3> HIDE DEF p
      <3>4. InTheirScope(p, p.matched) /\ InTheirScope(p, {p.sub})
        BY <1>2, <2>2, <3>3 DEF InTheirScope
      <3>5. CallOK(InScope(p)) /\ Same(p, InScope(p)) /\ InScope(p).pc \in {"next", "gate"}
        BY <1>2, <2>1, <3>2, <3>3, <3>4, InScopeFacts
      <3> DEFINE z == InScope(p)
      <3>6. CallOK(z) /\ z.pc \in {"next", "gate"} /\ z.run = r.run /\ z.missed = {}
        BY <1>1, <3>3, <3>5 DEF Same
      <3> HIDE DEF z
      <3>7. calls' = [calls EXCEPT ![d] = z]
        BY <3>1 DEF z
      <3> QED BY <1>3, <3>6, <3>7 DEF NoneStarted
    <2>3. CASE sc # None
      <3> DEFINE sus == StaleSuspects(r.event, sc)
                 sure == Sure(r.event, sc)
                 p == [r EXCEPT !.sub = s, !.todo = todo, !.suspects = sus, !.sure = sure]
      <3>1. calls' = [calls EXCEPT ![d] = Compare(p, cache)]
        <4>1. [r EXCEPT !.sub = s, !.todo[r.kind] = Tail(@), !.suspects = sus, !.sure = sure] = p
          <5> DEFINE b == [r EXCEPT !.sub = s]
          <5>1. b.todo = r.todo
            BY <1>1 DEF CallType
          <5> QED BY <5>1
        <4>2. calls' = [calls EXCEPT ![d] = Compare([r EXCEPT !.sub = s, !.todo[r.kind] = Tail(@),
                                                              !.suspects = sus, !.sure = sure], cache)]
          BY <1>6, <2>3 DEF NextSub
        <4> QED BY <4>1, <4>2
      <3>2. sc \in Ids
        BY <2>1, <2>3, DispatcherAssumption
      <3>3. /\ sus \in Seq(Ids) /\ (sus = <<>> => cache[sc] \in {None, sc})
            /\ \A i \in DOMAIN sus : sus[i] = sc
        BY <1>1, <1>2, <3>2, SuspectFacts
      <3>4. sure \in BOOLEAN
        BY DEF Sure
      <3>5. sure => /\ sc \in Namespaces /\ active[sc] /\ r.event = ActiveRow(sc)
                    /\ \A x \in Dispatches : Honest(calls[x], sc, r.event)
        <4> SUFFICES ASSUME sure
                     PROVE  /\ sc \in Namespaces /\ active[sc] /\ r.event = ActiveRow(sc)
                            /\ \A x \in Dispatches : Honest(calls[x], sc, r.event)
          OBVIOUS
        <4>1. sc \in Namespaces /\ Resolve(sc) = r.event /\ \A x \in Dispatches : ~StaleAnswer(calls[x])
          BY DEF Sure
        <4>2. active[sc] /\ r.event = ActiveRow(sc)
          BY <1>2, <4>1, ResolveFacts, HomeFacts DEF DispatcherInv, VersionInv
        <4>3. \A x \in Dispatches : Honest(calls[x], sc, r.event)
          BY <4>1 DEF Honest, StaleAnswer
        <4> QED BY <4>1, <4>2, <4>3
      <3> HIDE DEF s, todo, sus, sure
      <3>6. p \in CallType
        BY ZenonT(30), <1>1, <2>1, <3>3, <3>4 DEF CallType
      <3>7. /\ p.sub = s /\ p.event = r.event /\ p.matched = r.matched /\ p.missed = r.missed /\ p.asked = r.asked
            /\ p.run = r.run /\ p.suspects = sus /\ p.sure = sure /\ p.left = r.left /\ p.right = r.right
            /\ p.refresh = r.refresh /\ p.answer = r.answer
        BY <1>1 DEF CallType
      <3> HIDE DEF p
      <3>8. Checking(p)
        BY <1>2, <2>1, <3>2, <3>3, <3>7 DEF Checking, Between
      <3>9. Resumed(p)
        BY <1>2, <3>6, <3>7, <3>8 DEF Resumed, Between, InTheirScope
      <3>10. p.sure => SureOK(p, cache)
        <4>1. sure => (cache[sc] \in {None, sc} => cache[sc] = None)
          BY <1>1, <3>2, <3>5, HomeFacts DEF CacheOK
        <4> QED BY <1>2, <3>3, <3>5, <3>7, <4>1 DEF SureOK, Between
      <3>11. Compared(p, cache, Compare(p, cache))
        BY <1>1, <3>9, CompareFacts
      <3> DEFINE z == Compare(p, cache)
      <3>12. calls' = [calls EXCEPT ![d] = z]
        BY <3>1
      <3> HIDE DEF z
      <3>13. /\ CallOK(z) /\ z.pc \in {"ask", "gate", "next"} /\ z.run = p.run /\ z.missed = p.missed
             /\ z.pc = "ask" => z.event = p.event /\ z.sub = p.sub /\ z.sure = p.sure /\ (p.sure => SureOK(z, cache))
        BY <3>10, <3>11 DEF Compared, z
      <3>14. z.pc = "ask" /\ z.sure =>
                  /\ SureOK(z, cache) /\ active[Scope[z.sub]] /\ z.event = ActiveRow(Scope[z.sub])
                  /\ \A x \in Dispatches : Honest(calls[x], Scope[z.sub], z.event)
        BY <3>5, <3>7, <3>13
      <3> QED BY ZenonT(30), <1>1, <1>3, <3>7, <3>12, <3>13, <3>14 DEF NoneStarted
    <2> QED BY <2>2, <2>3
  <1> QED BY <1>4, <1>5, <1>6

\* The semaphore is entered, if it has a permit.
LEMMA AcquireKeeps ==
    ASSUME DispatcherInv, NEW d \in Dispatches, NEW s \in Subs, Acquire(d, s)
    PROVE  DispatcherInv'
  <1> DEFINE r == calls[d]
             run == [r.run EXCEPT ![s] = "run"]
             q == [r EXCEPT !.run = run]
  <1>1. CallOK(r) /\ r \in CallType /\ CacheOK(cache) /\ VersionInv /\ calls \in [Dispatches -> CallType]
    BY DEF DispatcherInv, CallsInv
  <1>2. calls' = [calls EXCEPT ![d] = q] /\ UNCHANGED <<version, active, cache>>
    BY <1>1 DEF Acquire
  <1>3. run \in [Subs -> {"no", "wait", "run", "done"}] /\ \A t \in Subs : t # s => run[t] = r.run[t]
    BY <1>1 DEF CallType
  <1> HIDE DEF run
  <1>4. Alike(r, q) /\ q.run = run
    BY ZenonT(30), <1>1, <1>3 DEF CallType, Alike
  <1> HIDE DEF q
  <1>5. calls' = [x \in Dispatches |-> calls'[x]] /\ calls'[d] = q /\ \A x \in Dispatches : x # d => calls'[x] = calls[x]
    BY <1>1, <1>2
  <1>6. \A x \in Dispatches : Quiet(calls[x], calls'[x])
    BY <1>4, <1>5, QuietFacts DEF DispatcherInv, CallsInv
  <1>7. VersionInv' /\ CacheOK(cache')
    BY <1>1, <1>2 DEF VersionInv
  <1>8. VersionInv' /\ CallsInv' /\ CacheOK(cache)' /\ SureInv'
    BY <1>2, <1>5, <1>6, <1>7, AllQuiet
  <1>9. Invocations' \subseteq Invocations \cup {<<d, s>>}
    <2> SUFFICES ASSUME NEW i \in Dispatches \X Subs, calls'[i[1]].run[i[2]] = "run", i # <<d, s>>
                 PROVE  calls[i[1]].run[i[2]] = "run"
      BY DEF Invocations
    <2>1. PICK x \in Dispatches, t \in Subs : i = <<x, t>>
      OBVIOUS
    <2>2. x # d \/ t # s
      BY <2>1
    <2> QED BY <1>3, <1>4, <1>5, <2>1, <2>2
  <1>10. IsFiniteSet(Invocations) /\ Cardinality(Invocations) < Permits
    BY DEF DispatcherInv, PermitInv, Acquire
  <1>11. /\ IsFiniteSet(Invocations \cup {<<d, s>>})
         /\ Cardinality(Invocations \cup {<<d, s>>}) <= Cardinality(Invocations) + 1
    <2>1. Cardinality(Invocations) \in Nat
      BY <1>10, FS_CardinalityType
    <2> DEFINE i == <<d, s>>
    <2> HIDE DEF i
    <2>2. /\ IsFiniteSet(Invocations \cup {i})
          /\ Cardinality(Invocations \cup {i}) = IF i \in Invocations THEN Cardinality(Invocations)
                                                 ELSE Cardinality(Invocations) + 1
      BY <1>10, FS_AddElement
    <2>3. Cardinality(Invocations \cup {i}) <= Cardinality(Invocations) + 1
      BY <2>1, <2>2
    <2> QED BY <2>2, <2>3 DEF i
  <1>12. /\ IsFiniteSet(Invocations')
         /\ Cardinality(Invocations') <= Cardinality(Invocations \cup {<<d, s>>})
    BY <1>9, <1>11, FS_Subset
  <1>13. /\ Cardinality(Invocations') \in Nat /\ Cardinality(Invocations) \in Nat /\ Permits \in Nat
         /\ Cardinality(Invocations \cup {<<d, s>>}) \in Nat
    BY <1>10, <1>11, <1>12, FS_CardinalityType, DispatcherAssumption
  <1>14. PermitInv'
    BY <1>10, <1>11, <1>12, <1>13 DEF PermitInv
  <1> QED BY <1>8, <1>14 DEF DispatcherInv

\* An invocation is over, or a dispatch is cancelled, with all that they had started.
LEMMA ReleaseKeeps ==
    ASSUME DispatcherInv, NEW d \in Dispatches,
           (\E s \in Subs : Return(d, s) \/ Timeout(d, s)) \/ CancelDispatch(d)
    PROVE  DispatcherInv'
  <1>1. /\ CacheOK(cache) /\ VersionInv /\ calls \in [Dispatches -> CallType]
        /\ UNCHANGED <<version, active, cache>>
    BY DEF DispatcherInv, CallsInv, Return, Timeout, CancelDispatch
  <1>2. ASSUME NEW s \in Subs
        PROVE  LET q == [calls[d] EXCEPT !.run[s] = "done"] IN Quiet(calls[d], q) /\ NoneStarted(calls[d], q)
    <2> DEFINE r == calls[d]
               run == [r.run EXCEPT ![s] = "done"]
               q == [r EXCEPT !.run = run]
    <2>1. r \in CallType /\ CallOK(r)
      BY DEF DispatcherInv, CallsInv
    <2>2. run \in [Subs -> {"no", "wait", "run", "done"}] /\ \A t \in Subs : run[t] \in {r.run[t], "done"}
      BY <2>1 DEF CallType
    <2> HIDE DEF run
    <2>3. Alike(r, q) /\ q.run = run
      BY ZenonT(30), <2>1, <2>2 DEF CallType, Alike
    <2> HIDE DEF q
    <2>4. Quiet(r, q) /\ NoneStarted(r, q)
      BY <2>1, <2>2, <2>3, QuietFacts DEF NoneStarted
    <2> QED BY <2>4 DEF q, run
  <1>3. \A x \in Dispatches : /\ Quiet(calls[x], calls[x]) /\ NoneStarted(calls[x], calls[x])
                              /\ Quiet(calls[x], Ended(calls[x])) /\ NoneStarted(calls[x], Ended(calls[x]))
    BY QuietFacts DEF DispatcherInv, CallsInv
  <1>4. /\ calls' = [x \in Dispatches |-> calls'[x]]
        /\ \A x \in Dispatches : \/ calls'[x] \in {calls[x], Ended(calls[x])}
                                 \/ x = d /\ \E s \in Subs : calls'[x] = [calls[x] EXCEPT !.run[s] = "done"]
    <2>1. CASE CancelDispatch(d)
      BY <2>1 DEF CancelDispatch
    <2>2. ASSUME NEW s \in Subs, calls' = Released(d, s)
          PROVE  /\ calls' = [x \in Dispatches |-> calls'[x]]
                 /\ \A x \in Dispatches : \/ calls'[x] \in {calls[x], Ended(calls[x])}
                                          \/ x = d /\ calls'[x] = [calls[x] EXCEPT !.run[s] = "done"]
      <3>1. calls' = [x \in Dispatches |-> calls'[x]]
        BY <2>2 DEF Released
      <3>2. ASSUME NEW x \in Dispatches
            PROVE  \/ calls'[x] \in {calls[x], Ended(calls[x])}
                   \/ x = d /\ calls'[x] = [calls[x] EXCEPT !.run[s] = "done"]
        <4>1. calls'[x] = CASE x = d             -> [calls[x] EXCEPT !.run[s] = "done"]
                            [] x \in Nested(d, s) -> Ended(calls[x])
                            [] OTHER              -> calls[x]
          BY <2>2 DEF Released
        <4> QED BY <4>1
      <3> QED BY <3>1, <3>2
    <2> QED BY <2>1, <2>2 DEF Return, Timeout
  <1>5. \A x \in Dispatches : Quiet(calls[x], calls'[x]) /\ NoneStarted(calls[x], calls'[x])
    BY <1>2, <1>3, <1>4
  <1>6. VersionInv' /\ CacheOK(cache')
    BY <1>1 DEF VersionInv
  <1> QED BY <1>1, <1>4, <1>5, <1>6, AllQuiet

\* The two transactions of create_namespace_version.
LEMMA VersionKeeps ==
    ASSUME DispatcherInv, NEW n \in Namespaces, Deactivate(n) \/ CreateVersion(n)
    PROVE  DispatcherInv'
  <1>1. CacheOK(cache) /\ VersionInv /\ calls \in [Dispatches -> CallType] /\ cache' = cache
    BY DEF DispatcherInv, CallsInv, Deactivate, CreateVersion
  <1>2. \A x \in Dispatches : CallOK(calls[x])
    BY DEF DispatcherInv, CallsInv
  <1>3. CASE Deactivate(n)
    <2>1. VersionInv'
      BY <1>1, <1>3 DEF VersionInv, Deactivate
    <2>2. calls' = [x \in Dispatches |-> calls'[x]] /\ \A x \in Dispatches : calls'[x] = [calls[x] EXCEPT !.sure = FALSE]
      BY <1>3 DEF Deactivate
    <2>3. ASSUME NEW x \in Dispatches
          PROVE  Quiet(calls[x], calls'[x]) /\ NoneStarted(calls[x], calls'[x]) /\ ~Certain(calls'[x])
      <3> DEFINE r == calls[x]
                 q == [r EXCEPT !.sure = FALSE]
      <3>1. r \in CallType
        BY <1>1
      <3>2. Alike(r, q) /\ q.run = r.run /\ q.sure = FALSE
        BY ZenonT(30), <3>1 DEF CallType, Alike
      <3>3. calls'[x] = q
        BY <2>2
      <3> HIDE DEF q
      <3> QED BY <1>2, <3>2, <3>3, QuietFacts DEF NoneStarted, Certain
    <2> QED BY <1>1, <2>1, <2>2, <2>3, AllQuiet
  <1>4. CASE CreateVersion(n)
    <2>1. version[n] \in 1 .. MaxVersion /\ version[n] < MaxVersion /\ MaxVersion \in Nat
      BY <1>1, <1>4, DispatcherAssumption DEF VersionInv, CreateVersion
    <2>2. version[n] + 1 \in 1 .. MaxVersion
      BY <2>1
    <2>3. VersionInv'
      BY <1>1, <1>4, <2>2 DEF VersionInv, CreateVersion
    <2>4. \A m \in Namespaces : active[m] => active'[m] /\ version'[m] = version[m]
      BY <1>1, <1>4 DEF VersionInv, CreateVersion
    <2>5. calls' = calls
      BY <1>4 DEF CreateVersion
    <2>6. \A x \in Dispatches : Quiet(calls[x], calls'[x]) /\ NoneStarted(calls[x], calls'[x])
      BY <1>2, <2>5, QuietFacts
    <2>7. calls' = [x \in Dispatches |-> calls'[x]]
      BY <1>1, <2>5
    <2> QED BY <1>1, <2>3, <2>4, <2>6, <2>7, AllQuiet
  <1> QED BY <1>3, <1>4

\* A subscription reaches the dispatches that walk its list; a new process has none.
LEMMA OutsideKeeps ==
    ASSUME DispatcherInv, ListsInv, ListsInv', SubscriptionsMove \/ Restart
    PROVE  DispatcherInv'
  <1>1. CacheOK(cache) /\ VersionInv /\ calls \in [Dispatches -> CallType] /\ \A x \in Dispatches : CallOK(calls[x])
    BY DEF DispatcherInv, CallsInv
  <1>2. VersionInv' /\ \A n \in Namespaces : active[n] => active'[n] /\ version'[n] = version[n]
    BY <1>1 DEF VersionInv, SubscriptionsMove, Restart
  <1>3. CASE Restart
    <2>1. /\ calls' = [x \in Dispatches |-> calls'[x]]
          /\ \A x \in Dispatches : calls'[x] \in {calls[x], Ended(calls[x])}
      BY <1>3 DEF Restart
    <2>2. \A x \in Dispatches : Quiet(calls[x], calls'[x]) /\ NoneStarted(calls[x], calls'[x])
      BY <1>1, <2>1, QuietFacts
    <2>3. cache' = [id \in Ids |-> None]
      BY <1>3 DEF Restart
    <2>4. CacheOK(cache') /\ \A id \in Ids : cache'[id] \in {cache[id], None}
      BY <2>3 DEF CacheOK
    <2> QED BY <1>2, <2>1, <2>2, <2>4, AllQuiet
  <1>4. CASE SubscriptionsMove
    <2>1. calls' = [x \in Dispatches |-> calls'[x]] /\ cache' = cache
      BY <1>4 DEF SubscriptionsMove
    <2>2. ASSUME NEW x \in Dispatches PROVE Quiet(calls[x], calls'[x]) /\ NoneStarted(calls[x], calls'[x])
      <3> DEFINE r == calls[x]
                 Grown(k) == /\ Follows(r, k) /\ r.held[k] = lists[k].id /\ lists'[k].id = lists[k].id
                             /\ Len(lists'[k].subs) > Len(lists[k].subs)
                 todo == [k \in Kinds |-> IF Grown(k) THEN Append(r.todo[k], Last(lists'[k].subs)) ELSE r.todo[k]]
                 q == [r EXCEPT !.todo = todo]
      <3>1. calls'[x] = q
        BY <1>4 DEF SubscriptionsMove
      <3>2. r \in CallType /\ r.todo \in [Kinds -> Seq(Subs)]
        BY <1>1 DEF CallType
      <3>3. ASSUME NEW k \in Kinds, Grown(k) PROVE Append(r.todo[k], Last(lists'[k].subs)) \in Seq(Subs)
        <4> DEFINE new == lists'[k].subs
        <4>1. lists[k].subs \in Seq(Subs) /\ new \in Seq(Subs) /\ Len(new) > Len(lists[k].subs)
          BY <3>3 DEF ListsInv, ListType
        <4>2. Len(new) \in Nat /\ Len(new) > 0
          BY <4>1, ToSetFacts
        <4>3. Last(new) = new[Len(new)] /\ Len(new) \in 1 .. Len(new)
          BY <4>2 DEF Last
        <4>4. Last(new) \in Subs
          BY <4>1, <4>3
        <4>5. r.todo[k] \in Seq(Subs)
          BY <3>2
        <4> HIDE DEF new
        <4>6. Append(r.todo[k], Last(new)) \in Seq(Subs)
          BY <4>4, <4>5
        <4> QED BY <4>6 DEF new
      <3> HIDE DEF Grown
      <3>4. todo \in [Kinds -> Seq(Subs)]
        BY <3>2, <3>3
      <3> HIDE DEF todo
      <3>5. Alike(r, q) /\ q.run = r.run
        BY ZenonT(30), <3>2, <3>4 DEF CallType, Alike
      <3> HIDE DEF q
      <3> QED BY <1>1, <3>1, <3>5, QuietFacts DEF NoneStarted
    <2> QED BY <1>1, <1>2, <2>1, <2>2, AllQuiet
  <1> QED BY <1>3, <1>4

\* Every step keeps the dispatcher's invariant.
LEMMA DispatcherKeeps ==
    ASSUME SubscriptionsInv, SubscriptionsInv', DispatcherInv, [Next]_vars
    PROVE  DispatcherInv'
  <1>1. ListsInv /\ ListsInv'
    BY DEF SubscriptionsInv
  <1>2. CASE SubscriptionsMove \/ Restart
    BY <1>1, <1>2, OutsideKeeps
  <1>3. CASE DispatcherStep
    <2>1. ASSUME NEW d \in Dispatches, NEW e \in Emitted, Emit(d, e) \/ EmitDirect(d, e) PROVE DispatcherInv'
      <3>1. e \in Rows /\ <<>> \in Seq(Dispatches \X Subs)
        BY EmptySeq DEF Emitted
      <3> QED BY <1>1, <2>1, <3>1, BeginKeeps DEF Emit, EmitDirect
    <2>2. ASSUME NEW d \in Dispatches, NEW x \in Dispatches, NEW s \in Subs, NEW e \in Emitted, Nest(d, s, x, e)
          PROVE  DispatcherInv'
      <3>1. e \in Rows /\ calls[d].within \in Seq(Dispatches \X Subs)
        BY DEF Emitted, DispatcherInv, CallsInv, CallType
      <3> DEFINE w == Append(calls[d].within, <<d, s>>)
      <3>2. w \in Seq(Dispatches \X Subs)
        BY <3>1
      <3>3. Begin(x, e, w) /\ UNCHANGED <<version, active, cache>>
        BY <2>2 DEF Nest
      <3> HIDE DEF w
      <3> QED BY <1>1, <3>1, <3>2, <3>3, BeginKeeps
    <2>3. ASSUME NEW d \in Dispatches, DispatchStep(d) \/ CancelDispatch(d) PROVE DispatcherInv'
      BY <2>3, NextSubKeeps, LookupKeeps, ResumeKeeps, GateKeeps, AcquireKeeps, ReleaseKeeps DEF DispatchStep
    <2>4. ASSUME NEW n \in Namespaces, Deactivate(n) \/ CreateVersion(n) PROVE DispatcherInv'
      BY <2>4, VersionKeeps
    <2> QED BY <1>3, <2>1, <2>2, <2>3, <2>4 DEF DispatcherStep
  <1>4. CASE UNCHANGED vars
    BY <1>4 DEF vars, dispatcher, DispatcherInv, VersionInv, CallsInv, CacheOK, PermitInv, Invocations,
                SureInv, ActiveRow
  <1> QED BY <1>2, <1>3, <1>4 DEF Next

\* No dispatch was made, nothing is cached.
LEMMA DispatcherStart == Init => DispatcherInv
  <1> SUFFICES ASSUME Init PROVE DispatcherInv
    OBVIOUS
  <1>1. /\ version = [n \in Namespaces |-> 1] /\ active = [n \in Namespaces |-> TRUE]
        /\ cache = [id \in Ids |-> None] /\ calls = [d \in Dispatches |-> NewCall]
    BY DEF Init
  <1>2. CallOK(NewCall) /\ NewCall.missed = {} /\ NewCall.pc = "new" /\ \A s \in Subs : NewCall.run[s] = "no"
    BY EndedFacts
  <1>3. VersionInv
    BY <1>1, DispatcherAssumption DEF VersionInv
  <1>4. CallsInv
    BY <1>1, <1>2 DEF CallsInv, CallOK
  <1>5. CacheOK(cache)
    BY <1>1 DEF CacheOK
  <1>6. SureInv
    BY <1>1, <1>2 DEF SureInv, Certain
  <1>7. Invocations = {}
    BY <1>1, <1>2 DEF Invocations
  <1>8. PermitInv
    BY <1>7, FS_EmptySet, DispatcherAssumption DEF PermitInv
  <1> QED BY <1>3, <1>4, <1>5, <1>6, <1>8 DEF DispatcherInv

\* The invariant is what the properties say.
LEMMA DispatcherMeans == SubscriptionsInv /\ DispatcherInv => TypeOK /\ NoLeak /\ StaleHeals
  <1> SUFFICES ASSUME SubscriptionsInv, DispatcherInv PROVE TypeOK /\ NoLeak /\ StaleHeals
    OBVIOUS
  <1>1. \A d \in Dispatches : CallOK(calls[d]) /\ calls[d] \in CallType
    BY DEF DispatcherInv, CallsInv, CallOK
  <1>2. StaleHeals
    BY DEF StaleHeals, DispatcherInv, SureInv
  <1>3. NoLeak
    BY <1>1 DEF NoLeak, CallOK, InTheirScope, Home
  <1>4. \A id \in Ids : cache[id] \in Rows \cup {None} /\ (id \in Rows => cache[id] \in {id, None})
    BY DEF DispatcherInv, CacheOK, Found
  <1>5. \A d \in Dispatches :
          /\ calls[d].pc \in Active \cup {"new", "returned"}
          /\ calls[d].pc \in {"ask", "got"} <=> calls[d].asked # None
          /\ calls[d].matched \cup calls[d].missed \subseteq Subs
    <2> TAKE d \in Dispatches
    <2>1. calls[d].pc \in Active \cup {"new", "returned"} /\ calls[d].matched \subseteq Subs /\ calls[d].missed \subseteq Subs
      BY <1>1 DEF CallType
    <2>2. calls[d].pc \in {"ask", "got"} <=> calls[d].asked # None
      BY <1>1 DEF CallOK
    <2> QED BY <2>1, <2>2
  <1>6. TypeOK
    BY <1>4, <1>5, SubscriptionsMean DEF TypeOK, DispatcherInv, VersionInv, PermitInv
  <1> QED BY <1>2, <1>3, <1>6

\* The three hold together, along the subscriptions.
LEMMA DispatcherSafe == Spec => [](TypeOK /\ NoLeak /\ StaleHeals)
  <1> DEFINE Inv == SubscriptionsInv /\ DispatcherInv
  <1>1. Init => Inv
    BY SubscriptionsStart, DispatcherStart DEF Init
  <1>2. Inv /\ [Next]_vars => Inv'
    BY SubscriptionsInNext, SubscriptionsKeep, DispatcherKeeps
  <1>3. Inv => TypeOK /\ NoLeak /\ StaleHeals
    BY DispatcherMeans
  <1> QED BY <1>1, <1>2, <1>3, PTL DEF Spec

\* TypeOK for any subscriptions, namespaces and dispatches: however dispatches nest, time out
\* and are cancelled, _safe_invoke and _safe_deliver never run more callbacks at a time than
\* the semaphore has permits.
THEOREM TypeCorrect == Spec => []TypeOK
  BY DispatcherSafe, PTL

\* NoLeak for any subscriptions, namespaces and dispatches: _namespace_scope_matches lets no
\* event of another namespace through, whatever it finds cached, whichever lookups raise and
\* however many versions are made while it waits.
THEOREM ScopeNeverLeaks == Spec => []NoLeak
  BY DispatcherSafe, PTL

\* StaleHeals for any number of dispatches that share the cache: a check that began on the
\* active version, with no older lookup under way, ends in a match, though the cache was
\* filled before that version.
THEOREM StaleCacheHeals == Spec => []StaleHeals
  BY DispatcherSafe, PTL
=============================================================================
