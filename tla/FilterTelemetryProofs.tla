------------------------ MODULE FilterTelemetryProofs ------------------------
(***************************************************************************)
(* Proofs about FilterTelemetry.  The collector's part shows that the      *)
(* buffer and the three flushers hold disjoint lists of events (ApartInv), *)
(* that a flusher at rest holds nothing (IdleInv), and from that how each  *)
(* event is accounted for (LedgerInv).  The evaluator's part adds to the   *)
(* types that every bucket is of one filter (BucketInv).                   *)
(***************************************************************************)
EXTENDS FilterTelemetry, SequenceTheorems, FiniteSetTheorems, TLAPS

\* The lists of events in memory.
Spots == {"buffer"} \cup Flushers
At(p) == IF p = "buffer" THEN buffer ELSE flush[p]

Distinct(s) == \A m, n \in DOMAIN s : s[m] = s[n] => m = n
Apart(s, t) == \A m \in DOMAIN s : \A n \in DOMAIN t : s[m] # t[n]

\* No event is twice in memory, and none before it is recorded.
ApartInv ==
    /\ \A p \in Spots : Distinct(At(p)) /\ \A n \in DOMAIN At(p) : At(p)[n] <= recorded
    /\ \A p, q \in Spots : p # q => Apart(At(p), At(q))

\* A flusher that is in no transaction holds nothing.
IdleInv == \A f \in Flushers : ~Flushing(f) => flush[f] = <<>>

InMemory(e) == \E p \in Spots : e \in Held(At(p))

\* Where an event is: nowhere before it is recorded, and then in memory, in the database
\* or among the dropped.
LedgerInv ==
    \A e \in Records :
        /\ e > recorded => stored[e] = 0 /\ e \notin dropped \cup cut \cup unsure
        /\ e <= recorded /\ e \notin unsure \cup cut =>
              \/ InMemory(e) /\ stored[e] = 0 /\ e \notin dropped
              \/ ~InMemory(e) /\ stored[e] = 1 /\ e \notin dropped
              \/ ~InMemory(e) /\ stored[e] = 0 /\ e \in dropped

CollectorInv == CollectorTypeOK /\ ApartInv /\ IdleInv /\ LedgerInv

-------------------------------------------------------------------------------
(* Sequences.                                                              *)

\* What a list of events holds.
LEMMA HeldFacts ==
    ASSUME NEW s \in Seq(Records)
    PROVE  /\ Held(s) \subseteq Records
           /\ DOMAIN s = 1 .. Len(s) /\ Len(s) \in Nat
           /\ Held(s) = {} <=> s = <<>>
  <1>1. /\ Len(s) \in Nat /\ DOMAIN s = 1 .. Len(s)
        /\ \A n \in 1 .. Len(s) : s[n] \in Records
    BY LenProperties
  <1>2. s # <<>> => Len(s) \in Nat \ {0}
    BY EmptySeq
  <1>3. s # <<>> => 1 \in DOMAIN s
    BY <1>1, <1>2
  <1>4. Held(s) \subseteq Records
    BY <1>1 DEF Held
  <1>5. s # <<>> => s[1] \in Held(s)
    BY <1>3 DEF Held
  <1>6. s = <<>> => DOMAIN s = {}
    OBVIOUS
  <1>7. s = <<>> => Held(s) = {}
    BY <1>6 DEF Held
  <1> QED
    BY <1>1, <1>4, <1>5, <1>7

\* The empty list.
LEMMA NothingHeld == Held(<<>>) = {} /\ Distinct(<<>>) /\ DOMAIN <<>> = {} /\ \A S : <<>> \in Seq(S)
  <1>1. DOMAIN <<>> = {}
    OBVIOUS
  <1> QED
    BY <1>1, EmptySeq DEF Held, Distinct

\* Two lists are apart if and only if they hold nothing in common.
LEMMA ApartIsDisjoint ==
    ASSUME NEW s, NEW t
    PROVE  Apart(s, t) <=> Held(s) \cap Held(t) = {}
  BY DEF Apart, Held

\* record_llm_call's append.
LEMMA AppendFacts ==
    ASSUME NEW s \in Seq(Records), NEW e \in Records, Distinct(s), e \notin Held(s)
    PROVE  /\ Append(s, e) \in Seq(Records) /\ Distinct(Append(s, e))
           /\ Held(Append(s, e)) = Held(s) \cup {e}
  <1> DEFINE t == Append(s, e)
  <1>1. /\ t \in Seq(Records) /\ Len(t) = Len(s) + 1 /\ t[Len(s) + 1] = e
        /\ \A i \in 1 .. Len(s) : t[i] = s[i]
    BY AppendProperties
  <1>2. /\ Len(s) \in Nat /\ DOMAIN s = 1 .. Len(s) /\ DOMAIN t = 1 .. Len(s) + 1
    BY <1>1, LenProperties
  <1>3. DOMAIN t = DOMAIN s \cup {Len(s) + 1} /\ Len(s) + 1 \notin DOMAIN s
    BY <1>2
  <1> HIDE DEF t
  <1>4. Held(t) = Held(s) \cup {e}
    BY <1>1, <1>2, <1>3 DEF Held
  <1>5. Distinct(t)
    BY <1>1, <1>2, <1>3 DEF Held, Distinct
  <1> QED
    BY <1>1, <1>4, <1>5 DEF t

\* The list of _requeue, cut where the cap says: the two halves share the events of the
\* flush and of the buffer between them.
LEMMA CutFacts ==
    ASSUME NEW s \in Seq(Records), NEW t \in Seq(Records), Distinct(s), Distinct(t), Apart(s, t),
           NEW n \in Nat, n <= Len(s \o t)
    PROVE  LET head == SubSeq(s \o t, 1, n)
               tail == SubSeq(s \o t, n + 1, Len(s \o t))
           IN  /\ tail \in Seq(Records) /\ Distinct(tail)
               /\ Held(head) \cup Held(tail) = Held(s) \cup Held(t)
               /\ Held(head) \cap Held(tail) = {}
  <1> DEFINE all == s \o t
             L == Len(all)
             head == SubSeq(all, 1, n)
             tail == SubSeq(all, n + 1, L)
  <1>1. /\ all \in Seq(Records) /\ L = Len(s) + Len(t)
        /\ \A i \in 1 .. Len(s) + Len(t) : all[i] = IF i <= Len(s) THEN s[i] ELSE t[i - Len(s)]
    BY ConcatProperties
  <1>2. /\ Len(s) \in Nat /\ Len(t) \in Nat /\ L \in Nat
        /\ DOMAIN s = 1 .. Len(s) /\ DOMAIN t = 1 .. Len(t)
        /\ \A i \in 1 .. L : all[i] \in Records
    BY <1>1, LenProperties
  <1> HIDE DEF all, L
  <1>3. \A i, j \in 1 .. L : all[i] = all[j] => i = j
    <2> SUFFICES ASSUME NEW i \in 1 .. L, NEW j \in 1 .. L, all[i] = all[j], i # j PROVE FALSE
      OBVIOUS
    <2>1. \A k \in 1 .. L : (k \in DOMAIN s /\ all[k] = s[k]) \/ (k - Len(s) \in DOMAIN t /\ all[k] = t[k - Len(s)])
      BY <1>1, <1>2
    <2>2. i - Len(s) = j - Len(s) => i = j
      BY <1>2
    <2> QED
      BY <2>1, <2>2 DEF Distinct, Apart
  <1>4. Held(s) \cup Held(t) = {all[i] : i \in 1 .. L}
    <2>1. \A i \in 1 .. L : all[i] \in Held(s) \cup Held(t)
      <3> SUFFICES ASSUME NEW i \in 1 .. L PROVE all[i] \in Held(s) \cup Held(t)
        OBVIOUS
      <3>1. CASE i <= Len(s)
        BY <3>1, <1>1, <1>2 DEF Held
      <3>2. CASE ~(i <= Len(s))
        <4>1. i - Len(s) \in DOMAIN t /\ all[i] = t[i - Len(s)]
          BY <3>2, <1>1, <1>2
        <4> QED BY <4>1 DEF Held
      <3> QED BY <3>1, <3>2
    <2>2. \A i \in DOMAIN s : i \in 1 .. L /\ s[i] = all[i]
      BY <1>1, <1>2
    <2>3. \A i \in DOMAIN t : i + Len(s) \in 1 .. L /\ t[i] = all[i + Len(s)]
      BY <1>1, <1>2
    <2>4. Held(s) \subseteq {all[i] : i \in 1 .. L}
      BY <2>2 DEF Held
    <2>5. Held(t) \subseteq {all[i] : i \in 1 .. L}
      BY <2>3 DEF Held
    <2> QED
      BY <2>1, <2>4, <2>5
  <1>5. /\ head \in Seq(Records) /\ Len(head) = n
        /\ \A i \in 1 .. n : head[i] = all[i]
    <2>1. \A i \in 1 .. n : all[i] \in Records
      BY <1>2 DEF L, all
    <2>2. /\ SubSeq(all, 1, n) \in Seq(Records)
          /\ Len(SubSeq(all, 1, n)) = IF 1 <= n THEN n - 1 + 1 ELSE 0
          /\ \A i \in 1 .. n - 1 + 1 : SubSeq(all, 1, n)[i] = all[1 + i - 1]
      BY <2>1, SubSeqProperties
    <2> QED
      BY <2>2
  <1>6. /\ tail \in Seq(Records) /\ Len(tail) = L - n
        /\ \A i \in 1 .. L - n : tail[i] = all[n + i]
    <2>1. \A i \in n + 1 .. L : all[i] \in Records
      BY <1>2
    <2>2. /\ SubSeq(all, n + 1, L) \in Seq(Records)
          /\ Len(SubSeq(all, n + 1, L)) = IF n + 1 <= L THEN L - (n + 1) + 1 ELSE 0
          /\ \A i \in 1 .. L - (n + 1) + 1 : SubSeq(all, n + 1, L)[i] = all[(n + 1) + i - 1]
      BY <2>1, <1>2, SubSeqProperties
    <2>3. n <= L
      BY DEF L, all
    <2> QED
      BY <2>2, <2>3, <1>2
  <1> HIDE DEF head, tail
  <1>7. n <= L
    BY DEF L, all
  <1>8. DOMAIN head = 1 .. n /\ DOMAIN tail = 1 .. L - n
    BY <1>5, <1>6, LenProperties
  <1>9. Distinct(tail)
    BY <1>2, <1>3, <1>6, <1>7, <1>8 DEF Distinct
  <1>10. Held(head) \cup Held(tail) = {all[i] : i \in 1 .. L}
    <2>1. \A i \in 1 .. n : i \in 1 .. L
      BY <1>2, <1>7
    <2>2. \A i \in 1 .. L - n : n + i \in 1 .. L
      BY <1>2, <1>7
    <2>3. \A i \in 1 .. L : i \in 1 .. n \/ (i - n \in 1 .. L - n /\ n + (i - n) = i)
      BY <1>2, <1>7
    <2>4. Held(head) \subseteq {all[i] : i \in 1 .. L}
      BY <2>1, <1>5, <1>8 DEF Held
    <2>5. Held(tail) \subseteq {all[i] : i \in 1 .. L}
      BY <2>2, <1>6, <1>8 DEF Held
    <2>6. \A i \in 1 .. n : all[i] \in Held(head)
      BY <1>5, <1>8 DEF Held
    <2>7. \A j \in 1 .. L - n : all[n + j] \in Held(tail)
      BY <1>6, <1>8 DEF Held
    <2>8. \A i \in 1 .. L : all[i] \in Held(head) \cup Held(tail)
      BY <2>3, <2>6, <2>7
    <2> QED
      BY <2>4, <2>5, <2>8
  <1>11. Held(head) \cap Held(tail) = {}
    <2>1. \A i \in 1 .. n : \A j \in 1 .. L - n : i # n + j /\ i \in 1 .. L /\ n + j \in 1 .. L
      BY <1>2, <1>7
    <2> QED
      BY <2>1, <1>3, <1>5, <1>6, <1>8 DEF Held
  <1> QED
    BY <1>4, <1>6, <1>9, <1>10, <1>11 DEF all, L, head, tail
-------------------------------------------------------------------------------
(* The types of the collector.                                             *)

\* The flushers by name.
LEMMA FlusherFacts ==
    /\ Flushers = {"timer", "threshold", "final"}
    /\ Flushing("timer") <=> loop = "flush"
    /\ Flushing("threshold") <=> threshold = "flush"
    /\ Flushing("final") <=> phase = "final"
    /\ "buffer" \notin Flushers
  BY DEF Flushers, Flushing

\* What the end of a flush changes.
LEMMA FinishedFacts ==
    ASSUME CollectorTypeOK, NEW f \in Flushers, Finished(f)
    PROVE  /\ flush' \in [Flushers -> Seq(Records)]
           /\ flush'[f] = <<>> /\ \A g \in Flushers : g # f => flush'[g] = flush[g]
           /\ loop' \in {"sleep", "flush", "cancelled"} /\ threshold' \in {"done", "scheduled", "flush"}
           /\ phase' \in {"running", "await", "drain", "final", "stopped"}
           /\ f # "timer" => loop' = loop
           /\ f # "threshold" => threshold' = threshold
           /\ f # "final" => (phase' = "final" <=> phase = "final")
  <1>1. <<>> \in Seq(Records)
    BY NothingHeld
  <1>2. /\ flush' \in [Flushers -> Seq(Records)]
        /\ flush'[f] = <<>> /\ \A g \in Flushers : g # f => flush'[g] = flush[g]
    BY <1>1 DEF Finished, CollectorTypeOK
  <1>3. /\ loop' \in {"sleep", "flush", "cancelled"} /\ threshold' \in {"done", "scheduled", "flush"}
        /\ f # "timer" => loop' = loop
        /\ f # "threshold" => threshold' = threshold
    BY DEF Finished, CollectorTypeOK
  <1>4. /\ phase' \in {"running", "await", "drain", "final", "stopped"}
        /\ f # "final" => (phase' = "final" <=> phase = "final")
    <2>1. CASE f = "final"
      BY <2>1 DEF Finished, CollectorTypeOK
    <2>2. CASE f = "threshold"
      BY <2>2 DEF Finished, Awaited, CollectorTypeOK
    <2>3. CASE f = "timer"
      BY <2>3 DEF Finished, CollectorTypeOK
    <2> QED BY <2>1, <2>2, <2>3 DEF Flushers
  <1> QED BY <1>2, <1>3, <1>4

\* The database after a transaction.
LEMMA InsertedFacts ==
    ASSUME CollectorTypeOK, NEW f \in Flushers
    PROVE  /\ Inserted(f) \in [Records -> Nat]
           /\ \A e \in Records : Inserted(f)[e] = IF e \in Held(flush[f]) THEN stored[e] + 1 ELSE stored[e]
  BY DEF Inserted, CollectorTypeOK

-------------------------------------------------------------------------------
(* What each action does to the events.                                    *)

\* The top of _flush.
DrainView(f) ==
    /\ flush[f] = <<>> /\ buffer' = <<>> /\ flush'[f] = buffer
    /\ \A g \in Flushers : g # f => flush'[g] = flush[g]
    /\ UNCHANGED <<recorded, stored, dropped, cut, unsure>>

RecordView ==
    /\ recorded + 1 \in Records /\ recorded' = recorded + 1
    /\ buffer' = Append(buffer, recorded + 1)
    /\ UNCHANGED <<flush, stored, dropped, cut, unsure>>

\* The rows of a flush are in the database, or they may be, once it is gone.
CommitView(f) ==
    /\ flush'[f] = <<>> /\ \A g \in Flushers : g # f => flush'[g] = flush[g]
    /\ UNCHANGED <<recorded, buffer, dropped, unsure>>
    /\ \/ stored' = Inserted(f) /\ UNCHANGED cut
       \/ stored' \in {stored, Inserted(f)} /\ cut' = cut \cup Held(flush[f])

\* What _requeue does with the events of a flush: all of them and the buffer's stay, but
\* for the oldest.
RequeueView(f) ==
    /\ flush'[f] = <<>> /\ \A g \in Flushers : g # f => flush'[g] = flush[g]
    /\ Distinct(buffer')
    /\ \E gone \in SUBSET Records :
          /\ gone \cup Held(buffer') = Held(flush[f]) \cup Held(buffer)
          /\ gone \cap Held(buffer') = {}
          /\ dropped' = dropped \cup gone
    /\ \/ UNCHANGED <<stored, unsure>>
       \/ stored' = Inserted(f) /\ unsure' = unsure \cup Held(flush[f])
    /\ UNCHANGED <<recorded, cut>>

\* The list that Requeue cuts.
Overflow(f) ==
    IF Len(Kept(flush[f])) > MaxBuffer THEN Len(Kept(flush[f])) - MaxBuffer ELSE 0

\* _requeue's arithmetic.
LEMMA RequeueFacts ==
    ASSUME CollectorTypeOK, ApartInv, NEW f \in Flushers, Requeue(f)
    PROVE  /\ buffer' \in Seq(Records) /\ dropped' \subseteq Records
           /\ RequeueView(f)
  <1> DEFINE s == flush[f]
             n == Overflow(f)
             head == SubSeq(s \o buffer, 1, n)
             tail == SubSeq(s \o buffer, n + 1, Len(s \o buffer))
  <1>1. s \in Seq(Records) /\ buffer \in Seq(Records)
    BY DEF CollectorTypeOK
  <1>2. Distinct(s) /\ Distinct(buffer) /\ Apart(s, buffer)
    BY FlusherFacts DEF ApartInv, Spots, At
  <1>3. s \o buffer \in Seq(Records) /\ Len(s \o buffer) \in Nat
    <2>1. s \o buffer \in Seq(Records)
      BY <1>1, ConcatProperties
    <2> QED BY <2>1, LenProperties
  <1>4. n \in Nat /\ n <= Len(s \o buffer)
    BY <1>3, CollectorAssumption DEF Overflow, Kept
  <1>5. buffer' = tail /\ dropped' = dropped \cup Held(head)
    BY DEF Requeue, Overflow, Kept
  <1>6. /\ tail \in Seq(Records) /\ Distinct(tail)
        /\ Held(head) \cup Held(tail) = Held(s) \cup Held(buffer)
        /\ Held(head) \cap Held(tail) = {}
    <2> HIDE DEF n
    <2> QED BY <1>1, <1>2, <1>4, CutFacts
  <1>7. Held(head) \subseteq Records
    <2>1. Held(s) \subseteq Records /\ Held(buffer) \subseteq Records
      BY <1>1, HeldFacts
    <2> QED BY <1>6, <2>1
  <1> HIDE DEF head, tail, n
  <1>8. Finished(f) /\ UNCHANGED <<recorded, cut>>
        /\ (UNCHANGED <<stored, unsure>> \/ (stored' = Inserted(f) /\ unsure' = unsure \cup Held(flush[f])))
    BY DEF Requeue
  <1>9. flush'[f] = <<>> /\ \A g \in Flushers : g # f => flush'[g] = flush[g]
    BY <1>8, FinishedFacts
  <1>10. dropped' \subseteq Records
    BY <1>5, <1>7 DEF CollectorTypeOK
  <1>11. \E gone \in SUBSET Records :
            /\ gone \cup Held(buffer') = Held(flush[f]) \cup Held(buffer)
            /\ gone \cap Held(buffer') = {}
            /\ dropped' = dropped \cup gone
    BY <1>5, <1>6, <1>7
  <1> QED
    BY <1>5, <1>6, <1>8, <1>9, <1>10, <1>11 DEF RequeueView

\* IdleInv, flusher by flusher.
LEMMA IdleNames ==
    /\ IdleInv <=> (/\ loop = "flush" \/ flush["timer"] = <<>>
                    /\ threshold = "flush" \/ flush["threshold"] = <<>>
                    /\ phase = "final" \/ flush["final"] = <<>>)
    /\ IdleInv' <=> (/\ loop' = "flush" \/ flush'["timer"] = <<>>
                     /\ threshold' = "flush" \/ flush'["threshold"] = <<>>
                     /\ phase' = "final" \/ flush'["final"] = <<>>)
  <1>1. /\ Flushing("timer") <=> loop = "flush"
        /\ Flushing("threshold") <=> threshold = "flush"
        /\ Flushing("final") <=> phase = "final"
    BY DEF Flushing
  <1>2. /\ Flushing("timer")' <=> loop' = "flush"
        /\ Flushing("threshold")' <=> threshold' = "flush"
        /\ Flushing("final")' <=> phase' = "final"
    BY DEF Flushing
  <1>3. \A f \in Flushers : f = "timer" \/ f = "threshold" \/ f = "final"
    BY DEF Flushers
  <1>4. "timer" \in Flushers /\ "threshold" \in Flushers /\ "final" \in Flushers
    BY DEF Flushers
  <1>5. IdleInv <=> /\ loop = "flush" \/ flush["timer"] = <<>>
                    /\ threshold = "flush" \/ flush["threshold"] = <<>>
                    /\ phase = "final" \/ flush["final"] = <<>>
    BY <1>1, <1>3, <1>4 DEF IdleInv
  <1>6. IdleInv' <=> /\ loop' = "flush" \/ flush'["timer"] = <<>>
                     /\ threshold' = "flush" \/ flush'["threshold"] = <<>>
                     /\ phase' = "final" \/ flush'["final"] = <<>>
    BY <1>2, <1>3, <1>4 DEF IdleInv
  <1> QED BY <1>5, <1>6

\* An action of the collector, or of the evaluator, with the types it keeps, the flushers
\* at rest, and its view.
LEMMA CollectorViews ==
    ASSUME CollectorTypeOK, ApartInv, IdleInv, CollectorStep \/ Record
    PROVE  /\ CollectorTypeOK' /\ IdleInv'
           /\ \/ RecordView
              \/ \E f \in Flushers : DrainView(f) \/ CommitView(f) \/ RequeueView(f)
  <1> USE FlusherFacts
  <1>e. <<>> \in Seq(Records)
    BY NothingHeld
  <1>t. "timer" \in Flushers /\ "threshold" \in Flushers /\ "final" \in Flushers
    BY DEF Flushers
  <1>1. CASE Record
    <2>1. recorded \in Nat /\ recorded + 1 \in Records /\ recorded' = recorded + 1
      BY <1>1, CollectorAssumption DEF Record, CollectorTypeOK, Records
    <2>2. buffer' = Append(buffer, recorded + 1) /\ buffer' \in Seq(Records)
      BY <1>1, <2>1 DEF Record, CollectorTypeOK
    <2>3. RecordView
      BY <1>1, <2>1, <2>2 DEF Record, RecordView
    <2>4. recorded' \in 0 .. MaxEvents
      BY <2>1, CollectorAssumption DEF Records
    <2>5. threshold' \in {"done", "scheduled", "flush"} /\ (threshold' = "flush" <=> threshold = "flush")
      BY <1>1 DEF Record, CollectorTypeOK
    <2>6. UNCHANGED <<flush, loop, phase, stored, dropped, cut, unsure, failures>>
      BY <1>1 DEF Record
    <2>7. CollectorTypeOK'
      BY <2>2, <2>4, <2>5, <2>6 DEF CollectorTypeOK, Records
    <2>8. \A f \in Flushers : Flushing(f)' <=> Flushing(f)
      BY <2>5, <2>6 DEF Flushers, Flushing
    <2>9. IdleInv'
      BY <2>6, <2>8 DEF IdleInv
    <2> QED BY <2>3, <2>7, <2>9
  <1>2. CASE TimerTick
    <2>1. flush["timer"] = <<>>
      BY <1>2, <1>t DEF TimerTick, IdleInv
    <2>2. /\ flush' \in [Flushers -> Seq(Records)] /\ flush'["timer"] = buffer
          /\ \A g \in Flushers : g # "timer" => flush'[g] = flush[g]
          /\ buffer' = <<>>
      BY <1>2, <1>t DEF TimerTick, Drain, CollectorTypeOK
    <2>3. loop' = "flush" /\ UNCHANGED <<recorded, threshold, phase, stored, dropped, cut, unsure, failures>>
      BY <1>2 DEF TimerTick
    <2>4. DrainView("timer")
      BY <2>1, <2>2, <2>3 DEF DrainView
    <2>5. CollectorTypeOK'
      BY <1>e, <2>2, <2>3 DEF CollectorTypeOK
    <2>6. IdleInv'
      BY <1>t, <2>2, <2>3, IdleNames
    <2> QED BY <1>t, <2>4, <2>5, <2>6
  <1>3. CASE ThresholdStart
    <2>1. flush["threshold"] = <<>>
      BY <1>3, <1>t DEF ThresholdStart, IdleInv
    <2>2. /\ flush' \in [Flushers -> Seq(Records)] /\ flush'["threshold"] = buffer
          /\ \A g \in Flushers : g # "threshold" => flush'[g] = flush[g]
          /\ buffer' = <<>>
      BY <1>3, <1>t DEF ThresholdStart, Drain, CollectorTypeOK
    <2>3. UNCHANGED <<recorded, loop, stored, dropped, cut, unsure, failures>>
      BY <1>3 DEF ThresholdStart
    <2>4. /\ phase' \in {"running", "await", "drain", "final", "stopped"}
          /\ phase' = "final" <=> phase = "final"
          /\ threshold' \in {"done", "flush"} /\ (threshold' # "flush" => buffer = <<>>)
      BY <1>3 DEF ThresholdStart, Awaited, CollectorTypeOK
    <2>5. DrainView("threshold")
      BY <2>1, <2>2, <2>3 DEF DrainView
    <2>6. CollectorTypeOK'
      BY <1>e, <2>2, <2>3, <2>4 DEF CollectorTypeOK
    <2>7. IdleInv'
      BY <2>2, <2>3, <2>4 DEF IdleInv, Flushing, Flushers
    <2> QED BY <1>t, <2>5, <2>6, <2>7
  <1>4. CASE FinalFlush
    <2>1. flush["final"] = <<>>
      BY <1>4, <1>t DEF FinalFlush, IdleInv
    <2>2. /\ flush' \in [Flushers -> Seq(Records)] /\ flush'["final"] = buffer
          /\ \A g \in Flushers : g # "final" => flush'[g] = flush[g]
          /\ buffer' = <<>>
      BY <1>4, <1>t DEF FinalFlush, Drain, CollectorTypeOK
    <2>3. /\ UNCHANGED <<recorded, loop, threshold, stored, dropped, cut, unsure, failures>>
          /\ phase' = IF buffer = <<>> THEN "stopped" ELSE "final"
      BY <1>4 DEF FinalFlush
    <2>5. DrainView("final")
      BY <2>1, <2>2, <2>3 DEF DrainView
    <2>6. CollectorTypeOK'
      BY <1>e, <2>2, <2>3 DEF CollectorTypeOK
    <2>7. IdleInv'
      BY <1>t, <2>2, <2>3, IdleNames
    <2> QED BY <1>t, <2>5, <2>6, <2>7
  <1>5. CASE Shutdown
    <2>1. /\ UNCHANGED <<recorded, buffer, threshold, dropped, unsure, failures>>
          /\ loop' = "cancelled" /\ phase' \in {"drain", "await"} /\ phase = "running"
          /\ cut' = cut \cup Held(flush["timer"]) /\ stored' \in {stored, Inserted("timer")}
      BY <1>5 DEF Shutdown
    <2>2. /\ flush' \in [Flushers -> Seq(Records)] /\ flush'["timer"] = <<>>
          /\ \A g \in Flushers : g # "timer" => flush'[g] = flush[g]
      BY <1>5, <1>t, <1>e DEF Shutdown, CollectorTypeOK
    <2>3. CommitView("timer")
      BY <2>1, <2>2 DEF CommitView
    <2>4. Inserted("timer") \in [Records -> Nat] /\ Held(flush["timer"]) \subseteq Records
      <3>1. flush["timer"] \in Seq(Records)
        BY <1>t DEF CollectorTypeOK
      <3> QED BY <3>1, <1>t, InsertedFacts, HeldFacts
    <2>5. CollectorTypeOK'
      BY <2>1, <2>2, <2>4 DEF CollectorTypeOK
    <2>6. IdleInv'
      BY <2>1, <2>2 DEF IdleInv, Flushing, Flushers
    <2> QED BY <1>t, <2>3, <2>5, <2>6
  <1>6. ASSUME NEW f \in Flushers, CommitBatch(f)
        PROVE  CollectorTypeOK' /\ IdleInv' /\ CommitView(f)
    <2>1. /\ UNCHANGED <<recorded, buffer, dropped, cut, unsure, failures>>
          /\ stored' = Inserted(f) /\ Finished(f)
      BY <1>6 DEF CommitBatch
    <2>2. Inserted(f) \in [Records -> Nat]
      BY InsertedFacts
    <2>3. CollectorTypeOK'
      BY <2>1, <2>2, FinishedFacts DEF CollectorTypeOK
    <2>4. CommitView(f)
      BY <2>1, FinishedFacts DEF CommitView
    <2>5. IdleInv'
      BY <2>1, FinishedFacts DEF IdleInv, Flushing, Flushers
    <2> QED BY <2>3, <2>4, <2>5
  <1>7. ASSUME NEW f \in Flushers, Requeue(f)
        PROVE  CollectorTypeOK' /\ IdleInv' /\ RequeueView(f)
    <2>1. buffer' \in Seq(Records) /\ dropped' \subseteq Records /\ RequeueView(f)
      BY <1>7, RequeueFacts
    <2>2. Finished(f) /\ UNCHANGED <<recorded, cut>> /\ failures < MaxFailures /\ failures' = failures + 1
          /\ (UNCHANGED <<stored, unsure>> \/ (stored' = Inserted(f) /\ unsure' = unsure \cup Held(flush[f])))
      BY <1>7 DEF Requeue
    <2>3. Inserted(f) \in [Records -> Nat] /\ Held(flush[f]) \subseteq Records
      <3>1. flush[f] \in Seq(Records)
        BY DEF CollectorTypeOK
      <3> QED BY <3>1, InsertedFacts, HeldFacts
    <2>4. stored' \in [Records -> Nat] /\ unsure' \subseteq Records
      BY <2>2, <2>3 DEF CollectorTypeOK
    <2>5. failures' \in 0 .. MaxFailures
      BY <2>2, CollectorAssumption DEF CollectorTypeOK
    <2>6. CollectorTypeOK'
      BY <2>1, <2>2, <2>4, <2>5, FinishedFacts DEF CollectorTypeOK
    <2>7. IdleInv'
      BY <2>2, FinishedFacts DEF IdleInv, Flushing, Flushers
    <2> QED BY <2>1, <2>6, <2>7
  <1> QED
    BY <1>1, <1>2, <1>3, <1>4, <1>5, <1>6, <1>7 DEF CollectorStep

-------------------------------------------------------------------------------
(* The events in memory.                                                   *)

\* The lists by name.
LEMMA SpotFacts ==
    /\ Spots = {"buffer"} \cup Flushers /\ "buffer" \notin Flushers
    /\ At("buffer") = buffer /\ \A f \in Flushers : At(f) = flush[f]
    /\ At("buffer")' = buffer' /\ \A f \in Flushers : At(f)' = flush'[f]
  BY FlusherFacts DEF Spots, At

\* ApartInv in terms of what the lists hold.
HeldApart ==
    /\ \A p \in Spots : Distinct(At(p)) /\ \A e \in Held(At(p)) : e <= recorded
    /\ \A p, q \in Spots : p # q => Held(At(p)) \cap Held(At(q)) = {}

\* The two forms are the same.
LEMMA ApartHeld == (ApartInv <=> HeldApart) /\ (ApartInv' <=> HeldApart')
  <1>1. \A p, q \in Spots : Apart(At(p), At(q)) <=> Held(At(p)) \cap Held(At(q)) = {}
    BY ApartIsDisjoint
  <1>2. \A p \in Spots : (\A e \in Held(At(p)) : e <= recorded) <=> \A n \in DOMAIN At(p) : At(p)[n] <= recorded
    BY DEF Held
  <1>3. \A p, q \in Spots : Apart(At(p)', At(q)') <=> Held(At(p)') \cap Held(At(q)') = {}
    BY ApartIsDisjoint
  <1>4. \A p \in Spots : (\A e \in Held(At(p)') : e <= recorded') <=> \A n \in DOMAIN At(p)' : At(p)'[n] <= recorded'
    BY DEF Held
  <1>5. ApartInv <=> HeldApart
    BY <1>1, <1>2 DEF ApartInv, HeldApart
  <1>6. ApartInv' <=> HeldApart'
    BY <1>3, <1>4 DEF ApartInv, HeldApart
  <1> QED BY <1>5, <1>6

\* The lists that a drain leaves.
LEMMA DrainKeeps ==
    ASSUME CollectorInv, NEW f \in Flushers, DrainView(f)
    PROVE  ApartInv' /\ LedgerInv'
  <1>1. HeldApart
    BY ApartHeld DEF CollectorInv
  <1>2. /\ At("buffer")' = <<>> /\ At(f)' = buffer
        /\ \A p \in Spots \ {"buffer", f} : At(p)' = At(p)
        /\ At("buffer") = buffer /\ At(f) = <<>>
    BY SpotFacts DEF DrainView
  <1>3. f \in Spots /\ f # "buffer" /\ "buffer" \in Spots
    BY SpotFacts
  <1>4. UNCHANGED <<recorded, stored, dropped, cut, unsure>>
    BY DEF DrainView
  <1>5. /\ Held(At("buffer")') = {} /\ Held(At(f)') = Held(buffer)
        /\ \A p \in Spots \ {"buffer", f} : Held(At(p)') = Held(At(p))
        /\ Held(At(f)) = {} /\ Held(At("buffer")) = Held(buffer)
    BY <1>2, NothingHeld
  <1>6. \A p \in Spots : Distinct(At(p)')
    BY <1>1, <1>2, <1>3, NothingHeld DEF HeldApart
  <1>7. \A p \in Spots : \A e \in Held(At(p)') : e <= recorded'
    BY <1>1, <1>3, <1>4, <1>5 DEF HeldApart
  <1>8. \A p, q \in Spots : p # q => Held(At(p)') \cap Held(At(q)') = {}
    BY <1>1, <1>3, <1>5 DEF HeldApart
  <1>9. ApartInv'
    BY <1>6, <1>7, <1>8, ApartHeld DEF HeldApart
  <1>10. \A e : InMemory(e)' <=> InMemory(e)
    BY <1>3, <1>5 DEF InMemory
  <1>11. LedgerInv'
    BY <1>4, <1>10 DEF CollectorInv, LedgerInv
  <1> QED BY <1>9, <1>11

\* An event is recorded.
LEMMA RecordKeeps ==
    ASSUME CollectorInv, RecordView
    PROVE  ApartInv' /\ LedgerInv'
  <1> DEFINE new == recorded + 1
  <1>1. HeldApart
    BY ApartHeld DEF CollectorInv
  <1>2. /\ recorded \in Nat /\ new \in Records /\ recorded' = new /\ buffer \in Seq(Records)
        /\ buffer' = Append(buffer, new)
        /\ UNCHANGED <<flush, stored, dropped, cut, unsure>>
    BY CollectorAssumption DEF RecordView, CollectorInv, CollectorTypeOK
  <1>3. \A e \in Records : e \in Nat
    BY DEF Records
  <1>4. ~(new <= recorded)
    BY <1>2
  <1>5. new \notin Held(buffer) /\ Distinct(buffer)
    BY <1>1, <1>4, SpotFacts DEF HeldApart
  <1>6. Distinct(buffer') /\ Held(buffer') = Held(buffer) \cup {new}
    BY <1>2, <1>5, AppendFacts
  <1>7. /\ At("buffer")' = buffer' /\ At("buffer") = buffer
        /\ \A p \in Spots \ {"buffer"} : At(p)' = At(p)
    BY <1>2, SpotFacts
  <1> HIDE DEF new
  <1>8. /\ \A p \in Spots \ {"buffer"} : Held(At(p)') = Held(At(p))
        /\ Held(At("buffer")') = Held(At("buffer")) \cup {new}
    BY <1>6, <1>7
  <1>9. \A p \in Spots : Distinct(At(p)')
    BY <1>1, <1>6, <1>7 DEF HeldApart
  <1>10. \A p \in Spots : \A e \in Held(At(p)) : e <= recorded' /\ e # new
    <2>1. \A p \in Spots : \A e \in Held(At(p)) : e \in Records /\ e <= recorded
      <3>1. \A p \in Spots : At(p) \in Seq(Records)
        BY SpotFacts DEF CollectorInv, CollectorTypeOK
      <3> QED BY <3>1, <1>1, HeldFacts DEF HeldApart
    <2>2. \A e \in Nat : e <= recorded => e <= recorded' /\ e # new
      BY <1>2 DEF new
    <2> QED BY <2>1, <2>2, <1>3
  <1>11. \A p \in Spots : \A e \in Held(At(p)') : e <= recorded'
    <2>1. new <= recorded'
      BY <1>2, <1>3
    <2> QED BY <1>8, <1>10, <2>1
  <1>12. \A p, q \in Spots : p # q => Held(At(p)') \cap Held(At(q)') = {}
    BY <1>1, <1>8, <1>10 DEF HeldApart
  <1>13. ApartInv'
    BY <1>9, <1>11, <1>12, ApartHeld DEF HeldApart
  <1>14. /\ \A e \in Records : e # new => (InMemory(e)' <=> InMemory(e))
         /\ \A e \in Records : e = new => InMemory(e)'
    BY <1>8, SpotFacts DEF InMemory
  <1>15. \A e \in Records : /\ e # new => (e <= recorded' <=> e <= recorded) /\ (e > recorded' <=> e > recorded)
                            /\ new > recorded /\ new <= recorded' /\ ~(new > recorded')
    BY <1>2, <1>3 DEF new
  <1>16. LedgerInv'
    BY <1>2, <1>14, <1>15 DEF CollectorInv, LedgerInv
  <1> QED BY <1>13, <1>16

\* A flush is written, or cancelled.
LEMMA CommitKeeps ==
    ASSUME CollectorInv, NEW f \in Flushers, CommitView(f)
    PROVE  ApartInv' /\ LedgerInv'
  <1>1. HeldApart
    BY ApartHeld DEF CollectorInv
  <1>2. /\ At(f)' = <<>> /\ f \in Spots /\ At(f) = flush[f]
        /\ \A p \in Spots \ {f} : At(p)' = At(p)
    BY SpotFacts DEF CommitView
  <1>3. UNCHANGED <<recorded, dropped, unsure>>
    BY DEF CommitView
  <1>4. Held(At(f)') = {} /\ \A p \in Spots \ {f} : Held(At(p)') = Held(At(p))
    BY <1>2, NothingHeld
  <1>5. \A p \in Spots : Distinct(At(p)')
    BY <1>1, <1>2, NothingHeld DEF HeldApart
  <1>6. \A p \in Spots : \A e \in Held(At(p)') : e <= recorded'
    BY <1>1, <1>3, <1>4 DEF HeldApart
  <1>7. \A p, q \in Spots : p # q => Held(At(p)') \cap Held(At(q)') = {}
    BY <1>1, <1>4 DEF HeldApart
  <1>8. ApartInv'
    BY <1>5, <1>6, <1>7, ApartHeld DEF HeldApart
  <1>9. \A e \in Records : IF e \in Held(flush[f]) THEN InMemory(e) /\ ~InMemory(e)' /\ e <= recorded
                                                   ELSE InMemory(e)' <=> InMemory(e)
    BY <1>1, <1>2, <1>4 DEF HeldApart, InMemory
  <1>10. \A e \in Records : Inserted(f)[e] = IF e \in Held(flush[f]) THEN stored[e] + 1 ELSE stored[e]
    BY InsertedFacts DEF CollectorInv
  <1>11. \A e \in Records : e <= recorded => ~(e > recorded)
    BY DEF CollectorInv, CollectorTypeOK, Records
  <1>12. CASE stored' = Inserted(f) /\ UNCHANGED cut
    <2>1. LedgerInv'
      BY <1>3, <1>9, <1>10, <1>11, <1>12 DEF CollectorInv, LedgerInv
    <2> QED BY <1>8, <2>1
  <1>13. CASE stored' \in {stored, Inserted(f)} /\ cut' = cut \cup Held(flush[f])
    <2>1. \A e \in Records : e \notin Held(flush[f]) => stored'[e] = stored[e]
      BY <1>10, <1>13
    <2>2. LedgerInv'
      BY <1>3, <1>9, <1>11, <1>13, <2>1 DEF CollectorInv, LedgerInv
    <2> QED BY <1>8, <2>2
  <1> QED BY <1>12, <1>13 DEF CommitView

\* A flush fails and is put back.
LEMMA RequeueKeeps ==
    ASSUME CollectorInv, NEW f \in Flushers, RequeueView(f)
    PROVE  ApartInv' /\ LedgerInv'
  <1>1. HeldApart
    BY ApartHeld DEF CollectorInv
  <1>2. /\ At(f)' = <<>> /\ f \in Spots /\ At(f) = flush[f] /\ f # "buffer"
        /\ \A p \in Spots \ {f, "buffer"} : At(p)' = At(p)
        /\ At("buffer") = buffer /\ At("buffer")' = buffer' /\ "buffer" \in Spots
    BY SpotFacts DEF RequeueView
  <1>3. UNCHANGED <<recorded, cut>> /\ Distinct(buffer')
    BY DEF RequeueView
  <1>4. PICK gone \in SUBSET Records :
            /\ gone \cup Held(buffer') = Held(flush[f]) \cup Held(buffer)
            /\ gone \cap Held(buffer') = {}
            /\ dropped' = dropped \cup gone
    BY DEF RequeueView
  <1>5. /\ Held(At(f)') = {} /\ \A p \in Spots \ {f, "buffer"} : Held(At(p)') = Held(At(p))
        /\ gone \cup Held(At("buffer")') = Held(At(f)) \cup Held(At("buffer"))
        /\ gone \cap Held(At("buffer")') = {}
    BY <1>2, <1>4, NothingHeld
  <1>6. \A p \in Spots : Distinct(At(p)')
    BY <1>1, <1>2, <1>3, NothingHeld DEF HeldApart
  <1>7. \A p \in Spots : \A e \in Held(At(p)') : e <= recorded'
    BY <1>1, <1>2, <1>3, <1>5 DEF HeldApart
  <1>8. \A p, q \in Spots : p # q => Held(At(p)') \cap Held(At(q)') = {}
    <2>1. \A p \in Spots : p # "buffer" => Held(At(p)') \cap Held(At("buffer")') = {}
      BY <1>1, <1>2, <1>5 DEF HeldApart
    <2>2. \A p, q \in Spots \ {"buffer"} : p # q => Held(At(p)') \cap Held(At(q)') = {}
      BY <1>1, <1>5 DEF HeldApart
    <2> QED BY <2>1, <2>2
  <1>9. ApartInv'
    BY <1>6, <1>7, <1>8, ApartHeld DEF HeldApart
  <1>10. \A e \in Records : e \notin gone => (InMemory(e)' <=> InMemory(e))
    BY <1>2, <1>5 DEF InMemory
  <1>11. \A e \in gone : InMemory(e) /\ ~InMemory(e)'
    <2>1. \A e \in gone : \A p \in Spots \ {f, "buffer"} : e \notin Held(At(p))
      BY <1>1, <1>2, <1>5 DEF HeldApart
    <2> QED BY <2>1, <1>2, <1>5 DEF InMemory
  <1>12. \A e \in gone \cup Held(flush[f]) : e <= recorded
    BY <1>1, <1>2, <1>4 DEF HeldApart
  <1>13. \A e \in Records : e <= recorded => ~(e > recorded)
    BY DEF CollectorInv, CollectorTypeOK, Records
  <1>14. \A e \in Records : \/ stored'[e] = stored[e] /\ (e \in unsure' <=> e \in unsure)
                            \/ e \in Held(flush[f]) /\ e \in unsure'
    <2>1. CASE UNCHANGED <<stored, unsure>>
      BY <2>1
    <2>2. CASE stored' = Inserted(f) /\ unsure' = unsure \cup Held(flush[f])
      BY <2>2, InsertedFacts DEF CollectorInv
    <2> QED BY <2>1, <2>2 DEF RequeueView
  <1>15. LedgerInv'
    <2> SUFFICES ASSUME NEW e \in Records
                 PROVE  /\ e > recorded => stored'[e] = 0 /\ e \notin dropped' \cup cut \cup unsure'
                        /\ e <= recorded /\ e \notin unsure' \cup cut =>
                              \/ InMemory(e)' /\ stored'[e] = 0 /\ e \notin dropped'
                              \/ ~InMemory(e)' /\ stored'[e] = 1 /\ e \notin dropped'
                              \/ ~InMemory(e)' /\ stored'[e] = 0 /\ e \in dropped'
      BY <1>3 DEF LedgerInv
    <2>1. /\ e > recorded => stored[e] = 0 /\ e \notin dropped \cup cut \cup unsure
          /\ e <= recorded /\ e \notin unsure \cup cut =>
                \/ InMemory(e) /\ stored[e] = 0 /\ e \notin dropped
                \/ ~InMemory(e) /\ stored[e] = 1 /\ e \notin dropped
                \/ ~InMemory(e) /\ stored[e] = 0 /\ e \in dropped
      BY DEF CollectorInv, LedgerInv
    <2> QED BY <2>1, <1>4, <1>10, <1>11, <1>12, <1>13, <1>14
  <1> QED BY <1>9, <1>15

\* Every step of the collector keeps its invariant.
LEMMA CollectorKeeps ==
    ASSUME CollectorInv, CollectorStep \/ Record \/ UNCHANGED telemetry
    PROVE  CollectorInv'
  <1>1. CASE CollectorStep \/ Record
    BY <1>1, CollectorViews, DrainKeeps, RecordKeeps, CommitKeeps, RequeueKeeps DEF CollectorInv
  <1>2. CASE UNCHANGED telemetry
    <2>1. \A p \in Spots : At(p)' = At(p)
      BY <1>2 DEF At, telemetry
    <2>2. \A f \in Flushers : Flushing(f)' <=> Flushing(f)
      BY <1>2 DEF Flushing, telemetry
    <2>3. CollectorTypeOK'
      BY <1>2 DEF CollectorInv, CollectorTypeOK, telemetry
    <2>4. IdleInv'
      BY <1>2, <2>2 DEF CollectorInv, IdleInv, telemetry
    <2>5. ApartInv'
      BY <1>2, <2>1 DEF CollectorInv, ApartInv, telemetry
    <2>6. LedgerInv'
      BY <1>2, <2>1 DEF CollectorInv, LedgerInv, InMemory, telemetry
    <2> QED BY <2>3, <2>4, <2>5, <2>6 DEF CollectorInv
  <1> QED BY <1>1, <1>2

\* The collector starts empty.
LEMMA CollectorStart == CollectorInit => CollectorInv
  <1> SUFFICES ASSUME CollectorInit PROVE CollectorInv
    OBVIOUS
  <1>1. \A p \in Spots : At(p) = <<>>
    BY SpotFacts DEF CollectorInit
  <1>2. CollectorTypeOK
    BY NothingHeld, CollectorAssumption DEF CollectorInit, CollectorTypeOK
  <1>3. IdleInv
    BY DEF CollectorInit, IdleInv
  <1>4. ApartInv
    BY <1>1, NothingHeld DEF ApartInv, Apart
  <1>5. LedgerInv
    BY DEF CollectorInit, LedgerInv, Records
  <1> QED BY <1>2, <1>3, <1>4, <1>5 DEF CollectorInv

-------------------------------------------------------------------------------
(* Places, counted.                                                        *)

\* An event in memory is in one place, and any other in none.
LEMMA PlacesCount ==
    ASSUME CollectorInv, NEW e
    PROVE  Cardinality(Places(e)) = IF InMemory(e) THEN 1 ELSE 0
  <1>1. \A pl : pl \in Places(e) <=> \E p \in Spots : \E n \in DOMAIN At(p) : At(p)[n] = e /\ pl = <<p, n>>
    <2>1. Places(e) = {<<"buffer", n>> : n \in {m \in DOMAIN buffer : buffer[m] = e}}
                      \cup UNION {{<<f, n>> : n \in {m \in DOMAIN flush[f] : flush[f][m] = e}} : f \in Flushers}
      BY DEF Places
    <2>2. \A pl : pl \in {<<"buffer", n>> : n \in {m \in DOMAIN buffer : buffer[m] = e}}
                     <=> \E n \in DOMAIN At("buffer") : At("buffer")[n] = e /\ pl = <<"buffer", n>>
      BY SpotFacts
    <2>3. \A f \in Flushers : \A pl : pl \in {<<f, n>> : n \in {m \in DOMAIN flush[f] : flush[f][m] = e}}
                     <=> \E n \in DOMAIN At(f) : At(f)[n] = e /\ pl = <<f, n>>
      BY SpotFacts
    <2>4. \A pl : pl \in UNION {{<<f, n>> : n \in {m \in DOMAIN flush[f] : flush[f][m] = e}} : f \in Flushers}
                     <=> \E f \in Flushers : pl \in {<<f, n>> : n \in {m \in DOMAIN flush[f] : flush[f][m] = e}}
      OBVIOUS
    <2> DEFINE Here(p, pl) == \E n \in DOMAIN At(p) : At(p)[n] = e /\ pl = <<p, n>>
    <2>5. \A pl : pl \in Places(e) <=> Here("buffer", pl) \/ \E f \in Flushers : Here(f, pl)
      BY <2>1, <2>2, <2>3, <2>4
    <2>6. \A pl : (\E p \in Spots : Here(p, pl)) <=> Here("buffer", pl) \/ \E f \in Flushers : Here(f, pl)
      <3> HIDE DEF Here
      <3> QED BY SpotFacts
    <2> QED BY <2>5, <2>6
  <1>2. CASE ~InMemory(e)
    <2>1. \A p \in Spots : \A n \in DOMAIN At(p) : At(p)[n] # e
      BY <1>2 DEF InMemory, Held
    <2>2. Places(e) = {}
      BY <1>1, <2>1
    <2> QED BY <1>2, <2>2, FS_EmptySet
  <1>3. CASE InMemory(e)
    <2>1. PICK p \in Spots : e \in Held(At(p))
      BY <1>3 DEF InMemory
    <2>2. PICK n \in DOMAIN At(p) : At(p)[n] = e
      BY <2>1 DEF Held
    <2>3. \A q \in Spots : \A m \in DOMAIN At(q) : At(q)[m] = e => q = p /\ m = n
      BY <2>2 DEF CollectorInv, ApartInv, Apart, Distinct
    <2>4. \A pl : pl \in Places(e) <=> pl = <<p, n>>
      BY <1>1, <2>2, <2>3
    <2>5. Places(e) = {<<p, n>>}
      BY <2>4
    <2> QED BY <1>3, <2>5, FS_Singleton
  <1> QED BY <1>2, <1>3

\* The invariant is the account.
LEMMA LedgerAccounts == CollectorInv => Accounted
  <1> SUFFICES ASSUME CollectorInv, NEW e \in (1 .. recorded) \ (unsure \cup cut)
               PROVE  Cardinality(Places(e)) + stored[e] + (IF e \in dropped THEN 1 ELSE 0) = 1
    BY DEF Accounted
  <1>1. e \in Records /\ e <= recorded
    BY CollectorAssumption DEF CollectorInv, CollectorTypeOK, Records
  <1>2. \/ InMemory(e) /\ stored[e] = 0 /\ e \notin dropped
        \/ ~InMemory(e) /\ stored[e] = 1 /\ e \notin dropped
        \/ ~InMemory(e) /\ stored[e] = 0 /\ e \in dropped
    BY <1>1 DEF CollectorInv, LedgerInv
  <1>3. Cardinality(Places(e)) = IF InMemory(e) THEN 1 ELSE 0
    BY PlacesCount
  <1> QED BY <1>2, <1>3

\* A step of the process is a step of the collector, a record, or leaves it alone.
LEMMA CollectorInNext == [Next]_vars => CollectorStep \/ Record \/ UNCHANGED telemetry
  BY DEF Next, vars, BatchStep, Reply

\* Accounted for any number of callers and events, any cap and threshold: whatever the timer
\* loop, the threshold flush and shutdown's last flush do at once, and however often the
\* database raises, _flush and _requeue lose no event and write none twice, but for those
\* whose transaction was cancelled or raised after it took effect.
THEOREM EventsAccounted == Spec => []Accounted
  <1>1. Init => CollectorInv
    BY CollectorStart DEF Init
  <1>2. CollectorInv /\ [Next]_vars => CollectorInv'
    BY CollectorInNext, CollectorKeeps
  <1>3. CollectorInv => Accounted
    BY LedgerAccounts
  <1> QED BY <1>1, <1>2, <1>3, PTL DEF Spec

-------------------------------------------------------------------------------
(* The evaluator.                                                          *)

OneFilterOnly(b) == \A c, d \in Elements(b.bucket) : caller[c].filter = caller[d].filter

\* A batch has something to do, and what it asks the LLM about is of one filter.
BucketInv == \A b \in batches : (b.todo # <<>> \/ b.bucket # <<>>) /\ OneFilterOnly(b)

EvaluatorInv == EvaluatorTypeOK /\ BucketInv /\ OnlyDecisions

\* No step changes what a caller asks.
SameQuestions ==
    /\ caller' \in [Callers -> Caller]
    /\ \A c \in Callers : caller'[c].filter = caller[c].filter /\ caller'[c].summary = caller[c].summary

\* A step refuses nobody, or for a decision of the LLM, and caches nothing else.
Justified ==
    /\ said \subseteq said'
    /\ \A c \in Callers : caller'[c].state = "no" => caller[c].state = "no" \/ <<Key(c), "no">> \in said'
    /\ \A k \in DOMAIN cache' : (k \in DOMAIN cache /\ cache'[k] = cache[k]) \/ <<k, cache'[k]>> \in said'

\* A batch that a step leaves is an old one, or it has something to do, for one filter.
BatchesKept ==
    /\ batches' \subseteq Batch
    /\ \A b \in batches' : b \in batches \/ ((b.todo # <<>> \/ b.bucket # <<>>) /\ OneFilterOnly(b))

\* Such a step keeps the invariants.
LEMMA ViewKeeps ==
    ASSUME EvaluatorInv, SameQuestions, Justified, BatchesKept
    PROVE  BucketInv' /\ OnlyDecisions'
  <1>1. batches' \subseteq Batch /\ \A b \in Batch : Elements(b.bucket) \subseteq Callers
    <2>1. \A b \in Batch : b.bucket \in Seq(Callers)
      BY DEF Batch
    <2>2. \A s \in Seq(Callers) : Elements(s) \subseteq Callers
      BY LenProperties DEF Elements
    <2> QED BY <2>1, <2>2 DEF BatchesKept
  <1>2. \A b \in batches' : (b.todo # <<>> \/ b.bucket # <<>>) /\ OneFilterOnly(b)
    BY DEF BatchesKept, EvaluatorInv, BucketInv
  <1>3. \A b \in batches' : \A c, d \in Elements(b.bucket) : caller'[c].filter = caller'[d].filter
    BY <1>1, <1>2 DEF OneFilterOnly, SameQuestions
  <1>4. BucketInv'
    BY <1>2, <1>3 DEF BucketInv, OneFilterOnly, Elements
  <1>5. \A c \in Callers : Key(c)' = Key(c)
    BY DEF SameQuestions, Key
  <1>6. \A c \in Callers : caller'[c].state = "no" => <<Key(c)', "no">> \in said'
    BY <1>5 DEF Justified, EvaluatorInv, OnlyDecisions
  <1>7. \A k \in DOMAIN cache' : <<k, cache'[k]>> \in said'
    BY DEF Justified, EvaluatorInv, OnlyDecisions
  <1>8. OnlyDecisions'
    BY <1>6, <1>7 DEF OnlyDecisions
  <1> QED BY <1>4, <1>8

\* A list of callers holds callers.
LEMMA ElementFacts ==
    ASSUME NEW s \in Seq(Callers)
    PROVE  /\ Elements(s) \subseteq Callers
           /\ s # <<>> => s[1] \in Elements(s)
           /\ Len(s) \in Nat /\ DOMAIN s = 1 .. Len(s)
           /\ IsFiniteSet(Elements(s))
  <1>1. /\ Len(s) \in Nat /\ DOMAIN s = 1 .. Len(s) /\ s \in [1 .. Len(s) -> Callers]
    BY LenProperties
  <1>2. s # <<>> => Len(s) \in Nat \ {0}
    BY EmptySeq
  <1>3. s # <<>> => 1 \in DOMAIN s
    BY <1>1, <1>2
  <1>4. s \in Surjection(1 .. Len(s), Elements(s))
    BY <1>1 DEF Surjection, Elements
  <1>5. IsFiniteSet(1 .. Len(s))
    BY <1>1, FS_Interval
  <1>6. IsFiniteSet(Elements(s))
    BY <1>4, <1>5, FS_Surjection
  <1> QED
    BY <1>1, <1>3, <1>6 DEF Elements

\* The charge of a bucket is a number.
LEMMA SlotsFacts ==
    ASSUME caller \in [Callers -> Caller], NEW s \in Seq(Callers)
    PROVE  Cardinality(Slots(s)) \in Nat
  <1> DEFINE f == [c \in Elements(s) |-> caller[c].summary]
  <1>1. f \in Surjection(Elements(s), Slots(s))
    BY DEF Surjection, Slots
  <1>2. IsFiniteSet(Slots(s))
    BY <1>1, ElementFacts, FS_Surjection
  <1> QED BY <1>2, FS_CardinalityType

\* set_result.
LEMMA AnsweredFacts ==
    ASSUME caller \in [Callers -> Caller], NEW cs, NEW answer \in [Callers -> Decisions],
           caller' = Answered(cs, answer)
    PROVE  /\ SameQuestions
           /\ \A c \in Callers : caller'[c].state = IF c \in cs /\ caller[c].state = "waiting"
                                                    THEN answer[c] ELSE caller[c].state
  <1>1. \A c \in Callers : caller'[c] = IF c \in cs /\ caller[c].state = "waiting"
                                        THEN [caller[c] EXCEPT !.state = answer[c]] ELSE caller[c]
    BY DEF Answered
  <1>2. \A c \in Callers : /\ caller[c] \in Caller /\ answer[c] \in {"yes", "no"}
                           /\ [caller[c] EXCEPT !.state = answer[c]] \in Caller
                           /\ [caller[c] EXCEPT !.state = answer[c]].state = answer[c]
                           /\ [caller[c] EXCEPT !.state = answer[c]].filter = caller[c].filter
                           /\ [caller[c] EXCEPT !.state = answer[c]].summary = caller[c].summary
    BY DEF Caller, Decisions
  <1>3. caller' \in [Callers -> Caller]
    BY <1>1, <1>2 DEF Answered
  <1> QED BY <1>1, <1>2, <1>3 DEF SameQuestions

\* One caller's state changes.
LEMMA StateFacts ==
    ASSUME caller \in [Callers -> Caller], NEW c \in Callers,
           NEW st \in {"idle", "waiting", "yes", "no", "left"},
           caller' = [caller EXCEPT ![c].state = st]
    PROVE  /\ SameQuestions /\ caller'[c].state = st
           /\ \A d \in Callers : d # c => caller'[d].state = caller[d].state
  BY DEF SameQuestions, Caller

\* What stands for a batch after a step of it.
LEMMA ReplacedFacts ==
    ASSUME EvaluatorInv, NEW b, NEW new \in Batch, Replaced(b, new), OneFilterOnly(new)
    PROVE  BatchesKept
  BY DEF Replaced, EvaluatorInv, EvaluatorTypeOK, BatchesKept

\* Batches of one's own making.
LEMMA BatchedFacts ==
    ASSUME NEW items \in Seq(Callers)
    PROVE  /\ Batched(items) \in Batch /\ Batched(items).todo = items /\ Batched(items).bucket = <<>>
           /\ OneFilterOnly(Batched(items))
  <1>1. <<>> \in Seq(Callers) /\ Elements(<<>>) = {}
    BY NothingHeld DEF Elements
  <1> QED BY <1>1 DEF Batched, Batch, OneFilterOnly

\* The parts that a batch is split into.
LEMMA ListsFacts ==
    ASSUME NEW items \in Seq(Callers), NEW list \in Lists(items)
    PROVE  list \in Seq(Callers)
  <1>1. PICK n \in 0 .. Len(items) : list \in [1 .. n -> Elements(items)]
    BY DEF Lists, Elements
  <1>2. n \in Nat /\ Elements(items) \subseteq Callers
    BY ElementFacts
  <1>3. list \in Seq(Elements(items))
    BY <1>1, <1>2
  <1> QED BY <1>2, <1>3, SeqMonotonic

\* What every step of the evaluator does.
EvaluatorView == EvaluatorTypeOK' /\ SameQuestions /\ Justified /\ BatchesKept

\* Steps that leave the batches alone.
LEMMA SameBatches ==
    ASSUME EvaluatorInv, UNCHANGED batches
    PROVE  BatchesKept
  BY DEF EvaluatorInv, EvaluatorTypeOK, BatchesKept

\* Steps that leave the callers alone.
LEMMA SameCallers ==
    ASSUME EvaluatorInv, UNCHANGED caller
    PROVE  SameQuestions
  BY DEF EvaluatorInv, EvaluatorTypeOK, SameQuestions

\* evaluate, a caller that leaves, and the timer.
LEMMA CallerViews ==
    ASSUME EvaluatorInv,
           TimerFires \/ \E c \in Callers : EvaluateHit(c) \/ EvaluateMiss(c) \/ Leave(c)
    PROVE  EvaluatorView
  <1>0. /\ caller \in [Callers -> Caller] /\ queue \in Seq(Callers) /\ Len(queue) < BatchSize
        /\ batches \subseteq Batch /\ <<>> \in Seq(Callers) /\ Len(<<>>) = 0 /\ BatchSize \in Nat \ {0}
    BY EmptySeq, EvaluatorAssumption DEF EvaluatorInv, EvaluatorTypeOK
  <1>1. ASSUME NEW c \in Callers, EvaluateHit(c) PROVE EvaluatorView
    <2>1. /\ Key(c) \in DOMAIN cache /\ cache[Key(c)] \in Decisions
          /\ caller' = [caller EXCEPT ![c].state = cache[Key(c)]]
          /\ UNCHANGED <<queue, timer, batches, cache, spent, upsets, said>>
      BY <1>1 DEF EvaluateHit, EvaluatorInv, EvaluatorTypeOK
    <2>2. /\ SameQuestions /\ caller'[c].state = cache[Key(c)]
          /\ \A d \in Callers : d # c => caller'[d].state = caller[d].state
      BY <1>0, <2>1, StateFacts DEF Decisions
    <2>3. Justified
      BY <2>1, <2>2 DEF Justified, EvaluatorInv, OnlyDecisions
    <2>4. EvaluatorTypeOK'
      BY <2>1, <2>2 DEF SameQuestions, EvaluatorInv, EvaluatorTypeOK
    <2> QED BY <2>1, <2>2, <2>3, <2>4, SameBatches DEF EvaluatorView
  <1>2. ASSUME NEW c \in Callers, EvaluateMiss(c) PROVE EvaluatorView
    <2>1. /\ caller' = [caller EXCEPT ![c].state = "waiting"]
          /\ UNCHANGED <<cache, spent, upsets, said>>
      BY <1>2 DEF EvaluateMiss
    <2>2. /\ SameQuestions /\ caller'[c].state = "waiting"
          /\ \A d \in Callers : d # c => caller'[d].state = caller[d].state
      BY <1>0, <2>1, StateFacts
    <2>3. Justified
      BY <2>1, <2>2 DEF Justified
    <2>4. Append(queue, c) \in Seq(Callers) /\ Len(Append(queue, c)) = Len(queue) + 1 /\ Append(queue, c) # <<>>
      BY <1>0, AppendProperties
    <2>5. CASE Full(Len(queue) + 1)
      <3>1. batches' = batches \cup {Batched(Append(queue, c))} /\ queue' = <<>> /\ timer' = FALSE
        BY <1>2, <2>5 DEF EvaluateMiss
      <3>2. BatchesKept
        BY <1>0, <2>4, <3>1, BatchedFacts DEF BatchesKept
      <3>4. queue' \in Seq(Callers) /\ Len(queue') < BatchSize /\ timer' \in BOOLEAN
        <4>1. timer' \in BOOLEAN
          BY <3>1
        <4>2. queue' \in Seq(Callers) /\ Len(queue') = 0
          BY <1>0, <3>1
        <4>3. 0 < BatchSize
          BY <1>0
        <4> QED BY <4>1, <4>2, <4>3
      <3>3. EvaluatorTypeOK'
        BY <2>1, <2>2, <3>2, <3>4 DEF SameQuestions, BatchesKept, EvaluatorInv, EvaluatorTypeOK
      <3> QED BY <2>2, <2>3, <3>2, <3>3 DEF EvaluatorView
    <2>6. CASE ~Full(Len(queue) + 1)
      <3>1. batches' = batches /\ queue' = Append(queue, c) /\ timer' = TRUE
        BY <1>2, <2>6 DEF EvaluateMiss
      <3>2. Len(queue') < BatchSize
        <4>1. Len(queue) \in Nat
          BY <1>0, LenProperties
        <4> QED BY <1>0, <2>4, <2>6, <3>1, <4>1 DEF Full
      <3>3. EvaluatorTypeOK'
        BY <1>0, <2>1, <2>2, <2>4, <3>1, <3>2 DEF SameQuestions, EvaluatorInv, EvaluatorTypeOK
      <3> QED BY <2>2, <2>3, <3>1, <3>3, SameBatches DEF EvaluatorView
    <2> QED BY <2>5, <2>6
  <1>3. ASSUME NEW c \in Callers, Leave(c) PROVE EvaluatorView
    <2>1. /\ caller' = [caller EXCEPT ![c].state = "left"]
          /\ UNCHANGED <<queue, timer, batches, cache, spent, said>>
      BY <1>3 DEF Leave
    <2>2. /\ SameQuestions /\ caller'[c].state = "left"
          /\ \A d \in Callers : d # c => caller'[d].state = caller[d].state
      BY <1>0, <2>1, StateFacts
    <2>3. Justified
      BY <2>1, <2>2 DEF Justified
    <2>4. EvaluatorTypeOK'
      BY <2>1, <2>2 DEF SameQuestions, EvaluatorInv, EvaluatorTypeOK
    <2> QED BY <2>1, <2>2, <2>3, <2>4, SameBatches DEF EvaluatorView
  <1>4. ASSUME TimerFires PROVE EvaluatorView
    <2>1. /\ timer' = FALSE /\ queue' = <<>>
          /\ batches' = IF queue = <<>> THEN batches ELSE batches \cup {Batched(queue)}
          /\ UNCHANGED <<caller, cache, spent, upsets, said>>
      BY <1>4 DEF TimerFires
    <2>2. BatchesKept
      BY <1>0, <2>1, BatchedFacts DEF BatchesKept
    <2>3. Justified
      BY <2>1 DEF Justified
    <2>5. queue' \in Seq(Callers) /\ Len(queue') < BatchSize /\ timer' \in BOOLEAN
      <3>1. timer' \in BOOLEAN
        BY <2>1
      <3>2. queue' \in Seq(Callers) /\ Len(queue') = 0
        BY <1>0, <2>1
      <3>3. 0 < BatchSize
        BY <1>0
      <3> QED BY <3>1, <3>2, <3>3
    <2>4. EvaluatorTypeOK'
      BY <2>1, <2>2, <2>5 DEF BatchesKept, EvaluatorInv, EvaluatorTypeOK
    <2> QED BY <2>1, <2>2, <2>3, <2>4, SameCallers DEF EvaluatorView
  <1> QED BY <1>1, <1>2, <1>3, <1>4

\* The cache and the windows.
LEMMA WindowViews ==
    ASSUME EvaluatorInv, NewHour \/ \E k \in Keys : Expire(k)
    PROVE  EvaluatorView
  <1>1. ASSUME NEW k \in Keys, Expire(k) PROVE EvaluatorView
    <2>1. /\ cache' = [j \in DOMAIN cache \ {k} |-> cache[j]]
          /\ UNCHANGED <<caller, queue, timer, batches, spent, said>>
      BY <1>1 DEF Expire
    <2>2. DOMAIN cache' \subseteq DOMAIN cache /\ \A j \in DOMAIN cache' : cache'[j] = cache[j]
      BY <2>1
    <2>3. Justified
      BY <2>1, <2>2 DEF Justified
    <2>4. EvaluatorTypeOK'
      BY <2>1, <2>2 DEF EvaluatorInv, EvaluatorTypeOK
    <2> QED BY <2>1, <2>3, <2>4, SameBatches, SameCallers DEF EvaluatorView
  <1>2. ASSUME NewHour PROVE EvaluatorView
    <2>1. UNCHANGED <<caller, queue, timer, batches, cache, said>>
      BY <1>2 DEF NewHour
    <2>2. spent \in [space : Nat, filter : [Filters -> Nat]]
      BY DEF EvaluatorInv, EvaluatorTypeOK
    <2>3. spent' \in [space : Nat, filter : [Filters -> Nat]]
      <3>1. CASE spent' = [spent EXCEPT !.space = 0]
        BY <2>2, <3>1
      <3>2. ASSUME NEW f \in Filters, spent' = [spent EXCEPT !.filter[f] = 0]
            PROVE  spent' \in [space : Nat, filter : [Filters -> Nat]]
        BY <2>2, <3>2
      <3> QED BY <1>2, <3>1, <3>2 DEF NewHour
    <2>4. Justified
      BY <2>1 DEF Justified
    <2>5. EvaluatorTypeOK'
      BY <2>1, <2>3 DEF EvaluatorInv, EvaluatorTypeOK
    <2> QED BY <2>1, <2>4, <2>5, SameBatches, SameCallers DEF EvaluatorView
  <1> QED BY <1>1, <1>2

\* A batch, up to the LLM call and when the call fails.
LEMMA BucketViews ==
    ASSUME EvaluatorInv, NEW b \in batches, StartBucket(b) \/ LLMFails(b)
    PROVE  EvaluatorView
  <1>0. /\ caller \in [Callers -> Caller] /\ b \in Batch /\ b.todo \in Seq(Callers) /\ b.bucket \in Seq(Callers)
        /\ <<>> \in Seq(Callers) /\ Elements(<<>>) = {}
        /\ FailOpen \in [Callers -> Decisions] /\ \A c \in Callers : FailOpen[c] = "yes"
        /\ spent \in [space : Nat, filter : [Filters -> Nat]]
    BY NothingHeld DEF EvaluatorInv, EvaluatorTypeOK, Batch, FailOpen, Decisions, Elements
  <1>1. ASSUME NEW cs, caller' = Answered(cs, FailOpen), UNCHANGED <<cache, said>>
        PROVE  SameQuestions /\ Justified
    BY <1>0, <1>1, AnsweredFacts DEF Justified
  <1>2. ASSUME StartBucket(b) PROVE EvaluatorView
    <2> DEFINE f == caller[b.todo[1]].filter
    <2>1. PICK next \in [todo : Lists(b.todo), bucket : Lists(b.todo)] :
             /\ NextBucket(b, next)
             /\ \/ /\ Replaced(b, next) /\ UNCHANGED caller
                   /\ spent' = [spent EXCEPT !.space = @ + (1 + Cardinality(Slots(next.bucket))),
                                             !.filter[f] = @ + (1 + Cardinality(Slots(next.bucket)))]
                \/ /\ Replaced(b, [next EXCEPT !.bucket = <<>>])
                   /\ caller' = Answered(Elements(next.bucket), FailOpen)
                   /\ UNCHANGED spent
      BY <1>2 DEF StartBucket
    <2>2. b.bucket = <<>> /\ UNCHANGED <<queue, timer, cache, upsets, said>>
      BY <1>2 DEF StartBucket
    <2>3. next.todo \in Seq(Callers) /\ next.bucket \in Seq(Callers)
      BY <1>0, <2>1, ListsFacts
    <2>4. next \in Batch /\ [next EXCEPT !.bucket = <<>>] \in Batch /\ [next EXCEPT !.bucket = <<>>].bucket = <<>>
      BY <1>0, <2>1, <2>3 DEF Batch
    <2>5. OneFilterOnly(next) /\ OneFilterOnly([next EXCEPT !.bucket = <<>>])
      <3>1. \A c \in Elements(next.bucket) : caller[c].filter = f
        BY <2>1 DEF NextBucket, InOrder, Elements
      <3> QED BY <1>0, <2>4, <3>1 DEF OneFilterOnly
    <2>6. f \in Filters
      <3>1. b.todo[1] \in Callers
        BY <1>0, <2>2, ElementFacts DEF EvaluatorInv, BucketInv
      <3> QED BY <1>0, <3>1 DEF Caller
    <2>7. BatchesKept
      BY <2>1, <2>4, <2>5, ReplacedFacts
    <2>8. spent' \in [space : Nat, filter : [Filters -> Nat]]
      <3> DEFINE charge == 1 + Cardinality(Slots(next.bucket))
      <3>1. charge \in Nat
        BY <1>0, <2>3, SlotsFacts
      <3>2. UNCHANGED spent \/ spent' = [spent EXCEPT !.space = @ + charge, !.filter[f] = @ + charge]
        BY <2>1
      <3> HIDE DEF charge, f
      <3>3. spent.space + charge \in Nat /\ spent.filter \in [Filters -> Nat] /\ spent.filter[f] + charge \in Nat
        BY <1>0, <2>6, <3>1
      <3>4. [spent.filter EXCEPT ![f] = @ + charge] \in [Filters -> Nat]
        BY <2>6, <3>3
      <3>5. CASE spent' = [spent EXCEPT !.space = @ + charge, !.filter[f] = @ + charge]
        BY <1>0, <3>3, <3>4, <3>5
      <3> QED BY <1>0, <3>2, <3>5
    <2>9. SameQuestions /\ Justified
      <3>1. CASE UNCHANGED caller
        BY <2>2, <3>1, SameCallers DEF Justified
      <3>2. CASE caller' = Answered(Elements(next.bucket), FailOpen)
        BY <1>1, <2>2, <3>2
      <3> QED BY <2>1, <3>1, <3>2
    <2>10. EvaluatorTypeOK'
      BY <2>2, <2>7, <2>8, <2>9 DEF BatchesKept, SameQuestions, EvaluatorInv, EvaluatorTypeOK
    <2> QED BY <2>7, <2>9, <2>10 DEF EvaluatorView
  <1>3. ASSUME LLMFails(b) PROVE EvaluatorView
    <2>1. /\ caller' = Answered(Elements(b.bucket), FailOpen)
          /\ Replaced(b, [b EXCEPT !.bucket = <<>>])
          /\ UNCHANGED <<queue, timer, cache, spent, upsets, said>>
      BY <1>3 DEF LLMFails
    <2>2. [b EXCEPT !.bucket = <<>>] \in Batch /\ OneFilterOnly([b EXCEPT !.bucket = <<>>])
      BY <1>0 DEF Batch, OneFilterOnly
    <2>3. SameQuestions /\ Justified
      BY <1>1, <2>1
    <2>4. BatchesKept
      BY <2>1, <2>2, ReplacedFacts
    <2>5. EvaluatorTypeOK'
      BY <2>1, <2>3, <2>4 DEF BatchesKept, SameQuestions, EvaluatorInv, EvaluatorTypeOK
    <2> QED BY <2>3, <2>4, <2>5 DEF EvaluatorView
  <1> QED BY <1>2, <1>3

\* The LLM answers: who is refused is refused by this reply, and so is what is cached.
LEMMA AnswerViews ==
    ASSUME EvaluatorInv, NEW b \in batches, NEW reply \in Replies, LLMAnswers(b, reply)
    PROVE  EvaluatorView
  <1> DEFINE f == caller[b.bucket[1]].filter
             seen == Readable(b.bucket, reply)
             raised == seen # Slots(b.bucket)
             decided == {v \in seen : reply[v] \in Decisions}
             told == {c \in Elements(b.bucket) : caller[c].summary \in decided}
             answer == [c \in Callers |-> IF c \in told THEN reply[caller[c].summary] ELSE "yes"]
  <1>0. /\ caller \in [Callers -> Caller] /\ b \in Batch /\ b.todo \in Seq(Callers) /\ b.bucket \in Seq(Callers)
        /\ <<>> \in Seq(Callers) /\ Elements(<<>>) = {} /\ b.bucket # <<>>
    BY NothingHeld DEF EvaluatorInv, EvaluatorTypeOK, Batch, Elements, LLMAnswers
  <1>1. /\ caller' = Answered(StillOpen(b, raised), answer)
        /\ cache' = [k \in DOMAIN cache \cup ({f} \X decided) |->
                       IF k \in {f} \X decided
                       THEN IF reply[k[2]] \in Decisions THEN reply[k[2]] ELSE "yes"
                       ELSE cache[k]]
        /\ said' = said \cup {<<<<f, v>>, reply[v]>> : v \in decided}
        /\ Replaced(b, IF raised THEN Batched(<<>>) ELSE [b EXCEPT !.bucket = <<>>])
        /\ UNCHANGED <<queue, timer, spent, upsets>>
    BY DEF LLMAnswers, Cacheable
  <1>2. b.bucket[1] \in Elements(b.bucket) /\ Elements(b.bucket) \subseteq Callers
    BY <1>0, ElementFacts
  <1>3. f \in Filters /\ \A c \in Elements(b.bucket) : caller[c].filter = f
    BY <1>0, <1>2 DEF EvaluatorInv, BucketInv, OneFilterOnly, Caller
  <1>4. seen \subseteq Summaries
    <2>1. \A n \in DOMAIN b.bucket : caller[b.bucket[n]].summary \in Summaries
      BY <1>0, <1>2 DEF Caller, Elements
    <2> QED BY <2>1 DEF Readable
  <1> HIDE DEF seen, f, raised
  <1>5. decided \subseteq Summaries /\ \A v \in decided : reply[v] \in Decisions
    BY <1>4
  <1>6. answer \in [Callers -> Decisions]
    BY <1>5 DEF Decisions
  <1>7. \A c \in Callers : answer[c] = "no" =>
           caller[c].filter = f /\ caller[c].summary \in decided /\ reply[caller[c].summary] = "no"
    BY <1>3
  <1> HIDE DEF answer, told, decided
  <1>8. /\ SameQuestions
        /\ \A c \in Callers : caller'[c].state = "no" => caller[c].state = "no" \/ answer[c] = "no"
    BY <1>0, <1>1, <1>6, AnsweredFacts
  <1>9. \A v \in decided : <<<<f, v>>, reply[v]>> \in said'
    BY <1>1
  <1>10. \A c \in Callers : answer[c] = "no" => <<Key(c), "no">> \in said'
    BY <1>7, <1>9 DEF Key
  <1>11. \A k \in DOMAIN cache' : (k \in DOMAIN cache /\ cache'[k] = cache[k])
                                  \/ \E v \in decided : k = <<f, v>> /\ cache'[k] = reply[v]
    <2> SUFFICES ASSUME NEW k \in DOMAIN cache'
                 PROVE  (k \in DOMAIN cache /\ cache'[k] = cache[k])
                        \/ \E v \in decided : k = <<f, v>> /\ cache'[k] = reply[v]
      OBVIOUS
    <2>1. CASE k \in {f} \X decided
      <3>1. PICK v \in decided : k = <<f, v>>
        BY <2>1
      <3>2. k[2] = v
        BY <3>1
      <3>3. cache'[k] = IF reply[k[2]] \in Decisions THEN reply[k[2]] ELSE "yes"
        BY <1>1, <2>1
      <3>4. cache'[k] = reply[v]
        BY <1>5, <3>2, <3>3
      <3> QED BY <3>1, <3>4
    <2>2. CASE k \notin {f} \X decided
      BY <1>1, <2>2
    <2> QED BY <2>1, <2>2
  <1>12. Justified
    <2>1. said \subseteq said'
      BY <1>1
    <2>2. \A k \in DOMAIN cache' : (k \in DOMAIN cache /\ cache'[k] = cache[k]) \/ <<k, cache'[k]>> \in said'
      BY <1>9, <1>11
    <2> QED BY <1>8, <1>10, <2>1, <2>2 DEF Justified
  <1>13. BatchesKept
    <2>1. [b EXCEPT !.bucket = <<>>] \in Batch /\ OneFilterOnly([b EXCEPT !.bucket = <<>>])
      BY <1>0 DEF Batch, OneFilterOnly
    <2>2. Batched(<<>>) \in Batch /\ OneFilterOnly(Batched(<<>>))
      BY <1>0, BatchedFacts
    <2>3. CASE raised
      BY <1>1, <2>2, <2>3, ReplacedFacts
    <2>4. CASE ~raised
      BY <1>1, <2>1, <2>4, ReplacedFacts
    <2> QED BY <2>3, <2>4
  <1>14. /\ DOMAIN cache' \subseteq Keys /\ \A k \in DOMAIN cache' : cache'[k] \in Decisions
    <2>1. \A v \in decided : <<f, v>> \in Keys
      BY <1>3, <1>5 DEF Keys
    <2> QED BY <1>5, <1>11, <2>1 DEF EvaluatorInv, EvaluatorTypeOK
  <1>15. said' \subseteq Keys \X Decisions
    <2>1. \A v \in decided : <<<<f, v>>, reply[v]>> \in Keys \X Decisions
      BY <1>3, <1>5 DEF Keys
    <2> QED BY <1>1, <2>1 DEF EvaluatorInv, EvaluatorTypeOK
  <1>16. EvaluatorTypeOK'
    BY <1>1, <1>8, <1>13, <1>14, <1>15 DEF SameQuestions, BatchesKept, EvaluatorInv, EvaluatorTypeOK
  <1> QED BY <1>8, <1>12, <1>13, <1>16 DEF EvaluatorView

\* Every step of the process keeps the evaluator's invariant.
LEMMA EvaluatorKeeps ==
    ASSUME EvaluatorInv, [Next]_vars
    PROVE  EvaluatorInv'
  <1>1. CASE EvaluatorView
    BY <1>1, ViewKeeps DEF EvaluatorView, EvaluatorInv
  <1>2. CASE UNCHANGED evaluator
    <2>1. SameQuestions /\ Justified /\ BatchesKept
      BY <1>2, SameCallers, SameBatches DEF Justified, evaluator
    <2>2. EvaluatorTypeOK'
      BY <1>2 DEF EvaluatorInv, EvaluatorTypeOK, evaluator
    <2> QED BY <2>1, <2>2, ViewKeeps DEF EvaluatorInv
  <1>3. CASE \E b \in batches : BatchStep(b)
    BY <1>1, <1>3, AnswerViews, BucketViews DEF BatchStep, Reply
  <1>4. CASE EvaluatorStep
    BY <1>1, <1>4, CallerViews, WindowViews DEF EvaluatorStep
  <1> QED BY <1>2, <1>3, <1>4 DEF Next, vars

\* The evaluator starts with nothing queued, cached or said.
LEMMA EvaluatorStart == EvaluatorInit => EvaluatorInv
  <1> SUFFICES ASSUME EvaluatorInit PROVE EvaluatorInv
    OBVIOUS
  <1>1. caller \in [Callers -> Caller] /\ \A c \in Callers : caller[c].state = "idle"
    <2>1. \A q \in {[state |-> "idle", filter |-> f, summary |-> v] : f \in Filters, v \in Summaries} :
             q \in Caller /\ q.state = "idle"
      BY DEF Caller
    <2> QED BY <2>1 DEF EvaluatorInit
  <1>2. queue \in Seq(Callers) /\ Len(queue) < BatchSize
    BY EmptySeq, EvaluatorAssumption DEF EvaluatorInit
  <1>3. DOMAIN cache = {} /\ batches = {} /\ said = {} /\ timer = FALSE
    BY DEF EvaluatorInit
  <1>4. spent \in [space : Nat, filter : [Filters -> Nat]]
    BY DEF EvaluatorInit, NoSpending
  <1>5. EvaluatorTypeOK
    BY <1>1, <1>2, <1>3, <1>4 DEF EvaluatorTypeOK
  <1> QED BY <1>1, <1>3, <1>5 DEF EvaluatorInv, BucketInv, OnlyDecisions

\* Every step of the process keeps both invariants: the two components meet only where a
\* reply is recorded.
LEMMA BothKept == Spec => [](EvaluatorInv /\ CollectorInv)
  <1>1. Init => EvaluatorInv /\ CollectorInv
    BY EvaluatorStart, CollectorStart DEF Init
  <1>2. EvaluatorInv /\ CollectorInv /\ [Next]_vars => (EvaluatorInv /\ CollectorInv)'
    BY EvaluatorKeeps, CollectorInNext, CollectorKeeps
  <1> QED BY <1>1, <1>2, PTL DEF Spec

\* The types of both components for any instance; in particular evaluate never leaves a
\* full batch in its queue, and _flush and _requeue never make up an event.
THEOREM TypeCorrect == Spec => []TypeOK
  <1>1. EvaluatorInv /\ CollectorInv => TypeOK
    BY DEF EvaluatorInv, CollectorInv, TypeOK
  <1> QED BY <1>1, BothKept, PTL

\* OnlyDecisions for any callers, filters, summaries, batch size and caps: through
\* coalescing, cut-short and unreadable replies and cache expiry, _evaluate_bucket refuses an
\* event only on the LLM's word for that summary and filter, and caches nothing else.
THEOREM RefusedByDecision == Spec => []OnlyDecisions
  <1>1. EvaluatorInv => OnlyDecisions
    BY DEF EvaluatorInv
  <1> QED BY <1>1, BothKept, PTL
=============================================================================
