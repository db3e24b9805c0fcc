------------------------ MODULE PendingProcessorProofs ------------------------
(***************************************************************************)
(* Proofs about PendingProcessor, for any documents, batches and workers.  *)
(* An item of a batch is in one place (ItemsInv), so a batch's accounts    *)
(* balance with every item that moves (AccountOK); what a worker may hold  *)
(* at each point of its loop (WorkerOK) makes the semaphores exact.        *)
(***************************************************************************)
EXTENDS PendingProcessor, SequenceTheorems, FiniteSetTheorems, TLAPS

CountType == [stops : 0..MaxStops, crashes : 0..MaxCrashes, forgets : 0..MaxForgets, faults : 0..MaxFaults]

StoresInv ==
    /\ row \in [Docs -> Row] /\ chunks \in [Docs -> [Contents -> [1..Windows -> Nat]]]
    /\ processor \in {"stopped", "recovering", "running"} /\ count \in CountType

\* A worker has an item from load on, of a batch where it waits for the batch's
\* semaphore or reports a fault to it; it takes tokens for a window of the document.
WorkerOK(k) ==
    /\ k \in Worker
    /\ k.pc = "idle" => k.batch = None
    /\ k.pc # "idle" => k.doc \in Docs
    /\ k.pc \in {"permit", "fault"} => k.batch # None
    /\ k.pc \in {"acquire", "store"} => k.window \in 1..Windows

WorkersInv == worker \in [Workers -> Worker] /\ \A w \in Workers : WorkerOK(worker[w])

Holders == {w \in Workers : worker[w].pc = "store" /\ worker[w].gated}

GateInv ==
    /\ gate \in [exists : BOOLEAN, inFlight : Nat]
    /\ gate.inFlight = Tokens * Cardinality(Holders) /\ gate.inFlight <= Capacity

PermitsInv == \A b \in Batches : Cardinality(Permits(b)) <= MaxConcurrent

\* An item of a batch is queued once, and held by one worker.  (An orphan is of no batch,
\* and may be queued again by a later scan.)
ItemsInv ==
    /\ queue \in Seq(Item) /\ lost \subseteq Batches \X Docs
    /\ \A i, j \in DOMAIN queue : queue[i].batch # None /\ queue[i] = queue[j] => i = j
    /\ \A v, w \in Workers :
          worker[v].batch # None /\ worker[v].batch = worker[w].batch /\ worker[v].doc = worker[w].doc => v = w

\* The accounts of a batch with the items Q queued, H held and D dropped.
AccountOK(k, Q, H, D) ==
    /\ k.pc = "submitted" =>
          /\ Q \cap H = {} /\ Q \cap D = {} /\ H \cap D = {}
          /\ k.remaining = Cardinality(Q \cup H \cup D)
          /\ k.completed + k.remaining = k.total
          /\ k.done <=> k.remaining = 0
    /\ k.pc # "submitted" => Q = {} /\ H = {} /\ D = {}

BatchesInv ==
    /\ batch \in [Batches -> Batch]
    /\ \A b \in Batches : AccountOK(batch[b], Queued(b), Held(b), Dropped(b))

Inv == StoresInv /\ WorkersInv /\ GateInv /\ PermitsInv /\ ItemsInv /\ BatchesInv

-----------------------------------------------------------------------------
(* Accounts.                                                               *)

\* The items of a batch are finitely many.
LEMMA ItemsFinite ==
    ASSUME NEW b
    PROVE  /\ Queued(b) \subseteq Docs /\ Held(b) \subseteq Docs /\ Dropped(b) \subseteq Docs
           /\ IsFiniteSet(Queued(b) \cup Held(b) \cup Dropped(b))
  <1>1. Queued(b) \subseteq Docs /\ Held(b) \subseteq Docs /\ Dropped(b) \subseteq Docs
    BY DEF Queued, Held, Dropped
  <1> QED BY <1>1, FS_Subset, ConstantsAssumption

\* An item goes from the queue to a worker; what the workers hold is dropped.
LEMMA AccountMoves ==
    ASSUME NEW k, NEW Q, NEW H, NEW D, AccountOK(k, Q, H, D)
    PROVE  /\ \A d \in Q : AccountOK(k, Q \ {d}, H \cup {d}, D) /\ d \notin H
           /\ AccountOK(k, Q, {}, D \cup H)
  <1>1. ASSUME NEW d \in Q PROVE AccountOK(k, Q \ {d}, H \cup {d}, D) /\ d \notin H
    <2>1. k.pc = "submitted"
      BY DEF AccountOK
    <2>2. (Q \ {d}) \cup (H \cup {d}) \cup D = Q \cup H \cup D
      OBVIOUS
    <2>3. /\ d \notin H /\ (Q \ {d}) \cap (H \cup {d}) = {}
          /\ (Q \ {d}) \cap D = {} /\ (H \cup {d}) \cap D = {}
      BY <2>1 DEF AccountOK
    <2> QED BY <2>1, <2>2, <2>3 DEF AccountOK
  <1>2. AccountOK(k, Q, {}, D \cup H)
    <2>1. Q \cup {} \cup (D \cup H) = Q \cup H \cup D
      OBVIOUS
    <2> QED BY <2>1 DEF AccountOK
  <1> QED BY <1>1, <1>2

\* fire_result for an item that a worker holds.
LEMMA AccountFires ==
    ASSUME NEW k \in Batch, NEW Q, NEW H, NEW D, AccountOK(k, Q, H, D), IsFiniteSet(Q \cup H \cup D),
           NEW d \in H, NEW success \in BOOLEAN
    PROVE  FireResult(k, success) \in Batch /\ AccountOK(FireResult(k, success), Q, H \ {d}, D)
  <1> DEFINE failed == IF success THEN k.failed ELSE k.failed + 1
             done == k.done \/ k.remaining - 1 <= 0
             completed == k.completed + 1
             remaining == k.remaining - 1
             q == [k EXCEPT !.completed = completed, !.failed = failed, !.remaining = remaining, !.done = done]
             S == Q \cup H \cup D
  <1>0. k.completed \in Nat /\ k.failed \in Nat /\ k.remaining \in Int /\ k.total \in Nat /\ k.done \in BOOLEAN
    BY DEF Batch
  <1>1. failed \in Nat /\ done \in BOOLEAN /\ completed \in Nat /\ remaining \in Int
    BY <1>0
  <1>2. q = FireResult(k, success)
    BY <1>0 DEF FireResult, Batch
  <1> HIDE DEF failed, done, completed, remaining
  <1>3. q \in Batch
    BY ONLY k \in Batch, <1>1 DEF Batch
  <1>12. /\ q.pc = k.pc /\ q.completed = completed /\ q.remaining = remaining
         /\ q.total = k.total /\ q.done = done
    BY ONLY k \in Batch DEF Batch
  <1>4. /\ q.pc = k.pc /\ q.completed = k.completed + 1 /\ q.remaining = k.remaining - 1
        /\ q.total = k.total /\ q.done = done
    BY <1>12 DEF completed, remaining
  <1> HIDE DEF q
  <1>5. /\ k.pc = "submitted" /\ Q \cap H = {} /\ Q \cap D = {} /\ H \cap D = {}
        /\ k.remaining = Cardinality(S) /\ k.completed + k.remaining = k.total
    BY DEF AccountOK
  <1>6. k.done <=> k.remaining = 0
    BY <1>5 DEF AccountOK
  <1>7. Q \cup (H \ {d}) \cup D = S \ {d} /\ d \in S
    BY <1>5
  <1>8. IsFiniteSet(S) /\ Cardinality(S \ {d}) = Cardinality(S) - 1 /\ Cardinality(S) \in Nat /\ Cardinality(S) # 0
    BY <1>7, FS_RemoveElement, FS_CardinalityType, FS_EmptySet
  <1> HIDE DEF S
  <1>9. q.remaining = Cardinality(S \ {d}) /\ q.completed + q.remaining = q.total
    BY <1>0, <1>4, <1>5, <1>8
  <1>10. q.done <=> q.remaining = 0
    <2>1. ~k.done
      BY <1>5, <1>6, <1>8
    <2>2. q.remaining = 0 <=> k.remaining - 1 <= 0
      BY <1>4, <1>5, <1>8
    <2> QED BY <1>4, <2>1, <2>2 DEF done
  <1>11. AccountOK(q, Q, H \ {d}, D)
    BY <1>4, <1>5, <1>7, <1>9, <1>10 DEF AccountOK
  <1> QED BY <1>2, <1>3, <1>11

-----------------------------------------------------------------------------
(* What a step of one worker does to the items and the semaphores.         *)

\* A worker that is between items.
LEMMA IdleFacts == WorkerOK(IdleWorker) /\ IdleWorker.pc = "idle" /\ IdleWorker.batch = None
  <1>1. IdleWorker \in Worker
    BY DEF IdleWorker, Worker, WorkerPcs, Contents
  <1> QED BY <1>1 DEF WorkerOK, IdleWorker

\* The other workers stay as they are.
LEMMA WorkerMoves ==
    ASSUME WorkersInv, NEW w \in Workers, NEW q, WorkerOK(q), worker' = [worker EXCEPT ![w] = q]
    PROVE  WorkersInv' /\ worker'[w] = q /\ \A v \in Workers : v # w => worker'[v] = worker[v]
  BY DEF WorkersInv, WorkerOK

\* A worker goes on with its item.
LEMMA Working ==
    ASSUME WorkersInv, ItemsInv, BatchesInv, NEW w \in Workers, NEW q, WorkerOK(q),
           worker' = [worker EXCEPT ![w] = q], q.batch = worker[w].batch, q.doc = worker[w].doc,
           UNCHANGED <<queue, batch, lost>>
    PROVE  WorkersInv' /\ ItemsInv' /\ BatchesInv'
  <1>1. WorkersInv' /\ worker'[w] = q /\ \A v \in Workers : v # w => worker'[v] = worker[v]
    BY WorkerMoves
  <1>2. \A v \in Workers : worker'[v].batch = worker[v].batch /\ worker'[v].doc = worker[v].doc
    BY <1>1
  <1>3. ItemsInv'
    BY <1>2 DEF ItemsInv
  <1>4. \A b \in Batches : Queued(b)' = Queued(b) /\ Held(b)' = Held(b) /\ Dropped(b)' = Dropped(b)
    BY <1>2 DEF Queued, Held, Dropped
  <1>5. BatchesInv'
    BY <1>4 DEF BatchesInv
  <1> QED BY <1>1, <1>3, <1>5

\* A worker is done with its item, which owes its batch one result less.
LEMMA Ending ==
    ASSUME WorkersInv, ItemsInv, BatchesInv, NEW w \in Workers, NEW success \in BOOLEAN,
           worker' = [worker EXCEPT ![w] = IdleWorker], Deliver(w, success), worker[w].pc # "idle",
           UNCHANGED <<queue, lost>>
    PROVE  WorkersInv' /\ ItemsInv' /\ BatchesInv'
  <1> DEFINE r == worker[w]
             c == r.batch
             d == r.doc
  <1>1. WorkersInv' /\ worker'[w] = IdleWorker /\ \A v \in Workers : v # w => worker'[v] = worker[v]
    BY WorkerMoves, IdleFacts
  <1>2. \A v \in Workers : worker'[v].batch # None => v # w /\ worker'[v] = worker[v]
    BY <1>1, IdleFacts
  <1>3. ItemsInv'
    BY <1>2 DEF ItemsInv
  <1>4. r \in Worker /\ d \in Docs /\ c \in Batches \cup {None}
    BY DEF WorkersInv, WorkerOK, Worker
  <1>5. \A b \in Batches : Queued(b)' = Queued(b) /\ Dropped(b)' = Dropped(b)
    BY DEF Queued, Dropped
  <1>6. \A b \in Batches : b # None
    BY ConstantsAssumption
  <1>7. ASSUME NEW b \in Batches, b # c PROVE Held(b)' = Held(b)
    <2>1. Held(b)' \subseteq Held(b)
      BY <1>2, <1>6 DEF Held
    <2>2. Held(b) \subseteq Held(b)'
      BY <1>1, <1>7 DEF Held
    <2> QED BY <2>1, <2>2
  <1>8. CASE c = None
    <2>1. batch' = batch
      BY <1>8 DEF Deliver
    <2>2. BatchesInv'
      BY <1>5, <1>6, <1>7, <1>8, <2>1 DEF BatchesInv
    <2> QED BY <1>1, <1>3, <2>2
  <1>9. CASE c # None
    <2>0. PICK a \in Batches, x \in Docs : a = c /\ x = d
      BY <1>4, <1>9
    <2>1. batch' = [batch EXCEPT ![a] = FireResult(batch[a], success)]
      BY <1>9, <2>0 DEF Deliver
    <2>2. x \in Held(a)
      BY <1>4, <2>0 DEF Held
    <2>3. Held(a)' = Held(a) \ {x}
      <3>1. Held(a)' \subseteq Held(a) \ {x}
        <4> SUFFICES ASSUME NEW y \in Docs, NEW v \in Workers, worker'[v].batch = a, worker'[v].doc = y
                     PROVE  y \in Held(a) /\ y # x
          BY DEF Held
        <4>1. v # w /\ worker[v].batch = a /\ worker[v].doc = y
          BY <1>2, <1>6
        <4>2. y # x
          BY <1>6, <2>0, <4>1 DEF ItemsInv
        <4> QED BY <4>1, <4>2 DEF Held
      <3>2. Held(a) \ {x} \subseteq Held(a)'
        BY <1>1, <2>0 DEF Held
      <3> QED BY <3>1, <3>2
    <2> DEFINE k == FireResult(batch[a], success)
    <2>4. k \in Batch /\ AccountOK(k, Queued(a), Held(a) \ {x}, Dropped(a))
      BY <2>2, AccountFires, ItemsFinite DEF BatchesInv
    <2>5. batch' \in [Batches -> Batch] /\ batch'[a] = k /\ \A b \in Batches : b # a => batch'[b] = batch[b]
      BY <2>1, <2>4 DEF BatchesInv
    <2>6. \A b \in Batches : AccountOK(batch'[b], Queued(b)', Held(b)', Dropped(b)')
      <3> TAKE b \in Batches
      <3>1. CASE b = a
        BY <1>5, <2>3, <2>4, <2>5, <3>1
      <3>2. CASE b # a
        BY <1>5, <1>7, <2>0, <2>5, <3>2 DEF BatchesInv
      <3> QED BY <3>1, <3>2
    <2>7. BatchesInv'
      BY <2>5, <2>6 DEF BatchesInv
    <2> QED BY <1>1, <1>3, <2>7
  <1> QED BY <1>8, <1>9

\* The holders of tokens and of permits are finitely many.
LEMMA HoldersFinite ==
    /\ IsFiniteSet(Holders) /\ Cardinality(Holders) \in Nat
    /\ \A b : IsFiniteSet(Permits(b)) /\ Cardinality(Permits(b)) \in Nat
    /\ Tokens \in Nat /\ Capacity \in Nat /\ MaxConcurrent \in Nat /\ Tokens <= Capacity
  <1>1. Holders \subseteq Workers /\ \A b : Permits(b) \subseteq Workers
    BY DEF Holders, Permits
  <1>2. IsFiniteSet(Holders) /\ \A b : IsFiniteSet(Permits(b))
    BY <1>1, FS_Subset, ConstantsAssumption
  <1> QED BY <1>2, FS_CardinalityType, ConstantsAssumption DEF Tokens

\* Nobody enters or leaves the chunk semaphore.
LEMMA GateStays ==
    ASSUME GateInv, Holders' = Holders, gate'.inFlight = gate.inFlight,
           gate' \in [exists : BOOLEAN, inFlight : Nat]
    PROVE  GateInv'
  BY DEF GateInv, Tokens

\* A window's tokens are taken, and given back.
LEMMA GateMoves ==
    ASSUME GateInv, NEW w \in Workers
    PROVE  /\ w \notin Holders /\ Holders' = Holders \cup {w} /\ gate.inFlight + Tokens <= Capacity
              /\ gate' = [gate EXCEPT !.inFlight = @ + Tokens] => GateInv'
           /\ w \in Holders /\ Holders' = Holders \ {w}
              /\ gate' = [gate EXCEPT !.inFlight = @ - Tokens] => GateInv'
  <1> DEFINE n == Cardinality(Holders)
             T == Tokens
  <1>1. IsFiniteSet(Holders) /\ n \in Nat /\ T \in Nat /\ Capacity \in Nat
    BY HoldersFinite
  <1>2. gate \in [exists : BOOLEAN, inFlight : Nat] /\ gate.inFlight = T * n /\ gate.inFlight <= Capacity
    BY DEF GateInv
  <1>3. w \notin Holders => Cardinality(Holders \cup {w}) = n + 1
    BY <1>1, FS_AddElement
  <1>4. w \in Holders => Cardinality(Holders \ {w}) = n - 1 /\ n # 0
    BY <1>1, FS_RemoveElement, FS_EmptySet
  <1> HIDE DEF n, T
  <1>5. T * (n + 1) = T * n + T
    BY <1>1
  <1>6. n # 0 => T * (n - 1) = T * n - T /\ T * (n - 1) \in Nat
    BY <1>1
  <1>7. ASSUME w \notin Holders, Holders' = Holders \cup {w}, gate.inFlight + T <= Capacity,
               gate' = [gate EXCEPT !.inFlight = @ + T]
        PROVE  GateInv'
    <2>1. gate'.inFlight = T * n + T /\ gate' \in [exists : BOOLEAN, inFlight : Nat]
      BY <1>1, <1>2, <1>7
    <2>2. gate'.inFlight = T * Cardinality(Holders')
      BY <1>3, <1>5, <1>7, <2>1
    <2> QED BY <1>2, <1>7, <2>1, <2>2 DEF GateInv, T, Tokens
  <1>8. ASSUME w \in Holders, Holders' = Holders \ {w}, gate' = [gate EXCEPT !.inFlight = @ - T]
        PROVE  GateInv'
    <2>1. gate'.inFlight = T * n - T
      BY <1>2, <1>8
    <2>2. gate'.inFlight = T * Cardinality(Holders') /\ gate'.inFlight \in Nat
      BY <1>4, <1>6, <1>8, <2>1
    <2>3. gate' \in [exists : BOOLEAN, inFlight : Nat]
      BY <1>2, <1>8, <2>1, <2>2
    <2>4. gate'.inFlight <= Capacity
      BY <1>1, <1>2, <2>1, <2>2
    <2> QED BY <2>2, <2>3, <2>4 DEF GateInv, T, Tokens
  <1> QED BY <1>7, <1>8 DEF T

\* Nobody enters the semaphore of a batch.
LEMMA PermitsStay ==
    ASSUME PermitsInv, \A b \in Batches : Permits(b)' \subseteq Permits(b)
    PROVE  PermitsInv'
  <1> SUFFICES ASSUME NEW b \in Batches PROVE Cardinality(Permits(b)') <= MaxConcurrent
    BY DEF PermitsInv
  <1>1. IsFiniteSet(Permits(b)) /\ Cardinality(Permits(b)) \in Nat /\ MaxConcurrent \in Nat
    BY HoldersFinite
  <1>2. IsFiniteSet(Permits(b)') /\ Cardinality(Permits(b)') <= Cardinality(Permits(b))
    BY <1>1, FS_Subset
  <1>3. Cardinality(Permits(b)') \in Nat
    BY <1>2, FS_CardinalityType
  <1> QED BY <1>1, <1>2, <1>3 DEF PermitsInv

Inside == {"clear", "acquire", "store", "commit", "fail", "fire"}

\* Who is inside the semaphores once a worker has moved.
LEMMA HoldersMove ==
    ASSUME WorkersInv, NEW w \in Workers, NEW q, WorkerOK(q), worker' = [worker EXCEPT ![w] = q]
    PROVE  LET r == worker[w] IN
           /\ r.pc # "store" /\ (q.pc # "store" \/ ~q.gated) => Holders' = Holders
           /\ r.pc # "store" /\ q.pc = "store" /\ q.gated => w \notin Holders /\ Holders' = Holders \cup {w}
           /\ r.pc = "store" /\ q.pc # "store" /\ r.gated => w \in Holders /\ Holders' = Holders \ {w}
           /\ r.pc = "store" /\ q.pc # "store" /\ ~r.gated => Holders' = Holders
           /\ (q.pc \in Inside /\ q.batch # None => r.pc \in Inside /\ q.batch = r.batch) =>
                 \A b \in Batches : Permits(b)' \subseteq Permits(b)
  <1> DEFINE r == worker[w]
  <1>1. worker'[w] = q /\ \A v \in Workers : v # w => worker'[v] = worker[v]
    BY WorkerMoves
  <1>2. \A v \in Workers : v # w => (v \in Holders' <=> v \in Holders)
    BY <1>1 DEF Holders
  <1>3. /\ w \in Holders <=> r.pc = "store" /\ r.gated
        /\ w \in Holders' <=> q.pc = "store" /\ q.gated
    BY <1>1 DEF Holders
  <1>4. Holders \subseteq Workers /\ Holders' \subseteq Workers
    BY DEF Holders
  <1>5. ASSUME q.pc \in Inside /\ q.batch # None => r.pc \in Inside /\ q.batch = r.batch
        PROVE  \A b \in Batches : Permits(b)' \subseteq Permits(b)
    <2> SUFFICES ASSUME NEW b \in Batches, NEW v \in Workers, worker'[v].batch = b, worker'[v].pc \in Inside
                 PROVE  worker[v].batch = b /\ worker[v].pc \in Inside
      BY DEF Permits, HoldsPermit, Inside
    <2>1. b # None
      BY ConstantsAssumption
    <2> QED BY <1>1, <1>5, <2>1
  <1>6. r.pc # "store" /\ (q.pc # "store" \/ ~q.gated) => Holders' = Holders
    BY <1>2, <1>3, <1>4
  <1>7. r.pc # "store" /\ q.pc = "store" /\ q.gated => w \notin Holders /\ Holders' = Holders \cup {w}
    BY <1>2, <1>3, <1>4
  <1>8. r.pc = "store" /\ q.pc # "store" /\ r.gated => w \in Holders /\ Holders' = Holders \ {w}
    BY <1>2, <1>3, <1>4
  <1>9. r.pc = "store" /\ q.pc # "store" /\ ~r.gated => Holders' = Holders
    BY <1>2, <1>3, <1>4
  <1> QED BY <1>5, <1>6, <1>7, <1>8, <1>9

\* What the stores hold after a step.
LEMMA StoreTypes ==
    ASSUME StoresInv
    PROVE  /\ Fault => count' \in CountType
           /\ \A d \in Docs, s \in Statuses, c \in Contents : UpdateDocument(d, s, c) \in [Docs -> Row]
           /\ \A d \in Docs : [chunks EXCEPT ![d] = NoChunks] \in [Docs -> [Contents -> [1..Windows -> Nat]]]
  <1>1. Fault => count' \in CountType
    BY SMTT(30), ConstantsAssumption DEF StoresInv, CountType, Fault
  <1>2. \A d \in Docs, s \in Statuses, c \in Contents : UpdateDocument(d, s, c) \in [Docs -> Row]
    BY DEF StoresInv, UpdateDocument, Row
  <1>3. NoChunks \in [Contents -> [1..Windows -> Nat]]
    BY DEF NoChunks
  <1> QED BY <1>1, <1>2, <1>3 DEF StoresInv

\* A worker that goes on with its item, outside the chunk semaphore.
LEMMA WorkingKeeps ==
    ASSUME Inv, NEW w \in Workers, NEW q, WorkerOK(q), worker' = [worker EXCEPT ![w] = q],
           q.batch = worker[w].batch, q.doc = worker[w].doc, UNCHANGED <<queue, batch, lost>>, StoresInv'
    PROVE  /\ WorkersInv' /\ ItemsInv' /\ BatchesInv'
           /\ GateInv' /\ (q.pc \in Inside /\ q.batch # None => worker[w].pc \in Inside) => Inv'
           /\ (worker[w].pc # "store" /\ q.pc # "store" /\ gate' = gate) => GateInv'
  <1>1. WorkersInv' /\ ItemsInv' /\ BatchesInv'
    BY Working DEF Inv
  <1>2. ASSUME q.pc \in Inside /\ q.batch # None => worker[w].pc \in Inside PROVE PermitsInv'
    BY <1>2, HoldersMove, PermitsStay DEF Inv
  <1>3. ASSUME worker[w].pc # "store", q.pc # "store", gate' = gate PROVE GateInv'
    BY <1>3, HoldersMove, GateStays DEF Inv, GateInv
  <1> QED BY <1>1, <1>2, <1>3 DEF Inv

\* A worker that is done with its item, outside the chunk semaphore.
LEMMA EndingKeeps ==
    ASSUME Inv, NEW w \in Workers, NEW success \in BOOLEAN, worker' = [worker EXCEPT ![w] = IdleWorker],
           Deliver(w, success), worker[w].pc \notin {"idle", "store"}, UNCHANGED <<queue, lost, gate>>, StoresInv'
    PROVE  Inv'
  <1>1. WorkersInv' /\ ItemsInv' /\ BatchesInv'
    BY Ending DEF Inv
  <1>2. Holders' = Holders /\ \A b \in Batches : Permits(b)' \subseteq Permits(b)
    BY HoldersMove, IdleFacts DEF Inv, Inside
  <1>3. PermitsInv'
    BY <1>2, PermitsStay DEF Inv
  <1>4. GateInv'
    BY <1>2, GateStays DEF Inv, GateInv
  <1> QED BY <1>1, <1>3, <1>4 DEF Inv

-----------------------------------------------------------------------------
(* The pool workers.                                                       *)

\* A worker's fields, and what it holds while it has an item.
LEMMA WorkerFacts ==
    ASSUME Inv, NEW w \in Workers
    PROVE  /\ WorkerOK(worker[w]) /\ worker[w] \in Worker /\ worker \in [Workers -> Worker]
           /\ worker[w].content \in Contents /\ worker[w].gated \in BOOLEAN /\ worker[w].ok \in BOOLEAN
           /\ worker[w].pc # "idle" => worker[w].doc \in Docs /\ row[worker[w].doc] \in Row
  <1>1. WorkerOK(worker[w]) /\ worker[w] \in Worker /\ worker \in [Workers -> Worker] /\ row \in [Docs -> Row]
    BY DEF Inv, WorkersInv, WorkerOK, StoresInv
  <1>2. worker[w].content \in Contents /\ worker[w].gated \in BOOLEAN /\ worker[w].ok \in BOOLEAN
    BY <1>1 DEF Worker
  <1> QED BY <1>1, <1>2 DEF WorkerOK

\* The document is loaded, or it is gone or cannot be loaded.
LEMMA LoadKeeps ==
    ASSUME Inv, NEW w \in Workers, Load(w) \/ LoadNothing(w)
    PROVE  Inv'
  <1> DEFINE r == worker[w]
             d == r.doc
  <1>1. /\ WorkerOK(r) /\ r \in Worker /\ r.pc = "load" /\ worker \in [Workers -> Worker]
        /\ d \in Docs /\ row[d] \in Row
    BY WorkerFacts DEF Load, LoadNothing
  <1>2. CASE Load(w)
    <2> DEFINE pc == IF r.batch = None THEN "clear" ELSE "permit"
               c == row[d].content
               q == [r EXCEPT !.content = c, !.pc = pc]
    <2>1. worker' = [worker EXCEPT ![w] = q]
      BY <1>1, <1>2 DEF Load
    <2>2. c \in Contents /\ pc \in WorkerPcs /\ pc \in {"clear", "permit"} /\ (pc = "permit" <=> r.batch # None)
      BY <1>1 DEF Row, WorkerPcs
    <2> HIDE DEF c, pc
    <2>3. q \in Worker
      BY <1>1, <2>2 DEF Worker
    <2>4. q.pc = pc /\ q.batch = r.batch /\ q.doc = r.doc
      BY <1>1 DEF Worker
    <2> HIDE DEF q
    <2>5. WorkerOK(q)
      BY <1>1, <2>2, <2>3, <2>4 DEF WorkerOK
    <2>6. StoresInv'
      BY <1>2 DEF Inv, StoresInv, Load
    <2>7. UNCHANGED <<queue, batch, lost, gate>>
      BY <1>2 DEF Load
    <2>8. GateInv' /\ (q.pc \in Inside /\ q.batch # None => r.pc \in Inside)
      BY <1>1, <2>1, <2>2, <2>4, <2>5, <2>6, <2>7, WorkingKeeps DEF Inside
    <2> QED BY <2>1, <2>4, <2>5, <2>6, <2>7, <2>8, WorkingKeeps
  <1>3. CASE LoadNothing(w)
    <2>1. StoresInv'
      BY <1>3, StoreTypes DEF Inv, StoresInv, LoadNothing
    <2>2. PICK success \in BOOLEAN : Deliver(w, success)
      BY <1>3 DEF LoadNothing
    <2>3. worker' = [worker EXCEPT ![w] = IdleWorker] /\ UNCHANGED <<queue, lost, gate>>
      BY <1>3 DEF LoadNothing
    <2> QED BY <1>1, <2>1, <2>2, <2>3, EndingKeeps
  <1> QED BY <1>2, <1>3

\* async with concurrency_sem.
LEMMA TakePermitKeeps ==
    ASSUME Inv, NEW w \in Workers, TakePermit(w)
    PROVE  Inv'
  <1> DEFINE r == worker[w]
             q == [r EXCEPT !.pc = "clear"]
  <1>1. WorkerOK(r) /\ r \in Worker /\ r.pc = "permit" /\ worker \in [Workers -> Worker]
    BY WorkerFacts DEF TakePermit
  <1>2. worker' = [worker EXCEPT ![w] = q] /\ UNCHANGED <<queue, batch, lost, gate>>
    BY <1>1 DEF TakePermit
  <1>3. q \in Worker /\ q.pc = "clear" /\ q.batch = r.batch /\ q.doc = r.doc
    BY <1>1 DEF Worker, WorkerPcs
  <1> HIDE DEF q
  <1>4. WorkerOK(q)
    BY <1>1, <1>3 DEF WorkerOK
  <1>5. StoresInv'
    BY DEF Inv, StoresInv, TakePermit
  <1>6. WorkersInv' /\ ItemsInv' /\ BatchesInv' /\ GateInv'
    BY <1>1, <1>2, <1>3, <1>4, <1>5, WorkingKeeps
  <1>7. PermitsInv'
    <2> SUFFICES ASSUME NEW b \in Batches PROVE Cardinality(Permits(b)') <= MaxConcurrent
      BY DEF PermitsInv
    <2>1. /\ IsFiniteSet(Permits(b)) /\ Cardinality(Permits(b)) \in Nat /\ MaxConcurrent \in Nat
          /\ Cardinality(Permits(b)) <= MaxConcurrent
      BY HoldersFinite DEF Inv, PermitsInv
    <2>2. worker'[w] = q /\ \A v \in Workers : v # w => worker'[v] = worker[v]
      BY <1>1, <1>2
    <2>3. CASE b = r.batch
      <3>1. Permits(b)' \subseteq Permits(b) \cup {w}
        BY <2>2 DEF Permits, HoldsPermit
      <3>2. Cardinality(Permits(b)) < MaxConcurrent
        BY <2>3 DEF TakePermit
      <3>3. IsFiniteSet(Permits(b) \cup {w}) /\ Cardinality(Permits(b) \cup {w}) <= Cardinality(Permits(b)) + 1
        <4>1. /\ IsFiniteSet(Permits(b) \cup {w})
              /\ Cardinality(Permits(b) \cup {w}) = IF w \in Permits(b) THEN Cardinality(Permits(b))
                                                    ELSE Cardinality(Permits(b)) + 1
          BY <2>1, FS_AddElement
        <4> QED BY <2>1, <4>1
      <3>4. IsFiniteSet(Permits(b)') /\ Cardinality(Permits(b)') <= Cardinality(Permits(b) \cup {w})
        BY <3>1, <3>3, FS_Subset
      <3>5. Cardinality(Permits(b)') \in Nat /\ Cardinality(Permits(b) \cup {w}) \in Nat
        BY <3>3, <3>4, FS_CardinalityType
      <3> QED BY <2>1, <3>2, <3>3, <3>4, <3>5
    <2>4. CASE b # r.batch
      <3>1. Permits(b)' = Permits(b)
        <4>1. \A v \in Workers : v \in Permits(b)' <=> v \in Permits(b)
          BY <1>3, <2>2, <2>4 DEF Permits, HoldsPermit
        <4> QED BY <4>1 DEF Permits
      <3> QED BY <2>1, <3>1
    <2> QED BY <2>3, <2>4
  <1> QED BY <1>5, <1>6, <1>7 DEF Inv

\* The chunks of an earlier attempt are cleared, or that raises; a fault is reported.
LEMMA ClearKeeps ==
    ASSUME Inv, NEW w \in Workers, ClearState(w) \/ ClearFault(w) \/ HandleFault(w)
    PROVE  Inv'
  <1> DEFINE r == worker[w]
             d == r.doc
  <1>1. /\ WorkerOK(r) /\ r \in Worker /\ r.pc \in {"clear", "fault"} /\ worker \in [Workers -> Worker]
        /\ d \in Docs /\ r.content \in Contents
    BY WorkerFacts DEF ClearState, ClearFault, HandleFault
  <1>2. CASE ClearState(w)
    <2> DEFINE g == gate.exists
               q == [r EXCEPT !.pc = "acquire", !.window = 1, !.gated = g]
    <2>1. worker' = [worker EXCEPT ![w] = q] /\ UNCHANGED <<queue, batch, lost, gate>> /\ r.pc = "clear"
      BY <1>1, <1>2 DEF ClearState
    <2>2. g \in BOOLEAN /\ 1 \in Nat /\ 1 \in 1..Windows
      BY ConstantsAssumption DEF Inv, GateInv
    <2> HIDE DEF g
    <2>3. q \in Worker
      BY <1>1, <2>2 DEF Worker, WorkerPcs
    <2>4. q.pc = "acquire" /\ q.batch = r.batch /\ q.doc = r.doc /\ q.window = 1
      BY <1>1 DEF Worker
    <2> HIDE DEF q
    <2>5. WorkerOK(q)
      BY <1>1, <2>2, <2>3, <2>4 DEF WorkerOK
    <2>6. StoresInv'
      BY <1>1, <1>2, StoreTypes DEF Inv, StoresInv, ClearState
    <2>7. GateInv' /\ r.pc \in Inside
      BY <2>1, <2>4, <2>5, <2>6, WorkingKeeps DEF Inside
    <2> QED BY <2>1, <2>4, <2>5, <2>6, <2>7, WorkingKeeps
  <1>3. CASE ClearFault(w) /\ r.batch # None
    <2> DEFINE q == [r EXCEPT !.pc = "fault"]
    <2>1. worker' = [worker EXCEPT ![w] = q] /\ UNCHANGED <<queue, batch, lost, gate>> /\ r.pc = "clear"
      BY <1>1, <1>3 DEF ClearFault
    <2>2. q \in Worker /\ q.pc = "fault" /\ q.batch = r.batch /\ q.doc = r.doc
      BY <1>1 DEF Worker, WorkerPcs
    <2> HIDE DEF q
    <2>3. WorkerOK(q)
      BY <1>1, <1>3, <2>2 DEF WorkerOK
    <2>4. StoresInv'
      BY <1>3, StoreTypes DEF Inv, StoresInv, ClearFault
    <2>5. GateInv' /\ r.pc \in Inside
      BY <2>1, <2>2, <2>3, <2>4, WorkingKeeps DEF Inside
    <2> QED BY <2>1, <2>2, <2>3, <2>4, <2>5, WorkingKeeps
  <1>4. CASE ClearFault(w) /\ r.batch = None
    <2>1. worker' = [worker EXCEPT ![w] = IdleWorker] /\ UNCHANGED <<queue, batch, lost, gate>> /\ r.pc = "clear"
      BY <1>4 DEF ClearFault
    <2>2. Deliver(w, FALSE)
      BY <1>4, <2>1 DEF Deliver
    <2>3. StoresInv'
      BY <1>4, StoreTypes DEF Inv, StoresInv, ClearFault
    <2> QED BY <1>1, <2>1, <2>2, <2>3, EndingKeeps
  <1>5. CASE HandleFault(w)
    <2>1. worker' = [worker EXCEPT ![w] = IdleWorker] /\ UNCHANGED <<queue, lost, gate>> /\ Deliver(w, FALSE)
      BY <1>5 DEF HandleFault
    <2>2. "failed" \in Statuses
      BY DEF Statuses
    <2>3. StoresInv'
      BY <1>1, <1>5, <2>2, StoreTypes DEF Inv, StoresInv, HandleFault
    <2> QED BY <1>1, <2>1, <2>3, EndingKeeps
  <1> QED BY <1>2, <1>3, <1>4, <1>5

\* A window's tokens are taken.
LEMMA AcquireKeeps ==
    ASSUME Inv, NEW w \in Workers, AcquireWindow(w)
    PROVE  Inv'
  <1> DEFINE r == worker[w]
             q == [r EXCEPT !.pc = "store"]
  <1>1. WorkerOK(r) /\ r \in Worker /\ r.pc = "acquire" /\ worker \in [Workers -> Worker] /\ r.gated \in BOOLEAN
    BY WorkerFacts DEF AcquireWindow
  <1>2. worker' = [worker EXCEPT ![w] = q] /\ UNCHANGED <<queue, batch, lost>>
    BY <1>1 DEF AcquireWindow
  <1>3. q \in Worker
    BY <1>1 DEF Worker, WorkerPcs
  <1>4. q.pc = "store" /\ q.batch = r.batch /\ q.doc = r.doc /\ q.window = r.window /\ q.gated = r.gated
    BY <1>1 DEF Worker
  <1> HIDE DEF q
  <1>5. WorkerOK(q)
    BY <1>1, <1>3, <1>4 DEF WorkerOK
  <1>6. StoresInv'
    BY DEF Inv, StoresInv, AcquireWindow
  <1>7. CASE r.gated
    <2>1. gate.inFlight + Tokens <= Capacity /\ gate' = [gate EXCEPT !.inFlight = @ + Tokens]
      BY <1>7 DEF AcquireWindow
    <2>2. w \notin Holders /\ Holders' = Holders \cup {w}
      BY <1>1, <1>2, <1>4, <1>5, <1>7, HoldersMove DEF Inv
    <2>3. GateInv'
      BY <2>1, <2>2, GateMoves DEF Inv
    <2> QED BY <1>1, <1>2, <1>4, <1>5, <1>6, <2>3, WorkingKeeps DEF Inside
  <1>8. CASE ~r.gated
    <2>1. gate' = gate
      BY <1>8 DEF AcquireWindow
    <2>2. Holders' = Holders
      BY <1>1, <1>2, <1>4, <1>5, <1>8, HoldersMove DEF Inv
    <2>3. GateInv'
      BY <2>1, <2>2, GateStays DEF Inv, GateInv
    <2> QED BY <1>1, <1>2, <1>4, <1>5, <1>6, <2>3, WorkingKeeps DEF Inside
  <1> QED BY <1>7, <1>8

\* A window is stored, or that raises: the tokens come back either way.
LEMMA StoreKeeps ==
    ASSUME Inv, NEW w \in Workers, StoreWindow(w) \/ StoreFault(w)
    PROVE  Inv'
  <1> DEFINE r == worker[w]
             d == r.doc
             c == r.content
             n == r.window
  <1>1. /\ WorkerOK(r) /\ r \in Worker /\ r.pc = "store" /\ worker \in [Workers -> Worker] /\ r.gated \in BOOLEAN
        /\ d \in Docs /\ c \in Contents /\ gate' = Released(w) /\ UNCHANGED <<queue, batch, lost>>
    BY WorkerFacts DEF StoreWindow, StoreFault
  <1>2. n \in 1..Windows /\ Windows \in Nat
    BY <1>1, ConstantsAssumption DEF WorkerOK
  <1>3. chunks \in [Docs -> [Contents -> [1..Windows -> Nat]]] /\ chunks[d][c][n] \in Nat
    BY <1>1, <1>2 DEF Inv, StoresInv
  <1>4. StoresInv'
    <2>1. CASE StoreFault(w)
      BY <2>1, StoreTypes DEF Inv, StoresInv, StoreFault
    <2>2. CASE StoreWindow(w)
      <3> DEFINE m == IF chunks[d][c][n] < MaxCopies THEN chunks[d][c][n] + 1 ELSE chunks[d][c][n]
                 copies == [chunks[d][c] EXCEPT ![n] = m]
                 contents == [chunks[d] EXCEPT ![c] = copies]
      <3>1. m \in Nat
        BY <1>3
      <3>2. chunks' = [chunks EXCEPT ![d] = contents]
        BY <1>1, <1>3, <2>2 DEF StoreWindow
      <3> HIDE DEF m
      <3>3. copies \in [1..Windows -> Nat]
        BY <1>1, <1>2, <1>3, <3>1
      <3> HIDE DEF copies
      <3>4. contents \in [Contents -> [1..Windows -> Nat]]
        BY <1>1, <1>3, <3>3
      <3> HIDE DEF contents
      <3>5. chunks' \in [Docs -> [Contents -> [1..Windows -> Nat]]]
        BY <1>1, <1>3, <3>2, <3>4
      <3>6. row' = row /\ processor' = processor /\ (count' = count \/ Fault)
        BY <2>2 DEF StoreWindow
      <3>7. count' \in CountType
        BY <3>6, StoreTypes DEF Inv, StoresInv
      <3> QED BY <3>5, <3>6, <3>7 DEF Inv, StoresInv
    <2> QED BY <2>1, <2>2
  <1>5. ASSUME NEW q \in Worker, q.pc \in {"acquire", "commit", "fail"}, q.batch = r.batch, q.doc = r.doc,
               q.pc = "acquire" => q.window \in 1..Windows, worker' = [worker EXCEPT ![w] = q]
        PROVE  Inv'
    <2>1. WorkerOK(q)
      BY <1>1, <1>5 DEF WorkerOK
    <2>2. GateInv'
      <3>1. CASE r.gated
        <4>1. w \in Holders /\ Holders' = Holders \ {w}
          BY <1>1, <1>5, <2>1, <3>1, HoldersMove DEF Inv
        <4>2. gate' = [gate EXCEPT !.inFlight = @ - Tokens]
          BY <1>1, <3>1 DEF Released
        <4> QED BY <4>1, <4>2, GateMoves DEF Inv
      <3>2. CASE ~r.gated
        <4>1. Holders' = Holders
          BY <1>1, <1>5, <2>1, <3>2, HoldersMove DEF Inv
        <4>2. gate' = gate
          BY <1>1, <3>2 DEF Released
        <4> QED BY <4>1, <4>2, GateStays DEF Inv, GateInv
      <3> QED BY <3>1, <3>2
    <2> QED BY <1>1, <1>4, <1>5, <2>1, <2>2, WorkingKeeps DEF Inside
  <1>6. CASE worker' = [worker EXCEPT ![w].pc = "fail"]
    <2> DEFINE q == [r EXCEPT !.pc = "fail"]
    <2>1. worker' = [worker EXCEPT ![w] = q]
      BY <1>1, <1>6
    <2>2. q \in Worker /\ q.pc = "fail" /\ q.batch = r.batch /\ q.doc = r.doc
      BY <1>1 DEF Worker, WorkerPcs
    <2> HIDE DEF q
    <2> QED BY <1>5, <2>1, <2>2
  <1>7. CASE worker' = [worker EXCEPT ![w].window = @ + 1, ![w].pc = IF n = Windows THEN "commit" ELSE "acquire"]
    <2> DEFINE pc == IF n = Windows THEN "commit" ELSE "acquire"
               m == n + 1
               q == [r EXCEPT !.window = m, !.pc = pc]
    <2>1. worker' = [worker EXCEPT ![w] = q]
      BY <1>1, <1>7
    <2>2. /\ m \in Nat /\ pc \in WorkerPcs /\ pc \in {"acquire", "commit", "fail"}
          /\ pc = "acquire" => m \in 1..Windows
      BY <1>2 DEF WorkerPcs
    <2> HIDE DEF pc, m
    <2>3. q \in Worker
      BY <1>1, <2>2 DEF Worker
    <2>4. q.pc = pc /\ q.batch = r.batch /\ q.doc = r.doc /\ q.window = m
      BY <1>1 DEF Worker
    <2> HIDE DEF q
    <2> QED BY <1>5, <2>1, <2>2, <2>3, <2>4
  <1> QED BY <1>6, <1>7 DEF StoreWindow, StoreFault

\* The document is completed or failed, and the result is fired.
LEMMA CommitKeeps ==
    ASSUME Inv, NEW w \in Workers, Commit(w) \/ Fail(w) \/ Fire(w)
    PROVE  Inv'
  <1> DEFINE r == worker[w]
             d == r.doc
  <1>1. /\ WorkerOK(r) /\ r \in Worker /\ r.pc \in {"commit", "fail", "fire"} /\ worker \in [Workers -> Worker]
        /\ d \in Docs /\ r.content \in Contents /\ r.ok \in BOOLEAN /\ UNCHANGED <<queue, gate, lost>>
    BY WorkerFacts DEF Commit, Fail, Fire
  <1>2. StoresInv'
    <2>1. "completed" \in Statuses /\ "failed" \in Statuses
      BY DEF Statuses
    <2>2. CASE Commit(w)
      BY <1>1, <2>1, <2>2, StoreTypes DEF Inv, StoresInv, Commit
    <2>3. CASE Fail(w)
      BY <1>1, <2>1, <2>3, StoreTypes DEF Inv, StoresInv, Fail
    <2>4. CASE Fire(w)
      BY <2>4 DEF Inv, StoresInv, Fire
    <2> QED BY <2>2, <2>3, <2>4
  <1>3. CASE Fire(w)
    <2>1. worker' = [worker EXCEPT ![w] = IdleWorker] /\ Deliver(w, r.ok)
      BY <1>3 DEF Fire
    <2> QED BY <1>1, <1>2, <2>1, EndingKeeps
  <1>4. ASSUME NEW q \in Worker, q.pc \in {"fail", "fire"}, q.batch = r.batch, q.doc = r.doc, batch' = batch,
               worker' = [worker EXCEPT ![w] = q]
        PROVE  Inv'
    <2>1. WorkerOK(q)
      BY <1>1, <1>4 DEF WorkerOK
    <2>2. GateInv'
      BY <1>1, <1>2, <1>4, <2>1, WorkingKeeps
    <2> QED BY <1>1, <1>2, <1>4, <2>1, <2>2, WorkingKeeps DEF Inside
  <1>5. ASSUME NEW success \in BOOLEAN, batch' = batch,
               worker' = [worker EXCEPT ![w].pc = "fire", ![w].ok = success]
        PROVE  Inv'
    <2> DEFINE q == [r EXCEPT !.pc = "fire", !.ok = success]
    <2>1. worker' = [worker EXCEPT ![w] = q]
      BY <1>1, <1>5
    <2>2. q \in Worker
      BY <1>1 DEF Worker, WorkerPcs
    <2>3. q.pc = "fire" /\ q.batch = r.batch /\ q.doc = r.doc
      BY <1>1 DEF Worker
    <2> HIDE DEF q
    <2> QED BY <1>4, <1>5, <2>1, <2>2, <2>3
  <1>6. ASSUME batch' = batch, worker' = [worker EXCEPT ![w].pc = "fail"]
        PROVE  Inv'
    <2> DEFINE q == [r EXCEPT !.pc = "fail"]
    <2>1. worker' = [worker EXCEPT ![w] = q]
      BY <1>1, <1>6
    <2>2. q \in Worker /\ q.pc = "fail" /\ q.batch = r.batch /\ q.doc = r.doc
      BY <1>1 DEF Worker, WorkerPcs
    <2> HIDE DEF q
    <2> QED BY <1>4, <1>6, <2>1, <2>2
  <1>7. TRUE \in BOOLEAN /\ FALSE \in BOOLEAN
    OBVIOUS
  <1>8. CASE Commit(w)
    BY <1>5, <1>6, <1>7, <1>8 DEF Commit
  <1>9. CASE Fail(w)
    BY <1>5, <1>7, <1>9 DEF Fail
  <1> QED BY <1>3, <1>8, <1>9

\* A worker takes the head of the queue.
LEMMA DequeueKeeps ==
    ASSUME Inv, NEW w \in Workers, Dequeue(w)
    PROVE  Inv'
  <1>1. /\ worker[w].pc = "idle" /\ queue # <<>> /\ queue' = Tail(queue)
        /\ worker' = [worker EXCEPT ![w] = [IdleWorker EXCEPT !.pc = "load", !.doc = Head(queue).doc,
                                                               !.batch = Head(queue).batch]]
        /\ UNCHANGED <<row, chunks, processor, batch, gate, count, lost>>
    BY DEF Dequeue
  <1>2. queue \in Seq(Item) /\ WorkerOK(worker[w])
    BY WorkerFacts DEF Inv, ItemsInv
  <1>3. /\ Head(queue) = queue[1] /\ Head(queue) \in Item /\ Tail(queue) \in Seq(Item)
        /\ Len(Tail(queue)) = Len(queue) - 1 /\ \A i \in 1..Len(Tail(queue)) : Tail(queue)[i] = queue[i + 1]
    BY <1>1, <1>2, HeadTailProperties
  <1>4. PICK h \in Item : h = Head(queue)
    BY <1>3
  <1>5. /\ Len(queue) \in Nat /\ DOMAIN queue = 1..Len(queue) /\ 1 \in DOMAIN queue /\ queue[1] = h
        /\ queue' \in Seq(Item) /\ DOMAIN queue' = 1..Len(queue')
        /\ Len(queue') = Len(queue) - 1 /\ \A i \in DOMAIN queue' : queue'[i] = queue[i + 1]
    <2>1. Len(queue) \in Nat /\ Len(queue) # 0 /\ DOMAIN queue = 1..Len(queue)
      BY <1>1, <1>2, LenProperties, EmptySeq
    <2>2. queue' \in Seq(Item) /\ DOMAIN queue' = 1..Len(queue') /\ Len(queue') = Len(queue) - 1
      BY <1>1, <1>3, LenProperties
    <2> QED BY <1>1, <1>3, <1>4, <2>1, <2>2
  <1>6. h.doc \in Docs /\ h.batch \in Batches \cup {None} /\ h = [doc |-> h.doc, batch |-> h.batch]
    BY DEF Item
  <1> DEFINE q == [IdleWorker EXCEPT !.pc = "load", !.doc = h.doc, !.batch = h.batch]
  <1>7. q \in Worker /\ q.pc = "load" /\ q.doc = h.doc /\ q.batch = h.batch
    <2>1. IdleWorker \in Worker
      BY IdleFacts DEF WorkerOK
    <2> QED BY <1>6, <2>1 DEF Worker, WorkerPcs
  <1>8. worker' = [worker EXCEPT ![w] = q]
    BY <1>1, <1>4
  <1> HIDE DEF q
  <1>9. WorkerOK(q)
    BY <1>6, <1>7 DEF WorkerOK
  <1>10. WorkersInv' /\ worker'[w] = q /\ \A v \in Workers : v # w => worker'[v] = worker[v]
    BY <1>8, <1>9, WorkerMoves DEF Inv
  <1>11. worker[w].batch = None /\ \A b \in Batches : b # None
    BY <1>1, <1>2, ConstantsAssumption DEF WorkerOK
  <1>12. \A b \in Batches, d \in Docs :
            d \in Queued(b)' <=> \E i \in DOMAIN queue : i > 1 /\ queue[i] = [doc |-> d, batch |-> b]
    <2> SUFFICES ASSUME NEW b \in Batches, NEW d \in Docs
                 PROVE  d \in Queued(b)' <=> \E i \in DOMAIN queue : i > 1 /\ queue[i] = [doc |-> d, batch |-> b]
      OBVIOUS
    <2>1. ASSUME NEW i \in DOMAIN queue, i > 1, queue[i] = [doc |-> d, batch |-> b] PROVE d \in Queued(b)'
      <3>1. i - 1 \in DOMAIN queue' /\ queue'[i - 1] = queue[i]
        BY <1>5, <2>1
      <3> QED BY <2>1, <3>1 DEF Queued
    <2>2. ASSUME NEW i \in DOMAIN queue', queue'[i] = [doc |-> d, batch |-> b]
          PROVE  \E j \in DOMAIN queue : j > 1 /\ queue[j] = [doc |-> d, batch |-> b]
      <3>1. i + 1 \in DOMAIN queue /\ i + 1 > 1 /\ queue[i + 1] = queue'[i]
        BY <1>5
      <3> QED BY <2>2, <3>1
    <2> QED BY <2>1, <2>2 DEF Queued
  <1>13. \A b \in Batches : b # h.batch => Queued(b)' = Queued(b) /\ Held(b)' = Held(b)
    <2> SUFFICES ASSUME NEW b \in Batches, b # h.batch PROVE Queued(b)' = Queued(b) /\ Held(b)' = Held(b)
      OBVIOUS
    <2>1. ASSUME NEW d \in Docs PROVE d \in Queued(b)' <=> d \in Queued(b)
      <3>1. [doc |-> d, batch |-> b] # queue[1]
        BY <1>5, <1>6
      <3>2. \A i \in DOMAIN queue : i = 1 \/ i > 1
        BY <1>5
      <3> QED BY <1>12, <3>1, <3>2 DEF Queued
    <2>2. Queued(b)' = Queued(b)
      BY <2>1 DEF Queued
    <2>3. Held(b)' = Held(b)
      BY <1>7, <1>10, <1>11 DEF Held
    <2> QED BY <2>2, <2>3
  <1>14. \A b \in Batches : b = h.batch => /\ h.doc \in Queued(b)
                                           /\ Queued(b)' = Queued(b) \ {h.doc} /\ Held(b)' = Held(b) \cup {h.doc}
    <2> SUFFICES ASSUME NEW b \in Batches, b = h.batch
                 PROVE  /\ h.doc \in Queued(b)
                        /\ Queued(b)' = Queued(b) \ {h.doc} /\ Held(b)' = Held(b) \cup {h.doc}
      OBVIOUS
    <2>1. queue[1] = [doc |-> h.doc, batch |-> b] /\ queue[1].batch # None
      BY <1>5, <1>6, <1>11
    <2>2. h.doc \in Queued(b)
      BY <1>5, <1>6, <2>1 DEF Queued
    <2>3. ASSUME NEW d \in Docs PROVE d \in Queued(b)' <=> d \in Queued(b) /\ d # h.doc
      <3>1. \A i \in DOMAIN queue : i = 1 \/ i > 1
        BY <1>5
      <3>2. ASSUME NEW i \in DOMAIN queue, i > 1 PROVE queue[i] # queue[1]
        <4>1. i # 1
          BY <1>5, <3>2
        <4> QED BY <1>5, <2>1, <4>1 DEF Inv, ItemsInv
      <3>3. [doc |-> d, batch |-> b] = queue[1] <=> d = h.doc
        BY <2>1
      <3>4. ASSUME d \in Queued(b), d # h.doc PROVE d \in Queued(b)'
        <4>1. PICK i \in DOMAIN queue : queue[i] = [doc |-> d, batch |-> b]
          BY <3>4 DEF Queued
        <4>2. i > 1
          BY <3>1, <3>3, <3>4, <4>1
        <4> QED BY <1>12, <4>1, <4>2
      <3>5. ASSUME d \in Queued(b)' PROVE d \in Queued(b) /\ d # h.doc
        <4>1. PICK i \in DOMAIN queue : i > 1 /\ queue[i] = [doc |-> d, batch |-> b]
          BY <1>12, <3>5
        <4>2. d \in Queued(b)
          BY <4>1 DEF Queued
        <4> QED BY <3>2, <3>3, <4>1, <4>2
      <3> QED BY <3>4, <3>5
    <2>4. Queued(b)' = Queued(b) \ {h.doc}
      BY <2>3 DEF Queued
    <2>5. ASSUME NEW d \in Docs PROVE d \in Held(b)' <=> d \in Held(b) \/ d = h.doc
      <3>1. d \in Held(b) => \E v \in Workers : v # w /\ worker[v].batch = b /\ worker[v].doc = d
        BY <1>11 DEF Held
      <3> QED BY <1>7, <1>10, <3>1 DEF Held
    <2>6. Held(b)' = Held(b) \cup {h.doc}
      BY <1>6, <2>5 DEF Held
    <2> QED BY <2>2, <2>4, <2>6
  <1>15. \A b \in Batches : Dropped(b)' = Dropped(b) /\ AccountOK(batch[b], Queued(b), Held(b), Dropped(b))
    BY <1>1 DEF Dropped, Inv, BatchesInv
  <1>16. ASSUME NEW b \in Batches PROVE AccountOK(batch[b], Queued(b)', Held(b)', Dropped(b)')
    <2>1. CASE b # h.batch
      BY <1>13, <1>15, <2>1
    <2>2. CASE b = h.batch
      <3>1. AccountOK(batch[b], Queued(b) \ {h.doc}, Held(b) \cup {h.doc}, Dropped(b))
        BY <1>14, <1>15, <2>2, AccountMoves
      <3> QED BY <1>14, <1>15, <2>2, <3>1
    <2> QED BY <2>1, <2>2
  <1>17. BatchesInv'
    BY <1>1, <1>16 DEF Inv, BatchesInv
  <1>18. \A i, j \in DOMAIN queue' : queue'[i].batch # None /\ queue'[i] = queue'[j] => i = j
    <2> TAKE i, j \in DOMAIN queue'
    <2>1. /\ i \in Nat /\ j \in Nat /\ i + 1 \in DOMAIN queue /\ j + 1 \in DOMAIN queue
          /\ queue'[i] = queue[i + 1] /\ queue'[j] = queue[j + 1]
      BY <1>5
    <2>2. queue'[i].batch # None /\ queue'[i] = queue'[j] => i + 1 = j + 1
      BY <2>1 DEF Inv, ItemsInv
    <2> QED BY <2>1, <2>2
  <1>19. \A u, v \in Workers :
            worker'[u].batch # None /\ worker'[u].batch = worker'[v].batch /\ worker'[u].doc = worker'[v].doc => u = v
    <2>1. ASSUME NEW v \in Workers, v # w, h.batch # None, worker[v].batch = h.batch, worker[v].doc = h.doc
          PROVE  FALSE
      <3>1. PICK b \in Batches : b = h.batch
        BY <1>6, <2>1
      <3>2. h.doc \in Held(b)
        BY <1>6, <2>1, <3>1 DEF Held
      <3>3. h.doc \in Queued(b) /\ h.doc \notin Held(b)
        BY <1>14, <1>15, <3>1, AccountMoves
      <3> QED BY <3>2, <3>3
    <2>2. \A u, v \in Workers :
            worker[u].batch # None /\ worker[u].batch = worker[v].batch /\ worker[u].doc = worker[v].doc => u = v
      BY DEF Inv, ItemsInv
    <2> QED BY <1>7, <1>10, <2>1, <2>2
  <1>20. ItemsInv'
    BY <1>1, <1>5, <1>18, <1>19 DEF Inv, ItemsInv
  <1>21. StoresInv'
    BY <1>1 DEF Inv, StoresInv
  <1>22. Holders' = Holders /\ \A b \in Batches : Permits(b)' \subseteq Permits(b)
    BY <1>1, <1>7, <1>8, <1>9, HoldersMove DEF Inv, Inside
  <1>23. GateInv' /\ PermitsInv'
    BY <1>1, <1>22, GateStays, PermitsStay DEF Inv, GateInv
  <1> QED BY <1>10, <1>17, <1>20, <1>21, <1>23 DEF Inv

-----------------------------------------------------------------------------
(* submit_batch.                                                           *)

\* Nobody touches the workers and the tokens they hold.
LEMMA WorkersStay ==
    ASSUME Inv, worker' = worker, gate' = gate \/ gate' = [gate EXCEPT !.exists = TRUE]
    PROVE  WorkersInv' /\ GateInv' /\ PermitsInv' /\ \A b : Held(b)' = Held(b)
  <1>1. WorkersInv' /\ Holders' = Holders /\ (\A b : Permits(b)' = Permits(b)) /\ \A b : Held(b)' = Held(b)
    BY DEF Inv, WorkersInv, Holders, Permits, HoldsPermit, Held
  <1>2. gate'.inFlight = gate.inFlight /\ gate' \in [exists : BOOLEAN, inFlight : Nat]
    BY DEF Inv, GateInv
  <1> QED BY <1>1, <1>2, GateStays, PermitsStay DEF Inv

\* The items stay where they are.
LEMMA ItemsStay ==
    ASSUME Inv, UNCHANGED <<worker, queue, lost>>
    PROVE  /\ ItemsInv'
           /\ \A b : Queued(b)' = Queued(b) /\ Held(b)' = Held(b) /\ Dropped(b)' = Dropped(b)
           /\ batch' = batch => BatchesInv'
  <1>1. ItemsInv'
    BY DEF Inv, ItemsInv
  <1>2. \A b : Queued(b)' = Queued(b) /\ Held(b)' = Held(b) /\ Dropped(b)' = Dropped(b)
    BY DEF Queued, Held, Dropped
  <1>3. batch' = batch => BatchesInv'
    BY <1>2 DEF Inv, BatchesInv
  <1> QED BY <1>1, <1>2, <1>3

\* A batch that has no handle yet has no items, and stays so.
LEMMA StagingKeeps ==
    ASSUME Inv, NEW b \in Batches, NEW q \in Batch, batch[b].pc # "submitted", q.pc # "submitted",
           batch' = [batch EXCEPT ![b] = q], UNCHANGED <<worker, queue, lost>>,
           gate' = gate \/ gate' = [gate EXCEPT !.exists = TRUE], StoresInv'
    PROVE  Inv'
  <1>1. batch' \in [Batches -> Batch] /\ batch'[b] = q /\ \A c \in Batches : c # b => batch'[c] = batch[c]
    BY DEF Inv, BatchesInv
  <1>2. \A c : Queued(c)' = Queued(c) /\ Held(c)' = Held(c) /\ Dropped(c)' = Dropped(c)
    BY ItemsStay
  <1>3. \A c \in Batches : AccountOK(batch[c], Queued(c), Held(c), Dropped(c))
    BY DEF Inv, BatchesInv
  <1>4. AccountOK(q, Queued(b), Held(b), Dropped(b))
    BY <1>3 DEF AccountOK
  <1>5. \A c \in Batches : AccountOK(batch'[c], Queued(c)', Held(c)', Dropped(c)')
    BY <1>1, <1>2, <1>3, <1>4
  <1>6. BatchesInv'
    BY <1>1, <1>5 DEF BatchesInv
  <1> QED BY <1>6, ItemsStay, WorkersStay DEF Inv

\* A batch that has not been staged is empty.
LEMMA NewBatchType == NewBatch \in Batch
  <1>1. [d \in Docs |-> "absent"] \in [Docs -> Statuses]
    BY DEF Statuses
  <1> DEFINE f == [d \in Docs |-> "absent"]
  <1> HIDE DEF f
  <1>2. f \in [Docs -> Statuses]
    BY <1>1 DEF f
  <1>3. NewBatch = [pc |-> "new", todo |-> {}, existing |-> f, pending |-> {}, preFailed |-> {},
                    errors |-> 0, skipped |-> 0, total |-> 0, completed |-> 0, failed |-> 0,
                    remaining |-> 0, done |-> FALSE]
    BY DEF NewBatch, f
  <1> QED BY ONLY <1>2, <1>3 DEF Batch, BatchPcs

\* The documents are looked up.
LEMMA LookupKeeps ==
    ASSUME Inv, NEW b \in Batches, SubmitLookup(b)
    PROVE  Inv'
  <1> DEFINE r == batch[b]
  <1>1. r \in Batch /\ batch \in [Batches -> Batch] /\ row \in [Docs -> Row]
    BY DEF Inv, BatchesInv, StoresInv
  <1>2. r.pc = "new" /\ UNCHANGED <<row, chunks, processor, queue, worker, gate, lost>> /\ (count' = count \/ Fault)
    BY DEF SubmitLookup
  <1>3. PICK docs \in SUBSET Docs :
           \/ batch' = [batch EXCEPT ![b].pc = "staging", ![b].todo = docs,
                          ![b].existing = [d \in Docs |-> IF d \in docs THEN row[d].status ELSE "absent"]]
           \/ batch' = [batch EXCEPT ![b].pc = "staging", ![b].todo = docs]
    BY DEF SubmitLookup
  <1>4. StoresInv'
    BY <1>2, StoreTypes DEF Inv, StoresInv
  <1>5. ASSUME NEW f \in [Docs -> Statuses],
               batch' = [batch EXCEPT ![b] = [r EXCEPT !.pc = "staging", !.todo = docs, !.existing = f]]
        PROVE  Inv'
    <2> DEFINE q == [r EXCEPT !.pc = "staging", !.todo = docs, !.existing = f]
    <2>1. q \in Batch
      BY ONLY <1>1, docs \in SUBSET Docs, f \in [Docs -> Statuses] DEF Batch, BatchPcs
    <2>2. q.pc = "staging"
      BY ONLY <1>1 DEF Batch
    <2>3. batch' = [batch EXCEPT ![b] = q]
      BY <1>5
    <2> HIDE DEF q
    <2> QED BY <1>2, <1>4, <2>1, <2>2, <2>3, StagingKeeps
  <1>6. CASE batch' = [batch EXCEPT ![b].pc = "staging", ![b].todo = docs,
                          ![b].existing = [d \in Docs |-> IF d \in docs THEN row[d].status ELSE "absent"]]
    <2> DEFINE f == [d \in Docs |-> IF d \in docs THEN row[d].status ELSE "absent"]
    <2>1. f \in [Docs -> Statuses]
      BY <1>1 DEF Row, Statuses
    <2>2. batch' = [batch EXCEPT ![b].pc = "staging", ![b].todo = docs, ![b].existing = f]
      BY <1>6
    <2> HIDE DEF f
    <2>3. batch' = [batch EXCEPT ![b] = [r EXCEPT !.pc = "staging", !.todo = docs, !.existing = f]]
      BY <1>1, <2>2
    <2> QED BY <1>5, <2>1, <2>3
  <1>7. CASE batch' = [batch EXCEPT ![b].pc = "staging", ![b].todo = docs]
    <2> DEFINE f == r.existing
    <2>1. f \in [Docs -> Statuses]
      BY <1>1 DEF Batch
    <2>2. batch' = [batch EXCEPT ![b] = [r EXCEPT !.pc = "staging", !.todo = docs, !.existing = f]]
      BY <1>1, <1>7 DEF Batch
    <2> HIDE DEF f
    <2> QED BY <1>5, <2>1, <2>2
  <1> QED BY <1>3, <1>6, <1>7

\* A document is staged, skipped or refused.
LEMMA StageKeeps ==
    ASSUME Inv, NEW b \in Batches, NEW d \in Docs,
           StageSkip(b, d) \/ StageNew(b, d) \/ StageExisting(b, d) \/ StageError(b, d)
    PROVE  Inv'
  <1> DEFINE r == batch[b]
             todo == r.todo \ {d}
             more == r.pending \cup {d}
             pre == IF r.existing[d] \in {"failed", "archived"} THEN r.preFailed \cup {d} ELSE r.preFailed
             skipped == r.skipped + 1
             errors == r.errors + 1
  <1>1. r \in Batch /\ batch \in [Batches -> Batch] /\ row \in [Docs -> Row] /\ r.pc = "staging"
    BY DEF Inv, BatchesInv, StoresInv, StageSkip, StageNew, StageExisting, StageError
  <1>2. UNCHANGED <<chunks, processor, queue, worker, gate, lost>>
    BY DEF StageSkip, StageNew, StageExisting, StageError
  <1>3. /\ todo \in SUBSET Docs /\ more \in SUBSET Docs /\ pre \in SUBSET Docs
        /\ skipped \in Nat /\ errors \in Nat
    BY <1>1 DEF Batch
  <1>4. StoresInv'
    <2>1. CASE StageNew(b, d)
      <3>1. [status |-> "pending", content |-> b, old |-> FALSE] \in Row
        BY DEF Row, Statuses, Contents
      <3>2. row' \in [Docs -> Row] /\ count' = count
        BY <1>1, <2>1, <3>1 DEF StageNew
      <3> QED BY <1>2, <3>2 DEF Inv, StoresInv
    <2>2. CASE StageExisting(b, d)
      <3>1. row' \in [Docs -> Row] /\ count' = count
        BY <2>2, StoreTypes DEF Inv, StageExisting, Statuses, Contents
      <3> QED BY <1>2, <3>1 DEF Inv, StoresInv
    <2>3. CASE StageSkip(b, d) \/ StageError(b, d)
      <3>1. row' = row /\ (count' = count \/ Fault)
        BY <2>3 DEF StageSkip, StageError
      <3> QED BY <1>2, <3>1, StoreTypes DEF Inv, StoresInv
    <2> QED BY <2>1, <2>2, <2>3
  <1>5. ASSUME NEW q \in Batch, q.pc = "staging", batch' = [batch EXCEPT ![b] = q] PROVE Inv'
    BY <1>1, <1>2, <1>4, <1>5, StagingKeeps
  <1>6. CASE StageSkip(b, d)
    <2> DEFINE q == [r EXCEPT !.todo = todo, !.skipped = skipped]
    <2>1. batch' = [batch EXCEPT ![b] = q]
      BY <1>1, <1>6 DEF StageSkip
    <2> HIDE DEF todo, skipped
    <2>2. q \in Batch
      BY ONLY <1>1, <1>3 DEF Batch
    <2>3. q.pc = "staging"
      BY ONLY <1>1 DEF Batch
    <2> HIDE DEF q
    <2> QED BY <1>5, <2>1, <2>2, <2>3
  <1>7. CASE StageNew(b, d)
    <2> DEFINE q == [r EXCEPT !.todo = todo, !.pending = more]
    <2>1. batch' = [batch EXCEPT ![b] = q]
      BY <1>1, <1>7 DEF StageNew
    <2> HIDE DEF todo, more
    <2>2. q \in Batch
      BY ONLY <1>1, <1>3 DEF Batch
    <2>3. q.pc = "staging"
      BY ONLY <1>1 DEF Batch
    <2> HIDE DEF q
    <2> QED BY <1>5, <2>1, <2>2, <2>3
  <1>8. CASE StageExisting(b, d)
    <2> DEFINE q == [r EXCEPT !.todo = todo, !.pending = more, !.preFailed = pre]
    <2>1. batch' = [batch EXCEPT ![b] = q]
      BY <1>1, <1>8 DEF StageExisting
    <2> HIDE DEF todo, more, pre
    <2>2. q \in Batch
      BY ONLY <1>1, <1>3 DEF Batch
    <2>3. q.pc = "staging"
      BY ONLY <1>1 DEF Batch
    <2> HIDE DEF q
    <2> QED BY <1>5, <2>1, <2>2, <2>3
  <1>9. CASE StageError(b, d)
    <2> DEFINE q == [r EXCEPT !.todo = todo, !.errors = errors]
    <2>1. batch' = [batch EXCEPT ![b] = q]
      BY <1>1, <1>9 DEF StageError
    <2> HIDE DEF todo, errors
    <2>2. q \in Batch
      BY ONLY <1>1, <1>3 DEF Batch
    <2>3. q.pc = "staging"
      BY ONLY <1>1 DEF Batch
    <2> HIDE DEF q
    <2> QED BY <1>5, <2>1, <2>2, <2>3
  <1> QED BY <1>6, <1>7, <1>8, <1>9

\* submit_batch raises: there is no handle.
LEMMA RaisesKeeps ==
    ASSUME Inv, NEW b \in Batches, SubmitRaises(b)
    PROVE  Inv'
  <1> DEFINE q == [NewBatch EXCEPT !.pc = "raised"]
  <1>1. q \in Batch
    BY NewBatchType DEF Batch, BatchPcs
  <1>2. q.pc = "raised"
    BY NewBatchType DEF Batch
  <1>3. /\ batch' = [batch EXCEPT ![b] = q] /\ batch[b].pc = "staging" /\ gate' = [gate EXCEPT !.exists = TRUE]
        /\ UNCHANGED <<row, chunks, queue, processor, worker, count, lost>>
    BY DEF SubmitRaises
  <1> HIDE DEF q
  <1>4. StoresInv'
    BY <1>3 DEF Inv, StoresInv
  <1> QED BY <1>1, <1>2, <1>3, <1>4, StagingKeeps

\* A listing names every document of the set, and each once.
LEMMA ListingIsComplete ==
    ASSUME NEW S \in SUBSET Docs, NEW f \in Listings(S)
    PROVE  /\ Cardinality(S) \in Nat /\ f \in [1..Cardinality(S) -> S]
           /\ \A i, j \in 1..Cardinality(S) : f[i] = f[j] => i = j
           /\ \A d \in S : \E i \in 1..Cardinality(S) : f[i] = d
  <1> DEFINE n == Cardinality(S)
  <1>1. IsFiniteSet(S) /\ n \in Nat
    BY FS_Subset, FS_CardinalityType, ConstantsAssumption
  <1>2. f \in [1..n -> S] /\ \A i, j \in 1..n : f[i] = f[j] => i = j
    BY DEF Listings
  <1>3. Cardinality(1..n) = n
    BY <1>1, FS_Interval
  <1> HIDE DEF n
  <1>4. f \in Injection(1..n, S)
    BY <1>2 DEF Injection, IsInjective
  <1>5. f \in Surjection(1..n, S)
    BY <1>1, <1>3, <1>4, FS_Injection DEF n
  <1>6. \A d \in S : \E i \in 1..n : f[i] = d
    BY <1>5 DEF Surjection
  <1> QED BY <1>1, <1>2, <1>6 DEF n

\* The queue r is the queue q with the items s at its end.
Extends(r, q, s) ==
    /\ r \in Seq(Item) /\ DOMAIN r = 1..(Len(q) + Len(s)) /\ Len(q) \in Nat /\ Len(s) \in Nat
    /\ DOMAIN q = 1..Len(q) /\ DOMAIN s = 1..Len(s)
    /\ \A i \in DOMAIN q : i \in DOMAIN r /\ r[i] = q[i]
    /\ \A i \in DOMAIN s : Len(q) + i \in DOMAIN r /\ r[Len(q) + i] = s[i]
    /\ \A i \in DOMAIN r : \/ i \in DOMAIN q /\ r[i] = q[i]
                           \/ i - Len(q) \in DOMAIN s /\ r[i] = s[i - Len(q)]

\* put() for each item of a list.
LEMMA Enqueued ==
    ASSUME NEW q \in Seq(Item), NEW s \in Seq(Item), NEW r, r = q \o s
    PROVE  Extends(r, q, s)
  <1> DEFINE m == Len(q)
             n == Len(s)
  <1>1. m \in Nat /\ n \in Nat /\ DOMAIN q = 1..m /\ DOMAIN s = 1..n
    BY LenProperties
  <1>2. r \in Seq(Item) /\ Len(r) = m + n
    BY ConcatProperties
  <1>3. \A i \in 1..(m + n) : r[i] = IF i <= m THEN q[i] ELSE s[i - m]
    BY ConcatProperties
  <1>4. DOMAIN r = 1..(m + n)
    BY <1>2, LenProperties
  <1> HIDE DEF m, n
  <1>5. \A i \in 1..m : i \in 1..(m + n) /\ r[i] = q[i]
    BY <1>1, <1>3
  <1>6. \A i \in 1..n : m + i \in 1..(m + n) /\ r[m + i] = s[i]
    <2> TAKE i \in 1..n
    <2>1. m + i \in 1..(m + n) /\ ~(m + i <= m) /\ (m + i) - m = i
      BY <1>1
    <2> QED BY <1>3, <2>1
  <1>7. \A i \in 1..(m + n) : (i \in 1..m /\ r[i] = q[i]) \/ (i - m \in 1..n /\ r[i] = s[i - m])
    BY <1>1, <1>3
  <1> QED BY <1>1, <1>2, <1>4, <1>5, <1>6, <1>7 DEF m, n, Extends

\* The handle is returned and the documents of the batch are enqueued.
LEMMA FinishKeeps ==
    ASSUME Inv, NEW b \in Batches, SubmitFinish(b)
    PROVE  Inv'
  <1> DEFINE r == batch[b]
             P == r.pending
             known == r.errors + r.skipped
             left == Cardinality(P)
             total == known + left
             errors == r.errors
             done == left = 0
             pre == r.preFailed
             k == [NewBatch EXCEPT !.pc = "submitted", !.preFailed = pre, !.total = total, !.completed = known,
                                   !.failed = errors, !.remaining = left, !.done = done]
  <1>1. /\ r.pc = "staging" /\ batch' = [batch EXCEPT ![b] = k] /\ gate' = [gate EXCEPT !.exists = TRUE]
        /\ UNCHANGED <<row, chunks, processor, worker, count, lost>>
    BY DEF SubmitFinish
  <1>2. r \in Batch /\ batch \in [Batches -> Batch] /\ queue \in Seq(Item)
    BY DEF Inv, BatchesInv, ItemsInv
  <1>3. P \in SUBSET Docs /\ pre \in SUBSET Docs /\ errors \in Nat /\ r.skipped \in Nat
    BY <1>2 DEF Batch
  <1>4. PICK f \in Listings(P) : queue' = queue \o [i \in 1..left |-> [doc |-> f[i], batch |-> b]]
    BY DEF SubmitFinish
  <1> HIDE DEF P
  <1>5. /\ left \in Nat /\ f \in [1..left -> P] /\ \A i, j \in 1..left : f[i] = f[j] => i = j
        /\ \A d \in P : \E i \in 1..left : f[i] = d
    BY <1>3, ListingIsComplete
  <1>6. known \in Nat /\ total \in Nat /\ known + left = total /\ left \in Int /\ done \in BOOLEAN
    BY <1>3, <1>5
  <1> DEFINE s == [i \in 1..left |-> [doc |-> f[i], batch |-> b]]
  <1>7. s \in Seq(Item) /\ DOMAIN s = 1..left
    <2>1. \A i \in 1..left : [doc |-> f[i], batch |-> b] \in Item
      BY <1>3, <1>5 DEF Item
    <2>2. s \in [1..left -> Item]
      BY <2>1
    <2>3. DOMAIN s = 1..left
      OBVIOUS
    <2> HIDE DEF s, left
    <2> QED BY <1>5, <2>2, <2>3, SeqDef
  <1>8. \A i \in 1..left : s[i] = [doc |-> f[i], batch |-> b] /\ s[i].doc = f[i] /\ s[i].batch = b
    OBVIOUS
  <1>18. queue' = queue \o s
    BY <1>4
  <1> HIDE DEF s, left, known, total, done, pre, errors
  <1>9. k \in Batch
    BY ONLY NewBatchType, <1>3, <1>5, <1>6 DEF Batch, BatchPcs
  <1>10. /\ k.pc = "submitted" /\ k.remaining = left /\ k.completed = known /\ k.total = total /\ k.done = done
    BY ONLY NewBatchType DEF Batch
  <1> HIDE DEF k
  <1>11. /\ queue' \in Seq(Item) /\ Len(queue) \in Nat
         /\ \A i \in DOMAIN queue : i \in DOMAIN queue' /\ queue'[i] = queue[i]
         /\ \A i \in 1..left : Len(queue) + i \in DOMAIN queue' /\ queue'[Len(queue) + i] = s[i]
         /\ \A i \in DOMAIN queue' : \/ i \in DOMAIN queue /\ queue'[i] = queue[i]
                                     \/ i - Len(queue) \in 1..left /\ queue'[i] = s[i - Len(queue)]
         /\ DOMAIN queue' \subseteq Nat
    <2>1. Extends(queue', queue, s)
      BY <1>2, <1>7, <1>18, Enqueued
    <2>2. DOMAIN queue' \subseteq Nat
      BY <2>1 DEF Extends
    <2> QED BY <1>7, <2>1, <2>2 DEF Extends
  <1>12. \A c \in Batches : AccountOK(batch[c], Queued(c), Held(c), Dropped(c))
    BY DEF Inv, BatchesInv
  <1>13. Queued(b) = {} /\ Held(b) = {} /\ Dropped(b) = {}
    BY <1>1, <1>12 DEF AccountOK
  <1>14. \A c \in Batches : Held(c)' = Held(c) /\ Dropped(c)' = Dropped(c)
    BY <1>1 DEF Held, Dropped
  <1>15. ASSUME NEW c \in Batches, c # b PROVE Queued(c)' = Queued(c)
    <2>1. Queued(c) \subseteq Queued(c)'
      BY <1>11 DEF Queued
    <2>2. ASSUME NEW d \in Docs, NEW i \in DOMAIN queue', queue'[i] = [doc |-> d, batch |-> c] PROVE d \in Queued(c)
      <3>1. queue'[i].batch = c
        BY <2>2
      <3>2. i \in DOMAIN queue /\ queue'[i] = queue[i]
        BY ZenonT(30), <1>8, <1>11, <1>15, <3>1
      <3> QED BY <2>2, <3>2 DEF Queued
    <2>3. Queued(c)' \subseteq Queued(c)
      BY <2>2 DEF Queued
    <2> QED BY <2>1, <2>3
  <1>16. Queued(b)' = P
    <2>1. ASSUME NEW d \in P PROVE d \in Queued(b)'
      <3>1. PICK i \in 1..left : f[i] = d
        BY <1>5
      <3>2. Len(queue) + i \in DOMAIN queue' /\ queue'[Len(queue) + i] = [doc |-> d, batch |-> b]
        BY <1>8, <1>11, <3>1
      <3> QED BY <1>3, <3>2 DEF Queued
    <2>2. ASSUME NEW d \in Docs, NEW i \in DOMAIN queue', queue'[i] = [doc |-> d, batch |-> b] PROVE d \in P
      <3>1. ~(i \in DOMAIN queue /\ queue'[i] = queue[i])
        BY <1>13, <2>2 DEF Queued
      <3>2. PICK j \in 1..left : queue'[i] = s[j]
        BY <1>11, <3>1
      <3>3. d = s[j].doc
        BY <2>2, <3>2
      <3>4. d = f[j]
        BY <1>8, <3>3
      <3> QED BY <1>5, <3>4
    <2>3. Queued(b)' \subseteq P
      BY <2>2 DEF Queued
    <2> QED BY <2>1, <2>3
  <1>17. AccountOK(k, P, {}, {})
    <2>1. P \cup {} \cup {} = P
      OBVIOUS
    <2>2. k.done <=> k.remaining = 0
      BY <1>10 DEF done
    <2>3. k.completed + k.remaining = k.total /\ k.remaining = Cardinality(P \cup {} \cup {})
      BY <1>6, <1>10, <2>1 DEF left
    <2> QED BY <1>10, <2>2, <2>3 DEF AccountOK
  <1>19. batch' \in [Batches -> Batch] /\ batch'[b] = k /\ \A c \in Batches : c # b => batch'[c] = batch[c]
    BY <1>1, <1>2, <1>9
  <1>20. \A c \in Batches : AccountOK(batch'[c], Queued(c)', Held(c)', Dropped(c)')
    <2> TAKE c \in Batches
    <2>1. CASE c = b
      BY <1>13, <1>14, <1>16, <1>17, <1>19, <2>1
    <2>2. CASE c # b
      BY <1>12, <1>14, <1>15, <1>19, <2>2
    <2> QED BY <2>1, <2>2
  <1>21. BatchesInv'
    BY <1>19, <1>20 DEF BatchesInv
  <1>22. \A i, j \in DOMAIN queue' : queue'[i].batch # None /\ queue'[i] = queue'[j] => i = j
    <2>0. \A i \in DOMAIN queue : queue[i] \in Item
      BY <1>2, ElementOfSeq, LenProperties
    <2>1. ASSUME NEW i \in DOMAIN queue, NEW j \in 1..left PROVE queue[i] # s[j]
      <3>1. f[j] \in Docs /\ f[j] \notin Queued(b)
        BY <1>3, <1>5, <1>13
      <3> QED BY <1>8, <3>1 DEF Queued
    <2>2. \A i, j \in DOMAIN queue : queue[i].batch # None /\ queue[i] = queue[j] => i = j
      BY DEF Inv, ItemsInv
    <2>3. ASSUME NEW i \in 1..left, NEW j \in 1..left, s[i] = s[j] PROVE i = j
      <3>1. f[i] = s[i].doc /\ f[j] = s[j].doc
        BY <1>8
      <3>2. f[i] = f[j]
        BY <2>3, <3>1
      <3> QED BY <1>5, <3>2
    <2> TAKE i, j \in DOMAIN queue'
    <2> HAVE queue'[i].batch # None /\ queue'[i] = queue'[j]
    <2>4. i \in Nat /\ j \in Nat
      BY <1>11
    <2>5. CASE i \in DOMAIN queue /\ queue'[i] = queue[i]
      <3>1. j \in DOMAIN queue /\ queue'[j] = queue[j]
        BY <1>11, <2>1, <2>5
      <3> QED BY <2>2, <2>5, <3>1
    <2>6. CASE i - Len(queue) \in 1..left /\ queue'[i] = s[i - Len(queue)]
      <3>1. j - Len(queue) \in 1..left /\ queue'[j] = s[j - Len(queue)]
        BY <1>11, <2>1, <2>6
      <3>2. i - Len(queue) = j - Len(queue)
        BY <2>3, <2>6, <3>1
      <3> QED BY <1>11, <2>4, <3>2
    <2> QED BY <1>11, <2>5, <2>6
  <1>23. ItemsInv'
    BY <1>1, <1>11, <1>22 DEF Inv, ItemsInv
  <1>24. StoresInv'
    BY <1>1 DEF Inv, StoresInv
  <1>25. WorkersInv' /\ GateInv' /\ PermitsInv'
    BY <1>1, WorkersStay
  <1> QED BY <1>21, <1>23, <1>24, <1>25 DEF Inv

-----------------------------------------------------------------------------
(* The processor's life.                                                   *)

\* Only the rows, the chunks and the processor's own state change.
LEMMA OutsideKeeps ==
    ASSUME Inv, UNCHANGED <<worker, queue, lost, batch, gate>>, StoresInv'
    PROVE  Inv'
  BY ItemsStay, WorkersStay DEF Inv

\* The processor starts, its scan ends, time passes, a document is forgotten.
LEMMA AroundKeeps ==
    ASSUME Inv, Start \/ RecoveryEnds \/ \E d \in Docs : Age(d) \/ Forget(d)
    PROVE  Inv'
  <1>1. row \in [Docs -> Row] /\ count \in CountType
    BY DEF Inv, StoresInv
  <1>2. CASE Start
    BY <1>2, OutsideKeeps DEF Start, Inv, StoresInv
  <1>3. CASE RecoveryEnds
    <2>1. StoresInv'
      BY <1>3, StoreTypes DEF RecoveryEnds, Inv, StoresInv
    <2> QED BY <1>3, <2>1, OutsideKeeps DEF RecoveryEnds
  <1>4. CASE \E d \in Docs : Age(d)
    <2>1. PICK d \in Docs : Age(d)
      BY <1>4
    <2>2. [row[d] EXCEPT !.old = TRUE] \in Row
      BY <1>1 DEF Row
    <2>3. row' \in [Docs -> Row]
      BY <1>1, <2>1, <2>2 DEF Age
    <2>4. StoresInv'
      BY <2>1, <2>3 DEF Age, Inv, StoresInv
    <2> QED BY <2>1, <2>4, OutsideKeeps DEF Age
  <1>5. CASE \E d \in Docs : Forget(d)
    <2>1. PICK d \in Docs : Forget(d)
      BY <1>5
    <2>2. Absent \in Row
      BY DEF Absent, Row, Statuses, Contents
    <2>3. row' \in [Docs -> Row] /\ chunks' \in [Docs -> [Contents -> [1..Windows -> Nat]]]
      BY <1>1, <2>1, <2>2, StoreTypes DEF Forget, Inv
    <2>4. count' \in CountType
      BY <1>1, <2>1, ConstantsAssumption DEF Forget, CountType
    <2>5. StoresInv'
      BY <2>1, <2>3, <2>4 DEF Forget, Inv, StoresInv
    <2> QED BY <2>1, <2>5, OutsideKeeps DEF Forget
  <1> QED BY <1>2, <1>3, <1>4, <1>5

\* A row is claimed and enqueued without a batch: no batch's items change.
LEMMA ClaimKeeps ==
    ASSUME Inv, NEW d \in Docs, ClaimOrphan(d)
    PROVE  Inv'
  <1> DEFINE e == [doc |-> d, batch |-> None]
  <1>1. /\ row' = [row EXCEPT ![d].status = "processing", ![d].old = FALSE] /\ queue' = Append(queue, e)
        /\ UNCHANGED <<chunks, processor, worker, batch, gate, count, lost>>
    BY DEF ClaimOrphan
  <1>2. queue \in Seq(Item) /\ row \in [Docs -> Row]
    BY DEF Inv, ItemsInv, StoresInv
  <1>3. e \in Item /\ e.batch = None
    BY DEF Item
  <1> HIDE DEF e
  <1>4. StoresInv'
    <2>1. [row[d] EXCEPT !.status = "processing", !.old = FALSE] \in Row
      BY <1>2 DEF Row, Statuses
    <2>2. row' = [row EXCEPT ![d] = [row[d] EXCEPT !.status = "processing", !.old = FALSE]]
      BY <1>1, <1>2
    <2>3. row' \in [Docs -> Row]
      BY <1>2, <2>1, <2>2
    <2> QED BY <1>1, <2>3 DEF Inv, StoresInv
  <1>5. /\ queue' \in Seq(Item) /\ DOMAIN queue \subseteq DOMAIN queue'
        /\ \A i \in DOMAIN queue : queue'[i] = queue[i]
        /\ \A i \in DOMAIN queue' : i \in DOMAIN queue \/ queue'[i] = e
    <2>1. DOMAIN queue = 1..Len(queue) /\ Len(queue) \in Nat
      BY <1>2, LenProperties
    <2>2. queue' \in Seq(Item) /\ Len(queue') = Len(queue) + 1
      BY <1>1, <1>2, <1>3, AppendProperties
    <2>3. DOMAIN queue' = 1..(Len(queue) + 1)
      BY <2>2, LenProperties
    <2>4. (\A i \in 1..Len(queue) : queue'[i] = queue[i]) /\ queue'[Len(queue) + 1] = e
      BY <1>1, <1>2, <1>3, AppendProperties
    <2> QED BY <2>1, <2>2, <2>3, <2>4
  <1>6. \A i \in DOMAIN queue' : queue'[i].batch # None => i \in DOMAIN queue /\ queue'[i] = queue[i]
    BY <1>3, <1>5
  <1>7. \A b \in Batches : Queued(b)' = Queued(b)
    <2> SUFFICES ASSUME NEW b \in Batches PROVE Queued(b)' = Queued(b)
      OBVIOUS
    <2>0. b # None
      BY ConstantsAssumption
    <2>1. Queued(b) \subseteq Queued(b)'
      BY <1>5 DEF Queued
    <2>2. ASSUME NEW x \in Docs, NEW i \in DOMAIN queue', queue'[i] = [doc |-> x, batch |-> b] PROVE x \in Queued(b)
      <3>1. queue'[i].batch = b
        BY <2>2
      <3> QED BY <1>6, <2>0, <2>2, <3>1 DEF Queued
    <2>3. Queued(b)' \subseteq Queued(b)
      BY <2>2 DEF Queued
    <2> QED BY <2>1, <2>3
  <1>8. \A b \in Batches : Held(b)' = Held(b) /\ Dropped(b)' = Dropped(b)
    BY <1>1 DEF Held, Dropped
  <1>9. BatchesInv'
    BY <1>1, <1>7, <1>8 DEF Inv, BatchesInv
  <1>10. \A i, j \in DOMAIN queue' : queue'[i].batch # None /\ queue'[i] = queue'[j] => i = j
    BY <1>6 DEF Inv, ItemsInv
  <1>11. ItemsInv'
    BY <1>1, <1>5, <1>10 DEF Inv, ItemsInv
  <1> QED BY <1>1, <1>4, <1>9, <1>11, WorkersStay DEF Inv

\* Every worker is idle: nothing is held, no token and no permit is taken.
LEMMA AllIdle ==
    ASSUME worker' = [w \in Workers |-> IdleWorker]
    PROVE  /\ WorkersInv' /\ PermitsInv' /\ Holders' = {} /\ \A b \in Batches : Held(b)' = {}
           /\ \A w \in Workers : worker'[w].batch = None
           /\ gate' \in [exists : BOOLEAN, inFlight : Nat] /\ gate'.inFlight = 0 => GateInv'
  <1>1. \A w \in Workers : worker'[w] = IdleWorker /\ worker'[w].pc = "idle" /\ worker'[w].batch = None
    BY IdleFacts
  <1>2. IdleWorker \in Worker /\ WorkerOK(IdleWorker)
    BY IdleFacts DEF WorkerOK
  <1>3. WorkersInv'
    BY <1>1, <1>2 DEF WorkersInv, WorkerOK
  <1>4. Holders' = {}
    BY <1>1 DEF Holders
  <1>5. ASSUME NEW b \in Batches PROVE Held(b)' = {} /\ Permits(b)' = {}
    <2>1. b # None
      BY ConstantsAssumption
    <2> QED BY <1>1, <2>1 DEF Held, Permits
  <1>6. Cardinality({}) = 0 /\ MaxConcurrent \in Nat /\ Capacity \in Nat /\ Tokens \in Nat
    BY FS_EmptySet, HoldersFinite
  <1>7. PermitsInv'
    BY <1>5, <1>6 DEF PermitsInv
  <1>8. ASSUME gate' \in [exists : BOOLEAN, inFlight : Nat], gate'.inFlight = 0 PROVE GateInv'
    <2>1. Cardinality(Holders') = 0
      BY <1>4, <1>6
    <2> QED BY <1>6, <1>8, <2>1 DEF GateInv, Tokens
  <1> QED BY <1>1, <1>3, <1>4, <1>5, <1>7, <1>8

\* The workers are cancelled: what they hold is dropped.
LEMMA StopKeeps ==
    ASSUME Inv, Stop
    PROVE  Inv'
  <1>1. /\ worker' = [w \in Workers |-> IdleWorker] /\ gate' = [gate EXCEPT !.inFlight = 0]
        /\ lost' = lost \cup {<<worker[w].batch, worker[w].doc>> : w \in {v \in Workers : worker[v].batch # None}}
        /\ UNCHANGED <<row, chunks, queue, batch>>
    BY DEF Stop
  <1>2. StoresInv'
    <2>1. count' \in CountType
      BY SMTT(30), ConstantsAssumption DEF Stop, Inv, StoresInv, CountType
    <2> QED BY <1>1, <2>1 DEF Stop, Inv, StoresInv
  <1>3. gate' \in [exists : BOOLEAN, inFlight : Nat] /\ gate'.inFlight = 0
    BY <1>1 DEF Inv, GateInv
  <1>4. /\ WorkersInv' /\ PermitsInv' /\ GateInv' /\ \A b \in Batches : Held(b)' = {}
        /\ \A w \in Workers : worker'[w].batch = None
    BY <1>1, <1>3, AllIdle
  <1>5. \A w \in Workers : worker[w].batch # None => worker[w].batch \in Batches /\ worker[w].doc \in Docs
    <2> TAKE w \in Workers
    <2>1. WorkerOK(worker[w])
      BY DEF Inv, WorkersInv
    <2> QED BY <2>1 DEF WorkerOK, Worker
  <1>6. lost' \subseteq Batches \X Docs
    BY <1>1, <1>5 DEF Inv, ItemsInv
  <1>7. ItemsInv'
    BY <1>1, <1>4, <1>6 DEF Inv, ItemsInv
  <1>8. ASSUME NEW b \in Batches PROVE Queued(b)' = Queued(b) /\ Dropped(b)' = Dropped(b) \cup Held(b)
    <2>0. b # None
      BY ConstantsAssumption
    <2>1. Queued(b)' = Queued(b)
      BY <1>1 DEF Queued
    <2>2. ASSUME NEW d \in Docs
          PROVE  <<b, d>> \in lost' <=> <<b, d>> \in lost \/ \E w \in Workers : worker[w].batch = b /\ worker[w].doc = d
      BY <1>1, <2>0
    <2>3. Dropped(b)' = Dropped(b) \cup Held(b)
      BY <2>2 DEF Dropped, Held
    <2> QED BY <2>1, <2>3
  <1>9. \A b \in Batches : AccountOK(batch[b], Queued(b), {}, Dropped(b) \cup Held(b))
    BY AccountMoves DEF Inv, BatchesInv
  <1>10. \A b \in Batches : AccountOK(batch[b], Queued(b)', Held(b)', Dropped(b)')
    BY <1>4, <1>8, <1>9
  <1>11. BatchesInv'
    BY <1>1, <1>10 DEF Inv, BatchesInv
  <1> QED BY <1>2, <1>4, <1>7, <1>11 DEF Inv

\* Nothing is queued, held or dropped, and no batch has a handle.
LEMMA NoItems ==
    ASSUME queue' = <<>>, lost' = {}, worker' = [w \in Workers |-> IdleWorker],
           batch' \in [Batches -> Batch], \A b \in Batches : batch'[b].pc # "submitted"
    PROVE  ItemsInv' /\ BatchesInv'
  <1>1. \A b \in Batches : Queued(b)' = {} /\ Dropped(b)' = {} /\ Held(b)' = {}
    BY AllIdle DEF Queued, Dropped
  <1>2. BatchesInv'
    BY <1>1 DEF BatchesInv, AccountOK
  <1>3. ItemsInv'
    BY AllIdle DEF ItemsInv
  <1> QED BY <1>2, <1>3

\* The process dies.
LEMMA CrashKeeps ==
    ASSUME Inv, Crash
    PROVE  Inv'
  <1>1. /\ worker' = [w \in Workers |-> IdleWorker] /\ gate' = [exists |-> FALSE, inFlight |-> 0]
        /\ queue' = <<>> /\ lost' = {} /\ UNCHANGED <<row, chunks>>
        /\ batch' = [b \in Batches |-> IF batch[b].pc = "new" THEN batch[b] ELSE [NewBatch EXCEPT !.pc = "dead"]]
    BY DEF Crash
  <1>2. StoresInv'
    <2>1. count' \in CountType
      BY SMTT(30), ConstantsAssumption DEF Crash, Inv, StoresInv, CountType
    <2> QED BY <1>1, <2>1 DEF Crash, Inv, StoresInv
  <1> DEFINE q == [NewBatch EXCEPT !.pc = "dead"]
  <1>3. q \in Batch
    BY NewBatchType DEF Batch, BatchPcs
  <1>4. q.pc = "dead"
    BY NewBatchType DEF Batch
  <1>5. batch' = [b \in Batches |-> IF batch[b].pc = "new" THEN batch[b] ELSE q]
    BY <1>1
  <1> HIDE DEF q
  <1>6. batch' \in [Batches -> Batch] /\ \A b \in Batches : batch'[b].pc # "submitted"
    BY <1>3, <1>4, <1>5 DEF Inv, BatchesInv
  <1>7. gate' \in [exists : BOOLEAN, inFlight : Nat] /\ gate'.inFlight = 0
    BY <1>1
  <1>8. WorkersInv' /\ PermitsInv' /\ GateInv'
    BY <1>1, <1>7, AllIdle
  <1>9. ItemsInv' /\ BatchesInv'
    BY <1>1, <1>6, NoItems
  <1> QED BY <1>2, <1>8, <1>9 DEF Inv

-----------------------------------------------------------------------------
(* The theorems.                                                           *)

\* The program starts with idle workers and no handle.
LEMMA InvStart == Init => Inv
  <1> SUFFICES ASSUME Init PROVE Inv
    OBVIOUS
  <1>1. /\ worker = [w \in Workers |-> IdleWorker] /\ batch = [b \in Batches |-> NewBatch] /\ queue = <<>>
        /\ gate = [exists |-> FALSE, inFlight |-> 0] /\ lost = {}
    BY DEF Init
  <1>2. \A w \in Workers : worker[w] = IdleWorker /\ worker[w].pc = "idle" /\ worker[w].batch = None
    BY <1>1, IdleFacts
  <1>3. IdleWorker \in Worker /\ WorkerOK(IdleWorker)
    BY IdleFacts DEF WorkerOK
  <1>4. WorkersInv
    BY <1>1, <1>2, <1>3 DEF WorkersInv
  <1>5. \A b \in Batches : b # None
    BY ConstantsAssumption
  <1>6. Holders = {} /\ \A b \in Batches : Permits(b) = {} /\ Held(b) = {} /\ Queued(b) = {} /\ Dropped(b) = {}
    <2>1. Holders = {}
      BY <1>2 DEF Holders
    <2>2. \A b \in Batches : Permits(b) = {} /\ Held(b) = {}
      BY <1>2, <1>5 DEF Permits, Held
    <2>3. \A b \in Batches : Queued(b) = {} /\ Dropped(b) = {}
      BY <1>1 DEF Queued, Dropped
    <2> QED BY <2>1, <2>2, <2>3
  <1>7. Cardinality({}) = 0 /\ MaxConcurrent \in Nat /\ Capacity \in Nat /\ Tokens \in Nat
    BY FS_EmptySet, HoldersFinite
  <1>8. PermitsInv
    BY <1>6, <1>7 DEF PermitsInv
  <1>9. GateInv
    <2>1. Cardinality(Holders) = 0
      BY <1>6, <1>7
    <2> QED BY <1>1, <1>7, <2>1 DEF GateInv
  <1>10. ItemsInv
    BY <1>1, <1>2 DEF ItemsInv
  <1>11. NewBatch.pc = "new"
    BY DEF NewBatch
  <1>12. BatchesInv
    BY <1>1, <1>6, <1>11, NewBatchType DEF BatchesInv, AccountOK
  <1>13. StoresInv
    <2>1. \A s \in InitialStatuses : [status |-> s, content |-> None, old |-> FALSE] \in Row
      BY ConstantsAssumption DEF Row, Contents
    <2>2. row \in [Docs -> Row]
      BY <2>1 DEF Init
    <2>3. NoChunks \in [Contents -> [1..Windows -> Nat]]
      BY DEF NoChunks
    <2>4. chunks \in [Docs -> [Contents -> [1..Windows -> Nat]]]
      BY <2>3 DEF Init
    <2>5. count \in CountType
      BY ConstantsAssumption DEF Init, CountType
    <2> QED BY <2>2, <2>4, <2>5 DEF Init, StoresInv
  <1> QED BY <1>4, <1>8, <1>9, <1>10, <1>12, <1>13 DEF Inv

\* Every step keeps the invariant.
LEMMA InvStep == Inv /\ [Next]_vars => Inv'
  <1> SUFFICES ASSUME Inv, [Next]_vars PROVE Inv'
    OBVIOUS
  <1>1. ASSUME NEW b \in Batches, SubmitStep(b) PROVE Inv'
    BY <1>1, LookupKeeps, StageKeeps, FinishKeeps, RaisesKeeps DEF SubmitStep
  <1>2. ASSUME NEW w \in Workers, WorkerStep(w) PROVE Inv'
    BY <1>2, DequeueKeeps, LoadKeeps, TakePermitKeeps, ClearKeeps, AcquireKeeps, StoreKeeps, CommitKeeps
       DEF WorkerStep
  <1>3. CASE Lifecycle
    BY <1>3, AroundKeeps, ClaimKeeps, StopKeeps, CrashKeeps DEF Lifecycle, Recover
  <1>4. CASE UNCHANGED vars
    BY <1>4, OutsideKeeps DEF vars, Inv, StoresInv
  <1> QED BY <1>1, <1>2, <1>3, <1>4 DEF Next

\* Rows, chunks, queue, workers, handles and counters keep their types through every
\* interleaving of submit_batch, the pool workers, stops and crashes.
THEOREM TypeCorrect == Spec => []TypeOK
  <1>1. Inv => TypeOK
    BY DEF Inv, StoresInv, WorkersInv, GateInv, ItemsInv, BatchesInv, CountType, TypeOK
  <1> QED BY <1>1, InvStart, InvStep, PTL DEF Spec

\* The chunk semaphore's _in_flight is exactly the tokens of the windows being stored, it
\* never exceeds the capacity, and no batch has more than its own limit in progress,
\* whatever raises, stops or dies.
THEOREM SemaphoresStayExact == Spec => []SemaphoresExact
  <1>1. Inv => SemaphoresExact
    BY DEF Inv, GateInv, PermitsInv, Holders, SemaphoresExact
  <1> QED BY <1>1, InvStart, InvStep, PTL DEF Spec

\* A handle's _remaining is the number of its documents that are queued, held by a worker or
\* dropped by a cancelled one, and its done event is set exactly when there is none.
THEOREM BatchesBalance == Spec => []BatchAccounting
  <1>1. Inv => BatchAccounting
    BY DEF Inv, BatchesInv, AccountOK, BatchAccounting
  <1> QED BY <1>1, InvStart, InvStep, PTL DEF Spec
=============================================================================
