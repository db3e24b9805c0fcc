----------------------------- MODULE DreamProofs -----------------------------
(***************************************************************************)
(* Theorems about Dream, for any operations, runs and concurrent calls.    *)
(***************************************************************************)
EXTENDS Dream, TLAPS

-----------------------------------------------------------------------------
(* Types.                                                                  *)

\* A call that is under way has its run, and one at the mirror has its entry.
Carries(k) ==
    /\ k.pc # "idle" => k.run \in Runs
    /\ k.pc \in {"replay", "mirror", "queue"} => k.entry \in Entry

\* The strengthening of TypeOK: the actions of the mirror use the entry without looking at it.
TypeInv == TypeOK /\ \A c \in Calls : Carries(call[c])

\* What a call has to do at a store is a leg of its operation.
LEMMA FirstLeg ==
    ASSUME NEW legs \in SUBSET Legs, legs # {}
    PROVE  First(MirrorOrder, legs) \in legs
  <1> DEFINE P(n) == MirrorOrder[n] \in legs /\ \A k \in 1 .. n - 1 : MirrorOrder[k] \notin legs
  <1>1. DOMAIN MirrorOrder = 1 .. 4 /\ MirrorOrder[1] = "rewrite" /\ MirrorOrder[2] = "invalidate"
        /\ MirrorOrder[3] = "retire" /\ MirrorOrder[4] = "materialize"
    BY DEF MirrorOrder
  <1>2. \E n \in DOMAIN MirrorOrder : P(n)
    <2>1. CASE "rewrite" \in legs
      BY <1>1, <2>1
    <2>2. CASE "rewrite" \notin legs /\ "invalidate" \in legs
      BY <1>1, <2>2
    <2>3. CASE "rewrite" \notin legs /\ "invalidate" \notin legs /\ "retire" \in legs
      BY <1>1, <2>3
    <2>4. CASE "rewrite" \notin legs /\ "invalidate" \notin legs /\ "retire" \notin legs
      <3>1. "materialize" \in legs
        BY <2>4 DEF Legs
      <3> QED
        BY <1>1, <2>4, <3>1
    <2> QED
      BY <2>1, <2>2, <2>3, <2>4
  <1>3. P(CHOOSE n \in DOMAIN MirrorOrder : P(n))
    BY <1>2
  <1> QED
    BY <1>3 DEF First

\* What a handler may write is a set of legs.
LEMMA OutcomeType ==
    ASSUME NEW i \in Targets, pg \in [Targets -> SUBSET Legs], NEW out \in Outcomes(i)
    PROVE  out.legs \in SUBSET Legs /\ out.usage \in Nat
  <1>1. CASE i \in Edges
    BY <1>1, ConstantsAssumption DEF Outcomes, PruneOutcomes, LegsOf, Targets, Legs
  <1>2. CASE i \in Merges
    BY <1>2, ConstantsAssumption DEF Outcomes, MergeOutcomes, LegsOf, Targets, Legs
  <1>3. CASE i \in Communities
    BY <1>3, ConstantsAssumption DEF Outcomes, SummaryOutcomes, LegsOf, Targets, Legs
  <1> QED
    BY <1>1, <1>2, <1>3 DEF Targets

\* A call that moves on within its type leaves the other calls alone.
LEMMA CallUpdate ==
    ASSUME call \in [Calls -> Call], \A d \in Calls : Carries(call[d]),
           NEW c \in Calls, NEW k \in Call, Carries(k),
           call' = [call EXCEPT ![c] = k]
    PROVE  call' \in [Calls -> Call] /\ \A d \in Calls : Carries(call'[d])
  <1>1. call' \in [Calls -> Call]
    OBVIOUS
  <1>2. \A d \in Calls : call'[d] = IF d = c THEN k ELSE call[d]
    OBVIOUS
  <1> QED
    BY <1>1, <1>2

\* The resting call.
LEMMA IdleType == IdleCall \in Call /\ Carries(IdleCall)
  <1>1. <<>> \in Plans
    <2>1. 0 \in 0 .. Len(Order) /\ <<>> \in [1 .. 0 -> Ops]
      BY ConstantsAssumption
    <2> QED
      BY <2>1 DEF Plans
  <1> QED
    BY <1>1 DEF IdleCall, Call, CallPcs, Carries

\* A call at the operation loop has an operation of its plan in hand, whose number is
\* one of the plan's.
LEMMA OpType ==
    ASSUME call \in [Calls -> Call], NEW c \in Calls, InLoop(c)
    PROVE  /\ Op(c) \in Ops /\ call[c].seq \in 1 .. Len(Order)
           /\ call[c].seq \in DOMAIN call[c].plan
  <1>1. PICK n \in 0 .. Len(Order) : call[c].plan \in [1 .. n -> Ops]
    BY SMTT(30) DEF Call, Plans
  <1>2. Len(Order) \in Nat
    BY ConstantsAssumption
  <1>3. Len(call[c].plan) = n
    BY <1>1, <1>2
  <1>4. call[c].seq \in 1 .. n
    BY <1>2, <1>3 DEF InLoop, Call
  <1> QED
    BY <1>1, <1>2, <1>4 DEF Op

\* Queueing an entry leaves a set of entries.
LEMMA RowType ==
    ASSUME NEW w \in Row, NEW e \in Entry
    PROVE  Queued(w.pending, e) \in SUBSET Entry /\ {f \in w.pending : f.seq # e.seq} \in SUBSET Entry
  BY DEF Row, Queued

\* Every step of a call, an undo and a crash keep the stores and the calls well-formed.
LEMMA TypeStep == TypeInv /\ [Next]_vars => TypeInv'
  <1> SUFFICES ASSUME TypeInv, [Next]_vars PROVE TypeInv'
    OBVIOUS
  <1>0. /\ pg \in [Targets -> SUBSET Legs] /\ graph \in [Targets -> SUBSET Legs]
        /\ row \in [Runs -> Row] /\ undoFile \in [Runs -> SUBSET UndoRecord]
        /\ lock \in Calls \cup {None} /\ flag \in [Runs -> Calls \cup {None}]
        /\ call \in [Calls -> Call] /\ \A d \in Calls : Carries(call[d])
        /\ undo \in [op : Merges \cup {None}, todo : SUBSET Legs]
        /\ today \in Nat /\ undone \subseteq Merges
    BY DEF TypeInv, TypeOK
  <1> DEFINE CallGoal == call' \in [Calls -> Call] /\ \A d \in Calls : Carries(call'[d])
             StoreGoal == /\ pg' \in [Targets -> SUBSET Legs] /\ graph' \in [Targets -> SUBSET Legs]
                          /\ row' \in [Runs -> Row] /\ undoFile' \in [Runs -> SUBSET UndoRecord]
             OtherGoal == /\ lock' \in Calls \cup {None} /\ flag' \in [Runs -> Calls \cup {None}]
                          /\ undo' \in [op : Merges \cup {None}, todo : SUBSET Legs]
                          /\ today' \in Nat /\ undone' \subseteq Merges
             Goal == CallGoal /\ StoreGoal /\ OtherGoal
  <1> SUFFICES Goal
    BY DEF TypeInv, TypeOK, Carries
  <1>1. CASE UNCHANGED vars
    BY <1>0, <1>1 DEF vars, stores
  <1>2. ASSUME NEW c \in Calls, Step(c) PROVE Goal
    <2>0. call[c] \in Call /\ Carries(call[c]) /\ (call[c].pc # "idle" => call[c].run \in Runs /\ row[call[c].run] \in Row)
      BY <1>0 DEF Carries
    <2>1. ASSUME NEW r \in Runs, NEW mode \in {"dry-run", "apply"}, Begin(c, r, mode) PROVE Goal
      <3> DEFINE k == [IdleCall EXCEPT !.pc = "lock", !.run = r, !.mode = mode,
                                       !.resume = (row[r].state # "none")]
      <3>1. k \in Call /\ Carries(k)
        BY IdleType DEF IdleCall, Call, CallPcs, Carries
      <3>2. CallGoal
        BY <1>0, <2>1, <3>1, CallUpdate DEF Begin
      <3> QED
        BY <1>0, <2>1, <3>2 DEF Begin, stores
    <2>2. CASE AcquireLock(c)
      <3> DEFINE k == [call[c] EXCEPT !.pc = IF call[c].resume THEN "plan" ELSE "init"]
      <3>1. k \in Call /\ Carries(k)
        BY <2>0, <2>2 DEF AcquireLock, Call, CallPcs, Carries
      <3>2. call' = [call EXCEPT ![c] = k]
        BY <2>2 DEF AcquireLock, Goto
      <3>3. CallGoal
        BY <1>0, <3>1, <3>2, CallUpdate
      <3> QED
        BY <1>0, <2>0, <2>2, <3>3 DEF AcquireLock, stores
    <2>3. CASE LockTimeout(c)
      <3> DEFINE k == [call[c] EXCEPT !.pc = "fail"]
      <3>1. k \in Call /\ Carries(k)
        BY <2>0, <2>3 DEF LockTimeout, Call, CallPcs, Carries
      <3>2. call' = [call EXCEPT ![c] = k]
        BY <2>3 DEF LockTimeout, Goto
      <3>3. CallGoal
        BY <1>0, <3>1, <3>2, CallUpdate
      <3> QED
        BY <1>0, <2>0, <2>3, <3>3 DEF LockTimeout, stores
    <2>4. CASE InitRow(c)
      <3> DEFINE k == [call[c] EXCEPT !.pc = "plan"]
      <3>1. k \in Call /\ Carries(k)
        BY <2>0, <2>4 DEF InitRow, Call, CallPcs, Carries
      <3>2. call' = [call EXCEPT ![c] = k]
        BY <2>4 DEF InitRow, Goto
      <3>3. CallGoal
        BY <1>0, <3>1, <3>2, CallUpdate
      <3>4. StoreGoal
        BY <1>0, <2>0, <2>4 DEF InitRow, Carries, NewRow, Row
      <3> QED
        BY <1>0, <2>0, <2>4, <3>3, <3>4 DEF InitRow, stores
    <2>5. CASE PlanPhase(c)
      <3>0. PICK plan \in Plans : call' = [call EXCEPT ![c].pc = "persist", ![c].plan = plan]
        BY <2>5 DEF PlanPhase
      <3> DEFINE k == [call[c] EXCEPT !.pc = "persist", !.plan = plan]
      <3>1. k \in Call /\ Carries(k)
        BY <2>0, <2>5 DEF PlanPhase, Call, CallPcs, Carries
      <3>2. call' = [call EXCEPT ![c] = k]
        BY <3>0
      <3>3. CallGoal
        BY <1>0, <3>1, <3>2, CallUpdate
      <3> QED
        BY <1>0, <2>0, <2>5, <3>3 DEF PlanPhase, stores
    <2>6. CASE PersistPlan(c)
      <3> DEFINE k == [call[c] EXCEPT !.pc = IF call[c].mode = "apply" THEN "read" ELSE "complete"]
      <3>1. k \in Call /\ Carries(k)
        BY <2>0, <2>6 DEF PersistPlan, Call, CallPcs, Carries
      <3>2. call' = [call EXCEPT ![c] = k]
        BY <2>6 DEF PersistPlan, Goto
      <3>3. CallGoal
        BY <1>0, <3>1, <3>2, CallUpdate
      <3>4. StoreGoal
        BY <1>0, <2>0, <2>6 DEF PersistPlan, Carries, Row
      <3> QED
        BY <1>0, <2>0, <2>6, <3>3, <3>4 DEF PersistPlan, stores
    <2>7. CASE ReadCheckpoint(c)
      <3> DEFINE k == [call[c] EXCEPT !.pc = "list", !.last = row[call[c].run].last]
      <3>1. k \in Call /\ Carries(k)
        BY <2>0, <2>7 DEF ReadCheckpoint, Call, CallPcs, Carries, Row
      <3>2. call' = [call EXCEPT ![c] = k]
        BY <2>7 DEF ReadCheckpoint, Goto
      <3>3. CallGoal
        BY <1>0, <3>1, <3>2, CallUpdate
      <3> QED
        BY <1>0, <2>0, <2>7, <3>3 DEF ReadCheckpoint, stores
    <2>8. CASE ListPending(c)
      <3> DEFINE backlog == UNION {row[r].pending : r \in Runs}
                 k == [call[c] EXCEPT !.pc = "drain", !.backlog = backlog]
                 j == [call[c] EXCEPT !.pc = "drain"]
      <3>1. backlog \in SUBSET Entry
        BY <1>0 DEF Row
      <3> HIDE DEF backlog
      <3>2. k \in Call /\ Carries(k) /\ j \in Call /\ Carries(j)
        BY <2>0, <2>8, <3>1 DEF ListPending, Call, CallPcs, Carries
      <3>3. call' = [call EXCEPT ![c] = k] \/ call' = [call EXCEPT ![c] = j]
        BY <2>8 DEF ListPending, Goto, backlog
      <3>4. CallGoal
        <4>1. CASE call' = [call EXCEPT ![c] = k]
          BY <1>0, <3>2, <4>1, CallUpdate
        <4>2. CASE call' = [call EXCEPT ![c] = j]
          BY <1>0, <3>2, <4>2, CallUpdate
        <4> QED
          BY <3>3, <4>1, <4>2
      <3> QED
        BY <1>0, <2>8, <3>4 DEF ListPending, stores
    <2>9. CASE DrainEntry(c)
      <3>1. PICK e \in call[c].backlog :
              call' = [call EXCEPT ![c].pc = "replay", ![c].backlog = @ \ {e}, ![c].entry = e,
                                   ![c].todo = e.legs]
        BY <2>9 DEF DrainEntry
      <3>2. e \in Entry /\ e.legs \in SUBSET Legs /\ call[c].backlog \ {e} \in SUBSET Entry
        BY <2>0 DEF Call, Entry
      <3> DEFINE k == [call[c] EXCEPT !.pc = "replay", !.backlog = @ \ {e}, !.entry = e, !.todo = e.legs]
      <3>3. k \in Call /\ Carries(k)
        BY <2>0, <2>9, <3>2 DEF DrainEntry, Call, CallPcs, Carries
      <3>4. call' = [call EXCEPT ![c] = k]
        BY <3>1
      <3>5. CallGoal
        BY <1>0, <3>3, <3>4, CallUpdate
      <3> QED
        BY <1>0, <2>9, <3>5 DEF DrainEntry, stores
    <2>10. CASE DrainDone(c)
      <3> DEFINE k == [call[c] EXCEPT !.pc = "apply", !.entry = None]
      <3>1. k \in Call /\ Carries(k)
        BY <2>0, <2>10 DEF DrainDone, Call, CallPcs, Carries
      <3>2. call' = [call EXCEPT ![c] = k]
        BY <2>10 DEF DrainDone, Goto
      <3>3. CallGoal
        BY <1>0, <3>1, <3>2, CallUpdate
      <3> QED
        BY <1>0, <2>0, <2>10, <3>3 DEF DrainDone, stores
    <2>11. CASE MirrorVerb(c)
      <3> DEFINE k == [call[c] EXCEPT !.todo = @ \ {First(MirrorOrder, call[c].todo)}]
      <3>1. k \in Call /\ Carries(k)
        BY <2>0, <2>11 DEF MirrorVerb, Call, CallPcs, Carries
      <3>2. call' = [call EXCEPT ![c] = k]
        BY <2>11 DEF MirrorVerb, Goto
      <3>3. CallGoal
        BY <1>0, <3>1, <3>2, CallUpdate
      <3>4. StoreGoal
        BY ZenonT(30), <1>0, <2>0, <2>11, FirstLeg DEF MirrorVerb, Carries, Entry, Call
      <3> QED
        BY <1>0, <2>0, <2>11, <3>3, <3>4 DEF MirrorVerb, stores
    <2>12. CASE MirrorFault(c)
      <3> DEFINE k == [call[c] EXCEPT !.pc = IF @ = "replay" THEN "drain" ELSE "queue", !.todo = {}]
      <3>1. k \in Call /\ Carries(k)
        BY <2>0, <2>12 DEF MirrorFault, Call, CallPcs, Carries
      <3>2. call' = [call EXCEPT ![c] = k]
        BY <2>12 DEF MirrorFault, Goto
      <3>3. CallGoal
        BY <1>0, <3>1, <3>2, CallUpdate
      <3> QED
        BY <1>0, <2>0, <2>12, <3>3 DEF MirrorFault, stores
    <2>13. CASE QueueMirror(c)
      <3> DEFINE k == [call[c] EXCEPT !.pc = "record"]
      <3>0. call[c].entry \in Entry /\ call[c].entry.run \in Runs /\ row[call[c].entry.run] \in Row
        BY <1>0, <2>0, <2>13 DEF QueueMirror, Carries, Entry
      <3>1. k \in Call /\ Carries(k)
        BY <2>0, <2>13 DEF QueueMirror, Call, CallPcs, Carries
      <3>2. call' = [call EXCEPT ![c] = k]
        BY <2>13 DEF QueueMirror, Goto
      <3>3. CallGoal
        BY <1>0, <3>1, <3>2, CallUpdate
      <3>4. StoreGoal
        BY <1>0, <2>0, <2>13, <3>0, RowType DEF QueueMirror, Carries, Row
      <3> QED
        BY <1>0, <2>0, <2>13, <3>3, <3>4 DEF QueueMirror, stores
    <2>14. CASE ClearMirror(c)
      <3> DEFINE k == [call[c] EXCEPT !.pc = IF call[c].pc = "replay" THEN "drain" ELSE "record"]
      <3>0. call[c].entry \in Entry /\ call[c].entry.run \in Runs /\ row[call[c].entry.run] \in Row
        BY <1>0, <2>0, <2>14 DEF ClearMirror, Carries, Entry
      <3>1. k \in Call /\ Carries(k)
        BY <2>0, <2>14 DEF ClearMirror, Call, CallPcs, Carries
      <3>2. call' = [call EXCEPT ![c] = k]
        BY <2>14 DEF ClearMirror, Goto
      <3>3. CallGoal
        BY <1>0, <3>1, <3>2, CallUpdate
      <3>4. StoreGoal
        BY <1>0, <2>0, <2>14, <3>0, RowType DEF ClearMirror, Carries, Row
      <3> QED
        BY <1>0, <2>0, <2>14, <3>3, <3>4 DEF ClearMirror, stores
    <2>15. CASE SkipOp(c)
      <3> DEFINE k == [call[c] EXCEPT !.seq = @ + 1]
      <3>1. k \in Call /\ Carries(k)
        BY <2>0, <2>15 DEF SkipOp, Call, CallPcs, Carries
      <3>2. call' = [call EXCEPT ![c] = k]
        BY <2>15 DEF SkipOp, Goto
      <3>3. CallGoal
        BY <1>0, <3>1, <3>2, CallUpdate
      <3> QED
        BY <1>0, <2>0, <2>15, <3>3 DEF SkipOp, stores
    <2>16. CASE AuditOp(c)
      <3> DEFINE k == [call[c] EXCEPT !.seq = @ + 1]
      <3>1. k \in Call /\ Carries(k)
        BY <2>0, <2>16 DEF AuditOp, Call, CallPcs, Carries
      <3>2. call' = [call EXCEPT ![c] = k]
        BY <2>16 DEF AuditOp, Goto
      <3>3. CallGoal
        BY <1>0, <3>1, <3>2, CallUpdate
      <3>4. StoreGoal
        BY <1>0, <2>0, <2>16 DEF AuditOp, Carries, Row, Call, InLoop
      <3> QED
        BY <1>0, <2>0, <2>16, <3>3, <3>4 DEF AuditOp, stores
    <2>17. CASE BudgetSkip(c)
      <3> DEFINE k == [call[c] EXCEPT !.seq = @ + 1]
      <3>1. k \in Call /\ Carries(k)
        BY <2>0, <2>17 DEF BudgetSkip, Call, CallPcs, Carries
      <3>2. call' = [call EXCEPT ![c] = k]
        BY <2>17 DEF BudgetSkip, Goto
      <3>3. CallGoal
        BY <1>0, <3>1, <3>2, CallUpdate
      <3> QED
        BY <1>0, <2>0, <2>17, <3>3 DEF BudgetSkip, stores
    <2>18. CASE ApplyOp(c)
      <3>1. /\ call[c].run \in Runs /\ Op(c) \in Targets /\ call[c].seq \in 1 .. Len(Order)
            /\ row[call[c].run] \in Row
        BY <1>0, <2>0, <2>18, OpType DEF ApplyOp, InLoop, Carries
      <3>2. PICK out \in Outcomes(Op(c)) : CommitOp(c, out)
        BY <2>18 DEF ApplyOp
      <3>3. out.legs \in SUBSET Legs /\ out.usage \in Nat
        BY <1>0, <3>1, OutcomeType
      <3> DEFINE e == OpEntry(c, out.legs)
                 k == [call[c] EXCEPT !.pc = IF NothingToMirror(e.legs) THEN "record" ELSE "mirror",
                                      !.entry = e, !.todo = e.legs, !.usage = out.usage,
                                      !.records = @ \cup {[op |-> e.op, legs |-> e.legs]}]
      <3>4. e \in Entry /\ e.legs = out.legs /\ [op |-> e.op, legs |-> e.legs] \in UndoRecord
        BY <3>1, <3>3 DEF Entry, UndoRecord, OpEntry
      <3>5. k \in Call /\ Carries(k)
        <4> HIDE DEF e
        <4> QED
          BY <2>0, <3>1, <3>3, <3>4 DEF Call, CallPcs, Carries
      <3>6. call' = [call EXCEPT ![c] = k]
        BY <3>2 DEF CommitOp
      <3>7. CallGoal
        BY <1>0, <3>5, <3>6, CallUpdate
      <3>8. pg' \in [Targets -> SUBSET Legs]
        BY <1>0, <3>1, <3>2, <3>3 DEF CommitOp, OpEntry
      <3>9. Queued(row[e.run].pending, e) \in SUBSET Entry
        BY <3>1, <3>4, RowType DEF OpEntry
      <3>10. row' \in [Runs -> Row]
        <4> DEFINE q == IF PreMarked(e.legs) THEN Queued(row[e.run].pending, e) ELSE row[e.run].pending
                   w == [row[e.run] EXCEPT !.last = e.seq, !.pending = q]
        <4>0. q \in SUBSET Entry /\ e.seq \in Nat /\ row[e.run] \in Row
          BY <3>1, <3>9 DEF Row, OpEntry
        <4>1. w \in Row
          <5> HIDE DEF q, e
          <5> QED
            BY <4>0 DEF Row
        <4>2. row' = [row EXCEPT ![call[c].run] = w]
          BY <3>2 DEF CommitOp, OpEntry
        <4> HIDE DEF w
        <4> QED
          BY <1>0, <3>1, <4>1, <4>2
      <3> QED
        BY <1>0, <2>18, <3>7, <3>8, <3>10 DEF ApplyOp
    <2>19. CASE RecordUndo(c)
      <3> DEFINE k == [call[c] EXCEPT !.pc = "apply", !.seq = @ + 1, !.entry = None, !.spent = @ + call[c].usage, !.usage = 0]
      <3>0. call[c].seq + 1 \in Nat \ {0} /\ call[c].spent + call[c].usage \in Nat /\ call[c] \in Call
        BY <2>0 DEF Call
      <3>1. k \in Call /\ Carries(k)
        BY <2>0, <2>19, <3>0 DEF RecordUndo, Call, CallPcs, Carries
      <3>2. call' = [call EXCEPT ![c] = k]
        BY <2>19 DEF RecordUndo, Goto
      <3>3. CallGoal
        BY <1>0, <3>1, <3>2, CallUpdate
      <3>4. StoreGoal
        BY <1>0, <2>0, <2>19 DEF RecordUndo, Carries, Call
      <3>5. today' \in Nat
        <4>1. call[c].usage \in Nat /\ today \in Nat
          BY <1>0, <3>0 DEF Call
        <4>2. today' = today + call[c].usage
          BY <2>19 DEF RecordUndo
        <4> QED
          BY <4>1, <4>2
      <3>6. UNCHANGED <<lock, flag, undo, undone>>
        BY <2>19 DEF RecordUndo
      <3> QED
        BY <1>0, <3>3, <3>4, <3>5, <3>6
    <2>20. CASE LoopDone(c)
      <3> DEFINE k == [call[c] EXCEPT !.pc = "complete"]
      <3>1. k \in Call /\ Carries(k)
        BY <2>0, <2>20 DEF LoopDone, Call, CallPcs, Carries
      <3>2. call' = [call EXCEPT ![c] = k]
        BY <2>20 DEF LoopDone, Goto
      <3>3. CallGoal
        BY <1>0, <3>1, <3>2, CallUpdate
      <3> QED
        BY <1>0, <2>0, <2>20, <3>3 DEF LoopDone, stores
    <2>21. CASE Complete(c)
      <3>1. call' = [call EXCEPT ![c] = IdleCall]
        BY <2>21 DEF Complete
      <3>2. CallGoal
        BY <1>0, <3>1, IdleType, CallUpdate
      <3>3. StoreGoal
        BY <1>0, <2>0, <2>21 DEF Complete, Row
      <3> QED
        BY <1>0, <2>21, <3>2, <3>3 DEF Complete
    <2>22. CASE Raise(c)
      <3> DEFINE k == [call[c] EXCEPT !.pc = "fail"]
      <3>1. k \in Call /\ Carries(k)
        BY <2>0, <2>22 DEF Raise, Call, CallPcs, Carries, InLoop
      <3>2. call' = [call EXCEPT ![c] = k]
        BY <2>22 DEF Raise, Goto
      <3>3. CallGoal
        BY <1>0, <3>1, <3>2, CallUpdate
      <3> QED
        BY <1>0, <2>0, <2>22, <3>3 DEF Raise, stores
    <2>23. CASE Fail(c)
      <3>1. call' = [call EXCEPT ![c] = IdleCall]
        BY <2>23 DEF Fail
      <3>2. CallGoal
        BY <1>0, <3>1, IdleType, CallUpdate
      <3>3. StoreGoal
        BY <1>0, <2>0, <2>23 DEF Fail, Row
      <3> QED
        BY <1>0, <2>23, <3>2, <3>3 DEF Fail
    <2> QED
      BY <1>2, <2>1, <2>2, <2>3, <2>4, <2>5, <2>6, <2>7, <2>8, <2>9, <2>10, <2>11, <2>12, <2>13, <2>14, <2>15, <2>16, <2>17, <2>18, <2>19, <2>20, <2>21, <2>22, <2>23 DEF Step
  <1>3. ASSUME NEW r \in Runs, Cancel(r) PROVE Goal
    <2>1. flag[r] \in Calls
      BY <1>0, <1>3 DEF Cancel
    <2> DEFINE k == [call[flag[r]] EXCEPT !.cancelled = TRUE]
    <2>0. call[flag[r]] \in Call /\ Carries(call[flag[r]])
      BY <1>0, <2>1
    <2>2. k \in Call /\ Carries(k)
      BY <2>0 DEF Call, Carries
    <2>3. call' = [call EXCEPT ![flag[r]] = k]
      BY <1>3 DEF Cancel
    <2>4. CallGoal
      BY <1>0, <2>1, <2>2, <2>3, CallUpdate
    <2> QED
      BY <1>0, <1>3, <2>4 DEF Cancel, stores
  <1>4. ASSUME NEW r \in Runs, NEW u \in undoFile[r], Undo(r, u) PROVE Goal
    <2>1. u.op \in Merges /\ u.legs \in SUBSET Legs
      BY <1>0, <1>4 DEF Undo, Reversible, UndoRecord
    <2> QED
      BY <1>0, <1>4, <2>1 DEF Undo, Targets
  <1>5. CASE UnmirrorVerb
    <2>1. undo.op \in Merges /\ undo.todo \in SUBSET Legs
      BY <1>0, <1>5 DEF UnmirrorVerb
    <2> QED
      BY <1>0, <1>5, <2>1 DEF UnmirrorVerb, IdleUndo, Targets
  <1>6. CASE UnmirrorFault
    BY <1>0, <1>6 DEF UnmirrorFault, IdleUndo, stores
  <1>7. CASE NewDay
    BY <1>0, <1>7 DEF NewDay, stores
  <1>8. CASE Crash
    <2>1. CallGoal
      BY <1>8, IdleType DEF Crash
    <2> QED
      BY <1>0, <1>8, <2>1 DEF Crash, IdleUndo, stores
  <1> QED
    BY <1>1, <1>2, <1>3, <1>4, <1>5, <1>6, <1>7, <1>8 DEF Next

\* Types of the initial state.
LEMMA TypeInit == Init => TypeInv
  BY IdleType DEF Init, TypeInv, TypeOK, IdleUndo, NewRow, Row, Carries

\* The dream phase keeps its types for any operations, runs and concurrent calls; in
\* particular a call at the mirror always has the entry it works on (apply_mirror_targets,
\* clear_graph_mirror_pending), and only merges are ever undone (dream_undo).
THEOREM TypeCorrect == Spec => []TypeOK
  <1>1. TypeInv => TypeOK
    BY DEF TypeInv
  <1> QED
    BY <1>1, TypeInit, TypeStep, PTL DEF Spec

-----------------------------------------------------------------------------
(* The inductive invariant.                                                *)

\* Where a call holds the namespace's lock, and where it has a row of its own.
Holding == CallPcs \ {"idle", "lock", "fail"}

\* The lock and the rows: a call past the lock holds it, a row is made once, by the only
\* call of its run, and a call that has begun to plan has its row.
LockInv == \A c \in Calls : call[c].pc \in Holding => lock = c

EmptyInv == \A r \in Runs : row[r].state = "none" => row[r].last = 0 /\ row[r].pending = {}

SeatInv ==
    \A c \in Calls :
      /\ call[c].pc = "idle" => call[c].run = None /\ ~call[c].resume
      /\ call[c].resume \/ call[c].pc \in Holding \ {"init"} => row[call[c].run].state # "none"
      /\ call[c].pc = "init" => ~call[c].resume
      /\ call[c].pc \in {"lock", "init"} /\ ~call[c].resume => row[call[c].run].state = "none"

AloneInv ==
    \A c, d \in Calls :
      c # d /\ call[c].run = call[d].run /\ call[c].run # None => row[call[c].run].state # "none"

RowsInv == LockInv /\ EmptyInv /\ SeatInv /\ AloneInv

\* The entries of run r's row: their number is their identity, they are the run's own and
\* are not ahead of the checkpoint, and what they list is committed.
PendingOK(r, w, p, u) ==
    /\ \A e \in w.pending :
         e.run = r /\ e.seq <= w.last /\ (e.op \notin u => e.legs \subseteq p[e.op])
    /\ \A e, f \in w.pending : e.seq = f.seq => e = f

\* The checkpoint is behind the operation a call is about to apply, or at the one it applied.
PositionOK(k, ws) ==
    /\ k.pc \in {"list", "drain", "replay", "apply"} =>
         ws[k.run].last <= k.last \/ ws[k.run].last < k.seq
    /\ k.pc \in {"mirror", "queue", "record"} => ws[k.run].last <= k.seq

\* What a call has read to drain is still pending.
BacklogOK(k, ws) ==
    /\ k.pc \in {"idle", "lock", "init", "plan", "persist", "read", "list"} => k.backlog = {}
    /\ k.pc \in {"drain", "replay"} => \A b \in k.backlog : b \in ws[b.run].pending
    /\ k.pc = "replay" => k.entry \in ws[k.entry.run].pending /\ k.entry \notin k.backlog

\* The operation just committed has the number of the checkpoint and owns its entry.
EntryOK(k, ws, p, u) ==
    k.pc \in {"mirror", "queue"} =>
      /\ k.entry.run = k.run /\ k.entry.seq = k.seq /\ ws[k.run].last = k.seq
      /\ \A f \in ws[k.run].pending : f.seq = k.seq => f = k.entry
      /\ k.entry.op \in Edges \cup Merges => k.entry \in ws[k.run].pending
      /\ k.entry.op \notin u => k.entry.legs \subseteq p[k.entry.op]

\* The verbs that are not left to do went through.
VerbsOK(k, g, u) ==
    k.pc \in {"replay", "mirror"} =>
      k.todo \subseteq k.entry.legs /\ (k.entry.op \notin u => k.entry.legs \ k.todo \subseteq g[k.entry.op])

\* What holds of a call on its way through the drain, the loop and the mirror.
Own(k, ws, p, g, u) ==
    PositionOK(k, ws) /\ BacklogOK(k, ws) /\ EntryOK(k, ws, p, u) /\ VerbsOK(k, g, u)

\* Some run's row lists the leg.
Listed(ws, i, leg) == \E r \in Runs : \E e \in ws[r].pending : e.op = i /\ leg \in e.legs

PendingInv == \A r \in Runs : PendingOK(r, row[r], pg, undone)
OwnInv == \A c \in Calls : Own(call[c], row, pg, graph, undone)
AheadInv == \A i \in Targets \ undone : graph[i] \subseteq pg[i]
OwedInv == \A i \in Edges \cup (Merges \ undone) : \A leg \in pg[i] \ graph[i] : Listed(row, i, leg)
UndoInv == undo.op # None => undo.op \in undone

MirrorInv == PendingInv /\ OwnInv /\ AheadInv /\ OwedInv /\ UndoInv

\* How far a call of a fresh run has come with its plan.
DoneTo(k, p, n) ==
    \A m \in DOMAIN k.plan : m <= n /\ k.plan[m] \in Edges => "invalidate" \in p[k.plan[m]]

ProgressOK(k, ws, p) ==
    /\ k.pc \in {"idle", "lock", "init", "plan", "persist", "read", "list", "drain", "replay"} => k.seq = 1
    /\ ~k.resume =>
         /\ k.pc \in {"plan", "persist", "read"} => ws[k.run].last = 0
         /\ k.last = 0
         /\ k.pc = "apply" => DoneTo(k, p, k.seq - 1)
         /\ k.pc \in {"mirror", "queue", "record"} => DoneTo(k, p, k.seq)
         /\ k.pc = "complete" /\ k.mode = "apply" /\ ~k.cancelled => DoneTo(k, p, Len(k.plan))

ProgressInv == \A c \in Calls : ProgressOK(call[c], row, pg)

-----------------------------------------------------------------------------
(* The lock and the rows.                                                  *)

\* A step of a call that holds the lock and has its row: it keeps both, and makes no row.
Inside(c) ==
    /\ call[c].pc \in Holding \ {"init"} /\ call'[c].pc \in Holding \ {"init"}
    /\ call'[c].run = call[c].run /\ call'[c].resume = call[c].resume
    /\ \A d \in Calls \ {c} : call'[d] = call[d]
    /\ lock' = lock
    /\ \A r \in Runs : /\ row'[r].state = "none" <=> row[r].state = "none"
                       /\ row[r].state = "none" => row'[r].last = row[r].last /\ row'[r].pending = row[r].pending

\* The steps between the making of the row and the end of the call are such steps.
LEMMA InsideSteps ==
    ASSUME TypeInv, RowsInv, NEW c \in Calls,
           \/ PlanPhase(c) \/ PersistPlan(c) \/ ReadCheckpoint(c) \/ ListPending(c) \/ DrainEntry(c)
           \/ DrainDone(c) \/ MirrorVerb(c) \/ MirrorFault(c) \/ QueueMirror(c) \/ ClearMirror(c)
           \/ SkipOp(c) \/ AuditOp(c) \/ BudgetSkip(c) \/ ApplyOp(c) \/ RecordUndo(c) \/ LoopDone(c)
    PROVE  Inside(c)
  <1>1. /\ call \in [Calls -> Call] /\ row \in [Runs -> Row] /\ call[c] \in Call
        /\ call[c].pc # "idle" => call[c].run \in Runs /\ row[call[c].run] \in Row
        /\ call[c].pc \in Holding \ {"init"} => row[call[c].run].state # "none"
    BY DEF TypeInv, TypeOK, RowsInv, SeatInv, Carries
  <1>2. \A d \in Calls : /\ call[d].pc \in {"replay", "mirror", "queue"} => call[d].entry \in Entry
    BY DEF TypeInv, Carries
  <1> DEFINE Stay == /\ call'[c].run = call[c].run /\ call'[c].resume = call[c].resume
                     /\ \A d \in Calls \ {c} : call'[d] = call[d]
                     /\ call'[c].pc \in Holding \ {"init"}
  <1>3. CASE PlanPhase(c)
    <2>0. PICK plan \in Plans : call' = [call EXCEPT ![c].pc = "persist", ![c].plan = plan]
      BY <1>3 DEF PlanPhase
    <2>1. Stay /\ call[c].pc \in Holding \ {"init"}
      BY <1>1, <1>3, <2>0 DEF PlanPhase, Call, Holding, CallPcs
    <2> QED
      BY <1>3, <2>1 DEF PlanPhase, Inside, stores
  <1>4. CASE ReadCheckpoint(c)
    <2>1. Stay /\ call[c].pc \in Holding \ {"init"}
      BY <1>1, <1>4 DEF ReadCheckpoint, Call, Holding, CallPcs
    <2> QED
      BY <1>4, <2>1 DEF ReadCheckpoint, Inside, stores
  <1>5. CASE ListPending(c)
    <2>1. Stay /\ call[c].pc \in Holding \ {"init"}
      BY <1>1, <1>5 DEF ListPending, Goto, Call, Holding, CallPcs
    <2> QED
      BY <1>5, <2>1 DEF ListPending, Inside, stores
  <1>6. CASE DrainEntry(c)
    <2>0. PICK e : call' = [call EXCEPT ![c].pc = "replay", ![c].backlog = @ \ {e}, ![c].entry = e,
                                        ![c].todo = e.legs]
      BY <1>6 DEF DrainEntry
    <2>1. Stay /\ call[c].pc \in Holding \ {"init"}
      BY <1>1, <1>6, <2>0 DEF DrainEntry, Call, Holding, CallPcs
    <2> QED
      BY <1>6, <2>1 DEF DrainEntry, Inside, stores
  <1>7. CASE DrainDone(c)
    <2>1. Stay /\ call[c].pc \in Holding \ {"init"}
      BY <1>1, <1>7 DEF DrainDone, Call, Holding, CallPcs
    <2> QED
      BY <1>7, <2>1 DEF DrainDone, Inside, stores
  <1>8. CASE MirrorVerb(c)
    <2>1. Stay /\ call[c].pc \in Holding \ {"init"}
      BY <1>1, <1>8 DEF MirrorVerb, Call, Holding, CallPcs
    <2> QED
      BY <1>8, <2>1 DEF MirrorVerb, Inside, stores
  <1>9. CASE MirrorFault(c)
    <2>1. Stay /\ call[c].pc \in Holding \ {"init"}
      BY <1>1, <1>9 DEF MirrorFault, Call, Holding, CallPcs
    <2> QED
      BY <1>9, <2>1 DEF MirrorFault, Inside, stores
  <1>10. CASE SkipOp(c)
    <2>1. Stay /\ call[c].pc \in Holding \ {"init"}
      BY <1>1, <1>10 DEF SkipOp, InLoop, Call, Holding, CallPcs
    <2> QED
      BY <1>10, <2>1 DEF SkipOp, Inside, stores
  <1>11. CASE BudgetSkip(c)
    <2>1. Stay /\ call[c].pc \in Holding \ {"init"}
      BY <1>1, <1>11 DEF BudgetSkip, InLoop, Call, Holding, CallPcs
    <2> QED
      BY <1>11, <2>1 DEF BudgetSkip, Inside, stores
  <1>12. CASE RecordUndo(c)
    <2>1. Stay /\ call[c].pc \in Holding \ {"init"}
      BY <1>1, <1>12 DEF RecordUndo, Call, Holding, CallPcs
    <2> QED
      BY <1>12, <2>1 DEF RecordUndo, Inside, stores
  <1>13. CASE LoopDone(c)
    <2>1. Stay /\ call[c].pc \in Holding \ {"init"}
      BY <1>1, <1>13 DEF LoopDone, Goto, Call, Holding, CallPcs
    <2> QED
      BY <1>13, <2>1 DEF LoopDone, Inside, stores
  <1>14. CASE PersistPlan(c)
    <2>1. Stay /\ call[c].pc \in Holding \ {"init"}
      BY <1>1, <1>14 DEF PersistPlan, Goto, Call, Holding, CallPcs
    <2>2. row[call[c].run].state # "none" /\ call[c].run \in Runs /\ row[call[c].run] \in Row
      BY <1>1, <2>1 DEF Holding
    <2>3. \A r \in Runs : /\ row'[r].state = "none" <=> row[r].state = "none"
                          /\ row[r].state = "none" => row'[r].last = row[r].last /\ row'[r].pending = row[r].pending
      BY <1>1, <1>14, <2>2 DEF PersistPlan, Row
    <2> QED
      BY <1>14, <2>1, <2>3 DEF PersistPlan, Inside
  <1>15. CASE AuditOp(c)
    <2>1. Stay /\ call[c].pc \in Holding \ {"init"}
      BY <1>1, <1>15 DEF AuditOp, InLoop, Call, Holding, CallPcs
    <2>2. row[call[c].run].state # "none" /\ call[c].run \in Runs /\ row[call[c].run] \in Row
      BY <1>1, <2>1 DEF Holding
    <2>3. \A r \in Runs : /\ row'[r].state = "none" <=> row[r].state = "none"
                          /\ row[r].state = "none" => row'[r].last = row[r].last /\ row'[r].pending = row[r].pending
      BY <1>1, <1>15, <2>2 DEF AuditOp, Row
    <2> QED
      BY <1>15, <2>1, <2>3 DEF AuditOp, Inside
  <1>16. CASE QueueMirror(c)
    <2>1. Stay /\ call[c].pc \in Holding \ {"init"}
      BY <1>1, <1>16 DEF QueueMirror, Goto, Call, Holding, CallPcs
    <2>2. row[call[c].run].state # "none" /\ call[c].run \in Runs
      BY <1>1, <2>1 DEF Holding
    <2>3. \A r \in Runs : /\ row'[r].state = "none" <=> row[r].state = "none"
                          /\ row[r].state = "none" => row'[r].last = row[r].last /\ row'[r].pending = row[r].pending
      BY <1>1, <1>16, <2>2 DEF QueueMirror, Row
    <2> QED
      BY <1>16, <2>1, <2>3 DEF QueueMirror, Inside
  <1>17. CASE ClearMirror(c)
    <2>1. Stay /\ call[c].pc \in Holding \ {"init"}
      BY <1>1, <1>17 DEF ClearMirror, Goto, Call, Holding, CallPcs
    <2>2. call[c].entry.run \in Runs
      BY <1>2, <1>17 DEF ClearMirror, Entry
    <2>3. row[call[c].entry.run].state = "none" => row[call[c].entry.run].pending = {}
      BY <2>2 DEF RowsInv, EmptyInv
    <2>4. row' = [row EXCEPT ![call[c].entry.run] =
                    [row[call[c].entry.run] EXCEPT !.pending = {f \in @ : f.seq # call[c].entry.seq}]]
      BY <1>17 DEF ClearMirror
    <2>5. \A r \in Runs : /\ row'[r].state = "none" <=> row[r].state = "none"
                          /\ row[r].state = "none" => row'[r].last = row[r].last /\ row'[r].pending = row[r].pending
      <3> SUFFICES ASSUME NEW r \in Runs
                   PROVE  /\ row'[r].state = "none" <=> row[r].state = "none"
                          /\ row[r].state = "none" => row'[r].last = row[r].last /\ row'[r].pending = row[r].pending
        OBVIOUS
      <3>1. CASE r # call[c].entry.run
        BY <1>1, <2>2, <2>4, <3>1
      <3>2. CASE r = call[c].entry.run
        <4>1. row'[r] = [row[r] EXCEPT !.pending = {f \in @ : f.seq # call[c].entry.seq}]
          BY <1>1, <2>2, <2>4, <3>2
        <4>2. row[r] \in Row
          BY <1>1
        <4> QED
          BY <2>3, <3>2, <4>1, <4>2 DEF Row
      <3> QED
        BY <3>1, <3>2
    <2> QED
      BY <1>17, <2>1, <2>5 DEF ClearMirror, Inside
  <1>18. CASE ApplyOp(c)
    <2>0. PICK out \in Outcomes(Op(c)) : CommitOp(c, out)
      BY <1>18 DEF ApplyOp
    <2> DEFINE e == OpEntry(c, out.legs)
               pc == IF NothingToMirror(e.legs) THEN "record" ELSE "mirror"
    <2>1. Stay /\ call[c].pc \in Holding \ {"init"}
      <3>1. call' = [call EXCEPT ![c].pc = pc, ![c].entry = e, ![c].todo = e.legs, ![c].usage = out.usage,
                                 ![c].records = @ \cup {[op |-> e.op, legs |-> e.legs]}]
        BY <2>0 DEF CommitOp
      <3>2. pc \in Holding \ {"init"} /\ call[c].pc \in Holding \ {"init"}
        BY <1>18 DEF ApplyOp, InLoop, Holding, CallPcs
      <3> HIDE DEF e, pc
      <3> QED
        BY <1>1, <3>1, <3>2 DEF Call
    <2>2. row[call[c].run].state # "none" /\ call[c].run \in Runs
      BY <1>1, <2>1 DEF Holding
    <2> DEFINE q == IF PreMarked(e.legs) THEN Queued(row[e.run].pending, e) ELSE row[e.run].pending
    <2>3. row' = [row EXCEPT ![call[c].run].last = call[c].seq, ![call[c].run].pending = q]
      BY <2>0 DEF CommitOp, OpEntry
    <2> HIDE DEF q
    <2>4. \A r \in Runs : /\ row'[r].state = "none" <=> row[r].state = "none"
                          /\ row[r].state = "none" => row'[r].last = row[r].last /\ row'[r].pending = row[r].pending
      BY <1>1, <2>2, <2>3 DEF Row
    <2> QED
      BY <1>18, <2>1, <2>4 DEF ApplyOp, Inside
  <1> QED
    BY <1>3, <1>4, <1>5, <1>6, <1>7, <1>8, <1>9, <1>10, <1>11, <1>12, <1>13, <1>14, <1>15, <1>16, <1>17, <1>18, <1>18

\* A step inside the lock keeps the lock and the rows in order.
LEMMA RowsInside ==
    ASSUME TypeInv, RowsInv, NEW c \in Calls, Inside(c)
    PROVE  RowsInv'
  <1>1. /\ \A d \in Calls : call'[d].run = call[d].run /\ call'[d].resume = call[d].resume
        /\ \A d \in Calls : d # c => call'[d] = call[d]
        /\ \A d \in Calls : call[d].pc # "idle" => call[d].run \in Runs
        /\ None \notin Runs
    BY ConstantsAssumption DEF Inside, TypeInv, Carries
  <1>2. LockInv'
    BY <1>1 DEF LockInv, Inside, RowsInv
  <1>3. EmptyInv'
    BY DEF EmptyInv, Inside, RowsInv
  <1>4. \A d \in Calls : call[d].run = None \/ call[d].run \in Runs
    BY <1>1 DEF RowsInv, SeatInv
  <1>5. SeatInv'
    BY <1>1, <1>4 DEF SeatInv, Inside, RowsInv, Holding
  <1>6. AloneInv'
    BY <1>1, <1>4 DEF AloneInv, Inside, RowsInv
  <1> QED
    BY <1>2, <1>3, <1>5, <1>6 DEF RowsInv

\* Every step keeps the lock and the rows in order.
LEMMA RowsStep == TypeInv /\ RowsInv /\ [Next]_vars => RowsInv'
  <1> SUFFICES ASSUME TypeInv, RowsInv, [Next]_vars PROVE RowsInv'
    OBVIOUS
  <1>0. /\ call \in [Calls -> Call] /\ row \in [Runs -> Row] /\ flag \in [Runs -> Calls \cup {None}]
        /\ \A d \in Calls : call[d].pc # "idle" => call[d].run \in Runs
        /\ \A d \in Calls : call[d].run = None \/ call[d].run \in Runs
        /\ None \notin Runs /\ None \notin Calls
    BY ConstantsAssumption DEF TypeInv, TypeOK, RowsInv, Carries, Call
  <1> USE DEF RowsInv
  <1>1. CASE UNCHANGED <<call, row, lock>>
    BY <1>1 DEF LockInv, EmptyInv, SeatInv, AloneInv
  <1>2. ASSUME NEW c \in Calls, Step(c) PROVE RowsInv'
    <2>0. call[c] \in Call
      BY <1>0
    <2>1. ASSUME NEW r \in Runs, NEW mode \in {"dry-run", "apply"}, Begin(c, r, mode) PROVE RowsInv'
      <3>1. /\ call'[c].pc = "lock" /\ call'[c].run = r
            /\ call'[c].resume = (row[r].state # "none")
            /\ \A d \in Calls : d # c => call'[d] = call[d]
            /\ row' = row /\ lock' = lock
            /\ row[r].state = "none" => \A d \in Calls : call[d].run # r
        BY <1>0, <2>1 DEF Begin, IdleCall, stores
      <3>2. LockInv'
        BY <3>1 DEF LockInv, Holding
      <3>3. EmptyInv'
        BY <3>1 DEF EmptyInv
      <3>4. SeatInv'
        BY <3>1 DEF SeatInv, Holding
      <3>5. AloneInv'
        BY <3>1 DEF AloneInv
      <3> QED
        BY <3>2, <3>3, <3>4, <3>5
    <2>2. CASE AcquireLock(c)
      <3>1. /\ call[c].pc = "lock" /\ call'[c].pc = IF call[c].resume THEN "plan" ELSE "init"
            /\ call'[c].run = call[c].run /\ call'[c].resume = call[c].resume
            /\ \A d \in Calls : d # c => call'[d] = call[d]
            /\ row' = row /\ lock' = c /\ lock = None
        BY <1>0, <2>0, <2>2 DEF AcquireLock, Goto, stores, Call
      <3>2. \A d \in Calls : call[d].pc \notin Holding
        BY <1>0, <3>1 DEF LockInv
      <3>3. LockInv'
        BY <3>1, <3>2 DEF LockInv
      <3>4. EmptyInv'
        BY <3>1 DEF EmptyInv
      <3>5. SeatInv'
        BY <3>1 DEF SeatInv, Holding
      <3>6. AloneInv'
        BY <3>1 DEF AloneInv
      <3> QED
        BY <3>3, <3>4, <3>5, <3>6
    <2>3. CASE LockTimeout(c)
      <3>1. /\ call[c].pc = "lock" /\ call'[c].pc = "fail"
            /\ call'[c].run = call[c].run /\ call'[c].resume = call[c].resume
            /\ \A d \in Calls : d # c => call'[d] = call[d]
            /\ row' = row /\ lock' = lock
        BY <1>0, <2>0, <2>3 DEF LockTimeout, Goto, stores, Call
      <3>2. LockInv' /\ EmptyInv'
        BY <3>1 DEF LockInv, EmptyInv, Holding
      <3>3. SeatInv'
        BY <3>1 DEF SeatInv, Holding
      <3>4. AloneInv'
        BY <3>1 DEF AloneInv
      <3> QED
        BY <3>2, <3>3, <3>4
    <2>4. CASE InitRow(c)
      <3>1. /\ call[c].pc = "init" /\ call'[c].pc = "plan" /\ call[c].run \in Runs
            /\ call'[c].run = call[c].run /\ call'[c].resume = call[c].resume
            /\ \A d \in Calls : d # c => call'[d] = call[d]
            /\ lock' = lock
        BY <1>0, <2>0, <2>4 DEF InitRow, Goto, Call
      <3>2. /\ row'[call[c].run].state = "planning"
            /\ \A r \in Runs : r # call[c].run => row'[r] = row[r]
        BY <1>0, <2>4, <3>1 DEF InitRow, NewRow
      <3>3. row[call[c].run].state = "none" /\ ~call[c].resume
        BY <3>1 DEF SeatInv
      <3>4. \A d \in Calls : d # c => call[d].run # call[c].run
        BY <1>0, <3>1, <3>3 DEF AloneInv
      <3>5. LockInv'
        BY <3>1 DEF LockInv, Holding, CallPcs
      <3>6. EmptyInv'
        BY <3>2 DEF EmptyInv
      <3>7. SeatInv'
        <4> SUFFICES ASSUME NEW d \in Calls
                     PROVE  /\ call'[d].pc = "idle" => call'[d].run = None /\ ~call'[d].resume
                            /\ call'[d].resume \/ call'[d].pc \in Holding \ {"init"} => row'[call'[d].run].state # "none"
                            /\ call'[d].pc = "init" => ~call'[d].resume
                            /\ call'[d].pc \in {"lock", "init"} /\ ~call'[d].resume => row'[call'[d].run].state = "none"
          BY DEF SeatInv, Holding
        <4>1. CASE d = c
          BY <3>1, <3>2, <3>3, <4>1
        <4>2. CASE d # c
          <5>1. call[d].pc # "idle" => row'[call[d].run] = row[call[d].run]
            BY <1>0, <3>2, <3>4, <4>2
          <5> QED
            BY <3>1, <4>2, <5>1 DEF SeatInv, Holding
        <4> QED
          BY <4>1, <4>2
      <3>8. AloneInv'
        BY <1>0, <3>1, <3>2, <3>4 DEF AloneInv
      <3> QED
        BY <3>5, <3>6, <3>7, <3>8
    <2>5. CASE \/ PlanPhase(c) \/ PersistPlan(c) \/ ReadCheckpoint(c) \/ ListPending(c) \/ DrainEntry(c)
               \/ DrainDone(c) \/ MirrorVerb(c) \/ MirrorFault(c) \/ QueueMirror(c) \/ ClearMirror(c)
               \/ SkipOp(c) \/ AuditOp(c) \/ BudgetSkip(c) \/ ApplyOp(c) \/ RecordUndo(c) \/ LoopDone(c)
      BY <2>5, InsideSteps, RowsInside
    <2>6. CASE Complete(c)
      <3>1. /\ call[c].pc = "complete" /\ call'[c] = IdleCall /\ call[c].run \in Runs
            /\ \A d \in Calls : d # c => call'[d] = call[d]
        BY <1>0, <2>6 DEF Complete
      <3>2. /\ row'[call[c].run].state = "completed"
            /\ \A r \in Runs : r # call[c].run => row'[r] = row[r]
        BY <1>0, <2>6, <3>1 DEF Complete, Row
      <3>3. lock = c /\ row[call[c].run].state # "none"
        BY <3>1 DEF LockInv, SeatInv, Holding, CallPcs
      <3>4. LockInv'
        BY <1>0, <3>1, <3>3 DEF LockInv, IdleCall, Holding
      <3>5. EmptyInv'
        BY <3>2 DEF EmptyInv
      <3>6. \A r \in Runs : row'[r].state = "none" <=> row[r].state = "none"
        BY <3>2, <3>3
      <3>7. SeatInv'
        BY <1>0, <3>1, <3>6 DEF SeatInv, IdleCall, Holding
      <3>8. AloneInv'
        BY <1>0, <3>1, <3>6 DEF AloneInv, IdleCall
      <3> QED
        BY <3>4, <3>5, <3>7, <3>8
    <2>7. CASE Raise(c)
      <3>1. /\ call[c].pc \in Holding /\ call'[c].pc = "fail"
            /\ call'[c].run = call[c].run /\ call'[c].resume = call[c].resume
            /\ \A d \in Calls : d # c => call'[d] = call[d]
            /\ row' = row
        BY <1>0, <2>0, <2>7 DEF Raise, InLoop, Goto, stores, Call, Holding, CallPcs
      <3>2. LockInv'
        BY <1>0, <3>1 DEF LockInv, Holding
      <3>3. EmptyInv'
        BY <3>1 DEF EmptyInv
      <3>4. SeatInv'
        BY <3>1 DEF SeatInv, Holding
      <3>5. AloneInv'
        BY <3>1 DEF AloneInv
      <3> QED
        BY <3>2, <3>3, <3>4, <3>5
    <2>8. CASE Fail(c)
      <3>1. /\ call[c].pc = "fail" /\ call'[c] = IdleCall /\ call[c].run \in Runs
            /\ \A d \in Calls : d # c => call'[d] = call[d]
            /\ lock' = lock
        BY <1>0, <2>8 DEF Fail
      <3>2. \A r \in Runs : /\ row'[r].state = "none" <=> row[r].state = "none"
                            /\ row'[r].last = row[r].last /\ row'[r].pending = row[r].pending
        <4>1. CASE row' = row
          BY <4>1
        <4>2. CASE row' = [row EXCEPT ![call[c].run].state = IF @ = "none" THEN @ ELSE "failed"]
          BY <1>0, <3>1, <4>2 DEF Row
        <4> QED
          BY <2>8, <4>1, <4>2 DEF Fail
      <3>3. LockInv'
        BY <3>1 DEF LockInv, IdleCall, Holding
      <3>4. EmptyInv'
        BY <3>2 DEF EmptyInv
      <3>5. SeatInv'
        BY <1>0, <3>1, <3>2 DEF SeatInv, IdleCall, Holding
      <3>6. AloneInv'
        BY <1>0, <3>1, <3>2 DEF AloneInv, IdleCall
      <3> QED
        BY <3>3, <3>4, <3>5, <3>6
    <2> QED
      BY <1>2, <2>1, <2>2, <2>3, <2>4, <2>5, <2>6, <2>7, <2>8 DEF Step
  <1>3. ASSUME NEW r \in Runs, Cancel(r) PROVE RowsInv'
    <2>0. flag[r] \in Calls /\ call[flag[r]] \in Call
      BY <1>0, <1>3 DEF Cancel
    <2>1. /\ \A d \in Calls : /\ call'[d].pc = call[d].pc /\ call'[d].run = call[d].run
                              /\ call'[d].resume = call[d].resume
          /\ row' = row /\ lock' = lock
      BY <1>0, <1>3, <2>0 DEF Cancel, Call, stores
    <2> QED
      BY <2>1 DEF LockInv, EmptyInv, SeatInv, AloneInv
  <1>4. CASE Crash
    <2>1. (\A d \in Calls : call'[d] = IdleCall) /\ row' = row
      BY <1>4 DEF Crash, stores
    <2> QED
      BY <2>1 DEF LockInv, EmptyInv, SeatInv, AloneInv, IdleCall, Holding
  <1>5. ASSUME NEW r \in Runs, NEW u \in undoFile[r], Undo(r, u) PROVE UNCHANGED <<call, row, lock>>
    BY <1>5 DEF Undo
  <1>6. UNCHANGED vars \/ UnmirrorVerb \/ UnmirrorFault \/ NewDay => UNCHANGED <<call, row, lock>>
    BY DEF vars, UnmirrorVerb, UnmirrorFault, NewDay, stores
  <1> QED
    BY <1>1, <1>2, <1>3, <1>4, <1>5, <1>6 DEF Next

\* The lock and the rows of the initial state.
LEMMA RowsInit == Init => RowsInv
  BY DEF Init, RowsInv, LockInv, EmptyInv, SeatInv, AloneInv, IdleCall, NewRow, Holding

-----------------------------------------------------------------------------
(* The mirror and its queue.                                               *)

\* While one call holds the lock, what is said of another does not depend on the stores.
LEMMA Apart ==
    ASSUME TypeInv, LockInv, NEW c \in Calls, call[c].pc \in Holding, NEW d \in Calls, d # c,
           NEW ws, NEW p, NEW g, NEW u, Own(call[d], row, pg, graph, undone)
    PROVE  Own(call[d], ws, p, g, u)
  <1>1. call[d].pc \in {"idle", "lock", "fail"}
    BY DEF TypeInv, TypeOK, Call, Holding, LockInv
  <1> QED
    BY <1>1 DEF Own, PositionOK, BacklogOK, EntryOK, VerbsOK

\* So a step of the holder has to answer only for its own call.
LEMMA HolderOwns ==
    ASSUME TypeInv, LockInv, OwnInv, NEW c \in Calls, call[c].pc \in Holding,
           \A d \in Calls : d # c => call'[d] = call[d],
           Own(call'[c], row', pg', graph', undone')
    PROVE  OwnInv'
  <1>1. ASSUME NEW d \in Calls, d # c
        PROVE  Own(call'[d], row', pg', graph', undone')
    <2>1. Own(call[d], row, pg, graph, undone)
      BY DEF OwnInv
    <2>2. Own(call[d], row', pg', graph', undone')
      BY <1>1, <2>1, Apart
    <2> QED
      BY <1>1, <2>2
  <1>2. \A d \in Calls : Own(call'[d], row', pg', graph', undone')
    BY <1>1
  <1> QED
    BY <1>2 DEF OwnInv, Own, PositionOK, BacklogOK, EntryOK, VerbsOK

\* What is said of a call depends only on the checkpoints and the entries of the rows.
LEMMA SameRows ==
    ASSUME NEW k \in Call, Carries(k), NEW ws, NEW vs, NEW p, NEW g, NEW u,
           \A r \in Runs : ws[r].last = vs[r].last /\ ws[r].pending = vs[r].pending,
           Own(k, ws, p, g, u)
    PROVE  Own(k, vs, p, g, u)
  <1>1. /\ k.pc # "idle" => k.run \in Runs
        /\ k.pc \in {"replay", "mirror", "queue"} => k.entry.run \in Runs
        /\ \A b \in k.backlog : b.run \in Runs
    BY DEF Carries, Call, Entry
  <1>2. PositionOK(k, vs)
    BY <1>1 DEF Own, PositionOK
  <1>3. BacklogOK(k, vs)
    BY <1>1 DEF Own, BacklogOK
  <1>4. EntryOK(k, vs, p, u)
    BY <1>1 DEF Own, EntryOK
  <1> QED
    BY <1>2, <1>3, <1>4 DEF Own

\* A step that writes neither store nor the checkpoint nor the queue.
Quiet == /\ UNCHANGED <<pg, graph, undone, undo>>
         /\ \A r \in Runs : row'[r].last = row[r].last /\ row'[r].pending = row[r].pending

LEMMA QuietStep ==
    ASSUME TypeInv, TypeInv', MirrorInv, NEW c \in Calls, Quiet,
           \A d \in Calls : d # c => call'[d] = call[d],
           Own(call'[c], row, pg, graph, undone)
    PROVE  MirrorInv'
  <1>1. PendingInv' /\ AheadInv' /\ UndoInv'
    BY DEF MirrorInv, Quiet, PendingInv, PendingOK, AheadInv, UndoInv
  <1>2. OwedInv'
    BY DEF MirrorInv, Quiet, OwedInv, Listed
  <1>3. ASSUME NEW d \in Calls
        PROVE  Own(call'[d], row', pg', graph', undone')
    <2>1. Own(call'[d], row, pg, graph, undone)
      BY DEF MirrorInv, OwnInv
    <2>2. call'[d] \in Call /\ Carries(call'[d])
      BY DEF TypeInv, TypeOK, Carries
    <2>3. Own(call'[d], row', pg, graph, undone)
      BY <2>1, <2>2, SameRows DEF Quiet
    <2> QED
      BY <2>3 DEF Quiet
  <1>4. OwnInv'
    BY <1>3 DEF OwnInv, Own, PositionOK, BacklogOK, EntryOK, VerbsOK
  <1> QED
    BY <1>1, <1>2, <1>4 DEF MirrorInv

\* A step of a call that writes neither store keeps what is said of the mirror.
LEMMA QuietSteps ==
    ASSUME TypeInv, TypeInv', MirrorInv, NEW c \in Calls,
           \/ \E r \in Runs, mode \in {"dry-run", "apply"} : Begin(c, r, mode)
           \/ AcquireLock(c) \/ LockTimeout(c) \/ PlanPhase(c) \/ PersistPlan(c)
           \/ ReadCheckpoint(c) \/ ListPending(c) \/ DrainEntry(c) \/ DrainDone(c) \/ MirrorFault(c)
           \/ SkipOp(c) \/ BudgetSkip(c) \/ RecordUndo(c) \/ LoopDone(c)
           \/ Complete(c) \/ Raise(c) \/ Fail(c)
    PROVE  MirrorInv'
  <1>0. /\ call \in [Calls -> Call] /\ row \in [Runs -> Row] /\ call[c] \in Call
        /\ call[c].pc # "idle" => call[c].run \in Runs /\ row[call[c].run] \in Row
        /\ Own(call[c], row, pg, graph, undone)
    BY DEF TypeInv, TypeOK, Carries, MirrorInv, OwnInv
  <1> DEFINE Rest == \A d \in Calls : d # c => call'[d] = call[d]
             New == Own(call'[c], row, pg, graph, undone)
  <1> SUFFICES Quiet /\ Rest /\ New
    BY QuietStep
  <1> USE DEF Own
  <1>1. ASSUME NEW r \in Runs, NEW mode \in {"dry-run", "apply"}, Begin(c, r, mode)
        PROVE  Quiet /\ Rest /\ New
    <2>1. Rest /\ call'[c].pc = "lock" /\ call'[c].backlog = {}
      BY <1>0, <1>1 DEF Begin, IdleCall
    <2>2. New
      BY <2>1 DEF PositionOK, BacklogOK, EntryOK, VerbsOK
    <2> QED
      BY <1>1, <2>1, <2>2 DEF Begin, Quiet, stores
  <1>2. CASE AcquireLock(c)
    <2>1. Rest /\ call[c].pc = "lock" /\ call'[c].pc \in {"plan", "init"} /\ call'[c].backlog = call[c].backlog
      BY <1>0, <1>2 DEF AcquireLock, Goto, Call
    <2>2. New
      BY <1>0, <2>1 DEF PositionOK, BacklogOK, EntryOK, VerbsOK
    <2> QED
      BY <1>2, <2>1, <2>2 DEF AcquireLock, Quiet, stores
  <1>3. CASE LockTimeout(c)
    <2>1. Rest /\ call'[c].pc = "fail"
      BY <1>0, <1>3 DEF LockTimeout, Goto, Call
    <2>2. New
      BY <1>0, <2>1 DEF PositionOK, BacklogOK, EntryOK, VerbsOK
    <2> QED
      BY <1>3, <2>1, <2>2 DEF LockTimeout, Quiet, stores
  <1>4. CASE PlanPhase(c)
    <2>0. PICK plan \in Plans : call' = [call EXCEPT ![c].pc = "persist", ![c].plan = plan]
      BY <1>4 DEF PlanPhase
    <2>1. Rest /\ call[c].pc = "plan" /\ call'[c].pc = "persist" /\ call'[c].backlog = call[c].backlog
      BY <1>0, <1>4, <2>0 DEF PlanPhase, Call
    <2>2. New
      BY <1>0, <2>1 DEF PositionOK, BacklogOK, EntryOK, VerbsOK
    <2> QED
      BY <1>4, <2>1, <2>2 DEF PlanPhase, Quiet, stores
  <1>5. CASE PersistPlan(c)
    <2>1. /\ Rest /\ call[c].pc = "persist" /\ call'[c].pc \in {"read", "complete"}
          /\ call'[c].backlog = call[c].backlog /\ call[c].run \in Runs
      BY <1>0, <1>5 DEF PersistPlan, Goto, Call
    <2>2. New
      BY <1>0, <2>1 DEF PositionOK, BacklogOK, EntryOK, VerbsOK
    <2>3. Quiet
      BY <1>0, <1>5, <2>1 DEF PersistPlan, Quiet, Row
    <2> QED
      BY <2>1, <2>2, <2>3
  <1>6. CASE ReadCheckpoint(c)
    <2>1. Rest /\ call[c].pc = "read" /\ call'[c].pc = "list" /\ call'[c].backlog = call[c].backlog
          /\ call'[c].run = call[c].run /\ call'[c].last = row[call[c].run].last /\ row[call[c].run].last \in Nat
      BY <1>0, <1>6 DEF ReadCheckpoint, Call, Row
    <2>2. New
      BY <1>0, <2>1 DEF PositionOK, BacklogOK, EntryOK, VerbsOK
    <2> QED
      BY <1>6, <2>1, <2>2 DEF ReadCheckpoint, Quiet, stores
  <1>7. CASE ListPending(c)
    <2>1. /\ Rest /\ call[c].pc = "list" /\ call'[c].pc = "drain"
          /\ call'[c].backlog \in {UNION {row[r].pending : r \in Runs}, call[c].backlog}
          /\ call'[c].run = call[c].run /\ call'[c].last = call[c].last /\ call'[c].seq = call[c].seq
      BY <1>0, <1>7 DEF ListPending, Goto, Call
    <2>2. \A r \in Runs : \A e \in row[r].pending : e.run = r
      BY DEF MirrorInv, PendingInv, PendingOK
    <2>3. \A b \in call'[c].backlog : b \in row[b.run].pending
      BY <1>0, <2>1, <2>2 DEF BacklogOK
    <2>4. New
      BY <1>0, <2>1, <2>3 DEF PositionOK, BacklogOK, EntryOK, VerbsOK
    <2> QED
      BY <1>7, <2>1, <2>4 DEF ListPending, Quiet, stores
  <1>8. CASE DrainEntry(c)
    <2>0. PICK e \in call[c].backlog :
            call' = [call EXCEPT ![c].pc = "replay", ![c].backlog = @ \ {e}, ![c].entry = e,
                                 ![c].todo = e.legs]
      BY <1>8 DEF DrainEntry
    <2>1. /\ Rest /\ call[c].pc = "drain" /\ call'[c].pc = "replay"
          /\ call'[c].backlog = call[c].backlog \ {e} /\ call'[c].entry = e /\ call'[c].todo = e.legs
          /\ call'[c].run = call[c].run /\ call'[c].last = call[c].last /\ call'[c].seq = call[c].seq
      BY <1>0, <1>8, <2>0 DEF DrainEntry, Call
    <2>2. New
      BY <1>0, <2>0, <2>1 DEF PositionOK, BacklogOK, EntryOK, VerbsOK
    <2> QED
      BY <1>8, <2>1, <2>2 DEF DrainEntry, Quiet, stores
  <1>9. CASE DrainDone(c)
    <2>1. Rest /\ call[c].pc = "drain" /\ call'[c].pc = "apply" /\ call'[c].seq = call[c].seq
          /\ call'[c].run = call[c].run /\ call'[c].last = call[c].last
      BY <1>0, <1>9 DEF DrainDone, Call
    <2>2. New
      BY <1>0, <2>1 DEF PositionOK, BacklogOK, EntryOK, VerbsOK
    <2> QED
      BY <1>9, <2>1, <2>2 DEF DrainDone, Quiet, stores
  <1>10. CASE MirrorFault(c)
    <2>1. /\ Rest /\ call[c].pc \in {"replay", "mirror"}
          /\ call'[c].pc = IF call[c].pc = "replay" THEN "drain" ELSE "queue"
          /\ call'[c].entry = call[c].entry /\ call'[c].backlog = call[c].backlog
          /\ call'[c].run = call[c].run /\ call'[c].last = call[c].last /\ call'[c].seq = call[c].seq
      BY <1>0, <1>10 DEF MirrorFault, Call
    <2>2. New
      <3>1. PositionOK(call'[c], row)
        BY <1>0, <2>1 DEF PositionOK
      <3>2. BacklogOK(call'[c], row)
        BY <1>0, <2>1 DEF BacklogOK
      <3>3. EntryOK(call'[c], row, pg, undone)
        BY <1>0, <2>1 DEF EntryOK
      <3>4. VerbsOK(call'[c], graph, undone)
        BY <2>1 DEF VerbsOK
      <3> QED
        BY <3>1, <3>2, <3>3, <3>4
    <2> QED
      BY <1>10, <2>1, <2>2 DEF MirrorFault, Quiet, stores
  <1>11. CASE SkipOp(c)
    <2>1. Rest /\ call[c].pc = "apply" /\ call'[c].pc = "apply" /\ call'[c].seq = call[c].seq + 1
          /\ call'[c].run = call[c].run /\ call'[c].last = call[c].last
          /\ call[c].run \in Runs /\ row[call[c].run].last \in Nat /\ call[c].last \in Nat /\ call[c].seq \in Nat
      BY <1>0, <1>11 DEF SkipOp, InLoop, Call, Row
    <2>2. New
      BY <1>0, <2>1 DEF PositionOK, BacklogOK, EntryOK, VerbsOK
    <2> QED
      BY <1>11, <2>1, <2>2 DEF SkipOp, Quiet, stores
  <1>12. CASE BudgetSkip(c)
    <2>1. Rest /\ call[c].pc = "apply" /\ call'[c].pc = "apply" /\ call'[c].seq = call[c].seq + 1
          /\ call'[c].run = call[c].run /\ call'[c].last = call[c].last
          /\ call[c].run \in Runs /\ row[call[c].run].last \in Nat /\ call[c].last \in Nat /\ call[c].seq \in Nat
      BY <1>0, <1>12 DEF BudgetSkip, InLoop, Call, Row
    <2>2. New
      BY <1>0, <2>1 DEF PositionOK, BacklogOK, EntryOK, VerbsOK
    <2> QED
      BY <1>12, <2>1, <2>2 DEF BudgetSkip, Quiet, stores
  <1>13. CASE RecordUndo(c)
    <2>1. Rest /\ call[c].pc = "record" /\ call'[c].pc = "apply" /\ call'[c].seq = call[c].seq + 1
          /\ call'[c].run = call[c].run /\ call'[c].last = call[c].last
          /\ call[c].run \in Runs /\ row[call[c].run].last \in Nat /\ call[c].last \in Nat /\ call[c].seq \in Nat
      BY <1>0, <1>13 DEF RecordUndo, Call, Row
    <2>2. New
      BY <1>0, <2>1 DEF PositionOK, BacklogOK, EntryOK, VerbsOK
    <2> QED
      BY <1>13, <2>1, <2>2 DEF RecordUndo, Quiet, stores
  <1>14. CASE LoopDone(c)
    <2>1. Rest /\ call'[c].pc = "complete"
      BY <1>0, <1>14 DEF LoopDone, Goto, Call
    <2>2. New
      BY <1>0, <2>1 DEF PositionOK, BacklogOK, EntryOK, VerbsOK
    <2> QED
      BY <1>14, <2>1, <2>2 DEF LoopDone, Quiet, stores
  <1>15. CASE Complete(c)
    <2>1. Rest /\ call'[c].pc = "idle" /\ call'[c].backlog = {} /\ call[c].run \in Runs
      BY <1>0, <1>15 DEF Complete, IdleCall
    <2>2. New
      BY <2>1 DEF PositionOK, BacklogOK, EntryOK, VerbsOK
    <2>3. Quiet
      BY <1>0, <1>15, <2>1 DEF Complete, Quiet, Row
    <2> QED
      BY <2>1, <2>2, <2>3
  <1>16. CASE Raise(c)
    <2>1. Rest /\ call'[c].pc = "fail"
      BY <1>0, <1>16 DEF Raise, Goto, Call
    <2>2. New
      BY <1>0, <2>1 DEF PositionOK, BacklogOK, EntryOK, VerbsOK
    <2> QED
      BY <1>16, <2>1, <2>2 DEF Raise, Quiet, stores
  <1>17. CASE Fail(c)
    <2>1. Rest /\ call'[c].pc = "idle" /\ call'[c].backlog = {} /\ call[c].run \in Runs
      BY <1>0, <1>17 DEF Fail, IdleCall
    <2>2. New
      BY <2>1 DEF PositionOK, BacklogOK, EntryOK, VerbsOK
    <2>3. Quiet
      <3>1. CASE row' = row
        BY <1>17, <3>1 DEF Fail, Quiet
      <3>2. CASE row' = [row EXCEPT ![call[c].run].state = IF @ = "none" THEN @ ELSE "failed"]
        BY <1>0, <1>17, <2>1, <3>2 DEF Fail, Quiet, Row
      <3> QED
        BY <1>17, <3>1, <3>2 DEF Fail
    <2> QED
      BY <2>1, <2>2, <2>3
  <1> QED
    BY <1>1, <1>2, <1>3, <1>4, <1>5, <1>6, <1>7, <1>8, <1>9, <1>10, <1>11, <1>12, <1>13, <1>14, <1>15, <1>16, <1>17

\* Edges and merges are pre-marked whenever there is something to mirror.
LEMMA OutcomeMarked ==
    ASSUME NEW i \in Edges \cup Merges, NEW out \in Outcomes(i), out.legs # {}
    PROVE  PreMarked(out.legs)
  <1>1. CASE i \in Edges
    BY <1>1, ConstantsAssumption DEF Outcomes, PruneOutcomes, LegsOf, Targets, PreMarked
  <1>2. CASE i \in Merges
    <2>1. i \notin Edges /\ i \notin Communities
      BY <1>2, ConstantsAssumption
    <2>2. out \in MergeOutcomes(i)
      BY <1>2, <2>1 DEF Outcomes
    <2>3. "retire" \in out.legs
      BY <2>2 DEF MergeOutcomes
    <2> QED
      BY <2>3 DEF PreMarked
  <1> QED
    BY <1>1, <1>2

\* The number of the operation to apply is ahead of the checkpoint, even when the plan of a
\* resumed run is a new one.
LEMMA Ahead ==
    ASSUME TypeInv, OwnInv, NEW c \in Calls, InLoop(c), ~Skipped(c)
    PROVE  /\ call[c].run \in Runs /\ row[call[c].run] \in Row
           /\ call[c].seq \in Nat /\ row[call[c].run].last < call[c].seq
  <1>1. /\ call[c] \in Call /\ call[c].run \in Runs /\ row[call[c].run] \in Row
        /\ PositionOK(call[c], row) /\ call[c].pc = "apply"
    BY DEF TypeInv, TypeOK, Carries, InLoop, OwnInv, Own
  <1>2. call[c].seq \in Nat /\ call[c].last \in Nat /\ row[call[c].run].last \in Nat
    BY <1>1 DEF Call, Row
  <1> QED
    BY <1>1, <1>2 DEF PositionOK, Skipped

\* The steps of the call that holds the lock and writes a store, the checkpoint or the
\* queue.  In each the proof is about the entry at hand: what it lists is committed before
\* it goes to the graph, it is struck off when the graph holds it, and no other entry has
\* its number.
LEMMA HolderSteps ==
    ASSUME TypeInv, TypeInv', RowsInv, MirrorInv, NEW c \in Calls,
           InitRow(c) \/ AuditOp(c) \/ MirrorVerb(c) \/ QueueMirror(c) \/ ClearMirror(c) \/ ApplyOp(c)
    PROVE  MirrorInv'
  <1>0. /\ call \in [Calls -> Call] /\ row \in [Runs -> Row] /\ call[c] \in Call
        /\ pg \in [Targets -> SUBSET Legs] /\ graph \in [Targets -> SUBSET Legs]
        /\ call[c].pc # "idle" => call[c].run \in Runs /\ row[call[c].run] \in Row
        /\ call[c].pc \in {"replay", "mirror", "queue"} => call[c].entry \in Entry
        /\ undone \subseteq Merges
    BY DEF TypeInv, TypeOK, Carries
  <1>1. PendingInv /\ OwnInv /\ AheadInv /\ OwedInv /\ UndoInv /\ LockInv
    BY DEF MirrorInv, RowsInv
  <1>2. Own(call[c], row, pg, graph, undone)
    BY <1>1 DEF OwnInv
  <1> DEFINE Rest == \A d \in Calls : d # c => call'[d] = call[d]
  <1>3. CASE InitRow(c)
    <2>1. /\ Rest /\ call[c].pc = "init" /\ call'[c].pc = "plan" /\ call[c].run \in Runs
          /\ call'[c].backlog = call[c].backlog
      BY <1>0, <1>3 DEF InitRow, Goto, Call
    <2>2. row[call[c].run].last = 0 /\ row[call[c].run].pending = {}
      BY <2>1 DEF RowsInv, SeatInv, EmptyInv
    <2>3. Quiet
      BY <1>0, <1>3, <2>1, <2>2 DEF InitRow, NewRow, Quiet
    <2>4. Own(call'[c], row, pg, graph, undone)
      BY <1>2, <2>1 DEF Own, PositionOK, BacklogOK, EntryOK, VerbsOK
    <2> QED
      BY <2>1, <2>3, <2>4, QuietStep
  <1>4. CASE AuditOp(c)
    <2> DEFINE r == call[c].run
    <2>1. /\ Rest /\ call[c].pc = "apply" /\ call'[c].pc = "apply" /\ call'[c].seq = call[c].seq + 1
          /\ call'[c].run = r /\ call'[c].last = call[c].last
      BY <1>0, <1>4 DEF AuditOp, InLoop, Call
    <2>2. r \in Runs /\ row[r] \in Row /\ call[c].seq \in Nat /\ row[r].last < call[c].seq
      BY <1>1, <1>4, Ahead DEF AuditOp
    <2>3. /\ row'[r].last = call[c].seq /\ \A q \in Runs : row'[q].pending = row[q].pending
          /\ \A q \in Runs : q # r => row'[q] = row[q]
          /\ pg' = pg /\ graph' = graph /\ undone' = undone /\ undo' = undo
      BY <1>0, <1>4, <2>2 DEF AuditOp, Row
    <2>4. PendingInv'
      <3> SUFFICES ASSUME NEW q \in Runs PROVE PendingOK(q, row'[q], pg, undone)
        BY <2>3 DEF PendingInv, PendingOK
      <3>1. PendingOK(q, row[q], pg, undone)
        BY <1>1 DEF PendingInv
      <3>2. CASE q # r
        BY <2>3, <3>1, <3>2
      <3>3. CASE q = r
        <4>1. \A e \in row[r].pending : e.seq \in Nat /\ row[r].last \in Nat
          BY <2>2 DEF Row, Entry
        <4> QED
          BY <2>2, <2>3, <3>1, <3>3, <4>1 DEF PendingOK
      <3> QED
        BY <3>2, <3>3
    <2>5. AheadInv' /\ UndoInv'
      BY <1>1, <2>3 DEF AheadInv, UndoInv
    <2>6. OwedInv'
      BY <1>1, <2>3 DEF OwedInv, Listed
    <2>7. Own(call'[c], row', pg', graph', undone')
      BY <2>1, <2>2, <2>3 DEF Own, PositionOK, BacklogOK, EntryOK, VerbsOK
    <2>8. OwnInv'
      BY <1>1, <2>1, <2>7, HolderOwns DEF Holding, CallPcs
    <2> QED
      BY <2>4, <2>5, <2>6, <2>8 DEF MirrorInv
  <1>5. CASE MirrorVerb(c)
    <2> DEFINE e == call[c].entry
               leg == First(MirrorOrder, call[c].todo)
    <2>0. call[c].todo \in SUBSET Legs /\ leg \in call[c].todo /\ e \in Entry /\ e.op \in Targets
      BY <1>0, <1>5, FirstLeg DEF MirrorVerb, Call, Entry
    <2>1. /\ Rest /\ call[c].pc \in {"replay", "mirror"} /\ call'[c].pc = call[c].pc
          /\ call'[c].todo = call[c].todo \ {leg} /\ call'[c].entry = e /\ call'[c].backlog = call[c].backlog
          /\ call'[c].run = call[c].run /\ call'[c].last = call[c].last /\ call'[c].seq = call[c].seq
      BY <1>0, <1>5 DEF MirrorVerb, Call
    <2>2. /\ graph'[e.op] = graph[e.op] \cup {leg}
          /\ \A i \in Targets : i # e.op => graph'[i] = graph[i]
          /\ pg' = pg /\ row' = row /\ undone' = undone /\ undo' = undo
      BY <1>0, <1>5, <2>0 DEF MirrorVerb
    <2>3. leg \in e.legs /\ (e.op \notin undone => e.legs \subseteq pg[e.op])
      <3>1. leg \in e.legs
        BY <1>2, <2>0, <2>1 DEF Own, VerbsOK
      <3>2. CASE call[c].pc = "replay"
        <4>1. e.run \in Runs /\ e \in row[e.run].pending
          BY <1>2, <2>0, <3>2 DEF Own, BacklogOK, Entry
        <4> QED
          BY <1>1, <3>1, <4>1 DEF PendingInv, PendingOK
      <3>3. CASE call[c].pc = "mirror"
        BY <1>2, <3>1, <3>3 DEF Own, EntryOK
      <3> QED
        BY <2>1, <3>2, <3>3
    <2> HIDE DEF leg
    <2>4. AheadInv'
      BY <1>1, <2>2, <2>3 DEF AheadInv
    <2>5. PendingInv' /\ UndoInv'
      BY <1>1, <2>2 DEF PendingInv, PendingOK, UndoInv
    <2>6. \A i \in Targets : graph[i] \subseteq graph'[i]
      BY <2>2
    <2>7. OwedInv'
      BY <1>0, <1>1, <2>2, <2>6 DEF OwedInv, Listed, Targets
    <2>8. Own(call'[c], row', pg', graph', undone')
      <3>1. PositionOK(call'[c], row') /\ BacklogOK(call'[c], row')
        BY <1>2, <2>1, <2>2 DEF Own, PositionOK, BacklogOK
      <3>2. EntryOK(call'[c], row', pg', undone')
        BY <1>2, <2>1, <2>2 DEF Own, EntryOK
      <3>3. VerbsOK(call'[c], graph', undone')
        BY <1>2, <2>1, <2>2 DEF Own, VerbsOK
      <3> QED
        BY <3>1, <3>2, <3>3 DEF Own
    <2>9. OwnInv'
      BY <1>1, <2>1, <2>8, HolderOwns DEF Holding, CallPcs
    <2> QED
      BY <2>4, <2>5, <2>7, <2>9 DEF MirrorInv
  <1>6. CASE QueueMirror(c)
    <2> DEFINE e == call[c].entry
               r == call[c].run
    <2>1. /\ Rest /\ call[c].pc = "queue" /\ call'[c].pc = "record" /\ r \in Runs /\ row[r] \in Row
          /\ call'[c].run = r /\ call'[c].seq = call[c].seq /\ e \in Entry /\ call[c].seq \in Nat
      BY <1>0, <1>6 DEF QueueMirror, Goto, Call
    <2>2. /\ row'[r].last = row[r].last /\ row'[r].pending = Queued(row[r].pending, e)
          /\ \A q \in Runs : q # r => row'[q] = row[q]
          /\ pg' = pg /\ graph' = graph /\ undone' = undone /\ undo' = undo
      BY <1>0, <1>6, <2>1 DEF QueueMirror, Row
    <2>3. /\ e.run = r /\ e.seq = call[c].seq /\ row[r].last = call[c].seq
          /\ \A f \in row[r].pending : f.seq = e.seq => f = e
          /\ e.op \notin undone => e.legs \subseteq pg[e.op]
      BY <1>2, <2>1 DEF Own, EntryOK
    <2>4. row'[r].pending = row[r].pending \cup {e}
      BY <2>2, <2>3 DEF Queued
    <2>5. PendingInv'
      <3> SUFFICES ASSUME NEW q \in Runs PROVE PendingOK(q, row'[q], pg, undone)
        BY <2>2 DEF PendingInv, PendingOK
      <3>1. PendingOK(q, row[q], pg, undone)
        BY <1>1 DEF PendingInv
      <3>2. CASE q # r
        BY <2>2, <3>1, <3>2
      <3>3. CASE q = r
        BY <2>1, <2>2, <2>3, <2>4, <3>1, <3>3 DEF PendingOK
      <3> QED
        BY <3>2, <3>3
    <2>6. AheadInv' /\ UndoInv'
      BY <1>1, <2>2 DEF AheadInv, UndoInv
    <2>7. \A q \in Runs : row[q].pending \subseteq row'[q].pending
      BY <2>2, <2>4
    <2>8. OwedInv'
      BY <1>1, <2>2, <2>7 DEF OwedInv, Listed
    <2>9. Own(call'[c], row', pg', graph', undone')
      BY <1>2, <2>1, <2>2 DEF Own, PositionOK, BacklogOK, EntryOK, VerbsOK
    <2>10. OwnInv'
      BY <1>1, <2>1, <2>9, HolderOwns DEF Holding, CallPcs
    <2> QED
      BY <2>5, <2>6, <2>8, <2>10 DEF MirrorInv
  <1>7. CASE ClearMirror(c)
    <2> DEFINE e == call[c].entry
    <2>1. /\ Rest /\ call[c].pc \in {"replay", "mirror"} /\ call[c].todo = {}
          /\ call'[c].pc = IF call[c].pc = "replay" THEN "drain" ELSE "record"
          /\ call'[c].backlog = call[c].backlog
          /\ call'[c].run = call[c].run /\ call'[c].last = call[c].last /\ call'[c].seq = call[c].seq
      BY <1>0, <1>7 DEF ClearMirror, Goto, Call
    <2>2. e \in Entry /\ e.run \in Runs /\ row[e.run] \in Row /\ call[c].run \in Runs
      BY <1>0, <2>1 DEF Entry
    <2>3. /\ \A q \in Runs : row'[q].last = row[q].last
          /\ row'[e.run].pending = {f \in row[e.run].pending : f.seq # e.seq}
          /\ \A q \in Runs : q # e.run => row'[q] = row[q]
          /\ pg' = pg /\ graph' = graph /\ undone' = undone /\ undo' = undo
      BY <1>0, <1>7, <2>2 DEF ClearMirror, Row
    <2>4. \A f \in row[e.run].pending : f.seq = e.seq => f = e
      <3>1. CASE call[c].pc = "replay"
        BY <1>1, <1>2, <2>2, <3>1 DEF Own, BacklogOK, PendingInv, PendingOK
      <3>2. CASE call[c].pc = "mirror"
        BY <1>2, <2>1, <3>2 DEF Own, EntryOK
      <3> QED
        BY <2>1, <3>1, <3>2
    <2>5. e.op \notin undone => e.legs \subseteq graph[e.op]
      BY <1>2, <2>1 DEF Own, VerbsOK
    <2>6. \A q \in Runs : row'[q].pending \subseteq row[q].pending
      BY <2>3
    <2>7. PendingInv'
      <3> SUFFICES ASSUME NEW q \in Runs PROVE PendingOK(q, row'[q], pg, undone)
        BY <2>3 DEF PendingInv, PendingOK
      <3>1. PendingOK(q, row[q], pg, undone)
        BY <1>1 DEF PendingInv
      <3> QED
        BY <2>3, <2>6, <3>1 DEF PendingOK
    <2>8. AheadInv' /\ UndoInv'
      BY <1>1, <2>3 DEF AheadInv, UndoInv
    <2>9. OwedInv'
      <3> SUFFICES ASSUME NEW i \in Edges \cup (Merges \ undone), NEW leg \in pg[i] \ graph[i]
                   PROVE  Listed(row', i, leg)
        BY <2>3 DEF OwedInv, Listed
      <3>0. PICK q \in Runs : \E f \in row[q].pending : f.op = i /\ leg \in f.legs
        BY <1>1 DEF OwedInv, Listed
      <3>1. PICK f \in row[q].pending : f.op = i /\ leg \in f.legs
        BY <3>0
      <3>2. i \notin undone
        BY <1>0, ConstantsAssumption
      <3>3. f # e
        BY <2>5, <3>1, <3>2
      <3>4. f \in row'[q].pending
        <4>1. CASE q # e.run
          BY <2>3, <3>1, <4>1
        <4>2. CASE q = e.run
          BY <2>3, <2>4, <3>1, <3>3, <4>2
        <4> QED
          BY <4>1, <4>2
      <3> QED
        BY <3>1, <3>4 DEF Listed
    <2>10. Own(call'[c], row', pg', graph', undone')
      <3>1. CASE call[c].pc = "replay"
        <4>1. PositionOK(call'[c], row')
          BY <1>2, <2>1, <2>2, <2>3, <3>1 DEF Own, PositionOK
        <4>2. ASSUME NEW b \in call[c].backlog PROVE b \in row'[b.run].pending
          <5>1. b \in row[b.run].pending /\ b # e /\ b.run \in Runs
            BY <1>0, <1>2, <3>1 DEF Own, BacklogOK, Call, Entry
          <5> QED
            BY <2>3, <2>4, <5>1
        <4>3. BacklogOK(call'[c], row')
          BY <2>1, <3>1, <4>2 DEF BacklogOK
        <4> QED
          BY <2>1, <3>1, <4>1, <4>3 DEF Own, EntryOK, VerbsOK
      <3>2. CASE call[c].pc = "mirror"
        BY <1>2, <2>1, <2>2, <2>3, <3>2 DEF Own, PositionOK, BacklogOK, EntryOK, VerbsOK
      <3> QED
        BY <2>1, <3>1, <3>2
    <2>11. OwnInv'
      BY <1>1, <2>1, <2>10, HolderOwns DEF Holding, CallPcs
    <2> QED
      BY <2>7, <2>8, <2>9, <2>11 DEF MirrorInv
  <1>8. CASE ApplyOp(c)
    <2> DEFINE r == call[c].run
    <2>1. PICK out \in Outcomes(Op(c)) : CommitOp(c, out)
      BY <1>8 DEF ApplyOp
    <2> DEFINE e == OpEntry(c, out.legs)
    <2>2. /\ r \in Runs /\ row[r] \in Row /\ call[c].seq \in Nat /\ row[r].last < call[c].seq
          /\ row[r].last \in Nat /\ Op(c) \in Targets
      BY <1>1, <1>8, Ahead DEF ApplyOp, Row
    <2>3. e.run = r /\ e.seq = call[c].seq /\ e.op = Op(c) /\ e.legs = out.legs
      BY DEF OpEntry
    <2>4. /\ pg'[Op(c)] = pg[Op(c)] \cup out.legs
          /\ \A i \in Targets : i # Op(c) => pg'[i] = pg[i]
          /\ graph' = graph /\ undone' = undone /\ undo' = undo
      BY <1>0, <1>8, <2>1, <2>2, <2>3 DEF CommitOp, ApplyOp
    <2>5. /\ row'[r].last = call[c].seq
          /\ row'[r].pending = IF PreMarked(out.legs) THEN Queued(row[r].pending, e) ELSE row[r].pending
          /\ \A q \in Runs : q # r => row'[q] = row[q]
      <3> DEFINE w == IF PreMarked(out.legs) THEN Queued(row[r].pending, e) ELSE row[r].pending
      <3>1. row' = [row EXCEPT ![r].last = call[c].seq, ![r].pending = w]
        BY <2>1, <2>3 DEF CommitOp
      <3> HIDE DEF w
      <3>2. row'[r].last = call[c].seq /\ row'[r].pending = w /\ \A q \in Runs : q # r => row'[q] = row[q]
        BY <1>0, <2>2, <3>1 DEF Row
      <3> QED
        BY <3>2 DEF w
    <2>6. /\ Rest /\ call'[c].pc = IF out.legs = {} THEN "record" ELSE "mirror"
          /\ call'[c].entry = e /\ call'[c].todo = out.legs
          /\ call'[c].run = r /\ call'[c].seq = call[c].seq
      <3> DEFINE pc == IF out.legs = {} THEN "record" ELSE "mirror"
                 u == [op |-> e.op, legs |-> e.legs]
      <3>1. call' = [call EXCEPT ![c].pc = pc, ![c].entry = e, ![c].todo = out.legs, ![c].usage = out.usage,
                                 ![c].records = @ \cup {u}]
        BY <2>1, <2>3 DEF CommitOp, NothingToMirror
      <3> HIDE DEF pc, e, u
      <3>2. /\ Rest /\ call'[c].pc = pc /\ call'[c].entry = e /\ call'[c].todo = out.legs
            /\ call'[c].run = r /\ call'[c].seq = call[c].seq
        BY <1>0, <3>1 DEF Call
      <3> QED
        BY <3>2 DEF pc
    <2>7. \A f \in row[r].pending : f.seq < call[c].seq /\ f.seq \in Nat
      <3>1. \A f \in row[r].pending : f.seq <= row[r].last /\ f.seq \in Nat
        BY <1>1, <2>2 DEF PendingInv, PendingOK, Row, Entry
      <3> QED
        BY <2>2, <3>1
    <2> HIDE DEF e
    <2>8. row'[r].pending = row[r].pending \cup (IF PreMarked(out.legs) THEN {e} ELSE {})
      BY <2>2, <2>3, <2>5, <2>7 DEF Queued
    <2>9. \A i \in Targets : pg[i] \subseteq pg'[i]
      BY <2>2, <2>4
    <2>10. PendingInv'
      <3> SUFFICES ASSUME NEW q \in Runs PROVE PendingOK(q, row'[q], pg', undone)
        BY <2>4 DEF PendingInv, PendingOK
      <3>1. PendingOK(q, row[q], pg, undone) /\ \A f \in row[q].pending : f.op \in Targets
        BY <1>0, <1>1 DEF PendingInv, Row, Entry
      <3>2. PendingOK(q, row[q], pg', undone)
        BY <2>9, <3>1 DEF PendingOK
      <3>3. CASE q # r
        BY <2>5, <3>2, <3>3
      <3>4. CASE q = r
        BY <2>2, <2>3, <2>4, <2>5, <2>7, <2>8, <3>2, <3>4 DEF PendingOK
      <3> QED
        BY <3>3, <3>4
    <2>11. AheadInv' /\ UndoInv'
      BY <1>1, <2>4, <2>9 DEF AheadInv, UndoInv
    <2>12. \A q \in Runs : row[q].pending \subseteq row'[q].pending
      BY <2>5, <2>8
    <2>13. OwedInv'
      <3> SUFFICES ASSUME NEW i \in Edges \cup (Merges \ undone), NEW leg \in pg'[i] \ graph[i]
                   PROVE  Listed(row', i, leg)
        BY <2>4 DEF OwedInv, Listed
      <3>1. CASE leg \in pg[i]
        BY <1>1, <2>12, <3>1 DEF OwedInv, Listed
      <3>2. CASE leg \notin pg[i]
        <4>1. i = Op(c) /\ leg \in out.legs
          BY <2>4, <3>2 DEF Targets
        <4>2. PreMarked(out.legs)
          BY <4>1, OutcomeMarked
        <4> QED
          BY <2>2, <2>3, <2>8, <4>1, <4>2 DEF Listed
      <3> QED
        BY <3>1, <3>2
    <2>14. Own(call'[c], row', pg', graph', undone')
      <3>1. CASE out.legs = {}
        BY <2>2, <2>5, <2>6, <3>1 DEF Own, PositionOK, BacklogOK, EntryOK, VerbsOK
      <3>2. CASE out.legs # {}
        <4>0. call'[c].pc = "mirror"
          BY <2>6, <3>2
        <4>1. PositionOK(call'[c], row') /\ BacklogOK(call'[c], row')
          BY <2>2, <2>5, <2>6, <4>0 DEF PositionOK, BacklogOK
        <4>2. VerbsOK(call'[c], graph', undone')
          BY <2>3, <2>6, <4>0 DEF VerbsOK
        <4>3. \A f \in row'[r].pending : f.seq = call[c].seq => f = e
          BY <2>2, <2>7, <2>8
        <4>4. e.op \in Edges \cup Merges => e \in row'[r].pending
          BY <2>3, <2>8, <3>2, OutcomeMarked
        <4>5. EntryOK(call'[c], row', pg', undone')
          BY <2>3, <2>4, <2>5, <2>6, <4>0, <4>3, <4>4 DEF EntryOK
        <4> QED
          BY <4>1, <4>2, <4>5 DEF Own
      <3> QED
        BY <3>1, <3>2
    <2>15. OwnInv'
      <3>1. call[c].pc \in Holding
        BY <1>8 DEF ApplyOp, InLoop, Holding, CallPcs
      <3> QED
        BY <1>1, <2>6, <2>14, <3>1, HolderOwns
    <2> QED
      BY <2>10, <2>11, <2>13, <2>15 DEF MirrorInv
  <1> QED
    BY <1>3, <1>4, <1>5, <1>6, <1>7, <1>8

\* An operation that dream_undo reversed is no longer spoken of, so that neither its
\* transaction nor its verbs disturb what is said of the others.
LEMMA UndoSteps ==
    ASSUME TypeInv, MirrorInv,
           UnmirrorVerb \/ \E r \in Runs : \E u \in undoFile[r] : Undo(r, u)
    PROVE  MirrorInv'
  <1>0. /\ pg \in [Targets -> SUBSET Legs] /\ graph \in [Targets -> SUBSET Legs]
        /\ row \in [Runs -> Row] /\ undone \subseteq Merges
        /\ undo \in [op : Merges \cup {None}, todo : SUBSET Legs]
        /\ \A r \in Runs : \A e \in row[r].pending : e.op \in Targets
        /\ \A c \in Calls : call[c].pc \in {"replay", "mirror", "queue"} => call[c].entry.op \in Targets
    BY DEF TypeInv, TypeOK, Carries, Row, Entry
  <1>1. PendingInv /\ OwnInv /\ AheadInv /\ OwedInv /\ UndoInv
    BY DEF MirrorInv
  <1> SUFFICES ASSUME NEW x \in Merges, x \in undone', undone' \subseteq Merges, undone \subseteq undone',
                      row' = row, call' = call, UndoInv',
                      \A i \in Targets : i # x => pg'[i] = pg[i] /\ graph'[i] = graph[i]
               PROVE  MirrorInv'
    <2>1. CASE UnmirrorVerb
      <3>1. undo.op \in Merges /\ undo.op \in undone /\ undo.op \in Targets
        BY <1>0, <1>1, <2>1 DEF UnmirrorVerb, UndoInv, Targets
      <3>2. /\ \A i \in Targets : i # undo.op => graph'[i] = graph[i]
            /\ pg' = pg /\ row' = row /\ call' = call /\ undone' = undone
        BY <1>0, <2>1 DEF UnmirrorVerb
      <3>3. undo'.op \in {undo.op, None}
        BY <1>0, <2>1 DEF UnmirrorVerb, IdleUndo
      <3>4. UndoInv'
        BY <3>1, <3>2, <3>3 DEF UndoInv
      <3> QED
        BY <1>0, <3>1, <3>2, <3>4
    <2>2. ASSUME NEW r \in Runs, NEW u \in undoFile[r], Undo(r, u) PROVE MirrorInv'
      <3>1. /\ u.op \in Merges /\ graph' = graph /\ row' = row /\ call' = call
            /\ undone' = undone \cup {u.op}
            /\ \A i \in Targets : i # u.op => pg'[i] = pg[i]
        BY <1>0, <2>2 DEF Undo, Reversible
      <3>2. undo'.op = u.op \/ undo' = undo
        BY <2>2 DEF Undo
      <3>3. UndoInv'
        BY <1>1, <3>1, <3>2 DEF UndoInv
      <3> QED
        BY <1>0, <3>1, <3>3
    <2> QED
      BY <2>1, <2>2
  <1>2. PendingInv'
    BY <1>0, <1>1 DEF PendingInv, PendingOK
  <1>3. AheadInv'
    BY <1>1 DEF AheadInv
  <1>4. OwedInv'
    <2> SUFFICES ASSUME NEW i \in Edges \cup (Merges \ undone'), NEW leg \in pg'[i] \ graph'[i]
                 PROVE  Listed(row, i, leg)
      BY DEF OwedInv, Listed
    <2>1. i # x /\ i \in Targets /\ i \in Edges \cup (Merges \ undone)
      BY ConstantsAssumption DEF Targets
    <2> QED
      BY <1>1, <2>1 DEF OwedInv
  <1>5. ASSUME NEW c \in Calls PROVE Own(call[c], row, pg', graph', undone')
    <2>1. Own(call[c], row, pg, graph, undone)
      BY <1>1 DEF OwnInv
    <2>2. EntryOK(call[c], row, pg', undone')
      BY <1>0, <2>1 DEF Own, EntryOK
    <2>3. VerbsOK(call[c], graph', undone')
      BY <1>0, <2>1 DEF Own, VerbsOK
    <2> QED
      BY <2>1, <2>2, <2>3 DEF Own
  <1>6. OwnInv'
    BY <1>5 DEF OwnInv, Own, PositionOK, BacklogOK, EntryOK, VerbsOK
  <1> QED
    BY <1>2, <1>3, <1>4, <1>6 DEF MirrorInv

\* Every step keeps what is said of the mirror.
LEMMA MirrorStep == TypeInv /\ RowsInv /\ MirrorInv /\ [Next]_vars => MirrorInv'
  <1> SUFFICES ASSUME TypeInv, RowsInv, MirrorInv, [Next]_vars PROVE MirrorInv'
    OBVIOUS
  <1>0. TypeInv'
    BY TypeStep
  <1>1. /\ call \in [Calls -> Call] /\ flag \in [Runs -> Calls \cup {None}]
        /\ PendingInv /\ OwnInv /\ AheadInv /\ OwedInv /\ UndoInv
    BY DEF TypeInv, TypeOK, MirrorInv
  <1>2. CASE UNCHANGED <<pg, graph, row, call, undone>> /\ undo'.op \in {undo.op, None}
    <2>1. PendingInv' /\ AheadInv' /\ OwedInv' /\ UndoInv'
      BY <1>1, <1>2 DEF PendingInv, PendingOK, AheadInv, OwedInv, Listed, UndoInv
    <2>2. OwnInv'
      BY <1>1, <1>2 DEF OwnInv, Own, PositionOK, BacklogOK, EntryOK, VerbsOK
    <2> QED
      BY <2>1, <2>2 DEF MirrorInv
  <1>3. ASSUME NEW c \in Calls, Step(c) PROVE MirrorInv'
    BY <1>0, <1>3, QuietSteps, HolderSteps DEF Step
  <1>4. ASSUME NEW r \in Runs, Cancel(r) PROVE MirrorInv'
    <2>1. flag[r] \in Calls /\ call[flag[r]] \in Call
      BY <1>1, <1>4 DEF Cancel
    <2> DEFINE k == call[flag[r]]
               l == call'[flag[r]]
    <2>2. /\ l.pc = k.pc /\ l.run = k.run /\ l.seq = k.seq /\ l.last = k.last /\ l.backlog = k.backlog
          /\ l.entry = k.entry /\ l.todo = k.todo
          /\ \A d \in Calls : d # flag[r] => call'[d] = call[d]
      BY <1>1, <1>4, <2>1 DEF Cancel, Call
    <2>3. Own(l, row, pg, graph, undone)
      <3>1. Own(k, row, pg, graph, undone)
        BY <1>1, <2>1 DEF OwnInv
      <3> QED
        BY <2>2, <3>1 DEF Own, PositionOK, BacklogOK, EntryOK, VerbsOK
    <2> QED
      BY <1>0, <1>4, <2>1, <2>2, <2>3, QuietStep DEF Cancel, Quiet, stores
  <1>5. CASE UnmirrorVerb \/ \E r \in Runs : \E u \in undoFile[r] : Undo(r, u)
    BY <1>5, UndoSteps
  <1>6. CASE Crash
    <2>1. UNCHANGED stores /\ undone' = undone /\ undo' = IdleUndo /\ \A d \in Calls : call'[d] = IdleCall
      BY <1>6 DEF Crash
    <2>2. PendingInv' /\ AheadInv' /\ OwedInv' /\ UndoInv'
      BY <1>1, <2>1 DEF stores, PendingInv, PendingOK, AheadInv, OwedInv, Listed, UndoInv, IdleUndo
    <2>3. OwnInv'
      BY <2>1 DEF OwnInv, Own, PositionOK, BacklogOK, EntryOK, VerbsOK, IdleCall
    <2> QED
      BY <2>2, <2>3 DEF MirrorInv
  <1>7. UNCHANGED vars \/ UnmirrorFault \/ NewDay
        => UNCHANGED <<pg, graph, row, call, undone>> /\ undo'.op \in {undo.op, None}
    BY DEF vars, UnmirrorFault, NewDay, stores, IdleUndo
  <1> QED
    BY <1>2, <1>3, <1>4, <1>5, <1>6, <1>7 DEF Next

\* The mirror and its queue in the initial state.
LEMMA MirrorInit == Init => MirrorInv
  <1> SUFFICES ASSUME Init PROVE MirrorInv
    OBVIOUS
  <1>1. PendingInv /\ AheadInv /\ UndoInv
    BY DEF Init, NewRow, IdleUndo, PendingInv, PendingOK, AheadInv, UndoInv
  <1>2. OwedInv
    BY DEF Init, OwedInv, Targets
  <1>3. OwnInv
    BY DEF Init, IdleCall, OwnInv, Own, PositionOK, BacklogOK, EntryOK, VerbsOK
  <1> QED
    BY <1>1, <1>2, <1>3 DEF MirrorInv

\* The inductive invariant.
IndInv == TypeInv /\ RowsInv /\ MirrorInv

\* It holds of every behaviour of the dream phase.
LEMMA Inductive == Spec => []IndInv
  <1>1. Init => IndInv
    BY TypeInit, RowsInit, MirrorInit DEF IndInv
  <1>2. IndInv /\ [Next]_vars => IndInv'
    BY TypeStep, RowsStep, MirrorStep DEF IndInv
  <1> QED
    BY <1>1, <1>2, PTL DEF Spec

\* MirrorOwed for any operations, runs and concurrent calls, however many crashes, failed
\* store calls, resumed runs, cancellations and undos: what Postgres holds of a pruned edge
\* or a merge and the graph does not is listed in some run's graph_mirror_pending
\* (_pre_mark_graph_mirror_pending, _merge_pending, clear_graph_mirror_pending).
THEOREM MirrorIsOwed == Spec => []MirrorOwed
  <1>1. IndInv => MirrorOwed
    <2> SUFFICES ASSUME IndInv, NEW i \in Edges \cup (Merges \ undone)
                 PROVE  /\ graph[i] \subseteq pg[i]
                        /\ \A leg \in pg[i] \ graph[i] :
                             \E r \in Runs : \E e \in row[r].pending : e.op = i /\ leg \in e.legs
      BY DEF MirrorOwed
    <2>1. i \in Targets \ undone
      BY ConstantsAssumption DEF IndInv, TypeInv, TypeOK, Targets
    <2>2. graph[i] \subseteq pg[i]
      BY <2>1 DEF IndInv, MirrorInv, AheadInv
    <2>3. \A leg \in pg[i] \ graph[i] : Listed(row, i, leg)
      BY DEF IndInv, MirrorInv, OwedInv
    <2> QED
      BY <2>2, <2>3 DEF Listed
  <1> QED
    BY <1>1, Inductive, PTL

-----------------------------------------------------------------------------
(* The checkpoint.                                                         *)

\* No step moves a checkpoint back.
LEMMA CheckpointStep ==
    ASSUME IndInv, [Next]_vars, NEW r \in Runs
    PROVE  row[r].last <= row'[r].last
  <1>0. /\ row \in [Runs -> Row] /\ row[r].last \in Nat
        /\ \A c \in Calls : call[c].pc # "idle" => call[c].run \in Runs /\ row[call[c].run] \in Row
        /\ \A c \in Calls : call[c].pc \in {"replay", "mirror"} => call[c].entry.run \in Runs
        /\ TypeInv /\ RowsInv /\ OwnInv
    BY DEF IndInv, TypeInv, TypeOK, Row, Carries, Entry, MirrorInv
  <1>1. CASE row' = row
    BY <1>0, <1>1
  <1>2. ASSUME NEW c \in Calls, InitRow(c) PROVE row[r].last <= row'[r].last
    <2>1. row[call[c].run].last = 0 /\ call[c].run \in Runs
      BY <1>0, <1>2 DEF RowsInv, SeatInv, EmptyInv, InitRow
    <2> QED
      BY <1>0, <1>2, <2>1 DEF InitRow, NewRow
  <1>3. ASSUME NEW c \in Calls, PersistPlan(c) \/ Complete(c) \/ QueueMirror(c) PROVE row[r].last <= row'[r].last
    <2>1. call[c].run \in Runs
      BY <1>0, <1>3 DEF PersistPlan, Complete, QueueMirror
    <2>2. row'[r].last = row[r].last
      BY <1>0, <1>3, <2>1 DEF PersistPlan, Complete, QueueMirror, Row
    <2> QED
      BY <1>0, <2>2
  <1>4. ASSUME NEW c \in Calls, Fail(c) PROVE row[r].last <= row'[r].last
    <2>1. call[c].run \in Runs
      BY <1>0, <1>4 DEF Fail
    <2>2. CASE row' = [row EXCEPT ![call[c].run].state = IF @ = "none" THEN @ ELSE "failed"]
      <3>1. row'[r].last = row[r].last
        BY <1>0, <2>1, <2>2 DEF Row
      <3> QED
        BY <1>0, <3>1
    <2> QED
      BY <1>1, <1>4, <2>2 DEF Fail
  <1>5. ASSUME NEW c \in Calls, ClearMirror(c) PROVE row[r].last <= row'[r].last
    <2>1. call[c].entry.run \in Runs
      BY <1>0, <1>5 DEF ClearMirror
    <2>2. row'[r].last = row[r].last
      BY <1>0, <1>5, <2>1 DEF ClearMirror, Row
    <2> QED
      BY <1>0, <2>2
  <1>6. ASSUME NEW c \in Calls, AuditOp(c) PROVE row[r].last <= row'[r].last
    <2>1. call[c].run \in Runs /\ call[c].seq \in Nat /\ row[call[c].run].last < call[c].seq
      BY <1>0, <1>6, Ahead DEF AuditOp
    <2>2. row'[r].last = IF r = call[c].run THEN call[c].seq ELSE row[r].last
      BY <1>0, <1>6, <2>1 DEF AuditOp, Row
    <2> QED
      BY <1>0, <2>1, <2>2
  <1>7. ASSUME NEW c \in Calls, ApplyOp(c) PROVE row[r].last <= row'[r].last
    <2>1. call[c].run \in Runs /\ call[c].seq \in Nat /\ row[call[c].run].last < call[c].seq
      BY <1>0, <1>7, Ahead DEF ApplyOp
    <2>2. PICK out \in Outcomes(Op(c)) : CommitOp(c, out)
      BY <1>7 DEF ApplyOp
    <2> DEFINE e == OpEntry(c, out.legs)
               w == IF PreMarked(e.legs) THEN Queued(row[e.run].pending, e) ELSE row[e.run].pending
    <2>3. row' = [row EXCEPT ![call[c].run].last = call[c].seq, ![call[c].run].pending = w]
      BY <2>2 DEF CommitOp, OpEntry
    <2> HIDE DEF w
    <2>4. row'[r].last = IF r = call[c].run THEN call[c].seq ELSE row[r].last
      BY <1>0, <2>1, <2>3 DEF Row
    <2> QED
      BY <1>0, <2>1, <2>4
  <1>8. ASSUME NEW c \in Calls,
               \/ \E q \in Runs, mode \in {"dry-run", "apply"} : Begin(c, q, mode)
               \/ AcquireLock(c) \/ LockTimeout(c) \/ PlanPhase(c) \/ ReadCheckpoint(c) \/ ListPending(c)
               \/ DrainEntry(c) \/ DrainDone(c) \/ MirrorVerb(c) \/ MirrorFault(c) \/ SkipOp(c)
               \/ BudgetSkip(c) \/ RecordUndo(c) \/ LoopDone(c) \/ Raise(c)
        PROVE  row' = row
    BY <1>8 DEF Begin, AcquireLock, LockTimeout, PlanPhase, ReadCheckpoint, ListPending, DrainEntry,
                DrainDone, MirrorVerb, MirrorFault, SkipOp, BudgetSkip, RecordUndo, LoopDone, Raise, stores
  <1>9. ASSUME NEW q \in Runs, Cancel(q) \/ \E u \in undoFile[q] : Undo(q, u)
        PROVE  row' = row
    BY <1>9 DEF Cancel, Undo, stores
  <1>10. UNCHANGED vars \/ UnmirrorVerb \/ UnmirrorFault \/ NewDay \/ Crash => row' = row
    BY DEF vars, UnmirrorVerb, UnmirrorFault, NewDay, Crash, stores
  <1>11. ASSUME NEW c \in Calls, Step(c) PROVE row[r].last <= row'[r].last
    BY <1>1, <1>2, <1>3, <1>4, <1>5, <1>6, <1>7, <1>8, <1>11 DEF Step
  <1> QED
    BY <1>1, <1>9, <1>10, <1>11 DEF Next

\* CheckpointAdvances for any instance: over crashes, resumed runs that plan afresh and
\* operations passed over by the budget, last_committed_op_seq never moves back.
THEOREM CheckpointNeverBack == Spec => CheckpointAdvances
  <1>1. IndInv /\ [Next]_vars => [\A r \in Runs : row[r].last <= row'[r].last]_vars
    BY CheckpointStep
  <1> QED
    BY <1>1, Inductive, PTL DEF Spec, CheckpointAdvances

-----------------------------------------------------------------------------
(* The outbox.                                                             *)

Primary == [i \in Edges |-> pg[i]]
Replica == [i \in Edges |-> graph[i]]

\* A step that leaves the edges of both stores and what the rows list of them alone.
LEMMA OutboxStutter ==
    ASSUME \A i \in Edges : pg'[i] = pg[i] /\ graph'[i] = graph[i],
           \A r \in Runs : \A e : e.op \in Edges => (e \in row'[r].pending <=> e \in row[r].pending)
    PROVE  UNCHANGED <<Primary, Replica, OwedLegs>>
  <1>1. Primary' = Primary /\ Replica' = Replica
    BY DEF Primary, Replica
  <1>2. OwedLegs' = OwedLegs
    <2>1. ASSUME NEW p \in Edges \X Legs
          PROVE  (\E r \in Runs : \E e \in row'[r].pending : e.op = p[1] /\ p[2] \in e.legs)
                 <=> (\E r \in Runs : \E e \in row[r].pending : e.op = p[1] /\ p[2] \in e.legs)
      <3>1. p[1] \in Edges
        OBVIOUS
      <3> QED
        BY <3>1
    <2> QED
      BY <2>1 DEF OwedLegs
  <1> QED
    BY <1>1, <1>2

\* The steps that the outbox does not see.
LEMMA OutboxHidden ==
    ASSUME IndInv,
           \/ UNCHANGED vars
           \/ \E c \in Calls :
                \/ \E q \in Runs, mode \in {"dry-run", "apply"} : Begin(c, q, mode)
                \/ AcquireLock(c) \/ LockTimeout(c) \/ InitRow(c) \/ PlanPhase(c) \/ PersistPlan(c)
                \/ ReadCheckpoint(c) \/ ListPending(c) \/ DrainEntry(c) \/ DrainDone(c) \/ MirrorFault(c)
                \/ QueueMirror(c) \/ SkipOp(c) \/ AuditOp(c) \/ BudgetSkip(c) \/ RecordUndo(c)
                \/ LoopDone(c) \/ Complete(c) \/ Raise(c) \/ Fail(c)
           \/ \E q \in Runs : Cancel(q) \/ \E u \in undoFile[q] : Undo(q, u)
           \/ UnmirrorVerb \/ UnmirrorFault \/ NewDay \/ Crash
    PROVE  UNCHANGED <<Primary, Replica, OwedLegs>>
  <1> DEFINE SameStores == \A i \in Edges : pg'[i] = pg[i] /\ graph'[i] = graph[i]
             SameRow(r) == row'[r].pending = row[r].pending
             Goal == SameStores /\ \A r \in Runs : \A e : e.op \in Edges => (e \in row'[r].pending <=> e \in row[r].pending)
  <1> SUFFICES Goal
    BY OutboxStutter
  <1>0. /\ row \in [Runs -> Row] /\ pg \in [Targets -> SUBSET Legs] /\ graph \in [Targets -> SUBSET Legs]
        /\ \A c \in Calls : call[c].pc # "idle" => call[c].run \in Runs /\ row[call[c].run] \in Row
        /\ undo \in [op : Merges \cup {None}, todo : SUBSET Legs]
        /\ Edges \subseteq Targets /\ Edges \cap Merges = {}
    BY ConstantsAssumption DEF IndInv, TypeInv, TypeOK, Carries, Targets
  <1>1. CASE UNCHANGED <<pg, graph, row>>
    BY <1>1
  <1>2. ASSUME NEW c \in Calls, InitRow(c) PROVE Goal
    <2>1. call[c].run \in Runs /\ row[call[c].run].pending = {}
      BY <1>0, <1>2 DEF InitRow, IndInv, RowsInv, SeatInv, EmptyInv
    <2>2. \A r \in Runs : SameRow(r)
      BY <1>0, <1>2, <2>1 DEF InitRow, NewRow
    <2> QED
      BY <1>2, <2>2 DEF InitRow
  <1>3. ASSUME NEW c \in Calls, PersistPlan(c) \/ Complete(c) \/ AuditOp(c) PROVE Goal
    <2>1. call[c].run \in Runs
      BY <1>0, <1>3 DEF PersistPlan, Complete, AuditOp, InLoop
    <2>2. \A r \in Runs : SameRow(r)
      BY <1>0, <1>3, <2>1 DEF PersistPlan, Complete, AuditOp, Row
    <2> QED
      BY <1>3, <2>2 DEF PersistPlan, Complete, AuditOp
  <1>4. ASSUME NEW c \in Calls, Fail(c) PROVE Goal
    <2>1. call[c].run \in Runs
      BY <1>0, <1>4 DEF Fail
    <2>2. CASE row' = [row EXCEPT ![call[c].run].state = IF @ = "none" THEN @ ELSE "failed"]
      <3>1. \A r \in Runs : SameRow(r)
        BY <1>0, <2>1, <2>2 DEF Row
      <3> QED
        BY <1>4, <3>1 DEF Fail
    <2> QED
      BY <1>1, <1>4, <2>2 DEF Fail
  <1>5. ASSUME NEW c \in Calls, QueueMirror(c) PROVE Goal
    <2> DEFINE e == call[c].entry
    <2>1. /\ call[c].run \in Runs /\ call[c].pc = "queue"
      BY <1>0, <1>5 DEF QueueMirror
    <2>2. /\ row'[call[c].run].pending = Queued(row[call[c].run].pending, e)
          /\ \A r \in Runs : r # call[c].run => row'[r] = row[r]
          /\ SameStores
      BY <1>0, <1>5, <2>1 DEF QueueMirror, Row
    <2>3. /\ \A f \in row[call[c].run].pending : f.seq = e.seq => f = e
          /\ e.op \in Edges => e \in row[call[c].run].pending
      BY <2>1 DEF IndInv, MirrorInv, OwnInv, Own, EntryOK
    <2> QED
      BY <2>2, <2>3 DEF Queued
  <1>6. ASSUME NEW c \in Calls,
               \/ \E q \in Runs, mode \in {"dry-run", "apply"} : Begin(c, q, mode)
               \/ AcquireLock(c) \/ LockTimeout(c) \/ PlanPhase(c) \/ ReadCheckpoint(c) \/ ListPending(c)
               \/ DrainEntry(c) \/ DrainDone(c) \/ MirrorFault(c) \/ SkipOp(c)
               \/ BudgetSkip(c) \/ RecordUndo(c) \/ LoopDone(c) \/ Raise(c)
        PROVE  UNCHANGED <<pg, graph, row>>
    BY <1>6 DEF Begin, AcquireLock, LockTimeout, PlanPhase, ReadCheckpoint, ListPending, DrainEntry,
                DrainDone, MirrorFault, SkipOp, BudgetSkip, RecordUndo, LoopDone, Raise, stores
  <1>7. ASSUME NEW q \in Runs, NEW u \in undoFile[q], Undo(q, u) PROVE Goal
    <2>1. u.op \in Merges /\ row' = row /\ graph' = graph
      BY <1>7 DEF Undo, Reversible
    <2>2. \A i \in Edges : pg'[i] = pg[i]
      BY <1>0, <1>7, <2>1 DEF Undo
    <2> QED
      BY <2>1, <2>2
  <1>8. CASE UnmirrorVerb
    <2>1. undo.op \in Merges /\ row' = row /\ pg' = pg
      BY <1>0, <1>8 DEF UnmirrorVerb
    <2>2. \A i \in Edges : graph'[i] = graph[i]
      BY <1>0, <1>8, <2>1 DEF UnmirrorVerb
    <2> QED
      BY <2>1, <2>2
  <1>9. UNCHANGED vars \/ UnmirrorFault \/ NewDay \/ Crash \/ (\E q \in Runs : Cancel(q))
        => UNCHANGED <<pg, graph, row>>
    BY DEF vars, UnmirrorFault, NewDay, Crash, Cancel, stores
  <1> QED
    BY <1>1, <1>2, <1>3, <1>4, <1>5, <1>6, <1>7, <1>8, <1>9

\* A mirror verb pays a debt: the leg is one of an entry that some row lists.
LEMMA OutboxReplicate ==
    ASSUME IndInv, NEW c \in Calls, MirrorVerb(c)
    PROVE  [Outbox!Next]_(Outbox!vars)
  <1> DEFINE e == call[c].entry
             leg == First(MirrorOrder, call[c].todo)
  <1>0. /\ call[c] \in Call /\ e \in Entry /\ graph \in [Targets -> SUBSET Legs] /\ call[c].run \in Runs
        /\ Own(call[c], row, pg, graph, undone) /\ Edges \subseteq Targets
        /\ call[c].pc \in {"replay", "mirror"}
    BY DEF IndInv, TypeInv, TypeOK, Carries, MirrorInv, OwnInv, MirrorVerb, Targets
  <1>1. leg \in call[c].todo /\ leg \in Legs /\ leg \in e.legs
    <2>1. call[c].todo \in SUBSET Legs /\ call[c].todo # {}
      BY <1>0 DEF MirrorVerb, Call
    <2>2. leg \in call[c].todo
      BY <2>1, FirstLeg
    <2> QED
      BY <1>0, <2>1, <2>2 DEF Own, VerbsOK
  <1>2. graph' = [graph EXCEPT ![e.op] = @ \cup {leg}] /\ pg' = pg /\ row' = row /\ e.op \in Targets
    BY <1>0 DEF MirrorVerb, Entry
  <1> HIDE DEF leg
  <1>3. OwedLegs' = OwedLegs /\ Primary' = Primary
    BY <1>2 DEF OwedLegs, Primary
  <1>4. CASE e.op \in Edges
    <2>1. \E r \in Runs : e \in row[r].pending
      BY <1>0, <1>4 DEF Own, BacklogOK, EntryOK, Entry
    <2>2. <<e.op, leg>> \in OwedLegs
      BY <1>1, <1>4, <2>1 DEF OwedLegs
    <2>3. Replica' = [Replica EXCEPT ![e.op] = @ \cup {leg}]
      BY <1>0, <1>2, <1>4 DEF Replica
    <2>4. Outbox!Replicate(e.op, leg)
      BY <1>3, <2>2, <2>3 DEF Outbox!Replicate, Primary, Replica
    <2>5. \E part \in Legs : Outbox!Replicate(e.op, part)
      BY <1>1, <2>4 DEF Outbox!Replicate
    <2> HIDE DEF e
    <2> QED
      BY <1>4, <2>5 DEF Outbox!Next
  <1>5. CASE e.op \notin Edges
    <2>1. Replica' = Replica
      BY <1>0, <1>2, <1>5 DEF Replica
    <2> QED
      BY <1>3, <2>1 DEF Outbox!vars, Primary, Replica
  <1> QED
    BY <1>4, <1>5

\* An entry is struck off when the graph holds every leg it lists.
LEMMA OutboxSettle ==
    ASSUME IndInv, NEW c \in Calls, ClearMirror(c)
    PROVE  [Outbox!Next]_(Outbox!vars)
  <1> DEFINE e == call[c].entry
  <1>0. /\ call[c] \in Call /\ e \in Entry /\ row \in [Runs -> Row] /\ call[c].run \in Runs
        /\ e.run \in Runs /\ row[e.run] \in Row /\ e.legs \subseteq Legs
        /\ Own(call[c], row, pg, graph, undone) /\ undone \subseteq Merges /\ Edges \cap Merges = {}
        /\ call[c].pc \in {"replay", "mirror"} /\ call[c].todo = {}
    BY ConstantsAssumption DEF IndInv, TypeInv, TypeOK, Carries, MirrorInv, OwnInv, ClearMirror, Entry
  <1>1. /\ row'[e.run].pending = {f \in row[e.run].pending : f.seq # e.seq}
        /\ \A q \in Runs : q # e.run => row'[q] = row[q]
        /\ pg' = pg /\ graph' = graph
    BY <1>0 DEF ClearMirror, Row
  <1>2. \A f \in row[e.run].pending : f.seq = e.seq => f = e
    <2>1. CASE call[c].pc = "replay"
      BY <1>0, <2>1 DEF IndInv, MirrorInv, Own, BacklogOK, PendingInv, PendingOK
    <2>2. CASE call[c].pc = "mirror"
      BY <1>0, <2>2 DEF Own, EntryOK
    <2> QED
      BY <1>0, <2>1, <2>2
  <1>3. /\ \A q \in Runs : row'[q].pending \subseteq row[q].pending
        /\ \A q \in Runs : \A f \in row[q].pending : f # e => f \in row'[q].pending
    BY <1>1, <1>2
  <1>4. Primary' = Primary /\ Replica' = Replica
    BY <1>1 DEF Primary, Replica
  <1>5. CASE e.op \in Edges
    <2> DEFINE paid == {leg \in e.legs : <<e.op, leg>> \notin OwedLegs'}
    <2>1. paid \subseteq Replica[e.op]
      BY <1>0, <1>5 DEF Own, VerbsOK, Replica
    <2>2. OwedLegs' = OwedLegs \ ({e.op} \X paid)
      <3>1. ASSUME NEW p \in OwedLegs' PROVE p \in OwedLegs
        <4>1. PICK q \in Runs : \E f \in row'[q].pending : f.op = p[1] /\ p[2] \in f.legs
          BY DEF OwedLegs
        <4>2. PICK f \in row'[q].pending : f.op = p[1] /\ p[2] \in f.legs
          BY <4>1
        <4>3. f \in row[q].pending
          BY <1>3
        <4>4. p \in Edges \X Legs
          BY DEF OwedLegs
        <4> QED
          BY <4>2, <4>3, <4>4 DEF OwedLegs
      <3>2. ASSUME NEW p \in OwedLegs, p \notin OwedLegs' PROVE p \in {e.op} \X paid
        <4>1. PICK q \in Runs : \E f \in row[q].pending : f.op = p[1] /\ p[2] \in f.legs
          BY DEF OwedLegs
        <4>2. PICK f \in row[q].pending : f.op = p[1] /\ p[2] \in f.legs
          BY <4>1
        <4>3. p \in Edges \X Legs
          BY DEF OwedLegs
        <4>4. f = e
          BY <1>3, <3>2, <4>2, <4>3 DEF OwedLegs
        <4>5. p = <<e.op, p[2]>> /\ p[2] \in paid
          BY <3>2, <4>2, <4>3, <4>4
        <4> QED
          BY <4>5
      <3>3. ASSUME NEW p \in OwedLegs' PROVE p \notin {e.op} \X paid
        BY <3>3
      <3> QED
        BY <3>1, <3>2, <3>3
    <2> HIDE DEF paid
    <2>3. Outbox!Settle(e.op)
      BY <1>4, <2>1, <2>2 DEF Outbox!Settle, Primary, Replica
    <2> QED
      BY <1>5, <2>3 DEF Outbox!Next
  <1>6. CASE e.op \notin Edges
    <2>1. UNCHANGED <<Primary, Replica, OwedLegs>>
      BY <1>1, <1>3, <1>6, OutboxStutter
    <2> QED
      BY <2>1 DEF Outbox!vars, Primary, Replica
  <1> QED
    BY <1>5, <1>6

\* The handler's writes to an edge commit together with the debt.
LEMMA OutboxCommit ==
    ASSUME IndInv, NEW c \in Calls, ApplyOp(c)
    PROVE  [Outbox!Next]_(Outbox!vars)
  <1> DEFINE r == call[c].run
  <1>0. /\ row \in [Runs -> Row] /\ pg \in [Targets -> SUBSET Legs] /\ call \in [Calls -> Call]
        /\ Edges \subseteq Targets /\ TypeInv /\ OwnInv /\ PendingInv
    BY DEF IndInv, TypeInv, TypeOK, Targets, MirrorInv
  <1>1. PICK out \in Outcomes(Op(c)) : CommitOp(c, out)
    BY DEF ApplyOp
  <1> DEFINE e == OpEntry(c, out.legs)
  <1>2. /\ r \in Runs /\ row[r] \in Row /\ call[c].seq \in Nat /\ row[r].last < call[c].seq
        /\ row[r].last \in Nat /\ Op(c) \in Targets
    BY <1>0, Ahead DEF ApplyOp, Row
  <1>3. out.legs \in SUBSET Legs
    BY <1>0, <1>2, OutcomeType
  <1>4. e.run = r /\ e.seq = call[c].seq /\ e.op = Op(c) /\ e.legs = out.legs
    BY DEF OpEntry
  <1>5. pg' = [pg EXCEPT ![Op(c)] = @ \cup out.legs] /\ graph' = graph
    BY <1>1, <1>4 DEF CommitOp, ApplyOp
  <1>6. /\ row'[r].pending = IF PreMarked(out.legs) THEN Queued(row[r].pending, e) ELSE row[r].pending
        /\ \A q \in Runs : q # r => row'[q] = row[q]
    <2> DEFINE w == IF PreMarked(out.legs) THEN Queued(row[r].pending, e) ELSE row[r].pending
    <2>1. row' = [row EXCEPT ![r].last = call[c].seq, ![r].pending = w]
      BY <1>1, <1>4 DEF CommitOp
    <2> HIDE DEF w
    <2>2. row'[r].pending = w /\ \A q \in Runs : q # r => row'[q] = row[q]
      BY <1>0, <1>2, <2>1 DEF Row
    <2> QED
      BY <2>2 DEF w
  <1>7. \A f \in row[r].pending : f.seq # call[c].seq
    <2>1. \A f \in row[r].pending : f.seq <= row[r].last /\ f.seq \in Nat
      BY <1>0, <1>2 DEF PendingInv, PendingOK, Row, Entry
    <2> QED
      BY <1>2, <2>1
  <1> HIDE DEF e
  <1>8. row'[r].pending = row[r].pending \cup (IF PreMarked(out.legs) THEN {e} ELSE {})
    BY <1>4, <1>6, <1>7 DEF Queued
  <1>9. Replica' = Replica
    BY <1>5 DEF Replica
  <1>10. CASE Op(c) \in Edges
    <2>1. Primary' = [Primary EXCEPT ![Op(c)] = @ \cup out.legs]
      BY <1>0, <1>5, <1>10 DEF Primary
    <2>2. OwedLegs' = OwedLegs \cup ({Op(c)} \X out.legs)
      <3>1. CASE out.legs = {}
        <4>1. ~PreMarked(out.legs)
          BY <3>1 DEF PreMarked
        <4>2. \A q \in Runs : row'[q].pending = row[q].pending
          BY <1>6, <1>8, <4>1
        <4>3. OwedLegs' = OwedLegs
          BY <4>2 DEF OwedLegs
        <4> QED
          BY <3>1, <4>3
      <3>2. CASE out.legs # {}
        <4>1. row'[r].pending = row[r].pending \cup {e}
          BY <1>8, <1>10, <3>2, OutcomeMarked
        <4>2. ASSUME NEW p \in Edges \X Legs
              PROVE  p \in OwedLegs' <=> p \in OwedLegs \/ (p[1] = Op(c) /\ p[2] \in out.legs)
          BY <1>2, <1>4, <1>6, <4>1 DEF OwedLegs
        <4>3. OwedLegs \subseteq Edges \X Legs /\ OwedLegs' \subseteq Edges \X Legs
          BY DEF OwedLegs
        <4>4. {Op(c)} \X out.legs \subseteq Edges \X Legs
          BY <1>3, <1>10
        <4>5. \A p \in Edges \X Legs : p \in {Op(c)} \X out.legs <=> (p[1] = Op(c) /\ p[2] \in out.legs)
          OBVIOUS
        <4> QED
          BY <4>2, <4>3, <4>4, <4>5
      <3> QED
        BY <3>1, <3>2
    <2>3. Outbox!Commit(Op(c), out.legs)
      BY <1>9, <2>1, <2>2 DEF Outbox!Commit, Primary, Replica
    <2> QED
      BY <1>3, <1>10, <2>3 DEF Outbox!Next
  <1>11. CASE Op(c) \notin Edges
    <2>1. \A i \in Edges : pg'[i] = pg[i] /\ graph'[i] = graph[i]
      BY <1>0, <1>5, <1>11
    <2>2. UNCHANGED <<Primary, Replica, OwedLegs>>
      BY <1>4, <1>6, <1>8, <1>11, <2>1, OutboxStutter
    <2> QED
      BY <2>2 DEF Outbox!vars, Primary, Replica
  <1> QED
    BY <1>10, <1>11

\* The dream phase implements the outbox for the edges it prunes: under the refinement
\* mapping that takes the pending entries of all runs for the debts, every step of every
\* call, of dream_undo and of a crash is a commit with its debt, a payment, the striking off
\* of paid debts, or invisible.
THEOREM OutboxRefinement == Spec => ImplementsOutbox
  <1>1. Init => Outbox!Init
    BY DEF Init, Outbox!Init, OwedLegs, NewRow, Targets
  <1>2. IndInv /\ [Next]_vars => [Outbox!Next]_(Outbox!vars)
    <2> SUFFICES ASSUME IndInv, [Next]_vars PROVE [Outbox!Next]_(Outbox!vars)
      OBVIOUS
    <2>1. UNCHANGED <<Primary, Replica, OwedLegs>> => [Outbox!Next]_(Outbox!vars)
      BY DEF Outbox!vars, Primary, Replica
    <2>2. ASSUME NEW c \in Calls, Step(c) PROVE [Outbox!Next]_(Outbox!vars)
      BY <2>1, <2>2, OutboxHidden, OutboxReplicate, OutboxSettle, OutboxCommit DEF Step
    <2> QED
      BY <2>1, <2>2, OutboxHidden DEF Next
  <1> QED
    BY <1>1, <1>2, Inductive, PTL DEF Spec, ImplementsOutbox, Outbox!Spec

-----------------------------------------------------------------------------
(* The plan of a fresh run.                                                *)

\* What is said of a call's progress is not disturbed while Postgres keeps what is pruned
\* and the checkpoints stay, or while the call is outside the lock.
LEMMA ProgressFrame ==
    ASSUME NEW k \in Call, k.pc # "idle" => k.run \in Runs, NEW ws, NEW vs, NEW p, NEW q,
           \A i \in Edges : p[i] \subseteq q[i],
           k.pc \in {"idle", "lock", "fail"} \/ \A r \in Runs : vs[r].last = ws[r].last,
           ProgressOK(k, ws, p)
    PROVE  ProgressOK(k, vs, q)
  BY DEF ProgressOK, DoneTo

\* Nothing un-prunes an edge in Postgres.
LEMMA EdgesKept ==
    ASSUME TypeInv, [Next]_vars, NEW i \in Edges
    PROVE  pg[i] \subseteq pg'[i]
  <1>0. pg \in [Targets -> SUBSET Legs] /\ i \in Targets /\ i \notin Merges
    BY ConstantsAssumption DEF TypeInv, TypeOK, Targets
  <1>1. ASSUME NEW c \in Calls, ApplyOp(c) PROVE pg[i] \subseteq pg'[i]
    <2>1. PICK out \in Outcomes(Op(c)) : CommitOp(c, out)
      BY <1>1 DEF ApplyOp
    <2>2. pg' = [pg EXCEPT ![Op(c)] = @ \cup out.legs]
      BY <2>1 DEF CommitOp, OpEntry
    <2> QED
      BY <1>0, <2>2
  <1>2. ASSUME NEW r \in Runs, NEW u \in undoFile[r], Undo(r, u) PROVE pg[i] \subseteq pg'[i]
    BY <1>0, <1>2 DEF Undo, Reversible
  <1>3. ASSUME NEW c \in Calls,
               \/ \E q \in Runs, mode \in {"dry-run", "apply"} : Begin(c, q, mode)
               \/ AcquireLock(c) \/ LockTimeout(c) \/ InitRow(c) \/ PlanPhase(c) \/ PersistPlan(c)
               \/ ReadCheckpoint(c) \/ ListPending(c) \/ DrainEntry(c) \/ DrainDone(c)
               \/ MirrorVerb(c) \/ MirrorFault(c) \/ QueueMirror(c) \/ ClearMirror(c) \/ SkipOp(c)
               \/ AuditOp(c) \/ BudgetSkip(c) \/ RecordUndo(c) \/ LoopDone(c)
               \/ Complete(c) \/ Raise(c) \/ Fail(c)
        PROVE  pg' = pg
    BY <1>3 DEF Begin, AcquireLock, LockTimeout, InitRow, PlanPhase, PersistPlan, ReadCheckpoint,
                ListPending, DrainEntry, DrainDone, MirrorVerb, MirrorFault, QueueMirror, ClearMirror,
                SkipOp, AuditOp, BudgetSkip, RecordUndo, LoopDone, Complete, Raise, Fail, stores
  <1>4. UNCHANGED vars \/ UnmirrorVerb \/ UnmirrorFault \/ NewDay \/ Crash \/ (\E r \in Runs : Cancel(r))
        => pg' = pg
    BY DEF vars, UnmirrorVerb, UnmirrorFault, NewDay, Crash, Cancel, stores
  <1> QED
    BY <1>1, <1>2, <1>3, <1>4 DEF Next, Step

\* The steps that apply no operation.
LEMMA ProgressIdleSteps ==
    ASSUME IndInv, ProgressInv, NEW c \in Calls, \A i \in Edges : pg[i] \subseteq pg'[i],
           \/ \E r \in Runs, mode \in {"dry-run", "apply"} : Begin(c, r, mode)
           \/ AcquireLock(c) \/ LockTimeout(c) \/ InitRow(c) \/ PlanPhase(c) \/ PersistPlan(c)
           \/ ReadCheckpoint(c) \/ ListPending(c) \/ DrainEntry(c) \/ DrainDone(c)
           \/ MirrorVerb(c) \/ MirrorFault(c) \/ QueueMirror(c) \/ ClearMirror(c)
           \/ SkipOp(c) \/ BudgetSkip(c) \/ RecordUndo(c) \/ LoopDone(c)
           \/ Complete(c) \/ Raise(c) \/ Fail(c)
    PROVE  /\ \A d \in Calls : d # c => call'[d] = call[d]
           /\ \A r \in Runs : row'[r].last = row[r].last
           /\ ProgressOK(call'[c], row', pg)
  <1>0. /\ call \in [Calls -> Call] /\ row \in [Runs -> Row] /\ call[c] \in Call
        /\ call[c].pc # "idle" => call[c].run \in Runs /\ row[call[c].run] \in Row
        /\ call[c].pc \in {"replay", "mirror", "queue"} => call[c].entry.run \in Runs
        /\ ProgressOK(call[c], row, pg)
        /\ \A m \in DOMAIN call[c].plan : m \in Nat \ {0} /\ m <= Len(call[c].plan)
        /\ Len(call[c].plan) \in Nat /\ call[c].seq \in Nat \ {0} /\ call[c].last \in Nat
    <2>1. call[c] \in Call
      BY DEF IndInv, TypeInv, TypeOK
    <2>2. PICK n \in 0 .. Len(Order) : call[c].plan \in [1 .. n -> Ops]
      BY <2>1 DEF Call, Plans
    <2>3. Len(Order) \in Nat
      BY ConstantsAssumption
    <2>4. Len(call[c].plan) = n /\ DOMAIN call[c].plan = 1 .. n /\ n \in Nat
      BY <2>2, <2>3
    <2>5. /\ \A m \in DOMAIN call[c].plan : m \in Nat \ {0} /\ m <= Len(call[c].plan)
          /\ Len(call[c].plan) \in Nat
      BY <2>4
    <2>6. call[c].seq \in Nat \ {0} /\ call[c].last \in Nat
      BY <2>1 DEF Call
    <2>7. /\ call[c].pc # "idle" => call[c].run \in Runs /\ row[call[c].run] \in Row
          /\ call[c].pc \in {"replay", "mirror", "queue"} => call[c].entry.run \in Runs
      BY DEF IndInv, TypeInv, TypeOK, Carries, Entry
    <2> QED
      BY <2>1, <2>5, <2>6, <2>7 DEF IndInv, TypeInv, TypeOK, ProgressInv
  <1> DEFINE Rest == \A d \in Calls : d # c => call'[d] = call[d]
             Rows == \A r \in Runs : row'[r].last = row[r].last
             New == ProgressOK(call'[c], row', pg)
             Kept == /\ call'[c].run = call[c].run /\ call'[c].resume = call[c].resume
                     /\ call'[c].seq = call[c].seq /\ call'[c].last = call[c].last
                     /\ call'[c].plan = call[c].plan /\ call'[c].mode = call[c].mode
                     /\ call'[c].cancelled = call[c].cancelled
  <1> SUFFICES Rest /\ Rows /\ New
    OBVIOUS
  <1>1. ASSUME NEW r \in Runs, NEW mode \in {"dry-run", "apply"}, Begin(c, r, mode)
        PROVE  Rest /\ Rows /\ New
    <2>1. Rest /\ Rows /\ call'[c].pc = "lock" /\ call'[c].seq = 1 /\ call'[c].last = 0
      BY <1>0, <1>1 DEF Begin, IdleCall, stores
    <2> QED
      BY <2>1 DEF ProgressOK
  <1>2. CASE AcquireLock(c)
    <2>1. Rest /\ Kept /\ call[c].pc = "lock" /\ call'[c].pc = IF call[c].resume THEN "plan" ELSE "init"
      BY <1>0, <1>2 DEF AcquireLock, Goto, Call
    <2>2. row' = row
      BY <1>2 DEF AcquireLock, stores
    <2>3. New
      BY <1>0, <2>1, <2>2 DEF ProgressOK, DoneTo
    <2> QED
      BY <2>1, <2>2, <2>3
  <1>3. CASE LockTimeout(c)
    <2>1. Rest /\ Kept /\ call[c].pc = "lock" /\ call'[c].pc = "fail"
      BY <1>0, <1>3 DEF LockTimeout, Goto, Call
    <2>2. row' = row
      BY <1>3 DEF LockTimeout, stores
    <2>3. New
      BY <1>0, <2>1, <2>2 DEF ProgressOK, DoneTo
    <2> QED
      BY <2>1, <2>2, <2>3
  <1>4. CASE InitRow(c)
    <2>1. Rest /\ Kept /\ call[c].pc = "init" /\ call'[c].pc = "plan" /\ call[c].run \in Runs
      BY <1>0, <1>4 DEF InitRow, Goto, Call
    <2>2. row[call[c].run].last = 0
      BY <2>1 DEF IndInv, RowsInv, SeatInv, EmptyInv
    <2>3. Rows
      BY <1>0, <1>4, <2>1, <2>2 DEF InitRow, NewRow
    <2>4. New
      BY <1>0, <2>1, <2>2, <2>3 DEF ProgressOK
    <2> QED
      BY <2>1, <2>3, <2>4
  <1>5. CASE PlanPhase(c)
    <2>0. PICK plan \in Plans : call' = [call EXCEPT ![c].pc = "persist", ![c].plan = plan]
      BY <1>5 DEF PlanPhase
    <2>1. Rest /\ call'[c].run = call[c].run /\ call'[c].resume = call[c].resume
          /\ call'[c].seq = call[c].seq /\ call'[c].last = call[c].last /\ call[c].pc = "plan" /\ call'[c].pc = "persist"
      BY <1>0, <1>5, <2>0 DEF PlanPhase, Call
    <2>2. row' = row
      BY <1>5 DEF PlanPhase, stores
    <2>3. New
      BY <1>0, <2>1, <2>2 DEF ProgressOK, DoneTo
    <2> QED
      BY <2>1, <2>2, <2>3
  <1>6. CASE PersistPlan(c)
    <2>1. Rest /\ Kept /\ call[c].pc = "persist" /\ call[c].run \in Runs
          /\ call'[c].pc = IF call[c].mode = "apply" THEN "read" ELSE "complete"
      BY <1>0, <1>6 DEF PersistPlan, Goto, Call
    <2>2. Rows
      BY <1>0, <1>6, <2>1 DEF PersistPlan, Row
    <2>3. New
      BY <1>0, <2>1, <2>2 DEF ProgressOK, DoneTo
    <2> QED
      BY <2>1, <2>2, <2>3
  <1>7. CASE ReadCheckpoint(c)
    <2>1. Rest /\ TRUE /\ call[c].pc = "read" /\ call'[c].pc = "list"
          /\ call'[c].run = call[c].run /\ call'[c].resume = call[c].resume
          /\ call'[c].seq = call[c].seq /\ call'[c].last = row[call[c].run].last
      BY <1>0, <1>7 DEF ReadCheckpoint, Call
    <2>2. row' = row
      BY <1>7 DEF ReadCheckpoint, stores
    <2>3. New
      BY <1>0, <2>1, <2>2 DEF ProgressOK, DoneTo
    <2> QED
      BY <2>1, <2>2, <2>3
  <1>8. CASE ListPending(c)
    <2>1. Rest /\ Kept /\ call[c].pc = "list" /\ call'[c].pc = "drain"
      BY <1>0, <1>8 DEF ListPending, Goto, Call
    <2>2. row' = row
      BY <1>8 DEF ListPending, stores
    <2>3. New
      BY <1>0, <2>1, <2>2 DEF ProgressOK, DoneTo
    <2> QED
      BY <2>1, <2>2, <2>3
  <1>9. CASE DrainEntry(c)
    <2>0. PICK e : call' = [call EXCEPT ![c].pc = "replay", ![c].backlog = @ \ {e}, ![c].entry = e,
                                      ![c].todo = e.legs]
      BY <1>9 DEF DrainEntry
    <2>1. Rest /\ Kept /\ call[c].pc = "drain" /\ call'[c].pc = "replay"
      BY <1>0, <1>9, <2>0 DEF DrainEntry, Call
    <2>2. row' = row
      BY <1>9 DEF DrainEntry, stores
    <2>3. New
      BY <1>0, <2>1, <2>2 DEF ProgressOK, DoneTo
    <2> QED
      BY <2>1, <2>2, <2>3
  <1>10. CASE DrainDone(c)
    <2>1. Rest /\ Kept /\ call[c].pc = "drain" /\ call'[c].pc = "apply"
      BY <1>0, <1>10 DEF DrainDone, Call
    <2>2. row' = row
      BY <1>10 DEF DrainDone, stores
    <2>3. New
      BY <1>0, <2>1, <2>2 DEF ProgressOK, DoneTo
    <2> QED
      BY <2>1, <2>2, <2>3
  <1>11. CASE MirrorVerb(c)
    <2>1. Rest /\ Kept /\ call'[c].pc = call[c].pc
      BY <1>0, <1>11 DEF MirrorVerb, Call
    <2>2. row' = row
      BY <1>11 DEF MirrorVerb, stores
    <2>3. New
      BY <1>0, <2>1, <2>2 DEF ProgressOK, DoneTo
    <2> QED
      BY <2>1, <2>2, <2>3
  <1>12. CASE MirrorFault(c)
    <2>1. Rest /\ Kept /\ call[c].pc \in {"replay", "mirror"} /\ call'[c].pc = IF call[c].pc = "replay" THEN "drain" ELSE "queue"
      BY <1>0, <1>12 DEF MirrorFault, Call
    <2>2. row' = row
      BY <1>12 DEF MirrorFault, stores
    <2>3. New
      BY <1>0, <2>1, <2>2 DEF ProgressOK, DoneTo
    <2> QED
      BY <2>1, <2>2, <2>3
  <1>13. CASE QueueMirror(c)
    <2>1. Rest /\ Kept /\ call[c].pc = "queue" /\ call'[c].pc = "record" /\ call[c].run \in Runs
      BY <1>0, <1>13 DEF QueueMirror, Goto, Call
    <2>2. Rows
      BY <1>0, <1>13, <2>1 DEF QueueMirror, Row
    <2>3. New
      BY <1>0, <2>1, <2>2 DEF ProgressOK, DoneTo
    <2> QED
      BY <2>1, <2>2, <2>3
  <1>14. CASE ClearMirror(c)
    <2>1. Rest /\ Kept /\ call[c].pc \in {"replay", "mirror"} /\ call[c].entry.run \in Runs
          /\ call'[c].pc = IF call[c].pc = "replay" THEN "drain" ELSE "record"
      BY <1>0, <1>14 DEF ClearMirror, Goto, Call
    <2>2. Rows
      BY <1>0, <1>14, <2>1 DEF ClearMirror, Row
    <2>3. New
      BY <1>0, <2>1, <2>2 DEF ProgressOK, DoneTo
    <2> QED
      BY <2>1, <2>2, <2>3
  <1>15. CASE SkipOp(c)
    <2>1. /\ Rest /\ call[c].pc = "apply" /\ call'[c].pc = "apply" /\ call'[c].last = call[c].last
          /\ call'[c].resume = call[c].resume /\ call[c].seq <= call[c].last
      BY <1>0, <1>15 DEF SkipOp, InLoop, Skipped, Call
    <2>2. call[c].resume
      BY <1>0, <2>1 DEF ProgressOK
    <2>3. row' = row
      BY <1>15 DEF SkipOp, stores
    <2>4. New
      BY <2>1, <2>2 DEF ProgressOK
    <2> QED
      BY <2>1, <2>3, <2>4
  <1>16. CASE BudgetSkip(c)
    <2>1. Rest /\ call[c].pc = "apply" /\ call'[c].pc = "apply"
          /\ call'[c].run = call[c].run /\ call'[c].resume = call[c].resume /\ call'[c].last = call[c].last
          /\ call'[c].plan = call[c].plan /\ call'[c].seq = call[c].seq + 1
      BY <1>0, <1>16 DEF BudgetSkip, InLoop, Call
    <2>2. row' = row
      BY <1>16 DEF BudgetSkip, stores
    <2>3. call[c].plan[call[c].seq] \notin Edges
      BY <1>16, ConstantsAssumption DEF BudgetSkip, Breach, Op
    <2>4. New
      BY <1>0, <2>1, <2>3 DEF ProgressOK, DoneTo
    <2> QED
      BY <2>1, <2>2, <2>4
  <1>17. CASE RecordUndo(c)
    <2>1. Rest /\ TRUE /\ call[c].pc = "record" /\ call'[c].pc = "apply"
          /\ call'[c].run = call[c].run /\ call'[c].resume = call[c].resume /\ call'[c].last = call[c].last
          /\ call'[c].plan = call[c].plan /\ call'[c].seq = call[c].seq + 1
      BY <1>0, <1>17 DEF RecordUndo, Call
    <2>2. row' = row
      BY <1>17 DEF RecordUndo, stores
    <2>3. New
      BY <1>0, <2>1, <2>2 DEF ProgressOK, DoneTo
    <2> QED
      BY <2>1, <2>2, <2>3
  <1>18. CASE LoopDone(c)
    <2>1. Rest /\ Kept /\ call[c].pc = "apply" /\ call'[c].pc = "complete"
      BY <1>0, <1>18 DEF LoopDone, Goto, Call
    <2>2. row' = row
      BY <1>18 DEF LoopDone, stores
    <2>3. call[c].cancelled \/ Len(call[c].plan) < call[c].seq
      BY <1>0, <1>18 DEF LoopDone, InLoop
    <2>4. New
      BY <1>0, <2>1, <2>3 DEF ProgressOK, DoneTo
    <2> QED
      BY <2>1, <2>2, <2>4
  <1>19. CASE Complete(c)
    <2>1. Rest /\ call'[c] = IdleCall /\ call[c].run \in Runs
      BY <1>0, <1>19 DEF Complete
    <2>2. Rows
      BY <1>0, <1>19, <2>1 DEF Complete, Row
    <2>3. New
      BY <2>1 DEF ProgressOK, IdleCall
    <2> QED
      BY <2>1, <2>2, <2>3
  <1>20. CASE Raise(c)
    <2>1. Rest /\ Kept /\ call'[c].pc = "fail"
      BY <1>0, <1>20 DEF Raise, Goto, Call
    <2>2. row' = row
      BY <1>20 DEF Raise, stores
    <2>3. New
      BY <1>0, <2>1, <2>2 DEF ProgressOK, DoneTo
    <2> QED
      BY <2>1, <2>2, <2>3
  <1>21. CASE Fail(c)
    <2>1. Rest /\ call'[c] = IdleCall /\ call[c].run \in Runs
      BY <1>0, <1>21 DEF Fail
    <2>2. Rows
      <3>1. CASE row' = [row EXCEPT ![call[c].run].state = IF @ = "none" THEN @ ELSE "failed"]
        BY <1>0, <2>1, <3>1 DEF Row
      <3> QED
        BY <1>21, <3>1 DEF Fail
    <2>3. New
      BY <2>1 DEF ProgressOK, IdleCall
    <2> QED
      BY <2>1, <2>2, <2>3
  <1> QED
    BY <1>1, <1>2, <1>3, <1>4, <1>5, <1>6, <1>7, <1>8, <1>9, <1>10, <1>11, <1>12, <1>13, <1>14, <1>15, <1>16, <1>17, <1>18, <1>19, <1>20, <1>21

\* The steps that apply an operation: an edge is pruned in the same commit.
LEMMA ProgressApplySteps ==
    ASSUME IndInv, ProgressInv, NEW c \in Calls, AuditOp(c) \/ ApplyOp(c)
    PROVE  /\ \A d \in Calls : d # c => call'[d] = call[d]
           /\ call[c].pc \in Holding
           /\ ProgressOK(call'[c], row', pg')
  <1>0. /\ call \in [Calls -> Call] /\ call[c] \in Call /\ call[c].seq \in Nat \ {0}
        /\ ProgressOK(call[c], row, pg) /\ pg \in [Targets -> SUBSET Legs]
        /\ \A m \in DOMAIN call[c].plan : m \in Nat
    <2>1. call[c] \in Call
      BY DEF IndInv, TypeInv, TypeOK
    <2>2. PICK n \in 0 .. Len(Order) : call[c].plan \in [1 .. n -> Ops]
      BY <2>1 DEF Call, Plans
    <2>3. \A m \in DOMAIN call[c].plan : m \in Nat
      BY <2>2
    <2>4. call[c].seq \in Nat \ {0}
      BY <2>1 DEF Call
    <2> QED
      BY <2>1, <2>3, <2>4 DEF IndInv, TypeInv, TypeOK, ProgressInv
  <1> DEFINE Rest == \A d \in Calls : d # c => call'[d] = call[d]
  <1>1. CASE AuditOp(c)
    <2>1. /\ Rest /\ call[c].pc = "apply" /\ call'[c].pc = "apply" /\ call'[c].seq = call[c].seq + 1
          /\ call'[c].resume = call[c].resume /\ call'[c].last = call[c].last /\ call'[c].plan = call[c].plan
          /\ pg' = pg
      BY <1>0, <1>1 DEF AuditOp, InLoop, Call
    <2>2. call[c].plan[call[c].seq] \notin Edges
      BY <1>1, ConstantsAssumption DEF AuditOp, Op, Targets
    <2>3. ProgressOK(call'[c], row', pg')
      BY <1>0, <2>1, <2>2 DEF ProgressOK, DoneTo
    <2> QED
      BY <2>1, <2>3 DEF Holding, CallPcs
  <1>2. CASE ApplyOp(c)
    <2>1. PICK out \in Outcomes(Op(c)) : CommitOp(c, out)
      BY <1>2 DEF ApplyOp
    <2>2. /\ Rest /\ call[c].pc = "apply" /\ call'[c].pc \in {"record", "mirror"} /\ call'[c].seq = call[c].seq
          /\ call'[c].resume = call[c].resume /\ call'[c].last = call[c].last /\ call'[c].plan = call[c].plan
      <3> DEFINE e == OpEntry(c, out.legs)
                 pc == IF NothingToMirror(e.legs) THEN "record" ELSE "mirror"
      <3>1. call' = [call EXCEPT ![c].pc = pc, ![c].entry = e, ![c].todo = e.legs, ![c].usage = out.usage,
                                 ![c].records = @ \cup {[op |-> e.op, legs |-> e.legs]}]
        BY <2>1 DEF CommitOp
      <3>2. pc \in {"record", "mirror"} /\ call[c].pc = "apply"
        BY <1>2 DEF ApplyOp, InLoop
      <3> HIDE DEF e, pc
      <3> QED
        BY <1>0, <3>1, <3>2 DEF Call
    <2>3. pg' = [pg EXCEPT ![Op(c)] = @ \cup out.legs] /\ Op(c) \in Targets
      BY <1>2, <2>1 DEF ApplyOp, CommitOp, OpEntry
    <2>4. Op(c) \in Edges => "invalidate" \in pg'[Op(c)]
      <3> SUFFICES ASSUME Op(c) \in Edges PROVE "invalidate" \in pg[Op(c)] \cup out.legs
        BY <1>0, <2>3
      <3>1. out.legs = {"invalidate"} \ pg[Op(c)]
        BY ConstantsAssumption DEF Outcomes, PruneOutcomes, LegsOf
      <3> QED
        BY <3>1
    <2>5. \A i \in Edges : pg[i] \subseteq pg'[i]
      BY <1>0, <2>3 DEF Targets
    <2>6. ProgressOK(call'[c], row', pg')
      <3>1. ~call[c].resume => DoneTo(call[c], pg, call[c].seq - 1) /\ call[c].last = 0
        BY <1>0, <2>2 DEF ProgressOK
      <3>2. ~call[c].resume => DoneTo(call'[c], pg', call[c].seq)
        BY <1>0, <2>2, <2>4, <2>5, <3>1 DEF DoneTo, Op
      <3> QED
        BY <2>2, <3>1, <3>2 DEF ProgressOK
    <2> QED
      BY <2>2, <2>6 DEF Holding, CallPcs
  <1> QED
    BY <1>1, <1>2

\* Every step keeps what is said of a call's progress.
LEMMA ProgressStep == IndInv /\ ProgressInv /\ [Next]_vars => ProgressInv'
  <1> SUFFICES ASSUME IndInv, ProgressInv, [Next]_vars PROVE ProgressInv'
    OBVIOUS
  <1> SUFFICES ASSUME NEW d \in Calls PROVE ProgressOK(call'[d], row', pg')
    BY DEF ProgressInv, ProgressOK, DoneTo
  <1>0. /\ call[d] \in Call /\ (call[d].pc # "idle" => call[d].run \in Runs)
        /\ ProgressOK(call[d], row, pg) /\ call'[d] \in Call /\ (call'[d].pc # "idle" => call'[d].run \in Runs)
    BY TypeStep DEF IndInv, TypeInv, TypeOK, Carries, ProgressInv
  <1>1. \A i \in Edges : pg[i] \subseteq pg'[i]
    BY EdgesKept DEF IndInv
  <1>2. CASE UNCHANGED <<call, row>>
    BY <1>0, <1>1, <1>2, ProgressFrame
  <1>3. ASSUME NEW c \in Calls, Step(c) PROVE ProgressOK(call'[d], row', pg')
    <2>1. CASE AuditOp(c) \/ ApplyOp(c)
      <3>1. CASE d = c
        BY <2>1, <3>1, ProgressApplySteps
      <3>2. CASE d # c
        <4>1. call'[d] = call[d] /\ call[c].pc \in Holding
          BY <2>1, <3>2, ProgressApplySteps
        <4>2. call[d].pc \in {"idle", "lock", "fail"}
          BY <1>0, <3>2, <4>1 DEF IndInv, RowsInv, LockInv, Call, Holding
        <4> QED
          BY <1>0, <1>1, <4>1, <4>2, ProgressFrame
      <3> QED
        BY <3>1, <3>2
    <2>2. CASE ~(AuditOp(c) \/ ApplyOp(c))
      <3>1. /\ d # c => call'[d] = call[d]
            /\ \A r \in Runs : row'[r].last = row[r].last
            /\ ProgressOK(call'[c], row', pg)
        BY <1>1, <1>3, <2>2, ProgressIdleSteps DEF Step
      <3>2. ProgressOK(call'[d], row', pg) \/ call'[d] = call[d]
        BY <3>1
      <3> QED
        BY <1>0, <1>1, <3>1, <3>2, ProgressFrame
    <2> QED
      BY <2>1, <2>2
  <1>4. ASSUME NEW r \in Runs, Cancel(r) PROVE ProgressOK(call'[d], row', pg')
    <2> DEFINE k == call[d]
               l == call'[d]
    <2>1. /\ l.pc = k.pc /\ l.run = k.run /\ l.seq = k.seq /\ l.last = k.last /\ l.resume = k.resume
          /\ l.plan = k.plan /\ l.mode = k.mode /\ (k.cancelled => l.cancelled)
          /\ row' = row
      <3>1. call \in [Calls -> Call] /\ flag[r] \in Calls
        BY <1>4 DEF IndInv, TypeInv, TypeOK, Cancel
      <3> QED
        BY <1>0, <1>4, <3>1 DEF Cancel, Call, stores
    <2>2. ProgressOK(l, row, pg)
      BY <1>0, <2>1 DEF ProgressOK, DoneTo
    <2> QED
      BY <1>0, <1>1, <2>1, <2>2, ProgressFrame
  <1>5. CASE Crash
    <2>1. call'[d] = IdleCall
      BY <1>5 DEF Crash
    <2> QED
      BY <2>1 DEF ProgressOK, IdleCall
  <1>6. ASSUME NEW r \in Runs, NEW u \in undoFile[r], Undo(r, u) PROVE UNCHANGED <<call, row>>
    BY <1>6 DEF Undo
  <1>7. UNCHANGED vars \/ UnmirrorVerb \/ UnmirrorFault \/ NewDay => UNCHANGED <<call, row>>
    BY DEF vars, UnmirrorVerb, UnmirrorFault, NewDay, stores
  <1> QED
    BY <1>2, <1>3, <1>4, <1>5, <1>6, <1>7 DEF Next

\* PlanApplied for any instance: the run of a fresh id that completes uncancelled has pruned
\* every edge of its plan, whatever other calls, dream_undo and the budget did meanwhile
\* (_apply_phase).
THEOREM FreshPlanApplied == Spec => []PlanApplied
  <1>1. Init => ProgressInv
    BY DEF Init, ProgressInv, ProgressOK, IdleCall
  <1>2. IndInv /\ ProgressInv => PlanApplied
    <2> SUFFICES ASSUME IndInv, ProgressInv, NEW c \in Calls, NEW n \in 1 .. Len(call[c].plan),
                        call[c].pc = "complete", call[c].mode = "apply", ~call[c].cancelled, ~call[c].resume,
                        call[c].plan[n] \in Edges
                 PROVE  "invalidate" \in pg[call[c].plan[n]]
      BY DEF PlanApplied, Unapplied
    <2>1. DoneTo(call[c], pg, Len(call[c].plan))
      BY DEF ProgressInv, ProgressOK
    <2>2. PICK m \in 0 .. Len(Order) : call[c].plan \in [1 .. m -> Ops]
      BY SMTT(30) DEF IndInv, TypeInv, TypeOK, Call, Plans
    <2>3. Len(call[c].plan) = m /\ DOMAIN call[c].plan = 1 .. m /\ m \in Nat
      BY <2>2, ConstantsAssumption
    <2> QED
      BY <2>1, <2>3 DEF DoneTo
  <1> QED
    BY <1>1, <1>2, ProgressStep, Inductive, PTL DEF Spec

=============================================================================
