------------------------- MODULE SlotExecutionProofs -------------------------
(***************************************************************************)
(* Theorems about SlotExecution, for every value of its constants.         *)
(***************************************************************************)
EXTENDS SlotExecution, TLAPS

-----------------------------------------------------------------------------
(* Types of the operators the actions are built from.                      *)

\* Every record the steps build for a pool task is a job.
LEMMA JobType ==
    ASSUME NEW phase \in Phases,
           NEW kind \in SlotHooks \cup {"WORK", "RESUME", "NONE"},
           NEW gen \in Generations,
           NEW closure \in Closures \cup {NoClosure}
    PROVE  Job(phase, kind, gen, closure) \in JobStates
BY ConstantAssumption DEF Job, JobStates, Generations

\* So is the record of an unused job.
LEMMA FreeJobType == FreeJob \in JobStates
<1>1. "free" \in Phases /\ 0 \in Generations
  BY ConstantAssumption DEF Phases, Generations
<1>2. QED
  BY <1>1, JobType DEF FreeJob

\* So is a task submitted by enqueue or taken from the continuation queue.
LEMMA QueuedJobType ==
    ASSUME NEW t \in Tasks
    PROVE  QueuedJob(t) \in JobStates
<1>1. t.kind \in SlotHooks /\ t.gen \in Generations
  BY DEF Tasks
<1>2. "queued" \in Phases
  BY DEF Phases
<1>3. QED
  BY <1>1, <1>2, JobType DEF QueuedJob

\* Moving a job to another phase keeps the jobs typed,
LEMMA PhaseType ==
    ASSUME NEW js \in [Jobs -> JobStates], NEW j \in Jobs, NEW p \in Phases
    PROVE  [js EXCEPT ![j].phase = p] \in [Jobs -> JobStates]
BY DEF JobStates

\* also when the step consumes or sets its closure,
LEMMA PhaseClosureType ==
    ASSUME NEW js \in [Jobs -> JobStates], NEW j \in Jobs, NEW p \in Phases,
           NEW c \in Closures \cup {NoClosure}
    PROVE  [js EXCEPT ![j].phase = p, ![j].closure = c] \in [Jobs -> JobStates]
BY DEF JobStates

\* or records the generation it has read.
LEMMA PhaseSeenType ==
    ASSUME NEW js \in [Jobs -> JobStates], NEW j \in Jobs, NEW p \in Phases,
           NEW g \in Generations
    PROVE  [js EXCEPT ![j].phase = p, ![j].seen = g] \in [Jobs -> JobStates]
BY DEF JobStates

\* Taking the oldest continuation leaves a shorter queue of tasks.
LEMMA PendingTail ==
    ASSUME NEW q \in Seq(Tasks), q # <<>>
    PROVE  /\ Head(q) \in Tasks
           /\ Tail(q) \in Seq(Tasks)
           /\ Len(Tail(q)) = Len(q) - 1
           /\ Len(q) \in Nat
OBVIOUS

\* Adding one leaves a queue that is longer by one.
LEMMA PendingAppend ==
    ASSUME NEW q \in Seq(Tasks), NEW t \in Tasks
    PROVE  /\ Append(q, t) \in Seq(Tasks)
           /\ Len(Append(q, t)) = Len(q) + 1
           /\ Len(q) \in Nat
OBVIOUS

\* The generation the slot table reports is a generation.
LEMMA CurrentGenerationType ==
    ASSUME TypeOK
    PROVE  CurrentGeneration \in Generations
BY ConstantAssumption DEF TypeOK, CountTypeOK, CurrentGeneration, Generations

\* Entering the gate keeps its variables typed and the queue bounded.
LEMMA EnqueueType ==
    ASSUME TypeOK, NEW t \in Tasks, NEW allow, NEW result,
           EnqueueSection(t, allow, result)
    PROVE  GateTypeOK' /\ active' \in BOOLEAN
<1>1. CASE UNCHANGED gateVars
  BY <1>1 DEF TypeOK, FlagTypeOK, GateTypeOK, gateVars
<1>2. CASE /\ active' = TRUE
           /\ \E j \in FreeJobs : jobs' = [jobs EXCEPT ![j] = QueuedJob(t)]
           /\ UNCHANGED pending
  BY <1>2, QueuedJobType DEF TypeOK, FlagTypeOK, GateTypeOK, FreeJobs
<1>3. CASE /\ QueueHasRoom
           /\ pending' = Append(pending, t)
           /\ UNCHANGED <<active, jobs>>
  BY <1>3, PendingAppend, ConstantAssumption
  DEF TypeOK, FlagTypeOK, GateTypeOK, QueueHasRoom
<1>4. QED
  BY <1>1, <1>2, <1>3 DEF EnqueueSection

\* The same for mudmux_execution_dispatch.
LEMMA DispatchType ==
    ASSUME TypeOK, NEW t \in Tasks, NEW allow, NEW result,
           Dispatch(t, allow, result)
    PROVE  GateTypeOK' /\ active' \in BOOLEAN
BY EnqueueType DEF Dispatch, gateVars, TypeOK, FlagTypeOK, GateTypeOK

-----------------------------------------------------------------------------
(* Type correctness.                                                       *)

\* Every step keeps every variable in its type.
LEMMA TypeStep ==
    ASSUME TypeOK, [Next]_vars
    PROVE  TypeOK'
<1>1. ASSUME Accept PROVE TypeOK'
  <2>1. generation + 1 \in Generations
    BY <1>1, ConstantAssumption DEF Accept, TypeOK, CountTypeOK, Generations
  <2>2. Task("CONNECT", generation + 1) \in Tasks
    BY <2>1 DEF Task, Tasks, SlotHooks
  <2>3. FlagTypeOK'
    BY <1>1, DispatchType, <2>2 DEF TypeOK, FlagTypeOK, Accept, awaitVars
  <2>4. GateTypeOK'
    BY <1>1, <2>2, DispatchType DEF TypeOK, GateTypeOK, Accept
  <2>5. CountTypeOK'
    BY <1>1, ConstantAssumption, <2>1
    DEF TypeOK, CountTypeOK, Accept, CommLockFree
  <2>6. AwaitTypeOK' /\ CallTypeOK'
    BY <1>1 DEF TypeOK, AwaitTypeOK, CallTypeOK, Accept, awaitVars
  <2>7. QED
    BY <2>3, <2>4, <2>5, <2>6 DEF TypeOK
<1>2. ASSUME ParseInput PROVE TypeOK'
  <2>1. CallTypeOK'
    BY <1>2 DEF TypeOK, CallTypeOK, ParseInput
  <2>2. CountTypeOK'
    BY <1>2 DEF TypeOK, CountTypeOK, ParseInput, commVars, boundVars, histVars
  <2>3. FlagTypeOK' /\ GateTypeOK' /\ AwaitTypeOK'
    BY <1>2
    DEF TypeOK, FlagTypeOK, GateTypeOK, AwaitTypeOK, ParseInput, commVars,
        gateVars, awaitVars, histVars
  <2>4. QED
    BY <2>1, <2>2, <2>3 DEF TypeOK
<1>3. ASSUME InboundDispatch PROVE TypeOK'
  <2>1. Task("INBOUND", CurrentGeneration) \in Tasks
    BY CurrentGenerationType DEF Task, Tasks, SlotHooks
  <2>2. FlagTypeOK'
    BY <1>3, <2>1, DispatchType
    DEF TypeOK, FlagTypeOK, InboundDispatch, commVars, gateVars, awaitVars,
        histVars
  <2>3. GateTypeOK'
    BY <1>3, <2>1, DispatchType DEF TypeOK, GateTypeOK, InboundDispatch
  <2>4. CallTypeOK'
    BY <1>3 DEF TypeOK, CallTypeOK, InboundDispatch, IdleOp
  <2>5. CountTypeOK'
    BY <1>3, ConstantAssumption
    DEF TypeOK, CountTypeOK, InboundDispatch, IdleOp, commVars, histVars
  <2>6. AwaitTypeOK'
    BY <1>3 DEF TypeOK, AwaitTypeOK, InboundDispatch, awaitVars
  <2>7. QED
    BY <2>2, <2>3, <2>4, <2>5, <2>6 DEF TypeOK
<1>4. ASSUME NEW by \in Callers, CloseRequest(by) PROVE TypeOK'
  <2>1. FlagTypeOK'
    BY <1>4
    DEF TypeOK, FlagTypeOK, CloseRequest, ClearAwait, gateVars, awaitVars
  <2>2. AwaitTypeOK'
    BY <1>4, ConstantAssumption
    DEF TypeOK, AwaitTypeOK, CloseRequest, ClearAwait, Generations, awaitVars
  <2>3. CallTypeOK'
    BY <1>4 DEF TypeOK, CallTypeOK, CloseRequest, Callers, AfterCancel
  <2>4. CountTypeOK'
    BY <1>4
    DEF TypeOK, CountTypeOK, CloseRequest, AfterCancel, AwaitTypeOK, boundVars
  <2>5. GateTypeOK'
    BY <1>4 DEF TypeOK, GateTypeOK, CloseRequest, gateVars
  <2>6. QED
    BY <2>1, <2>2, <2>3, <2>4, <2>5 DEF TypeOK
<1>5. ASSUME CloseFinish PROVE TypeOK'
  <2>1. pending # <<>> => /\ QueuedJob(Head(pending)) \in JobStates
                         /\ Tail(pending) \in Seq(Tasks)
                         /\ Len(Tail(pending)) <= BacklogCapacity
    BY QueuedJobType, PendingTail, ConstantAssumption DEF TypeOK, GateTypeOK
  <2>2. <<>> \in Seq(Tasks) /\ Len(<<>>) <= BacklogCapacity
    BY ConstantAssumption 
  <2>3. FlagTypeOK'
    BY <1>5
    DEF TypeOK, FlagTypeOK, CloseFinish, commVars, gateVars, awaitVars,
        histVars
  <2>4. GateTypeOK'
    <3>1. CASE pending # <<>> /\ PoolAccepting
      BY <1>5, <3>1, <2>1 DEF TypeOK, GateTypeOK, CloseFinish, FreeJobs
    <3>2. CASE pending = <<>> \/ ~PoolAccepting
      BY <1>5, <3>2, <2>2 DEF TypeOK, GateTypeOK, CloseFinish
    <3>3. QED
      BY <1>5, <3>1, <3>2 DEF CloseFinish
  <2>5. CallTypeOK'
    BY <1>5 DEF TypeOK, CallTypeOK, CloseFinish
  <2>6. CountTypeOK'
    BY <1>5
    DEF TypeOK, CountTypeOK, CloseFinish, CallTypeOK, commVars, boundVars,
        histVars
  <2>7. AwaitTypeOK'
    BY <1>5 DEF TypeOK, AwaitTypeOK, CloseFinish, awaitVars
  <2>8. QED
    BY <2>3, <2>4, <2>5, <2>6, <2>7 DEF TypeOK
<1>6. ASSUME CloseDispatch PROVE TypeOK'
  <2>1. Task("DISCONNECT", CurrentGeneration) \in Tasks
    BY CurrentGenerationType DEF Task, Tasks, SlotHooks
  <2>2. FlagTypeOK'
    BY <1>6, <2>1, DispatchType
    DEF TypeOK, FlagTypeOK, CloseDispatch, AwaitsDisconnect, awaitVars,
        histVars
  <2>3. GateTypeOK'
    BY <1>6, <2>1, DispatchType DEF TypeOK, GateTypeOK, CloseDispatch
  <2>4. CallTypeOK'
    BY <1>6 DEF TypeOK, CallTypeOK, CloseDispatch, IdleOp
  <2>5. CountTypeOK'
    BY <1>6
    DEF TypeOK, CountTypeOK, CloseDispatch, IdleOp, boundVars, histVars
  <2>6. AwaitTypeOK'
    BY <1>6 DEF TypeOK, AwaitTypeOK, CloseDispatch, awaitVars
  <2>7. QED
    BY <2>2, <2>3, <2>4, <2>5, <2>6 DEF TypeOK
<1>7. ASSUME Teardown PROVE TypeOK'
  <2>1. FlagTypeOK'
    BY <1>7 DEF TypeOK, FlagTypeOK, Teardown, awaitVars, gateVars, histVars
  <2>2. CountTypeOK'
    BY <1>7, ConstantAssumption
    DEF TypeOK, CountTypeOK, Teardown, CommLockFree, histVars
  <2>3. GateTypeOK' /\ AwaitTypeOK' /\ CallTypeOK'
    BY <1>7
    DEF TypeOK, GateTypeOK, AwaitTypeOK, CallTypeOK, Teardown, gateVars,
        awaitVars
  <2>4. QED
    BY <2>1, <2>2, <2>3 DEF TypeOK
<1>8. ASSUME NEW by \in Callers, SendMessage(by) PROVE TypeOK'
  <2>1. CallTypeOK'
    BY <1>8, CurrentGenerationType
    DEF TypeOK, CallTypeOK, SendMessage, Callers
  <2>2. CountTypeOK'
    BY <1>8, ConstantAssumption
    DEF TypeOK, CountTypeOK, SendMessage, commVars, histVars
  <2>3. FlagTypeOK' /\ GateTypeOK' /\ AwaitTypeOK'
    BY <1>8
    DEF TypeOK, FlagTypeOK, GateTypeOK, AwaitTypeOK, SendMessage, commVars,
        gateVars, awaitVars, histVars
  <2>4. QED
    BY <2>1, <2>2, <2>3 DEF TypeOK
<1>9. ASSUME SendEnqueue PROVE TypeOK'
  <2>1. Task("OUTBOUND", sender.gen) \in Tasks
    BY DEF TypeOK, CallTypeOK, Task, Tasks, SlotHooks
  <2>2. FlagTypeOK'
    BY <1>9, <2>1, EnqueueType
    DEF TypeOK, FlagTypeOK, SendEnqueue, commVars, gateVars, awaitVars,
        histVars
  <2>3. GateTypeOK'
    BY <1>9, <2>1, EnqueueType DEF TypeOK, GateTypeOK, SendEnqueue
  <2>4. CallTypeOK'
    BY <1>9, ConstantAssumption
    DEF TypeOK, CallTypeOK, SendEnqueue, IdleSender, Generations
  <2>5. AwaitTypeOK' /\ CountTypeOK'
    BY <1>9
    DEF TypeOK, AwaitTypeOK, CountTypeOK, SendEnqueue, awaitVars, commVars,
        boundVars, histVars
  <2>6. QED
    BY <2>2, <2>3, <2>4, <2>5 DEF TypeOK
<1>10. ASSUME NEW j \in Jobs, StartExecution(j) PROVE TypeOK'
  <2>1. FlagTypeOK'
    BY <1>10
    DEF TypeOK, FlagTypeOK, StartExecution, commVars, gateVars, awaitVars,
        histVars
  <2>2. GateTypeOK'
    BY <1>10, PhaseType DEF TypeOK, GateTypeOK, StartExecution, Phases
  <2>3. CountTypeOK'
    BY <1>10 DEF TypeOK, CountTypeOK, StartExecution, commVars, boundVars
  <2>4. AwaitTypeOK' /\ CallTypeOK'
    BY <1>10 DEF TypeOK, AwaitTypeOK, CallTypeOK, StartExecution, awaitVars
  <2>5. QED
    BY <2>1, <2>2, <2>3, <2>4 DEF TypeOK
<1>11. ASSUME NEW j \in Jobs, HookReturns(j) PROVE TypeOK'
  <2>1. GateTypeOK'
    BY <1>11, PhaseClosureType DEF TypeOK, GateTypeOK, HookReturns, Phases
  <2>2. FlagTypeOK' /\ AwaitTypeOK' /\ CallTypeOK' /\ CountTypeOK'
    BY <1>11
    DEF TypeOK, FlagTypeOK, AwaitTypeOK, CallTypeOK, CountTypeOK, HookReturns,
        commVars, gateVars, awaitVars, histVars, boundVars
  <2>3. QED
    BY <2>1, <2>2 DEF TypeOK
<1>12. ASSUME NEW j \in Jobs, HookThrows(j) PROVE TypeOK'
  <2>1. GateTypeOK'
    BY <1>12, FreeJobType DEF TypeOK, GateTypeOK, HookThrows
  <2>2. FlagTypeOK' /\ AwaitTypeOK' /\ CallTypeOK' /\ CountTypeOK'
    BY <1>12
    DEF TypeOK, FlagTypeOK, AwaitTypeOK, CallTypeOK, CountTypeOK, HookThrows,
        commVars, gateVars, awaitVars, histVars, boundVars
  <2>3. QED
    BY <2>1, <2>2 DEF TypeOK
<1>13. ASSUME NEW j \in Jobs, CompleteConnect(j) PROVE TypeOK'
  <2>1. GateTypeOK'
    BY <1>13, PhaseType DEF TypeOK, GateTypeOK, CompleteConnect, Phases
  <2>2. CallTypeOK'
    BY <1>13 DEF TypeOK, CallTypeOK, CompleteConnect
  <2>3. CountTypeOK'
    BY <1>13 DEF TypeOK, CountTypeOK, CompleteConnect, boundVars, histVars
  <2>4. FlagTypeOK' /\ AwaitTypeOK'
    BY <1>13
    DEF TypeOK, FlagTypeOK, AwaitTypeOK, CompleteConnect, commVars, gateVars,
        awaitVars, histVars
  <2>5. QED
    BY <2>1, <2>2, <2>3, <2>4 DEF TypeOK
<1>14. ASSUME ReadyDispatch PROVE TypeOK'
  <2>1. Task("TRANSPORT_READY", CurrentGeneration) \in Tasks
    BY CurrentGenerationType DEF Task, Tasks, SlotHooks
  <2>2. FlagTypeOK'
    BY <1>14, <2>1, DispatchType
    DEF TypeOK, FlagTypeOK, ReadyDispatch, AwaitsReady, awaitVars, histVars
  <2>3. GateTypeOK'
    BY <1>14, <2>1, DispatchType DEF TypeOK, GateTypeOK, ReadyDispatch
  <2>4. CallTypeOK'
    BY <1>14 DEF TypeOK, CallTypeOK, ReadyDispatch, IdleOp
  <2>5. CountTypeOK'
    BY <1>14
    DEF TypeOK, CountTypeOK, ReadyDispatch, IdleOp, boundVars, histVars
  <2>6. AwaitTypeOK'
    BY <1>14 DEF TypeOK, AwaitTypeOK, ReadyDispatch, awaitVars
  <2>7. QED
    BY <2>2, <2>3, <2>4, <2>5, <2>6 DEF TypeOK
<1>15. ASSUME NEW j \in Jobs, CompleteHook(j) PROVE TypeOK'
  <2>1. GateTypeOK'
    BY <1>15, PhaseType DEF TypeOK, GateTypeOK, CompleteHook, Phases
  <2>2. FlagTypeOK' /\ AwaitTypeOK' /\ CallTypeOK' /\ CountTypeOK'
    BY <1>15
    DEF TypeOK, FlagTypeOK, AwaitTypeOK, CallTypeOK, CountTypeOK,
        CompleteHook, commVars, gateVars, awaitVars, histVars, boundVars
  <2>3. QED
    BY <2>1, <2>2 DEF TypeOK
<1>16. ASSUME NEW j \in Jobs, AwaitCall(j) PROVE TypeOK'
  <2>1. GateTypeOK'
    BY <1>16, PhaseSeenType
    DEF TypeOK, GateTypeOK, AwaitCall, CountTypeOK, Phases
  <2>2. CountTypeOK'
    BY <1>16, ConstantAssumption
    DEF TypeOK, CountTypeOK, AwaitCall, commVars, histVars
  <2>3. FlagTypeOK' /\ AwaitTypeOK' /\ CallTypeOK'
    BY <1>16
    DEF TypeOK, FlagTypeOK, AwaitTypeOK, CallTypeOK, AwaitCall, commVars,
        gateVars, awaitVars, histVars
  <2>4. QED
    BY <2>1, <2>2, <2>3 DEF TypeOK
<1>17. ASSUME NEW j \in Jobs, AwaitRecord(j) PROVE TypeOK'
  <2>1. 0 \in Generations
    BY ConstantAssumption DEF Generations
  <2>2. jobs[j].seen \in Generations
    BY DEF TypeOK, GateTypeOK, JobStates
  <2>3. FlagTypeOK'
    BY <1>17
    DEF TypeOK, FlagTypeOK, AwaitRecord, commVars, gateVars, awaitVars,
        histVars
  <2>4. GateTypeOK'
    BY <1>17, <2>1, PhaseSeenType DEF TypeOK, GateTypeOK, AwaitRecord, Phases
  <2>5. AwaitTypeOK'
    BY <1>17, <2>2 DEF TypeOK, AwaitTypeOK, AwaitRecord, awaitVars
  <2>6. CallTypeOK' /\ CountTypeOK'
    BY <1>17
    DEF TypeOK, CallTypeOK, CountTypeOK, AwaitRecord, commVars, boundVars,
        histVars
  <2>7. QED
    BY <2>3, <2>4, <2>5, <2>6 DEF TypeOK
<1>18. ASSUME NEW j \in Jobs, FinalizeAwait(j) PROVE TypeOK'
  <2>1. AwaitWork(j) \in JobStates
    BY JobType DEF AwaitWork, TypeOK, AwaitTypeOK, Phases
  <2>2. [jobs EXCEPT ![j].phase = "finish"] \in [Jobs -> JobStates]
    BY PhaseType DEF TypeOK, GateTypeOK, Phases
  <2>3. FlagTypeOK'
    BY <1>18 DEF TypeOK, FlagTypeOK, FinalizeAwait, commVars, histVars
  <2>4. GateTypeOK'
    <3>1. CASE await_requested
      BY <1>18, <3>1, <2>1 DEF TypeOK, GateTypeOK, FinalizeAwait
    <3>2. CASE ~await_requested
      BY <1>18, <3>2, <2>2 DEF TypeOK, GateTypeOK, FinalizeAwait
    <3>3. QED
      BY <1>18, <3>1, <3>2 DEF FinalizeAwait
  <2>5. AwaitTypeOK' /\ CallTypeOK' /\ CountTypeOK'
    BY <1>18
    DEF TypeOK, AwaitTypeOK, CallTypeOK, CountTypeOK, FinalizeAwait,
        awaitVars, commVars, boundVars, histVars
  <2>6. QED
    BY <2>3, <2>4, <2>5 DEF TypeOK
<1>19. ASSUME NEW j \in Jobs, FinishExecution(j) PROVE TypeOK'
  <2>1. pending # <<>> => /\ QueuedJob(Head(pending)) \in JobStates
                         /\ Tail(pending) \in Seq(Tasks)
                         /\ Len(Tail(pending)) <= BacklogCapacity
    BY QueuedJobType, PendingTail, ConstantAssumption DEF TypeOK, GateTypeOK
  <2>2. <<>> \in Seq(Tasks) /\ Len(<<>>) <= BacklogCapacity
    BY ConstantAssumption 
  <2>3. FlagTypeOK'
    BY <1>19
    DEF TypeOK, FlagTypeOK, FinishExecution, commVars, awaitVars, histVars
  <2>4. GateTypeOK'
    <3>1. CASE pending # <<>> /\ PoolAccepting
      BY <1>19, <3>1, <2>1 DEF TypeOK, GateTypeOK, FinishExecution
    <3>2. CASE pending = <<>> \/ ~PoolAccepting
      BY <1>19, <3>2, <2>2, FreeJobType
      DEF TypeOK, GateTypeOK, FinishExecution
    <3>3. QED
      BY <1>19, <3>1, <3>2 DEF FinishExecution
  <2>5. AwaitTypeOK' /\ CallTypeOK' /\ CountTypeOK'
    BY <1>19
    DEF TypeOK, AwaitTypeOK, CallTypeOK, CountTypeOK, FinishExecution,
        awaitVars, commVars, boundVars, histVars
  <2>6. QED
    BY <2>3, <2>4, <2>5 DEF TypeOK
<1>20. ASSUME NEW j \in Jobs, StartWork(j) PROVE TypeOK'
  <2>1. GateTypeOK'
    BY <1>20, PhaseType DEF TypeOK, GateTypeOK, StartWork, Phases
  <2>2. FlagTypeOK' /\ AwaitTypeOK' /\ CallTypeOK' /\ CountTypeOK'
    BY <1>20
    DEF TypeOK, FlagTypeOK, AwaitTypeOK, CallTypeOK, CountTypeOK, StartWork,
        commVars, gateVars, awaitVars, histVars, boundVars
  <2>3. QED
    BY <2>1, <2>2 DEF TypeOK
<1>21. ASSUME NEW j \in Jobs, WorkReturns(j) PROVE TypeOK'
  <2>1. GateTypeOK'
    BY <1>21, PhaseSeenType, CurrentGenerationType
    DEF TypeOK, GateTypeOK, WorkReturns, Phases
  <2>2. FlagTypeOK' /\ AwaitTypeOK' /\ CallTypeOK' /\ CountTypeOK'
    BY <1>21
    DEF TypeOK, FlagTypeOK, AwaitTypeOK, CallTypeOK, CountTypeOK, WorkReturns,
        commVars, gateVars, awaitVars, histVars, boundVars
  <2>3. QED
    BY <2>1, <2>2 DEF TypeOK
<1>22. ASSUME NEW j \in Jobs, SettleAwait(j) PROVE TypeOK'
  <2>1. 0 \in Generations /\ jobs[j].gen \in Generations
    BY ConstantAssumption DEF TypeOK, GateTypeOK, JobStates, Generations
  <2>2. Job("queued", "RESUME", jobs[j].gen, await_resume) \in
     JobStates
    BY <2>1, JobType DEF TypeOK, AwaitTypeOK, Phases
  <2>3. [jobs EXCEPT ![j].phase = "discard"] \in [Jobs -> JobStates]
    BY PhaseType DEF TypeOK, GateTypeOK, Phases
  <2>4. FlagTypeOK'
    BY <1>22
    DEF TypeOK, FlagTypeOK, SettleAwait, commVars, gateVars, awaitVars,
        histVars
  <2>5. GateTypeOK'
    <3>1. CASE AwaitMatches(j)
      BY <1>22, <3>1, <2>2 DEF TypeOK, GateTypeOK, SettleAwait
    <3>2. CASE ~AwaitMatches(j)
      BY <1>22, <3>2, <2>3 DEF TypeOK, GateTypeOK, SettleAwait
    <3>3. QED
      BY <1>22, <3>1, <3>2 DEF SettleAwait
  <2>6. AwaitTypeOK'
    BY <1>22, <2>1 DEF TypeOK, AwaitTypeOK, SettleAwait, awaitVars
  <2>7. CallTypeOK' /\ CountTypeOK'
    BY <1>22
    DEF TypeOK, CallTypeOK, CountTypeOK, SettleAwait, commVars, boundVars,
        histVars
  <2>8. QED
    BY <2>4, <2>5, <2>6, <2>7 DEF TypeOK
<1>23. ASSUME NEW j \in Jobs, DiscardAwait(j) PROVE TypeOK'
  <2>1. 0 \in Generations
    BY ConstantAssumption DEF Generations
  <2>2. Job("finish", "WORK", 0, NoClosure) \in JobStates
    BY <2>1, JobType DEF Phases
  <2>3. FlagTypeOK'
    BY <1>23
    DEF TypeOK, FlagTypeOK, DiscardAwait, ClearAwait, commVars, gateVars,
        awaitVars, histVars
  <2>4. GateTypeOK'
    BY <1>23, <2>2, FreeJobType DEF TypeOK, GateTypeOK, DiscardAwait
  <2>5. AwaitTypeOK'
    BY <1>23, <2>1
    DEF TypeOK, AwaitTypeOK, DiscardAwait, ClearAwait, awaitVars
  <2>6. CallTypeOK' /\ CountTypeOK'
    BY <1>23
    DEF TypeOK, CallTypeOK, CountTypeOK, DiscardAwait, commVars, boundVars,
        histVars
  <2>7. QED
    BY <2>3, <2>4, <2>5, <2>6 DEF TypeOK
<1>24. ASSUME NEW j \in Jobs, StartResume(j) PROVE TypeOK'
  <2>1. GateTypeOK'
    BY <1>24, PhaseType, PhaseClosureType
    DEF TypeOK, GateTypeOK, StartResume, Phases
  <2>2. FlagTypeOK' /\ AwaitTypeOK' /\ CallTypeOK' /\ CountTypeOK'
    BY <1>24
    DEF TypeOK, FlagTypeOK, AwaitTypeOK, CallTypeOK, CountTypeOK, StartResume,
        commVars, gateVars, awaitVars, histVars, boundVars
  <2>3. QED
    BY <2>1, <2>2 DEF TypeOK
<1>25. ASSUME StopAdmission PROVE TypeOK'
  <2>1. FlagTypeOK' /\ GateTypeOK' /\ AwaitTypeOK' /\ CallTypeOK' /\
     CountTypeOK'
    BY <1>25
    DEF TypeOK, FlagTypeOK, GateTypeOK, AwaitTypeOK, CallTypeOK, CountTypeOK,
        StopAdmission, commVars, gateVars, awaitVars, histVars, boundVars
  <2>2. QED
    BY <2>1 DEF TypeOK
<1>26. ASSUME StopPool PROVE TypeOK'
  <2>1. FlagTypeOK' /\ GateTypeOK' /\ AwaitTypeOK' /\ CallTypeOK' /\
     CountTypeOK'
    BY <1>26
    DEF TypeOK, FlagTypeOK, GateTypeOK, AwaitTypeOK, CallTypeOK, CountTypeOK,
        StopPool, commVars, gateVars, awaitVars, histVars, boundVars
  <2>2. QED
    BY <2>1 DEF TypeOK
<1>27. ASSUME JoinWorkers PROVE TypeOK'
  <2>1. <<>> \in Seq(Tasks) /\ Len(<<>>) <= BacklogCapacity
    BY ConstantAssumption 
  <2>2. 0 \in Generations
    BY ConstantAssumption DEF Generations
  <2>3. FlagTypeOK'
    BY <1>27 DEF TypeOK, FlagTypeOK, JoinWorkers, ClearAwait
  <2>4. GateTypeOK'
    BY <1>27, <2>1 DEF TypeOK, GateTypeOK, JoinWorkers
  <2>5. AwaitTypeOK'
    BY <1>27, <2>2 DEF TypeOK, AwaitTypeOK, JoinWorkers, ClearAwait
  <2>6. CountTypeOK'
    BY <1>27, ConstantAssumption, <2>2
    DEF TypeOK, CountTypeOK, JoinWorkers, CommLockFree
  <2>7. CallTypeOK'
    BY <1>27 DEF TypeOK, CallTypeOK, JoinWorkers
  <2>8. QED
    BY <2>3, <2>4, <2>5, <2>6, <2>7 DEF TypeOK
<1>28. ASSUME WorkersStart PROVE TypeOK'
  <2>1. FlagTypeOK' /\ GateTypeOK' /\ AwaitTypeOK' /\ CallTypeOK' /\
     CountTypeOK'
    BY <1>28
    DEF TypeOK, FlagTypeOK, GateTypeOK, AwaitTypeOK, CallTypeOK, CountTypeOK,
        WorkersStart, commVars, gateVars, awaitVars, histVars, boundVars
  <2>2. QED
    BY <2>1 DEF TypeOK
<1>29. ASSUME UNCHANGED vars PROVE TypeOK'
  BY <1>29
  DEF vars, TypeOK, FlagTypeOK, GateTypeOK, AwaitTypeOK, CallTypeOK,
      CountTypeOK, commVars, awaitVars, gateVars, boundVars, histVars
<1>30. QED
  BY <1>1, <1>2, <1>3, <1>4, <1>5, <1>6, <1>7, <1>8, <1>9, <1>10, <1>11, <1>12, <1>13, <1>14, <1>15, <1>16, <1>17, <1>18, <1>19, <1>20, <1>21, <1>22, <1>23, <1>24, <1>25, <1>26, <1>27, <1>28, <1>29
  DEF Next, JobStep, CommStep, ApplicationStep, LifecycleStep

\* Type correctness of the execution gate, and the bound of the continuation
\* queue: transport.thread_pool.backlog_capacity is never exceeded.
THEOREM TypeCorrect == Spec => []TypeOK
<1>1. Init => TypeOK
  <2>1. ASSUME Init PROVE FlagTypeOK
    BY <2>1 DEF Init, FlagTypeOK
  <2>2. ASSUME Init PROVE GateTypeOK
    <3>1. <<>> \in Seq(Tasks) /\ Len(<<>>) <= BacklogCapacity
      BY ConstantAssumption
    <3>2. QED
      BY <2>2, <3>1, FreeJobType DEF Init, GateTypeOK
  <2>3. ASSUME Init PROVE CallTypeOK
    BY <2>3, ConstantAssumption
    DEF Init, CallTypeOK, IdleOp, IdleSender, Generations
  <2>4. ASSUME Init PROVE AwaitTypeOK /\ CountTypeOK
    BY <2>4, ConstantAssumption
    DEF Init, IdleOp, AwaitTypeOK, CountTypeOK, Generations
  <2>5. QED
    BY <2>1, <2>2, <2>3, <2>4 DEF TypeOK
<1>2. TypeOK /\ [Next]_vars => TypeOK'
  BY TypeStep
<1>3. QED
  BY <1>1, <1>2, PTL DEF Spec

-----------------------------------------------------------------------------
(* The gate: steps that leave its owner alone.                             *)

\* Steps that change neither the gate, the jobs nor the await.
LEMMA GateUntouched ==
    ASSUME GateInvariant,
           UNCHANGED gateVars, UNCHANGED awaitVars, UNCHANGED <<cancelled, thrown>>,
           op'.pc = "close_finish" <=> op.pc = "close_finish"
    PROVE  GateInvariant'
BY DEF GateInvariant, JobShape, OwnerUnique, GateHeld, AwaitRecorded,
       StaleWorkCancelled, Owner, AwaitOwner, gateVars, awaitVars

\* A step that moves one job from phase to phase without finishing it.
LEMMA PhaseMove ==
    ASSUME GateInvariant, NEW j \in Jobs,
           jobs[j].phase \notin {"free", "finish"},
           \A i \in Jobs : i # j => jobs'[i] = jobs[i],
           jobs'[j].kind = jobs[j].kind, jobs'[j].gen = jobs[j].gen,
           \/ /\ jobs[j].kind \in SlotHooks \cup {"RESUME"}
              /\ jobs'[j].phase \in {"queued", "hook", "await", "complete",
                                     "finalize", "finish"}
           \/ /\ jobs[j].kind = "WORK"
              /\ jobs'[j].phase \in {"queued", "work", "settle", "discard"}
              /\ jobs'[j].closure = jobs[j].closure,
           jobs'[j].phase = "await" => jobs'[j].seen \notin cancelled,
           UNCHANGED <<active, pending>>, UNCHANGED awaitVars,
           UNCHANGED <<cancelled, thrown>>,
           op'.pc = "close_finish" <=> op.pc = "close_finish"
    PROVE  GateInvariant'
<1>1. JobShape'
  BY DEF GateInvariant, JobShape, SlotHooks
<1>2. \A i \in Jobs : /\ AwaitOwner(i)' <=> AwaitOwner(i)
                      /\ Owner(i)' <=> Owner(i)
  BY DEF GateInvariant, JobShape, Owner, AwaitOwner, awaitVars, SlotHooks
<1>3. OwnerUnique' /\ GateHeld'
  BY <1>2 DEF GateInvariant, OwnerUnique, GateHeld
<1>4. AwaitRecorded'
  BY <1>2 DEF GateInvariant, AwaitRecorded, awaitVars, SlotHooks
<1>5. StaleWorkCancelled'
  BY <1>2 DEF GateInvariant, JobShape, StaleWorkCancelled, awaitVars, SlotHooks
<1>6. QED
  BY <1>1, <1>3, <1>4, <1>5 DEF GateInvariant

\* Entering the gate: a closed gate queues the task behind its owner, an open
\* one makes the task the owner.
LEMMA EnqueueGate ==
    ASSUME TypeOK, GateInvariant, NEW t \in Tasks, NEW allow, NEW result,
           EnqueueSection(t, allow, result),
           UNCHANGED awaitVars, UNCHANGED <<cancelled, thrown>>,
           op'.pc = "close_finish" <=> op.pc = "close_finish"
    PROVE  GateInvariant'
<1>1. CASE UNCHANGED gateVars
  BY <1>1, GateUntouched
<1>2. CASE /\ active
           /\ pending' = Append(pending, t)
           /\ UNCHANGED <<active, jobs>>
  BY <1>2 DEF GateInvariant, JobShape, OwnerUnique, GateHeld, AwaitRecorded,
              StaleWorkCancelled, Owner, AwaitOwner, awaitVars
<1>3. CASE /\ ~active /\ active' = TRUE
           /\ \E j \in FreeJobs : jobs' = [jobs EXCEPT ![j] = QueuedJob(t)]
           /\ UNCHANGED pending
  <2>1. PICK j \in Jobs : /\ jobs[j].phase = "free"
                          /\ jobs' = [jobs EXCEPT ![j] = QueuedJob(t)]
    BY <1>3 DEF FreeJobs
  <2>2. /\ jobs'[j].phase = "queued" /\ jobs'[j].kind \in SlotHooks
        /\ \A i \in Jobs : i # j => jobs'[i] = jobs[i]
    BY <2>1 DEF TypeOK, GateTypeOK, QueuedJob, Job, Tasks
  <2>3. \A i \in Jobs : ~Owner(i)
    BY <1>3 DEF GateInvariant, GateHeld
  <2>4. JobShape'
    BY <2>2 DEF GateInvariant, JobShape, SlotHooks
  <2>5. \A i \in Jobs : /\ AwaitOwner(i)' <=> AwaitOwner(i)
                        /\ Owner(i)' <=> i = j
    BY <2>1, <2>2, <2>3 DEF Owner, AwaitOwner, awaitVars, SlotHooks
  <2>6. OwnerUnique' /\ GateHeld'
    BY <1>3, <2>5 DEF GateInvariant, OwnerUnique, GateHeld
  <2>7. AwaitRecorded'
    BY <2>1, <2>2, <2>5 DEF GateInvariant, AwaitRecorded, AwaitOwner, awaitVars,
                            SlotHooks
  <2>8. StaleWorkCancelled'
    BY <2>1, <2>2, <2>5 DEF GateInvariant, StaleWorkCancelled, awaitVars, SlotHooks
  <2>9. QED
    BY <2>4, <2>6, <2>7, <2>8 DEF GateInvariant
<1>4. QED
  BY <1>1, <1>2, <1>3 DEF EnqueueSection

\* The same for mudmux_execution_dispatch.
LEMMA DispatchGate ==
    ASSUME TypeOK, GateInvariant, NEW t \in Tasks, NEW allow, NEW result,
           Dispatch(t, allow, result),
           UNCHANGED awaitVars, UNCHANGED <<cancelled, thrown>>,
           op'.pc = "close_finish" <=> op.pc = "close_finish"
    PROVE  GateInvariant'
BY EnqueueGate, GateUntouched DEF Dispatch

-----------------------------------------------------------------------------
(* The gate: steps that change its owner or the recorded await.            *)

\* comm_close: a pending await loses its owner and comm_close takes the gate.
LEMMA CloseRequestGate ==
    ASSUME TypeOK, GateInvariant, NEW by \in Callers, CloseRequest(by)
    PROVE  GateInvariant'
<1>1. op.pc = "idle" /\ UNCHANGED gateVars /\ UNCHANGED thrown
  BY DEF CloseRequest, CommLockFree
<1>2. CASE /\ ~await_requested /\ ~await_pending
           /\ UNCHANGED awaitVars /\ UNCHANGED cancelled
           /\ op' = [pc |-> "close_dispatch", by |-> by]
  BY <1>1, <1>2, GateUntouched
<1>3. CASE /\ await_requested
           /\ ClearAwait /\ UNCHANGED cancelled
           /\ op' = [pc |-> "close_dispatch", by |-> by]
  <2>1. \A i \in Jobs : /\ ~AwaitOwner(i) /\ ~AwaitOwner(i)'
                        /\ Owner(i)' <=> Owner(i)
    BY <1>1, <1>3 DEF GateInvariant, AwaitRecorded, Owner, AwaitOwner,
                      ClearAwait, gateVars
  <2>2. QED
    BY <1>1, <1>3, <2>1
    DEF GateInvariant, JobShape, OwnerUnique, GateHeld, AwaitRecorded,
        StaleWorkCancelled, ClearAwait, gateVars
<1>4. CASE /\ ~await_requested /\ await_pending
           /\ ClearAwait /\ cancelled' = cancelled \cup {await_generation}
           /\ op' = [pc |-> "close_finish", by |-> by]
  <2>1. PICK k \in Jobs : AwaitOwner(k) /\ Owner(k)
    BY <1>4 DEF GateInvariant, AwaitRecorded, Owner
  <2>2. /\ \A i \in Jobs : Owner(i) => i = k
        /\ active
        /\ jobs[k].phase # "finish" /\ jobs[k].kind = "WORK"
    BY <1>4, <2>1, ConstantAssumption
    DEF GateInvariant, OwnerUnique, GateHeld, JobShape, AwaitRecorded, AwaitOwner
  <2>3. \A i \in Jobs : ~AwaitOwner(i)' /\ ~Owner(i)'
    BY <1>1, <1>4, <2>2 DEF Owner, AwaitOwner, ClearAwait, gateVars, SlotHooks
  <2>4. JobShape'
    BY <1>1 DEF GateInvariant, JobShape, gateVars
  <2>5. OwnerUnique' /\ GateHeld' /\ AwaitRecorded'
    BY <1>1, <1>4, <2>2, <2>3
    DEF GateInvariant, OwnerUnique, GateHeld, AwaitRecorded, ClearAwait, gateVars
  <2>6. \A i \in Jobs : jobs[i].phase = "await" => Owner(i)
    BY DEF GateInvariant, JobShape, Owner, SlotHooks, TypeOK, GateTypeOK,
           JobStates
  <2>7. StaleWorkCancelled'
    BY <1>1, <1>4, <2>2, <2>6
    DEF GateInvariant, AwaitRecorded, StaleWorkCancelled, AwaitOwner, JobShape,
        ClearAwait, gateVars
  <2>8. QED
    BY <2>4, <2>5, <2>7 DEF GateInvariant
<1>5. QED
  BY <1>2, <1>3, <1>4 DEF CloseRequest, AfterCancel

\* comm_close hands the gate it took to the oldest continuation or opens it.
LEMMA CloseFinishGate ==
    ASSUME TypeOK, GateInvariant, CloseFinish
    PROVE  GateInvariant'
<1>1. /\ op.pc = "close_finish" /\ op'.pc = "close_dispatch"
      /\ UNCHANGED awaitVars /\ UNCHANGED <<cancelled, thrown>>
      /\ \A i \in Jobs : ~Owner(i)
  BY DEF CloseFinish, GateInvariant, OwnerUnique, TypeOK, CallTypeOK, histVars
<1>2. CASE pending # <<>> /\ PoolAccepting
  <2>1. PICK j \in Jobs : /\ jobs[j].phase = "free"
                          /\ jobs' = [jobs EXCEPT ![j] = QueuedJob(Head(pending))]
    BY <1>2 DEF CloseFinish, FreeJobs
  <2>2. /\ jobs'[j].phase = "queued" /\ jobs'[j].kind \in SlotHooks
        /\ \A i \in Jobs : i # j => jobs'[i] = jobs[i]
    BY <1>2, <2>1, PendingTail DEF TypeOK, GateTypeOK, QueuedJob, Job, Tasks
  <2>3. active' /\ pending # <<>>
    BY <1>1, <1>2 DEF CloseFinish, GateInvariant, OwnerUnique
  <2>4. JobShape'
    BY <2>2 DEF GateInvariant, JobShape, SlotHooks
  <2>5. \A i \in Jobs : /\ AwaitOwner(i)' <=> AwaitOwner(i)
                        /\ Owner(i)' <=> i = j
    BY <1>1, <2>1, <2>2 DEF Owner, AwaitOwner, awaitVars, SlotHooks
  <2>6. OwnerUnique' /\ GateHeld'
    BY <1>1, <2>3, <2>5 DEF OwnerUnique, GateHeld
  <2>7. AwaitRecorded'
    BY <1>1, <2>1, <2>2, <2>5 DEF GateInvariant, AwaitRecorded, AwaitOwner,
                                  awaitVars, SlotHooks
  <2>8. StaleWorkCancelled'
    BY <1>1, <2>1, <2>2, <2>5 DEF GateInvariant, StaleWorkCancelled, awaitVars, SlotHooks
  <2>9. QED
    BY <2>4, <2>6, <2>7, <2>8 DEF GateInvariant
<1>3. CASE pending = <<>> \/ ~PoolAccepting
  <2>1. pending' = <<>> /\ active' = FALSE /\ UNCHANGED jobs
    BY <1>3 DEF CloseFinish
  <2>2. \A i \in Jobs : /\ AwaitOwner(i)' <=> AwaitOwner(i)
                        /\ ~Owner(i)'
    BY <1>1, <2>1 DEF Owner, AwaitOwner, awaitVars
  <2>3. QED
    BY <1>1, <2>1, <2>2
    DEF GateInvariant, JobShape, OwnerUnique, GateHeld, AwaitRecorded,
        StaleWorkCancelled, awaitVars
<1>4. QED
  BY <1>2, <1>3

\* An exception drops the owner and leaves the gate held.
LEMMA HookThrowsGate ==
    ASSUME TypeOK, GateInvariant, NEW j \in Jobs, HookThrows(j)
    PROVE  GateInvariant'
<1>1. /\ jobs[j].phase = "hook" /\ jobs[j].kind \in SlotHooks
      /\ jobs'[j].phase = "free" /\ jobs'[j].kind = "NONE"
      /\ \A i \in Jobs : i # j => jobs'[i] = jobs[i]
      /\ thrown' = TRUE
      /\ UNCHANGED awaitVars /\ UNCHANGED <<active, pending, op, cancelled>>
  BY DEF HookThrows, TypeOK, GateTypeOK, FreeJob, Job
<1>2. JobShape'
  BY <1>1 DEF GateInvariant, JobShape, SlotHooks
<1>3. \A i \in Jobs : /\ AwaitOwner(i)' <=> AwaitOwner(i)
                      /\ Owner(i)' => Owner(i)
                      /\ AwaitOwner(i) => i # j
  BY <1>1 DEF Owner, AwaitOwner, awaitVars, SlotHooks
<1>4. OwnerUnique' /\ GateHeld'
  BY <1>1, <1>3 DEF GateInvariant, OwnerUnique, GateHeld
<1>5. AwaitRecorded' /\ StaleWorkCancelled'
  BY <1>1, <1>3 DEF GateInvariant, AwaitRecorded, StaleWorkCancelled, awaitVars,
                    SlotHooks
<1>6. QED
  BY <1>2, <1>4, <1>5 DEF GateInvariant

\* mudmux_workers_await records a closure no other work carries.
LEMMA AwaitRecordGate ==
    ASSUME TypeOK, GateInvariant, NEW j \in Jobs, AwaitRecord(j)
    PROVE  GateInvariant'
<1>1. /\ jobs[j].phase = "await" /\ jobs'[j].phase = "hook"
      /\ jobs'[j].kind = jobs[j].kind /\ jobs'[j].gen = jobs[j].gen
      /\ \A i \in Jobs : i # j => jobs'[i] = jobs[i]
      /\ UNCHANGED <<active, pending, op, cancelled, thrown>>
  BY DEF AwaitRecord, TypeOK, GateTypeOK, JobStates, histVars
<1>2. jobs[j].kind \in SlotHooks \cup {"RESUME"}
  BY <1>1 DEF GateInvariant, JobShape, TypeOK, GateTypeOK, JobStates, SlotHooks
<1>3. CASE UNCHANGED awaitVars
  BY <1>1, <1>2, <1>3, PhaseMove
<1>4. CASE /\ ~await_requested /\ ~await_pending
           /\ await_requested' = TRUE
           /\ await_generation' = jobs[j].seen
           /\ \E c \in Closures \ UsedClosures : await_resume' = c
           /\ UNCHANGED await_pending
  <2>1. JobShape'
    BY <1>1, <1>2 DEF GateInvariant, JobShape, SlotHooks
  <2>2. \A i \in Jobs : /\ ~AwaitOwner(i) /\ ~AwaitOwner(i)'
                        /\ Owner(i)' <=> Owner(i)
    BY <1>1, <1>2, <1>4 DEF Owner, AwaitOwner, SlotHooks
  <2>3. OwnerUnique' /\ GateHeld'
    BY <1>1, <2>2 DEF GateInvariant, OwnerUnique, GateHeld
  <2>4. AwaitRecorded'
    BY <1>1, <1>2, <1>4, <2>2 DEF AwaitRecorded, UsedClosures, SlotHooks
  <2>5. StaleWorkCancelled'
    BY <1>1, <1>2, <1>4, <2>2 DEF GateInvariant, StaleWorkCancelled, SlotHooks
  <2>6. QED
    BY <2>1, <2>3, <2>4, <2>5 DEF GateInvariant
<1>5. QED
  BY <1>3, <1>4 DEF AwaitRecord

\* mudmux_execution_finalize_await passes the gate on to the work, or lets the
\* execution finish.
LEMMA FinalizeAwaitGate ==
    ASSUME TypeOK, GateInvariant, NEW j \in Jobs, FinalizeAwait(j)
    PROVE  GateInvariant'
<1>1. /\ jobs[j].phase = "finalize"
      /\ jobs[j].kind \in SlotHooks \cup {"RESUME"}
      /\ Owner(j)
      /\ UNCHANGED <<await_generation, await_resume, pending, op, cancelled, thrown>>
  BY DEF FinalizeAwait, GateInvariant, JobShape, TypeOK, GateTypeOK, JobStates,
         Owner, SlotHooks, histVars
<1>2. CASE await_requested
  <2>1. /\ jobs'[j].phase = "queued" /\ jobs'[j].kind = "WORK"
        /\ jobs'[j].gen = await_generation /\ jobs'[j].closure = await_resume
        /\ \A i \in Jobs : i # j => jobs'[i] = jobs[i]
        /\ await_requested' = FALSE /\ await_pending' = TRUE /\ active' = TRUE
    BY <1>2 DEF FinalizeAwait, AwaitWork, Job, TypeOK, GateTypeOK
  <2>2. \A i \in Jobs : /\ i # j => ~Owner(i)
                        /\ AwaitOwner(i)' <=> i = j
                        /\ Owner(i)' <=> i = j
    BY <1>1, <1>2, <2>1
    DEF GateInvariant, OwnerUnique, AwaitRecorded, Owner, AwaitOwner
  <2>3. JobShape'
    BY <1>2, <2>1 DEF GateInvariant, JobShape, AwaitRecorded, SlotHooks
  <2>4. OwnerUnique' /\ GateHeld'
    BY <1>1, <2>1, <2>2 DEF GateInvariant, OwnerUnique, GateHeld
  <2>5. AwaitRecorded'
    BY <1>1, <1>2, <2>1, <2>2 DEF GateInvariant, AwaitRecorded
  <2>6. StaleWorkCancelled'
    BY <1>1, <1>2, <2>1, <2>2 DEF GateInvariant, StaleWorkCancelled, Owner
  <2>7. QED
    BY <2>3, <2>4, <2>5, <2>6 DEF GateInvariant
<1>3. CASE ~await_requested
  <2>1. /\ jobs'[j].phase = "finish" /\ jobs'[j].kind = jobs[j].kind
        /\ jobs'[j].gen = jobs[j].gen
        /\ \A i \in Jobs : i # j => jobs'[i] = jobs[i]
        /\ UNCHANGED awaitVars /\ UNCHANGED active
    BY <1>3 DEF FinalizeAwait, TypeOK, GateTypeOK, JobStates, awaitVars
  <2>2. QED
    BY <1>1, <2>1, PhaseMove
<1>4. QED
  BY <1>2, <1>3

\* finish_slot_execution hands the gate to the oldest continuation or opens it.
LEMMA FinishExecutionGate ==
    ASSUME TypeOK, GateInvariant, NEW j \in Jobs, FinishExecution(j)
    PROVE  GateInvariant'
<1>1. /\ jobs[j].phase = "finish" /\ Owner(j) /\ active
      /\ \A i \in Jobs : i # j => ~Owner(i)
      /\ op.pc # "close_finish"
      /\ UNCHANGED awaitVars /\ UNCHANGED <<op, cancelled, thrown>>
  BY DEF FinishExecution, GateInvariant, OwnerUnique, GateHeld, Owner, histVars
<1>2. ~AwaitOwner(j)
  BY <1>1, ConstantAssumption
  DEF GateInvariant, JobShape, AwaitRecorded, AwaitOwner, SlotHooks
<1>3. CASE pending # <<>> /\ PoolAccepting
  <2>1. /\ jobs'[j].phase = "queued" /\ jobs'[j].kind \in SlotHooks
        /\ \A i \in Jobs : i # j => jobs'[i] = jobs[i]
        /\ active' = active
    <3>1. Head(pending).kind \in SlotHooks
      BY <1>3, PendingTail DEF TypeOK, GateTypeOK, Tasks
    <3>2. QED
      BY <1>3, <3>1 DEF FinishExecution, TypeOK, GateTypeOK, QueuedJob, Job
  <2>2. JobShape'
    BY <2>1 DEF GateInvariant, JobShape, SlotHooks
  <2>3. \A i \in Jobs : /\ AwaitOwner(i)' <=> AwaitOwner(i)
                        /\ Owner(i)' <=> i = j
    BY <1>1, <1>2, <2>1 DEF Owner, AwaitOwner, awaitVars, SlotHooks
  <2>4. OwnerUnique' /\ GateHeld'
    BY <1>1, <2>1, <2>3 DEF OwnerUnique, GateHeld
  <2>5. AwaitRecorded'
    BY <1>1, <1>2, <2>1, <2>3 DEF GateInvariant, AwaitRecorded, AwaitOwner, awaitVars, SlotHooks
  <2>6. StaleWorkCancelled'
    BY <1>1, <2>1, <2>3 DEF GateInvariant, StaleWorkCancelled, awaitVars, SlotHooks
  <2>7. QED
    BY <2>2, <2>4, <2>5, <2>6 DEF GateInvariant
<1>4. CASE pending = <<>> \/ ~PoolAccepting
  <2>1. /\ jobs'[j].phase = "free" /\ jobs'[j].kind = "NONE"
        /\ \A i \in Jobs : i # j => jobs'[i] = jobs[i]
        /\ active' = FALSE /\ pending' = <<>>
    BY <1>4 DEF FinishExecution, TypeOK, GateTypeOK, FreeJob, Job
  <2>2. JobShape'
    BY <2>1 DEF GateInvariant, JobShape, SlotHooks
  <2>3. \A i \in Jobs : /\ AwaitOwner(i)' <=> AwaitOwner(i)
                        /\ ~Owner(i)'
    BY <1>1, <1>2, <2>1 DEF Owner, AwaitOwner, awaitVars, SlotHooks
  <2>4. OwnerUnique' /\ GateHeld'
    BY <1>1, <2>1, <2>3 DEF OwnerUnique, GateHeld
  <2>5. AwaitRecorded'
    BY <1>1, <1>2, <2>1, <2>3 DEF GateInvariant, AwaitRecorded, AwaitOwner, awaitVars
  <2>6. StaleWorkCancelled'
    BY <1>1, <2>1, <2>3 DEF GateInvariant, StaleWorkCancelled, awaitVars
  <2>7. QED
    BY <2>2, <2>4, <2>5, <2>6 DEF GateInvariant
<1>5. QED
  BY <1>3, <1>4

\* Work whose generation a recorded await carries is that await's own work.
LEMMA SameGenerationOwns ==
    ASSUME GateInvariant, NEW j \in Jobs,
           jobs[j].kind = "WORK", jobs[j].phase # "finish",
           await_requested \/ await_pending, await_generation = jobs[j].gen
    PROVE  AwaitOwner(j) /\ Owner(j)
BY DEF GateInvariant, StaleWorkCancelled, Owner

\* Settling an await turns its work into its resume closure's execution.
LEMMA SettleAwaitGate ==
    ASSUME TypeOK, GateInvariant, NEW j \in Jobs, SettleAwait(j)
    PROVE  GateInvariant'
<1>1. /\ jobs[j].phase = "settle" /\ jobs[j].kind = "WORK"
      /\ UNCHANGED <<active, pending, op, cancelled, thrown>>
  BY DEF SettleAwait, GateInvariant, JobShape, TypeOK, GateTypeOK, JobStates,
         SlotHooks, histVars
<1>2. CASE AwaitMatches(j)
  <2>1. AwaitOwner(j) /\ Owner(j) /\ await_pending
    BY <1>1, <1>2, SameGenerationOwns DEF AwaitMatches
  <2>2. /\ jobs'[j].phase = "queued" /\ jobs'[j].kind = "RESUME"
        /\ \A i \in Jobs : i # j => jobs'[i] = jobs[i]
        /\ await_pending' = FALSE /\ UNCHANGED await_requested
        /\ ~await_requested
    BY <1>2, <2>1 DEF SettleAwait, Job, TypeOK, GateTypeOK, GateInvariant, AwaitRecorded
  <2>3. \A i \in Jobs : /\ ~AwaitOwner(i)'
                        /\ i # j => ~Owner(i)
                        /\ Owner(i)' <=> i = j
    BY <2>1, <2>2 DEF GateInvariant, OwnerUnique, Owner, AwaitOwner, SlotHooks
  <2>4. JobShape'
    BY <2>2 DEF GateInvariant, JobShape, SlotHooks
  <2>5. OwnerUnique' /\ GateHeld'
    BY <1>1, <2>1, <2>3 DEF GateInvariant, OwnerUnique, GateHeld
  <2>6. AwaitRecorded' /\ StaleWorkCancelled'
    BY <1>1, <2>2, <2>3 DEF GateInvariant, AwaitRecorded, StaleWorkCancelled, Owner,
                            SlotHooks
  <2>7. QED
    BY <2>4, <2>5, <2>6 DEF GateInvariant
<1>3. CASE ~AwaitMatches(j)
  <2>1. /\ jobs'[j].phase = "discard" /\ jobs'[j].kind = "WORK"
        /\ jobs'[j].gen = jobs[j].gen /\ jobs'[j].closure = jobs[j].closure
        /\ \A i \in Jobs : i # j => jobs'[i] = jobs[i]
        /\ UNCHANGED awaitVars
    BY <1>1, <1>3 DEF SettleAwait, TypeOK, GateTypeOK, JobStates
  <2>2. QED
    BY <1>1, <2>1, PhaseMove
<1>4. QED
  BY <1>2, <1>3

\* discard_slot_await finishes the slot only on behalf of its own await.
LEMMA DiscardAwaitGate ==
    ASSUME TypeOK, GateInvariant, NEW j \in Jobs, DiscardAwait(j)
    PROVE  GateInvariant'
<1>1. /\ jobs[j].phase = "discard" /\ jobs[j].kind = "WORK"
      /\ UNCHANGED <<active, pending, op, cancelled, thrown>>
  BY DEF DiscardAwait, GateInvariant, JobShape, TypeOK, GateTypeOK, JobStates,
         SlotHooks, histVars
<1>2. CASE Discards(j)
  <2>1. AwaitOwner(j) /\ Owner(j)
    BY <1>1, <1>2, SameGenerationOwns DEF Discards
  <2>2. /\ jobs'[j].phase = "finish" /\ jobs'[j].kind = "WORK"
        /\ jobs'[j].closure = NoClosure
        /\ \A i \in Jobs : i # j => jobs'[i] = jobs[i]
        /\ await_pending' = FALSE /\ await_requested' = FALSE
    BY <1>2 DEF DiscardAwait, ClearAwait, Job, TypeOK, GateTypeOK
  <2>3. \A i \in Jobs : /\ ~AwaitOwner(i)'
                        /\ i # j => ~Owner(i)
                        /\ Owner(i)' <=> i = j
    BY <2>1, <2>2 DEF GateInvariant, OwnerUnique, Owner, AwaitOwner, SlotHooks
  <2>4. JobShape'
    BY <2>2 DEF GateInvariant, JobShape, SlotHooks
  <2>5. OwnerUnique' /\ GateHeld'
    BY <1>1, <2>1, <2>3 DEF GateInvariant, OwnerUnique, GateHeld
  <2>6. AwaitRecorded' /\ StaleWorkCancelled'
    BY <1>1, <2>2, <2>3 DEF GateInvariant, AwaitRecorded, StaleWorkCancelled, Owner
  <2>7. QED
    BY <2>4, <2>5, <2>6 DEF GateInvariant
<1>3. CASE ~Discards(j)
  <2>1. ~AwaitOwner(j)
    BY <1>3 DEF GateInvariant, AwaitRecorded, AwaitOwner, Discards
  <2>2. /\ jobs'[j].phase = "free" /\ jobs'[j].kind = "NONE"
        /\ \A i \in Jobs : i # j => jobs'[i] = jobs[i]
        /\ UNCHANGED awaitVars
    BY <1>3 DEF DiscardAwait, TypeOK, GateTypeOK, FreeJob, Job
  <2>3. \A i \in Jobs : /\ AwaitOwner(i)' <=> AwaitOwner(i)
                        /\ Owner(i)' <=> Owner(i)
    BY <1>1, <2>1, <2>2 DEF Owner, AwaitOwner, awaitVars, SlotHooks
  <2>4. JobShape'
    BY <2>2 DEF GateInvariant, JobShape, SlotHooks
  <2>5. OwnerUnique' /\ GateHeld'
    BY <1>1, <2>3 DEF GateInvariant, OwnerUnique, GateHeld
  <2>6. AwaitRecorded' /\ StaleWorkCancelled'
    BY <1>1, <2>1, <2>2, <2>3
    DEF GateInvariant, AwaitRecorded, StaleWorkCancelled, awaitVars
  <2>7. QED
    BY <2>4, <2>5, <2>6 DEF GateInvariant
<1>4. QED
  BY <1>2, <1>3

\* mudmux_workers_stop leaves an empty gate.
LEMMA JoinWorkersGate ==
    ASSUME TypeOK, GateInvariant, JoinWorkers
    PROVE  GateInvariant'
<1>1. /\ \A i \in Jobs : jobs'[i] = jobs[i] /\ jobs[i].phase = "free"
                         /\ jobs[i].kind = "NONE"
      /\ active' = FALSE /\ pending' = <<>> /\ op'.pc = "idle"
      /\ await_requested' = FALSE /\ await_pending' = FALSE
  BY DEF JoinWorkers, ClearAwait, CommLockFree, GateInvariant, JobShape
<1>2. \A i \in Jobs : ~Owner(i)' /\ ~AwaitOwner(i)'
  BY <1>1 DEF Owner, AwaitOwner, SlotHooks
<1>3. QED
  BY <1>1, <1>2 DEF GateInvariant, JobShape, OwnerUnique, GateHeld, AwaitRecorded,
                    StaleWorkCancelled, SlotHooks

-----------------------------------------------------------------------------
(* Mutual exclusion.                                                       *)

\* Every step preserves the gate invariant if the application does not await
\* again on a connection whose await comm_close has cancelled.
LEMMA GateStep ==
    ASSUME TypeOK, GateInvariant, ~AwaitAfterCancel, [Next]_vars
    PROVE  GateInvariant'
<1> USE DEF CommLockFree
<1>1. ASSUME Accept PROVE GateInvariant'
  <2>1. Task("CONNECT", generation + 1) \in Tasks
    BY <1>1, ConstantAssumption
    DEF Accept, Task, Tasks, SlotHooks, TypeOK, CountTypeOK, Generations
  <2>2. QED
    BY <1>1, <2>1, DispatchGate DEF Accept
<1>2. ASSUME ParseInput PROVE GateInvariant'
  BY <1>2, GateUntouched DEF ParseInput, histVars
<1>3. ASSUME InboundDispatch PROVE GateInvariant'
  <2>1. Task("INBOUND", CurrentGeneration) \in Tasks
    BY CurrentGenerationType DEF Task, Tasks, SlotHooks
  <2>2. QED
    BY <1>3, <2>1, DispatchGate DEF InboundDispatch, IdleOp, histVars
<1>4. ASSUME CloseDispatch PROVE GateInvariant'
  <2>1. Task("DISCONNECT", CurrentGeneration) \in Tasks
    BY CurrentGenerationType DEF Task, Tasks, SlotHooks
  <2>2. QED
    BY <1>4, <2>1, DispatchGate DEF CloseDispatch, IdleOp, histVars
<1>5. ASSUME Teardown PROVE GateInvariant'
  BY <1>5, GateUntouched DEF Teardown, histVars
<1>6. ASSUME NEW by \in Callers, SendMessage(by) PROVE GateInvariant'
  BY <1>6, GateUntouched DEF SendMessage, histVars
<1>7. ASSUME SendEnqueue PROVE GateInvariant'
  <2>1. Task("OUTBOUND", sender.gen) \in Tasks
    BY DEF TypeOK, CallTypeOK, Task, Tasks, SlotHooks
  <2>2. QED
    BY <1>7, <2>1, EnqueueGate DEF SendEnqueue, histVars
<1>8. ASSUME NEW j \in Jobs, StartExecution(j) PROVE GateInvariant'
  <2>1. /\ jobs[j].phase = "queued" /\ jobs[j].kind \in SlotHooks
        /\ jobs'[j].phase \in {"hook", "finalize"}
        /\ jobs'[j].kind = jobs[j].kind /\ jobs'[j].gen = jobs[j].gen
        /\ \A i \in Jobs : i # j => jobs'[i] = jobs[i]
    BY <1>8 DEF StartExecution, TypeOK, GateTypeOK, JobStates
  <2>2. QED
    BY <1>8, <2>1, PhaseMove DEF StartExecution
<1>9. ASSUME NEW j \in Jobs, HookReturns(j) PROVE GateInvariant'
  <2>1. /\ jobs[j].phase = "hook" /\ jobs[j].kind \in SlotHooks \cup {"RESUME"}
        /\ jobs'[j].phase \in {"complete", "finalize"}
        /\ jobs'[j].kind = jobs[j].kind /\ jobs'[j].gen = jobs[j].gen
        /\ \A i \in Jobs : i # j => jobs'[i] = jobs[i]
    BY <1>9 DEF HookReturns, GateInvariant, JobShape, TypeOK, GateTypeOK, JobStates
  <2>2. QED
    BY <1>9, <2>1, PhaseMove DEF HookReturns, histVars
<1>10. ASSUME NEW j \in Jobs, CompleteConnect(j) \/ CompleteHook(j)
       PROVE GateInvariant'
  <2>1. /\ jobs[j].phase = "complete" /\ jobs[j].kind \in SlotHooks \cup {"RESUME"}
        /\ jobs'[j].phase = "finalize"
        /\ jobs'[j].kind = jobs[j].kind /\ jobs'[j].gen = jobs[j].gen
        /\ \A i \in Jobs : i # j => jobs'[i] = jobs[i]
    BY <1>10 DEF CompleteConnect, CompleteHook, GateInvariant, JobShape, TypeOK,
                 GateTypeOK, JobStates
  <2>2. /\ UNCHANGED <<active, pending, cancelled, thrown>> /\ UNCHANGED awaitVars
        /\ op.pc = "idle" /\ op'.pc # "close_finish"
    <3>1. CASE CompleteConnect(j)
      BY <3>1 DEF CompleteConnect, histVars
    <3>2. CASE CompleteHook(j)
      BY <3>2 DEF CompleteHook, histVars
    <3>3. QED
      BY <1>10, <3>1, <3>2
  <2>3. QED
    BY <2>1, <2>2, PhaseMove
<1>11. ASSUME ReadyDispatch PROVE GateInvariant'
  <2>1. Task("TRANSPORT_READY", CurrentGeneration) \in Tasks
    BY CurrentGenerationType DEF Task, Tasks, SlotHooks
  <2>2. QED
    BY <1>11, <2>1, DispatchGate DEF ReadyDispatch, IdleOp, histVars
<1>12. ASSUME NEW j \in Jobs, AwaitCall(j) PROVE GateInvariant'
  <2>1. /\ jobs[j].phase = "hook" /\ jobs[j].kind \in SlotHooks \cup {"RESUME"}
        /\ jobs'[j].phase = "await" /\ jobs'[j].seen = generation
        /\ jobs'[j].kind = jobs[j].kind /\ jobs'[j].gen = jobs[j].gen
        /\ \A i \in Jobs : i # j => jobs'[i] = jobs[i]
        /\ generation \notin cancelled
    BY <1>12 DEF AwaitCall, GateInvariant, JobShape, TypeOK, GateTypeOK, JobStates
  <2>2. QED
    BY <1>12, <2>1, PhaseMove DEF AwaitCall, histVars
<1>13. ASSUME NEW j \in Jobs, StartWork(j) \/ WorkReturns(j) PROVE GateInvariant'
  <2>1. /\ jobs[j].phase \in {"queued", "work"} /\ jobs[j].kind = "WORK"
        /\ jobs'[j].phase \in {"work", "settle"}
        /\ jobs'[j].kind = jobs[j].kind /\ jobs'[j].gen = jobs[j].gen
        /\ jobs'[j].closure = jobs[j].closure
        /\ \A i \in Jobs : i # j => jobs'[i] = jobs[i]
    BY <1>13 DEF StartWork, WorkReturns, GateInvariant, JobShape, TypeOK,
                 GateTypeOK, JobStates
  <2>2. QED
    BY <1>13, <2>1, PhaseMove DEF StartWork, WorkReturns, histVars
<1>14. ASSUME NEW j \in Jobs, StartResume(j) PROVE GateInvariant'
  <2>1. /\ jobs[j].phase = "queued" /\ jobs[j].kind = "RESUME"
        /\ jobs'[j].phase \in {"hook", "finalize"}
        /\ jobs'[j].kind = jobs[j].kind /\ jobs'[j].gen = jobs[j].gen
        /\ \A i \in Jobs : i # j => jobs'[i] = jobs[i]
    BY <1>14 DEF StartResume, TypeOK, GateTypeOK, JobStates
  <2>2. QED
    BY <1>14, <2>1, PhaseMove DEF StartResume, histVars
<1>15. ASSUME StopAdmission \/ StopPool \/ WorkersStart PROVE GateInvariant'
  BY <1>15, GateUntouched DEF StopAdmission, StopPool, WorkersStart, histVars
<1>16. ASSUME UNCHANGED vars PROVE GateInvariant'
  BY <1>16, GateUntouched DEF vars, histVars
<1>17. QED
  BY <1>1, <1>2, <1>3, <1>4, <1>5, <1>6, <1>7, <1>8, <1>9, <1>10, <1>11, <1>12,
     <1>13, <1>14, <1>15, <1>16, CloseRequestGate, CloseFinishGate,
     HookThrowsGate, AwaitRecordGate, FinalizeAwaitGate, FinishExecutionGate,
     SettleAwaitGate, DiscardAwaitGate, JoinWorkersGate
  DEF Next, JobStep, CommStep, ApplicationStep, LifecycleStep

\* The ownership discipline of the gate holds in every reachable state: one
\* owner at most, every pending await backed by its own work, and work left
\* over by comm_close never mistaken for a newer await's.
THEOREM GateDiscipline ==
    ASSUME ~AwaitAfterCancel
    PROVE  Spec => []GateInvariant
<1>1. Init => GateInvariant
  <2>1. ASSUME Init PROVE \A j \in Jobs : /\ jobs[j].phase = "free"
                                          /\ jobs[j].kind = "NONE"
    BY <2>1 DEF Init, FreeJob, Job
  <2>2. ASSUME Init PROVE \A j \in Jobs : ~Owner(j) /\ ~AwaitOwner(j)
    BY <2>1, <2>2 DEF Owner, AwaitOwner, SlotHooks
  <2>3. ASSUME Init PROVE JobShape
    BY <2>1, <2>3 DEF JobShape, SlotHooks
  <2>4. ASSUME Init PROVE OwnerUnique /\ GateHeld
    BY <2>2, <2>4 DEF Init, IdleOp, OwnerUnique, GateHeld
  <2>5. ASSUME Init PROVE AwaitRecorded /\ StaleWorkCancelled
    BY <2>1, <2>2, <2>5 DEF Init, AwaitRecorded, StaleWorkCancelled
  <2>6. QED
    BY <2>3, <2>4, <2>5 DEF GateInvariant
<1>2. TypeOK /\ GateInvariant /\ [Next]_vars => GateInvariant'
  BY GateStep
<1>3. QED
  BY <1>1, <1>2, TypeCorrect, PTL DEF Spec

\* mudmux never calls logic for two events of one slot at the same time, for
\* every number of workers, tasks and connections, hooks that throw included.
THEOREM HooksExclude ==
    ASSUME ~AwaitAfterCancel
    PROVE  Spec => []MutualExclusion
<1>1. TypeOK /\ GateInvariant => MutualExclusion
  <2>1. ASSUME TypeOK, GateInvariant, NEW j \in Jobs, InHook(j) PROVE Owner(j)
    BY <2>1 DEF InHook, GateInvariant, JobShape, TypeOK, GateTypeOK, JobStates, Owner
  <2>2. QED
    BY <2>1 DEF MutualExclusion, GateInvariant, OwnerUnique
<1>2. QED
  BY <1>1, TypeCorrect, GateDiscipline, PTL

\* The gate is never opened under its holder and never orphaned by anything
\* but an exception.
THEOREM GateNeverOrphaned ==
    ASSUME ~AwaitAfterCancel
    PROVE  Spec => []GateHeld
<1>1. GateInvariant => GateHeld
  BY DEF GateInvariant
<1>2. QED
  BY <1>1, GateDiscipline, PTL

-----------------------------------------------------------------------------
(* The connection life cycle: the hooks that clear C_AWAITING_HOOK, the    *)
(* single disconnect hook of a connection, and what becomes of await       *)
(* closures.  The inductive invariant.                                     *)

OpeningHooks == {"CONNECT", "TRANSPORT_READY"}

\* A lifecycle hook is live until its completion has run; it is then a task of
\* the pool or a continuation.
LiveJob(j) ==
    /\ jobs[j].kind \in LifecycleHooks
    /\ jobs[j].phase \in {"queued", "hook", "await", "complete"}

PendingSlots == 1 .. Len(pending)
LiveTask(k)  == pending[k].kind \in LifecycleHooks

DisconnectJob(j)  == LiveJob(j) /\ jobs[j].kind = "DISCONNECT"
DisconnectTask(k) == pending[k].kind = "DISCONNECT"
WaitingJob(j)     == jobs[j].kind = "DISCONNECT" /\ jobs[j].phase = "queued"
OpeningJob(j)     == LiveJob(j) /\ jobs[j].kind \in OpeningHooks
OpeningTask(k)    == pending[k].kind \in OpeningHooks

\* The disconnect hook is live; it has not begun; an opening hook is live.
DisconnectLive ==
    (\E j \in Jobs : DisconnectJob(j)) \/ (\E k \in PendingSlots : DisconnectTask(k))
DisconnectWaits ==
    (\E j \in Jobs : WaitingJob(j)) \/ (\E k \in PendingSlots : DisconnectTask(k))
OpeningLive ==
    (\E j \in Jobs : OpeningJob(j)) \/ (\E k \in PendingSlots : OpeningTask(k))

\* comm_close holds comm_slots_mtx.
InClose == op.pc \in {"close_finish", "close_dispatch"}

\* A live lifecycle hook belongs to the connection that occupies the slot.
HooksCurrent ==
    /\ \A j \in Jobs : LiveJob(j) => occupied /\ jobs[j].gen = generation
    /\ \A k \in PendingSlots : LiveTask(k) => occupied /\ pending[k].gen = generation

\* The flags of the connection, the holder of comm_slots_mtx and the pool.
ConnectionFlags ==
    /\ ~occupied => ~closing /\ ~disconnect_pending /\ ~awaiting_hook
    /\ disconnect_pending => closing /\ ~awaiting_hook
    /\ InClose => occupied /\ closing /\ ~disconnect_pending /\ pool = "up"
    /\ op.pc = "ready" => occupied /\ ~closing
    /\ pool # "up" =>
          /\ op.pc = "idle"
          /\ occupied => closing /\ ~awaiting_hook /\ ~disconnect_pending

\* No lifecycle hook is queued behind the disconnect hook.
DisconnectLast ==
    /\ \A k, l \in PendingSlots : DisconnectTask(k) /\ LiveTask(l) => l <= k
    /\ \A j \in Jobs : DisconnectJob(j) => \A k \in PendingSlots : ~LiveTask(k)

\* A live disconnect hook keeps C_AWAITING_HOOK set, and comm_close out.
DisconnectHolds ==
    DisconnectLive => /\ closing /\ ~disconnect_pending /\ awaiting_hook
                      /\ op.pc = "idle"

\* The disconnect hook has begun once comm_close has dispatched it and it does
\* not wait any more.
DisconnectCounted ==
    occupied => disconnects = IF /\ closing /\ ~disconnect_pending
                                 /\ ~InClose /\ ~DisconnectWaits
                              THEN 1 ELSE 0

\* It begins after the opening hooks are over.
OpeningFirst == OpeningLive => disconnects = 0

\* C_AWAITING_HOOK belongs to the opening hooks, after a close request to the
\* disconnect hook.
AwaitedHook ==
    awaiting_hook /\ ~thrown =>
        IF closing /\ ~InClose THEN DisconnectLive
                               ELSE op.pc = "ready" \/ OpeningLive

HookOrder ==
    /\ HooksCurrent /\ DisconnectLast /\ DisconnectHolds /\ DisconnectCounted
    /\ OpeningFirst /\ AwaitedHook

LifecycleInvariant == ConnectionFlags /\ HookOrder

-----------------------------------------------------------------------------
(* What the steps do to live hooks.                                        *)

JobKept(i) ==
    /\ LiveJob(i)' <=> LiveJob(i)
    /\ LiveJob(i) => jobs'[i].kind = jobs[i].kind /\ jobs'[i].gen = jobs[i].gen
    /\ WaitingJob(i)' <=> WaitingJob(i)

TasksKept ==
    /\ \A k \in PendingSlots : LiveTask(k) => k \in PendingSlots' /\ pending'[k] = pending[k]
    /\ \A k \in PendingSlots' : LiveTask(k)' => k \in PendingSlots /\ pending'[k] = pending[k]

\* Every live hook stays where it is.
HooksKept == TasksKept /\ \A i \in Jobs : JobKept(i)

\* A task enters an open gate as a job, a closed one as the last continuation.
Enters(t) ==
    \/ /\ \A i \in Jobs : ~LiveJob(i)
       /\ PendingSlots = {} /\ PendingSlots' = {}
       /\ \E j \in Jobs : /\ jobs'[j] = QueuedJob(t)
                          /\ \A i \in Jobs \ {j} : jobs'[i] = jobs[i]
    \/ /\ UNCHANGED jobs
       /\ \E n \in Nat : /\ PendingSlots' = PendingSlots \cup {n}
                         /\ n \notin PendingSlots /\ pending'[n] = t
                         /\ \A k \in PendingSlots : k \in Nat /\ k < n /\ pending'[k] = pending[k]

\* The oldest continuation becomes a job.
Advances ==
    /\ \A i \in Jobs : ~LiveJob(i)
    /\ 1 \in PendingSlots
    /\ \E j \in Jobs : /\ jobs'[j] = QueuedJob(pending[1])
                       /\ \A i \in Jobs \ {j} : jobs'[i] = jobs[i]
    /\ \A k \in PendingSlots : k \in Nat /\ (k # 1 => k - 1 \in PendingSlots')
    /\ \A k \in PendingSlots' : /\ k \in Nat /\ k >= 1 /\ k + 1 \in PendingSlots
                                /\ pending'[k] = pending[k + 1]

\* A hook that has begun is over; no other task of the pool is a live hook.
Ends(j) ==
    /\ LiveJob(j) /\ ~WaitingJob(j)
    /\ ~LiveJob(j)' /\ ~WaitingJob(j)'
    /\ \A i \in Jobs \ {j} : ~LiveJob(i) /\ jobs'[i] = jobs[i]
    /\ UNCHANGED pending

\* The disconnect hook begins.
Begins(j) ==
    /\ WaitingJob(j) /\ DisconnectJob(j)' /\ ~WaitingJob(j)'
    /\ jobs'[j].gen = jobs[j].gen
    /\ \A i \in Jobs \ {j} : ~LiveJob(i) /\ jobs'[i] = jobs[i]
    /\ UNCHANGED pending

\* The kinds of lifecycle hooks.
LEMMA HookKinds ==
    /\ LifecycleHooks = OpeningHooks \cup {"DISCONNECT"}
    /\ "DISCONNECT" \notin OpeningHooks
    /\ LifecycleHooks \subseteq SlotHooks
BY DEF LifecycleHooks, OpeningHooks, SlotHooks

\* A disconnect hook that waits is live, and live hooks are of two sorts.
LEMMA LiveParts ==
    /\ DisconnectWaits => DisconnectLive
    /\ \A j \in Jobs : LiveJob(j) <=> DisconnectJob(j) \/ OpeningJob(j)
    /\ \A k : LiveTask(k) <=> DisconnectTask(k) \/ OpeningTask(k)
    /\ (\A j \in Jobs : ~LiveJob(j)) /\ (\A k \in PendingSlots : ~LiveTask(k))
          <=> ~DisconnectLive /\ ~OpeningLive
<1>1. \A j \in Jobs : LiveJob(j) <=> DisconnectJob(j) \/ OpeningJob(j)
  BY HookKinds DEF LiveJob, DisconnectJob, OpeningJob
<1>2. \A k : LiveTask(k) <=> DisconnectTask(k) \/ OpeningTask(k)
  BY HookKinds DEF LiveTask, DisconnectTask, OpeningTask
<1>3. \A j \in Jobs : WaitingJob(j) => DisconnectJob(j)
  BY HookKinds DEF WaitingJob, DisconnectJob, LiveJob
<1>4. QED
  BY <1>1, <1>2, <1>3 DEF DisconnectWaits, DisconnectLive, OpeningLive

\* Steps that keep the live hooks keep what is said about them.
LEMMA KeptHooks ==
    ASSUME HooksKept
    PROVE  /\ DisconnectLive' <=> DisconnectLive
           /\ DisconnectWaits' <=> DisconnectWaits
           /\ OpeningLive' <=> OpeningLive
           /\ DisconnectLast => DisconnectLast'
           /\ HooksCurrent /\ UNCHANGED <<occupied, generation>> => HooksCurrent'
<1>1. \A i \in Jobs : /\ DisconnectJob(i)' <=> DisconnectJob(i)
                      /\ OpeningJob(i)' <=> OpeningJob(i)
                      /\ WaitingJob(i)' <=> WaitingJob(i)
                      /\ LiveJob(i)' <=> LiveJob(i)
                      /\ LiveJob(i) => jobs'[i].gen = jobs[i].gen
  BY DEF HooksKept, JobKept, DisconnectJob, OpeningJob
<1>2. /\ \A k \in PendingSlots' :
            LiveTask(k)' => /\ k \in PendingSlots /\ LiveTask(k)
                            /\ DisconnectTask(k)' <=> DisconnectTask(k)
                            /\ OpeningTask(k)' <=> OpeningTask(k)
                            /\ pending'[k] = pending[k]
      /\ \A k \in PendingSlots :
            LiveTask(k) => /\ k \in PendingSlots' /\ LiveTask(k)'
                           /\ DisconnectTask(k)' <=> DisconnectTask(k)
                           /\ OpeningTask(k)' <=> OpeningTask(k)
  BY DEF HooksKept, TasksKept, LiveTask, DisconnectTask, OpeningTask
<1>3. \A k : /\ DisconnectTask(k) \/ OpeningTask(k) => LiveTask(k)
             /\ DisconnectTask(k)' \/ OpeningTask(k)' => LiveTask(k)'
  BY HookKinds DEF LiveTask, DisconnectTask, OpeningTask
<1>4. /\ DisconnectLive' <=> DisconnectLive
      /\ DisconnectWaits' <=> DisconnectWaits
      /\ OpeningLive' <=> OpeningLive
  BY <1>1, <1>2, <1>3 DEF DisconnectLive, DisconnectWaits, OpeningLive
<1>5. ASSUME DisconnectLast PROVE DisconnectLast'
  BY <1>1, <1>2, <1>3, <1>5 DEF DisconnectLast
<1>6. ASSUME HooksCurrent, UNCHANGED <<occupied, generation>> PROVE HooksCurrent'
  BY <1>1, <1>2, <1>6 DEF HooksCurrent
<1>7. QED
  BY <1>4, <1>5, <1>6

\* A job made from a task is a live hook exactly when the task is one.
LEMMA QueuedLive ==
    ASSUME NEW t \in Tasks, NEW j, jobs'[j] = QueuedJob(t)
    PROVE  /\ LiveJob(j)' <=> t.kind \in LifecycleHooks
           /\ DisconnectJob(j)' <=> t.kind = "DISCONNECT"
           /\ WaitingJob(j)' <=> t.kind = "DISCONNECT"
           /\ OpeningJob(j)' <=> t.kind \in OpeningHooks
           /\ jobs'[j].gen = t.gen
BY HookKinds DEF LiveJob, DisconnectJob, WaitingJob, OpeningJob, QueuedJob, Job

\* What slot_execution_t records of a hook and its connection.
LEMMA TaskIs ==
    ASSUME NEW kind \in SlotHooks, NEW gen \in Generations
    PROVE  \E t \in Tasks : t = Task(kind, gen) /\ t.kind = kind /\ t.gen = gen
<1>1. Task(kind, gen) \in Tasks /\ Task(kind, gen).kind = kind /\ Task(kind, gen).gen = gen
  BY DEF Task, Tasks
<1>2. QED
  BY <1>1

\* A task that is not a lifecycle hook leaves those that are alone.
LEMMA EntersOther ==
    ASSUME NEW t \in Tasks, t.kind \notin LifecycleHooks, Enters(t)
    PROVE  HooksKept
<1>1. ASSUME NEW i \in Jobs, jobs'[i] = jobs[i]
      PROVE  JobKept(i)
  BY <1>1 DEF JobKept, LiveJob, WaitingJob
<1>2. CASE /\ \A i \in Jobs : ~LiveJob(i)
           /\ PendingSlots = {} /\ PendingSlots' = {}
           /\ \E j \in Jobs : /\ jobs'[j] = QueuedJob(t)
                              /\ \A i \in Jobs \ {j} : jobs'[i] = jobs[i]
  <2>1. PICK j \in Jobs : /\ jobs'[j] = QueuedJob(t)
                          /\ \A i \in Jobs \ {j} : jobs'[i] = jobs[i]
    BY <1>2
  <2>2. ~LiveJob(j) /\ ~WaitingJob(j) /\ ~LiveJob(j)' /\ ~WaitingJob(j)'
    BY <1>2, <2>1, HookKinds, QueuedLive DEF LiveJob, WaitingJob
  <2>3. QED
    BY <1>1, <1>2, <2>1, <2>2 DEF HooksKept, TasksKept, JobKept
<1>3. CASE /\ UNCHANGED jobs
           /\ \E n \in Nat : /\ PendingSlots' = PendingSlots \cup {n}
                             /\ n \notin PendingSlots /\ pending'[n] = t
                             /\ \A k \in PendingSlots : k \in Nat /\ k < n /\ pending'[k] = pending[k]
  <2>1. TasksKept
    BY <1>3 DEF TasksKept, LiveTask
  <2>2. QED
    BY <1>1, <1>3, <2>1 DEF HooksKept
<1>4. QED
  BY <1>2, <1>3 DEF Enters

\* A lifecycle hook enters behind the others; none enters after the disconnect
\* hook.
LEMMA EntersHook ==
    ASSUME NEW t \in Tasks, t.kind \in LifecycleHooks, Enters(t),
           ~DisconnectLive, DisconnectLast
    PROVE  /\ DisconnectLive' <=> t.kind = "DISCONNECT"
           /\ DisconnectWaits' <=> t.kind = "DISCONNECT"
           /\ OpeningLive' <=> OpeningLive \/ t.kind \in OpeningHooks
           /\ DisconnectLast'
           /\ /\ occupied' /\ t.gen = generation'
              /\ HooksCurrent /\ (UNCHANGED <<occupied, generation>> \/ ~OpeningLive)
              => HooksCurrent'
<1>1. ~DisconnectWaits /\ \A j \in Jobs : ~DisconnectJob(j) /\ ~WaitingJob(j)
  BY LiveParts DEF DisconnectLive, DisconnectWaits
<1>2. \A k \in PendingSlots : ~DisconnectTask(k)
  BY DEF DisconnectLive
<1>3. ASSUME NEW i \in Jobs, jobs'[i] = jobs[i]
      PROVE  /\ DisconnectJob(i)' <=> DisconnectJob(i)
             /\ OpeningJob(i)' <=> OpeningJob(i)
             /\ WaitingJob(i)' <=> WaitingJob(i)
             /\ LiveJob(i)' <=> LiveJob(i)
             /\ jobs'[i].gen = jobs[i].gen
  BY <1>3 DEF DisconnectJob, OpeningJob, WaitingJob, LiveJob
<1>4. CASE /\ \A i \in Jobs : ~LiveJob(i)
           /\ PendingSlots = {} /\ PendingSlots' = {}
           /\ \E j \in Jobs : /\ jobs'[j] = QueuedJob(t)
                              /\ \A i \in Jobs \ {j} : jobs'[i] = jobs[i]
  <2>1. PICK j \in Jobs : /\ jobs'[j] = QueuedJob(t)
                          /\ \A i \in Jobs \ {j} : jobs'[i] = jobs[i]
    BY <1>4
  <2>2. /\ LiveJob(j)' /\ jobs'[j].gen = t.gen
        /\ DisconnectJob(j)' <=> t.kind = "DISCONNECT"
        /\ WaitingJob(j)' <=> t.kind = "DISCONNECT"
        /\ OpeningJob(j)' <=> t.kind \in OpeningHooks
    BY <2>1, QueuedLive
  <2>3. \A i \in Jobs \ {j} : /\ ~LiveJob(i)' /\ ~DisconnectJob(i)'
                              /\ ~OpeningJob(i)' /\ ~WaitingJob(i)'
    BY <1>1, <1>3, <1>4, <2>1 DEF OpeningJob
  <2>4. ~OpeningLive
    BY <1>4 DEF OpeningLive, OpeningJob
  <2>5. /\ DisconnectLive' <=> t.kind = "DISCONNECT"
        /\ DisconnectWaits' <=> t.kind = "DISCONNECT"
        /\ OpeningLive' <=> OpeningLive \/ t.kind \in OpeningHooks
    BY <1>4, <2>2, <2>3, <2>4 DEF DisconnectLive, DisconnectWaits, OpeningLive
  <2>6. DisconnectLast'
    BY <1>4 DEF DisconnectLast
  <2>7. occupied' /\ t.gen = generation' => HooksCurrent'
    BY <1>4, <2>2, <2>3 DEF HooksCurrent
  <2>8. QED
    BY <2>5, <2>6, <2>7
<1>5. CASE /\ UNCHANGED jobs
           /\ \E n \in Nat : /\ PendingSlots' = PendingSlots \cup {n}
                             /\ n \notin PendingSlots /\ pending'[n] = t
                             /\ \A k \in PendingSlots : k \in Nat /\ k < n /\ pending'[k] = pending[k]
  <2>1. PICK n \in Nat : /\ PendingSlots' = PendingSlots \cup {n}
                         /\ n \notin PendingSlots /\ pending'[n] = t
                         /\ \A k \in PendingSlots : k \in Nat /\ k < n /\ pending'[k] = pending[k]
    BY <1>5
  <2>2. \A k \in PendingSlots : /\ DisconnectTask(k)' <=> DisconnectTask(k)
                                /\ OpeningTask(k)' <=> OpeningTask(k)
                                /\ LiveTask(k)' <=> LiveTask(k)
    BY <2>1 DEF DisconnectTask, OpeningTask, LiveTask
  <2>3. /\ DisconnectTask(n)' <=> t.kind = "DISCONNECT"
        /\ OpeningTask(n)' <=> t.kind \in OpeningHooks
    BY <2>1 DEF DisconnectTask, OpeningTask
  <2>4. \A i \in Jobs : /\ DisconnectJob(i)' <=> DisconnectJob(i)
                        /\ OpeningJob(i)' <=> OpeningJob(i)
                        /\ WaitingJob(i)' <=> WaitingJob(i)
                        /\ LiveJob(i)' <=> LiveJob(i)
                        /\ jobs'[i].gen = jobs[i].gen
    BY <1>3, <1>5
  <2>5. /\ DisconnectLive' <=> t.kind = "DISCONNECT"
        /\ DisconnectWaits' <=> t.kind = "DISCONNECT"
        /\ OpeningLive' <=> OpeningLive \/ t.kind \in OpeningHooks
    BY <1>1, <1>2, <2>1, <2>2, <2>3, <2>4 DEF DisconnectLive, DisconnectWaits, OpeningLive
  <2>6. DisconnectLast'
    BY <1>1, <1>2, <2>1, <2>2, <2>4 DEF DisconnectLast
  <2>7. ASSUME occupied', t.gen = generation', HooksCurrent,
               UNCHANGED <<occupied, generation>> \/ ~OpeningLive
        PROVE  HooksCurrent'
    <3>1. CASE UNCHANGED <<occupied, generation>>
      BY <2>1, <2>2, <2>4, <2>7, <3>1 DEF HooksCurrent
    <3>2. CASE ~OpeningLive
      <4>1. (\A i \in Jobs : ~LiveJob(i)) /\ (\A k \in PendingSlots : ~LiveTask(k))
        BY <3>2, LiveParts
      <4>2. QED
        BY <2>1, <2>2, <2>4, <2>7, <4>1 DEF HooksCurrent
    <3>3. QED
      BY <2>7, <3>1, <3>2
  <2>8. QED
    BY <2>5, <2>6, <2>7
<1>6. QED
  BY <1>4, <1>5 DEF Enters

\* Handing the gate to the oldest continuation keeps every live hook live.
LEMMA AdvancedHooks ==
    ASSUME TypeOK, Advances, DisconnectLast
    PROVE  /\ DisconnectLive' <=> DisconnectLive
           /\ DisconnectWaits' <=> DisconnectWaits
           /\ OpeningLive' <=> OpeningLive
           /\ DisconnectLast'
           /\ HooksCurrent /\ UNCHANGED <<occupied, generation>> => HooksCurrent'
<1>1. pending[1] \in Tasks
  BY DEF Advances, TypeOK, GateTypeOK, PendingSlots
<1>2. PICK j \in Jobs : /\ jobs'[j] = QueuedJob(pending[1])
                        /\ \A i \in Jobs \ {j} : jobs'[i] = jobs[i]
  BY DEF Advances
<1>3. /\ LiveJob(j)' <=> LiveTask(1)
      /\ DisconnectJob(j)' <=> DisconnectTask(1)
      /\ WaitingJob(j)' <=> DisconnectTask(1)
      /\ OpeningJob(j)' <=> OpeningTask(1)
      /\ jobs'[j].gen = pending[1].gen
  BY <1>1, <1>2, QueuedLive DEF LiveTask, DisconnectTask, OpeningTask
<1>4. \A i \in Jobs : ~LiveJob(i) /\ ~DisconnectJob(i) /\ ~OpeningJob(i) /\ ~WaitingJob(i)
  BY HookKinds DEF Advances, DisconnectJob, OpeningJob, WaitingJob, LiveJob
<1>5. \A i \in Jobs \ {j} : ~LiveJob(i)' /\ ~DisconnectJob(i)' /\ ~OpeningJob(i)' /\ ~WaitingJob(i)'
  BY <1>2, <1>4 DEF DisconnectJob, OpeningJob, WaitingJob, LiveJob
<1>6. \A k \in PendingSlots' :
         /\ k \in Nat /\ k >= 1 /\ k + 1 \in PendingSlots /\ pending'[k] = pending[k + 1]
         /\ LiveTask(k)' <=> LiveTask(k + 1)
         /\ DisconnectTask(k)' <=> DisconnectTask(k + 1)
         /\ OpeningTask(k)' <=> OpeningTask(k + 1)
  BY DEF Advances, LiveTask, DisconnectTask, OpeningTask
<1>7. \A k \in PendingSlots : k # 1 =>
         /\ k - 1 \in PendingSlots'
         /\ DisconnectTask(k - 1)' <=> DisconnectTask(k)
         /\ OpeningTask(k - 1)' <=> OpeningTask(k)
  <2> SUFFICES ASSUME NEW k \in PendingSlots, k # 1
               PROVE  /\ k - 1 \in PendingSlots'
                      /\ DisconnectTask(k - 1)' <=> DisconnectTask(k)
                      /\ OpeningTask(k - 1)' <=> OpeningTask(k)
    OBVIOUS
  <2>1. k \in Nat /\ k - 1 \in PendingSlots' /\ (k - 1) + 1 = k
    BY DEF Advances
  <2>2. QED
    BY <1>6, <2>1
<1>8. 1 \in PendingSlots
  BY DEF Advances
<1>9. DisconnectLive' <=> DisconnectLive
  BY <1>3, <1>4, <1>5, <1>6, <1>7, <1>8 DEF DisconnectLive
<1>10. DisconnectWaits' <=> DisconnectWaits
  BY <1>3, <1>4, <1>5, <1>6, <1>7, <1>8 DEF DisconnectWaits
<1>11. OpeningLive' <=> OpeningLive
  BY <1>3, <1>4, <1>5, <1>6, <1>7, <1>8 DEF OpeningLive
<1>12. DisconnectLast'
  <2>1. ASSUME NEW k \in PendingSlots', NEW l \in PendingSlots',
               DisconnectTask(k)', LiveTask(l)'
        PROVE  l <= k
    BY <1>6, <2>1 DEF DisconnectLast
  <2>2. ASSUME NEW i \in Jobs, DisconnectJob(i)', NEW k \in PendingSlots', LiveTask(k)'
        PROVE  FALSE
    <3>1. DisconnectTask(1) /\ k + 1 \in PendingSlots /\ LiveTask(k + 1) /\ k \in Nat /\ k >= 1
      BY <1>3, <1>5, <1>6, <2>2
    <3>2. k + 1 <= 1
      BY <1>8, <3>1 DEF DisconnectLast
    <3>3. QED
      BY <3>1, <3>2
  <2>3. QED
    BY <2>1, <2>2 DEF DisconnectLast
<1>13. HooksCurrent /\ UNCHANGED <<occupied, generation>> => HooksCurrent'
  BY <1>3, <1>5, <1>6, <1>8 DEF HooksCurrent
<1>14. QED
  BY <1>9, <1>10, <1>11, <1>12, <1>13

\* The end of a hook: of the disconnect hook there is no other.
LEMMA EndedHook ==
    ASSUME NEW j \in Jobs, Ends(j), DisconnectLast
    PROVE  /\ DisconnectWaits' <=> DisconnectWaits
           /\ DisconnectLive' => DisconnectLive
           /\ OpeningLive' => OpeningLive
           /\ jobs[j].kind # "DISCONNECT" => (DisconnectLive' <=> DisconnectLive)
           /\ jobs[j].kind = "DISCONNECT" => ~DisconnectLive'
           /\ DisconnectLast'
           /\ HooksCurrent /\ UNCHANGED <<occupied, generation>> => HooksCurrent'
<1>1. /\ PendingSlots' = PendingSlots
      /\ \A k : /\ LiveTask(k)' <=> LiveTask(k)
                /\ DisconnectTask(k)' <=> DisconnectTask(k)
                /\ OpeningTask(k)' <=> OpeningTask(k)
  BY DEF Ends, PendingSlots, LiveTask, DisconnectTask, OpeningTask
<1>2. \A i \in Jobs : ~LiveJob(i)' /\ ~DisconnectJob(i)' /\ ~OpeningJob(i)'
  BY DEF Ends, LiveJob, DisconnectJob, OpeningJob
<1>3. \A i \in Jobs : ~WaitingJob(i)' /\ ~WaitingJob(i)
  BY HookKinds DEF Ends, LiveJob, WaitingJob
<1>4. \A i \in Jobs \ {j} : ~DisconnectJob(i) /\ ~OpeningJob(i)
  BY DEF Ends, DisconnectJob, OpeningJob
<1>5. DisconnectJob(j) <=> jobs[j].kind = "DISCONNECT"
  BY DEF Ends, DisconnectJob
<1>6. /\ DisconnectWaits' <=> DisconnectWaits
      /\ DisconnectLive' => DisconnectLive
      /\ OpeningLive' => OpeningLive
      /\ ~DisconnectJob(j) => (DisconnectLive' <=> DisconnectLive)
  BY <1>1, <1>2, <1>3, <1>4 DEF DisconnectWaits, DisconnectLive, OpeningLive
<1>7. ASSUME DisconnectJob(j) PROVE ~DisconnectLive'
  <2>1. \A k \in PendingSlots : ~DisconnectTask(k)
    BY <1>7, HookKinds DEF DisconnectLast, LiveTask, DisconnectTask
  <2>2. QED
    BY <1>1, <1>2, <2>1 DEF DisconnectLive
<1>8. DisconnectLast'
  BY <1>1, <1>2 DEF DisconnectLast
<1>9. HooksCurrent /\ UNCHANGED <<occupied, generation>> => HooksCurrent'
  BY <1>1, <1>2 DEF HooksCurrent, Ends
<1>10. QED
  BY <1>5, <1>6, <1>7, <1>8, <1>9

\* The disconnect hook begins when no other lifecycle hook is live.
LEMMA BegunHook ==
    ASSUME NEW j \in Jobs, Begins(j), DisconnectLast
    PROVE  /\ DisconnectLive /\ DisconnectWaits
           /\ DisconnectLive' /\ ~DisconnectWaits'
           /\ ~OpeningLive /\ ~OpeningLive'
           /\ DisconnectLast'
           /\ HooksCurrent /\ UNCHANGED <<occupied, generation>> => HooksCurrent'
<1>1. /\ PendingSlots' = PendingSlots
      /\ \A k : /\ LiveTask(k)' <=> LiveTask(k)
                /\ DisconnectTask(k)' <=> DisconnectTask(k)
                /\ OpeningTask(k)' <=> OpeningTask(k)
  BY DEF Begins, PendingSlots, LiveTask, DisconnectTask, OpeningTask
<1>2. DisconnectJob(j) /\ ~OpeningJob(j) /\ LiveJob(j)
  BY HookKinds DEF Begins, DisconnectJob, OpeningJob, WaitingJob, LiveJob
<1>3. \A k \in PendingSlots : ~LiveTask(k) /\ ~DisconnectTask(k) /\ ~OpeningTask(k)
  BY <1>2, HookKinds DEF DisconnectLast, LiveTask, DisconnectTask, OpeningTask
<1>4. \A i \in Jobs \ {j} : /\ ~OpeningJob(i) /\ ~OpeningJob(i)' /\ ~LiveJob(i)'
                            /\ ~WaitingJob(i)'
  BY HookKinds DEF Begins, OpeningJob, WaitingJob, LiveJob
<1>5. DisconnectJob(j)' /\ ~WaitingJob(j)' /\ ~OpeningJob(j)'
  BY HookKinds DEF Begins, DisconnectJob, OpeningJob
<1>6. DisconnectLive /\ DisconnectWaits /\ DisconnectLive' /\ ~DisconnectWaits'
  BY <1>1, <1>2, <1>3, <1>4, <1>5 DEF DisconnectLive, DisconnectWaits, Begins
<1>7. ~OpeningLive /\ ~OpeningLive'
  BY <1>1, <1>2, <1>3, <1>4, <1>5 DEF OpeningLive
<1>8. DisconnectLast'
  BY <1>1, <1>3 DEF DisconnectLast
<1>9. HooksCurrent /\ UNCHANGED <<occupied, generation>> => HooksCurrent'
  BY <1>1, <1>2, <1>3, <1>4 DEF HooksCurrent, Begins
<1>10. QED
  BY <1>6, <1>7, <1>8, <1>9

-----------------------------------------------------------------------------
(* The gate moves live hooks in these ways.                                *)

\* A live hook owns the gate.
LEMMA LiveOwns ==
    ASSUME NEW j \in Jobs, LiveJob(j)
    PROVE  Owner(j)
BY HookKinds DEF LiveJob, Owner

\* Steps that leave jobs and continuations alone keep the live hooks.
LEMMA UntouchedHooks ==
    ASSUME UNCHANGED jobs, UNCHANGED pending
    PROVE  HooksKept
BY DEF HooksKept, TasksKept, JobKept, LiveJob, WaitingJob, PendingSlots, LiveTask

\* mudmux_execution_enqueue lets the task in or changes nothing.
LEMMA EnqueueEffect ==
    ASSUME TypeOK, GateInvariant, NEW t \in Tasks, NEW allow, NEW result,
           EnqueueSection(t, allow, result)
    PROVE  \/ result = "QUEUED" /\ Enters(t)
           \/ result # "QUEUED" /\ UNCHANGED gateVars /\ (result = "ERROR" => ~PoolAccepting)
<1>1. CASE /\ result = "QUEUED" /\ ~active
           /\ \E j \in FreeJobs : jobs' = [jobs EXCEPT ![j] = QueuedJob(t)]
           /\ UNCHANGED pending
  <2>1. \A i \in Jobs : ~LiveJob(i)
    BY <1>1, LiveOwns DEF GateInvariant, GateHeld
  <2>2. PendingSlots = {} /\ PendingSlots' = {}
    BY <1>1 DEF GateInvariant, GateHeld, PendingSlots
  <2>3. PICK j \in Jobs : jobs' = [jobs EXCEPT ![j] = QueuedJob(t)]
    BY <1>1 DEF FreeJobs
  <2>4. jobs'[j] = QueuedJob(t) /\ \A i \in Jobs \ {j} : jobs'[i] = jobs[i]
    BY <2>3 DEF TypeOK, GateTypeOK
  <2>5. QED
    BY <1>1, <2>1, <2>2, <2>4 DEF Enters
<1>2. CASE /\ result = "QUEUED" /\ pending' = Append(pending, t)
           /\ UNCHANGED <<active, jobs>>
  <2> DEFINE n == Len(pending) + 1
  <2>1. /\ n \in Nat /\ PendingSlots' = PendingSlots \cup {n}
        /\ n \notin PendingSlots /\ pending'[n] = t
        /\ \A k \in PendingSlots : k \in Nat /\ k < n /\ pending'[k] = pending[k]
    BY <1>2 DEF TypeOK, GateTypeOK, PendingSlots
  <2> HIDE DEF n
  <2>2. QED
    BY <1>2, <2>1 DEF Enters
<1>3. QED
  BY <1>1, <1>2 DEF EnqueueSection

\* mudmux_execution_dispatch, which also fails when the pool is not running.
LEMMA DispatchEffect ==
    ASSUME TypeOK, GateInvariant, NEW t \in Tasks, NEW allow, NEW result,
           Dispatch(t, allow, result)
    PROVE  \/ result = "QUEUED" /\ Enters(t)
           \/ result # "QUEUED" /\ UNCHANGED gateVars /\ (result = "ERROR" => pool # "up")
BY EnqueueEffect DEF Dispatch, PoolRunning, PoolAccepting

\* The first continuation becomes the job of a worker that has none.
LEMMA AdvanceEffect ==
    ASSUME TypeOK, NEW j \in Jobs, pending # <<>>,
           jobs' = [jobs EXCEPT ![j] = QueuedJob(Head(pending))],
           pending' = Tail(pending), \A i \in Jobs : ~LiveJob(i)
    PROVE  Advances
<1>1. /\ pending \in Seq(Tasks) /\ jobs \in [Jobs -> JobStates]
  BY DEF TypeOK, GateTypeOK
<1>2. jobs'[j] = QueuedJob(pending[1]) /\ \A i \in Jobs \ {j} : jobs'[i] = jobs[i]
  <2>1. Head(pending) = pending[1]
    BY <1>1
  <2>2. QED
    BY <1>1, <2>1
<1>3. /\ 1 \in PendingSlots
      /\ \A k \in PendingSlots : k \in Nat /\ (k # 1 => k - 1 \in PendingSlots')
      /\ \A k \in PendingSlots' : /\ k \in Nat /\ k >= 1 /\ k + 1 \in PendingSlots
                                  /\ pending'[k] = pending[k + 1]
  BY <1>1 DEF PendingSlots
<1>4. QED
  BY <1>2, <1>3 DEF Advances

\* A pool that does not run has no lifecycle hook left, so that the
\* continuations it drops are other hooks.
LEMMA StoppedWithoutHooks ==
    ASSUME LifecycleInvariant, pool # "up"
    PROVE  /\ ~DisconnectLive /\ ~OpeningLive
           /\ \A j \in Jobs : ~LiveJob(j)
           /\ \A k \in PendingSlots : ~LiveTask(k)
<1>1. ~DisconnectLive
  BY DEF LifecycleInvariant, ConnectionFlags, HookOrder, DisconnectHolds
<1>2. ~OpeningLive
  <2> SUFFICES ASSUME OpeningLive PROVE FALSE
    OBVIOUS
  <2>1. occupied
    BY LiveParts DEF OpeningLive, LifecycleInvariant, HookOrder, HooksCurrent
  <2>2. disconnects = 1
    BY <1>1, <2>1, LiveParts
       DEF LifecycleInvariant, ConnectionFlags, HookOrder, DisconnectCounted, InClose
  <2>3. QED
    BY <2>2 DEF LifecycleInvariant, HookOrder, OpeningFirst
<1>3. QED
  BY <1>1, <1>2, LiveParts

-----------------------------------------------------------------------------
(* The flags of the connection.                                            *)

\* Every step keeps the flags consistent; they need nothing said about hooks.
LEMMA FlagsStep ==
    ASSUME TypeOK, ConnectionFlags, [Next]_vars
    PROVE  ConnectionFlags'
<1> USE DEF ConnectionFlags, InClose, CommLockFree
<1>0. FlagTypeOK /\ CallTypeOK
  BY DEF TypeOK
<1>1. CASE UNCHANGED <<commVars, op, pool>>
  BY <1>1 DEF commVars
<1>2. CASE Accept
  BY <1>2 DEF Accept, PoolRunning
<1>3. CASE ParseInput
  BY <1>3 DEF ParseInput, commVars, PoolRunning
<1>4. CASE InboundDispatch
  BY <1>4 DEF InboundDispatch, commVars, IdleOp
<1>5. ASSUME NEW by \in Callers, CloseRequest(by) PROVE ConnectionFlags'
  <2>1. /\ occupied' /\ closing' /\ ~disconnect_pending' /\ pool' = "up"
        /\ InClose' /\ op'.pc # "ready"
    BY <1>5 DEF CloseRequest, AfterCancel
  <2>2. QED
    BY <2>1
<1>6. CASE CloseFinish
  BY <1>0, <1>6 DEF CloseFinish, commVars, CallTypeOK
<1>7. CASE CloseDispatch
  BY <1>7 DEF CloseDispatch, IdleOp, AwaitsDisconnect
<1>8. CASE ReadyDispatch
  BY <1>8 DEF ReadyDispatch, IdleOp
<1>9. CASE Teardown
  BY <1>9 DEF Teardown, TeardownAllowed
<1>10. ASSUME NEW j \in Jobs, CompleteConnect(j) PROVE ConnectionFlags'
  BY <1>0, <1>10 DEF CompleteConnect, FlagTypeOK
<1>11. ASSUME NEW j \in Jobs, CompleteHook(j) PROVE ConnectionFlags'
  BY <1>0, <1>11 DEF CompleteHook, FlagTypeOK
<1>12. CASE StopAdmission
  BY <1>12 DEF StopAdmission, commVars
<1>13. CASE StopPool
  BY <1>13 DEF StopPool, commVars
<1>14. CASE JoinWorkers
  BY <1>14 DEF JoinWorkers
<1>15. CASE WorkersStart
  BY <1>15 DEF WorkersStart, commVars
<1>16. ASSUME NEW by \in Callers, SendMessage(by) PROVE UNCHANGED <<commVars, op, pool>>
  BY <1>16 DEF SendMessage
<1>17. CASE SendEnqueue
  BY <1>1, <1>17 DEF SendEnqueue
<1>18. ASSUME NEW j \in Jobs,
              \/ StartExecution(j) \/ HookReturns(j) \/ AwaitRecord(j) \/ FinalizeAwait(j)
              \/ FinishExecution(j) \/ StartWork(j) \/ WorkReturns(j) \/ SettleAwait(j)
              \/ DiscardAwait(j) \/ StartResume(j) \/ AwaitCall(j) \/ HookThrows(j)
       PROVE  UNCHANGED <<commVars, op, pool>>
  BY <1>18 DEF StartExecution, HookReturns, AwaitRecord, FinalizeAwait, FinishExecution,
               StartWork, WorkReturns, SettleAwait, DiscardAwait, StartResume, AwaitCall,
               HookThrows
<1>19. CASE UNCHANGED vars
  BY <1>1, <1>19 DEF vars
<1>20. QED
  BY <1>1, <1>2, <1>3, <1>4, <1>5, <1>6, <1>7, <1>8, <1>9, <1>10, <1>11, <1>12, <1>13,
     <1>14, <1>15, <1>16, <1>17, <1>18, <1>19
     DEF Next, JobStep, CommStep, ApplicationStep, LifecycleStep

-----------------------------------------------------------------------------
(* The order of the hooks.                                                 *)

connection == <<occupied, generation, closing, disconnect_pending, awaiting_hook>>

\* Most steps move no live hook and set no flag of the connection.
LEMMA QuietStep ==
    ASSUME LifecycleInvariant, HooksKept, UNCHANGED connection,
           UNCHANGED <<disconnects, thrown>>,
           \/ op'.pc = op.pc
           \/ op.pc \in {"idle", "inbound"} /\ op'.pc = "idle"
           \/ op.pc = "idle" /\ op'.pc = "inbound" /\ ~awaiting_hook
    PROVE  HookOrder'
<1>1. /\ DisconnectLive' <=> DisconnectLive
      /\ DisconnectWaits' <=> DisconnectWaits
      /\ OpeningLive' <=> OpeningLive
      /\ DisconnectLast' /\ HooksCurrent'
  BY KeptHooks DEF LifecycleInvariant, HookOrder, connection
<1>2. DisconnectHolds'
  BY <1>1 DEF LifecycleInvariant, HookOrder, DisconnectHolds, connection
<1>3. DisconnectCounted'
  BY <1>1 DEF LifecycleInvariant, HookOrder, DisconnectCounted, connection, InClose
<1>4. OpeningFirst'
  BY <1>1 DEF LifecycleInvariant, HookOrder, OpeningFirst
<1>5. AwaitedHook'
  BY <1>1 DEF LifecycleInvariant, HookOrder, AwaitedHook, connection, InClose
<1>6. QED
  BY <1>1, <1>2, <1>3, <1>4, <1>5 DEF HookOrder

\* A job that is not a live hook, before and after, or stays one.
LEMMA OneJob ==
    ASSUME NEW j \in Jobs, \A i \in Jobs \ {j} : jobs'[i] = jobs[i],
           UNCHANGED pending, JobKept(j)
    PROVE  HooksKept
<1>1. ASSUME NEW i \in Jobs \ {j} PROVE JobKept(i)
  BY <1>1 DEF JobKept, LiveJob, WaitingJob
<1>2. TasksKept
  BY DEF TasksKept, LiveTask, PendingSlots
<1>3. QED
  BY <1>1, <1>2 DEF HooksKept

\* Steps of a worker that neither begin nor end a lifecycle hook.
LEMMA WorkerQuiet ==
    ASSUME TypeOK, GateInvariant, LifecycleInvariant, NEW j \in Jobs,
           \/ HookReturns(j) \/ AwaitCall(j) \/ AwaitRecord(j) \/ FinalizeAwait(j)
           \/ StartWork(j) \/ WorkReturns(j) \/ SettleAwait(j) \/ DiscardAwait(j)
           \/ StartResume(j)
           \/ StartExecution(j) /\ jobs[j].kind # "DISCONNECT"
    PROVE  HooksKept
<1>0. /\ jobs \in [Jobs -> JobStates] /\ HooksCurrent /\ JobShape
      /\ jobs[j].kind \in LifecycleHooks => jobs[j].kind \in SlotHooks
  BY HookKinds DEF TypeOK, GateTypeOK, LifecycleInvariant, HookOrder, GateInvariant
<1>1. LiveJob(j) => CurrentGeneration = jobs[j].gen
  BY <1>0 DEF HooksCurrent, CurrentGeneration
<1>2. ASSUME UNCHANGED pending, \A i \in Jobs \ {j} : jobs'[i] = jobs[i],
             ~LiveJob(j), ~LiveJob(j)'
      PROVE  HooksKept
  BY <1>2, HookKinds, OneJob DEF JobKept, LiveJob, WaitingJob
<1>3. ASSUME UNCHANGED pending, \A i \in Jobs \ {j} : jobs'[i] = jobs[i],
             jobs'[j].kind = jobs[j].kind, jobs'[j].gen = jobs[j].gen,
             WaitingJob(j)' <=> WaitingJob(j), LiveJob(j)' <=> LiveJob(j)
      PROVE  HooksKept
  BY <1>3, OneJob DEF JobKept
<1>4. CASE StartExecution(j) /\ jobs[j].kind # "DISCONNECT"
  <2>1. /\ jobs[j].phase = "queued" /\ UNCHANGED pending
        /\ \A i \in Jobs \ {j} : jobs'[i] = jobs[i]
        /\ jobs'[j].kind = jobs[j].kind /\ jobs'[j].gen = jobs[j].gen
        /\ jobs'[j].phase = IF CurrentGeneration = jobs[j].gen THEN "hook" ELSE "finalize"
    BY <1>0, <1>4 DEF StartExecution, JobStates
  <2>2. LiveJob(j)' <=> LiveJob(j)
    BY <1>1, <2>1 DEF LiveJob
  <2>3. QED
    BY <1>3, <1>4, <2>1, <2>2 DEF WaitingJob
<1>5. CASE HookReturns(j)
  <2>1. /\ jobs[j].phase = "hook" /\ UNCHANGED pending
        /\ \A i \in Jobs \ {j} : jobs'[i] = jobs[i]
        /\ jobs'[j].kind = jobs[j].kind /\ jobs'[j].gen = jobs[j].gen
        /\ jobs'[j].phase = IF /\ jobs[j].kind \in LifecycleHooks
                               /\ CurrentGeneration = jobs[j].gen
                            THEN "complete" ELSE "finalize"
    BY <1>0, <1>5 DEF HookReturns, JobStates
  <2>2. LiveJob(j)' <=> LiveJob(j)
    BY <1>1, <2>1 DEF LiveJob
  <2>3. QED
    BY <1>3, <2>1, <2>2 DEF WaitingJob
<1>6. CASE AwaitCall(j) \/ AwaitRecord(j)
  <2>1. /\ jobs[j].phase \in {"hook", "await"} /\ UNCHANGED pending
        /\ \A i \in Jobs \ {j} : jobs'[i] = jobs[i]
        /\ jobs'[j].kind = jobs[j].kind /\ jobs'[j].gen = jobs[j].gen
        /\ jobs'[j].phase \in {"hook", "await"}
    BY <1>0, <1>6 DEF AwaitCall, AwaitRecord, JobStates
  <2>2. QED
    BY <1>3, <2>1 DEF WaitingJob, LiveJob
<1>7. CASE FinalizeAwait(j)
  <2>1. /\ jobs[j].phase = "finalize" /\ UNCHANGED pending
        /\ \A i \in Jobs \ {j} : jobs'[i] = jobs[i]
        /\ jobs'[j].kind = "WORK" \/ jobs'[j].phase = "finish"
    BY <1>0, <1>7 DEF FinalizeAwait, JobStates, AwaitWork, Job
  <2>2. QED
    BY <1>2, <2>1 DEF LiveJob, LifecycleHooks
<1>8. CASE StartWork(j) \/ WorkReturns(j) \/ StartResume(j)
  <2>1. /\ jobs[j].kind \notin LifecycleHooks /\ UNCHANGED pending
        /\ \A i \in Jobs \ {j} : jobs'[i] = jobs[i]
        /\ jobs'[j].kind = jobs[j].kind
    BY <1>0, <1>8 DEF StartWork, WorkReturns, StartResume, JobStates, JobShape, LifecycleHooks,
                      SlotHooks
  <2>2. QED
    BY <1>2, <2>1 DEF LiveJob
<1>9. CASE SettleAwait(j) \/ DiscardAwait(j)
  <2>1. /\ jobs[j].phase \in {"settle", "discard"} /\ UNCHANGED pending
        /\ \A i \in Jobs \ {j} : jobs'[i] = jobs[i]
        /\ \/ jobs'[j].phase = "discard" \/ jobs'[j].kind \in {"RESUME", "WORK", "NONE"}
    BY <1>0, <1>9 DEF SettleAwait, DiscardAwait, JobStates, Job, FreeJob
  <2>2. QED
    BY <1>2, <2>1 DEF LiveJob, LifecycleHooks
<1>10. QED
  BY <1>4, <1>5, <1>6, <1>7, <1>8, <1>9

\* A worker that finishes an execution hands the gate over; what it drops when
\* the pool refuses tasks are not lifecycle hooks.
LEMMA FinishEffect ==
    ASSUME TypeOK, GateInvariant, LifecycleInvariant,
           CloseFinish \/ \E j \in Jobs : FinishExecution(j)
    PROVE  Advances \/ HooksKept
<1>0. jobs \in [Jobs -> JobStates]
  BY DEF TypeOK, GateTypeOK
<1>1. \A i \in Jobs : LiveJob(i) => FALSE
  <2>1. ASSUME NEW i \in Jobs, LiveJob(i), CloseFinish PROVE FALSE
    BY <2>1, LiveOwns DEF CloseFinish, GateInvariant, OwnerUnique
  <2>2. ASSUME NEW i \in Jobs, LiveJob(i), NEW j \in Jobs, FinishExecution(j) PROVE FALSE
    <3>1. Owner(j) /\ ~LiveJob(j)
      BY <2>2 DEF FinishExecution, Owner, LiveJob
    <3>2. QED
      BY <2>2, <3>1, LiveOwns DEF GateInvariant, OwnerUnique
  <2>3. QED
    BY <2>1, <2>2
<1>2. CASE pending # <<>> /\ PoolAccepting
  <2>1. PICK j \in Jobs : jobs' = [jobs EXCEPT ![j] = QueuedJob(Head(pending))]
    BY <1>2 DEF CloseFinish, FinishExecution, FreeJobs
  <2>2. pending' = Tail(pending)
    BY <1>2 DEF CloseFinish, FinishExecution
  <2>3. QED
    BY <1>1, <1>2, <2>1, <2>2, AdvanceEffect
<1>3. CASE pending = <<>> \/ ~PoolAccepting
  <2>1. \A k \in PendingSlots : ~LiveTask(k)
    BY <1>3, StoppedWithoutHooks DEF PendingSlots, PoolAccepting
  <2>2. PendingSlots' = {}
    BY <1>3 DEF CloseFinish, FinishExecution, PendingSlots
  <2>3. TasksKept
    BY <2>1, <2>2 DEF TasksKept
  <2>4. CASE CloseFinish
    BY <1>3, <2>3, <2>4 DEF CloseFinish, HooksKept, JobKept, LiveJob, WaitingJob
  <2>5. ASSUME NEW j \in Jobs, FinishExecution(j) PROVE HooksKept
    <3>1. /\ jobs'[j].phase = "free" /\ jobs[j].phase = "finish"
          /\ \A i \in Jobs \ {j} : jobs'[i] = jobs[i]
      BY <1>0, <1>3, <2>5 DEF FinishExecution, FreeJob, Job
    <3>2. \A i \in Jobs : JobKept(i)
      BY <3>1 DEF JobKept, LiveJob, WaitingJob
    <3>3. QED
      BY <2>3, <3>2 DEF HooksKept
  <2>6. QED
    BY <2>4, <2>5
<1>4. QED
  BY <1>2, <1>3

\* Handing the gate over concerns no flag of the connection.
LEMMA FinishStep ==
    ASSUME TypeOK, GateInvariant, LifecycleInvariant,
           CloseFinish \/ \E j \in Jobs : FinishExecution(j)
    PROVE  HookOrder'
<1>1. /\ DisconnectLive' <=> DisconnectLive
      /\ DisconnectWaits' <=> DisconnectWaits
      /\ OpeningLive' <=> OpeningLive
      /\ DisconnectLast' /\ HooksCurrent'
  <2>1. UNCHANGED <<occupied, generation>>
    BY DEF CloseFinish, FinishExecution, commVars
  <2>2. QED
    BY <2>1, FinishEffect, AdvancedHooks, KeptHooks DEF LifecycleInvariant, HookOrder
<1>2. /\ UNCHANGED connection /\ UNCHANGED <<disconnects, thrown>>
      /\ \/ op'.pc = op.pc
         \/ op.pc = "close_finish" /\ op'.pc = "close_dispatch"
  <2>1. CASE CloseFinish
    BY <2>1 DEF CloseFinish, commVars, connection, histVars, TypeOK, CallTypeOK
  <2>2. ASSUME NEW j \in Jobs, FinishExecution(j)
        PROVE  UNCHANGED connection /\ UNCHANGED <<disconnects, thrown>> /\ op'.pc = op.pc
    BY <2>2 DEF FinishExecution, commVars, connection, histVars
  <2>3. QED
    BY <2>1, <2>2
<1>3. DisconnectHolds'
  BY <1>1, <1>2 DEF LifecycleInvariant, HookOrder, DisconnectHolds, connection
<1>4. DisconnectCounted'
  BY <1>1, <1>2 DEF LifecycleInvariant, HookOrder, DisconnectCounted, connection, InClose
<1>5. OpeningFirst'
  BY <1>1, <1>2 DEF LifecycleInvariant, HookOrder, OpeningFirst
<1>6. AwaitedHook'
  BY <1>1, <1>2 DEF LifecycleInvariant, HookOrder, AwaitedHook, connection, InClose
<1>7. QED
  BY <1>1, <1>3, <1>4, <1>5, <1>6 DEF HookOrder

\* The task of a live hook is the only live one, and its end is its own.
LEMMA EndEffect ==
    ASSUME TypeOK, GateInvariant, NEW j \in Jobs, LiveJob(j), ~WaitingJob(j),
           ~LiveJob(j)', ~WaitingJob(j)',
           \A i \in Jobs \ {j} : jobs'[i] = jobs[i], UNCHANGED pending
    PROVE  Ends(j)
<1>1. \A i \in Jobs \ {j} : ~LiveJob(i)
  BY LiveOwns DEF GateInvariant, OwnerUnique
<1>2. QED
  BY <1>1 DEF Ends

\* A hook that throws is lost; nothing else is.
LEMMA ThrowStep ==
    ASSUME TypeOK, GateInvariant, LifecycleInvariant, NEW j \in Jobs, HookThrows(j)
    PROVE  HookOrder'
<1>1. /\ jobs[j].phase = "hook" /\ jobs'[j].phase = "free" /\ jobs'[j].kind = "NONE"
      /\ \A i \in Jobs \ {j} : jobs'[i] = jobs[i]
      /\ UNCHANGED pending /\ UNCHANGED connection /\ UNCHANGED <<op, disconnects>>
      /\ thrown' = TRUE
  BY DEF HookThrows, FreeJob, Job, TypeOK, GateTypeOK, commVars, connection
<1>2. ~WaitingJob(j) /\ ~LiveJob(j)' /\ ~WaitingJob(j)'
  BY <1>1 DEF WaitingJob, LiveJob
<1>3. /\ DisconnectLive' => DisconnectLive
      /\ DisconnectWaits' <=> DisconnectWaits
      /\ OpeningLive' => OpeningLive
      /\ DisconnectLast' /\ HooksCurrent'
  <2>1. CASE LiveJob(j)
    BY <1>1, <1>2, <2>1, EndEffect, EndedHook DEF LifecycleInvariant, HookOrder, connection
  <2>2. CASE ~LiveJob(j)
    <3>1. HooksKept
      BY <1>1, <1>2, <2>2, OneJob DEF JobKept
    <3>2. QED
      BY <1>1, <3>1, KeptHooks DEF LifecycleInvariant, HookOrder, connection
  <2>3. QED
    BY <2>1, <2>2
<1>4. DisconnectHolds'
  BY <1>1, <1>3 DEF LifecycleInvariant, HookOrder, DisconnectHolds, connection
<1>5. DisconnectCounted'
  BY <1>1, <1>3 DEF LifecycleInvariant, HookOrder, DisconnectCounted, connection, InClose
<1>6. OpeningFirst' /\ AwaitedHook'
  BY <1>1, <1>3 DEF LifecycleInvariant, HookOrder, OpeningFirst, AwaitedHook
<1>7. QED
  BY <1>3, <1>4, <1>5, <1>6 DEF HookOrder

\* The completion of a lifecycle hook ends it.  The flag it clears is its own:
\* after a close request only the disconnect hook clears it.
LEMMA CompleteStep ==
    ASSUME TypeOK, GateInvariant, LifecycleInvariant, NEW j \in Jobs,
           CompleteConnect(j) \/ CompleteHook(j)
    PROVE  HookOrder'
<1>0. /\ awaiting_hook \in BOOLEAN /\ jobs \in [Jobs -> JobStates] /\ op.pc = "idle"
      /\ UNCHANGED pending /\ UNCHANGED <<occupied, generation, closing, disconnect_pending>>
      /\ UNCHANGED <<disconnects, thrown>>
  BY DEF TypeOK, FlagTypeOK, GateTypeOK, CompleteConnect, CompleteHook, CommLockFree, histVars
<1>1. /\ jobs[j].phase = "complete" /\ jobs'[j].phase = "finalize"
      /\ jobs'[j].kind = jobs[j].kind
      /\ \A i \in Jobs \ {j} : jobs'[i] = jobs[i]
  BY <1>0 DEF CompleteConnect, CompleteHook, JobStates
<1>2. ~WaitingJob(j) /\ ~LiveJob(j)' /\ ~WaitingJob(j)'
  BY <1>1 DEF WaitingJob, LiveJob
<1>3. /\ DisconnectLive' => DisconnectLive
      /\ DisconnectWaits' <=> DisconnectWaits
      /\ OpeningLive' => OpeningLive
      /\ jobs[j].kind = "DISCONNECT" => ~DisconnectLive' /\ occupied
      /\ jobs[j].kind # "DISCONNECT" => (DisconnectLive' <=> DisconnectLive)
      /\ DisconnectLast' /\ HooksCurrent'
  <2>1. CASE LiveJob(j)
    <3>1. Ends(j)
      BY <1>0, <1>1, <1>2, <2>1, EndEffect
    <3>2. occupied
      BY <2>1 DEF LifecycleInvariant, HookOrder, HooksCurrent
    <3>3. QED
      BY <1>0, <3>1, <3>2, EndedHook DEF LifecycleInvariant, HookOrder
  <2>2. CASE ~LiveJob(j)
    <3>1. HooksKept
      BY <1>0, <1>1, <1>2, <2>2, OneJob DEF JobKept
    <3>2. jobs[j].kind # "DISCONNECT"
      BY <1>1, <2>2, HookKinds DEF LiveJob
    <3>3. QED
      BY <1>0, <3>1, <3>2, KeptHooks DEF LifecycleInvariant, HookOrder
  <2>3. QED
    BY <2>1, <2>2
<1>4. OpeningFirst'
  BY <1>0, <1>3 DEF LifecycleInvariant, HookOrder, OpeningFirst
<1>5. CASE CompleteConnect(j) /\ occupied /\ ~closing /\ ~transport_ready
  <2>1. op'.pc = "ready"
    BY <1>5 DEF CompleteConnect
  <2>2. ~DisconnectLive /\ ~DisconnectLive'
    BY <1>3, <1>5 DEF LifecycleInvariant, HookOrder, DisconnectHolds
  <2>3. DisconnectHolds' /\ DisconnectCounted' /\ AwaitedHook'
    BY <1>0, <1>3, <1>5, <2>1, <2>2
       DEF LifecycleInvariant, HookOrder, DisconnectHolds, DisconnectCounted, AwaitedHook, InClose
  <2>4. QED
    BY <1>3, <1>4, <2>3 DEF HookOrder
<1>6. CASE /\ op' = op /\ jobs[j].kind # "DISCONNECT"
           /\ awaiting_hook' = (awaiting_hook /\ (~occupied \/ closing))
  <2>1. DisconnectHolds' /\ DisconnectCounted' /\ AwaitedHook'
    BY <1>0, <1>3, <1>6
       DEF LifecycleInvariant, HookOrder, DisconnectHolds, DisconnectCounted, AwaitedHook, InClose,
           ConnectionFlags
  <2>2. QED
    BY <1>3, <1>4, <2>1 DEF HookOrder
<1>7. CASE CompleteHook(j) /\ jobs[j].kind = "DISCONNECT"
  <2>1. op' = op /\ awaiting_hook' = FALSE
    BY <1>3, <1>7 DEF CompleteHook, ClearsAwaiting
  <2>2. DisconnectHolds' /\ DisconnectCounted' /\ AwaitedHook'
    BY <1>0, <1>3, <1>7, <2>1
       DEF LifecycleInvariant, HookOrder, DisconnectHolds, DisconnectCounted, AwaitedHook, InClose
  <2>3. QED
    BY <1>3, <1>4, <2>2 DEF HookOrder
<1>8. CASE CompleteConnect(j)
  BY <1>0, <1>5, <1>6, <1>8 DEF CompleteConnect
<1>9. CASE CompleteHook(j) /\ jobs[j].kind # "DISCONNECT"
  BY <1>0, <1>6, <1>9 DEF CompleteHook, ClearsAwaiting
<1>10. QED
  BY <1>7, <1>8, <1>9

\* The disconnect hook begins on its own connection, for the first time.
LEMMA BeginStep ==
    ASSUME TypeOK, GateInvariant, LifecycleInvariant, NEW j \in Jobs,
           StartExecution(j), jobs[j].kind = "DISCONNECT"
    PROVE  HookOrder'
<1>1. WaitingJob(j) /\ LiveJob(j)
  BY HookKinds DEF StartExecution, WaitingJob, LiveJob
<1>2. occupied /\ CurrentGeneration = jobs[j].gen
  BY <1>1 DEF LifecycleInvariant, HookOrder, HooksCurrent, CurrentGeneration
<1>3. /\ jobs'[j].phase = "hook" /\ jobs'[j].kind = jobs[j].kind
      /\ jobs'[j].gen = jobs[j].gen
      /\ \A i \in Jobs \ {j} : jobs'[i] = jobs[i]
      /\ UNCHANGED pending /\ UNCHANGED connection /\ UNCHANGED <<op, thrown>>
      /\ disconnects' = disconnects + 1
  BY <1>2 DEF StartExecution, TypeOK, GateTypeOK, JobStates, commVars, connection
<1>4. Begins(j)
  <2>1. \A i \in Jobs \ {j} : ~LiveJob(i)
    BY <1>1, LiveOwns DEF GateInvariant, OwnerUnique
  <2>2. DisconnectJob(j)' /\ ~WaitingJob(j)'
    BY <1>3, HookKinds DEF DisconnectJob, LiveJob, WaitingJob
  <2>3. QED
    BY <1>1, <1>3, <2>1, <2>2 DEF Begins
<1>5. /\ DisconnectLive /\ DisconnectWaits
      /\ DisconnectLive' /\ ~DisconnectWaits'
      /\ ~OpeningLive'
      /\ DisconnectLast' /\ HooksCurrent'
  BY <1>3, <1>4, BegunHook DEF LifecycleInvariant, HookOrder, connection
<1>6. DisconnectHolds' /\ AwaitedHook'
  BY <1>3, <1>5 DEF LifecycleInvariant, HookOrder, DisconnectHolds, AwaitedHook, connection, InClose
<1>7. disconnects = 0 /\ closing /\ ~disconnect_pending /\ op.pc = "idle"
  BY <1>2, <1>5 DEF LifecycleInvariant, HookOrder, DisconnectHolds, DisconnectCounted
<1>8. DisconnectCounted' /\ OpeningFirst'
  BY <1>3, <1>5, <1>7 DEF DisconnectCounted, OpeningFirst, connection, InClose
<1>9. QED
  BY <1>5, <1>6, <1>8 DEF HookOrder

\* A close request comes before the disconnect hook, which it is going to
\* dispatch: never after.
LEMMA CloseRequestStep ==
    ASSUME TypeOK, LifecycleInvariant, NEW by \in Callers, CloseRequest(by)
    PROVE  HookOrder'
<1>1. /\ op.pc = "idle" /\ occupied /\ (~closing \/ disconnect_pending)
      /\ InClose' /\ closing' = TRUE /\ disconnect_pending' = FALSE /\ op'.pc # "ready"
      /\ UNCHANGED <<occupied, generation, awaiting_hook, jobs, pending, disconnects, thrown>>
  BY DEF CloseRequest, CommLockFree, AfterCancel, InClose, gateVars
<1>2. /\ DisconnectLive' <=> DisconnectLive
      /\ DisconnectWaits' <=> DisconnectWaits
      /\ OpeningLive' <=> OpeningLive
      /\ DisconnectLast' /\ HooksCurrent'
  BY <1>1, UntouchedHooks, KeptHooks DEF LifecycleInvariant, HookOrder
<1>3. DisconnectHolds'
  BY <1>1, <1>2 DEF LifecycleInvariant, HookOrder, DisconnectHolds
<1>4. DisconnectCounted' /\ OpeningFirst'
  BY <1>1, <1>2 DEF LifecycleInvariant, HookOrder, DisconnectCounted, OpeningFirst
<1>5. AwaitedHook'
  BY <1>1, <1>2 DEF LifecycleInvariant, HookOrder, ConnectionFlags, AwaitedHook, InClose
<1>6. QED
  BY <1>2, <1>3, <1>4, <1>5 DEF HookOrder

\* comm_close queues the disconnect hook and sets C_AWAITING_HOOK, or leaves it
\* owed when the continuation queue is full; the pool is running.
LEMMA CloseDispatchStep ==
    ASSUME TypeOK, GateInvariant, LifecycleInvariant, CloseDispatch
    PROVE  HookOrder'
<1>1. /\ InClose /\ op.pc # "ready" /\ op'.pc = "idle" /\ occupied /\ closing /\ pool = "up"
      /\ UNCHANGED <<occupied, generation, closing, disconnects, thrown>>
  BY DEF CloseDispatch, LifecycleInvariant, ConnectionFlags, InClose, IdleOp, histVars
<1>2. ~DisconnectLive /\ ~DisconnectWaits /\ disconnects = 0
  BY <1>1, LiveParts
     DEF LifecycleInvariant, HookOrder, DisconnectHolds, DisconnectCounted, InClose
<1>3. PICK result \in DispatchResults :
         /\ Dispatch(Task("DISCONNECT", CurrentGeneration), TRUE, result)
         /\ awaiting_hook' = (result = "QUEUED")
         /\ disconnect_pending' = (result = "QUEUE_FULL")
  BY DEF CloseDispatch, AwaitsDisconnect
<1>4. PICK t \in Tasks : /\ t = Task("DISCONNECT", CurrentGeneration)
                         /\ t.kind = "DISCONNECT" /\ t.gen = generation
  <2>1. "DISCONNECT" \in SlotHooks /\ CurrentGeneration = generation
    BY <1>1 DEF SlotHooks, CurrentGeneration
  <2>2. QED
    BY <2>1, CurrentGenerationType, TaskIs
<1>5. \/ result = "QUEUED" /\ Enters(t)
      \/ result = "QUEUE_FULL" /\ UNCHANGED gateVars
  BY <1>1, <1>3, <1>4, DispatchEffect DEF DispatchResults
<1>6. CASE result = "QUEUED" /\ Enters(t)
  <2>1. /\ DisconnectLive' /\ DisconnectWaits' /\ (OpeningLive' <=> OpeningLive)
        /\ DisconnectLast' /\ HooksCurrent'
    BY <1>1, <1>2, <1>4, <1>6, EntersHook, HookKinds DEF LifecycleInvariant, HookOrder
  <2>2. DisconnectHolds' /\ DisconnectCounted' /\ OpeningFirst' /\ AwaitedHook'
    BY <1>1, <1>2, <1>3, <1>6, <2>1
       DEF DisconnectHolds, DisconnectCounted, OpeningFirst, AwaitedHook, InClose
  <2>3. QED
    BY <2>1, <2>2 DEF HookOrder
<1>7. CASE result = "QUEUE_FULL" /\ UNCHANGED gateVars
  <2>1. /\ ~DisconnectLive' /\ ~DisconnectWaits' /\ (OpeningLive' <=> OpeningLive)
        /\ DisconnectLast' /\ HooksCurrent'
    BY <1>1, <1>2, <1>7, UntouchedHooks, KeptHooks DEF LifecycleInvariant, HookOrder, gateVars
  <2>2. DisconnectHolds' /\ DisconnectCounted' /\ OpeningFirst' /\ AwaitedHook'
    BY <1>1, <1>2, <1>3, <1>7, <2>1
       DEF DisconnectHolds, DisconnectCounted, OpeningFirst, AwaitedHook, InClose
  <2>3. QED
    BY <2>1, <2>2 DEF HookOrder
<1>8. QED
  BY <1>5, <1>6, <1>7

\* The transport-ready hook is dispatched before any close request.
LEMMA ReadyDispatchStep ==
    ASSUME TypeOK, GateInvariant, LifecycleInvariant, ReadyDispatch
    PROVE  HookOrder'
<1>1. /\ op.pc = "ready" /\ op'.pc = "idle" /\ occupied /\ ~closing
      /\ UNCHANGED <<occupied, generation, closing, disconnect_pending, disconnects, thrown>>
  BY DEF ReadyDispatch, LifecycleInvariant, ConnectionFlags, IdleOp, histVars
<1>2. ~DisconnectLive /\ ~DisconnectWaits /\ disconnects = 0
  BY <1>1, LiveParts
     DEF LifecycleInvariant, HookOrder, DisconnectHolds, DisconnectCounted
<1>3. PICK result \in DispatchResults :
         /\ Dispatch(Task("TRANSPORT_READY", CurrentGeneration), TRUE, result)
         /\ awaiting_hook' = (result = "QUEUED")
  BY DEF ReadyDispatch, AwaitsReady
<1>4. PICK t \in Tasks : /\ t = Task("TRANSPORT_READY", CurrentGeneration)
                         /\ t.kind \in OpeningHooks /\ t.kind # "DISCONNECT"
                         /\ t.gen = generation
  <2>1. /\ "TRANSPORT_READY" \in SlotHooks /\ CurrentGeneration = generation
        /\ "TRANSPORT_READY" \in OpeningHooks
    BY <1>1 DEF SlotHooks, CurrentGeneration, OpeningHooks
  <2>2. QED
    BY <2>1, CurrentGenerationType, TaskIs
<1>5. \/ result = "QUEUED" /\ Enters(t)
      \/ result # "QUEUED" /\ UNCHANGED gateVars
  BY <1>3, <1>4, DispatchEffect
<1>6. CASE result = "QUEUED" /\ Enters(t)
  <2>1. /\ ~DisconnectLive' /\ ~DisconnectWaits' /\ OpeningLive'
        /\ DisconnectLast' /\ HooksCurrent'
    BY <1>1, <1>2, <1>4, <1>6, EntersHook, HookKinds DEF LifecycleInvariant, HookOrder
  <2>2. DisconnectHolds' /\ DisconnectCounted' /\ OpeningFirst' /\ AwaitedHook'
    BY <1>1, <1>2, <2>1
       DEF DisconnectHolds, DisconnectCounted, OpeningFirst, AwaitedHook
  <2>3. QED
    BY <2>1, <2>2 DEF HookOrder
<1>7. CASE result # "QUEUED" /\ UNCHANGED gateVars
  <2>1. /\ ~DisconnectLive' /\ ~DisconnectWaits' /\ (OpeningLive' <=> OpeningLive)
        /\ DisconnectLast' /\ HooksCurrent'
    BY <1>1, <1>2, <1>7, UntouchedHooks, KeptHooks DEF LifecycleInvariant, HookOrder, gateVars
  <2>2. DisconnectHolds' /\ DisconnectCounted' /\ OpeningFirst' /\ AwaitedHook'
    BY <1>1, <1>2, <1>3, <1>7, <2>1
       DEF DisconnectHolds, DisconnectCounted, OpeningFirst, AwaitedHook
  <2>3. QED
    BY <2>1, <2>2 DEF HookOrder
<1>8. QED
  BY <1>5, <1>6, <1>7

\* A new connection finds no lifecycle hook of the one before.
LEMMA AcceptStep ==
    ASSUME TypeOK, GateInvariant, LifecycleInvariant, Accept
    PROVE  HookOrder'
<1>1. /\ op.pc = "idle" /\ op' = op /\ pool = "up" /\ ~occupied /\ occupied' = TRUE
      /\ generation' = generation + 1 /\ closing' = FALSE /\ disconnect_pending' = FALSE
      /\ disconnects' = 0
  BY DEF Accept, CommLockFree, PoolRunning
<1>2. (\A j \in Jobs : ~LiveJob(j)) /\ (\A k \in PendingSlots : ~LiveTask(k))
  BY <1>1 DEF LifecycleInvariant, HookOrder, HooksCurrent
<1>3. ~DisconnectLive /\ ~DisconnectWaits /\ ~OpeningLive
  BY <1>2, LiveParts
<1>4. PICK result \in DispatchResults :
         /\ Dispatch(Task("CONNECT", generation + 1), TRUE, result)
         /\ awaiting_hook' = (result = "QUEUED")
  BY DEF Accept
<1>5. PICK t \in Tasks : /\ t = Task("CONNECT", generation + 1)
                         /\ t.kind \in OpeningHooks /\ t.kind # "DISCONNECT"
                         /\ t.gen = generation'
  <2>1. "CONNECT" \in SlotHooks /\ "CONNECT" \in OpeningHooks
    BY DEF SlotHooks, OpeningHooks
  <2>2. generation + 1 \in Generations
    BY ConstantAssumption DEF Accept, Generations, TypeOK, CountTypeOK
  <2>3. QED
    BY <1>1, <2>1, <2>2, TaskIs
<1>6. \/ result = "QUEUED" /\ Enters(t)
      \/ result # "QUEUED" /\ UNCHANGED gateVars
  BY <1>4, <1>5, DispatchEffect
<1>7. CASE result = "QUEUED" /\ Enters(t)
  <2>1. /\ ~DisconnectLive' /\ ~DisconnectWaits' /\ OpeningLive'
        /\ DisconnectLast' /\ HooksCurrent'
    BY <1>1, <1>3, <1>5, <1>7, EntersHook, HookKinds DEF LifecycleInvariant, HookOrder
  <2>2. DisconnectHolds' /\ DisconnectCounted' /\ OpeningFirst' /\ AwaitedHook'
    BY <1>1, <2>1
       DEF DisconnectHolds, DisconnectCounted, OpeningFirst, AwaitedHook
  <2>3. QED
    BY <2>1, <2>2 DEF HookOrder
<1>8. CASE result # "QUEUED" /\ UNCHANGED gateVars
  <2>1. HooksKept
    BY <1>8, UntouchedHooks DEF gateVars
  <2>2. /\ ~DisconnectLive' /\ ~DisconnectWaits' /\ ~OpeningLive' /\ DisconnectLast'
    BY <1>3, <2>1, KeptHooks DEF LifecycleInvariant, HookOrder
  <2>3. HooksCurrent'
    BY <1>2, <2>1 DEF HooksKept, JobKept, TasksKept, HooksCurrent, LiveTask
  <2>4. DisconnectHolds' /\ DisconnectCounted' /\ OpeningFirst' /\ AwaitedHook'
    BY <1>1, <1>4, <1>8, <2>2
       DEF DisconnectHolds, DisconnectCounted, OpeningFirst, AwaitedHook
  <2>5. QED
    BY <2>2, <2>3, <2>4 DEF HookOrder
<1>9. QED
  BY <1>6, <1>7, <1>8

\* Where comm_close may remove the slot the disconnect hook has begun once and
\* no lifecycle hook is live.
LEMMA RemovalOver ==
    ASSUME LifecycleInvariant, op.pc = "idle", occupied, closing,
           ~disconnect_pending, ~awaiting_hook
    PROVE  /\ disconnects = 1 /\ ~DisconnectLive /\ ~DisconnectWaits /\ ~OpeningLive
           /\ \A j \in Jobs : ~LiveJob(j)
           /\ \A k \in PendingSlots : ~LiveTask(k)
<1>1. ~DisconnectLive /\ ~DisconnectWaits
  BY LiveParts DEF LifecycleInvariant, HookOrder, DisconnectHolds
<1>2. disconnects = 1
  BY <1>1 DEF LifecycleInvariant, HookOrder, DisconnectCounted, InClose
<1>3. ~OpeningLive
  BY <1>2 DEF LifecycleInvariant, HookOrder, OpeningFirst
<1>4. QED
  BY <1>1, <1>2, <1>3, LiveParts

\* The slot is removed when no lifecycle hook is left.
LEMMA TeardownStep ==
    ASSUME LifecycleInvariant, Teardown
    PROVE  HookOrder'
<1>1. /\ op.pc = "idle" /\ occupied /\ closing /\ ~disconnect_pending /\ ~awaiting_hook
      /\ ~occupied' /\ ~awaiting_hook'
      /\ UNCHANGED <<jobs, pending>>
  BY DEF Teardown, TeardownAllowed, CommLockFree, gateVars
<1>2. /\ ~DisconnectLive /\ ~DisconnectWaits /\ ~OpeningLive
      /\ \A j \in Jobs : ~LiveJob(j)
      /\ \A k \in PendingSlots : ~LiveTask(k)
  BY <1>1, RemovalOver
<1>3. HooksKept
  BY <1>1, UntouchedHooks
<1>4. ~DisconnectLive' /\ ~OpeningLive' /\ DisconnectLast'
  BY <1>2, <1>3, KeptHooks DEF LifecycleInvariant, HookOrder
<1>5. HooksCurrent'
  BY <1>2, <1>3 DEF HooksKept, JobKept, TasksKept, HooksCurrent, LiveTask
<1>6. QED
  BY <1>1, <1>4, <1>5
     DEF HookOrder, DisconnectHolds, DisconnectCounted, OpeningFirst, AwaitedHook

\* mudmux_workers_stop leaves no hook.
LEMMA JoinStep ==
    ASSUME JoinWorkers
    PROVE  HookOrder'
<1>1. /\ ~occupied' /\ ~awaiting_hook' /\ PendingSlots' = {}
      /\ \A j \in Jobs : jobs'[j].phase = "free"
  BY DEF JoinWorkers, PendingSlots
<1>2. \A j \in Jobs : ~LiveJob(j)'
  BY <1>1 DEF LiveJob
<1>3. ~DisconnectLive' /\ ~OpeningLive'
  BY <1>1, <1>2 DEF DisconnectLive, OpeningLive, DisconnectJob, OpeningJob
<1>4. DisconnectLast' /\ HooksCurrent'
  BY <1>1, <1>2 DEF DisconnectLast, HooksCurrent, DisconnectJob
<1>5. QED
  BY <1>1, <1>3, <1>4
     DEF HookOrder, DisconnectHolds, DisconnectCounted, OpeningFirst, AwaitedHook

\* Every step keeps the order of the hooks.
LEMMA HookOrderStep ==
    ASSUME TypeOK, GateInvariant, LifecycleInvariant, [Next]_vars
    PROVE  HookOrder'
<1>1. ASSUME HooksKept, UNCHANGED commVars, UNCHANGED op, UNCHANGED <<disconnects, thrown>>
      PROVE  HookOrder'
  BY <1>1, QuietStep DEF commVars, connection
<1>2. ASSUME NEW j \in Jobs,
             \/ HookReturns(j) \/ AwaitCall(j) \/ AwaitRecord(j) \/ FinalizeAwait(j)
             \/ StartWork(j) \/ WorkReturns(j) \/ SettleAwait(j) \/ DiscardAwait(j)
             \/ StartResume(j)
             \/ StartExecution(j) /\ jobs[j].kind # "DISCONNECT"
      PROVE  HookOrder'
  <2>1. HooksKept
    BY <1>2, WorkerQuiet
  <2>2. UNCHANGED commVars /\ UNCHANGED op /\ UNCHANGED <<disconnects, thrown>>
    BY <1>2 DEF HookReturns, AwaitCall, AwaitRecord, FinalizeAwait, StartWork, WorkReturns,
                SettleAwait, DiscardAwait, StartResume, StartExecution, histVars
  <2>3. QED
    BY <1>1, <2>1, <2>2
<1>3. CASE ParseInput
  <2>1. HooksKept
    BY <1>3, UntouchedHooks DEF ParseInput, gateVars
  <2>2. QED
    BY <1>3, <2>1, QuietStep DEF ParseInput, commVars, connection, histVars, CommLockFree
<1>4. CASE InboundDispatch
  <2>1. PICK t \in Tasks : /\ t = Task("INBOUND", CurrentGeneration)
                           /\ t.kind \notin LifecycleHooks
    <3>1. "INBOUND" \in SlotHooks /\ "INBOUND" \notin LifecycleHooks
      BY DEF SlotHooks, LifecycleHooks
    <3>2. QED
      BY <3>1, CurrentGenerationType, TaskIs
  <2>2. HooksKept
    BY <1>4, <2>1, DispatchEffect, EntersOther, UntouchedHooks DEF InboundDispatch, gateVars
  <2>3. QED
    BY <1>4, <2>2, QuietStep DEF InboundDispatch, IdleOp, commVars, connection, histVars
<1>5. CASE SendEnqueue
  <2>1. PICK t \in Tasks : /\ t = Task("OUTBOUND", sender.gen)
                           /\ t.kind \notin LifecycleHooks
    <3>1. "OUTBOUND" \in SlotHooks /\ "OUTBOUND" \notin LifecycleHooks
      BY DEF SlotHooks, LifecycleHooks
    <3>2. QED
      BY <3>1, TaskIs DEF TypeOK, CallTypeOK
  <2>2. HooksKept
    BY <1>5, <2>1, EnqueueEffect, EntersOther, UntouchedHooks DEF SendEnqueue, gateVars
  <2>3. QED
    BY <1>1, <1>5, <2>2 DEF SendEnqueue, histVars
<1>6. ASSUME \/ \E by \in Callers : SendMessage(by)
             \/ StopAdmission \/ StopPool \/ WorkersStart \/ UNCHANGED vars
      PROVE  HookOrder'
  <2>1. /\ UNCHANGED jobs /\ UNCHANGED pending /\ UNCHANGED commVars /\ UNCHANGED op
        /\ UNCHANGED <<disconnects, thrown>>
    BY <1>6 DEF SendMessage, StopAdmission, StopPool, WorkersStart, vars, gateVars, histVars
  <2>2. QED
    BY <1>1, <2>1, UntouchedHooks
<1>7. QED
  BY <1>2, <1>3, <1>4, <1>5, <1>6, FinishStep, ThrowStep, CompleteStep, BeginStep,
     CloseRequestStep, CloseDispatchStep, ReadyDispatchStep, AcceptStep, TeardownStep,
     JoinStep
     DEF Next, JobStep, CommStep, ApplicationStep, LifecycleStep

-----------------------------------------------------------------------------
(* The closures of awaits and the tasks that carry them.                   *)

\* Job j executes logic of the slot that has not been finalized.
HookBusy(j) ==
    /\ jobs[j].kind \in SlotHooks \cup {"RESUME"}
    /\ jobs[j].phase \in {"hook", "await", "complete", "finalize"}

\* No two tasks carry the same closure.
ClosuresApart ==
    \A i, j \in Jobs :
        jobs[i].closure = jobs[j].closure /\ jobs[i].closure # NoClosure => i = j

\* The closure of an await that is only recorded is carried by no task, and
\* the logic that recorded it is still going to be finalized.
RequestFresh ==
    /\ await_requested => \A j \in Jobs : jobs[j].closure # await_resume
    /\ await_requested /\ ~thrown => \E j \in Jobs : HookBusy(j)

\* Only lifecycle hooks have a completion that touches the connection.
OnlyHooksComplete ==
    \A j \in Jobs : jobs[j].phase = "complete" => jobs[j].kind \in LifecycleHooks

TaskInvariant == ClosuresApart /\ RequestFresh /\ OnlyHooksComplete

\* What a step that submits no closure does to task i.
TaskKept(i) ==
    /\ jobs'[i].closure \in {jobs[i].closure, NoClosure}
    /\ jobs'[i].phase = "complete" =>
          \/ jobs'[i].kind \in LifecycleHooks
          \/ jobs[i].phase = "complete" /\ jobs'[i].kind = jobs[i].kind
    /\ HookBusy(i) /\ await_requested' /\ ~thrown' => HookBusy(i)'

RequestKept ==
    /\ await_requested' => await_requested /\ await_resume' = await_resume
    /\ await_requested' /\ ~thrown' => ~thrown

\* A step that submits no closure and records no await keeps the invariant.
LEMMA KeptTasks ==
    ASSUME AwaitRecorded, TaskInvariant, RequestKept, \A i \in Jobs : TaskKept(i)
    PROVE  TaskInvariant'
<1>1. ClosuresApart'
  BY DEF TaskInvariant, ClosuresApart, TaskKept
<1>2. RequestFresh'
  <2>1. ASSUME await_requested' PROVE \A j \in Jobs : jobs'[j].closure # await_resume'
    <3>1. await_requested /\ await_resume' = await_resume /\ await_resume # NoClosure
      BY <2>1, ConstantAssumption DEF RequestKept, AwaitRecorded
    <3>2. QED
      BY <3>1 DEF TaskInvariant, RequestFresh, TaskKept
  <2>2. ASSUME await_requested', ~thrown' PROVE \E j \in Jobs : HookBusy(j)'
    BY <2>2 DEF TaskInvariant, RequestFresh, TaskKept, RequestKept
  <2>3. QED
    BY <2>1, <2>2 DEF RequestFresh
<1>3. OnlyHooksComplete'
  BY DEF TaskInvariant, OnlyHooksComplete, TaskKept
<1>4. QED
  BY <1>1, <1>2, <1>3 DEF TaskInvariant

\* A step that moves one task keeps the others.
LEMMA OtherTasks ==
    ASSUME NEW j \in Jobs, \A i \in Jobs \ {j} : jobs'[i] = jobs[i], TaskKept(j)
    PROVE  \A i \in Jobs : TaskKept(i)
<1>1. ASSUME NEW i \in Jobs \ {j} PROVE TaskKept(i)
  BY <1>1 DEF TaskKept, HookBusy
<1>2. QED
  BY <1>1

\* So does one that moves none.
LEMMA UntouchedTasks ==
    ASSUME UNCHANGED jobs
    PROVE  \A i \in Jobs : TaskKept(i)
BY DEF TaskKept, HookBusy

\* Entering the gate uses a free job.
LEMMA EnqueueTasks ==
    ASSUME TypeOK, NEW t \in Tasks, NEW allow, NEW result, EnqueueSection(t, allow, result)
    PROVE  \A i \in Jobs : TaskKept(i)
<1>1. CASE UNCHANGED jobs
  BY <1>1, UntouchedTasks
<1>2. ASSUME NEW j \in FreeJobs, jobs' = [jobs EXCEPT ![j] = QueuedJob(t)]
      PROVE  \A i \in Jobs : TaskKept(i)
  <2>1. /\ j \in Jobs /\ jobs[j].phase = "free"
        /\ jobs'[j].closure = NoClosure /\ jobs'[j].phase = "queued"
        /\ \A i \in Jobs \ {j} : jobs'[i] = jobs[i]
    BY <1>2 DEF FreeJobs, TypeOK, GateTypeOK, QueuedJob, Job
  <2>2. TaskKept(j)
    BY <2>1 DEF TaskKept, HookBusy
  <2>3. QED
    BY <2>1, <2>2, OtherTasks
<1>3. QED
  BY <1>1, <1>2 DEF EnqueueSection, gateVars

\* mudmux_execution_dispatch enters the gate or fails.
LEMMA DispatchTasks ==
    ASSUME TypeOK, NEW t \in Tasks, NEW allow, NEW result, Dispatch(t, allow, result)
    PROVE  \A i \in Jobs : TaskKept(i)
BY EnqueueTasks, UntouchedTasks DEF Dispatch, gateVars

\* The event loop, comm_close and comm_add_message submit no closure.
LEMMA CommTasks ==
    ASSUME TypeOK,
           \/ Accept \/ InboundDispatch \/ CloseDispatch \/ ReadyDispatch \/ SendEnqueue
           \/ CloseFinish \/ ParseInput \/ Teardown \/ StopAdmission \/ StopPool
           \/ JoinWorkers \/ WorkersStart \/ UNCHANGED vars
           \/ \E by \in Callers : CloseRequest(by) \/ SendMessage(by)
    PROVE  RequestKept /\ \A i \in Jobs : TaskKept(i)
<1>1. ASSUME NEW kind \in SlotHooks, NEW gen \in Generations, NEW allow, NEW result,
             Dispatch(Task(kind, gen), allow, result) \/ EnqueueSection(Task(kind, gen), allow, result)
      PROVE  \A i \in Jobs : TaskKept(i)
  <2>1. PICK t \in Tasks : t = Task(kind, gen)
    BY TaskIs
  <2>2. QED
    BY <1>1, <2>1, DispatchTasks, EnqueueTasks
<1>2. CurrentGeneration \in Generations /\ sender.gen \in Generations
  BY CurrentGenerationType DEF TypeOK, CallTypeOK
<1>3. {"CONNECT", "INBOUND", "DISCONNECT", "TRANSPORT_READY", "OUTBOUND"} = SlotHooks
  BY DEF SlotHooks
<1>4. CASE Accept
  <2>1. generation + 1 \in Generations
    BY <1>4, ConstantAssumption DEF Accept, TypeOK, CountTypeOK, Generations
  <2>2. QED
    BY <1>1, <1>3, <1>4, <2>1 DEF Accept, RequestKept, awaitVars
<1>5. CASE InboundDispatch
  BY <1>1, <1>2, <1>3, <1>5 DEF InboundDispatch, RequestKept, awaitVars, histVars
<1>6. CASE CloseDispatch
  BY <1>1, <1>2, <1>3, <1>6 DEF CloseDispatch, RequestKept, awaitVars, histVars
<1>7. CASE ReadyDispatch
  BY <1>1, <1>2, <1>3, <1>7 DEF ReadyDispatch, RequestKept, awaitVars, histVars
<1>8. CASE SendEnqueue
  BY <1>1, <1>2, <1>3, <1>8 DEF SendEnqueue, RequestKept, awaitVars, histVars
<1>9. CASE CloseFinish
  <2>1. RequestKept
    BY <1>9 DEF CloseFinish, RequestKept, awaitVars, histVars
  <2>2. ASSUME NEW j \in FreeJobs, jobs' = [jobs EXCEPT ![j] = QueuedJob(Head(pending))]
        PROVE  \A i \in Jobs : TaskKept(i)
    <3>1. /\ j \in Jobs /\ jobs[j].phase = "free"
          /\ jobs'[j].closure = NoClosure /\ jobs'[j].phase = "queued"
          /\ \A i \in Jobs \ {j} : jobs'[i] = jobs[i]
      BY <2>2 DEF FreeJobs, TypeOK, GateTypeOK, QueuedJob, Job
    <3>2. TaskKept(j)
      BY <3>1 DEF TaskKept, HookBusy
    <3>3. QED
      BY <3>1, <3>2, OtherTasks
  <2>3. QED
    BY <1>9, <2>1, <2>2, UntouchedTasks DEF CloseFinish
<1>10. CASE ParseInput \/ Teardown \/ StopAdmission \/ StopPool \/ JoinWorkers \/ WorkersStart
  <2>1. UNCHANGED jobs
    BY <1>10 DEF ParseInput, Teardown, StopAdmission, StopPool, JoinWorkers, WorkersStart, gateVars
  <2>2. RequestKept
    BY <1>10 DEF ParseInput, Teardown, StopAdmission, StopPool, JoinWorkers, WorkersStart,
                 RequestKept, ClearAwait, awaitVars, histVars
  <2>3. QED
    BY <2>1, <2>2, UntouchedTasks
<1>11. ASSUME NEW by \in Callers, CloseRequest(by) \/ SendMessage(by)
       PROVE  RequestKept /\ \A i \in Jobs : TaskKept(i)
  <2>1. UNCHANGED jobs
    BY <1>11 DEF CloseRequest, SendMessage, gateVars
  <2>2. RequestKept
    BY <1>11 DEF CloseRequest, SendMessage, RequestKept, ClearAwait, awaitVars, histVars
  <2>3. QED
    BY <2>1, <2>2, UntouchedTasks
<1>12. CASE UNCHANGED vars
  BY <1>12, UntouchedTasks DEF vars, gateVars, awaitVars, histVars, RequestKept
<1>13. QED
  BY <1>4, <1>5, <1>6, <1>7, <1>8, <1>9, <1>10, <1>11, <1>12

\* Workers submit closures only where an await is finalized or settled.
LEMMA WorkerTasks ==
    ASSUME TypeOK, JobShape, NEW j \in Jobs,
           \/ StartExecution(j) \/ HookReturns(j) \/ CompleteConnect(j) \/ CompleteHook(j)
           \/ FinishExecution(j) \/ StartWork(j) \/ WorkReturns(j) \/ DiscardAwait(j)
           \/ StartResume(j) \/ AwaitCall(j) \/ HookThrows(j)
           \/ AwaitRecord(j) /\ UNCHANGED awaitVars
           \/ FinalizeAwait(j) /\ ~await_requested
           \/ SettleAwait(j) /\ ~AwaitMatches(j)
    PROVE  RequestKept /\ \A i \in Jobs : TaskKept(i)
<1>0. jobs \in [Jobs -> JobStates]
  BY DEF TypeOK, GateTypeOK
<1>1. RequestKept
  <2>1. CASE \/ StartExecution(j) \/ HookReturns(j) \/ CompleteConnect(j) \/ CompleteHook(j)
             \/ FinishExecution(j) \/ StartWork(j) \/ WorkReturns(j)
             \/ StartResume(j) \/ AwaitCall(j) \/ HookThrows(j)
             \/ AwaitRecord(j) /\ UNCHANGED awaitVars
    <3>1. UNCHANGED <<await_requested, await_resume>> /\ (thrown' = thrown \/ thrown' = TRUE)
      BY <2>1 DEF StartExecution, HookReturns, CompleteConnect, CompleteHook, FinishExecution,
                  StartWork, WorkReturns, StartResume, AwaitCall, HookThrows, AwaitRecord,
                  awaitVars, histVars
    <3>2. QED
      BY <3>1 DEF RequestKept
  <2>2. CASE DiscardAwait(j)
    BY <2>2 DEF DiscardAwait, RequestKept, ClearAwait, awaitVars, histVars
  <2>3. CASE FinalizeAwait(j) /\ ~await_requested
    BY <2>3 DEF FinalizeAwait, RequestKept, histVars
  <2>4. CASE SettleAwait(j) /\ ~AwaitMatches(j)
    BY <2>4 DEF SettleAwait, RequestKept, awaitVars, histVars
  <2>5. QED
    BY <2>1, <2>2, <2>3, <2>4
<1>2. \A i \in Jobs \ {j} : jobs'[i] = jobs[i]
  BY <1>0 DEF StartExecution, HookReturns, CompleteConnect, CompleteHook, FinishExecution,
              StartWork, WorkReturns, DiscardAwait, StartResume, AwaitCall, HookThrows,
              AwaitRecord, FinalizeAwait, SettleAwait
<1>3. ASSUME jobs'[j].kind = jobs[j].kind, jobs'[j].closure \in {jobs[j].closure, NoClosure},
             jobs'[j].phase = "complete" => jobs[j].kind \in LifecycleHooks,
             \/ jobs[j].phase \notin {"hook", "await", "complete", "finalize"}
             \/ jobs'[j].phase \in {"hook", "await", "complete", "finalize"}
             \/ ~await_requested'
      PROVE  TaskKept(j)
  BY <1>3 DEF TaskKept, HookBusy
<1>4. ASSUME StartExecution(j) PROVE TaskKept(j)
  <2>1. /\ jobs[j].phase = "queued" /\ jobs'[j].kind = jobs[j].kind
        /\ jobs'[j].closure = jobs[j].closure /\ jobs'[j].phase \in {"hook", "finalize"}
    BY <1>0, <1>4 DEF StartExecution, JobStates
  <2>2. QED
    BY <1>3, <2>1
<1>5. ASSUME HookReturns(j) PROVE TaskKept(j)
  <2>1. /\ jobs'[j].kind = jobs[j].kind /\ jobs'[j].closure = NoClosure
        /\ jobs'[j].phase \in {"complete", "finalize"}
        /\ jobs'[j].phase = "complete" => jobs[j].kind \in LifecycleHooks
    BY <1>0, <1>5 DEF HookReturns, JobStates
  <2>2. QED
    BY <1>3, <2>1
<1>6. ASSUME CompleteConnect(j) \/ CompleteHook(j) PROVE TaskKept(j)
  <2>1. /\ jobs'[j].kind = jobs[j].kind /\ jobs'[j].closure = jobs[j].closure
        /\ jobs'[j].phase = "finalize"
    BY <1>0, <1>6 DEF CompleteConnect, CompleteHook, JobStates
  <2>2. QED
    BY <1>3, <2>1
<1>7. ASSUME FinishExecution(j) PROVE TaskKept(j)
  <2>1. /\ jobs[j].phase = "finish" /\ jobs'[j].closure = NoClosure
        /\ jobs'[j].phase \in {"queued", "free"}
    BY <1>0, <1>7 DEF FinishExecution, QueuedJob, FreeJob, Job
  <2>2. QED
    BY <2>1 DEF TaskKept, HookBusy
<1>8. ASSUME StartWork(j) \/ WorkReturns(j) PROVE TaskKept(j)
  <2>1. /\ jobs[j].phase \in {"queued", "work"} /\ jobs'[j].kind = jobs[j].kind
        /\ jobs'[j].closure = jobs[j].closure /\ jobs'[j].phase \in {"work", "settle"}
    BY <1>0, <1>8 DEF StartWork, WorkReturns, JobStates
  <2>2. QED
    BY <1>3, <2>1
<1>9. ASSUME DiscardAwait(j) PROVE TaskKept(j)
  <2>1. /\ jobs[j].phase = "discard" /\ jobs'[j].closure = NoClosure
        /\ jobs'[j].phase \in {"finish", "free"}
    BY <1>0, <1>9 DEF DiscardAwait, FreeJob, Job
  <2>2. QED
    BY <2>1 DEF TaskKept, HookBusy
<1>10. ASSUME StartResume(j) PROVE TaskKept(j)
  <2>1. /\ jobs[j].phase = "queued" /\ jobs'[j].kind = jobs[j].kind
        /\ jobs'[j].closure \in {jobs[j].closure, NoClosure}
        /\ jobs'[j].phase \in {"hook", "finalize"}
    BY <1>0, <1>10 DEF StartResume, JobStates
  <2>2. QED
    BY <1>3, <2>1
<1>11. ASSUME AwaitCall(j) \/ AwaitRecord(j) PROVE TaskKept(j)
  <2>1. /\ jobs'[j].kind = jobs[j].kind /\ jobs'[j].closure = jobs[j].closure
        /\ jobs'[j].phase \in {"hook", "await"}
    BY <1>0, <1>11 DEF AwaitCall, AwaitRecord, JobStates
  <2>2. QED
    BY <1>3, <2>1
<1>12. ASSUME HookThrows(j) PROVE TaskKept(j)
  <2>1. jobs'[j].closure = NoClosure /\ jobs'[j].phase = "free" /\ thrown'
    BY <1>0, <1>12 DEF HookThrows, FreeJob, Job
  <2>2. QED
    BY <2>1 DEF TaskKept
<1>13. ASSUME FinalizeAwait(j) /\ ~await_requested PROVE TaskKept(j)
  <2>1. /\ jobs'[j].kind = jobs[j].kind /\ jobs'[j].closure = jobs[j].closure
        /\ jobs'[j].phase = "finish" /\ ~await_requested'
    BY <1>0, <1>13 DEF FinalizeAwait, JobStates
  <2>2. QED
    BY <1>3, <2>1
<1>14. ASSUME SettleAwait(j) /\ ~AwaitMatches(j) PROVE TaskKept(j)
  <2>1. /\ jobs[j].phase = "settle" /\ jobs'[j].kind = jobs[j].kind
        /\ jobs'[j].closure = jobs[j].closure /\ jobs'[j].phase = "discard"
    BY <1>0, <1>14 DEF SettleAwait, JobStates
  <2>2. QED
    BY <1>3, <2>1
<1>15. TaskKept(j)
  BY <1>4, <1>5, <1>6, <1>7, <1>8, <1>9, <1>10, <1>11, <1>12, <1>13, <1>14
<1>16. QED
  BY <1>1, <1>2, <1>15, OtherTasks

\* An await records a closure of its own.
LEMMA RecordTasks ==
    ASSUME TypeOK, GateInvariant, TaskInvariant, NEW j \in Jobs, AwaitRecord(j)
    PROVE  TaskInvariant'
<1>0. jobs \in [Jobs -> JobStates] /\ JobShape /\ AwaitRecorded
  BY DEF TypeOK, GateTypeOK, GateInvariant
<1>1. CASE UNCHANGED awaitVars
  BY <1>0, <1>1, WorkerTasks, KeptTasks
<1>2. CASE /\ await_requested' = TRUE
           /\ \E c \in Closures \ UsedClosures : await_resume' = c
  <2>1. /\ \A i \in Jobs : jobs'[i].closure = jobs[i].closure /\ jobs'[i].kind = jobs[i].kind
        /\ \A i \in Jobs \ {j} : jobs'[i] = jobs[i]
        /\ jobs[j].phase = "await" /\ jobs'[j].phase = "hook"
    BY <1>0 DEF AwaitRecord, JobStates
  <2>2. ClosuresApart'
    BY <2>1 DEF TaskInvariant, ClosuresApart
  <2>3. \A i \in Jobs : jobs'[i].closure # await_resume'
    BY <1>2, <2>1 DEF UsedClosures
  <2>4. jobs[j].kind \in SlotHooks \cup {"RESUME"}
    BY <1>0, <2>1 DEF JobShape, JobStates
  <2>5. HookBusy(j)'
    BY <2>1, <2>4 DEF HookBusy
  <2>6. RequestFresh'
    BY <2>3, <2>5 DEF RequestFresh
  <2>7. OnlyHooksComplete'
    BY <2>1 DEF TaskInvariant, OnlyHooksComplete
  <2>8. QED
    BY <2>2, <2>6, <2>7 DEF TaskInvariant
<1>3. QED
  BY <1>1, <1>2 DEF AwaitRecord

\* Finalizing an await gives its closure to one task.
LEMMA FinalizeTasks ==
    ASSUME TypeOK, GateInvariant, TaskInvariant, NEW j \in Jobs, FinalizeAwait(j)
    PROVE  TaskInvariant'
<1>0. jobs \in [Jobs -> JobStates] /\ JobShape /\ AwaitRecorded
  BY DEF TypeOK, GateTypeOK, GateInvariant
<1>1. CASE ~await_requested
  BY <1>0, <1>1, WorkerTasks, KeptTasks
<1>2. CASE await_requested
  <2>1. /\ jobs'[j].closure = await_resume /\ jobs'[j].phase = "queued"
        /\ \A i \in Jobs \ {j} : jobs'[i] = jobs[i]
        /\ ~await_requested'
    BY <1>0, <1>2 DEF FinalizeAwait, AwaitWork, Job
  <2>2. ClosuresApart'
    BY <1>2, <2>1 DEF TaskInvariant, ClosuresApart, RequestFresh
  <2>3. RequestFresh' /\ OnlyHooksComplete'
    BY <2>1 DEF TaskInvariant, RequestFresh, OnlyHooksComplete
  <2>4. QED
    BY <2>2, <2>3 DEF TaskInvariant
<1>3. QED
  BY <1>1, <1>2

\* Settling an await turns its own work into the resume closure.
LEMMA SettleTasks ==
    ASSUME TypeOK, GateInvariant, TaskInvariant, NEW j \in Jobs, SettleAwait(j)
    PROVE  TaskInvariant'
<1>0. jobs \in [Jobs -> JobStates] /\ JobShape /\ AwaitRecorded
  BY DEF TypeOK, GateTypeOK, GateInvariant
<1>1. CASE ~AwaitMatches(j)
  BY <1>0, <1>1, WorkerTasks, KeptTasks
<1>2. CASE AwaitMatches(j)
  <2>1. AwaitOwner(j)
    <3>1. jobs[j].kind = "WORK" /\ jobs[j].phase # "finish"
      BY <1>0 DEF SettleAwait, JobShape, JobStates
    <3>2. QED
      BY <1>2, <3>1, SameGenerationOwns DEF AwaitMatches, GateInvariant
  <2>2. /\ jobs'[j].closure = jobs[j].closure /\ jobs'[j].phase = "queued"
        /\ \A i \in Jobs \ {j} : jobs'[i] = jobs[i]
        /\ ~await_requested'
    BY <1>0, <1>2, <2>1 DEF SettleAwait, Job, AwaitOwner, AwaitMatches, AwaitRecorded
  <2>3. ClosuresApart'
    BY <2>2 DEF TaskInvariant, ClosuresApart
  <2>4. RequestFresh' /\ OnlyHooksComplete'
    BY <2>2 DEF TaskInvariant, RequestFresh, OnlyHooksComplete
  <2>5. QED
    BY <2>3, <2>4 DEF TaskInvariant
<1>3. QED
  BY <1>1, <1>2

\* The closures stay apart in every behaviour.
THEOREM ClosureDiscipline ==
    ASSUME ~AwaitAfterCancel
    PROVE  Spec => []TaskInvariant
<1>1. ASSUME Init PROVE TaskInvariant
  <2>1. \A j \in Jobs : jobs[j].closure = NoClosure /\ jobs[j].phase = "free"
    BY <1>1 DEF Init, FreeJob, Job
  <2>2. QED
    BY <1>1, <2>1 DEF Init, TaskInvariant, ClosuresApart, RequestFresh, OnlyHooksComplete
<1>2. ASSUME TypeOK, GateInvariant, TaskInvariant, [Next]_vars PROVE TaskInvariant'
  <2>1. JobShape /\ AwaitRecorded
    BY <1>2 DEF GateInvariant
  <2>2. ASSUME RequestKept, \A i \in Jobs : TaskKept(i) PROVE TaskInvariant'
    BY <1>2, <2>1, <2>2, KeptTasks
  <2>3. ASSUME NEW j \in Jobs, JobStep(j) \/ AwaitCall(j) \/ HookThrows(j)
        PROVE  TaskInvariant'
    BY <1>2, <2>1, <2>2, <2>3, WorkerTasks, RecordTasks, FinalizeTasks, SettleTasks DEF JobStep
  <2>4. QED
    BY <1>2, <2>2, <2>3, CommTasks DEF Next, CommStep, ApplicationStep, LifecycleStep
<1>3. QED
  BY <1>1, <1>2, TypeCorrect, GateDiscipline, PTL DEF Spec

\* A resume closure is never submitted while the work it waits for is a task.
THEOREM ResumeFollowsWork ==
    ASSUME ~AwaitAfterCancel
    PROVE  Spec => []ResumeAfterWork
<1>1. TaskInvariant => ResumeAfterWork
  BY DEF TaskInvariant, ClosuresApart, ResumeAfterWork
<1>2. QED
  BY <1>1, ClosureDiscipline, PTL

\* When the workers have been joined no await is recorded or pending and no
\* continuation waits, unless a hook threw.
THEOREM StopLeavesNoAwait ==
    ASSUME ~AwaitAfterCancel
    PROVE  Spec => StopConsumesAwaits
<1>1. ASSUME TypeOK, GateInvariant, TaskInvariant, [Next]_vars,
             pool = "joining", pool' = "down", ~thrown
      PROVE  ~await_requested /\ ~await_pending /\ pending = <<>>
  <2>1. JoinWorkers
    <3>1. ASSUME NEW j \in Jobs, JobStep(j) PROVE UNCHANGED pool
      BY <3>1 DEF JobStep, StartExecution, HookReturns, CompleteConnect, CompleteHook,
                  AwaitRecord, FinalizeAwait, FinishExecution, StartWork, WorkReturns,
                  SettleAwait, DiscardAwait, StartResume
    <3>2. ASSUME CommStep \/ SendEnqueue \/ ParseInput \/ Teardown PROVE UNCHANGED pool
      BY <3>2 DEF CommStep, InboundDispatch, CloseFinish, CloseDispatch, ReadyDispatch,
                  SendEnqueue, ParseInput, Teardown
    <3>3. ASSUME ApplicationStep PROVE UNCHANGED pool
      BY <3>3 DEF ApplicationStep, CloseRequest, SendMessage, AwaitCall, HookThrows
    <3>4. ASSUME Accept \/ StopAdmission \/ StopPool \/ WorkersStart
          PROVE  ~(pool = "joining" /\ pool' = "down")
      BY <3>4 DEF Accept, StopAdmission, StopPool, WorkersStart
    <3>5. QED
      BY <1>1, <3>1, <3>2, <3>3, <3>4 DEF Next, LifecycleStep, vars
  <2>2. /\ op.pc = "idle"
        /\ \A j \in Jobs : jobs[j].phase = "free" /\ jobs[j].kind = "NONE"
    BY <1>1, <2>1 DEF JoinWorkers, CommLockFree, GateInvariant, JobShape
  <2>3. \A j \in Jobs : ~Owner(j) /\ ~AwaitOwner(j) /\ ~HookBusy(j)
    BY <2>2 DEF Owner, AwaitOwner, HookBusy
  <2>4. ~await_requested /\ ~await_pending
    BY <1>1, <2>3 DEF TaskInvariant, RequestFresh, GateInvariant, AwaitRecorded
  <2>5. pending = <<>>
    BY <1>1, <2>2, <2>3 DEF GateInvariant, GateHeld
  <2>6. QED
    BY <2>4, <2>5
<1>2. TypeOK /\ GateInvariant /\ TaskInvariant /\ [Next]_vars
        => [pool = "joining" /\ pool' = "down" /\ ~thrown
              => ~await_requested /\ ~await_pending /\ pending = <<>>]_vars
  BY <1>1
<1>3. QED
  BY <1>2, TypeCorrect, GateDiscipline, ClosureDiscipline, PTL DEF Spec, StopConsumesAwaits

-----------------------------------------------------------------------------
(* The life cycle of a connection.                                         *)

\* The invariant holds throughout.
THEOREM LifecycleOrder ==
    ASSUME ~AwaitAfterCancel
    PROVE  Spec => []LifecycleInvariant
<1>1. ASSUME Init PROVE LifecycleInvariant
  <2>1. ConnectionFlags
    BY <1>1 DEF Init, ConnectionFlags, InClose, IdleOp
  <2>2. PendingSlots = {} /\ \A j \in Jobs : ~LiveJob(j)
    BY <1>1 DEF Init, PendingSlots, LiveJob, FreeJob, Job
  <2>3. ~DisconnectLive /\ ~OpeningLive
    BY <2>2 DEF DisconnectLive, OpeningLive, DisconnectJob, OpeningJob
  <2>4. HooksCurrent /\ DisconnectLast
    BY <2>2 DEF HooksCurrent, DisconnectLast, DisconnectJob
  <2>5. DisconnectHolds /\ DisconnectCounted /\ OpeningFirst /\ AwaitedHook
    BY <1>1, <2>3 DEF Init, DisconnectHolds, DisconnectCounted, OpeningFirst, AwaitedHook
  <2>6. QED
    BY <2>1, <2>4, <2>5 DEF LifecycleInvariant, HookOrder
<1>2. TypeOK /\ GateInvariant /\ LifecycleInvariant /\ [Next]_vars => LifecycleInvariant'
  BY FlagsStep, HookOrderStep DEF LifecycleInvariant
<1>3. QED
  BY <1>1, <1>2, TypeCorrect, GateDiscipline, PTL DEF Spec

\* C_AWAITING_HOOK is never left set with nobody to clear it, unless a hook
\* threw: input and close are paused only while a lifecycle hook is on its way.
THEOREM AwaitingHookAlwaysCleared ==
    ASSUME ~AwaitAfterCancel
    PROVE  Spec => []AwaitingHookHasCompletion
<1>1. ASSUME LifecycleInvariant PROVE AwaitingHookHasCompletion
  <2> SUFFICES ASSUME awaiting_hook, ~thrown, op.pc # "ready"
               PROVE  \/ \E j \in Jobs : /\ jobs[j].kind \in LifecycleHooks
                                         /\ jobs[j].gen = generation
                                         /\ jobs[j].phase \in {"queued", "hook", "await",
                                                              "complete"}
                      \/ \E k \in 1 .. Len(pending) :
                            /\ pending[k].kind \in LifecycleHooks
                            /\ pending[k].gen = generation
    BY DEF AwaitingHookHasCompletion
  <2>1. DisconnectLive \/ OpeningLive
    BY <1>1 DEF LifecycleInvariant, HookOrder, AwaitedHook
  <2>2. (\E j \in Jobs : LiveJob(j)) \/ (\E k \in PendingSlots : LiveTask(k))
    BY <2>1, LiveParts
  <2>3. QED
    BY <1>1, <2>2
       DEF LifecycleInvariant, HookOrder, HooksCurrent, LiveJob, LiveTask, PendingSlots
<1>2. QED
  BY <1>1, LifecycleOrder, PTL

\* The generation check made before a lifecycle completion is still good when
\* the completion runs: the slot cannot be reused in between.
THEOREM CompletionsOwnSlot ==
    ASSUME ~AwaitAfterCancel
    PROVE  Spec => []CompletionOwnsSlot
<1>1. LifecycleInvariant /\ TaskInvariant => CompletionOwnsSlot
  BY DEF LifecycleInvariant, HookOrder, HooksCurrent, LiveJob, CompletionOwnsSlot,
         TaskInvariant, OnlyHooksComplete
<1>2. QED
  BY <1>1, LifecycleOrder, ClosureDiscipline, PTL

\* While the disconnect hook is queued or runs the slot stays allocated to its
\* connection.
THEOREM DisconnectPinsSlotAlways ==
    ASSUME ~AwaitAfterCancel
    PROVE  Spec => []DisconnectPinsSlot
<1>1. LifecycleInvariant => DisconnectPinsSlot
  BY HookKinds DEF LifecycleInvariant, HookOrder, HooksCurrent, LiveJob, DisconnectPinsSlot
<1>2. QED
  BY <1>1, LifecycleOrder, PTL

\* A connection gives its slot up only after its disconnect hook has begun
\* exactly once, whatever raced with the close.
THEOREM OneDisconnect ==
    ASSUME ~AwaitAfterCancel
    PROVE  Spec => OneDisconnectPerConnection
<1>1. ASSUME TypeOK, LifecycleInvariant, [Next]_vars, occupied, ~occupied'
      PROVE  disconnects = 1
  <2>1. Teardown \/ JoinWorkers
    <3>1. CASE UNCHANGED commVars
      BY <1>1, <3>1 DEF commVars
    <3>2. ASSUME NEW j \in Jobs, JobStep(j) PROVE UNCHANGED occupied
      BY <3>2 DEF JobStep, StartExecution, HookReturns, CompleteConnect, CompleteHook,
                  AwaitRecord, FinalizeAwait, FinishExecution, StartWork, WorkReturns,
                  SettleAwait, DiscardAwait, StartResume, commVars
    <3>3. ASSUME CommStep \/ SendEnqueue \/ ParseInput PROVE UNCHANGED occupied
      BY <3>3 DEF CommStep, InboundDispatch, CloseFinish, CloseDispatch, ReadyDispatch,
                  SendEnqueue, ParseInput, commVars
    <3>4. ASSUME ApplicationStep PROVE UNCHANGED occupied
      BY <3>4 DEF ApplicationStep, CloseRequest, SendMessage, AwaitCall, HookThrows, commVars
    <3>5. ASSUME Accept \/ StopAdmission \/ StopPool \/ WorkersStart PROVE ~(occupied /\ ~occupied')
      BY <3>5 DEF Accept, StopAdmission, StopPool, WorkersStart, commVars
    <3>6. QED
      BY <1>1, <3>1, <3>2, <3>3, <3>4, <3>5 DEF Next, LifecycleStep, vars
  <2>2. /\ op.pc = "idle" /\ closing /\ ~disconnect_pending /\ ~awaiting_hook
    BY <1>1, <2>1 DEF Teardown, TeardownAllowed, JoinWorkers, CommLockFree,
                      LifecycleInvariant, ConnectionFlags
  <2>3. QED
    BY <1>1, <2>2, RemovalOver
<1>2. TypeOK /\ LifecycleInvariant /\ [Next]_vars
        => [occupied /\ ~occupied' => disconnects = 1]_vars
  BY <1>1
<1>3. QED
  BY <1>2, TypeCorrect, LifecycleOrder, PTL DEF Spec, OneDisconnectPerConnection
=============================================================================
