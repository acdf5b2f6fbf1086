--------------------------- MODULE SlotExecution ---------------------------
(***************************************************************************)
(* The per-slot execution gate of mudmux in relaxed mode                   *)
(* (src/src/execution.cpp), together with the part of the connection life  *)
(* cycle that drives it: accept, inbound dispatch, comm_close, teardown    *)
(* and shutdown (src/lib/comm, src/src/mudmux.cpp).                        *)
(*                                                                         *)
(* The module describes ONE communication slot.  Slots share no gate       *)
(* state; the hooks of other slots appear as calls made by `Outside'.      *)
(*                                                                         *)
(* Atomicity follows the locks.  Every critical section of a slot state    *)
(* (slot_states_mutex) is one step.  comm_slots_mtx is held by comm_close  *)
(* and by the input parser across several such sections: `op' is then not  *)
(* idle, and every step that needs that mutex waits.                       *)
(***************************************************************************)
EXTENDS Naturals, Sequences, FiniteSets

CONSTANTS
    Jobs,             \* tasks the worker pool can hold or run at one time
    Closures,         \* pairs (work, resume) handed to mudmux_workers_await
    Outside,          \* any thread that is not running a hook of this slot
    NoClosure,        \* an empty async_closure_t
    Workers,          \* transport.thread_pool.size
    BacklogCapacity,  \* transport.thread_pool.backlog_capacity
    MaxGeneration,    \* bound: connections accepted on the slot per run
    MaxLines,         \* bound: input lines one connection sends
    MaxSends,         \* bound: comm_add_message calls per run
    MaxAwaits,        \* bound: mudmux_workers_await calls per run
    AwaitAfterCancel, \* the application awaits again on a connection after
                      \* comm_close destroyed one of its resume closures
    HooksThrow        \* hooks may leave by a C++ exception

ASSUME ConstantAssumption ==
    /\ Outside \notin Jobs
    /\ NoClosure \notin Closures
    /\ Workers \in Nat \ {0}
    /\ BacklogCapacity \in Nat \ {0}
    /\ MaxGeneration \in Nat
    /\ MaxLines \in Nat
    /\ MaxSends \in Nat
    /\ MaxAwaits \in Nat
    /\ AwaitAfterCancel \in BOOLEAN
    /\ HooksThrow \in BOOLEAN

VARIABLES
    pool,               \* life cycle of the worker pool
    occupied,           \* the slot table entry holds a connection
    generation,         \* generation of that entry
    closing,            \* C_CLOSING
    disconnect_pending, \* C_DISCONNECT_PENDING
    awaiting_hook,      \* C_AWAITING_HOOK
    transport_ready,    \* C_TRANSPORT_READY
    active,             \* slot_execution_state_t: the gate is held
    pending,            \* ... continuation queue
    await_requested,    \* ... an await recorded by the running hook
    await_pending,      \* ... an await whose work has been submitted
    await_generation,   \* ... generation the await belongs to
    await_resume,       \* ... its closure
    jobs,               \* tasks submitted to the pool, queued or running
    op,                 \* the operation holding comm_slots_mtx, if any
    sender,             \* a comm_add_message call between its two sections
    lines,              \* input lines of the connection not yet dispatched
    sends, awaits,      \* bounds still to be used
    cancelled,          \* history: generations with a cancelled await
    disconnects,        \* history: DISCONNECT hooks begun by the connection
    thrown              \* history: a hook of the slot left by an exception

commVars  == <<occupied, generation, closing, disconnect_pending,
               awaiting_hook, transport_ready>>
awaitVars == <<await_requested, await_pending, await_generation, await_resume>>
gateVars  == <<active, pending, jobs>>
boundVars == <<lines, sends, awaits>>
histVars  == <<cancelled, disconnects, thrown>>
vars == <<pool, commVars, awaitVars, gateVars, op, sender, boundVars, histVars>>

-----------------------------------------------------------------------------
SlotHooks == {"CONNECT", "TRANSPORT_READY", "INBOUND", "OUTBOUND", "DISCONNECT"}

\* Hooks whose completion callback clears C_AWAITING_HOOK.
LifecycleHooks == {"CONNECT", "TRANSPORT_READY", "DISCONNECT"}

\* Hook contexts in which mudmux_workers_await is accepted.
AwaitingHooks == {"TRANSPORT_READY", "INBOUND", "RESUME"}

Generations == 0 .. MaxGeneration

\* slot_execution_t
Tasks == [kind : SlotHooks, gen : Generations]

Phases == {"free", "queued", "hook", "await", "complete", "finalize",
           "finish", "work", "settle", "discard"}

JobStates == [phase   : Phases,
              kind    : SlotHooks \cup {"WORK", "RESUME", "NONE"},
              gen     : Generations,
              closure : Closures \cup {NoClosure},
              seen    : Generations]

Job(phase, kind, gen, closure) ==
    [phase |-> phase, kind |-> kind, gen |-> gen,
     closure |-> closure, seen |-> 0]

FreeJob == Job("free", "NONE", 0, NoClosure)

Task(kind, gen) == [kind |-> kind, gen |-> gen]

QueuedJob(t) == Job("queued", t.kind, t.gen, NoClosure)

Running(j)   == jobs[j].phase \notin {"free", "queued"}
InHook(j)    == jobs[j].phase \in {"hook", "await"}
FreeJobs     == {j \in Jobs : jobs[j].phase = "free"}
UsedClosures == {jobs[j].closure : j \in Jobs} \cup {await_resume}

\* A worker thread can take another task from the pool.
WorkerIdle == Cardinality({j \in Jobs : Running(j)}) < Workers

\* comm_abstract_generation: 0 for an empty slot.
CurrentGeneration == IF occupied THEN generation ELSE 0

\* mudmux_execution_slot_busy
SlotBusy == active \/ await_requested \/ await_pending

CommLockFree == op.pc = "idle"

IdleOp     == [pc |-> "idle", by |-> Outside]
IdleSender == [pc |-> "idle", by |-> Outside, gen |-> 0]

\* The hook running in job j is inside a call that has not returned.
InCall(j) == \/ op.pc # "idle" /\ op.by = j
             \/ sender.pc # "idle" /\ sender.by = j

Callers == {Outside} \cup {j \in Jobs : jobs[j].phase = "hook" /\ ~InCall(j)}

PoolRunning   == pool = "up"                \* execution_state.running
PoolAccepting == pool \in {"up", "stopping"} \* worker_pool.submit succeeds

-----------------------------------------------------------------------------
Init ==
    /\ pool = "up"
    /\ occupied = FALSE /\ generation = 0
    /\ closing = FALSE /\ disconnect_pending = FALSE
    /\ awaiting_hook = FALSE /\ transport_ready = FALSE
    /\ active = FALSE /\ pending = <<>>
    /\ await_requested = FALSE /\ await_pending = FALSE
    /\ await_generation = 0 /\ await_resume = NoClosure
    /\ jobs = [j \in Jobs |-> FreeJob]
    /\ op = IdleOp /\ sender = IdleSender
    /\ lines = 0 /\ sends = MaxSends /\ awaits = MaxAwaits
    /\ cancelled = {} /\ disconnects = 0 /\ thrown = FALSE

-----------------------------------------------------------------------------
(* Entering the gate.                                                      *)

DispatchResults == {"QUEUED", "QUEUE_FULL", "ERROR"}

\* Mutant: the bound is off by one.
QueueHasRoomOffByOne == Len(pending) <= BacklogCapacity

\* The continuation queue can take one more task.
QueueHasRoom == Len(pending) < BacklogCapacity

\* The critical section of mudmux_execution_enqueue and the submission after
\* it.  A failed submission gives the gate back at once.
EnqueueSection(t, allow_pending, result) ==
    \/ /\ result = "QUEUED" /\ ~active /\ PoolAccepting
       /\ active' = TRUE
       /\ \E j \in FreeJobs : jobs' = [jobs EXCEPT ![j] = QueuedJob(t)]
       /\ UNCHANGED pending
    \/ /\ result = "QUEUED" /\ active
       /\ allow_pending /\ QueueHasRoom
       /\ pending' = Append(pending, t)
       /\ UNCHANGED <<active, jobs>>
    \/ /\ result = "QUEUE_FULL" /\ active
       /\ ~(allow_pending /\ QueueHasRoom)
       /\ UNCHANGED gateVars
    \/ /\ result = "ERROR" /\ ~active /\ ~PoolAccepting
       /\ UNCHANGED gateVars

\* mudmux_execution_dispatch of a slot hook in relaxed mode.
Dispatch(t, allow_pending, result) ==
    \/ PoolRunning /\ EnqueueSection(t, allow_pending, result)
    \/ ~PoolRunning /\ result = "ERROR" /\ UNCHANGED gateVars

\* clear_slot_await
ClearAwait ==
    /\ await_requested' = FALSE
    /\ await_pending' = FALSE
    /\ await_generation' = 0
    /\ await_resume' = NoClosure

-----------------------------------------------------------------------------
(* The event loop and comm_close.                                          *)

\* comm_abstract_add_bio followed by comm_invoke_connect.
Accept ==
    /\ CommLockFree /\ PoolRunning
    /\ ~occupied /\ generation < MaxGeneration
    /\ occupied' = TRUE
    /\ generation' = generation + 1
    /\ closing' = FALSE /\ disconnect_pending' = FALSE
    /\ transport_ready' = FALSE
    /\ \E result \in DispatchResults :
          /\ Dispatch(Task("CONNECT", generation + 1), TRUE, result)
          /\ awaiting_hook' = (result = "QUEUED")
    /\ lines' = MaxLines /\ disconnects' = 0
    /\ UNCHANGED <<pool, awaitVars, op, sender, sends, awaits, cancelled,
                   thrown>>

\* comm_process_input up to the decision to dispatch one line.
ParseInput ==
    /\ CommLockFree /\ PoolRunning
    /\ occupied /\ ~awaiting_hook /\ ~SlotBusy
    /\ lines > 0
    /\ op' = [pc |-> "inbound", by |-> Outside]
    /\ UNCHANGED <<pool, commVars, awaitVars, gateVars, sender, boundVars,
                   histVars>>

\* comm_invoke_inbound_message; the line stays buffered on QUEUE_FULL only.
InboundDispatch ==
    /\ op.pc = "inbound"
    /\ op' = IdleOp
    /\ \E result \in DispatchResults :
          /\ Dispatch(Task("INBOUND", CurrentGeneration), FALSE, result)
          /\ lines' = IF result = "QUEUE_FULL" THEN lines ELSE lines - 1
    /\ UNCHANGED <<pool, commVars, awaitVars, sender, sends, awaits, histVars>>

\* Mutant: the canceller forgets finish_slot_execution.
AfterCancelForgetsFinish == "close_dispatch"

\* Where comm_close continues once it has cancelled a pending await.
AfterCancel == "close_finish"

\* comm_close, first part: flags and the section of
\* mudmux_execution_cancel_await.  Called by the loop, by hooks of other slots
\* (`Outside') or by a hook of this slot.
CloseRequest(by) ==
    /\ CommLockFree
    /\ by \in Callers
    /\ occupied /\ (~closing \/ disconnect_pending)
    /\ closing' = TRUE
    /\ disconnect_pending' = FALSE
    /\ \/ /\ await_requested
          /\ ClearAwait
          /\ op' = [pc |-> "close_dispatch", by |-> by]
          /\ UNCHANGED cancelled
       \/ /\ ~await_requested /\ await_pending
          /\ ClearAwait
          /\ cancelled' = cancelled \cup {await_generation}
          /\ op' = [pc |-> AfterCancel, by |-> by]
       \/ /\ ~await_requested /\ ~await_pending
          /\ op' = [pc |-> "close_dispatch", by |-> by]
          /\ UNCHANGED <<awaitVars, cancelled>>
    /\ UNCHANGED <<pool, occupied, generation, awaiting_hook, transport_ready,
                   gateVars, sender, boundVars, disconnects, thrown>>

\* finish_slot_execution called by mudmux_execution_cancel_await.
CloseFinish ==
    /\ op.pc = "close_finish"
    /\ op' = [op EXCEPT !.pc = "close_dispatch"]
    /\ \/ /\ pending # <<>> /\ PoolAccepting
          /\ \E j \in FreeJobs :
                jobs' = [jobs EXCEPT ![j] = QueuedJob(Head(pending))]
          /\ pending' = Tail(pending)
          /\ UNCHANGED active
       \/ /\ pending = <<>> \/ ~PoolAccepting
          /\ pending' = <<>>
          /\ active' = FALSE
          /\ UNCHANGED jobs
    /\ UNCHANGED <<pool, commVars, awaitVars, sender, boundVars, histVars>>

\* Mutant: a refused disconnect leaves C_AWAITING_HOOK set.
AwaitsDisconnectWhenRefused(result) == result # "ERROR"

\* Mutant: an accepted disconnect does not set C_AWAITING_HOOK.
AwaitsDisconnectNever(result) == FALSE

\* C_AWAITING_HOOK after HOOK_DISCONNECT was dispatched with this result.
AwaitsDisconnect(result) == result = "QUEUED"

\* comm_close, second part: dispatch HOOK_DISCONNECT and record the outcome.
CloseDispatch ==
    /\ op.pc = "close_dispatch"
    /\ op' = IdleOp
    /\ \E result \in DispatchResults :
          /\ Dispatch(Task("DISCONNECT", CurrentGeneration), TRUE, result)
          /\ awaiting_hook' = AwaitsDisconnect(result)
          /\ disconnect_pending' = (result = "QUEUE_FULL")
    /\ UNCHANGED <<pool, occupied, generation, closing, transport_ready,
                   awaitVars, sender, boundVars, histVars>>

\* Mutant: a disconnect that is still owed does not hold the slot.
TeardownForgetsPending == occupied /\ closing /\ ~awaiting_hook

\* comm_close reaches comm_abstract_remove only past these early returns.
TeardownAllowed ==
    occupied /\ closing /\ ~disconnect_pending /\ ~awaiting_hook

\* comm_close on a slot whose disconnect hook is over: remove the transport.
\* Undrained output or a WebSocket close handshake may delay this step.
Teardown ==
    /\ CommLockFree /\ TeardownAllowed
    /\ occupied' = FALSE
    /\ closing' = FALSE
    /\ transport_ready' = FALSE
    /\ lines' = 0
    /\ disconnect_pending' = FALSE
    /\ UNCHANGED <<pool, generation, awaiting_hook, awaitVars, gateVars, op,
                   sender, sends, awaits, histVars>>

\* comm_flush_all drives the close of a slot whose DISCONNECT was refused.
RetryClose ==
    closing /\ ~awaiting_hook /\ disconnect_pending /\ CloseRequest(Outside)

\* comm_add_message with an outbound hook registered: the generation is read
\* under comm_slots_mtx, the gate is entered later without it.
SendMessage(by) ==
    /\ CommLockFree /\ PoolRunning
    /\ sender.pc = "idle" /\ sends > 0
    /\ by \in Callers
    /\ by \in Jobs => jobs[by].kind # "OUTBOUND"
    /\ sender' = [pc |-> "enqueue", by |-> by, gen |-> CurrentGeneration]
    /\ sends' = sends - 1
    /\ UNCHANGED <<pool, commVars, awaitVars, gateVars, op, lines, awaits,
                   histVars>>

SendEnqueue ==
    /\ sender.pc = "enqueue"
    /\ sender' = IdleSender
    /\ \E result \in DispatchResults :
          EnqueueSection(Task("OUTBOUND", sender.gen), TRUE, result)
    /\ UNCHANGED <<pool, commVars, awaitVars, op, boundVars, histVars>>

-----------------------------------------------------------------------------
(* Workers: run_slot_execution.                                            *)

\* A worker takes the task and validates its generation.
StartExecution(j) ==
    /\ jobs[j].phase = "queued" /\ jobs[j].kind \in SlotHooks
    /\ WorkerIdle /\ CommLockFree
    /\ LET valid == CurrentGeneration = jobs[j].gen IN
          /\ jobs' = [jobs EXCEPT ![j].phase =
                                     IF valid THEN "hook" ELSE "finalize"]
          /\ disconnects' = IF valid /\ jobs[j].kind = "DISCONNECT"
                            THEN disconnects + 1 ELSE disconnects
    /\ UNCHANGED <<pool, commVars, awaitVars, active, pending, op, sender,
                   boundVars, cancelled, thrown>>

\* The hook returns; its generation is validated again before completion.
\* INBOUND completion only marks buffered input, which `lines' stands for.
HookReturns(j) ==
    /\ jobs[j].phase = "hook" /\ ~InCall(j)
    /\ CommLockFree
    /\ jobs' = [jobs EXCEPT
                  ![j].phase = IF /\ jobs[j].kind \in LifecycleHooks
                                  /\ CurrentGeneration = jobs[j].gen
                               THEN "complete" ELSE "finalize",
                  ![j].closure = NoClosure]
    /\ UNCHANGED <<pool, commVars, awaitVars, active, pending, op, sender,
                   boundVars, histVars>>

\* An exception unwinds run_slot_execution into the worker loop.
HookThrows(j) ==
    /\ HooksThrow
    /\ jobs[j].phase = "hook" /\ jobs[j].kind \in SlotHooks /\ ~InCall(j)
    /\ jobs' = [jobs EXCEPT ![j] = FreeJob]
    /\ thrown' = TRUE
    /\ UNCHANGED <<pool, commVars, awaitVars, active, pending, op, sender,
                   boundVars, cancelled, disconnects>>

\* _resume_input_after_connect_hook: clear C_AWAITING_HOOK, then announce a
\* plain socket as ready, keeping comm_slots_mtx for the dispatch.
CompleteConnect(j) ==
    /\ jobs[j].phase = "complete" /\ jobs[j].kind = "CONNECT"
    /\ CommLockFree
    /\ jobs' = [jobs EXCEPT ![j].phase = "finalize"]
    /\ \/ /\ occupied /\ ~closing /\ ~transport_ready
          /\ transport_ready' = TRUE
          /\ awaiting_hook' = TRUE
          /\ op' = [pc |-> "ready", by |-> j]
       \/ /\ ~occupied \/ closing \/ transport_ready
          /\ awaiting_hook' = (awaiting_hook /\ (~occupied \/ closing))
          /\ UNCHANGED <<transport_ready, op>>
    /\ UNCHANGED <<pool, occupied, generation, closing, disconnect_pending,
                   awaitVars, active, pending, sender, boundVars, histVars>>

\* Mutant: a refused dispatch leaves C_AWAITING_HOOK set.
AwaitsReadyAlways(result) == TRUE

\* C_AWAITING_HOOK after HOOK_TRANSPORT_READY was dispatched.
AwaitsReady(result) == result = "QUEUED"

\* comm_invoke_transport_ready: a refused dispatch clears both flags.
ReadyDispatch ==
    /\ op.pc = "ready"
    /\ op' = IdleOp
    /\ \E result \in DispatchResults :
          /\ Dispatch(Task("TRANSPORT_READY", CurrentGeneration), TRUE, result)
          /\ transport_ready' = (result = "QUEUED")
          /\ awaiting_hook' = AwaitsReady(result)
    /\ UNCHANGED <<pool, occupied, generation, closing, disconnect_pending,
                   awaitVars, sender, boundVars, histVars>>

\* Mutant: the completion ignores C_CLOSING.
ClearsAwaitingAlways(kind) == TRUE

\* Does the completion of this hook clear C_AWAITING_HOOK?  After a close
\* request the flag belongs to the disconnect hook.
ClearsAwaiting(kind) == kind = "DISCONNECT" \/ ~closing

\* _resume_input_after_transport_ready_hook, _disconnect_hook_complete
CompleteHook(j) ==
    /\ jobs[j].phase = "complete" /\ jobs[j].kind # "CONNECT"
    /\ CommLockFree
    /\ awaiting_hook' = (/\ awaiting_hook
                         /\ ~(occupied /\ ClearsAwaiting(jobs[j].kind)))
    /\ jobs' = [jobs EXCEPT ![j].phase = "finalize"]
    /\ UNCHANGED <<pool, occupied, generation, closing, disconnect_pending,
                   transport_ready, awaitVars, active, pending, op, sender,
                   boundVars, histVars>>

-----------------------------------------------------------------------------
(* Workers: await.                                                         *)

\* mudmux_workers_await, up to the read of the slot's generation.
AwaitCall(j) ==
    /\ jobs[j].phase = "hook" /\ jobs[j].kind \in AwaitingHooks /\ ~InCall(j)
    /\ CommLockFree /\ PoolRunning /\ occupied
    /\ awaits > 0
    /\ AwaitAfterCancel \/ generation \notin cancelled
    /\ jobs' = [jobs EXCEPT ![j].phase = "await", ![j].seen = generation]
    /\ awaits' = awaits - 1
    /\ UNCHANGED <<pool, commVars, awaitVars, active, pending, op, sender,
                   lines, sends, histVars>>

\* mudmux_workers_await, its critical section: one await at a time.
AwaitRecord(j) ==
    /\ jobs[j].phase = "await"
    /\ jobs' = [jobs EXCEPT ![j].phase = "hook", ![j].seen = 0]
    /\ \/ /\ await_requested \/ await_pending
          /\ UNCHANGED awaitVars
       \/ /\ ~await_requested /\ ~await_pending
          /\ await_requested' = TRUE
          /\ await_generation' = jobs[j].seen
          /\ \E c \in Closures \ UsedClosures : await_resume' = c
          /\ UNCHANGED await_pending
    /\ UNCHANGED <<pool, commVars, active, pending, op, sender, boundVars,
                   histVars>>

\* Mutant: the work is dropped, not run inline, when the pool refuses it.
AwaitWorkNeedsPool(j) ==
    IF PoolAccepting
    THEN Job("queued", "WORK", await_generation, await_resume)
    ELSE FreeJob

\* The task that runs the work closure of the recorded await.  A pool that
\* refuses it makes job j run it inline, with the same steps.
AwaitWork(j) ==
    Job("queued", "WORK", await_generation, await_resume)

\* mudmux_execution_finalize_await: a recorded await keeps the gate and its
\* work becomes the next task.
FinalizeAwait(j) ==
    /\ jobs[j].phase = "finalize" /\ ~InCall(j)
    /\ \/ /\ await_requested
          /\ await_requested' = FALSE
          /\ await_pending' = TRUE
          /\ active' = TRUE
          /\ jobs' = [jobs EXCEPT ![j] = AwaitWork(j)]
       \/ /\ ~await_requested
          /\ jobs' = [jobs EXCEPT ![j].phase = "finish"]
          /\ UNCHANGED <<await_requested, await_pending, active>>
    /\ UNCHANGED <<pool, commVars, await_generation, await_resume, pending, op,
                   sender, boundVars, histVars>>

\* finish_slot_execution: hand the gate to the oldest continuation, or open
\* it.  A pool that refuses tasks makes it drop the continuations.
FinishExecution(j) ==
    /\ jobs[j].phase = "finish"
    /\ \/ /\ pending # <<>> /\ PoolAccepting
          /\ jobs' = [jobs EXCEPT ![j] = QueuedJob(Head(pending))]
          /\ pending' = Tail(pending)
          /\ UNCHANGED active
       \/ /\ pending = <<>> \/ ~PoolAccepting
          /\ jobs' = [jobs EXCEPT ![j] = FreeJob]
          /\ pending' = <<>>
          /\ active' = FALSE
    /\ UNCHANGED <<pool, commVars, awaitVars, op, sender, boundVars, histVars>>

\* run_slot_await_work: the application's work closure runs.
StartWork(j) ==
    /\ jobs[j].phase = "queued" /\ jobs[j].kind = "WORK"
    /\ WorkerIdle
    /\ jobs' = [jobs EXCEPT ![j].phase = "work"]
    /\ UNCHANGED <<pool, commVars, awaitVars, active, pending, op, sender,
                   boundVars, histVars>>

\* The work is over (exceptions are contained); read the slot's generation.
WorkReturns(j) ==
    /\ jobs[j].phase = "work"
    /\ CommLockFree
    /\ jobs' = [jobs EXCEPT ![j].phase = "settle",
                            ![j].seen = CurrentGeneration]
    /\ UNCHANGED <<pool, commVars, awaitVars, active, pending, op, sender,
                   boundVars, histVars>>

\* Mutant: generations are not compared.
AwaitMatchesAny(j) == await_pending

\* The pending await is the one this work was submitted for, as far as the
\* code can tell.
AwaitMatches(j) ==
    await_pending /\ await_generation = jobs[j].gen /\ jobs[j].seen = jobs[j].gen

\* Take the resume closure and submit it, or turn to discard_slot_await.
SettleAwait(j) ==
    /\ jobs[j].phase = "settle"
    /\ \/ /\ AwaitMatches(j)
          /\ jobs' = [jobs EXCEPT ![j] =
                        Job("queued", "RESUME", jobs[j].gen, await_resume)]
          /\ await_pending' = FALSE
          /\ await_generation' = 0
          /\ await_resume' = NoClosure
          /\ UNCHANGED await_requested
       \/ /\ ~AwaitMatches(j)
          /\ jobs' = [jobs EXCEPT ![j].phase = "discard"]
          /\ UNCHANGED awaitVars
    /\ UNCHANGED <<pool, commVars, active, pending, op, sender, boundVars,
                   histVars>>

\* Mutant: the generation of the recorded await is not compared.
DiscardsAny(j) == await_requested \/ await_pending

\* The slot still records an await of this work's generation.
Discards(j) ==
    (await_requested \/ await_pending) /\ await_generation = jobs[j].gen

\* discard_slot_await
DiscardAwait(j) ==
    /\ jobs[j].phase = "discard"
    /\ \/ /\ Discards(j)
          /\ ClearAwait
          /\ jobs' = [jobs EXCEPT ![j] =
                        Job("finish", "WORK", 0, NoClosure)]
       \/ /\ ~Discards(j)
          /\ jobs' = [jobs EXCEPT ![j] = FreeJob]
          /\ UNCHANGED awaitVars
    /\ UNCHANGED <<pool, commVars, active, pending, op, sender, boundVars,
                   histVars>>

\* run_slot_await_resume: invoke the closure, or destroy it if the slot has
\* moved on.
StartResume(j) ==
    /\ jobs[j].phase = "queued" /\ jobs[j].kind = "RESUME"
    /\ WorkerIdle /\ CommLockFree
    /\ jobs' = IF CurrentGeneration = jobs[j].gen
               THEN [jobs EXCEPT ![j].phase = "hook"]
               ELSE [jobs EXCEPT ![j].phase = "finalize",
                                 ![j].closure = NoClosure]
    /\ UNCHANGED <<pool, commVars, awaitVars, active, pending, op, sender,
                   boundVars, histVars>>

-----------------------------------------------------------------------------
(* Shutdown: mudmux_run leaves its loop, waits for the disconnect hooks,   *)
(* stops the workers and removes every slot; a later run starts again.     *)

StopAdmission ==
    /\ CommLockFree /\ pool = "up"
    /\ occupied => closing /\ ~awaiting_hook /\ ~disconnect_pending /\ ~SlotBusy
    /\ pool' = "stopping"
    /\ UNCHANGED <<commVars, awaitVars, gateVars, op, sender, boundVars,
                   histVars>>

StopPool ==
    /\ pool = "stopping"
    /\ pool' = "joining"
    /\ UNCHANGED <<commVars, awaitVars, gateVars, op, sender, boundVars,
                   histVars>>

\* Every worker has exited: slot_states.clear(), comm_abstract_remove_all().
JoinWorkers ==
    /\ pool = "joining"
    /\ \A j \in Jobs : jobs[j].phase = "free"
    /\ CommLockFree /\ sender.pc = "idle"
    /\ pool' = "down"
    /\ occupied' = FALSE /\ generation' = 0
    /\ closing' = FALSE /\ disconnect_pending' = FALSE
    /\ awaiting_hook' = FALSE /\ transport_ready' = FALSE
    /\ active' = FALSE /\ pending' = <<>>
    /\ ClearAwait
    /\ lines' = 0 /\ sends' = MaxSends /\ awaits' = MaxAwaits
    /\ cancelled' = {} /\ thrown' = FALSE
    /\ UNCHANGED <<jobs, op, sender, disconnects>>

WorkersStart ==
    /\ pool = "down"
    /\ pool' = "up"
    /\ UNCHANGED <<commVars, awaitVars, gateVars, op, sender, boundVars,
                   histVars>>

-----------------------------------------------------------------------------
JobStep(j) ==
    \/ StartExecution(j) \/ HookReturns(j) \/ CompleteConnect(j)
    \/ CompleteHook(j) \/ AwaitRecord(j) \/ FinalizeAwait(j)
    \/ FinishExecution(j) \/ StartWork(j) \/ WorkReturns(j) \/ SettleAwait(j)
    \/ DiscardAwait(j) \/ StartResume(j)

CommStep ==
    InboundDispatch \/ CloseFinish \/ CloseDispatch \/ ReadyDispatch

ApplicationStep ==
    \/ \E by \in Callers : CloseRequest(by) \/ SendMessage(by)
    \/ \E j \in Jobs : AwaitCall(j) \/ HookThrows(j)

LifecycleStep ==
    Accept \/ StopAdmission \/ StopPool \/ JoinWorkers \/ WorkersStart

Next ==
    \/ \E j \in Jobs : JobStep(j)
    \/ CommStep \/ SendEnqueue \/ ParseInput \/ Teardown
    \/ ApplicationStep
    \/ LifecycleStep

Spec == Init /\ [][Next]_vars

\* Hooks and work closures return, and the pool runs every accepted task.  A
\* worker or the loop that keeps asking for comm_slots_mtx gets it (strong
\* fairness: other calls take the mutex in between, but the loop blocks in
\* async_runtime_wait between its own).  Each finished task wakes the loop,
\* which drives closing slots; peers drain or drop.  Input need not arrive.
Fairness ==
    /\ \A j \in Jobs : SF_vars(JobStep(j))
    /\ WF_vars(CommStep)
    /\ WF_vars(SendEnqueue)
    /\ SF_vars(Teardown)
    /\ SF_vars(RetryClose)

FairSpec == Spec /\ Fairness

-----------------------------------------------------------------------------
(* Who holds the gate.                                                     *)

\* The work closure of the await that is pending now.
AwaitOwner(j) ==
    /\ jobs[j].kind = "WORK" /\ jobs[j].phase # "free"
    /\ await_pending /\ await_resume = jobs[j].closure

\* Job j is the one execution the slot is held for.
Owner(j) ==
    \/ jobs[j].phase # "free" /\ jobs[j].kind \in SlotHooks \cup {"RESUME"}
    \/ jobs[j].phase = "finish"
    \/ AwaitOwner(j)

-----------------------------------------------------------------------------
(* Properties.                                                             *)

FlagTypeOK ==
    /\ occupied \in BOOLEAN
    /\ closing \in BOOLEAN /\ disconnect_pending \in BOOLEAN
    /\ awaiting_hook \in BOOLEAN /\ transport_ready \in BOOLEAN
    /\ active \in BOOLEAN
    /\ await_requested \in BOOLEAN /\ await_pending \in BOOLEAN
    /\ thrown \in BOOLEAN

GateTypeOK ==
    /\ pending \in Seq(Tasks) /\ Len(pending) <= BacklogCapacity
    /\ jobs \in [Jobs -> JobStates]

AwaitTypeOK ==
    /\ await_generation \in Generations
    /\ await_resume \in Closures \cup {NoClosure}

CallTypeOK ==
    /\ op \in [pc : {"idle", "inbound", "ready", "close_finish",
                     "close_dispatch"},
               by : Jobs \cup {Outside}]
    /\ sender \in [pc : {"idle", "enqueue"}, by : Jobs \cup {Outside},
                   gen : Generations]

CountTypeOK ==
    /\ pool \in {"up", "stopping", "joining", "down"}
    /\ generation \in Generations
    /\ lines \in 0 .. MaxLines
    /\ op.pc = "inbound" => lines > 0
    /\ sends \in 0 .. MaxSends /\ awaits \in 0 .. MaxAwaits
    /\ cancelled \subseteq Generations /\ disconnects \in Nat

\* Every variable has its type, and the continuation queue respects
\* transport.thread_pool.backlog_capacity.
TypeOK ==
    FlagTypeOK /\ GateTypeOK /\ AwaitTypeOK /\ CallTypeOK /\ CountTypeOK

\* mudmux never calls logic for two events of the slot at the same time: at
\* most one hook or resume closure of the slot executes (docs/workers.md).
MutualExclusion ==
    \A i, j \in Jobs : InHook(i) /\ InHook(j) => i = j

\* The gate is never opened under its holder and, as long as no hook throws,
\* never orphaned: it is held exactly while one execution, or a comm_close
\* that cancelled an await, is going to release it; continuations wait only
\* behind a held gate.
GateHeld ==
    /\ (op.pc = "close_finish" \/ \E j \in Jobs : Owner(j)) => active
    /\ active /\ ~thrown => (op.pc = "close_finish" \/ \E j \in Jobs : Owner(j))
    /\ pending # <<>> => active

\* C_AWAITING_HOOK pauses input and close; while it is set, some lifecycle
\* hook of the connection is still going to clear it (unless a hook threw).
AwaitingHookHasCompletion ==
    awaiting_hook /\ ~thrown =>
        \/ op.pc = "ready"
        \/ \E j \in Jobs : /\ jobs[j].kind \in LifecycleHooks
                           /\ jobs[j].gen = generation
                           /\ jobs[j].phase \in {"queued", "hook", "await",
                                                "complete"}
        \/ \E k \in 1 .. Len(pending) :
              pending[k].kind \in LifecycleHooks /\ pending[k].gen = generation

\* The generation check between invoke() and complete() is not stale when the
\* completion runs: a lifecycle completion acts on its own connection.
CompletionOwnsSlot ==
    \A j \in Jobs : jobs[j].phase = "complete" =>
                       occupied /\ jobs[j].gen = generation

\* A resume closure is never submitted before the work it waits for is over.
ResumeAfterWork ==
    \A i, j \in Jobs :
        /\ jobs[i].kind = "RESUME" /\ jobs[i].closure # NoClosure
        /\ jobs[j].kind = "WORK"
        => jobs[i].closure # jobs[j].closure

\* A connection's slot is given up only after its disconnect hook began
\* exactly once, whatever raced with the close (full queue, awaits, shutdown).
OneDisconnectPerConnection ==
    [][occupied /\ ~occupied' => disconnects = 1]_vars

\* While its disconnect hook is queued or executing the slot stays allocated
\* and is not reused (docs/hooks/HOOK_DISCONNECT.md).
DisconnectPinsSlot ==
    \A j \in Jobs :
        jobs[j].kind = "DISCONNECT" /\ jobs[j].phase \in {"queued", "hook"}
            => occupied /\ jobs[j].gen = generation

\* Stopping the pool leaves no await behind: every work and resume closure
\* was consumed before slot_states is cleared, as long as no hook threw.
StopConsumesAwaits ==
    [][pool = "joining" /\ pool' = "down" /\ ~thrown
         => ~await_requested /\ ~await_pending /\ pending = <<>>]_vars

\* A requested close always completes: the slot is removed.
CloseCompletes == closing ~> ~occupied

\* A held gate is eventually opened.
GateOpens == active ~> ~active

-----------------------------------------------------------------------------
(* The inductive invariant behind MutualExclusion and GateHeld.            *)

\* Phases a task of each kind passes through.
JobShape ==
    \A j \in Jobs :
        /\ jobs[j].kind = "NONE" <=> jobs[j].phase = "free"
        /\ jobs[j].kind \in SlotHooks \cup {"RESUME"} =>
              jobs[j].phase \in {"queued", "hook", "await", "complete",
                                "finalize", "finish"}
        /\ jobs[j].kind = "WORK" =>
              \/ /\ jobs[j].phase \in {"queued", "work", "settle", "discard"}
                 /\ jobs[j].closure \in Closures
              \/ jobs[j].phase = "finish" /\ jobs[j].closure = NoClosure

\* The gate has one owner at most, and none while comm_close finishes it.
OwnerUnique ==
    /\ \A i, j \in Jobs : Owner(i) /\ Owner(j) => i = j
    /\ op.pc = "close_finish" => active /\ \A j \in Jobs : ~Owner(j)

\* A recorded await has a closure no other work carries; a pending one has its
\* work among the tasks, submitted for the same generation.
AwaitRecorded ==
    /\ await_requested \/ await_pending => await_resume \in Closures
    /\ await_requested => /\ ~await_pending
                          /\ \A j \in Jobs : jobs[j].kind = "WORK" =>
                                              jobs[j].closure # await_resume
    /\ await_pending => \E j \in Jobs : AwaitOwner(j)
    /\ \A j \in Jobs : AwaitOwner(j) => jobs[j].gen = await_generation

\* Work whose await is gone belongs to a generation in which comm_close
\* cancelled one, and such a generation records no further await.
StaleWorkCancelled ==
    /\ \A j \in Jobs :
          jobs[j].kind = "WORK" /\ jobs[j].phase # "finish" =>
              AwaitOwner(j) \/ jobs[j].gen \in cancelled
    /\ await_requested \/ await_pending => await_generation \notin cancelled
    /\ \A j \in Jobs : jobs[j].phase = "await" => jobs[j].seen \notin cancelled

\* What every step of an application that does not await again on a connection
\* with a cancelled await preserves.
GateInvariant ==
    JobShape /\ OwnerUnique /\ GateHeld /\ AwaitRecorded /\ StaleWorkCancelled
=============================================================================
