----------------------------- MODULE WorkerPool -----------------------------
(***************************************************************************)
(* The worker thread pool (src/lib/async/thread_pool.cpp), its start and   *)
(* stop, and the detached work it runs with the serialized completion lane *)
(* (src/src/execution.cpp).                                                *)
(*                                                                         *)
(* Each critical section of async_thread_pool_t::mutex_ and of             *)
(* detached_completion_mutex is one step.  One thread of the application   *)
(* starts and stops the workers.  The other tasks of the pool (slot        *)
(* executions and events) are left out, and so is the OK or FAILED message *)
(* that tells a completion whether its work threw.                         *)
(***************************************************************************)
EXTENDS Naturals, Sequences, FiniteSets

CONSTANTS
    Threads,    \* worker threads of a started pool
    Pairs,      \* (work, completion) closures offered to mudmux_workers_submit
    NoPair      \* a thread that holds no closure

ASSUME PoolAssumption == Threads # {} /\ NoPair \notin Pairs

VARIABLES
    running,        \* execution_state.running
    stopping,       \* stopping_
    live,           \* workers_ is not empty
    tasks,          \* tasks_
    thread,         \* what each worker thread is doing
    lifecycle,      \* progress of mudmux_workers_start or mudmux_workers_stop
    submitting,     \* pairs in mudmux_workers_submit, past the running check
    lane_active,    \* detached_completion_active
    lane_pending,   \* pending_detached_completions
    stage           \* how far each pair has got

laneVars  == <<lane_active, lane_pending>>
startVars == <<running, stopping, live, lifecycle>>
vars == <<startVars, tasks, thread, submitting, laneVars, stage>>

-----------------------------------------------------------------------------
\* detached_work_t and detached_completion_t, as submitted to the pool.
PoolTasks == [kind : {"work", "completion"}, pair : Pairs]

\* What a thread that holds a closure is doing: running it, or between two
\* critical sections of the completion lane.
BusyPCs == {"work", "schedule", "hand_over", "completion"}

Thread(pc, p) == [pc |-> pc, pair |-> p]
Absent  == Thread("absent", NoPair)
Ready   == Thread("ready", NoPair)
Waiting == Thread("waiting", NoPair)

At(pc) == {t \in Threads : thread[t].pc = pc}

Init ==
    /\ running = FALSE /\ stopping = FALSE /\ live = FALSE
    /\ tasks = <<>>
    /\ thread = [t \in Threads |-> Absent]
    /\ lifecycle = "stopped"
    /\ submitting = {}
    /\ lane_active = FALSE /\ lane_pending = <<>>
    /\ stage = [p \in Pairs |-> "application"]

-----------------------------------------------------------------------------
(* async_thread_pool_t                                                     *)

\* submit() returns false.
Refuses == stopping \/ ~live

\* Mutant: submit() does not notify.
SubmitForgetsNotify(task, others) ==
    tasks' = Append(tasks, task) /\ thread' = others

\* submit() accepts a task and calls notify_one; `others' are the threads
\* after the caller's own move.
Submit(task, others) ==
    /\ tasks' = Append(tasks, task)
    /\ \/ At("waiting") = {} /\ thread' = others
       \/ \E w \in At("waiting") : thread' = [others EXCEPT ![w] = Ready]

\* Mutant: a stopping pool does not drain its queue.
ExitsAtOnce == stopping

\* worker_loop returns only when the queue is drained.
Exits == stopping /\ tasks = <<>>

\* worker_loop takes the oldest task, blocks, or returns.
Take(t) ==
    /\ thread[t] = Ready
    /\ \/ /\ Exits
          /\ thread' = [thread EXCEPT ![t] = Absent]
          /\ UNCHANGED <<tasks, stage>>
       \/ /\ ~Exits /\ tasks = <<>>
          /\ thread' = [thread EXCEPT ![t] = Waiting]
          /\ UNCHANGED <<tasks, stage>>
       \/ /\ ~Exits /\ tasks # <<>>
          /\ LET task == Head(tasks) IN
                /\ thread' = [thread EXCEPT ![t] = Thread(task.kind, task.pair)]
                /\ stage' = IF task.kind = "completion"
                            THEN [stage EXCEPT ![task.pair] = "running"]
                            ELSE stage
          /\ tasks' = Tail(tasks)
    /\ UNCHANGED <<startVars, submitting, laneVars>>

\* A spurious wake-up: the predicate of condition_.wait is tested again.
WakeUp(t) ==
    /\ thread[t] = Waiting
    /\ thread' = [thread EXCEPT ![t] = Ready]
    /\ UNCHANGED <<startVars, tasks, submitting, laneVars, stage>>

-----------------------------------------------------------------------------
(* Detached work and its completion lane.                                  *)

\* mudmux_workers_submit finds execution_state.running set.
SubmitCheck(p) ==
    /\ stage[p] = "application" /\ p \notin submitting
    /\ running
    /\ submitting' = submitting \cup {p}
    /\ UNCHANGED <<startVars, tasks, thread, laneVars, stage>>

\* It hands the pair to the pool; a refusal leaves it to the application.
SubmitWork(p) ==
    /\ p \in submitting
    /\ submitting' = submitting \ {p}
    /\ \/ /\ Refuses
          /\ UNCHANGED <<tasks, thread, stage>>
       \/ /\ ~Refuses
          /\ Submit([kind |-> "work", pair |-> p], thread)
          /\ stage' = [stage EXCEPT ![p] = "accepted"]
    /\ UNCHANGED <<startVars, laneVars>>

\* run_detached_work: the work closure returns or throws.
WorkReturns(t) ==
    /\ thread[t].pc = "work"
    /\ thread' = [thread EXCEPT ![t].pc = "schedule"]
    /\ UNCHANGED <<startVars, tasks, submitting, laneVars, stage>>

\* Mutant: a completion does not wait for the one before it.
LaneTakenNever == FALSE

\* schedule_detached_completion finds a completion in progress.
LaneTaken == lane_active

\* The critical section of schedule_detached_completion.
Schedule(t) ==
    /\ thread[t].pc = "schedule"
    /\ \/ /\ LaneTaken
          /\ lane_pending' = Append(lane_pending, thread[t].pair)
          /\ thread' = [thread EXCEPT ![t] = Ready]
          /\ UNCHANGED lane_active
       \/ /\ ~LaneTaken
          /\ lane_active' = TRUE
          /\ thread' = [thread EXCEPT ![t].pc = "hand_over"]
          /\ UNCHANGED lane_pending
    /\ stage' = [stage EXCEPT ![thread[t].pair] = "due"]
    /\ UNCHANGED <<startVars, tasks, submitting>>

\* The completion becomes a task of its own or, when the pool refuses it, runs
\* at once on this thread.
HandOver(t) ==
    /\ thread[t].pc = "hand_over"
    /\ \/ /\ Refuses
          /\ thread' = [thread EXCEPT ![t].pc = "completion"]
          /\ stage' = [stage EXCEPT ![thread[t].pair] = "running"]
          /\ UNCHANGED tasks
       \/ /\ ~Refuses
          /\ Submit([kind |-> "completion", pair |-> thread[t].pair],
                    [thread EXCEPT ![t] = Ready])
          /\ UNCHANGED stage
    /\ UNCHANGED <<startVars, submitting, laneVars>>

\* run_detached_completion: the completion closure returns or throws.
CompletionReturns(t) ==
    /\ thread[t].pc = "completion"
    /\ stage' = [stage EXCEPT ![thread[t].pair] = "done"]
    /\ thread' = [thread EXCEPT ![t] = Thread("next", NoPair)]
    /\ UNCHANGED <<startVars, tasks, submitting, laneVars>>

\* Mutant: the completion is read and left in the queue.
PendingAfterPopKept == lane_pending

\* pending_detached_completions after pop_front.
PendingAfterPop == Tail(lane_pending)

\* Its critical section: release the lane or take the oldest completion.
LaneNext(t) ==
    /\ thread[t].pc = "next"
    /\ \/ /\ lane_pending = <<>>
          /\ lane_active' = FALSE
          /\ thread' = [thread EXCEPT ![t] = Ready]
          /\ UNCHANGED lane_pending
       \/ /\ lane_pending # <<>>
          /\ thread' = [thread EXCEPT ![t] = Thread("hand_over", Head(lane_pending))]
          /\ lane_pending' = PendingAfterPop
          /\ UNCHANGED lane_active
    /\ UNCHANGED <<startVars, tasks, submitting, stage>>

-----------------------------------------------------------------------------
(* mudmux_workers_start and mudmux_workers_stop                            *)

\* running.exchange(true)
StartRunning ==
    /\ lifecycle = "stopped"
    /\ running' = TRUE
    /\ lifecycle' = "starting"
    /\ UNCHANGED <<stopping, live, tasks, thread, submitting, laneVars, stage>>

\* async_thread_pool_t::start creates every thread.
StartPool ==
    /\ lifecycle = "starting"
    /\ stopping' = FALSE /\ live' = TRUE
    /\ thread' = [t \in Threads |-> Ready]
    /\ lifecycle' = "started"
    /\ UNCHANGED <<running, tasks, submitting, laneVars, stage>>

\* Only some threads could be created: it stops them.
StartPoolFails ==
    /\ lifecycle = "starting"
    /\ stopping' = TRUE
    /\ \E created \in SUBSET Threads :
          /\ created # Threads
          /\ thread' = [t \in Threads |-> IF t \in created THEN Ready ELSE Absent]
    /\ lifecycle' = "start_failed"
    /\ UNCHANGED <<running, live, tasks, submitting, laneVars, stage>>

\* The created threads have been joined and mudmux_workers_start fails.
StartUndone ==
    /\ lifecycle = "start_failed"
    /\ At("absent") = Threads
    /\ tasks' = <<>>
    /\ running' = FALSE
    /\ lifecycle' = "stopped"
    /\ UNCHANGED <<stopping, live, thread, submitting, laneVars, stage>>

\* mudmux_workers_stop, on running workers or on none.
StopRunning ==
    /\ lifecycle \in {"started", "stopped"}
    /\ running' = FALSE
    /\ lifecycle' = "stop_pool"
    /\ UNCHANGED <<stopping, live, tasks, thread, submitting, laneVars, stage>>

\* The first section of async_thread_pool_t::stop.
StopPool ==
    /\ lifecycle = "stop_pool"
    /\ stopping' = TRUE /\ live' = FALSE
    /\ lifecycle' = IF live THEN "stop_notify" ELSE "clearing"
    /\ UNCHANGED <<running, tasks, thread, submitting, laneVars, stage>>

\* Mutant: stop() does not wake the blocked threads.
StopNotifyNobody ==
    /\ lifecycle = "stop_notify"
    /\ lifecycle' = "joining"
    /\ UNCHANGED <<running, stopping, live, tasks, thread, submitting,
                   laneVars, stage>>

\* condition_.notify_all, outside the mutex.
StopNotify ==
    /\ lifecycle = "stop_notify"
    /\ thread' = [t \in Threads |->
                    IF thread[t] = Waiting THEN Ready ELSE thread[t]]
    /\ lifecycle' = "joining"
    /\ UNCHANGED <<running, stopping, live, tasks, submitting, laneVars, stage>>

\* Every thread has been joined; the remaining tasks are dropped.
StopJoined ==
    /\ lifecycle = "joining"
    /\ At("absent") = Threads
    /\ tasks' = <<>>
    /\ lifecycle' = "clearing"
    /\ UNCHANGED <<running, stopping, live, thread, submitting, laneVars, stage>>

\* The last section of mudmux_workers_stop; the completions still in the
\* queue are destroyed.
StopClear ==
    /\ lifecycle = "clearing"
    /\ lane_active' = FALSE
    /\ lane_pending' = <<>>
    /\ stage' = [p \in Pairs |->
                   IF \E k \in 1 .. Len(lane_pending) : lane_pending[k] = p
                   THEN "destroyed" ELSE stage[p]]
    /\ lifecycle' = "stopped"
    /\ UNCHANGED <<running, stopping, live, tasks, thread, submitting>>

-----------------------------------------------------------------------------
ThreadStep(t) ==
    \/ Take(t) \/ WorkReturns(t) \/ Schedule(t) \/ HandOver(t)
    \/ CompletionReturns(t) \/ LaneNext(t)

\* What mudmux_workers_stop does once it has been called.
StopStep == StopPool \/ StopNotify \/ StopJoined \/ StopClear

Next ==
    \/ \E t \in Threads : ThreadStep(t) \/ WakeUp(t)
    \/ \E p \in Pairs : SubmitCheck(p) \/ SubmitWork(p)
    \/ StartRunning \/ StartPool \/ StartPoolFails \/ StartUndone
    \/ StopRunning \/ StopStep

Spec == Init /\ [][Next]_vars

\* Threads get to run and closures return; a call of mudmux_workers_stop goes
\* on, and so does the stop() inside a start that failed.  Nothing obliges the application to submit, start or stop, and no
\* spurious wake-up is counted on.
Fairness ==
    /\ \A t \in Threads : WF_vars(ThreadStep(t))
    /\ WF_vars(StopStep) /\ WF_vars(StartUndone)

FairSpec == Spec /\ Fairness

-----------------------------------------------------------------------------
(* Properties.                                                             *)

\* Every variable has its type.
TypeOK ==
    /\ running \in BOOLEAN /\ stopping \in BOOLEAN /\ live \in BOOLEAN
    /\ tasks \in Seq(PoolTasks)
    /\ thread \in [Threads -> {Absent, Ready, Waiting, Thread("next", NoPair)}
                                \cup [pc : BusyPCs, pair : Pairs]]
    /\ lifecycle \in {"stopped", "starting", "started", "start_failed",
                      "stop_pool", "stop_notify", "joining", "clearing"}
    /\ submitting \subseteq Pairs
    /\ lane_active \in BOOLEAN /\ lane_pending \in Seq(Pairs)
    /\ stage \in [Pairs -> {"application", "accepted", "due", "running",
                            "done", "destroyed"}]

\* The places that hold a closure of pair p.
Holders(p) ==
    {<<"task", k>> : k \in {i \in 1 .. Len(tasks) : tasks[i].pair = p}}
    \cup {<<"thread", t>> : t \in {u \in Threads : thread[u].pair = p}}
    \cup {<<"lane", k>> : k \in {i \in 1 .. Len(lane_pending) : lane_pending[i] = p}}

\* The owner of a closure invokes or destroys it exactly once: from its
\* acceptance to the end of its completion a pair is held in exactly one
\* place (the task queue, a thread or the lane), and in none before or after.
SingleOwner ==
    /\ TypeOK
    /\ \A p \in Pairs :
          Cardinality(Holders(p)) =
              IF stage[p] \in {"accepted", "due", "running"} THEN 1 ELSE 0

\* The completions owed, the oldest first: the one the lane is busy with, then
\* the queue.
InLane(p) ==
    \/ \E t \in Threads : thread[t] \in {Thread("hand_over", p), Thread("completion", p)}
    \/ \E k \in 1 .. Len(tasks) : tasks[k] = [kind |-> "completion", pair |-> p]

laneBar ==
    IF \E p \in Pairs : InLane(p)
    THEN <<CHOOSE p \in Pairs : InLane(p)>> \o lane_pending
    ELSE lane_pending

Abstract == INSTANCE DetachedWork WITH lane <- laneBar

\* The pool and the lane implement DetachedWork: an accepted pair is run once,
\* completions run one at a time in the order in which their work ended, and
\* none is lost or destroyed, whatever mudmux_workers_stop races with.
CompletionsSerialized == Abstract!Spec

\* mudmux_workers_stop waits for detached work and its completions: when it
\* returns no accepted pair is left behind (docs/workers.md).
StopRunsEverything ==
    lifecycle = "stopped" =>
        \A p \in Pairs : stage[p] \in {"application", "done"}

\* Every accepted pair has its completion run: no wake-up is lost.
AcceptedCompletes ==
    \A p \in Pairs : stage[p] = "accepted" ~> stage[p] = "done"

\* A call of mudmux_workers_stop returns, and so does a mudmux_workers_start that
\* could create only some of its threads.
StopReturns == lifecycle \in {"stop_pool", "start_failed"} ~> lifecycle = "stopped"
=============================================================================
