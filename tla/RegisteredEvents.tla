-------------------------- MODULE RegisteredEvents --------------------------
(***************************************************************************)
(* Registered async events and the timer (src/src/mudmux.cpp,              *)
(* src/src/execution.cpp): signals and timer flags published by any        *)
(* thread, collected by the event loop and delivered to a hook, on a       *)
(* worker (relaxed mode) or inline (strict mode).                          *)
(*                                                                         *)
(* Each atomic operation on timer_pending_flags and each critical section  *)
(* of an event (state_mutex) or of the scheduler (event_mutex) is a step.  *)
(* Every registration has a hook.                                          *)
(***************************************************************************)
EXTENDS Naturals, FiniteSets

CONSTANTS
    Timer,          \* the registration of timer_event
    AutoReset,      \* application registrations of auto-reset events
    ManualReset,    \* application registrations of manual-reset events
    Flags,          \* bits of mudmux_trigger_timer
    MaxSignals      \* bound: calls of mudmux_trigger_timer and event_set

ASSUME EventAssumption ==
    /\ Timer \notin AutoReset \cup ManualReset
    /\ AutoReset \cap ManualReset = {}
    /\ IsFiniteSet(Flags) /\ Flags # {}
    /\ MaxSignals \in Nat

VARIABLES
    strict,         \* MUDMUX_DETERMINISM_STRICT
    signaled,       \* EventImpl::signaled
    mask,           \* timer_pending_flags
    publishing,     \* mudmux_trigger_timer calls between their two steps
    pending,        \* event_registration_t::pending
    in_flight,      \* event_in_flight
    loop,           \* where the event loop is
    todo,           \* registrations left in this pass of the loop
    wakeup,         \* the wake-up descriptor of the runtime is readable
    shutting_down,  \* is_shutting_down
    pool,           \* life cycle of the worker pool
    tasks,          \* event executions accepted by the pool
    signals,        \* bound still to be used
    owed_flags,     \* history: flags no hook has begun with
    owed            \* history: registrations signalled since their hook began

publishVars == <<mask, publishing, signals>>
lifeVars    == <<strict, shutting_down, pool>>
histVars    == <<owed_flags, owed>>
vars == <<lifeVars, signaled, publishVars, pending, in_flight, loop, todo,
          wakeup, tasks, histVars>>

-----------------------------------------------------------------------------
Applications  == AutoReset \cup ManualReset
Registrations == {Timer} \cup Applications

\* timer_event is a manual-reset event.
IsManualReset(r) == r = Timer \/ r \in ManualReset

\* run_event_execution: waiting, in the hook, leaving the registration scope,
\* about to wake the loop.
TaskPhases == {"queued", "hook", "release", "wake"}

EventTask(r, batch, phase) == [reg |-> r, batch |-> batch, phase |-> phase]

At(pc, pass) == [pc |-> pc, pass |-> pass, reg |-> Timer, batch |-> {}]

\* dispatch_registered_event returns to the pass it was called from.
Return == At("pick", loop.pass)

PoolRunning   == pool = "up"                 \* execution_state.running
PoolAccepting == pool \in {"up", "stopping"} \* worker_pool.submit succeeds

\* Mutant: the loop is not woken.
WokenNot == wakeup

\* The wake-up descriptor after async_runtime_wakeup.
WokenUp == TRUE

Init ==
    /\ strict \in BOOLEAN
    /\ signaled = [r \in Registrations |-> FALSE]
    /\ mask = {} /\ publishing = 0
    /\ pending = [r \in Registrations |-> FALSE]
    /\ in_flight = [r \in Registrations |-> 0]
    /\ loop = At("check", "events") /\ todo = {}
    /\ wakeup = FALSE /\ shutting_down = FALSE
    /\ pool = "up" /\ tasks = {}
    /\ signals = MaxSignals
    /\ owed_flags = {} /\ owed = {}

-----------------------------------------------------------------------------
(* Producers.                                                              *)

\* mudmux_trigger_timer, its fetch_or.
TriggerTimer ==
    /\ signals > 0
    /\ \E flags \in SUBSET Flags \ {{}} :
          /\ mask' = mask \cup flags
          /\ owed_flags' = owed_flags \cup flags
    /\ publishing' = publishing + 1
    /\ signals' = signals - 1
    /\ UNCHANGED <<lifeVars, signaled, pending, in_flight, loop, todo, wakeup,
                   tasks, owed>>

\* mudmux_trigger_timer, its async_event_set.
TriggerTimerSet ==
    /\ publishing > 0
    /\ publishing' = publishing - 1
    /\ signaled' = [signaled EXCEPT ![Timer] = TRUE]
    /\ UNCHANGED <<lifeVars, mask, signals, pending, in_flight, loop, todo,
                   wakeup, tasks, histVars>>

\* The application sets an event; the timer's one without flags, too.
SetEvent(r) ==
    /\ signals > 0
    /\ signals' = signals - 1
    /\ signaled' = [signaled EXCEPT ![r] = TRUE]
    /\ owed' = owed \cup ({r} \ {Timer})
    /\ UNCHANGED <<lifeVars, mask, publishing, pending, in_flight, loop, todo,
                   wakeup, tasks, owed_flags>>

-----------------------------------------------------------------------------
(* The event loop.                                                         *)

CheckShutdown ==
    /\ loop.pc = "check"
    /\ loop' = At(IF shutting_down THEN "exited" ELSE "wait", "events")
    /\ UNCHANGED <<lifeVars, signaled, publishVars, pending, in_flight, todo,
                   wakeup, tasks, histVars>>

\* async_runtime_wait returns, for a signal, a wake-up or socket input.  It
\* consumes the wake-up and the auto-reset signals it reports.
WaitReturns ==
    /\ loop.pc = "wait"
    /\ todo' = {r \in Registrations : signaled[r]}
    /\ signaled' = [r \in Registrations |-> signaled[r] /\ IsManualReset(r)]
    /\ wakeup' = FALSE
    /\ loop' = At("pick", "events")
    /\ UNCHANGED <<lifeVars, publishVars, pending, in_flight, tasks, histVars>>

\* An event of the array: acknowledge it and retain the notification.
PickEvent(r) ==
    /\ loop = At("pick", "events") /\ r \in todo
    /\ todo' = todo \ {r}
    /\ signaled' = [signaled EXCEPT ![r] = @ /\ ~IsManualReset(r)]
    /\ pending' = [pending EXCEPT ![r] = TRUE]
    /\ loop' = [loop EXCEPT !.pc = "dispatch", !.reg = r]
    /\ UNCHANGED <<lifeVars, publishVars, in_flight, wakeup, tasks, histVars>>

\* The loop over the registrations that retries retained notifications.
PickRetry(r) ==
    /\ loop = At("pick", "retry") /\ r \in todo
    /\ todo' = todo \ {r}
    /\ loop' = [loop EXCEPT !.pc = "dispatch", !.reg = r]
    /\ UNCHANGED <<lifeVars, signaled, publishVars, pending, in_flight, wakeup,
                   tasks, histVars>>

PassEnds ==
    /\ loop.pc = "pick" /\ todo = {}
    /\ \/ loop.pass = "events" /\ todo' = Registrations /\ loop' = At("pick", "retry")
       \/ loop.pass = "retry" /\ todo' = {} /\ loop' = At("check", "events")
    /\ UNCHANGED <<lifeVars, signaled, publishVars, pending, in_flight, wakeup,
                   tasks, histVars>>

\* mudmux_execution_event_busy
Busy(r) == in_flight[r] > 0

\* dispatch_registered_event: leave a busy registration for a later pass.
DispatchCheck ==
    /\ loop.pc = "dispatch"
    /\ \/ /\ ~pending[loop.reg] \/ Busy(loop.reg)
          /\ loop' = Return
          /\ UNCHANGED pending
       \/ /\ pending[loop.reg] /\ ~Busy(loop.reg)
          /\ loop' = [loop EXCEPT !.pc = "reset"]
          /\ pending' = [pending EXCEPT ![loop.reg] = FALSE]
    /\ UNCHANGED <<lifeVars, signaled, publishVars, in_flight, todo, wakeup,
                   tasks, histVars>>

\* async_event_reset
DispatchReset ==
    /\ loop.pc = "reset"
    /\ signaled' = [signaled EXCEPT ![loop.reg] = FALSE]
    /\ loop' = [loop EXCEPT !.pc = IF loop.reg = Timer THEN "take" ELSE "admit"]
    /\ UNCHANGED <<lifeVars, publishVars, pending, in_flight, todo, wakeup,
                   tasks, histVars>>

\* Mutant: one flag of the mask is delivered, the others are cleared.
TakenFlagsOne == {CHOOSE f \in mask : TRUE}

\* The flags delivered together.
TakenFlags == mask

\* timer_pending_flags.exchange(0); nothing to deliver, nothing dispatched.
DispatchTake ==
    /\ loop.pc = "take"
    /\ mask' = {}
    /\ loop' = IF mask = {} THEN Return
               ELSE [loop EXCEPT !.pc = "admit", !.batch = TakenFlags]
    /\ UNCHANGED <<lifeVars, signaled, publishing, signals, pending, in_flight,
                   todo, wakeup, tasks, histVars>>

\* Mutant: the signal is acknowledged again, after the flags were taken.
DispatchAdmitAcknowledges ==
    /\ loop.pc = "admit" /\ PoolRunning
    /\ signaled' = [signaled EXCEPT ![loop.reg] = FALSE]
    /\ loop' = [loop EXCEPT !.pc = IF strict THEN "inline" ELSE "submit"]
    /\ in_flight' = [in_flight EXCEPT ![loop.reg] = @ + 1]
    /\ UNCHANGED <<lifeVars, publishVars, pending, todo, wakeup, tasks, histVars>>

\* mudmux_execution_dispatch: stopped workers make it drop the notification;
\* otherwise the registration is in flight.
DispatchAdmit ==
    /\ loop.pc = "admit"
    /\ \/ /\ ~PoolRunning
          /\ loop' = Return
          /\ UNCHANGED in_flight
       \/ /\ PoolRunning
          /\ loop' = [loop EXCEPT !.pc = IF strict THEN "inline" ELSE "submit"]
          /\ in_flight' = [in_flight EXCEPT ![loop.reg] = @ + 1]
    /\ UNCHANGED <<lifeVars, signaled, publishVars, pending, todo, wakeup,
                   tasks, histVars>>

\* release_event_registration_locked
Release(r) == [in_flight EXCEPT ![r] = IF @ > 0 THEN @ - 1 ELSE @]

\* Mutant: the dispatcher's scope is not disarmed and releases it, too.
InFlightAfterSubmitReleased(r) == Release(r)

\* event_in_flight once the worker owns the admission.
InFlightAfterSubmit(r) == in_flight

\* enqueue_event_execution for a timely event.
DispatchSubmit ==
    /\ loop.pc = "submit"
    /\ loop' = Return
    /\ \/ /\ PoolAccepting
          /\ tasks' = tasks \cup {EventTask(loop.reg, loop.batch, "queued")}
          /\ in_flight' = InFlightAfterSubmit(loop.reg)
          /\ UNCHANGED wakeup
       \/ /\ ~PoolAccepting
          /\ in_flight' = Release(loop.reg)
          /\ wakeup' = WokenUp
          /\ UNCHANGED tasks
    /\ UNCHANGED <<lifeVars, signaled, publishVars, pending, todo, histVars>>

\* The hook begins with this batch; flags published since remain owed.
Delivered(r, batch) ==
    /\ owed' = owed \ {r}
    /\ owed_flags' = (owed_flags \ batch) \cup mask

\* Strict mode: the hook runs on the loop.
InlineBegins ==
    /\ loop.pc = "inline"
    /\ Delivered(loop.reg, loop.batch)
    /\ loop' = [loop EXCEPT !.pc = "inline_hook", !.batch = {}]
    /\ UNCHANGED <<lifeVars, signaled, publishVars, pending, in_flight, todo,
                   wakeup, tasks>>

InlineEnds ==
    /\ loop.pc = "inline_hook"
    /\ in_flight' = Release(loop.reg)
    /\ wakeup' = WokenUp
    /\ loop' = Return
    /\ UNCHANGED <<lifeVars, signaled, publishVars, pending, todo, tasks,
                   histVars>>

-----------------------------------------------------------------------------
(* Workers: run_event_execution.                                           *)

\* Task t goes on to the given phase.
Moves(t, phase) == tasks' = (tasks \ {t}) \cup {EventTask(t.reg, {}, phase)}

HookBegins(t) ==
    /\ t.phase = "queued"
    /\ Delivered(t.reg, t.batch)
    /\ Moves(t, "hook")
    /\ UNCHANGED <<lifeVars, signaled, publishVars, pending, in_flight, loop,
                   todo, wakeup>>

\* The hook returns or throws; either way the scope is left.
HookEnds(t) ==
    /\ t.phase = "hook"
    /\ Moves(t, "release")
    /\ UNCHANGED <<lifeVars, signaled, publishVars, pending, in_flight, loop,
                   todo, wakeup, histVars>>

ReleaseRegistration(t) ==
    /\ t.phase = "release"
    /\ in_flight' = Release(t.reg)
    /\ Moves(t, "wake")
    /\ UNCHANGED <<lifeVars, signaled, publishVars, pending, loop, todo,
                   wakeup, histVars>>

WakeLoop(t) ==
    /\ t.phase = "wake"
    /\ wakeup' = WokenUp
    /\ tasks' = tasks \ {t}
    /\ UNCHANGED <<lifeVars, signaled, publishVars, pending, in_flight, loop,
                   todo, histVars>>

-----------------------------------------------------------------------------
(* Shutdown, and mudmux_workers_stop called by mudmux_run or, earlier, by  *)
(* the application.                                                        *)

Shutdown ==
    /\ ~shutting_down
    /\ shutting_down' = TRUE
    /\ wakeup' = WokenUp
    /\ UNCHANGED <<strict, pool, signaled, publishVars, pending, in_flight, loop,
                   todo, tasks, histVars>>

StopWorkers ==
    /\ \/ pool = "up" /\ pool' = "stopping"
       \/ pool = "stopping" /\ pool' = "joining"
       \/ pool = "joining" /\ tasks = {} /\ pool' = "down"
    /\ UNCHANGED <<strict, shutting_down, signaled, publishVars, pending,
                   in_flight, loop, todo, wakeup, tasks, histVars>>

\* mudmux_run returns.
RunReturns ==
    /\ loop.pc = "exited" /\ pool = "down"
    /\ loop' = At("returned", "events")
    /\ UNCHANGED <<lifeVars, signaled, publishVars, pending, in_flight, todo,
                   wakeup, tasks, histVars>>

-----------------------------------------------------------------------------
DispatchStep ==
    \/ DispatchCheck \/ DispatchReset \/ DispatchTake \/ DispatchAdmit
    \/ DispatchSubmit \/ InlineBegins \/ InlineEnds

LoopStep ==
    \/ CheckShutdown \/ PassEnds \/ DispatchStep \/ RunReturns
    \/ \E r \in Registrations : PickEvent(r) \/ PickRetry(r)

TaskStep ==
    \E t \in tasks : HookBegins(t) \/ HookEnds(t) \/ ReleaseRegistration(t) \/ WakeLoop(t)

ProducerStep ==
    TriggerTimer \/ TriggerTimerSet \/ \E r \in Registrations : SetEvent(r)

Next ==
    \/ LoopStep \/ WaitReturns \/ TaskStep \/ ProducerStep
    \/ Shutdown \/ StopWorkers

Spec == Init /\ [][Next]_vars

\* The wait returns when something it waits for is readable.
Woken == (wakeup \/ \E r \in Registrations : signaled[r]) /\ WaitReturns

\* Threads get to run, hooks return, a trigger call that began goes on, and
\* mudmux_run stops the workers once its loop is over.
Fairness ==
    /\ WF_vars(LoopStep) /\ WF_vars(Woken) /\ WF_vars(TaskStep)
    /\ WF_vars(TriggerTimerSet)
    /\ WF_vars(loop.pc = "exited" /\ StopWorkers)

FairSpec == Spec /\ Fairness

-----------------------------------------------------------------------------
(* Properties.                                                             *)

\* Every variable has its type.
TypeOK ==
    /\ strict \in BOOLEAN /\ shutting_down \in BOOLEAN /\ wakeup \in BOOLEAN
    /\ signaled \in [Registrations -> BOOLEAN]
    /\ pending \in [Registrations -> BOOLEAN]
    /\ in_flight \in [Registrations -> Nat]
    /\ mask \subseteq Flags /\ publishing \in Nat
    /\ loop \in [pc : {"check", "wait", "pick", "dispatch", "reset", "take",
                       "admit", "submit", "inline", "inline_hook", "exited",
                       "returned"},
                 pass : {"events", "retry"},
                 reg : Registrations, batch : SUBSET Flags]
    /\ todo \subseteq Registrations
    /\ pool \in {"up", "stopping", "joining", "down"}
    /\ tasks \subseteq [reg : Registrations, batch : SUBSET Flags,
                        phase : TaskPhases]
    /\ signals \in 0 .. MaxSignals
    /\ owed_flags \subseteq Flags /\ owed \subseteq Applications

\* Who may hold an admission of registration r: an unfinished task, or the
\* loop between admission and submission.
Holding(r) ==
    {t \in tasks : t.reg = r /\ t.phase # "wake"}
    \cup {l \in {loop} : l.reg = r /\ l.pc \in {"submit", "inline", "inline_hook"}}

\* Hooks are serialized per registration, including completion, and
\* event_in_flight counts the executions: no admission leaks or is released
\* twice.  As the loop is the only one to admit, the QUEUE_FULL answer of
\* mudmux_execution_dispatch, which would merge the batch back, never occurs.
RegistrationSerial ==
    /\ TypeOK
    /\ \A r \in Registrations :
          /\ Cardinality(Holding(r)) <= 1
          /\ in_flight[r] = Cardinality(Holding(r))
    /\ loop.pc = "admit" => in_flight[loop.reg] = 0

\* No published timer flag is lost while the workers run: it is in the mask,
\* or in the one batch on its way to the hook.
FlagsConserved ==
    PoolRunning =>
        owed_flags \subseteq mask \cup loop.batch \cup UNION {t.batch : t \in tasks}

\* Every timer flag reaches a hook, unless the server stops: a signal that
\* races with the acknowledgement, or comes while the hook is in flight, is
\* not lost.
FlagsDelivered ==
    \A f \in Flags :
        f \in owed_flags ~> (f \notin owed_flags \/ shutting_down \/ ~PoolRunning)

\* The same for the events of the application, each of which is acknowledged
\* by the wait (auto-reset) or, as the timer is, before its hook (manual-reset).
SignalsDelivered ==
    \A r \in Applications :
        r \in owed ~> (r \notin owed \/ shutting_down \/ ~PoolRunning)

\* After mudmux_shutdown the loop ends, event hooks are joined and mudmux_run
\* returns.
ShutdownReturns == shutting_down ~> loop.pc = "returned"
=============================================================================
