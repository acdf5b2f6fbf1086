----------------------- MODULE RegisteredEventsProofs -----------------------
(***************************************************************************)
(* Theorems about RegisteredEvents, for every set of registrations and of  *)
(* timer flags and every number of signals.                                *)
(***************************************************************************)
EXTENDS RegisteredEvents, FiniteSetTheorems, TLAPS

-----------------------------------------------------------------------------
(* The inductive invariant.                                                *)

\* Where the loop holds an admission.
Admitted == {"submit", "inline", "inline_hook"}

\* An execution of registration r is under way.
Held(r) ==
    \/ \E t \in tasks : t.reg = r /\ t.phase # "wake"
    \/ loop.reg = r /\ loop.pc \in Admitted

\* One execution per registration, on a worker or on the loop, not on both.
OneExecution ==
    /\ \A s, t \in tasks :
          s.phase # "wake" /\ t.phase # "wake" /\ s.reg = t.reg => s = t
    /\ \A t \in tasks :
          t.phase # "wake" /\ loop.pc \in Admitted => t.reg # loop.reg

\* event_in_flight is one during that execution and zero otherwise.  From the
\* check of mudmux_execution_event_busy to the admission it stays zero, for
\* only the loop admits.
InFlightCounts ==
    /\ \A r \in Registrations : in_flight[r] = IF Held(r) THEN 1 ELSE 0
    /\ loop.pc \in {"reset", "take", "admit"} => in_flight[loop.reg] = 0

\* The loop carries flags only between the exchange and the hook.
BatchShape == loop.pc \notin {"admit", "submit", "inline"} => loop.batch = {}

EventInvariant == TypeOK /\ OneExecution /\ InFlightCounts /\ BatchShape

-----------------------------------------------------------------------------
(* Types.                                                                  *)

\* Every step keeps every variable in its type.
LEMMA TypeStep == TypeOK /\ [Next]_vars => TypeOK'
<1> SUFFICES ASSUME TypeOK, [Next]_vars
             PROVE  TypeOK'
  OBVIOUS
<1> USE EventAssumption
<1>1. /\ Timer \in Registrations /\ Applications = Registrations \ {Timer}
  BY DEF Registrations, Applications
<1>2. CASE TriggerTimer
  BY <1>2 DEF TypeOK, TriggerTimer, lifeVars
<1>3. CASE TriggerTimerSet
  BY <1>1, <1>3 DEF TypeOK, TriggerTimerSet, lifeVars, histVars
<1>4. ASSUME NEW r \in Registrations, SetEvent(r)
      PROVE  TypeOK'
  BY <1>1, <1>4 DEF TypeOK, SetEvent, lifeVars
<1>5. CASE CheckShutdown
  BY <1>1, <1>5 DEF TypeOK, CheckShutdown, At, lifeVars, publishVars, histVars
<1>6. CASE WaitReturns
  BY <1>1, <1>6 DEF TypeOK, WaitReturns, At, lifeVars, publishVars, histVars
<1>7. ASSUME NEW r \in Registrations, PickEvent(r)
      PROVE  TypeOK'
  BY <1>7 DEF TypeOK, PickEvent, At, lifeVars, publishVars, histVars
<1>8. ASSUME NEW r \in Registrations, PickRetry(r)
      PROVE  TypeOK'
  BY <1>8 DEF TypeOK, PickRetry, At, lifeVars, publishVars, histVars
<1>9. CASE PassEnds
  BY <1>1, <1>9 DEF TypeOK, PassEnds, At, lifeVars, publishVars, histVars
<1>10. CASE DispatchCheck
  <2>1. loop' \in [pc : {"pick", "reset"}, pass : {"events", "retry"},
                   reg : Registrations, batch : SUBSET Flags]
    BY <1>1, <1>10 DEF TypeOK, DispatchCheck, Return, At
  <2>2. pending' \in [Registrations -> BOOLEAN]
    BY <1>10 DEF TypeOK, DispatchCheck
  <2>3. QED
    BY <1>10, <2>1, <2>2
       DEF TypeOK, DispatchCheck, lifeVars, publishVars, histVars
<1>11. CASE DispatchReset
  BY <1>11 DEF TypeOK, DispatchReset, lifeVars, publishVars, histVars
<1>12. CASE DispatchTake
  BY <1>1, <1>12
     DEF TypeOK, DispatchTake, TakenFlags, Return, At, lifeVars, histVars
<1>13. CASE DispatchAdmit
  BY <1>1, <1>13
     DEF TypeOK, DispatchAdmit, Return, At, lifeVars, publishVars, histVars
<1>14. ASSUME NEW r \in Registrations
       PROVE  Release(r) \in [Registrations -> Nat]
  BY <1>14 DEF TypeOK, Release
<1>15. CASE DispatchSubmit
  <2>1. tasks' \subseteq [reg : Registrations, batch : SUBSET Flags,
                          phase : TaskPhases]
    BY <1>15 DEF TypeOK, DispatchSubmit, EventTask, TaskPhases
  <2>2. in_flight' \in [Registrations -> Nat] /\ wakeup' \in BOOLEAN
    BY <1>14, <1>15 DEF TypeOK, DispatchSubmit, InFlightAfterSubmit, WokenUp
  <2>3. loop' = At("pick", loop.pass) /\ loop.pass \in {"events", "retry"}
    BY <1>15 DEF TypeOK, DispatchSubmit, Return
  <2>4. QED
    BY <1>1, <1>15, <2>1, <2>2, <2>3
       DEF TypeOK, DispatchSubmit, At, lifeVars, publishVars, histVars
<1>16. CASE InlineBegins
  BY <1>1, <1>16 DEF TypeOK, InlineBegins, Delivered, lifeVars, publishVars
<1>17. CASE InlineEnds
  BY <1>1, <1>14, <1>17
     DEF TypeOK, InlineEnds, WokenUp, Return, At, lifeVars, publishVars, histVars
<1>18. ASSUME NEW t \in tasks, NEW phase \in TaskPhases, Moves(t, phase)
       PROVE  tasks' \subseteq [reg : Registrations, batch : SUBSET Flags,
                                phase : TaskPhases]
  BY <1>18 DEF TypeOK, Moves, EventTask
<1>19. ASSUME NEW t \in tasks, HookBegins(t)
       PROVE  TypeOK'
  BY <1>18, <1>19 DEF TypeOK, HookBegins, Delivered, TaskPhases, lifeVars, publishVars
<1>20. ASSUME NEW t \in tasks, HookEnds(t)
       PROVE  TypeOK'
  BY <1>18, <1>20 DEF TypeOK, HookEnds, TaskPhases, lifeVars, publishVars, histVars
<1>21. ASSUME NEW t \in tasks, ReleaseRegistration(t)
       PROVE  TypeOK'
  BY <1>14, <1>18, <1>21
     DEF TypeOK, ReleaseRegistration, TaskPhases, lifeVars, publishVars, histVars
<1>22. ASSUME NEW t \in tasks, WakeLoop(t)
       PROVE  TypeOK'
  BY <1>22 DEF TypeOK, WakeLoop, WokenUp, lifeVars, publishVars, histVars
<1>23. CASE Shutdown
  BY <1>23 DEF TypeOK, Shutdown, WokenUp, publishVars, histVars
<1>24. CASE StopWorkers
  BY <1>24 DEF TypeOK, StopWorkers, publishVars, histVars
<1>25. CASE RunReturns
  BY <1>1, <1>25 DEF TypeOK, RunReturns, At, lifeVars, publishVars, histVars
<1>26. CASE UNCHANGED vars
  BY <1>26 DEF TypeOK, vars, lifeVars, publishVars, histVars
<1>27. QED
  BY <1>2, <1>3, <1>4, <1>5, <1>6, <1>7, <1>8, <1>9, <1>10, <1>11, <1>12,
     <1>13, <1>15, <1>16, <1>17, <1>19, <1>20, <1>21, <1>22, <1>23, <1>24,
     <1>25, <1>26
     DEF Next, LoopStep, DispatchStep, TaskStep, ProducerStep

-----------------------------------------------------------------------------
(* One execution per registration.                                         *)

\* Nothing that the loop does before an admission, and nothing a producer
\* does, changes who executes a registration.
LEMMA ExecutionsKept ==
    ASSUME TypeOK, OneExecution, InFlightCounts,
           UNCHANGED <<tasks, in_flight>>,
           loop.pc \notin Admitted, loop'.pc \notin Admitted,
           loop'.pc \in {"reset", "take", "admit"} => in_flight[loop'.reg] = 0
    PROVE  OneExecution' /\ InFlightCounts'
<1>1. \A r : Held(r)' <=> Held(r)
  BY DEF Held
<1>2. QED
  BY <1>1 DEF OneExecution, InFlightCounts

\* Letting go of an admission that is counted once takes the count to zero.
LEMMA ReleaseOnce ==
    ASSUME TypeOK, NEW r \in Registrations, in_flight[r] = 1,
           in_flight' = Release(r)
    PROVE  \A q \in Registrations :
              in_flight'[q] = IF q = r THEN 0 ELSE in_flight[q]
BY DEF TypeOK, Release

\* A task that goes on to another phase of its execution stays the only one
\* of its registration.
LEMMA ExecutionMoves ==
    ASSUME TypeOK, OneExecution, InFlightCounts, NEW t \in tasks,
           NEW phase \in {"hook", "release"}, t.phase # "wake",
           Moves(t, phase), UNCHANGED <<loop, in_flight>>
    PROVE  OneExecution' /\ InFlightCounts'
<1> DEFINE u == EventTask(t.reg, {}, phase)
<1>1. u.reg = t.reg /\ u.phase # "wake"
  BY DEF EventTask
<1>2. tasks' = (tasks \ {t}) \cup {u}
  BY DEF Moves
<1> HIDE DEF u
<1>3. OneExecution'
  BY <1>1, <1>2 DEF OneExecution
<1>4. \A r : Held(r)' <=> Held(r)
  BY <1>1, <1>2 DEF Held
<1>5. QED
  BY <1>3, <1>4 DEF InFlightCounts

\* The step lemma: dispatch checks the registration before it admits it, and
\* only the loop admits; every execution releases its registration once.
LEMMA ExecutionStep ==
    TypeOK /\ OneExecution /\ InFlightCounts /\ [Next]_vars
        => OneExecution' /\ InFlightCounts'
<1> SUFFICES ASSUME TypeOK, OneExecution, InFlightCounts, [Next]_vars
             PROVE  OneExecution' /\ InFlightCounts'
  OBVIOUS
<1>1. loop \in [pc : {"check", "wait", "pick", "dispatch", "reset", "take",
                     "admit", "submit", "inline", "inline_hook", "exited",
                     "returned"},
               pass : {"events", "retry"},
               reg : Registrations, batch : SUBSET Flags]
  BY DEF TypeOK
<1>2. CASE UNCHANGED <<tasks, in_flight, loop>>
  <2>1. \A r : Held(r)' <=> Held(r)
    BY <1>2 DEF Held
  <2>2. QED
    BY <1>2, <2>1 DEF OneExecution, InFlightCounts
<1>3. CASE CheckShutdown
  BY <1>3, ExecutionsKept DEF CheckShutdown, At, Admitted
<1>4. CASE WaitReturns
  BY <1>4, ExecutionsKept DEF WaitReturns, At, Admitted
<1>5. ASSUME NEW r \in Registrations, PickEvent(r) \/ PickRetry(r)
      PROVE  OneExecution' /\ InFlightCounts'
  <2>1. loop.pc = "pick" /\ UNCHANGED <<tasks, in_flight>>
    BY <1>5 DEF PickEvent, PickRetry, At
  <2>2. loop' = [loop EXCEPT !.pc = "dispatch", !.reg = r]
    BY <1>5 DEF PickEvent, PickRetry
  <2>3. loop'.pc = "dispatch"
    BY <1>1, <2>2
  <2>4. QED
    BY <2>1, <2>3, ExecutionsKept DEF Admitted
<1>6. CASE PassEnds
  BY <1>6, ExecutionsKept DEF PassEnds, At, Admitted
<1>7. CASE DispatchCheck
  <2>1. loop.pc = "dispatch" /\ UNCHANGED <<tasks, in_flight>>
    BY <1>7 DEF DispatchCheck
  <2>2. CASE loop' = Return
    BY <2>1, <2>2, ExecutionsKept DEF Return, At, Admitted
  <2>3. CASE ~Busy(loop.reg) /\ loop' = [loop EXCEPT !.pc = "reset"]
    <3>1. in_flight[loop.reg] = 0
      BY <1>1, <2>3 DEF TypeOK, Busy
    <3>2. loop'.pc = "reset" /\ loop'.reg = loop.reg
      BY <1>1, <2>3
    <3>3. QED
      BY <2>1, <3>1, <3>2, ExecutionsKept DEF Admitted
  <2>4. QED
    BY <1>7, <2>2, <2>3 DEF DispatchCheck
<1>8. CASE DispatchReset
  <2>1. /\ loop.pc = "reset" /\ loop'.pc \in {"take", "admit"}
        /\ loop'.reg = loop.reg /\ UNCHANGED <<tasks, in_flight>>
    BY <1>1, <1>8 DEF DispatchReset
  <2>2. QED
    BY <2>1, ExecutionsKept DEF Admitted, InFlightCounts
<1>9. CASE DispatchTake
  <2>1. /\ loop.pc = "take" /\ UNCHANGED <<tasks, in_flight>>
        /\ \/ loop'.pc = "pick"
           \/ loop'.pc = "admit" /\ loop'.reg = loop.reg
    BY <1>1, <1>9 DEF DispatchTake, Return, At
  <2>2. QED
    BY <2>1, ExecutionsKept DEF Admitted, InFlightCounts
<1>10. CASE DispatchAdmit
  <2>1. loop.pc = "admit" /\ UNCHANGED tasks
    BY <1>10 DEF DispatchAdmit
  <2>2. CASE loop' = Return /\ UNCHANGED in_flight
    BY <2>1, <2>2, ExecutionsKept DEF Return, At, Admitted
  <2>3. CASE /\ loop' = [loop EXCEPT !.pc = IF strict THEN "inline" ELSE "submit"]
             /\ in_flight' = [in_flight EXCEPT ![loop.reg] = @ + 1]
    <3>1. /\ loop'.pc \in {"inline", "submit"} /\ loop'.reg = loop.reg
          /\ loop.reg \in Registrations
      BY <1>1, <2>3
    <3>2. in_flight[loop.reg] = 0 /\ ~Held(loop.reg)
      BY <2>1, <3>1 DEF InFlightCounts
    <3>3. OneExecution'
      BY <2>1, <3>1, <3>2 DEF OneExecution, Held
    <3>4. \A r : Held(r)' <=> Held(r) \/ r = loop.reg
      BY <2>1, <3>1 DEF Held, Admitted
    <3>5. \A r \in Registrations :
             in_flight'[r] = IF r = loop.reg THEN 1 ELSE in_flight[r]
      BY <2>3, <3>1, <3>2 DEF TypeOK
    <3>6. QED
      BY <3>1, <3>2, <3>3, <3>4, <3>5 DEF InFlightCounts
  <2>4. QED
    BY <1>10, <2>2, <2>3 DEF DispatchAdmit
<1>11. CASE DispatchSubmit
  <2>1. /\ loop.pc = "submit" /\ loop'.pc = "pick"
        /\ loop.reg \in Registrations
    BY <1>1, <1>11 DEF DispatchSubmit, Return, At
  <2>2. \A t \in tasks : t.phase # "wake" => t.reg # loop.reg
    BY <2>1 DEF OneExecution, Admitted
  <2>3. CASE /\ tasks' = tasks \cup {EventTask(loop.reg, loop.batch, "queued")}
             /\ in_flight' = in_flight
    <3> DEFINE u == EventTask(loop.reg, loop.batch, "queued")
    <3>1. u.reg = loop.reg /\ u.phase # "wake" /\ tasks' = tasks \cup {u}
      BY <2>3 DEF EventTask
    <3> HIDE DEF u
    <3>2. OneExecution'
      BY <2>1, <2>2, <3>1 DEF OneExecution, Admitted
    <3>3. \A r : Held(r)' <=> Held(r)
      BY <2>1, <3>1 DEF Held, Admitted
    <3>4. QED
      BY <2>1, <2>3, <3>2, <3>3 DEF InFlightCounts
  <2>4. CASE in_flight' = Release(loop.reg) /\ UNCHANGED tasks
    <3>1. in_flight[loop.reg] = 1
      BY <2>1 DEF InFlightCounts, Held, Admitted
    <3>2. OneExecution'
      BY <2>1, <2>4 DEF OneExecution, Admitted
    <3>3. \A r : Held(r)' <=> Held(r) /\ r # loop.reg
      BY <2>1, <2>2, <2>4 DEF Held, Admitted
    <3>4. QED
      BY <2>1, <2>4, <3>1, <3>2, <3>3, ReleaseOnce DEF InFlightCounts
  <2>5. QED
    BY <1>11, <2>3, <2>4 DEF DispatchSubmit, InFlightAfterSubmit
<1>12. CASE InlineBegins
  <2>1. /\ loop.pc = "inline" /\ loop'.pc = "inline_hook" /\ loop'.reg = loop.reg
        /\ UNCHANGED <<tasks, in_flight>>
    BY <1>1, <1>12 DEF InlineBegins
  <2>2. \A r : Held(r)' <=> Held(r)
    BY <2>1 DEF Held, Admitted
  <2>3. QED
    BY <2>1, <2>2 DEF OneExecution, InFlightCounts, Admitted
<1>13. CASE InlineEnds
  <2>1. /\ loop.pc = "inline_hook" /\ loop'.pc = "pick"
        /\ loop.reg \in Registrations
        /\ in_flight' = Release(loop.reg) /\ UNCHANGED tasks
    BY <1>1, <1>13 DEF InlineEnds, Return, At
  <2>2. \A t \in tasks : t.phase # "wake" => t.reg # loop.reg
    BY <2>1 DEF OneExecution, Admitted
  <2>3. in_flight[loop.reg] = 1
    BY <2>1 DEF InFlightCounts, Held, Admitted
  <2>4. OneExecution'
    BY <2>1 DEF OneExecution, Admitted
  <2>5. \A r : Held(r)' <=> Held(r) /\ r # loop.reg
    BY <2>1, <2>2 DEF Held, Admitted
  <2>6. QED
    BY <2>1, <2>3, <2>4, <2>5, ReleaseOnce DEF InFlightCounts
<1>14. ASSUME NEW t \in tasks, HookBegins(t)
       PROVE  OneExecution' /\ InFlightCounts'
  BY <1>14, ExecutionMoves DEF HookBegins
<1>15. ASSUME NEW t \in tasks, HookEnds(t)
       PROVE  OneExecution' /\ InFlightCounts'
  BY <1>15, ExecutionMoves DEF HookEnds
<1>16. ASSUME NEW t \in tasks, ReleaseRegistration(t)
       PROVE  OneExecution' /\ InFlightCounts'
  <2> DEFINE u == EventTask(t.reg, {}, "wake")
  <2>1. /\ t.phase = "release" /\ in_flight' = Release(t.reg) /\ UNCHANGED loop
        /\ tasks' = (tasks \ {t}) \cup {u} /\ u.phase = "wake"
    BY <1>16 DEF ReleaseRegistration, Moves, EventTask
  <2> HIDE DEF u
  <2>2. t.reg \in Registrations
    BY DEF TypeOK
  <2>3. in_flight[t.reg] = 1
    BY <2>1, <2>2 DEF InFlightCounts, Held
  <2>4. OneExecution'
    BY <2>1 DEF OneExecution
  <2>5. \A r : Held(r)' <=> Held(r) /\ r # t.reg
    BY <2>1 DEF Held, OneExecution
  <2>6. loop.pc \in {"reset", "take", "admit"} => in_flight[loop.reg] = 0
    BY DEF InFlightCounts
  <2>7. QED
    BY <1>1, <2>1, <2>2, <2>3, <2>4, <2>5, <2>6, ReleaseOnce DEF InFlightCounts
<1>17. ASSUME NEW t \in tasks, WakeLoop(t)
       PROVE  OneExecution' /\ InFlightCounts'
  <2>1. /\ t.phase = "wake" /\ tasks' = tasks \ {t}
        /\ UNCHANGED <<loop, in_flight>>
    BY <1>17 DEF WakeLoop
  <2>2. \A r : Held(r)' <=> Held(r)
    BY <2>1 DEF Held
  <2>3. QED
    BY <2>1, <2>2 DEF OneExecution, InFlightCounts
<1>18. CASE RunReturns
  BY <1>18, ExecutionsKept DEF RunReturns, At, Admitted
<1>19. ASSUME \/ ProducerStep \/ Shutdown \/ StopWorkers \/ UNCHANGED vars
       PROVE  UNCHANGED <<tasks, in_flight, loop>>
  BY <1>19 DEF ProducerStep, TriggerTimer, TriggerTimerSet, SetEvent, Shutdown,
               StopWorkers, vars
<1>20. QED
  BY <1>2, <1>3, <1>4, <1>5, <1>6, <1>7, <1>8, <1>9, <1>10, <1>11, <1>12,
     <1>13, <1>14, <1>15, <1>16, <1>17, <1>18, <1>19
     DEF Next, LoopStep, DispatchStep, TaskStep

-----------------------------------------------------------------------------
(* Flags.                                                                  *)

\* The loop keeps no flags once it has passed them on.
LEMMA BatchStep == TypeOK /\ BatchShape /\ [Next]_vars => BatchShape'
<1> SUFFICES ASSUME TypeOK, BatchShape, [Next]_vars
             PROVE  BatchShape'
  OBVIOUS
<1>1. loop \in [pc : {"check", "wait", "pick", "dispatch", "reset", "take",
                     "admit", "submit", "inline", "inline_hook", "exited",
                     "returned"},
               pass : {"events", "retry"},
               reg : Registrations, batch : SUBSET Flags]
  BY DEF TypeOK
<1>2. \A pc, pass : At(pc, pass).batch = {}
  BY DEF At
<1>3. ASSUME \E pc, pass : loop' = At(pc, pass)
      PROVE  BatchShape'
  BY <1>2, <1>3 DEF BatchShape
<1>4. ASSUME \/ CheckShutdown \/ WaitReturns \/ PassEnds \/ DispatchSubmit
             \/ InlineEnds \/ RunReturns
      PROVE  \E pc, pass : loop' = At(pc, pass)
  BY <1>4 DEF CheckShutdown, WaitReturns, PassEnds, DispatchSubmit, InlineEnds,
              RunReturns, Return
<1>5. ASSUME NEW r \in Registrations, PickEvent(r) \/ PickRetry(r)
      PROVE  BatchShape'
  <2>1. loop.batch = {}
    BY <1>2, <1>5 DEF PickEvent, PickRetry
  <2>2. loop' = [loop EXCEPT !.pc = "dispatch", !.reg = r]
    BY <1>5 DEF PickEvent, PickRetry
  <2>3. QED
    BY <1>1, <2>1, <2>2 DEF BatchShape
<1>6. CASE DispatchCheck
  <2>1. CASE loop' = [loop EXCEPT !.pc = "reset"]
    BY <1>1, <1>6, <2>1 DEF BatchShape, DispatchCheck
  <2>2. QED
    BY <1>3, <1>6, <2>1 DEF DispatchCheck, Return
<1>7. CASE DispatchReset
  <2>1. loop.batch = {} /\ loop'.batch = loop.batch
    BY <1>1, <1>7 DEF BatchShape, DispatchReset
  <2>2. QED
    BY <2>1 DEF BatchShape
<1>8. CASE DispatchTake
  <2>1. CASE loop' = [loop EXCEPT !.pc = "admit", !.batch = TakenFlags]
    BY <1>1, <2>1 DEF BatchShape
  <2>2. QED
    BY <1>3, <1>8, <2>1 DEF DispatchTake, Return
<1>9. CASE DispatchAdmit
  <2>1. CASE loop' = [loop EXCEPT !.pc = IF strict THEN "inline" ELSE "submit"]
    BY <1>1, <2>1 DEF BatchShape
  <2>2. QED
    BY <1>3, <1>9, <2>1 DEF DispatchAdmit, Return
<1>10. CASE InlineBegins
  BY <1>1, <1>10 DEF BatchShape, InlineBegins
<1>11. CASE UNCHANGED loop
  BY <1>11 DEF BatchShape
<1>12. ASSUME TaskStep \/ ProducerStep \/ Shutdown \/ StopWorkers \/ UNCHANGED vars
       PROVE  UNCHANGED loop
  BY <1>12 DEF TaskStep, HookBegins, HookEnds, ReleaseRegistration, WakeLoop,
               ProducerStep, TriggerTimer, TriggerTimerSet, SetEvent, Shutdown,
               StopWorkers, vars
<1>13. QED
  BY <1>3, <1>4, <1>5, <1>6, <1>7, <1>8, <1>9, <1>10, <1>11, <1>12
     DEF Next, LoopStep, DispatchStep

\* The flags on their way to a hook.
OnTheWay == mask \cup loop.batch \cup UNION {t.batch : t \in tasks}

\* The flags whose hook begins with a task's batch are no longer owed, and
\* every other flag stays where it was.
LEMMA HookTakesFlags ==
    ASSUME owed_flags \subseteq OnTheWay, NEW t \in tasks, HookBegins(t)
    PROVE  owed_flags' \subseteq OnTheWay'
<1>1. /\ owed_flags' = (owed_flags \ t.batch) \cup mask
      /\ tasks \ {t} \subseteq tasks' /\ UNCHANGED <<mask, loop>>
  BY DEF HookBegins, Delivered, Moves, publishVars
<1>2. SUFFICES ASSUME NEW f \in owed_flags'
               PROVE  f \in OnTheWay'
  OBVIOUS
<1>3. CASE f \in mask \cup loop.batch
  BY <1>1, <1>3 DEF OnTheWay
<1>4. CASE f \notin mask \cup loop.batch
  <2>1. PICK s \in tasks : f \in s.batch
    BY <1>1, <1>2, <1>4 DEF OnTheWay
  <2>2. s \in tasks'
    BY <1>1, <1>2, <1>4, <2>1
  <2>3. QED
    BY <2>1, <2>2 DEF OnTheWay
<1>5. QED
  BY <1>3, <1>4

\* A task that has begun its hook no longer carries flags: moving it on or
\* dropping it loses none.  FlagsOfTasks says which tasks still carry some.
FlagsOfTasks == \A t \in tasks : t.phase # "queued" => t.batch = {}

\* Every step keeps the flags of the tasks where they belong.
LEMMA FlagsOfTasksStep == FlagsOfTasks /\ [Next]_vars => FlagsOfTasks'
<1> SUFFICES ASSUME FlagsOfTasks, [Next]_vars
             PROVE  FlagsOfTasks'
  OBVIOUS
<1>1. CASE DispatchSubmit
  BY <1>1 DEF FlagsOfTasks, DispatchSubmit, EventTask
<1>2. CASE TaskStep
  <2>1. PICK t \in tasks :
           \/ \E phase \in TaskPhases : Moves(t, phase)
           \/ tasks' = tasks \ {t}
    BY <1>2 DEF TaskStep, HookBegins, HookEnds, ReleaseRegistration, WakeLoop,
                TaskPhases
  <2>2. QED
    BY <2>1 DEF FlagsOfTasks, Moves, EventTask
<1>3. CASE UNCHANGED tasks
  BY <1>3 DEF FlagsOfTasks
<1>4. ASSUME ~DispatchSubmit, ~TaskStep
      PROVE  UNCHANGED tasks
  <2>1. CASE LoopStep
    BY <1>4, <2>1 DEF LoopStep, DispatchStep, CheckShutdown, PassEnds,
       DispatchCheck, DispatchReset, DispatchTake, DispatchAdmit, InlineBegins,
       InlineEnds, RunReturns, PickEvent, PickRetry
  <2>2. CASE \/ WaitReturns \/ ProducerStep \/ Shutdown \/ StopWorkers
             \/ UNCHANGED vars
    BY <2>2 DEF WaitReturns, ProducerStep, TriggerTimer, TriggerTimerSet,
       SetEvent, Shutdown, StopWorkers, vars
  <2>3. QED
    BY <1>4, <2>1, <2>2 DEF Next
<1>5. QED
  BY <1>1, <1>2, <1>3, <1>4

\* While the pool runs every step leaves each owed flag in the mask, with the
\* loop or with a task.  Only a dispatch that finds the pool stopped drops one.
LEMMA FlagsStep ==
    TypeOK /\ BatchShape /\ FlagsOfTasks /\ FlagsConserved /\ [Next]_vars
        => FlagsConserved'
<1> SUFFICES ASSUME TypeOK, BatchShape, FlagsOfTasks, FlagsConserved,
                    [Next]_vars, PoolRunning'
             PROVE  owed_flags' \subseteq OnTheWay'
  BY DEF FlagsConserved, OnTheWay
<1>1. PoolRunning
  <2>1. StopWorkers \/ UNCHANGED pool
    BY DEF Next, LoopStep, DispatchStep, TaskStep, ProducerStep, CheckShutdown,
       PassEnds, DispatchCheck, DispatchReset, DispatchTake, DispatchAdmit,
       DispatchSubmit, InlineBegins, InlineEnds, RunReturns, PickEvent,
       PickRetry, WaitReturns, HookBegins, HookEnds, ReleaseRegistration,
       WakeLoop, TriggerTimer, TriggerTimerSet, SetEvent, Shutdown, vars, lifeVars
  <2>2. QED
    BY <2>1 DEF StopWorkers, PoolRunning
<1>2. owed_flags \subseteq OnTheWay
  BY <1>1 DEF FlagsConserved, OnTheWay
<1>3. loop \in [pc : {"check", "wait", "pick", "dispatch", "reset", "take",
                     "admit", "submit", "inline", "inline_hook", "exited",
                     "returned"},
               pass : {"events", "retry"},
               reg : Registrations, batch : SUBSET Flags]
  BY DEF TypeOK
<1>4. CASE TriggerTimer
  <2>1. PICK flags \in SUBSET Flags :
           mask' = mask \cup flags /\ owed_flags' = owed_flags \cup flags
    BY <1>4 DEF TriggerTimer
  <2>2. UNCHANGED <<loop, tasks>>
    BY <1>4 DEF TriggerTimer
  <2>3. QED
    BY <1>2, <2>1, <2>2 DEF OnTheWay
<1>5. ASSUME OnTheWay \subseteq OnTheWay', UNCHANGED owed_flags
      PROVE  owed_flags' \subseteq OnTheWay'
  BY <1>2, <1>5
<1>6. ASSUME loop'.batch = loop.batch \/ loop.batch = {}, UNCHANGED <<mask, tasks>>
      PROVE  OnTheWay \subseteq OnTheWay'
  BY <1>6 DEF OnTheWay
<1>7. ASSUME \/ CheckShutdown \/ WaitReturns \/ PassEnds \/ DispatchCheck
             \/ DispatchReset \/ InlineEnds \/ RunReturns
             \/ \E r \in Registrations : PickEvent(r) \/ PickRetry(r)
      PROVE  loop.batch = {} /\ UNCHANGED <<mask, tasks, owed_flags>>
  <2>1. /\ UNCHANGED <<mask, tasks, owed_flags>>
        /\ loop.pc \in {"check", "wait", "pick", "dispatch", "reset",
                        "inline_hook", "exited"}
    <3>1. ASSUME NEW r \in Registrations, PickEvent(r) \/ PickRetry(r)
          PROVE  loop.pc = "pick" /\ UNCHANGED <<mask, tasks, owed_flags>>
      BY <3>1 DEF PickEvent, PickRetry, At, publishVars, histVars
    <3>2. QED
      BY <1>7, <3>1 DEF CheckShutdown, WaitReturns, PassEnds, DispatchCheck,
         DispatchReset, InlineEnds, RunReturns, publishVars, histVars
  <2>2. QED
    BY <2>1 DEF BatchShape
<1>8. CASE DispatchTake
  <2>1. loop.batch = {} /\ UNCHANGED <<tasks, owed_flags>>
    BY <1>8 DEF DispatchTake, BatchShape, histVars
  <2>2. CASE mask = {}
    BY <1>5, <2>1, <2>2 DEF OnTheWay
  <2>3. CASE mask # {}
    <3>1. loop'.batch = mask
      BY <1>3, <1>8, <2>3 DEF DispatchTake, TakenFlags
    <3>2. QED
      BY <1>5, <2>1, <3>1 DEF OnTheWay
  <2>4. QED
    BY <2>2, <2>3
<1>9. CASE DispatchAdmit
  <2>1. /\ loop' = [loop EXCEPT !.pc = IF strict THEN "inline" ELSE "submit"]
        /\ UNCHANGED <<mask, tasks, owed_flags>>
    BY <1>1, <1>9 DEF DispatchAdmit, publishVars, histVars
  <2>2. loop'.batch = loop.batch
    BY <1>3, <2>1
  <2>3. QED
    BY <1>5, <1>6, <2>1, <2>2
<1>10. CASE DispatchSubmit
  <2> DEFINE u == EventTask(loop.reg, loop.batch, "queued")
  <2>1. tasks' = tasks \cup {u} /\ UNCHANGED <<mask, owed_flags>>
    BY <1>1, <1>10
       DEF DispatchSubmit, PoolRunning, PoolAccepting, publishVars, histVars
  <2>2. u.batch = loop.batch
    BY DEF EventTask
  <2> HIDE DEF u
  <2>3. QED
    BY <1>5, <2>1, <2>2 DEF OnTheWay
<1>11. CASE InlineBegins
  <2>1. /\ owed_flags' = (owed_flags \ loop.batch) \cup mask
        /\ UNCHANGED <<mask, tasks>>
    BY <1>11 DEF InlineBegins, Delivered, publishVars
  <2>2. QED
    BY <1>2, <2>1 DEF OnTheWay
<1>12. ASSUME NEW t \in tasks, HookBegins(t)
       PROVE  owed_flags' \subseteq OnTheWay'
  BY <1>2, <1>12, HookTakesFlags
<1>13. ASSUME NEW t \in tasks, HookEnds(t) \/ ReleaseRegistration(t) \/ WakeLoop(t)
       PROVE  owed_flags' \subseteq OnTheWay'
  <2>1. /\ t.batch = {} /\ tasks \ {t} \subseteq tasks'
        /\ UNCHANGED <<mask, loop, owed_flags>>
    BY <1>13 DEF FlagsOfTasks, HookEnds, ReleaseRegistration, WakeLoop, Moves,
       publishVars, histVars
  <2>2. QED
    BY <1>5, <2>1 DEF OnTheWay
<1>14. ASSUME \/ TriggerTimerSet \/ Shutdown \/ StopWorkers \/ UNCHANGED vars
              \/ \E r \in Registrations : SetEvent(r)
       PROVE  UNCHANGED <<mask, tasks, loop, owed_flags>>
  BY <1>14 DEF TriggerTimerSet, SetEvent, Shutdown, StopWorkers, vars,
     publishVars, histVars
<1>15. QED
  BY <1>4, <1>5, <1>6, <1>7, <1>8, <1>9, <1>10, <1>11, <1>12, <1>13, <1>14
     DEF Next, LoopStep, DispatchStep, TaskStep, ProducerStep

-----------------------------------------------------------------------------
(* Theorems.                                                               *)

\* The invariant holds throughout: at first nothing is in flight and no flag
\* is published, and every step keeps each part.
THEOREM EventsInductive ==
    Spec => [](EventInvariant /\ FlagsOfTasks /\ FlagsConserved)
<1> DEFINE Inv == EventInvariant /\ FlagsOfTasks /\ FlagsConserved
<1>1. ASSUME Init PROVE Inv
  <2>1. TypeOK
    <3>1. Timer \in Registrations
      BY DEF Registrations
    <3>2. /\ loop = [pc |-> "check", pass |-> "events", reg |-> Timer, batch |-> {}]
          /\ signals \in 0 .. MaxSignals
      BY <1>1, EventAssumption DEF Init, At
    <3>3. /\ signaled \in [Registrations -> BOOLEAN]
          /\ pending \in [Registrations -> BOOLEAN]
          /\ in_flight \in [Registrations -> Nat]
      BY <1>1 DEF Init
    <3>4. loop \in [pc : {"check"}, pass : {"events"}, reg : Registrations,
                    batch : SUBSET Flags]
      BY <3>1, <3>2
    <3>5. QED
      BY <1>1, <3>2, <3>3, <3>4 DEF Init, TypeOK
  <2>2. loop.pc = "check" /\ tasks = {} /\ owed_flags = {} /\ loop.batch = {}
    BY <1>1 DEF Init, At
  <2>3. OneExecution /\ InFlightCounts
    BY <1>1, <2>2 DEF Init, OneExecution, InFlightCounts, Held, Admitted
  <2>4. QED
    BY <2>1, <2>2, <2>3
       DEF EventInvariant, BatchShape, FlagsOfTasks, FlagsConserved
<1>2. Inv /\ [Next]_vars => Inv'
  BY TypeStep, ExecutionStep, BatchStep, FlagsOfTasksStep, FlagsStep
     DEF EventInvariant
<1> HIDE DEF Inv
<1>3. Inv /\ [][Next]_vars => []Inv
  BY <1>2, PTL
<1>4. QED
  BY <1>1, <1>3, PTL DEF Spec, Inv

\* Hooks of a registration are serialized, on workers and on the loop, and
\* event_in_flight counts the one execution: mudmux_execution_dispatch never
\* finds a registration busy after dispatch_registered_event found it idle.
THEOREM RegistrationSerialAlways == Spec => []RegistrationSerial
<1>1. EventInvariant => RegistrationSerial
  <2> SUFFICES ASSUME EventInvariant
               PROVE  RegistrationSerial
    OBVIOUS
  <2>1. TypeOK /\ OneExecution /\ InFlightCounts
    BY DEF EventInvariant
  <2>2. ASSUME NEW r \in Registrations
        PROVE  /\ Cardinality(Holding(r)) <= 1
               /\ in_flight[r] = Cardinality(Holding(r))
    <3>1. CASE ~Held(r)
      <4>1. Holding(r) = {}
        BY <3>1 DEF Holding, Held, Admitted
      <4>2. QED
        BY <2>1, <3>1, <4>1, FS_EmptySet DEF InFlightCounts
    <3>2. CASE Held(r)
      <4>1. PICK x : Holding(r) = {x}
        BY <2>1, <3>2 DEF Holding, Held, Admitted, OneExecution
      <4>2. Cardinality(Holding(r)) = 1
        BY <4>1, FS_Singleton
      <4>3. QED
        BY <2>1, <3>2, <4>2 DEF InFlightCounts
    <3>3. QED
      BY <3>1, <3>2
  <2>3. QED
    BY <2>1, <2>2 DEF RegistrationSerial, InFlightCounts
<1>2. QED
  BY <1>1, EventsInductive, PTL

\* No published timer flag is lost while the workers run, whatever the race
\* between the acknowledgement, the exchange and another trigger call.
THEOREM FlagsConservedAlways == Spec => []FlagsConserved
BY EventsInductive, PTL
=============================================================================
