-------------------------- MODULE WorkerPoolProofs --------------------------
(***************************************************************************)
(* Theorems about WorkerPool, for every set of threads and of detached     *)
(* work: who owns a closure, what mudmux_workers_stop leaves behind, and   *)
(* that the completion lane implements DetachedWork.                       *)
(***************************************************************************)
EXTENDS WorkerPool, FiniteSetTheorems, SequenceTheorems, TLAPS

-----------------------------------------------------------------------------
(* The inductive invariant.                                                *)

\* What a thread does with closures; a thread without one is idle whether it
\* is ready, waits or does not exist, so notify_one and the start and the end
\* of threads leave roles alone.
Role(t) ==
    IF thread[t].pc \in {"absent", "ready", "waiting"} THEN "idle" ELSE thread[t].pc

Pair(t) == thread[t].pair

TaskSlots == 1 .. Len(tasks)
LaneSlots == 1 .. Len(lane_pending)

\* No closure is in two places.
TasksApart == \A i, j \in TaskSlots : tasks[i].pair = tasks[j].pair => i = j
LaneApart  == \A i, j \in LaneSlots : lane_pending[i] = lane_pending[j] => i = j
ThreadsApart ==
    \A t, u \in Threads : Pair(t) = Pair(u) /\ Pair(t) # NoPair => t = u
TaskThreadApart == \A i \in TaskSlots, t \in Threads : tasks[i].pair # Pair(t)
LaneThreadApart == \A i \in LaneSlots, t \in Threads : lane_pending[i] # Pair(t)
TaskLaneApart ==
    \A i \in TaskSlots, j \in LaneSlots : tasks[i].pair # lane_pending[j]

Distinct ==
    /\ TasksApart /\ LaneApart /\ ThreadsApart
    /\ TaskThreadApart /\ LaneThreadApart /\ TaskLaneApart

\* Where pair p is.
Held(p) ==
    \/ \E i \in TaskSlots : tasks[i].pair = p
    \/ \E t \in Threads : Pair(t) = p
    \/ \E i \in LaneSlots : lane_pending[i] = p

\* The stage of a pair whose work or completion is a task, and of a pair that a
\* thread with this role holds.
TaskStage(kind) == IF kind = "work" THEN "accepted" ELSE "due"
RoleStage(role) ==
    CASE role \in {"work", "schedule"} -> "accepted"
      [] role = "hand_over" -> "due"
      [] role = "completion" -> "running"

\* The place of a pair tells its stage, and a pair under way has a place.
StageOf ==
    /\ \A i \in TaskSlots : stage[tasks[i].pair] = TaskStage(tasks[i].kind)
    /\ \A i \in LaneSlots : stage[lane_pending[i]] = "due"
    /\ \A t \in Threads : Role(t) \in BusyPCs => stage[Pair(t)] = RoleStage(Role(t))
    /\ \A p \in submitting : stage[p] = "application"
    /\ \A p \in Pairs :
          /\ stage[p] # "destroyed"
          /\ stage[p] \in {"accepted", "due", "running"} => Held(p)

\* The lane is active exactly while one task or thread is responsible for it,
\* and only then do completions wait.
LaneThread(t) == Role(t) \in {"hand_over", "completion", "next"}
LaneTask(i)   == tasks[i].kind = "completion"

LaneOwned ==
    /\ \A t, u \in Threads : LaneThread(t) /\ LaneThread(u) => t = u
    /\ \A i, j \in TaskSlots : LaneTask(i) /\ LaneTask(j) => i = j
    /\ \A i \in TaskSlots, t \in Threads : ~(LaneTask(i) /\ LaneThread(t))
    /\ lane_active =>
          \/ \E t \in Threads : LaneThread(t)
          \/ \E i \in TaskSlots : LaneTask(i)
    /\ ~lane_active =>
          /\ lane_pending = <<>>
          /\ \A t \in Threads : ~LaneThread(t)
          /\ \A i \in TaskSlots : ~LaneTask(i)

\* What start and stop have done to the pool: threads leave only a drained
\* queue, and once they have begun to leave it stays empty.
Drained == tasks = <<>> /\ \A t \in Threads : thread[t] = Absent

PoolPhases ==
    /\ live => /\ ~stopping /\ lifecycle \in {"started", "stop_pool"}
               /\ \A t \in Threads : thread[t] # Absent
    /\ lifecycle = "started" => live
    /\ lifecycle \in {"stopped", "starting", "clearing"} => Drained /\ ~live
    /\ lifecycle = "stop_pool" /\ ~live => Drained
    /\ lifecycle = "start_failed" =>
          stopping /\ tasks = <<>> /\ \A t \in Threads : thread[t] \in {Absent, Ready}
    /\ lifecycle \in {"stop_notify", "joining"} =>
          stopping /\ ((\E t \in Threads : thread[t] = Absent) => tasks = <<>>)

PoolInvariant == TypeOK /\ Distinct /\ StageOf /\ LaneOwned /\ PoolPhases

-----------------------------------------------------------------------------
(* Queues.                                                                 *)

\* What push_back does to a queue.
LEMMA AppendSlots ==
    ASSUME NEW S, NEW s \in Seq(S), NEW e \in S
    PROVE  /\ Append(s, e) \in Seq(S)
           /\ Len(Append(s, e)) = Len(s) + 1
           /\ Append(s, e)[Len(s) + 1] = e
           /\ \A i \in 1 .. Len(s) : Append(s, e)[i] = s[i]
OBVIOUS

\* What pop_front does to it.
LEMMA TailSlots ==
    ASSUME NEW S, NEW s \in Seq(S), s # <<>>
    PROVE  /\ Head(s) \in S /\ Tail(s) \in Seq(S)
           /\ 1 \in 1 .. Len(s) /\ Head(s) = s[1]
           /\ \A i \in 1 .. Len(Tail(s)) :
                 i \in Nat /\ i + 1 \in (1 .. Len(s)) \ {1} /\ Tail(s)[i] = s[i + 1]
           /\ \A i \in (1 .. Len(s)) \ {1} :
                 i - 1 \in 1 .. Len(Tail(s)) /\ Tail(s)[i - 1] = s[i]
OBVIOUS

\* Queue r in the places B is queue s in the places A without its first.
MovedUp(A, B, s, r) ==
    /\ \A i \in B : i \in Nat /\ i + 1 \in A \ {1} /\ r[i] = s[i + 1]
    /\ \A i \in A \ {1} : i \in Nat /\ i - 1 \in B

OldPlaces(A, B, s, r) ==
    \E old \in [B -> A] :
        /\ \A i \in B : old[i] # 1
        /\ \A i \in B : r[i] = s[old[i]]
        /\ \A i, j \in B : old[i] = old[j] => i = j
        /\ \A k \in A \ {1} : \E i \in B : old[i] = k

\* When everything moves up by one, each place that is left has an old place,
\* and only the first place is nobody's.
LEMMA Shifted ==
    ASSUME NEW A, NEW B, NEW s, NEW r, MovedUp(A, B, s, r)
    PROVE  OldPlaces(A, B, s, r)
<1> USE DEF MovedUp
<1> DEFINE old == [i \in B |-> i + 1]
<1>1. \A i \in B : old[i] = i + 1 /\ i \in Nat
  OBVIOUS
<1>2. old \in [B -> A]
  OBVIOUS
<1> HIDE DEF old
<1>3. \A k \in A \ {1} : \E i \in B : old[i] = k
  <2> SUFFICES ASSUME NEW k \in A \ {1} PROVE \E i \in B : old[i] = k
    OBVIOUS
  <2>1. k \in Nat /\ k - 1 \in B /\ (k - 1) + 1 = k
    OBVIOUS
  <2>2. old[k - 1] = k
    BY <1>1, <2>1
  <2>3. QED
    BY <2>1, <2>2
<1>4. \A i, j \in B : old[i] = old[j] => i = j
  BY <1>1
<1>5. (\A i \in B : old[i] # 1) /\ (\A i \in B : r[i] = s[old[i]])
  BY <1>1
<1>6. QED
  BY <1>2, <1>3, <1>4, <1>5 DEF OldPlaces

\* submit() adds a place to the task queue;
LEMMA TaskPushed ==
    ASSUME TypeOK, NEW task \in PoolTasks, tasks' = Append(tasks, task)
    PROVE  \E n : /\ TaskSlots' = TaskSlots \cup {n} /\ n \notin TaskSlots
                  /\ tasks'[n] = task
                  /\ \A i \in TaskSlots : tasks'[i] = tasks[i]
<1>1. /\ TaskSlots' = TaskSlots \cup {Len(tasks) + 1}
      /\ Len(tasks) + 1 \notin TaskSlots
      /\ tasks'[Len(tasks) + 1] = task
      /\ \A i \in TaskSlots : tasks'[i] = tasks[i]
  BY AppendSlots DEF TypeOK, TaskSlots
<1>2. QED
  BY <1>1

\* a worker takes the first away, and the others move up.
LEMMA TaskPopped ==
    ASSUME TypeOK, tasks # <<>>, tasks' = Tail(tasks)
    PROVE  /\ Head(tasks) \in PoolTasks
           /\ \E first \in TaskSlots :
                 /\ Head(tasks) = tasks[first]
                 /\ \E old \in [TaskSlots' -> TaskSlots] :
                       /\ \A i \in TaskSlots' : old[i] # first
                       /\ \A i \in TaskSlots' : tasks'[i] = tasks[old[i]]
                       /\ \A i, j \in TaskSlots' : old[i] = old[j] => i = j
                       /\ \A k \in TaskSlots \ {first} : \E i \in TaskSlots' : old[i] = k
<1>1. /\ Head(tasks) \in PoolTasks /\ 1 \in TaskSlots /\ Head(tasks) = tasks[1]
      /\ \A i \in TaskSlots' :
            i \in Nat /\ i + 1 \in TaskSlots \ {1} /\ tasks'[i] = tasks[i + 1]
      /\ \A i \in TaskSlots \ {1} : i \in Nat /\ i - 1 \in TaskSlots'
  BY TailSlots DEF TypeOK, TaskSlots
<1>2. MovedUp(TaskSlots, TaskSlots', tasks, tasks')
  BY <1>1 DEF MovedUp
<1>3. OldPlaces(TaskSlots, TaskSlots', tasks, tasks')
  BY <1>2, Shifted, Zenon
<1>4. QED
  BY <1>1, <1>3, Zenon DEF OldPlaces

\* The same for the completions that wait for the lane
LEMMA LanePushed ==
    ASSUME TypeOK, NEW p \in Pairs, lane_pending' = Append(lane_pending, p)
    PROVE  \E n : /\ LaneSlots' = LaneSlots \cup {n} /\ n \notin LaneSlots
                  /\ lane_pending'[n] = p
                  /\ \A i \in LaneSlots : lane_pending'[i] = lane_pending[i]
<1>1. /\ LaneSlots' = LaneSlots \cup {Len(lane_pending) + 1}
      /\ Len(lane_pending) + 1 \notin LaneSlots
      /\ lane_pending'[Len(lane_pending) + 1] = p
      /\ \A i \in LaneSlots : lane_pending'[i] = lane_pending[i]
  BY AppendSlots DEF TypeOK, LaneSlots
<1>2. QED
  BY <1>1

\* and for the one that is next.
LEMMA LanePopped ==
    ASSUME TypeOK, lane_pending # <<>>, lane_pending' = Tail(lane_pending)
    PROVE  /\ Head(lane_pending) \in Pairs
           /\ \E first \in LaneSlots :
                 /\ Head(lane_pending) = lane_pending[first]
                 /\ \E old \in [LaneSlots' -> LaneSlots] :
                       /\ \A i \in LaneSlots' : old[i] # first
                       /\ \A i \in LaneSlots' : lane_pending'[i] = lane_pending[old[i]]
                       /\ \A i, j \in LaneSlots' : old[i] = old[j] => i = j
                       /\ \A k \in LaneSlots \ {first} : \E i \in LaneSlots' : old[i] = k
<1>1. /\ Head(lane_pending) \in Pairs /\ 1 \in LaneSlots /\ Head(lane_pending) = lane_pending[1]
      /\ \A i \in LaneSlots' :
            i \in Nat /\ i + 1 \in LaneSlots \ {1} /\ lane_pending'[i] = lane_pending[i + 1]
      /\ \A i \in LaneSlots \ {1} : i \in Nat /\ i - 1 \in LaneSlots'
  BY TailSlots DEF TypeOK, LaneSlots
<1>2. MovedUp(LaneSlots, LaneSlots', lane_pending, lane_pending')
  BY <1>1 DEF MovedUp
<1>3. OldPlaces(LaneSlots, LaneSlots', lane_pending, lane_pending')
  BY <1>2, Shifted, Zenon
<1>4. QED
  BY <1>1, <1>3, Zenon DEF OldPlaces

\* An empty queue holds nothing, and what the queues hold are pairs.
LEMMA SlotValues ==
    ASSUME TypeOK
    PROVE  /\ \A i \in TaskSlots : tasks[i] \in PoolTasks /\ tasks[i].pair \in Pairs
           /\ \A i \in LaneSlots : lane_pending[i] \in Pairs
           /\ tasks = <<>> => TaskSlots = {}
           /\ lane_pending = <<>> => LaneSlots = {}
           /\ \A i \in TaskSlots : tasks[i].pair # NoPair
           /\ \A i \in LaneSlots : lane_pending[i] # NoPair
<1>1. /\ \A i \in TaskSlots : tasks[i] \in PoolTasks
      /\ \A i \in LaneSlots : lane_pending[i] \in Pairs
  BY DEF TypeOK, TaskSlots, LaneSlots
<1>2. \A i \in TaskSlots : tasks[i].pair \in Pairs
  BY <1>1 DEF PoolTasks
<1>3. /\ tasks = <<>> => TaskSlots = {}
      /\ lane_pending = <<>> => LaneSlots = {}
  BY DEF TaskSlots, LaneSlots
<1>4. QED
  BY <1>1, <1>2, <1>3, PoolAssumption

-----------------------------------------------------------------------------
(* Threads.                                                                *)

Threadlike ==
    {Absent, Ready, Waiting, Thread("next", NoPair)} \cup [pc : BusyPCs, pair : Pairs]

\* A thread holds a closure exactly when its role is about one.
LEMMA RoleIs ==
    ASSUME TypeOK, NEW t \in Threads
    PROVE  /\ Role(t) \in BusyPCs \cup {"idle", "next"}
           /\ Role(t) \in BusyPCs => /\ Pair(t) \in Pairs
                                     /\ thread[t] = Thread(Role(t), Pair(t))
           /\ Role(t) \notin BusyPCs => Pair(t) = NoPair
           /\ Role(t) = "idle" <=> thread[t] \in {Absent, Ready, Waiting}
           /\ Role(t) = "next" <=> thread[t] = Thread("next", NoPair)
           /\ Role(t) # "idle" => thread[t].pc = Role(t)
<1>1. thread[t] \in Threadlike
  BY DEF TypeOK, Threadlike
<1>2. CASE thread[t] \in {Absent, Ready, Waiting, Thread("next", NoPair)}
  BY <1>2 DEF Role, Pair, Absent, Ready, Waiting, Thread, BusyPCs
<1>3. CASE thread[t] \in [pc : BusyPCs, pair : Pairs]
  BY <1>3 DEF Role, Pair, Absent, Ready, Waiting, Thread, BusyPCs
<1>4. QED
  BY <1>1, <1>2, <1>3 DEF Threadlike

\* Thread t comes to have the given role and pair; the others keep theirs.
Becomes(t, role, p) ==
    /\ Role(t)' = role /\ Pair(t)' = p
    /\ \A u \in Threads \ {t} : Role(u)' = Role(u) /\ Pair(u)' = Pair(u)

RolesKept == \A u \in Threads : Role(u)' = Role(u) /\ Pair(u)' = Pair(u)

\* Assigning a whole thread record.
LEMMA Assigned ==
    ASSUME TypeOK, NEW t \in Threads, NEW v, thread' = [thread EXCEPT ![t] = v]
    PROVE  /\ v = Ready => Becomes(t, "idle", NoPair)
           /\ v = Absent => Becomes(t, "idle", NoPair)
           /\ v = Waiting => Becomes(t, "idle", NoPair)
           /\ v = Thread("next", NoPair) => Becomes(t, "next", NoPair)
           /\ \A role \in BusyPCs : \A p : v = Thread(role, p) => Becomes(t, role, p)
<1>1. thread'[t] = v /\ \A u \in Threads \ {t} : thread'[u] = thread[u]
  BY DEF TypeOK
<1>2. \A u \in Threads \ {t} : Role(u)' = Role(u) /\ Pair(u)' = Pair(u)
  BY <1>1 DEF Role, Pair
<1>3. QED
  BY <1>1, <1>2 DEF Becomes, Role, Pair, Ready, Absent, Waiting, Thread, BusyPCs

\* Assigning only what a thread does with the closure it holds.
LEMMA Advanced ==
    ASSUME TypeOK, NEW t \in Threads, Role(t) \in BusyPCs,
           NEW pc \in BusyPCs, thread' = [thread EXCEPT ![t].pc = pc]
    PROVE  /\ Becomes(t, pc, Pair(t))
           /\ thread'[t] = Thread(pc, Pair(t))
           /\ \A u \in Threads \ {t} : thread'[u] = thread[u]
<1>1. thread[t] = Thread(Role(t), Pair(t)) /\ Pair(t) \in Pairs
  BY RoleIs
<1>2. [thread[t] EXCEPT !.pc = pc] = Thread(pc, Pair(t))
  BY <1>1 DEF Thread
<1>3. thread' = [thread EXCEPT ![t] = [thread[t] EXCEPT !.pc = pc]]
  BY DEF TypeOK
<1>4. thread' = [thread EXCEPT ![t] = Thread(pc, Pair(t))]
  BY <1>2, <1>3
<1>5. QED
  BY <1>4, Assigned DEF TypeOK

\* submit() puts the task last; of the threads it changes, besides the
\* caller's move, at most that a blocked one is ready.
LEMMA Submitted ==
    ASSUME TypeOK, NEW task \in PoolTasks, NEW others \in [Threads -> Threadlike],
           Submit(task, others),
           \A u \in At("waiting") : others[u] = thread[u]
    PROVE  /\ tasks' = Append(tasks, task)
           /\ thread' \in [Threads -> Threadlike]
           /\ \A u \in Threads :
                 \/ thread'[u] = others[u]
                 \/ thread'[u] = Ready /\ thread[u] = Waiting /\ others[u] = Waiting
<1>1. CASE thread' = others
  BY <1>1 DEF Submit
<1>2. CASE \E w \in At("waiting") : thread' = [others EXCEPT ![w] = Ready]
  <2>1. PICK w \in At("waiting") : thread' = [others EXCEPT ![w] = Ready]
    BY <1>2
  <2>2. w \in Threads /\ thread[w].pc = "waiting" /\ others[w] = thread[w]
    BY <2>1 DEF At
  <2>3. thread[w] = Waiting
    BY <2>2 DEF TypeOK, Absent, Ready, Waiting, Thread, BusyPCs
  <2>4. QED
    BY <2>1, <2>2, <2>3 DEF Submit, Threadlike
<1>3. QED
  BY <1>1, <1>2 DEF Submit

-----------------------------------------------------------------------------
(* Types.                                                                  *)

Lifecycles == {"stopped", "starting", "started", "start_failed", "stop_pool",
               "stop_notify", "joining", "clearing"}

Stages == {"application", "accepted", "due", "running", "done", "destroyed"}

\* TypeOK with its sets named, in two parts: the start and stop of the pool,
\* and the closures.
StartTyped ==
    /\ running \in BOOLEAN /\ stopping \in BOOLEAN /\ live \in BOOLEAN
    /\ lifecycle \in Lifecycles

ClosuresTyped ==
    /\ tasks \in Seq(PoolTasks) /\ thread \in [Threads -> Threadlike]
    /\ submitting \in SUBSET Pairs
    /\ lane_active \in BOOLEAN /\ lane_pending \in Seq(Pairs)
    /\ stage \in [Pairs -> Stages]

\* The two parts together are the type invariant.
LEMMA TypeParts == TypeOK <=> StartTyped /\ ClosuresTyped
BY DEF TypeOK, StartTyped, ClosuresTyped, Lifecycles, Stages, Threadlike

\* The same after a step.
LEMMA TypePartsNext == TypeOK' <=> StartTyped' /\ ClosuresTyped'
BY DEF TypeOK, StartTyped, ClosuresTyped, Lifecycles, Stages, Threadlike

\* Starting and stopping.
LEMMA StartTypedStep == StartTyped /\ [Next]_vars => StartTyped'
<1> SUFFICES ASSUME StartTyped, [Next]_vars
             PROVE  StartTyped'
  OBVIOUS
<1>1. CASE UNCHANGED startVars
  BY <1>1 DEF startVars, StartTyped
<1>2. CASE StartRunning \/ StartPool \/ StartPoolFails \/ StartUndone \/ StopRunning
  BY <1>2 DEF StartRunning, StartPool, StartPoolFails, StartUndone,
              StopRunning, StartTyped, Lifecycles
<1>3. CASE StopStep
  BY <1>3 DEF StopStep, StopPool, StopNotify, StopJoined, StopClear,
              StartTyped, Lifecycles
<1>4. ASSUME NEW t \in Threads, ThreadStep(t) \/ WakeUp(t)
      PROVE  UNCHANGED startVars
  BY <1>4 DEF ThreadStep, Take, WakeUp, WorkReturns, Schedule, HandOver,
              CompletionReturns, LaneNext
<1>5. ASSUME NEW p \in Pairs, SubmitCheck(p) \/ SubmitWork(p)
      PROVE  UNCHANGED startVars
  BY <1>5 DEF SubmitCheck, SubmitWork
<1>6. ASSUME UNCHANGED vars
      PROVE  UNCHANGED startVars
  BY <1>6 DEF vars, startVars
<1>7. QED
  BY <1>1, <1>2, <1>3, <1>4, <1>5, <1>6 DEF Next

\* The closures.
LEMMA ClosuresTypedStep == TypeOK /\ [Next]_vars => ClosuresTyped'
<1> SUFFICES ASSUME TypeOK, [Next]_vars
             PROVE  ClosuresTyped'
  OBVIOUS
<1>1. ClosuresTyped
  BY TypeParts
<1>2. /\ Ready \in Threadlike /\ Absent \in Threadlike /\ Waiting \in Threadlike
      /\ Thread("next", NoPair) \in Threadlike
      /\ \A pc \in BusyPCs, p \in Pairs : Thread(pc, p) \in Threadlike
  BY DEF Threadlike, Thread
<1>3. /\ "accepted" \in Stages /\ "due" \in Stages /\ "running" \in Stages
      /\ "done" \in Stages /\ "destroyed" \in Stages
      /\ <<>> \in Seq(PoolTasks) /\ <<>> \in Seq(Pairs)
  BY DEF Stages
<1>4. ASSUME NEW t \in Threads, NEW v \in Threadlike, thread' = [thread EXCEPT ![t] = v]
      PROVE  thread' \in [Threads -> Threadlike]
  BY <1>1, <1>4 DEF ClosuresTyped
<1>5. ASSUME NEW t \in Threads, NEW pc \in BusyPCs, Role(t) \in BusyPCs,
             thread' = [thread EXCEPT ![t].pc = pc]
      PROVE  thread' \in [Threads -> Threadlike]
  <2>1. Thread(pc, Pair(t)) \in Threadlike
    BY <1>2, <1>5, RoleIs
  <2>2. thread'[t] \in Threadlike /\ \A u \in Threads \ {t} : thread'[u] = thread[u]
    BY <1>5, <2>1, Advanced
  <2>3. thread' = [u \in Threads |-> thread'[u]]
    BY <1>1, <1>5 DEF ClosuresTyped
  <2>4. \A u \in Threads : thread'[u] \in Threadlike
    BY <1>1, <2>2 DEF ClosuresTyped
  <2>5. QED
    BY <2>3, <2>4
<1>6. ASSUME NEW t \in Threads, thread[t].pc \in BusyPCs
      PROVE  Role(t) = thread[t].pc /\ thread[t].pair \in Pairs
  <2>1. Role(t) = thread[t].pc
    BY <1>6 DEF Role, BusyPCs
  <2>2. QED
    BY <1>6, <2>1, RoleIs DEF Pair
<1>7. ASSUME NEW t \in Threads, Take(t)
      PROVE  ClosuresTyped'
  <2>1. CASE UNCHANGED <<tasks, stage>> /\ \E v \in {Absent, Waiting} :
                thread' = [thread EXCEPT ![t] = v]
    BY <1>1, <1>2, <1>4, <1>7, <2>1 DEF Take, ClosuresTyped, laneVars
  <2>2. CASE tasks # <<>> /\ ~Exits
    <3>1. Head(tasks) \in PoolTasks /\ Tail(tasks) \in Seq(PoolTasks)
      BY <1>1, <2>2, TailSlots DEF ClosuresTyped
    <3>2. Head(tasks).kind \in BusyPCs /\ Head(tasks).pair \in Pairs
      BY <3>1 DEF PoolTasks, BusyPCs
    <3>3. /\ thread' = [thread EXCEPT ![t] = Thread(Head(tasks).kind, Head(tasks).pair)]
          /\ tasks' = Tail(tasks)
          /\ stage' = stage \/ stage' = [stage EXCEPT ![Head(tasks).pair] = "running"]
      BY <1>7, <2>2 DEF Take
    <3>4. thread' \in [Threads -> Threadlike]
      BY <1>2, <1>4, <3>2, <3>3
    <3>5. QED
      BY <1>1, <1>3, <1>7, <3>1, <3>2, <3>3, <3>4 DEF Take, ClosuresTyped, laneVars
  <2>3. QED
    BY <1>7, <2>1, <2>2 DEF Take
<1>8. ASSUME NEW t \in Threads, WakeUp(t)
      PROVE  ClosuresTyped'
  BY <1>1, <1>2, <1>4, <1>8 DEF WakeUp, ClosuresTyped, laneVars
<1>9. ASSUME NEW p \in Pairs, SubmitCheck(p)
      PROVE  ClosuresTyped'
  BY <1>1, <1>9 DEF SubmitCheck, ClosuresTyped, laneVars
<1>10. ASSUME NEW p \in Pairs, SubmitWork(p)
       PROVE  ClosuresTyped'
  <2>1. CASE Refuses
    BY <1>1, <1>10, <2>1 DEF SubmitWork, ClosuresTyped, laneVars
  <2>2. CASE ~Refuses
    <3> DEFINE task == [kind |-> "work", pair |-> p]
    <3>1. task \in PoolTasks
      BY DEF PoolTasks
    <3>2. Submit(task, thread) /\ stage' = [stage EXCEPT ![p] = "accepted"]
      BY <1>10, <2>2 DEF SubmitWork
    <3> HIDE DEF task
    <3>3. /\ thread' \in [Threads -> Threadlike] /\ tasks' = Append(tasks, task)
      BY <1>1, <3>1, <3>2, Submitted DEF ClosuresTyped
    <3>4. tasks' \in Seq(PoolTasks)
      BY <1>1, <3>1, <3>3, AppendSlots DEF ClosuresTyped
    <3>5. QED
      BY <1>1, <1>3, <1>10, <3>2, <3>3, <3>4 DEF SubmitWork, ClosuresTyped, laneVars
  <2>3. QED
    BY <2>1, <2>2
<1>11. ASSUME NEW t \in Threads, WorkReturns(t)
       PROVE  ClosuresTyped'
  <2>1. thread' \in [Threads -> Threadlike]
    BY <1>5, <1>6, <1>11 DEF WorkReturns, BusyPCs
  <2>2. QED
    BY <1>1, <1>11, <2>1 DEF WorkReturns, ClosuresTyped, laneVars
<1>12. ASSUME NEW t \in Threads, Schedule(t)
       PROVE  ClosuresTyped'
  <2>1. Role(t) = "schedule" /\ thread[t].pair \in Pairs
    BY <1>6, <1>12 DEF Schedule, BusyPCs
  <2>2. thread' \in [Threads -> Threadlike]
    BY <1>2, <1>4, <1>5, <1>12, <2>1 DEF Schedule, BusyPCs
  <2>3. Append(lane_pending, thread[t].pair) \in Seq(Pairs)
    BY <1>1, <2>1, AppendSlots DEF ClosuresTyped
  <2>4. lane_pending' \in Seq(Pairs) /\ lane_active' \in BOOLEAN
    BY <1>1, <1>12, <2>3 DEF Schedule, ClosuresTyped
  <2>5. stage' \in [Pairs -> Stages]
    BY <1>1, <1>3, <1>12 DEF Schedule, ClosuresTyped
  <2>6. QED
    BY <1>1, <1>12, <2>2, <2>4, <2>5 DEF Schedule, ClosuresTyped
<1>13. ASSUME NEW t \in Threads, HandOver(t)
       PROVE  ClosuresTyped'
  <2>1. /\ thread[t].pc = "hand_over" /\ Role(t) = "hand_over"
        /\ thread[t].pair \in Pairs
    BY <1>6, <1>13 DEF HandOver, BusyPCs
  <2>2. CASE Refuses
    <3>1. thread' \in [Threads -> Threadlike]
      BY <1>5, <1>13, <2>1, <2>2 DEF HandOver, BusyPCs
    <3>2. stage' \in [Pairs -> Stages] /\ UNCHANGED tasks
      BY <1>1, <1>3, <1>13, <2>2 DEF HandOver, ClosuresTyped
    <3>3. QED
      BY <1>1, <1>13, <3>1, <3>2 DEF HandOver, laneVars, ClosuresTyped
  <2>3. CASE ~Refuses
    <3> DEFINE task == [kind |-> "completion", pair |-> thread[t].pair]
               others == [thread EXCEPT ![t] = Ready]
    <3>1. task \in PoolTasks
      BY <2>1 DEF PoolTasks
    <3>2. others \in [Threads -> Threadlike] /\ \A u \in At("waiting") : others[u] = thread[u]
      BY <1>1, <1>2, <2>1 DEF At, ClosuresTyped
    <3>3. Submit(task, others) /\ UNCHANGED stage
      BY <1>13, <2>3 DEF HandOver
    <3> HIDE DEF task, others
    <3>4. thread' \in [Threads -> Threadlike] /\ tasks' = Append(tasks, task)
      BY <3>1, <3>2, <3>3, Submitted
    <3>5. tasks' \in Seq(PoolTasks)
      BY <1>1, <3>1, <3>4, AppendSlots DEF ClosuresTyped
    <3>6. QED
      BY <1>1, <1>13, <3>3, <3>4, <3>5 DEF HandOver, laneVars, ClosuresTyped
  <2>4. QED
    BY <2>2, <2>3
<1>14. ASSUME NEW t \in Threads, CompletionReturns(t)
       PROVE  ClosuresTyped'
  <2>1. thread' \in [Threads -> Threadlike]
    BY <1>2, <1>4, <1>14 DEF CompletionReturns
  <2>2. QED
    BY <1>1, <1>3, <1>14, <2>1 DEF CompletionReturns, laneVars, ClosuresTyped
<1>15. ASSUME NEW t \in Threads, LaneNext(t)
       PROVE  ClosuresTyped'
  <2>1. CASE lane_pending = <<>>
    <3>1. thread' \in [Threads -> Threadlike]
      BY <1>2, <1>4, <1>15, <2>1 DEF LaneNext
    <3>2. QED
      BY <1>1, <1>15, <2>1, <3>1 DEF LaneNext, ClosuresTyped
  <2>2. CASE lane_pending # <<>>
    <3>1. Head(lane_pending) \in Pairs /\ Tail(lane_pending) \in Seq(Pairs)
      BY <1>1, <2>2, TailSlots DEF ClosuresTyped
    <3>2. thread' \in [Threads -> Threadlike]
      BY <1>2, <1>4, <1>15, <2>2, <3>1 DEF LaneNext, BusyPCs
    <3>3. QED
      BY <1>1, <1>15, <2>2, <3>1, <3>2 DEF LaneNext, PendingAfterPop, ClosuresTyped
  <2>3. QED
    BY <2>1, <2>2
<1>16. CASE StartRunning \/ StopRunning \/ StopPool
  BY <1>1, <1>16 DEF StartRunning, StopRunning, StopPool, laneVars, ClosuresTyped
<1>17. CASE StartPool \/ StartPoolFails
  <2>1. thread' \in [Threads -> Threadlike]
    BY <1>2, <1>17 DEF StartPool, StartPoolFails
  <2>2. QED
    BY <1>1, <1>17, <2>1 DEF StartPool, StartPoolFails, laneVars, ClosuresTyped
<1>18. CASE StartUndone \/ StopJoined
  BY <1>1, <1>3, <1>18 DEF StartUndone, StopJoined, laneVars, ClosuresTyped
<1>19. CASE StopNotify
  <2>1. thread' \in [Threads -> Threadlike]
    BY <1>1, <1>2, <1>19 DEF StopNotify, ClosuresTyped
  <2>2. QED
    BY <1>1, <1>19, <2>1 DEF StopNotify, laneVars, ClosuresTyped
<1>20. CASE StopClear
  <2>1. stage' \in [Pairs -> Stages] /\ lane_pending' \in Seq(Pairs)
    BY <1>1, <1>3, <1>20 DEF StopClear, ClosuresTyped
  <2>2. QED
    BY <1>1, <1>20, <2>1 DEF StopClear, ClosuresTyped
<1>21. CASE UNCHANGED vars
  BY <1>1, <1>21 DEF vars, laneVars, ClosuresTyped
<1>22. QED
  BY <1>7, <1>8, <1>9, <1>10, <1>11, <1>12, <1>13, <1>14, <1>15, <1>16, <1>17,
     <1>18, <1>19, <1>20, <1>21 DEF Next, ThreadStep, StopStep

\* Every step keeps every variable in its type.
LEMMA TypeStep == TypeOK /\ [Next]_vars => TypeOK'
BY TypeParts, TypePartsNext, StartTypedStep, ClosuresTypedStep

-----------------------------------------------------------------------------
(* What the steps do to closures.                                          *)

\* A closure moves in one of ten ways; every other step leaves all of them
\* where they are.
Accepts(p) ==
    /\ p \in submitting /\ submitting' = submitting \ {p}
    /\ tasks' = Append(tasks, [kind |-> "work", pair |-> p])
    /\ stage' = [stage EXCEPT ![p] = "accepted"]
    /\ RolesKept /\ UNCHANGED <<lane_active, lane_pending>>

Takes(t) ==
    /\ Role(t) = "idle" /\ tasks # <<>> /\ tasks' = Tail(tasks)
    /\ Becomes(t, Head(tasks).kind, Head(tasks).pair)
    /\ stage' = IF Head(tasks).kind = "completion"
                THEN [stage EXCEPT ![Head(tasks).pair] = "running"] ELSE stage
    /\ UNCHANGED <<lane_active, lane_pending, submitting>>

WorkEnds(t) ==
    /\ Role(t) = "work" /\ Becomes(t, "schedule", Pair(t))
    /\ UNCHANGED <<tasks, lane_active, lane_pending, stage, submitting>>

Queues(t) ==
    /\ Role(t) = "schedule" /\ Becomes(t, "idle", NoPair)
    /\ lane_active /\ lane_pending' = Append(lane_pending, Pair(t))
    /\ stage' = [stage EXCEPT ![Pair(t)] = "due"]
    /\ UNCHANGED <<tasks, lane_active, submitting>>

Claims(t) ==
    /\ Role(t) = "schedule" /\ Becomes(t, "hand_over", Pair(t))
    /\ ~lane_active /\ lane_active' = TRUE
    /\ stage' = [stage EXCEPT ![Pair(t)] = "due"]
    /\ UNCHANGED <<tasks, lane_pending, submitting>>

Runs(t) ==
    /\ Role(t) = "hand_over" /\ Becomes(t, "completion", Pair(t))
    /\ stage' = [stage EXCEPT ![Pair(t)] = "running"]
    /\ UNCHANGED <<tasks, lane_active, lane_pending, submitting>>

HandsOver(t) ==
    /\ Role(t) = "hand_over" /\ Becomes(t, "idle", NoPair)
    /\ tasks' = Append(tasks, [kind |-> "completion", pair |-> Pair(t)])
    /\ UNCHANGED <<lane_active, lane_pending, stage, submitting>>

Completes(t) ==
    /\ Role(t) = "completion" /\ Becomes(t, "next", NoPair)
    /\ stage' = [stage EXCEPT ![Pair(t)] = "done"]
    /\ UNCHANGED <<tasks, lane_active, lane_pending, submitting>>

Frees(t) ==
    /\ Role(t) = "next" /\ Becomes(t, "idle", NoPair)
    /\ lane_pending = <<>> /\ lane_active' = FALSE
    /\ UNCHANGED <<tasks, lane_pending, stage, submitting>>

Continues(t) ==
    /\ Role(t) = "next" /\ Becomes(t, "hand_over", Head(lane_pending))
    /\ lane_pending # <<>> /\ lane_pending' = Tail(lane_pending)
    /\ UNCHANGED <<tasks, lane_active, stage, submitting>>

Rests ==
    /\ RolesKept /\ UNCHANGED <<tasks, lane_active, lane_pending, stage>>
    /\ \A p \in submitting' : p \in submitting \/ stage[p] = "application"

Moves(t) ==
    \/ Takes(t) \/ WorkEnds(t) \/ Queues(t) \/ Claims(t) \/ Runs(t)
    \/ HandsOver(t) \/ Completes(t) \/ Frees(t) \/ Continues(t)

\* A step of a thread.
LEMMA ThreadEffect ==
    ASSUME TypeOK, NEW t \in Threads, ThreadStep(t) \/ WakeUp(t)
    PROVE  Moves(t) \/ Rests
<1>1. ASSUME Role(t) = "idle", Becomes(t, "idle", NoPair)
      PROVE  RolesKept
  <2>1. Pair(t) = NoPair
    BY <1>1, RoleIs DEF BusyPCs
  <2>2. QED
    BY <1>1, <2>1 DEF Becomes, RolesKept
<1>2. ASSUME thread[t].pc \in BusyPCs \cup {"next"}
      PROVE  Role(t) = thread[t].pc
  BY <1>2 DEF Role, BusyPCs
<1>3. CASE Take(t)
  <2>1. Role(t) = "idle"
    BY <1>3, RoleIs DEF Take
  <2>2. CASE \/ thread' = [thread EXCEPT ![t] = Absent] /\ UNCHANGED <<tasks, stage>>
             \/ thread' = [thread EXCEPT ![t] = Waiting] /\ UNCHANGED <<tasks, stage>>
    <3>1. RolesKept
      BY <1>1, <2>1, <2>2, Assigned
    <3>2. QED
      BY <1>3, <2>2, <3>1 DEF Take, Rests, laneVars
  <2>3. CASE tasks # <<>> /\ ~Exits
    <3>1. Head(tasks) \in PoolTasks
      BY <2>3, TailSlots DEF TypeOK
    <3>2. Head(tasks).kind \in BusyPCs
      BY <3>1 DEF PoolTasks, BusyPCs
    <3>3. thread' = [thread EXCEPT ![t] = Thread(Head(tasks).kind, Head(tasks).pair)]
      BY <1>3, <2>3 DEF Take
    <3>4. Becomes(t, Head(tasks).kind, Head(tasks).pair)
      BY <3>2, <3>3, Assigned
    <3>5. QED
      BY <1>3, <2>1, <2>3, <3>4 DEF Take, Moves, Takes, laneVars
  <2>4. QED
    BY <1>3, <2>2, <2>3 DEF Take
<1>4. CASE WakeUp(t)
  <2>1. Role(t) = "idle"
    BY <1>4, RoleIs DEF WakeUp
  <2>2. RolesKept
    BY <1>1, <1>4, <2>1, Assigned DEF WakeUp
  <2>3. QED
    BY <1>4, <2>2 DEF WakeUp, Rests, laneVars
<1>5. CASE WorkReturns(t)
  <2>1. Role(t) = "work"
    BY <1>2, <1>5 DEF WorkReturns, BusyPCs
  <2>2. Becomes(t, "schedule", Pair(t))
    BY <1>5, <2>1, Advanced DEF WorkReturns, BusyPCs
  <2>3. QED
    BY <1>5, <2>1, <2>2 DEF WorkReturns, Moves, WorkEnds, laneVars
<1>6. CASE Schedule(t)
  <2>1. Role(t) = "schedule"
    BY <1>2, <1>6 DEF Schedule, BusyPCs
  <2>2. CASE LaneTaken
    <3>1. Becomes(t, "idle", NoPair)
      BY <1>6, <2>2, Assigned DEF Schedule
    <3>2. QED
      BY <1>6, <2>1, <2>2, <3>1 DEF Schedule, LaneTaken, Moves, Queues, Pair
  <2>3. CASE ~LaneTaken
    <3>1. Becomes(t, "hand_over", Pair(t))
      BY <1>6, <2>1, <2>3, Advanced DEF Schedule, BusyPCs
    <3>2. QED
      BY <1>6, <2>1, <2>3, <3>1 DEF Schedule, LaneTaken, Moves, Claims, Pair
  <2>4. QED
    BY <2>2, <2>3
<1>7. CASE HandOver(t)
  <2>1. Role(t) = "hand_over" /\ Pair(t) \in Pairs
    BY <1>2, <1>7, RoleIs DEF HandOver, BusyPCs
  <2>2. CASE Refuses
    <3>1. Becomes(t, "completion", Pair(t))
      BY <1>7, <2>1, <2>2, Advanced DEF HandOver, BusyPCs
    <3>2. QED
      BY <1>7, <2>1, <2>2, <3>1 DEF HandOver, Moves, Runs, Pair, laneVars
  <2>3. CASE ~Refuses
    <3> DEFINE task == [kind |-> "completion", pair |-> Pair(t)]
               others == [thread EXCEPT ![t] = Ready]
    <3>1. task \in PoolTasks
      BY <2>1 DEF PoolTasks
    <3>2. /\ others \in [Threads -> Threadlike]
          /\ others[t] = Ready /\ \A u \in Threads \ {t} : others[u] = thread[u]
      BY DEF TypeOK, Threadlike
    <3>3. \A u \in At("waiting") : others[u] = thread[u]
      BY <1>7, <3>2 DEF At, HandOver
    <3>4. Submit(task, others) /\ UNCHANGED stage
      BY <1>7, <2>3 DEF HandOver, Pair
    <3> HIDE DEF task, others
    <3>5. /\ tasks' = Append(tasks, task)
          /\ \A u \in Threads :
                \/ thread'[u] = others[u]
                \/ thread'[u] = Ready /\ thread[u] = Waiting /\ others[u] = Waiting
      BY <3>1, <3>2, <3>3, <3>4, Submitted
    <3>6. thread'[t] = Ready
      BY <3>2, <3>5 DEF Ready, Waiting, Thread
    <3>7. \A u \in Threads \ {t} :
             thread'[u] = thread[u] \/ (thread'[u] = Ready /\ thread[u] = Waiting)
      BY <3>2, <3>5
    <3>8. Becomes(t, "idle", NoPair)
      BY <3>6, <3>7 DEF Becomes, Role, Pair, Ready, Waiting, Thread
    <3>9. QED
      BY <1>7, <2>1, <3>4, <3>5, <3>8 DEF HandOver, Moves, HandsOver, task, laneVars
  <2>4. QED
    BY <2>2, <2>3
<1>8. CASE CompletionReturns(t)
  <2>1. Role(t) = "completion"
    BY <1>2, <1>8 DEF CompletionReturns, BusyPCs
  <2>2. Becomes(t, "next", NoPair)
    BY <1>8, Assigned DEF CompletionReturns
  <2>3. QED
    BY <1>8, <2>1, <2>2 DEF CompletionReturns, Moves, Completes, Pair, laneVars
<1>9. CASE LaneNext(t)
  <2>1. Role(t) = "next"
    BY <1>2, <1>9 DEF LaneNext
  <2>2. CASE lane_pending = <<>>
    <3>1. Becomes(t, "idle", NoPair)
      BY <1>9, <2>2, Assigned DEF LaneNext
    <3>2. QED
      BY <1>9, <2>1, <2>2, <3>1 DEF LaneNext, Moves, Frees
  <2>3. CASE lane_pending # <<>>
    <3>1. Becomes(t, "hand_over", Head(lane_pending))
      BY <1>9, <2>3, Assigned DEF LaneNext, BusyPCs
    <3>2. QED
      BY <1>9, <2>1, <2>3, <3>1 DEF LaneNext, PendingAfterPop, Moves, Continues
  <2>4. QED
    BY <2>2, <2>3
<1>10. QED
  BY <1>3, <1>4, <1>5, <1>6, <1>7, <1>8, <1>9 DEF ThreadStep

\* A step of the application.  When stop() drops the tasks and the lane's
\* completions there is none left to drop.
LEMMA Effects ==
    ASSUME PoolInvariant, [Next]_vars
    PROVE  \/ \E t \in Threads : Moves(t)
           \/ \E p \in Pairs : Accepts(p)
           \/ Rests
<1>1. TypeOK /\ PoolPhases /\ LaneOwned
  BY DEF PoolInvariant
<1>2. ASSUME UNCHANGED thread
      PROVE  RolesKept
  BY <1>2 DEF RolesKept, Role, Pair
<1>3. ASSUME NEW p \in Pairs, SubmitCheck(p)
      PROVE  Rests
  BY <1>2, <1>3 DEF SubmitCheck, Rests, laneVars
<1>4. ASSUME NEW p \in Pairs, SubmitWork(p)
      PROVE  Accepts(p) \/ Rests
  <2>1. CASE Refuses
    BY <1>2, <1>4, <2>1 DEF SubmitWork, Rests, laneVars
  <2>2. CASE ~Refuses
    <3> DEFINE task == [kind |-> "work", pair |-> p]
    <3>1. task \in PoolTasks /\ thread \in [Threads -> Threadlike]
      BY <1>1 DEF PoolTasks, TypeOK, Threadlike
    <3>2. Submit(task, thread)
      BY <1>4, <2>2 DEF SubmitWork
    <3> HIDE DEF task
    <3>3. /\ tasks' = Append(tasks, task)
          /\ \A u \in Threads :
                thread'[u] = thread[u] \/ (thread'[u] = Ready /\ thread[u] = Waiting)
      BY <1>1, <3>1, <3>2, Submitted
    <3>4. RolesKept
      BY <3>3 DEF RolesKept, Role, Pair, Ready, Waiting, Thread
    <3>5. QED
      BY <1>4, <2>2, <3>3, <3>4 DEF SubmitWork, Accepts, task, laneVars
  <2>3. QED
    BY <2>1, <2>2
<1>5. ASSUME \/ StartRunning \/ StopRunning \/ StopPool \/ UNCHANGED vars
      PROVE  Rests
  BY <1>2, <1>5 DEF StartRunning, StopRunning, StopPool, vars, laneVars, Rests
<1>6. CASE StartPool \/ StartPoolFails
  <2>1. \A u \in Threads : thread[u] = Absent /\ thread'[u] \in {Absent, Ready}
    BY <1>1, <1>6 DEF PoolPhases, Drained, StartPool, StartPoolFails
  <2>2. RolesKept
    BY <2>1 DEF RolesKept, Role, Pair, Absent, Ready, Thread
  <2>3. QED
    BY <1>6, <2>2 DEF StartPool, StartPoolFails, laneVars, Rests
<1>7. CASE StartUndone \/ StopJoined
  <2>1. tasks = <<>>
    <3>1. CASE StartUndone
      BY <1>1, <3>1 DEF StartUndone, PoolPhases
    <3>2. CASE StopJoined
      <4>1. PICK t \in Threads : thread[t].pc = "absent"
        BY <3>2, PoolAssumption DEF StopJoined, At
      <4>2. thread[t] = Absent
        BY <1>1, <4>1 DEF TypeOK, Absent, Ready, Waiting, Thread, BusyPCs
      <4>3. QED
        BY <1>1, <3>2, <4>2 DEF StopJoined, PoolPhases
    <3>3. QED
      BY <1>7, <3>1, <3>2
  <2>2. QED
    BY <1>2, <1>7, <2>1 DEF StartUndone, StopJoined, laneVars, Rests
<1>8. CASE StopNotify
  <2>1. \A u \in Threads :
           thread'[u] = thread[u] \/ (thread'[u] = Ready /\ thread[u] = Waiting)
    BY <1>8 DEF StopNotify
  <2>2. RolesKept
    BY <2>1 DEF RolesKept, Role, Pair, Ready, Waiting, Thread
  <2>3. QED
    BY <1>8, <2>2 DEF StopNotify, laneVars, Rests
<1>9. CASE StopClear
  <2>1. tasks = <<>> /\ \A t \in Threads : thread[t] = Absent
    BY <1>1, <1>9 DEF StopClear, PoolPhases, Drained
  <2>2. /\ \A t \in Threads : ~LaneThread(t)
        /\ \A i \in TaskSlots : FALSE
    BY <1>1, <2>1, SlotValues DEF LaneThread, Role, Absent, Thread
  <2>3. ~lane_active /\ lane_pending = <<>>
    BY <1>1, <2>2 DEF LaneOwned
  <2>4. stage' = [p \in Pairs |-> stage[p]]
    BY <1>9, <2>3 DEF StopClear
  <2>5. stage' = stage /\ lane_active' = lane_active
    BY <1>1, <1>9, <2>3, <2>4 DEF TypeOK, StopClear
  <2>6. QED
    BY <1>2, <1>9, <2>3, <2>5 DEF StopClear, Rests
<1>10. QED
  BY <1>1, <1>3, <1>4, <1>5, <1>6, <1>7, <1>8, <1>9, ThreadEffect
     DEF Next, StopStep

-----------------------------------------------------------------------------
(* One place per closure.                                                  *)

\* A task appended for a pair that has no other place keeps places distinct.
LEMMA DistinctAppend ==
    ASSUME TypeOK, Distinct, NEW task \in PoolTasks, NEW n,
           TaskSlots' = TaskSlots \cup {n}, n \notin TaskSlots, tasks'[n] = task,
           \A i \in TaskSlots : tasks'[i] = tasks[i],
           UNCHANGED lane_pending,
           \A i \in TaskSlots : tasks[i].pair # task.pair,
           \A i \in LaneSlots : lane_pending[i] # task.pair,
           \A u \in Threads : Pair(u)' # task.pair,
           \A u \in Threads : Pair(u)' = Pair(u) \/ Pair(u)' = NoPair
    PROVE  Distinct'
<1>1. LaneSlots' = LaneSlots
  BY DEF LaneSlots
<1>a1. TasksApart'
  BY <1>1, SlotValues DEF Distinct, TasksApart, LaneApart, ThreadsApart, TaskThreadApart, LaneThreadApart, TaskLaneApart
<1>a2. LaneApart'
  BY <1>1, SlotValues DEF Distinct, TasksApart, LaneApart, ThreadsApart, TaskThreadApart, LaneThreadApart, TaskLaneApart
<1>a3. ThreadsApart'
  BY <1>1, SlotValues DEF Distinct, TasksApart, LaneApart, ThreadsApart, TaskThreadApart, LaneThreadApart, TaskLaneApart
<1>a4. TaskThreadApart'
  BY <1>1, SlotValues DEF Distinct, TasksApart, LaneApart, ThreadsApart, TaskThreadApart, LaneThreadApart, TaskLaneApart
<1>a5. LaneThreadApart'
  BY <1>1, SlotValues DEF Distinct, TasksApart, LaneApart, ThreadsApart, TaskThreadApart, LaneThreadApart, TaskLaneApart
<1>a6. TaskLaneApart'
  BY <1>1, SlotValues DEF Distinct, TasksApart, LaneApart, ThreadsApart, TaskThreadApart, LaneThreadApart, TaskLaneApart
<1>a7. QED
  BY <1>a1, <1>a2, <1>a3, <1>a4, <1>a5, <1>a6 DEF Distinct

\* Every way in which a closure moves takes it from one place to another.
LEMMA DistinctStep ==
    ASSUME TypeOK, Distinct, StageOf,
           \/ \E t \in Threads : Moves(t)
           \/ \E p \in Pairs : Accepts(p)
           \/ Rests
    PROVE  Distinct'
<1>1. ASSUME UNCHANGED tasks PROVE TaskSlots' = TaskSlots
  BY <1>1 DEF TaskSlots
<1>2. ASSUME UNCHANGED lane_pending PROVE LaneSlots' = LaneSlots
  BY <1>2 DEF LaneSlots
<1>3. \A i \in TaskSlots : tasks[i].pair # NoPair
  BY SlotValues
<1>4. \A i \in LaneSlots : lane_pending[i] # NoPair
  BY SlotValues
<1>5. CASE Rests
  BY <1>1, <1>2, <1>5 DEF Rests, RolesKept, Distinct, TasksApart, LaneApart, ThreadsApart, TaskThreadApart, LaneThreadApart, TaskLaneApart
<1>6. ASSUME NEW p \in Pairs, Accepts(p)
      PROVE  Distinct'
  <2>1. stage[p] = "application" /\ p # NoPair
    BY <1>6, PoolAssumption DEF Accepts, StageOf
  <2>2. /\ \A i \in TaskSlots : tasks[i].pair # p
        /\ \A i \in LaneSlots : lane_pending[i] # p
    BY <2>1 DEF StageOf, TaskStage
  <2>3. \A u \in Threads : Pair(u) # p
    BY <2>1, RoleIs DEF StageOf, RoleStage, BusyPCs
  <2> DEFINE task == [kind |-> "work", pair |-> p]
  <2>4. task \in PoolTasks /\ task.pair = p
    BY DEF PoolTasks
  <2>5. /\ tasks' = Append(tasks, task) /\ UNCHANGED lane_pending
        /\ \A u \in Threads : Pair(u)' = Pair(u)
    BY <1>6 DEF Accepts, RolesKept
  <2> HIDE DEF task
  <2>6. PICK n : /\ TaskSlots' = TaskSlots \cup {n} /\ n \notin TaskSlots
                 /\ tasks'[n] = task
                 /\ \A i \in TaskSlots : tasks'[i] = tasks[i]
    BY <2>4, <2>5, TaskPushed
  <2>7. QED
    BY <2>2, <2>3, <2>4, <2>5, <2>6, DistinctAppend
<1>7. ASSUME NEW t \in Threads,
             Becomes(t, Role(t)', Pair(t)), UNCHANGED <<tasks, lane_pending>>
      PROVE  Distinct'
  BY <1>1, <1>2, <1>7 DEF Becomes, Distinct, TasksApart, LaneApart, ThreadsApart, TaskThreadApart, LaneThreadApart, TaskLaneApart
<1>8. ASSUME NEW t \in Threads, NEW role, Becomes(t, role, NoPair),
             UNCHANGED <<tasks, lane_pending>>
      PROVE  Distinct'
  BY <1>1, <1>2, <1>3, <1>4, <1>8 DEF Becomes, Distinct, TasksApart, LaneApart, ThreadsApart, TaskThreadApart, LaneThreadApart, TaskLaneApart
<1>9. ASSUME NEW t \in Threads, Takes(t)
      PROVE  Distinct'
  <2> DEFINE p == Head(tasks).pair
  <2>0. tasks' = Tail(tasks)
    BY <1>9 DEF Takes
  <2>1. /\ UNCHANGED lane_pending
        /\ Pair(t)' = p /\ \A u \in Threads \ {t} : Pair(u)' = Pair(u)
    BY <1>9 DEF Takes, Becomes
  <2>2. PICK first \in TaskSlots, old \in [TaskSlots' -> TaskSlots] :
           /\ \A i \in TaskSlots' : old[i] # first
           /\ Head(tasks) = tasks[first]
           /\ \A i \in TaskSlots' : tasks'[i] = tasks[old[i]]
           /\ \A i, j \in TaskSlots' : old[i] = old[j] => i = j
    BY <1>9, <2>0, TaskPopped DEF Takes
  <2>8. p = tasks[first].pair
    BY <2>2
  <2> HIDE DEF p
  <2>3. /\ \A i, j \in TaskSlots' : tasks'[i].pair = tasks'[j].pair => i = j
        /\ \A i \in TaskSlots' : tasks'[i].pair # p
    BY <2>2, <2>8 DEF Distinct, TasksApart, LaneApart, ThreadsApart, TaskThreadApart, LaneThreadApart, TaskLaneApart
  <2>4. /\ \A i \in LaneSlots : lane_pending[i] # p
        /\ \A u \in Threads : Pair(u) # p
    BY <2>2, <2>8 DEF Distinct, TasksApart, LaneApart, ThreadsApart, TaskThreadApart, LaneThreadApart, TaskLaneApart
  <2>a1. TasksApart'
    BY <1>2, <2>1, <2>2, <2>3, <2>4 DEF Distinct, TasksApart, LaneApart, ThreadsApart, TaskThreadApart, LaneThreadApart, TaskLaneApart
  <2>a2. LaneApart'
    BY <1>2, <2>1, <2>2, <2>3, <2>4 DEF Distinct, TasksApart, LaneApart, ThreadsApart, TaskThreadApart, LaneThreadApart, TaskLaneApart
  <2>a3. ThreadsApart'
    BY <1>2, <2>1, <2>2, <2>3, <2>4 DEF Distinct, TasksApart, LaneApart, ThreadsApart, TaskThreadApart, LaneThreadApart, TaskLaneApart
  <2>a4. TaskThreadApart'
    BY <1>2, <2>1, <2>2, <2>3, <2>4 DEF Distinct, TasksApart, LaneApart, ThreadsApart, TaskThreadApart, LaneThreadApart, TaskLaneApart
  <2>a5. LaneThreadApart'
    BY <1>2, <2>1, <2>2, <2>3, <2>4 DEF Distinct, TasksApart, LaneApart, ThreadsApart, TaskThreadApart, LaneThreadApart, TaskLaneApart
  <2>a6. TaskLaneApart'
    BY <1>2, <2>1, <2>2, <2>3, <2>4 DEF Distinct, TasksApart, LaneApart, ThreadsApart, TaskThreadApart, LaneThreadApart, TaskLaneApart
  <2>a7. QED
    BY <2>a1, <2>a2, <2>a3, <2>a4, <2>a5, <2>a6 DEF Distinct
<1>10. ASSUME NEW t \in Threads, Queues(t)
       PROVE  Distinct'
  <2>0. lane_pending' = Append(lane_pending, Pair(t))
    BY <1>10 DEF Queues
  <2>1. /\ UNCHANGED tasks
        /\ Pair(t)' = NoPair /\ \A u \in Threads \ {t} : Pair(u)' = Pair(u)
        /\ Pair(t) \in Pairs /\ Pair(t) # NoPair
    BY <1>10, RoleIs, PoolAssumption DEF Queues, Becomes, BusyPCs
  <2>2. PICK n : /\ LaneSlots' = LaneSlots \cup {n} /\ n \notin LaneSlots
                 /\ lane_pending'[n] = Pair(t)
                 /\ \A i \in LaneSlots : lane_pending'[i] = lane_pending[i]
    BY <2>0, <2>1, LanePushed
  <2>a1. TasksApart'
    BY <1>1, <1>3, <1>4, <2>1, <2>2 DEF Distinct, TasksApart, LaneApart, ThreadsApart, TaskThreadApart, LaneThreadApart, TaskLaneApart
  <2>a2. LaneApart'
    BY <1>1, <1>3, <1>4, <2>1, <2>2 DEF Distinct, TasksApart, LaneApart, ThreadsApart, TaskThreadApart, LaneThreadApart, TaskLaneApart
  <2>a3. ThreadsApart'
    BY <1>1, <1>3, <1>4, <2>1, <2>2 DEF Distinct, TasksApart, LaneApart, ThreadsApart, TaskThreadApart, LaneThreadApart, TaskLaneApart
  <2>a4. TaskThreadApart'
    BY <1>1, <1>3, <1>4, <2>1, <2>2 DEF Distinct, TasksApart, LaneApart, ThreadsApart, TaskThreadApart, LaneThreadApart, TaskLaneApart
  <2>a5. LaneThreadApart'
    BY <1>1, <1>3, <1>4, <2>1, <2>2 DEF Distinct, TasksApart, LaneApart, ThreadsApart, TaskThreadApart, LaneThreadApart, TaskLaneApart
  <2>a6. TaskLaneApart'
    BY <1>1, <1>3, <1>4, <2>1, <2>2 DEF Distinct, TasksApart, LaneApart, ThreadsApart, TaskThreadApart, LaneThreadApart, TaskLaneApart
  <2>a7. QED
    BY <2>a1, <2>a2, <2>a3, <2>a4, <2>a5, <2>a6 DEF Distinct
<1>11. ASSUME NEW t \in Threads, HandsOver(t)
       PROVE  Distinct'
  <2> DEFINE task == [kind |-> "completion", pair |-> Pair(t)]
  <2>0. tasks' = Append(tasks, task)
    BY <1>11 DEF HandsOver
  <2>1. /\ UNCHANGED lane_pending
        /\ Pair(t)' = NoPair /\ \A u \in Threads \ {t} : Pair(u)' = Pair(u)
        /\ Pair(t) \in Pairs /\ Pair(t) # NoPair
    BY <1>11, RoleIs, PoolAssumption DEF HandsOver, Becomes, BusyPCs
  <2>2. task \in PoolTasks /\ task.pair = Pair(t)
    BY <2>1 DEF PoolTasks
  <2> HIDE DEF task
  <2>3. /\ \A i \in TaskSlots : tasks[i].pair # Pair(t)
        /\ \A i \in LaneSlots : lane_pending[i] # Pair(t)
        /\ \A u \in Threads \ {t} : Pair(u) # Pair(t)
    BY <2>1 DEF Distinct, ThreadsApart, TaskThreadApart, LaneThreadApart
  <2>4. PICK n : /\ TaskSlots' = TaskSlots \cup {n} /\ n \notin TaskSlots
                 /\ tasks'[n] = task
                 /\ \A i \in TaskSlots : tasks'[i] = tasks[i]
    BY <2>0, <2>2, TaskPushed
  <2>5. QED
    BY <2>1, <2>2, <2>3, <2>4, DistinctAppend
<1>12. ASSUME NEW t \in Threads, Continues(t)
       PROVE  Distinct'
  <2> DEFINE p == Head(lane_pending)
  <2>0. lane_pending' = Tail(lane_pending)
    BY <1>12 DEF Continues
  <2>1. /\ UNCHANGED tasks
        /\ Pair(t)' = p /\ \A u \in Threads \ {t} : Pair(u)' = Pair(u)
    BY <1>12 DEF Continues, Becomes
  <2>2. PICK first \in LaneSlots, old \in [LaneSlots' -> LaneSlots] :
           /\ \A i \in LaneSlots' : old[i] # first
           /\ p = lane_pending[first]
           /\ \A i \in LaneSlots' : lane_pending'[i] = lane_pending[old[i]]
           /\ \A i, j \in LaneSlots' : old[i] = old[j] => i = j
    BY <1>12, <2>0, LanePopped DEF Continues
  <2> HIDE DEF p
  <2>3. /\ \A i, j \in LaneSlots' : lane_pending'[i] = lane_pending'[j] => i = j
        /\ \A i \in LaneSlots' : lane_pending'[i] # p
    BY <2>2 DEF Distinct, TasksApart, LaneApart, ThreadsApart, TaskThreadApart, LaneThreadApart, TaskLaneApart
  <2>4. /\ \A i \in TaskSlots : tasks[i].pair # p
        /\ \A u \in Threads : Pair(u) # p
    BY <2>2 DEF Distinct, TasksApart, LaneApart, ThreadsApart, TaskThreadApart, LaneThreadApart, TaskLaneApart
  <2>a1. TasksApart'
    BY <1>1, <2>1, <2>2, <2>3, <2>4 DEF Distinct, TasksApart, LaneApart, ThreadsApart, TaskThreadApart, LaneThreadApart, TaskLaneApart
  <2>a2. LaneApart'
    BY <1>1, <2>1, <2>2, <2>3, <2>4 DEF Distinct, TasksApart, LaneApart, ThreadsApart, TaskThreadApart, LaneThreadApart, TaskLaneApart
  <2>a3. ThreadsApart'
    BY <1>1, <2>1, <2>2, <2>3, <2>4 DEF Distinct, TasksApart, LaneApart, ThreadsApart, TaskThreadApart, LaneThreadApart, TaskLaneApart
  <2>a4. TaskThreadApart'
    BY <1>1, <2>1, <2>2, <2>3, <2>4 DEF Distinct, TasksApart, LaneApart, ThreadsApart, TaskThreadApart, LaneThreadApart, TaskLaneApart
  <2>a5. LaneThreadApart'
    BY <1>1, <2>1, <2>2, <2>3, <2>4 DEF Distinct, TasksApart, LaneApart, ThreadsApart, TaskThreadApart, LaneThreadApart, TaskLaneApart
  <2>a6. TaskLaneApart'
    BY <1>1, <2>1, <2>2, <2>3, <2>4 DEF Distinct, TasksApart, LaneApart, ThreadsApart, TaskThreadApart, LaneThreadApart, TaskLaneApart
  <2>a7. QED
    BY <2>a1, <2>a2, <2>a3, <2>a4, <2>a5, <2>a6 DEF Distinct
<1>13. ASSUME NEW t \in Threads, WorkEnds(t) \/ Claims(t) \/ Runs(t)
       PROVE  Becomes(t, Role(t)', Pair(t)) /\ UNCHANGED <<tasks, lane_pending>>
  BY <1>13 DEF WorkEnds, Claims, Runs, Becomes
<1>14. ASSUME NEW t \in Threads, Completes(t) \/ Frees(t)
       PROVE  (\E role : Becomes(t, role, NoPair)) /\ UNCHANGED <<tasks, lane_pending>>
  BY <1>14 DEF Completes, Frees
<1>15. QED
  BY <1>5, <1>6, <1>7, <1>8, <1>9, <1>10, <1>11, <1>12, <1>13, <1>14 DEF Moves

-----------------------------------------------------------------------------
(* The stage of a pair.                                                    *)

\* Only the stage of p changes, to v.
StageSet(p, v) ==
    stage'[p] = v /\ \A q \in Pairs \ {p} : stage'[q] = stage[q]

\* Pair p goes to a place that fits its new stage, or to none if it is done,
\* and every other pair stays where it was.
Relocated(p, v) ==
    /\ StageSet(p, v) /\ v # "destroyed"
    /\ \A i \in TaskSlots' :
          \/ tasks'[i].pair = p /\ v = TaskStage(tasks'[i].kind)
          \/ tasks'[i].pair # p /\ \E k \in TaskSlots : tasks'[i] = tasks[k]
    /\ \A i \in LaneSlots' :
          \/ lane_pending'[i] = p /\ v = "due"
          \/ lane_pending'[i] # p /\ \E k \in LaneSlots : lane_pending'[i] = lane_pending[k]
    /\ \A u \in Threads :
          \/ Pair(u)' = p /\ v = RoleStage(Role(u)')
          \/ Pair(u)' # p /\ Role(u)' = Role(u) /\ Pair(u)' = Pair(u)
          \/ Role(u)' \notin BusyPCs
    /\ \A q \in Pairs \ {p} : Held(q) => Held(q)'
    /\ v \in {"accepted", "due", "running"} => Held(p)'
    /\ \A q \in submitting' : q \in submitting /\ q # p

\* Such a move keeps the correspondence of places and stages.
LEMMA StageRelocated ==
    ASSUME TypeOK, StageOf, NEW p \in Pairs, NEW v, Relocated(p, v)
    PROVE  StageOf'
<1>1. /\ \A i \in TaskSlots : tasks[i].pair \in Pairs
      /\ \A i \in LaneSlots : lane_pending[i] \in Pairs
      /\ \A u \in Threads : Role(u) \in BusyPCs => Pair(u) \in Pairs
      /\ submitting \subseteq Pairs
  BY SlotValues, RoleIs DEF TypeOK
<1>2. stage'[p] = v /\ \A q \in Pairs \ {p} : stage'[q] = stage[q]
  BY DEF Relocated, StageSet
<1>3. \A i \in TaskSlots' : stage'[tasks'[i].pair] = TaskStage(tasks'[i].kind)
  BY <1>1, <1>2 DEF StageOf, Relocated
<1>4. \A i \in LaneSlots' : stage'[lane_pending'[i]] = "due"
  BY <1>1, <1>2 DEF StageOf, Relocated
<1>5. \A u \in Threads : Role(u)' \in BusyPCs => stage'[Pair(u)'] = RoleStage(Role(u)')
  BY <1>1, <1>2 DEF StageOf, Relocated
<1>6. \A q \in submitting' : stage'[q] = "application"
  BY <1>1, <1>2 DEF StageOf, Relocated
<1>7. \A q \in Pairs : /\ stage'[q] # "destroyed"
                       /\ stage'[q] \in {"accepted", "due", "running"} => Held(q)'
  BY <1>2 DEF StageOf, Relocated
<1>8. QED
  BY <1>3, <1>4, <1>5, <1>6, <1>7 DEF StageOf, TaskStage, RoleStage

\* A pair that a thread holds has no other place.
LEMMA HeldByThread ==
    ASSUME TypeOK, Distinct, NEW t \in Threads, Role(t) \in BusyPCs
    PROVE  /\ Pair(t) \in Pairs /\ Pair(t) # NoPair
           /\ \A i \in TaskSlots : tasks[i].pair # Pair(t)
           /\ \A i \in LaneSlots : lane_pending[i] # Pair(t)
           /\ \A u \in Threads \ {t} : Pair(u) # Pair(t)
BY RoleIs, PoolAssumption DEF Distinct, ThreadsApart, TaskThreadApart, LaneThreadApart

\* Every way in which a closure moves is such a relocation.
LEMMA StageStep ==
    ASSUME TypeOK, Distinct, StageOf,
           \/ \E t \in Threads : Moves(t)
           \/ \E p \in Pairs : Accepts(p)
           \/ Rests
    PROVE  StageOf'
<1>1. ASSUME UNCHANGED tasks PROVE TaskSlots' = TaskSlots
  BY <1>1 DEF TaskSlots
<1>2. ASSUME UNCHANGED lane_pending PROVE LaneSlots' = LaneSlots
  BY <1>2 DEF LaneSlots
<1>3. ASSUME NEW p \in Pairs, NEW v, stage' = [stage EXCEPT ![p] = v]
      PROVE  StageSet(p, v)
  BY <1>3 DEF TypeOK, StageSet
<1>4. submitting \subseteq Pairs
  BY DEF TypeOK
<1>5. CASE Rests
  <2>1. \A p \in Pairs : Held(p)' <=> Held(p)
    BY <1>1, <1>2, <1>5 DEF Rests, RolesKept, Held
  <2>2. QED
    BY <1>1, <1>2, <1>5, <2>1 DEF Rests, RolesKept, StageOf, TaskStage, RoleStage
<1>6. ASSUME NEW p \in Pairs, Accepts(p)
      PROVE  StageOf'
  <2>1. stage[p] = "application"
    BY <1>6 DEF Accepts, StageOf
  <2>2. /\ \A i \in TaskSlots : tasks[i].pair # p
        /\ \A i \in LaneSlots : lane_pending[i] # p
        /\ \A u \in Threads : Role(u) \in BusyPCs => Pair(u) # p
    BY <2>1 DEF StageOf, TaskStage, RoleStage, BusyPCs
  <2>3. /\ UNCHANGED lane_pending /\ LaneSlots' = LaneSlots
        /\ \A u \in Threads : Role(u)' = Role(u) /\ Pair(u)' = Pair(u)
        /\ submitting' = submitting \ {p}
    BY <1>2, <1>6 DEF Accepts, RolesKept
  <2> DEFINE task == [kind |-> "work", pair |-> p]
  <2>4. task \in PoolTasks /\ task.pair = p /\ TaskStage(task.kind) = "accepted"
    BY DEF PoolTasks, TaskStage
  <2>5. tasks' = Append(tasks, task)
    BY <1>6 DEF Accepts
  <2> HIDE DEF task
  <2>6. PICK n : /\ TaskSlots' = TaskSlots \cup {n} /\ n \notin TaskSlots
                 /\ tasks'[n] = task
                 /\ \A i \in TaskSlots : tasks'[i] = tasks[i]
    BY <2>4, <2>5, TaskPushed
  <2>7. StageSet(p, "accepted")
    BY <1>3, <1>6 DEF Accepts
  <2>8. Held(p)' /\ \A q \in Pairs : Held(q) => Held(q)'
    BY <2>3, <2>4, <2>6 DEF Held
  <2>9. Relocated(p, "accepted")
    BY <2>2, <2>3, <2>4, <2>6, <2>7, <2>8 DEF Relocated
  <2>10. QED
    BY <2>9, StageRelocated
<1>7. ASSUME NEW t \in Threads, Takes(t)
      PROVE  StageOf'
  <2>0. PICK p, kind : p = Head(tasks).pair /\ kind = Head(tasks).kind
    OBVIOUS
  <2> DEFINE v == IF kind = "completion" THEN "running" ELSE "accepted"
  <2>1. tasks' = Tail(tasks) /\ tasks # <<>>
    BY <1>7 DEF Takes
  <2>2. PICK first \in TaskSlots, old \in [TaskSlots' -> TaskSlots] :
           /\ \A i \in TaskSlots' : old[i] # first
           /\ Head(tasks) = tasks[first]
           /\ \A i \in TaskSlots' : tasks'[i] = tasks[old[i]]
           /\ \A k \in TaskSlots \ {first} : \E i \in TaskSlots' : old[i] = k
    BY <2>1, TaskPopped
  <2>3. /\ p \in Pairs /\ kind \in {"work", "completion"}
        /\ p = tasks[first].pair /\ kind = tasks[first].kind
    BY <2>0, <2>2, SlotValues DEF PoolTasks
  <2>4. /\ \A i \in TaskSlots' : tasks'[i].pair # p
        /\ \A i \in LaneSlots : lane_pending[i] # p
        /\ \A u \in Threads : Pair(u) # p
    BY <2>2, <2>3 DEF Distinct, TasksApart, TaskThreadApart, TaskLaneApart
  <2>5. /\ UNCHANGED <<lane_pending, submitting>> /\ LaneSlots' = LaneSlots
        /\ Role(t)' = kind /\ Pair(t)' = p
        /\ \A u \in Threads \ {t} : Role(u)' = Role(u) /\ Pair(u)' = Pair(u)
        /\ Role(t) \notin BusyPCs /\ Pair(t) = NoPair
    BY <1>2, <1>7, <2>0, RoleIs DEF Takes, Becomes, BusyPCs
  <2>6. v = RoleStage(kind)
    BY <2>3 DEF RoleStage
  <2>7. StageSet(p, v)
    <3>1. stage[p] = TaskStage(kind)
      BY <2>3 DEF StageOf
    <3>2. CASE kind = "completion"
      BY <1>3, <1>7, <2>0, <2>3, <3>2 DEF Takes
    <3>3. CASE kind = "work"
      BY <1>7, <2>0, <3>1, <3>3 DEF Takes, StageSet, TaskStage
    <3>4. QED
      BY <2>3, <3>2, <3>3
  <2>8. p \notin submitting /\ v # "destroyed"
    <3>1. stage[p] # "application"
      BY <2>3 DEF StageOf, TaskStage
    <3>2. QED
      BY <3>1 DEF StageOf
  <2> HIDE DEF v
  <2>9. Held(p)' /\ \A q \in Pairs \ {p} : Held(q) => Held(q)'
    <3>1. Held(p)'
      BY <2>5 DEF Held
    <3>2. ASSUME NEW q \in Pairs \ {p}, Held(q)
          PROVE  Held(q)'
      <4>1. CASE \E k \in TaskSlots : tasks[k].pair = q
        <5>1. PICK k \in TaskSlots : tasks[k].pair = q
          BY <4>1
        <5>2. k # first
          BY <2>3, <3>2, <5>1
        <5>3. PICK i \in TaskSlots' : old[i] = k
          BY <2>2, <5>2
        <5>4. QED
          BY <2>2, <5>1, <5>3 DEF Held
      <4>2. CASE \E u \in Threads : Pair(u) = q
        BY <2>5, <4>2, PoolAssumption DEF Held
      <4>3. CASE \E i \in LaneSlots : lane_pending[i] = q
        BY <2>5, <4>3 DEF Held
      <4>4. QED
        BY <3>2, <4>1, <4>2, <4>3 DEF Held
    <3>3. QED
      BY <3>1, <3>2
  <2>10. Relocated(p, v)
    BY <2>2, <2>4, <2>5, <2>6, <2>7, <2>8, <2>9 DEF Relocated
  <2>11. QED
    BY <2>3, <2>10, StageRelocated
<1>8. ASSUME NEW t \in Threads, NEW role \in BusyPCs, Role(t) \in BusyPCs,
             Becomes(t, role, Pair(t)), StageSet(Pair(t), RoleStage(role)),
             UNCHANGED <<tasks, lane_pending, submitting>>
      PROVE  StageOf'
  <2>0. PICK p \in Pairs : p = Pair(t)
    BY <1>8, HeldByThread
  <2>1. /\ TaskSlots' = TaskSlots /\ LaneSlots' = LaneSlots
        /\ Role(t)' = role /\ Pair(t)' = Pair(t)
        /\ \A u \in Threads \ {t} : Role(u)' = Role(u) /\ Pair(u)' = Pair(u)
    BY <1>1, <1>2, <1>8 DEF Becomes
  <2>2. \A q \in Pairs : Held(q) <=> Held(q)'
    BY <1>8, <2>1 DEF Held
  <2>3. p \notin submitting /\ Held(p)
    BY <1>8, <2>0 DEF StageOf, RoleStage, BusyPCs, Held
  <2>4. RoleStage(role) # "destroyed"
    BY DEF RoleStage, BusyPCs
  <2>5. Relocated(p, RoleStage(role))
    BY <1>8, <2>0, <2>1, <2>2, <2>3, <2>4, HeldByThread DEF Relocated
  <2>6. QED
    BY <2>5, StageRelocated
<1>9. ASSUME NEW t \in Threads, WorkEnds(t)
      PROVE  StageOf'
  <2>1. StageSet(Pair(t), RoleStage("schedule"))
    BY <1>9 DEF WorkEnds, StageOf, StageSet, RoleStage, BusyPCs
  <2>2. QED
    BY <1>8, <1>9, <2>1 DEF WorkEnds, BusyPCs
<1>10. ASSUME NEW t \in Threads, Claims(t)
       PROVE  StageOf'
  <2>1. StageSet(Pair(t), RoleStage("hand_over"))
    BY <1>3, <1>10, RoleIs DEF Claims, RoleStage, BusyPCs
  <2>2. QED
    BY <1>8, <1>10, <2>1 DEF Claims, BusyPCs
<1>11. ASSUME NEW t \in Threads, Runs(t)
       PROVE  StageOf'
  <2>1. StageSet(Pair(t), RoleStage("completion"))
    BY <1>3, <1>11, RoleIs DEF Runs, RoleStage, BusyPCs
  <2>2. QED
    BY <1>8, <1>11, <2>1 DEF Runs, BusyPCs
<1>12. ASSUME NEW t \in Threads, Queues(t)
       PROVE  StageOf'
  <2>p. PICK p : p = Pair(t)
    OBVIOUS
  <2>0. /\ Role(t) \in BusyPCs /\ p \in Pairs
        /\ \A i \in TaskSlots : tasks[i].pair # p
        /\ \A i \in LaneSlots : lane_pending[i] # p
        /\ \A u \in Threads \ {t} : Pair(u) # p
    BY <1>12, <2>p, HeldByThread DEF Queues, BusyPCs
  <2>1. lane_pending' = Append(lane_pending, p)
    BY <1>12, <2>p DEF Queues
  <2>2. PICK n : /\ LaneSlots' = LaneSlots \cup {n} /\ n \notin LaneSlots
                 /\ lane_pending'[n] = p
                 /\ \A i \in LaneSlots : lane_pending'[i] = lane_pending[i]
    BY <2>0, <2>1, LanePushed
  <2>3. /\ UNCHANGED <<tasks, submitting>> /\ TaskSlots' = TaskSlots
        /\ Role(t)' \notin BusyPCs
        /\ \A u \in Threads \ {t} : Role(u)' = Role(u) /\ Pair(u)' = Pair(u)
    BY <1>1, <1>12 DEF Queues, Becomes, BusyPCs
  <2>4. StageSet(p, "due")
    BY <1>3, <1>12, <2>p, <2>0 DEF Queues
  <2>5. p \notin submitting
    BY <1>12, <2>p DEF Queues, StageOf, RoleStage, BusyPCs
  <2>6. Held(p)'
    BY <2>2 DEF Held
  <2>7. \A q \in Pairs \ {p} : Held(q) => Held(q)'
    BY <2>p, <2>2, <2>3 DEF Held
  <2>8. Relocated(p, "due")
    BY <2>0, <2>2, <2>3, <2>4, <2>5, <2>6, <2>7 DEF Relocated
  <2>9. QED
    BY <2>0, <2>8, StageRelocated
<1>13. ASSUME NEW t \in Threads, HandsOver(t)
       PROVE  StageOf'
  <2>p. PICK p : p = Pair(t)
    OBVIOUS
  <2> DEFINE task == [kind |-> "completion", pair |-> p]
  <2>0. /\ Role(t) \in BusyPCs /\ p \in Pairs
        /\ \A i \in TaskSlots : tasks[i].pair # p
        /\ \A i \in LaneSlots : lane_pending[i] # p
        /\ \A u \in Threads \ {t} : Pair(u) # p
    BY <1>13, <2>p, HeldByThread DEF HandsOver, BusyPCs
  <2>1. /\ task \in PoolTasks /\ task.pair = p /\ TaskStage(task.kind) = "due"
        /\ tasks' = Append(tasks, task)
    BY <1>13, <2>p, <2>0 DEF HandsOver, PoolTasks, TaskStage
  <2> HIDE DEF task
  <2>2. PICK n : /\ TaskSlots' = TaskSlots \cup {n} /\ n \notin TaskSlots
                 /\ tasks'[n] = task
                 /\ \A i \in TaskSlots : tasks'[i] = tasks[i]
    BY <2>1, TaskPushed
  <2>3. /\ UNCHANGED <<lane_pending, submitting>> /\ LaneSlots' = LaneSlots
        /\ Role(t)' \notin BusyPCs
        /\ \A u \in Threads \ {t} : Role(u)' = Role(u) /\ Pair(u)' = Pair(u)
    BY <1>2, <1>13 DEF HandsOver, Becomes, BusyPCs
  <2>4. StageSet(p, "due") /\ p \notin submitting
    BY <1>13, <2>p DEF HandsOver, StageOf, StageSet, RoleStage, BusyPCs
  <2>5. task.pair = p /\ TaskStage(task.kind) = "due"
    BY <2>1
  <2>6. Held(p)'
    BY <2>2, <2>5 DEF Held
  <2>7. \A q \in Pairs \ {p} : Held(q) => Held(q)'
    BY <2>p, <2>2, <2>3 DEF Held
  <2>8. Relocated(p, "due")
    BY <2>0, <2>2, <2>3, <2>4, <2>5, <2>6, <2>7 DEF Relocated
  <2>9. QED
    BY <2>0, <2>8, StageRelocated
<1>14. ASSUME NEW t \in Threads, Completes(t)
       PROVE  StageOf'
  <2>p. PICK p : p = Pair(t)
    OBVIOUS
  <2>0. /\ Role(t) \in BusyPCs /\ p \in Pairs
        /\ \A i \in TaskSlots : tasks[i].pair # p
        /\ \A i \in LaneSlots : lane_pending[i] # p
        /\ \A u \in Threads \ {t} : Pair(u) # p
    BY <1>14, <2>p, HeldByThread DEF Completes, BusyPCs
  <2>1. /\ UNCHANGED <<tasks, lane_pending, submitting>>
        /\ TaskSlots' = TaskSlots /\ LaneSlots' = LaneSlots
        /\ Role(t)' \notin BusyPCs
        /\ \A u \in Threads \ {t} : Role(u)' = Role(u) /\ Pair(u)' = Pair(u)
    BY <1>1, <1>2, <1>14, <2>p DEF Completes, Becomes, BusyPCs
  <2>2. StageSet(p, "done")
    BY <1>3, <1>14, <2>p, <2>0 DEF Completes
  <2>3. p \notin submitting
    BY <1>14, <2>p DEF Completes, StageOf, RoleStage, BusyPCs
  <2>4. \A q \in Pairs \ {p} : Held(q) => Held(q)'
    BY <2>p, <2>1 DEF Held
  <2>5. Relocated(p, "done")
    BY <2>0, <2>1, <2>2, <2>3, <2>4 DEF Relocated
  <2>6. QED
    BY <2>0, <2>5, StageRelocated
<1>15. ASSUME NEW t \in Threads, Frees(t)
       PROVE  StageOf'
  <2>1. /\ UNCHANGED <<tasks, lane_pending, submitting, stage>>
        /\ TaskSlots' = TaskSlots /\ LaneSlots' = LaneSlots
        /\ \A u \in Threads : Pair(u)' = Pair(u)
        /\ \A u \in Threads : Role(u)' \in BusyPCs => Role(u)' = Role(u)
    BY <1>1, <1>2, <1>15, RoleIs DEF Frees, Becomes, BusyPCs
  <2>2. \A p \in Pairs : Held(p)' <=> Held(p)
    BY <2>1 DEF Held
  <2>3. QED
    BY <2>1, <2>2 DEF StageOf, TaskStage, RoleStage
<1>16. ASSUME NEW t \in Threads, Continues(t)
       PROVE  StageOf'
  <2>p. PICK p : p = Head(lane_pending)
    OBVIOUS
  <2>1. lane_pending' = Tail(lane_pending) /\ lane_pending # <<>>
    BY <1>16 DEF Continues
  <2>2. PICK first \in LaneSlots, old \in [LaneSlots' -> LaneSlots] :
           /\ \A i \in LaneSlots' : old[i] # first
           /\ p = lane_pending[first]
           /\ \A i \in LaneSlots' : lane_pending'[i] = lane_pending[old[i]]
           /\ \A k \in LaneSlots \ {first} : \E i \in LaneSlots' : old[i] = k
    BY <2>p, <2>1, LanePopped
  <2>3. p \in Pairs /\ p # NoPair
    BY <2>2, SlotValues
  <2>4. /\ \A i \in LaneSlots' : lane_pending'[i] # p
        /\ \A i \in TaskSlots : tasks[i].pair # p
        /\ \A u \in Threads : Pair(u) # p
    BY <2>2, <2>3 DEF Distinct, LaneApart, LaneThreadApart, TaskLaneApart
  <2>5. /\ UNCHANGED <<tasks, submitting, stage>> /\ TaskSlots' = TaskSlots
        /\ Role(t)' = "hand_over" /\ Pair(t)' = p
        /\ \A u \in Threads \ {t} : Role(u)' = Role(u) /\ Pair(u)' = Pair(u)
        /\ Role(t) \notin BusyPCs /\ Pair(t) = NoPair
    BY <1>1, <1>16, <2>p, RoleIs DEF Continues, Becomes, BusyPCs
  <2>6. "due" = RoleStage("hand_over")
    BY DEF RoleStage
  <2>7. StageSet(p, "due") /\ p \notin submitting
    BY <2>2, <2>5 DEF StageOf, StageSet
  <2>8. Held(p)' /\ \A q \in Pairs \ {p} : Held(q) => Held(q)'
    <3>1. Held(p)'
      BY <2>5 DEF Held
    <3>2. ASSUME NEW q \in Pairs \ {p}, Held(q)
          PROVE  Held(q)'
      <4>1. CASE \E k \in LaneSlots : lane_pending[k] = q
        <5>1. PICK k \in LaneSlots : lane_pending[k] = q
          BY <4>1
        <5>2. PICK i \in LaneSlots' : old[i] = k
          BY <2>2, <3>2, <5>1
        <5>3. QED
          BY <2>2, <5>1, <5>2 DEF Held
      <4>2. CASE \E u \in Threads : Pair(u) = q
        BY <2>5, <4>2, PoolAssumption DEF Held
      <4>3. CASE \E i \in TaskSlots : tasks[i].pair = q
        BY <2>5, <4>3 DEF Held
      <4>4. QED
        BY <3>2, <4>1, <4>2, <4>3 DEF Held
    <3>3. QED
      BY <3>1, <3>2
  <2>9. Relocated(p, "due")
    BY <2>2, <2>4, <2>5, <2>6, <2>7, <2>8 DEF Relocated
  <2>10. QED
    BY <2>3, <2>9, StageRelocated
<1>17. QED
  BY <1>5, <1>6, <1>7, <1>9, <1>10, <1>11, <1>12, <1>13, <1>14, <1>15, <1>16
     DEF Moves

-----------------------------------------------------------------------------
(* The completion lane.                                                    *)

\* Responsibility for the lane passes from one thread or task to the next, and
\* the lane is released only when no completion waits.
LEMMA LaneStep ==
    ASSUME TypeOK, LaneOwned,
           \/ \E t \in Threads : Moves(t)
           \/ \E p \in Pairs : Accepts(p)
           \/ Rests
    PROVE  LaneOwned'
<1>1. ASSUME UNCHANGED tasks
      PROVE  TaskSlots' = TaskSlots /\ \A i : LaneTask(i)' <=> LaneTask(i)
  BY <1>1 DEF TaskSlots, LaneTask
<1>2. ASSUME RolesKept
      PROVE  \A u \in Threads : LaneThread(u)' <=> LaneThread(u)
  BY <1>2 DEF RolesKept, LaneThread
<1>3. ASSUME NEW t \in Threads, NEW role, NEW p, Becomes(t, role, p)
      PROVE  /\ LaneThread(t)' <=> role \in {"hand_over", "completion", "next"}
             /\ \A u \in Threads \ {t} : LaneThread(u)' <=> LaneThread(u)
  BY <1>3 DEF Becomes, LaneThread
<1>4. lane_active \in BOOLEAN
  BY DEF TypeOK
<1>5. CASE Rests
  BY <1>1, <1>2, <1>5 DEF Rests, LaneOwned
<1>6. ASSUME NEW task \in PoolTasks, tasks' = Append(tasks, task)
      PROVE  \E n : /\ TaskSlots' = TaskSlots \cup {n} /\ n \notin TaskSlots
                    /\ LaneTask(n)' <=> task.kind = "completion"
                    /\ \A i \in TaskSlots : LaneTask(i)' <=> LaneTask(i)
  BY <1>6, TaskPushed DEF LaneTask
<1>7. ASSUME NEW p \in Pairs, Accepts(p)
      PROVE  LaneOwned'
  <2>1. PICK n : /\ TaskSlots' = TaskSlots \cup {n} /\ n \notin TaskSlots
                 /\ ~LaneTask(n)'
                 /\ \A i \in TaskSlots : LaneTask(i)' <=> LaneTask(i)
    <3> DEFINE task == [kind |-> "work", pair |-> p]
    <3>1. task \in PoolTasks /\ task.kind # "completion"
      BY DEF PoolTasks
    <3>2. tasks' = Append(tasks, task)
      BY <1>7 DEF Accepts
    <3> HIDE DEF task
    <3>3. QED
      BY <1>6, <3>1, <3>2
  <2>2. /\ UNCHANGED <<lane_active, lane_pending>>
        /\ \A u \in Threads : LaneThread(u)' <=> LaneThread(u)
    BY <1>2, <1>7 DEF Accepts
  <2>3. QED
    BY <2>1, <2>2 DEF LaneOwned
<1>8. ASSUME NEW t \in Threads, Takes(t)
      PROVE  LaneOwned'
  <2>1. tasks' = Tail(tasks) /\ tasks # <<>>
    BY <1>8 DEF Takes
  <2>2. PICK first \in TaskSlots, old \in [TaskSlots' -> TaskSlots] :
           /\ \A i \in TaskSlots' : old[i] # first
           /\ Head(tasks) = tasks[first]
           /\ \A i \in TaskSlots' : tasks'[i] = tasks[old[i]]
           /\ \A i, j \in TaskSlots' : old[i] = old[j] => i = j
           /\ \A k \in TaskSlots \ {first} : \E i \in TaskSlots' : old[i] = k
    BY <2>1, TaskPopped
  <2>3. \A i \in TaskSlots' : LaneTask(i)' <=> LaneTask(old[i])
    BY <2>2 DEF LaneTask
  <2>4. Head(tasks).kind \in {"work", "completion"}
    BY <2>1, TaskPopped DEF PoolTasks
  <2>5. /\ LaneThread(t)' <=> LaneTask(first)
        /\ \A u \in Threads \ {t} : LaneThread(u)' <=> LaneThread(u)
        /\ ~LaneThread(t)
        /\ UNCHANGED <<lane_active, lane_pending>>
    BY <1>8, <2>2, <2>4 DEF Takes, Becomes, LaneThread, LaneTask
  <2>6. QED
    BY <2>2, <2>3, <2>5 DEF LaneOwned
<1>9. ASSUME NEW t \in Threads, WorkEnds(t)
      PROVE  LaneOwned'
  <2>1. /\ UNCHANGED <<tasks, lane_active, lane_pending>>
        /\ \A u \in Threads : LaneThread(u)' <=> LaneThread(u)
    BY <1>9 DEF WorkEnds, Becomes, LaneThread
  <2>2. QED
    BY <1>1, <2>1 DEF LaneOwned
<1>10. ASSUME NEW t \in Threads, Runs(t)
       PROVE  LaneOwned'
  <2>1. /\ UNCHANGED <<tasks, lane_active, lane_pending>>
        /\ \A u \in Threads : LaneThread(u)' <=> LaneThread(u)
    BY <1>10 DEF Runs, Becomes, LaneThread
  <2>2. QED
    BY <1>1, <2>1 DEF LaneOwned
<1>11. ASSUME NEW t \in Threads, Completes(t)
       PROVE  LaneOwned'
  <2>1. /\ UNCHANGED <<tasks, lane_active, lane_pending>>
        /\ \A u \in Threads : LaneThread(u)' <=> LaneThread(u)
    BY <1>11 DEF Completes, Becomes, LaneThread
  <2>2. QED
    BY <1>1, <2>1 DEF LaneOwned
<1>12. ASSUME NEW t \in Threads, Queues(t)
       PROVE  LaneOwned'
  <2>1. /\ UNCHANGED <<tasks, lane_active>> /\ lane_active
        /\ \A u \in Threads : LaneThread(u)' <=> LaneThread(u)
    BY <1>12 DEF Queues, Becomes, LaneThread
  <2>2. QED
    BY <1>1, <2>1 DEF LaneOwned
<1>13. ASSUME NEW t \in Threads, Claims(t)
       PROVE  LaneOwned'
  <2>1. /\ UNCHANGED <<tasks, lane_pending>> /\ ~lane_active /\ lane_active' = TRUE
        /\ LaneThread(t)'
        /\ \A u \in Threads \ {t} : LaneThread(u)' <=> LaneThread(u)
    BY <1>13 DEF Claims, Becomes, LaneThread
  <2>2. QED
    BY <1>1, <2>1 DEF LaneOwned
<1>14. ASSUME NEW t \in Threads, HandsOver(t)
       PROVE  LaneOwned'
  <2>1. /\ UNCHANGED <<lane_active, lane_pending>>
        /\ LaneThread(t) /\ ~LaneThread(t)'
        /\ \A u \in Threads \ {t} : LaneThread(u)' <=> LaneThread(u)
    BY <1>14 DEF HandsOver, Becomes, LaneThread
  <2>2. PICK n : /\ TaskSlots' = TaskSlots \cup {n} /\ n \notin TaskSlots
                 /\ LaneTask(n)'
                 /\ \A i \in TaskSlots : LaneTask(i)' <=> LaneTask(i)
    <3> DEFINE task == [kind |-> "completion", pair |-> Pair(t)]
    <3>1. task \in PoolTasks /\ task.kind = "completion"
      BY <1>14, RoleIs DEF HandsOver, BusyPCs, PoolTasks
    <3>2. tasks' = Append(tasks, task)
      BY <1>14 DEF HandsOver
    <3> HIDE DEF task
    <3>3. QED
      BY <1>6, <3>1, <3>2
  <2>3. QED
    BY <2>1, <2>2 DEF LaneOwned
<1>15. ASSUME NEW t \in Threads, Frees(t)
       PROVE  LaneOwned'
  <2>1. /\ UNCHANGED tasks /\ lane_pending' = <<>> /\ lane_active' = FALSE
        /\ LaneThread(t) /\ ~LaneThread(t)'
        /\ \A u \in Threads \ {t} : LaneThread(u)' <=> LaneThread(u)
    BY <1>15 DEF Frees, Becomes, LaneThread
  <2>2. QED
    BY <1>1, <2>1 DEF LaneOwned
<1>16. ASSUME NEW t \in Threads, Continues(t)
       PROVE  LaneOwned'
  <2>1. /\ UNCHANGED <<tasks, lane_active>>
        /\ LaneThread(t) /\ LaneThread(t)'
        /\ \A u \in Threads \ {t} : LaneThread(u)' <=> LaneThread(u)
    BY <1>16 DEF Continues, Becomes, LaneThread
  <2>2. QED
    BY <1>1, <2>1 DEF LaneOwned
<1>17. QED
  BY <1>5, <1>7, <1>8, <1>9, <1>10, <1>11, <1>12, <1>13, <1>14, <1>15, <1>16
     DEF Moves

-----------------------------------------------------------------------------
(* Start and stop.                                                         *)

\* A thread that holds a closure or the lane shows that the pool is started or
\* being joined; it neither leaves nor fills the queue of a pool that stops.
LEMMA PhasesKept ==
    ASSUME TypeOK, PoolPhases, UNCHANGED startVars,
           UNCHANGED tasks \/ live,
           \A u \in Threads : thread'[u] = Absent <=> thread[u] = Absent,
           \/ live
           \/ \E t \in Threads : Role(t) # "idle"
    PROVE  PoolPhases'
<1>1. UNCHANGED <<running, stopping, live, lifecycle>>
  BY DEF startVars
<1>2. ASSUME NEW t \in Threads, Role(t) # "idle"
      PROVE  thread[t] # Absent /\ thread[t] # Ready
  BY <1>2, RoleIs
<1>3. lifecycle \in {"started", "stop_pool", "stop_notify", "joining"}
      /\ (lifecycle = "stop_pool" => live)
  BY <1>2 DEF PoolPhases, Drained, TypeOK
<1>4. CASE live
  BY <1>1, <1>3, <1>4 DEF PoolPhases
<1>5. CASE ~live
  BY <1>1, <1>3, <1>5 DEF PoolPhases
<1>6. QED
  BY <1>4, <1>5

\* Threads leave only a drained queue of a pool that stops, and nothing is
\* added to it any more.
LEMMA PhasesStep == TypeOK /\ PoolPhases /\ [Next]_vars => PoolPhases'
<1> SUFFICES ASSUME TypeOK, PoolPhases, [Next]_vars
             PROVE  PoolPhases'
  OBVIOUS
<1>0. thread \in [Threads -> Threadlike]
  BY DEF TypeOK, Threadlike
<1>1. Ready # Absent /\ Waiting # Absent /\ Waiting # Ready
      /\ \A pc \in BusyPCs \cup {"next"} : \A p : Thread(pc, p) # Absent
  BY DEF Ready, Absent, Waiting, Thread, BusyPCs
<1>2. ASSUME NEW t \in Threads, Take(t)
      PROVE  PoolPhases'
  <2>1. /\ UNCHANGED <<running, stopping, live, lifecycle>> /\ thread[t] = Ready
    BY <1>2 DEF Take, startVars
  <2>2. /\ lifecycle \in {"started", "stop_pool", "start_failed", "stop_notify", "joining"}
        /\ lifecycle = "stop_pool" => live
    BY <1>1, <2>1 DEF PoolPhases, Drained, TypeOK
  <2>3. CASE Exits /\ thread' = [thread EXCEPT ![t] = Absent] /\ UNCHANGED tasks
    <3>1. stopping /\ tasks = <<>> /\ ~live
      BY <2>3 DEF Exits, PoolPhases
    <3>2. \A u \in Threads : thread'[u] = thread[u] \/ thread'[u] = Absent
      BY <1>0, <2>3
    <3>3. QED
      BY <2>1, <2>2, <2>3, <3>1, <3>2 DEF PoolPhases
  <2>4. CASE /\ ~Exits /\ tasks = <<>> /\ UNCHANGED tasks
             /\ thread' = [thread EXCEPT ![t] = Waiting]
    <3>1. \A u \in Threads : thread'[u] = Absent <=> thread[u] = Absent
      BY <1>0, <1>1, <2>1, <2>4
    <3>2. lifecycle \notin {"start_failed", "stop_notify", "joining"}
      BY <2>4 DEF Exits, PoolPhases
    <3>3. QED
      BY <2>1, <2>2, <2>4, <3>1, <3>2 DEF PoolPhases
  <2>5. CASE /\ tasks # <<>> /\ tasks' = Tail(tasks)
             /\ thread' = [thread EXCEPT ![t] = Thread(Head(tasks).kind, Head(tasks).pair)]
    <3>1. Head(tasks).kind \in BusyPCs
      BY <2>5, TaskPopped DEF PoolTasks, BusyPCs
    <3>2. \A u \in Threads : thread'[u] = Absent <=> thread[u] = Absent
      BY <1>0, <1>1, <2>1, <2>5, <3>1
    <3>3. /\ lifecycle # "start_failed"
          /\ lifecycle \in {"stop_notify", "joining"} => \A u \in Threads : thread[u] # Absent
      BY <2>5 DEF PoolPhases
    <3>4. QED
      BY <2>1, <2>2, <3>2, <3>3 DEF PoolPhases
  <2>6. QED
    BY <1>2, <2>3, <2>4, <2>5 DEF Take
<1>3. ASSUME NEW t \in Threads, WakeUp(t)
      PROVE  PoolPhases'
  <2>1. /\ UNCHANGED <<running, stopping, live, lifecycle, tasks>>
        /\ thread[t] = Waiting /\ thread' = [thread EXCEPT ![t] = Ready]
    BY <1>3 DEF WakeUp, startVars
  <2>2. \A u \in Threads : \/ thread'[u] = thread[u]
                           \/ thread'[u] = Ready /\ thread[u] = Waiting
    BY <1>0, <2>1
  <2>3. QED
    BY <1>1, <2>1, <2>2 DEF PoolPhases, Drained
<1>4. ASSUME NEW t \in Threads, NEW v, thread[t].pc \in BusyPCs \cup {"next"},
             v # Absent, thread' = [thread EXCEPT ![t] = v],
             UNCHANGED startVars, UNCHANGED tasks
      PROVE  PoolPhases'
  <2>1. Role(t) # "idle" /\ thread[t] # Absent
    BY <1>4, RoleIs DEF Role, BusyPCs
  <2>2. \A u \in Threads : thread'[u] = Absent <=> thread[u] = Absent
    BY <1>0, <1>4, <2>1
  <2>3. QED
    BY <1>4, <2>1, <2>2, PhasesKept
<1>5. ASSUME NEW t \in Threads, NEW pc \in BusyPCs, thread[t].pc \in BusyPCs,
             thread' = [thread EXCEPT ![t].pc = pc],
             UNCHANGED startVars, UNCHANGED tasks
      PROVE  PoolPhases'
  <2>1. Role(t) \in BusyPCs /\ Role(t) # "idle"
    BY <1>5 DEF Role, BusyPCs
  <2>2. thread[t] # Absent
    BY <2>1, RoleIs
  <2>3. thread'[t] # Absent /\ \A u \in Threads \ {t} : thread'[u] = thread[u]
    BY <1>1, <1>5, <2>1, Advanced
  <2>4. \A u \in Threads : thread'[u] = Absent <=> thread[u] = Absent
    BY <2>2, <2>3
  <2>5. QED
    BY <1>5, <2>1, <2>4, PhasesKept
<1>6. ASSUME NEW t \in Threads, WorkReturns(t)
      PROVE  PoolPhases'
  BY <1>5, <1>6 DEF WorkReturns, BusyPCs
<1>7. ASSUME NEW t \in Threads, Schedule(t)
      PROVE  PoolPhases'
  BY <1>1, <1>4, <1>5, <1>7 DEF Schedule, BusyPCs
<1>8. ASSUME NEW t \in Threads, CompletionReturns(t)
      PROVE  PoolPhases'
  BY <1>1, <1>4, <1>8 DEF CompletionReturns, BusyPCs
<1>9. ASSUME NEW t \in Threads, LaneNext(t)
      PROVE  PoolPhases'
  BY <1>1, <1>4, <1>9 DEF LaneNext, BusyPCs
<1>10. ASSUME NEW t \in Threads, HandOver(t)
       PROVE  PoolPhases'
  <2>1. CASE Refuses
    BY <1>5, <1>10, <2>1 DEF HandOver, BusyPCs
  <2>2. CASE ~Refuses
    <3> DEFINE task == [kind |-> "completion", pair |-> thread[t].pair]
               others == [thread EXCEPT ![t] = Ready]
    <3>1. Role(t) = "hand_over" /\ thread[t] # Absent /\ task \in PoolTasks
      <4>1. Role(t) = "hand_over"
        BY <1>10 DEF HandOver, Role
      <4>2. Pair(t) \in Pairs /\ thread[t] # Absent
        BY <4>1, RoleIs DEF BusyPCs
      <4>3. QED
        BY <4>1, <4>2 DEF Pair, PoolTasks
    <3>2. /\ others \in [Threads -> Threadlike]
          /\ others[t] = Ready /\ \A u \in Threads \ {t} : others[u] = thread[u]
      BY <1>0 DEF Threadlike
    <3>3. \A u \in At("waiting") : others[u] = thread[u]
      BY <1>10, <3>2 DEF At, HandOver
    <3>4. Submit(task, others)
      BY <1>10, <2>2 DEF HandOver
    <3> HIDE DEF task, others
    <3>5. \A u \in Threads :
                \/ thread'[u] = others[u]
                \/ thread'[u] = Ready /\ thread[u] = Waiting /\ others[u] = Waiting
      BY <3>1, <3>2, <3>3, <3>4, Submitted
    <3>6. \A u \in Threads : thread'[u] = Absent <=> thread[u] = Absent
      BY <1>1, <3>1, <3>2, <3>5
    <3>7. live /\ UNCHANGED startVars
      BY <1>10, <2>2 DEF Refuses, HandOver
    <3>8. QED
      BY <3>6, <3>7, PhasesKept
  <2>3. QED
    BY <2>1, <2>2
<1>11. ASSUME NEW p \in Pairs, SubmitWork(p)
       PROVE  PoolPhases'
  <2>1. CASE Refuses
    <3>1. UNCHANGED <<running, stopping, live, lifecycle, tasks, thread>>
      BY <1>11, <2>1 DEF SubmitWork, startVars
    <3>2. QED
      BY <3>1 DEF PoolPhases, Drained
  <2>2. CASE ~Refuses
    <3> DEFINE task == [kind |-> "work", pair |-> p]
    <3>1. task \in PoolTasks
      BY DEF PoolTasks
    <3>2. Submit(task, thread)
      BY <1>11, <2>2 DEF SubmitWork
    <3> HIDE DEF task
    <3>3. \A u \in Threads : \/ thread'[u] = thread[u]
                             \/ thread'[u] = Ready /\ thread[u] = Waiting
      BY <1>0, <3>1, <3>2, Submitted
    <3>4. live /\ UNCHANGED startVars
      BY <1>11, <2>2 DEF Refuses, SubmitWork
    <3>5. QED
      BY <1>1, <3>3, <3>4, PhasesKept
  <2>3. QED
    BY <2>1, <2>2
<1>12. ASSUME UNCHANGED <<running, stopping, live, lifecycle, tasks, thread>>
       PROVE  PoolPhases'
  BY <1>12 DEF PoolPhases, Drained
<1>13. ASSUME UNCHANGED vars \/ \E p \in Pairs : SubmitCheck(p)
       PROVE  PoolPhases'
  BY <1>12, <1>13 DEF vars, startVars, SubmitCheck
<1>14. CASE StartRunning
  BY <1>14 DEF StartRunning, PoolPhases, Drained
<1>15. CASE StartPool
  <2>1. tasks' = tasks /\ \A u \in Threads : thread'[u] = Ready
    BY <1>15 DEF StartPool
  <2>2. QED
    BY <1>1, <1>15, <2>1 DEF StartPool, PoolPhases, Drained
<1>16. CASE StartPoolFails
  <2>1. \A u \in Threads : thread'[u] \in {Absent, Ready}
    BY <1>16 DEF StartPoolFails
  <2>2. QED
    BY <1>16, <2>1 DEF StartPoolFails, PoolPhases, Drained
<1>17. ASSUME At("absent") = Threads
       PROVE  \A u \in Threads : thread[u] = Absent
  BY <1>0, <1>17 DEF At, Threadlike, Absent, Ready, Waiting, Thread, BusyPCs
<1>18. CASE StartUndone
  BY <1>17, <1>18 DEF StartUndone, PoolPhases, Drained
<1>19. CASE StopRunning
  BY <1>19 DEF StopRunning, PoolPhases, Drained
<1>20. CASE StopPool
  BY <1>20 DEF StopPool, PoolPhases, Drained
<1>21. CASE StopNotify
  <2>1. \A u \in Threads : \/ thread'[u] = thread[u]
                           \/ thread'[u] = Ready /\ thread[u] = Waiting
    BY <1>21 DEF StopNotify
  <2>2. QED
    BY <1>1, <1>21, <2>1 DEF StopNotify, PoolPhases
<1>22. CASE StopJoined
  BY <1>17, <1>22 DEF StopJoined, PoolPhases, Drained
<1>23. CASE StopClear
  BY <1>23 DEF StopClear, PoolPhases, Drained
<1>24. QED
  BY <1>2, <1>3, <1>6, <1>7, <1>8, <1>9, <1>10, <1>11, <1>13, <1>14, <1>15,
     <1>16, <1>18, <1>19, <1>20, <1>21, <1>22, <1>23
     DEF Next, ThreadStep, StopStep

-----------------------------------------------------------------------------
(* Ownership and stop.                                                     *)

\* The invariant holds throughout.
THEOREM PoolInductive == Spec => []PoolInvariant
<1>1. ASSUME Init PROVE PoolInvariant
  <2>1. TypeOK
    <3>1. StartTyped
      BY <1>1 DEF Init, StartTyped, Lifecycles
    <3>2. Absent \in Threadlike /\ "application" \in Stages
      BY DEF Threadlike, Stages
    <3>3. <<>> \in Seq(PoolTasks) /\ <<>> \in Seq(Pairs)
      OBVIOUS
    <3>4. /\ [t \in Threads |-> Absent] \in [Threads -> Threadlike]
          /\ [p \in Pairs |-> "application"] \in [Pairs -> Stages]
      BY <3>2
    <3>5. ClosuresTyped
      BY <1>1, <3>3, <3>4 DEF Init, ClosuresTyped
    <3>6. QED
      BY <3>1, <3>5, TypeParts
  <2>2. TaskSlots = {} /\ LaneSlots = {}
    BY <1>1 DEF Init, TaskSlots, LaneSlots
  <2>3. \A t \in Threads : thread[t] = Absent /\ Role(t) = "idle" /\ Pair(t) = NoPair
    BY <1>1 DEF Init, Role, Pair, Absent, Thread
  <2>4. Distinct
    BY <2>2, <2>3 DEF Distinct, TasksApart, LaneApart, ThreadsApart,
       TaskThreadApart, LaneThreadApart, TaskLaneApart
  <2>5. StageOf
    BY <1>1, <2>2, <2>3 DEF Init, StageOf, BusyPCs
  <2>6. LaneOwned
    BY <1>1, <2>2, <2>3 DEF Init, LaneOwned, LaneThread
  <2>7. PoolPhases
    BY <1>1, <2>3 DEF Init, PoolPhases, Drained
  <2>8. QED
    BY <2>1, <2>4, <2>5, <2>6, <2>7 DEF PoolInvariant
<1>2. ASSUME PoolInvariant, [Next]_vars
      PROVE  PoolInvariant'
  <2>1. TypeOK /\ Distinct /\ StageOf /\ LaneOwned /\ PoolPhases
    BY <1>2 DEF PoolInvariant
  <2>2. TypeOK' /\ PoolPhases'
    BY <1>2, <2>1, TypeStep, PhasesStep
  <2>3. Distinct' /\ StageOf' /\ LaneOwned'
    BY <1>2, <2>1, Effects, DistinctStep, StageStep, LaneStep
  <2>4. QED
    BY <2>2, <2>3 DEF PoolInvariant
<1>3. QED
  BY <1>1, <1>2, PTL DEF Spec

\* The owner of a closure invokes or destroys it exactly once: an accepted
\* pair is in exactly one of the task queue, a worker thread and the lane until
\* its completion is over, and in none of them before and after.
THEOREM SingleOwnerAlways == Spec => []SingleOwner
<1>1. PoolInvariant => SingleOwner
  <2> SUFFICES ASSUME PoolInvariant
               PROVE  SingleOwner
    OBVIOUS
  <2>1. TypeOK /\ Distinct /\ StageOf
    BY DEF PoolInvariant
  <2>2. ASSUME NEW p \in Pairs
        PROVE  Cardinality(Holders(p)) =
                  IF stage[p] \in {"accepted", "due", "running"} THEN 1 ELSE 0
    <3>1. p # NoPair
      BY PoolAssumption
    <3>2. Holders(p) =
             {<<"task", k>> : k \in {i \in TaskSlots : tasks[i].pair = p}}
             \cup {<<"thread", t>> : t \in {u \in Threads : Pair(u) = p}}
             \cup {<<"lane", k>> : k \in {i \in LaneSlots : lane_pending[i] = p}}
      BY DEF Holders, TaskSlots, LaneSlots, Pair
    <3>3. CASE ~Held(p)
      <4>1. Holders(p) = {}
        BY <3>2, <3>3 DEF Held
      <4>2. QED
        BY <2>1, <3>3, <4>1, FS_EmptySet DEF StageOf
    <3>4. CASE Held(p)
      <4>1. stage[p] \in {"accepted", "due", "running"}
        <5>1. CASE \E i \in TaskSlots : tasks[i].pair = p
          BY <2>1, <5>1 DEF StageOf, TaskStage
        <5>2. CASE \E t \in Threads : Pair(t) = p
          <6>1. PICK t \in Threads : Pair(t) = p
            BY <5>2
          <6>2. Role(t) \in BusyPCs
            BY <2>1, <3>1, <6>1, RoleIs
          <6>3. QED
            BY <2>1, <6>1, <6>2 DEF StageOf, RoleStage, BusyPCs
        <5>3. CASE \E i \in LaneSlots : lane_pending[i] = p
          BY <2>1, <5>3 DEF StageOf
        <5>4. QED
          BY <3>4, <5>1, <5>2, <5>3 DEF Held
      <4>2. \E x : Holders(p) = {x}
        <5>1. CASE \E i \in TaskSlots : tasks[i].pair = p
          <6>1. PICK k \in TaskSlots : tasks[k].pair = p
            BY <5>1
          <6>2. Holders(p) = {<<"task", k>>}
            BY <2>1, <3>2, <6>1
               DEF Distinct, TasksApart, TaskThreadApart, TaskLaneApart
          <6>3. QED
            BY <6>2
        <5>2. CASE \E t \in Threads : Pair(t) = p
          <6>1. PICK t \in Threads : Pair(t) = p
            BY <5>2
          <6>2. Holders(p) = {<<"thread", t>>}
            BY <2>1, <3>1, <3>2, <6>1
               DEF Distinct, ThreadsApart, TaskThreadApart, LaneThreadApart
          <6>3. QED
            BY <6>2
        <5>3. CASE \E i \in LaneSlots : lane_pending[i] = p
          <6>1. PICK k \in LaneSlots : lane_pending[k] = p
            BY <5>3
          <6>2. Holders(p) = {<<"lane", k>>}
            BY <2>1, <3>2, <6>1
               DEF Distinct, LaneApart, LaneThreadApart, TaskLaneApart
          <6>3. QED
            BY <6>2
        <5>4. QED
          BY <3>4, <5>1, <5>2, <5>3 DEF Held
      <4>3. Cardinality(Holders(p)) = 1
        BY <4>2, FS_Singleton
      <4>4. QED
        BY <4>1, <4>3
    <3>5. QED
      BY <3>3, <3>4
  <2>3. QED
    BY <2>1, <2>2 DEF SingleOwner
<1>2. QED
  BY <1>1, PoolInductive, PTL

\* When mudmux_workers_stop has returned no accepted work and no completion is
\* left behind: the threads have drained the queue before they left, and the
\* lane, whose owner was among them, is free and empty.
THEOREM StopRunsEverythingAlways == Spec => []StopRunsEverything
<1>1. PoolInvariant => StopRunsEverything
  <2> SUFFICES ASSUME PoolInvariant, lifecycle = "stopped", NEW p \in Pairs
               PROVE  stage[p] \in {"application", "done"}
    BY DEF StopRunsEverything
  <2>1. TypeOK /\ StageOf /\ LaneOwned /\ PoolPhases
    BY DEF PoolInvariant
  <2>2. tasks = <<>> /\ \A t \in Threads : thread[t] = Absent
    BY <2>1 DEF PoolPhases, Drained
  <2>3. /\ TaskSlots = {}
        /\ \A t \in Threads : ~LaneThread(t) /\ Pair(t) = NoPair
    BY <2>1, <2>2, SlotValues DEF LaneThread, Role, Pair, Absent, Thread
  <2>4. lane_pending = <<>>
    BY <2>1, <2>3 DEF LaneOwned
  <2>5. LaneSlots = {}
    BY <2>1, <2>4, SlotValues
  <2>6. ~Held(p)
    BY <2>3, <2>5, PoolAssumption DEF Held
  <2>7. QED
    BY <2>1, <2>6 DEF StageOf, TypeOK
<1>2. QED
  BY <1>1, PoolInductive, PTL

-----------------------------------------------------------------------------
(* The pool implements DetachedWork.                                       *)

\* The completion the lane is busy with.
LaneFirst(p) ==
    \/ \E t \in Threads : Role(t) \in {"hand_over", "completion"} /\ Pair(t) = p
    \/ \E i \in TaskSlots : LaneTask(i) /\ tasks[i].pair = p

\* It is what the refinement mapping puts first, and there is only one.
LEMMA LaneBarIs ==
    TypeOK /\ LaneOwned =>
        /\ \A p \in Pairs : LaneFirst(p) => laneBar = <<p>> \o lane_pending
        /\ (\A p \in Pairs : ~LaneFirst(p)) => laneBar = lane_pending
<1> SUFFICES ASSUME TypeOK, LaneOwned
             PROVE  /\ \A p \in Pairs : LaneFirst(p) => laneBar = <<p>> \o lane_pending
                    /\ (\A p \in Pairs : ~LaneFirst(p)) => laneBar = lane_pending
  OBVIOUS
<1>1. ASSUME NEW p \in Pairs
      PROVE  InLane(p) <=> LaneFirst(p)
  <2>1. ASSUME NEW t \in Threads
        PROVE  thread[t] \in {Thread("hand_over", p), Thread("completion", p)}
               <=> Role(t) \in {"hand_over", "completion"} /\ Pair(t) = p
    <3>1. ASSUME NEW role \in {"hand_over", "completion"}, thread[t] = Thread(role, p)
          PROVE  Role(t) = role /\ Pair(t) = p
      BY <3>1 DEF Role, Pair, Thread
    <3>2. ASSUME Role(t) \in {"hand_over", "completion"}, Pair(t) = p
          PROVE  thread[t] = Thread(Role(t), p)
      BY <3>2, RoleIs DEF BusyPCs
    <3>3. QED
      BY <3>1, <3>2
  <2>2. ASSUME NEW i \in TaskSlots
        PROVE  tasks[i] = [kind |-> "completion", pair |-> p]
               <=> LaneTask(i) /\ tasks[i].pair = p
    <3>1. tasks[i] \in [kind : {"work", "completion"}, pair : Pairs]
      BY SlotValues DEF PoolTasks
    <3>2. QED
      BY <3>1 DEF LaneTask
  <2>3. QED
    BY <2>1, <2>2 DEF InLane, LaneFirst, TaskSlots
<1>2. ASSUME NEW p, NEW q, LaneFirst(p), LaneFirst(q)
      PROVE  p = q
  <2>1. \A t \in Threads : Role(t) \in {"hand_over", "completion"} => LaneThread(t)
    BY DEF LaneThread
  <2>2. QED
    BY <1>2, <2>1 DEF LaneFirst, LaneOwned
<1>3. ASSUME NEW p \in Pairs, LaneFirst(p)
      PROVE  laneBar = <<p>> \o lane_pending
  <2>1. \E q \in Pairs : InLane(q)
    BY <1>1, <1>3
  <2>2. InLane(CHOOSE q \in Pairs : InLane(q)) /\ (CHOOSE q \in Pairs : InLane(q)) \in Pairs
    BY <2>1, Zenon
  <2>3. (CHOOSE q \in Pairs : InLane(q)) = p
    BY <1>1, <1>2, <1>3, <2>2, Zenon
  <2>4. QED
    BY <2>1, <2>3, Zenon DEF laneBar
<1>4. ASSUME \A p \in Pairs : ~LaneFirst(p)
      PROVE  laneBar = lane_pending
  BY <1>1, <1>4 DEF laneBar
<1>5. QED
  BY <1>3, <1>4

\* The same after a step.
LEMMA LaneBarNext ==
    (TypeOK /\ LaneOwned)' =>
        (/\ \A p \in Pairs : LaneFirst(p) => laneBar = <<p>> \o lane_pending
         /\ (\A p \in Pairs : ~LaneFirst(p)) => laneBar = lane_pending)'
BY LaneBarIs, PTL

\* A completion put before the ones that wait.
LEMMA Prepended ==
    ASSUME NEW S, NEW s \in Seq(S), NEW p \in S
    PROVE  /\ <<p>> \o s # <<>> /\ Head(<<p>> \o s) = p /\ Tail(<<p>> \o s) = s
           /\ \A q \in S : <<p>> \o Append(s, q) = Append(<<p>> \o s, q)
           /\ s = <<>> => <<p>> \o s = Append(s, p)
OBVIOUS

\* Taking the first of the ones that wait and putting it before the others
\* changes nothing.
LEMMA HeadPrepended ==
    ASSUME NEW S, NEW s \in Seq(S), s # <<>>
    PROVE  <<Head(s)>> \o Tail(s) = s
OBVIOUS

\* A step after which the lane is busy with the same completion, or with none
\* as before.
FirstKept == \A q \in Pairs : LaneFirst(q)' <=> LaneFirst(q)

\* It keeps the completions owed when it keeps those that wait,
LEMMA BarKept ==
    ASSUME TypeOK, LaneOwned, TypeOK', LaneOwned', FirstKept, UNCHANGED lane_pending
    PROVE  laneBar' = laneBar
<1>1. CASE \E p \in Pairs : LaneFirst(p)
  <2>1. PICK p \in Pairs : LaneFirst(p)
    BY <1>1
  <2>2. LaneFirst(p)'
    BY <2>1 DEF FirstKept
  <2>3. laneBar = <<p>> \o lane_pending
    BY <2>1, LaneBarIs
  <2>4. laneBar' = <<p>> \o lane_pending'
    BY <2>2, LaneBarNext
  <2>5. QED
    BY <2>3, <2>4
<1>2. CASE \A p \in Pairs : ~LaneFirst(p)
  <2>1. \A p \in Pairs : ~LaneFirst(p)'
    BY <1>2 DEF FirstKept
  <2>2. laneBar = lane_pending
    BY <1>2, LaneBarIs
  <2>3. laneBar' = lane_pending'
    BY <2>1, LaneBarNext
  <2>4. QED
    BY <2>2, <2>3
<1>3. QED
  BY <1>1, <1>2

\* and adds the completion that it adds to those.
LEMMA BarAppended ==
    ASSUME TypeOK, LaneOwned, TypeOK', LaneOwned', FirstKept,
           NEW p \in Pairs, lane_pending' = Append(lane_pending, p)
    PROVE  laneBar' = Append(laneBar, p)
<1>0. lane_pending \in Seq(Pairs)
  BY DEF TypeOK
<1>1. CASE \E q \in Pairs : LaneFirst(q)
  <2>1. PICK q \in Pairs : LaneFirst(q)
    BY <1>1
  <2>2. LaneFirst(q)'
    BY <2>1 DEF FirstKept
  <2>3. laneBar = <<q>> \o lane_pending
    BY <2>1, LaneBarIs
  <2>4. laneBar' = <<q>> \o lane_pending'
    BY <2>2, LaneBarNext
  <2>5. <<q>> \o Append(lane_pending, p) = Append(<<q>> \o lane_pending, p)
    BY <1>0, Prepended
  <2>6. QED
    BY <2>3, <2>4, <2>5, Zenon
<1>2. CASE \A q \in Pairs : ~LaneFirst(q)
  <2>1. \A q \in Pairs : ~LaneFirst(q)'
    BY <1>2 DEF FirstKept
  <2>2. laneBar = lane_pending
    BY <1>2, LaneBarIs
  <2>3. laneBar' = lane_pending'
    BY <2>1, LaneBarNext
  <2>4. QED
    BY <2>2, <2>3, Zenon
<1>3. QED
  BY <1>1, <1>2

\* The task queue without completions that come or go, and threads whose hold
\* of the lane does not change, keep what the lane is busy with.
LEMMA FirstUnchanged ==
    ASSUME UNCHANGED tasks,
           \A u \in Threads :
              \/ Role(u)' = Role(u) /\ Pair(u)' = Pair(u)
              \/ {Role(u), Role(u)'} \subseteq {"hand_over", "completion"} /\ Pair(u)' = Pair(u)
              \/ {Role(u), Role(u)'} \cap {"hand_over", "completion"} = {}
    PROVE  FirstKept
BY DEF FirstKept, LaneFirst, TaskSlots, LaneTask

\* Every step of the pool is one of DetachedWork, or leaves the stages of the
\* pairs and the completions owed as they are.
LEMMA StepDetached ==
    ASSUME PoolInvariant, PoolInvariant', [Next]_vars
    PROVE  [Abstract!Next]_<<stage, laneBar>>
<1>0. /\ TypeOK /\ Distinct /\ StageOf /\ LaneOwned
      /\ TypeOK' /\ LaneOwned'
      /\ lane_pending \in Seq(Pairs)
  BY DEF PoolInvariant, TypeOK
<1>1. ASSUME NEW p \in Pairs, Accepts(p)
      PROVE  Abstract!Accept(p)
  <2> DEFINE task == [kind |-> "work", pair |-> p]
  <2>1. task \in PoolTasks /\ task.kind # "completion"
    BY DEF PoolTasks
  <2>2. tasks' = Append(tasks, task)
    BY <1>1 DEF Accepts
  <2> HIDE DEF task
  <2>3. PICK n : /\ TaskSlots' = TaskSlots \cup {n} /\ n \notin TaskSlots
                 /\ tasks'[n] = task
                 /\ \A i \in TaskSlots : tasks'[i] = tasks[i]
    BY <1>0, <2>1, <2>2, TaskPushed
  <2>4. RolesKept /\ UNCHANGED lane_pending
    BY <1>1 DEF Accepts
  <2>5. FirstKept
    BY <2>1, <2>3, <2>4 DEF FirstKept, LaneFirst, LaneTask, RolesKept
  <2>6. laneBar' = laneBar
    BY <1>0, <2>4, <2>5, BarKept
  <2>7. stage[p] = "application" /\ stage' = [stage EXCEPT ![p] = "accepted"]
    BY <1>0, <1>1 DEF Accepts, StageOf
  <2>8. QED
    BY <2>6, <2>7 DEF Abstract!Accept
<1>2. ASSUME NEW t \in Threads, Takes(t)
      PROVE  Abstract!CompletionBegins \/ UNCHANGED <<stage, laneBar>>
  <2>1. tasks' = Tail(tasks) /\ tasks # <<>>
    BY <1>2 DEF Takes
  <2>2. PICK first \in TaskSlots, old \in [TaskSlots' -> TaskSlots] :
           /\ \A i \in TaskSlots' : old[i] # first
           /\ Head(tasks) = tasks[first]
           /\ \A i \in TaskSlots' : tasks'[i] = tasks[old[i]]
           /\ \A k \in TaskSlots \ {first} : \E i \in TaskSlots' : old[i] = k
    BY <1>0, <2>1, TaskPopped
  <2>3. Head(tasks).kind \in {"work", "completion"} /\ Head(tasks).pair \in Pairs
    BY <1>0, <2>1, TaskPopped DEF PoolTasks
  <2>4. PICK kind, p : kind = Head(tasks).kind /\ p = Head(tasks).pair
    OBVIOUS
  <2>5. /\ kind \in {"work", "completion"} /\ p \in Pairs
        /\ tasks[first].kind = kind /\ tasks[first].pair = p
        /\ Role(t) = "idle" /\ Becomes(t, kind, p) /\ UNCHANGED lane_pending
        /\ stage' = IF kind = "completion" THEN [stage EXCEPT ![p] = "running"] ELSE stage
    BY <1>2, <2>2, <2>3, <2>4 DEF Takes
  <2>6. \A q \in Pairs :
           (\E i \in TaskSlots : LaneTask(i) /\ tasks[i].pair = q)
           <=> \/ \E i \in TaskSlots' : LaneTask(i)' /\ tasks'[i].pair = q
               \/ kind = "completion" /\ q = p
    BY <2>2, <2>5 DEF LaneTask
  <2>7. \A q \in Pairs :
           (\E u \in Threads : Role(u)' \in {"hand_over", "completion"} /\ Pair(u)' = q)
           <=> \/ \E u \in Threads : Role(u) \in {"hand_over", "completion"} /\ Pair(u) = q
               \/ kind = "completion" /\ q = p
    BY <2>5 DEF Becomes
  <2>8. FirstKept
    BY <2>6, <2>7 DEF FirstKept, LaneFirst
  <2>9. laneBar' = laneBar
    BY <1>0, <2>5, <2>8, BarKept
  <2>10. CASE kind = "completion"
    <3>1. LaneFirst(p) /\ stage[p] = "due"
      BY <1>0, <2>2, <2>5, <2>10 DEF LaneFirst, LaneTask, StageOf, TaskStage
    <3>2. laneBar = <<p>> \o lane_pending
      BY <1>0, <2>5, <3>1, LaneBarIs
    <3>3. <<p>> \o lane_pending # <<>> /\ Head(<<p>> \o lane_pending) = p
      BY <1>0, <2>5, Prepended
    <3>4. stage' = [stage EXCEPT ![p] = "running"]
      BY <2>5, <2>10
    <3>5. QED
      BY <2>9, <3>1, <3>2, <3>3, <3>4, Zenon DEF Abstract!CompletionBegins
  <2>11. QED
    BY <2>5, <2>9, <2>10
<1>3. ASSUME NEW t \in Threads, WorkEnds(t)
      PROVE  UNCHANGED <<stage, laneBar>>
  <2>1. FirstKept
    BY <1>3, FirstUnchanged DEF WorkEnds, Becomes
  <2>2. QED
    BY <1>0, <1>3, <2>1, BarKept DEF WorkEnds
<1>4. ASSUME NEW t \in Threads, Role(t) = "schedule"
      PROVE  \E p \in Pairs : p = Pair(t) /\ stage[p] = "accepted"
  BY <1>0, <1>4, RoleIs DEF BusyPCs, StageOf, RoleStage
<1>5. ASSUME NEW t \in Threads, Queues(t)
      PROVE  \E p \in Pairs : Abstract!CompletionDue(p)
  <2>1. PICK p \in Pairs : p = Pair(t) /\ stage[p] = "accepted"
    BY <1>4, <1>5 DEF Queues
  <2>2. FirstKept
    BY <1>5, FirstUnchanged DEF Queues, Becomes
  <2>3. lane_pending' = Append(lane_pending, p) /\ stage' = [stage EXCEPT ![p] = "due"]
    BY <1>5, <2>1 DEF Queues
  <2>4. laneBar' = Append(laneBar, p)
    BY <1>0, <2>2, <2>3, BarAppended
  <2>5. QED
    BY <2>1, <2>3, <2>4, Zenon DEF Abstract!CompletionDue
<1>6. ASSUME NEW t \in Threads, Claims(t)
      PROVE  \E p \in Pairs : Abstract!CompletionDue(p)
  <2>1. PICK p \in Pairs : p = Pair(t) /\ stage[p] = "accepted"
    BY <1>4, <1>6 DEF Claims
  <2>2. /\ ~lane_active /\ UNCHANGED <<tasks, lane_pending>>
        /\ Becomes(t, "hand_over", p) /\ stage' = [stage EXCEPT ![p] = "due"]
    BY <1>6, <2>1 DEF Claims
  <2>3. lane_pending = <<>> /\ \A q \in Pairs : ~LaneFirst(q)
    BY <1>0, <2>2 DEF LaneOwned, LaneFirst, LaneThread
  <2>4. LaneFirst(p)'
    BY <2>2 DEF LaneFirst, Becomes
  <2>5. laneBar = lane_pending
    BY <1>0, <2>3, LaneBarIs
  <2>6. laneBar' = <<p>> \o lane_pending'
    BY <1>0, <2>4, LaneBarNext
  <2>7. <<p>> \o lane_pending = Append(lane_pending, p)
    BY <1>0, <2>3, Prepended
  <2>8. laneBar' = Append(laneBar, p)
    BY <2>2, <2>5, <2>6, <2>7, Zenon
  <2>9. QED
    BY <2>1, <2>2, <2>8, Zenon DEF Abstract!CompletionDue
<1>7. ASSUME NEW t \in Threads, Runs(t)
      PROVE  Abstract!CompletionBegins
  <2>1. PICK p \in Pairs : p = Pair(t) /\ stage[p] = "due"
    BY <1>0, <1>7, RoleIs DEF Runs, BusyPCs, StageOf, RoleStage
  <2>2. FirstKept
    BY <1>7, FirstUnchanged DEF Runs, Becomes
  <2>3. laneBar' = laneBar /\ stage' = [stage EXCEPT ![p] = "running"]
    BY <1>0, <1>7, <2>1, <2>2, BarKept DEF Runs
  <2>4. LaneFirst(p)
    BY <1>7, <2>1 DEF Runs, LaneFirst
  <2>5. laneBar # <<>> /\ Head(laneBar) = p
    BY <1>0, <2>4, LaneBarIs, Prepended
  <2>6. QED
    BY <2>1, <2>3, <2>5, Zenon DEF Abstract!CompletionBegins
<1>8. ASSUME NEW t \in Threads, HandsOver(t)
      PROVE  UNCHANGED <<stage, laneBar>>
  <2>1. PICK p \in Pairs : p = Pair(t)
    BY <1>0, <1>8, RoleIs DEF HandsOver, BusyPCs
  <2> DEFINE task == [kind |-> "completion", pair |-> p]
  <2>2. task \in PoolTasks /\ task.kind = "completion" /\ task.pair = p
    BY DEF PoolTasks
  <2>3. /\ tasks' = Append(tasks, task) /\ UNCHANGED <<lane_pending, stage>>
        /\ Role(t) = "hand_over" /\ Becomes(t, "idle", NoPair)
    BY <1>8, <2>1 DEF HandsOver
  <2> HIDE DEF task
  <2>4. PICK n : /\ TaskSlots' = TaskSlots \cup {n} /\ n \notin TaskSlots
                 /\ tasks'[n] = task
                 /\ \A i \in TaskSlots : tasks'[i] = tasks[i]
    BY <1>0, <2>2, <2>3, TaskPushed
  <2>5. FirstKept
    BY <2>1, <2>2, <2>3, <2>4 DEF FirstKept, LaneFirst, LaneTask, Becomes
  <2>6. QED
    BY <1>0, <2>3, <2>5, BarKept
<1>9. ASSUME NEW t \in Threads, Completes(t)
      PROVE  Abstract!CompletionEnds
  <2>1. PICK p \in Pairs : p = Pair(t) /\ stage[p] = "running"
    BY <1>0, <1>9, RoleIs DEF Completes, BusyPCs, StageOf, RoleStage
  <2>2. /\ Role(t) = "completion" /\ Becomes(t, "next", NoPair)
        /\ UNCHANGED <<tasks, lane_pending>> /\ stage' = [stage EXCEPT ![p] = "done"]
    BY <1>9, <2>1 DEF Completes
  <2>3. LaneFirst(p)
    BY <2>1, <2>2 DEF LaneFirst
  <2>4. /\ laneBar = <<p>> \o lane_pending
        /\ laneBar # <<>> /\ Head(laneBar) = p /\ Tail(laneBar) = lane_pending
    BY <1>0, <2>3, LaneBarIs, Prepended
  <2>5. LaneThread(t)'
    BY <2>2 DEF LaneThread, Becomes
  <2>6. Role(t)' = "next"
    BY <2>2 DEF Becomes
  <2>7. \A q \in Pairs : ~LaneFirst(q)'
    BY <1>0, <2>5, <2>6 DEF LaneFirst, LaneOwned, LaneThread
  <2>8. laneBar' = Tail(laneBar)
    BY <1>0, <2>2, <2>4, <2>7, LaneBarNext
  <2>9. QED
    BY <2>1, <2>2, <2>4, <2>8, Zenon DEF Abstract!CompletionEnds
<1>10. ASSUME NEW t \in Threads, Frees(t)
       PROVE  UNCHANGED <<stage, laneBar>>
  <2>1. FirstKept
    BY <1>10, FirstUnchanged DEF Frees, Becomes
  <2>2. QED
    BY <1>0, <1>10, <2>1, BarKept DEF Frees
<1>11. ASSUME NEW t \in Threads, Continues(t)
       PROVE  UNCHANGED <<stage, laneBar>>
  <2>1. PICK p : p = Head(lane_pending)
    OBVIOUS
  <2>2. /\ lane_pending # <<>> /\ lane_pending' = Tail(lane_pending)
        /\ Role(t) = "next" /\ Becomes(t, "hand_over", p)
        /\ UNCHANGED <<tasks, stage>>
    BY <1>11, <2>1 DEF Continues
  <2>3. p \in Pairs /\ <<p>> \o lane_pending' = lane_pending
    BY <1>0, <2>1, <2>2, HeadPrepended, TailSlots
  <2>4. \A q \in Pairs : ~LaneFirst(q)
    BY <1>0, <2>2 DEF LaneFirst, LaneOwned, LaneThread
  <2>5. LaneFirst(p)'
    BY <2>2 DEF LaneFirst, Becomes
  <2>6. laneBar = lane_pending
    BY <1>0, <2>4, LaneBarIs
  <2>7. laneBar' = <<p>> \o lane_pending'
    BY <1>0, <2>3, <2>5, LaneBarNext
  <2>8. QED
    BY <2>2, <2>3, <2>6, <2>7, Zenon
<1>12. CASE Rests
  <2>1. FirstKept
    BY <1>12, FirstUnchanged DEF Rests, RolesKept
  <2>2. QED
    BY <1>0, <1>12, <2>1, BarKept DEF Rests
<1>13. QED
  BY Effects, <1>1, <1>2, <1>3, <1>5, <1>6, <1>7, <1>8, <1>9, <1>10, <1>11, <1>12
     DEF Moves, Abstract!Next

\* The pool and the completion lane implement DetachedWork for any number of
\* threads and pairs, through any sequence of starts and stops: every accepted
\* pair has its work run once and then its completion, completions run one at a
\* time in the order in which their work ended, and none is lost or destroyed.
THEOREM PoolIsDetachedWork == Spec => CompletionsSerialized
<1>1. ASSUME Init PROVE Abstract!Init
  <2>1. \A t \in Threads : thread[t] = Absent
    BY <1>1 DEF Init
  <2>2. \A p \in Pairs : ~InLane(p)
    BY <1>1, <2>1 DEF Init, InLane, Absent, Thread
  <2>3. QED
    BY <1>1, <2>2 DEF Init, laneBar, Abstract!Init
<1>2. PoolInvariant /\ PoolInvariant' /\ [Next]_vars
        => [Abstract!Next]_<<stage, laneBar>>
  BY StepDetached
<1>3. QED
  BY <1>1, <1>2, PoolInductive, PTL DEF Spec, CompletionsSerialized, Abstract!Spec
=============================================================================
