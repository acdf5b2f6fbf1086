-------------------------- MODULE AsyncQueueProofs --------------------------
(***************************************************************************)
(* Theorems about AsyncQueue, for every capacity, message size and finite  *)
(* set of writers.                                                         *)
(***************************************************************************)
EXTENDS AsyncQueue, FiniteSetTheorems, SequenceTheorems, TLAPS

-----------------------------------------------------------------------------
(* Arithmetic of the circular index.                                       *)

\* An index below the capacity is itself,
LEMMA ModSmall ==
    ASSUME NEW n \in Nat \ {0}, NEW x \in 0..(n - 1)
    PROVE  x % n = x
BY SMTT(30)

\* and one in the next turn loses one capacity.
LEMMA ModTurn ==
    ASSUME NEW n \in Nat \ {0}, NEW x \in n..(2 * n - 1)
    PROVE  x % n = x - n
BY SMTT(30)

\* A position at most one capacity past the read position, without %.
LEMMA Position ==
    ASSUME NEW n \in Nat \ {0}, NEW t \in 0..(n - 1), NEW i \in 0..n
    PROVE  (t + i) % n = IF t + i < n THEN t + i ELSE t + i - n
<1>1. CASE t + i < n
  <2>1. t + i \in 0..(n - 1)
    BY <1>1
  <2>2. (t + i) % n = t + i
    BY <2>1, ModSmall
  <2>3. QED
    BY <1>1, <2>2, Zenon
<1>2. CASE ~(t + i < n)
  <2>1. t + i \in n..(2 * n - 1)
    BY <1>2
  <2>2. (t + i) % n = t + i - n
    BY <2>1, ModTurn
  <2>3. QED
    BY <1>2, <2>2, Zenon
<1>3. QED
  BY <1>1, <1>2

\* A full buffer ends where it begins.
LEMMA FullTurn ==
    ASSUME NEW n \in Nat \ {0}, NEW t \in 0..(n - 1)
    PROVE  (t + n) % n = t
<1>1. t + n \in n..(2 * n - 1) /\ t + n - n = t
  OBVIOUS
<1>2. (t + n) % n = t + n - n
  BY <1>1, ModTurn
<1>3. QED
  BY <1>1, <1>2, Zenon

\* Advancing an index keeps it in the buffer.
LEMMA AdvanceIs ==
    ASSUME NEW i \in Indices
    PROVE  /\ Advance(i) = IF i + 1 < Capacity THEN i + 1 ELSE 0
           /\ Advance(i) \in Indices
<1>1. Capacity \in Nat \ {0} /\ 1 \in 0..Capacity
  BY QueueAssumption
<1>2. (i + 1) % Capacity = IF i + 1 < Capacity THEN i + 1 ELSE i + 1 - Capacity
  BY <1>1, Position DEF Indices
<1>3. QED
  BY <1>1, <1>2 DEF Advance, Indices

-----------------------------------------------------------------------------
(* The inductive invariant.                                                *)

\* Initially the buffer is empty and nobody sleeps.
LEMMA InitQueue == Init => QueueInvariant
<1> SUFFICES ASSUME Init PROVE QueueInvariant
  OBVIOUS
<1>1. Capacity \in Nat \ {0} /\ MaxMsgSize \in Nat \ {0}
  BY QueueAssumption
<1>2. TypeOK
  BY <1>1 DEF Init, TypeOK, Indices
<1>3. HeadFollowsTail
  <2>1. 0 % Capacity = 0
    BY <1>1, ModSmall
  <2>2. QED
    BY <2>1 DEF Init, HeadFollowsTail
<1>4. NoLostWakeup
  BY DEF Init, NoLostWakeup, WriterAt
<1>5. Accounted
  BY DEF Init, Accounted
<1>6. QED
  BY <1>2, <1>3, <1>4, <1>5 DEF QueueInvariant

\* Every step keeps the types.
LEMMA StepType ==
    ASSUME TypeOK, HeadFollowsTail, [Next]_vars
    PROVE  TypeOK'
<1> USE QueueAssumption
<1>0. /\ Advance(head) \in Indices /\ Advance(tail) \in Indices
      /\ Messages \subseteq 0..MaxMsgSize
  BY AdvanceIs DEF TypeOK, Messages
<1>1. ASSUME NEW w \in Writers, NEW m \in Messages, Enqueue(w, m)
      PROVE  TypeOK'
  <2>1. CASE StoreInRoom(m)
    BY <1>0, <1>1, <2>1 DEF TypeOK, Enqueue, StoreInRoom, Store, Full
  <2>2. CASE DropOldest(m)
    BY <1>0, <1>1, <2>2 DEF TypeOK, Enqueue, DropOldest, Store, Full
  <2>3. QED
    BY <1>1, <2>1, <2>2 DEF Enqueue
<1>2. ASSUME NEW w \in Writers, NEW m \in Messages, EnqueueBlocks(w, m)
      PROVE  TypeOK'
  BY <1>0, <1>2 DEF TypeOK, EnqueueBlocks, ring, stats
<1>3. ASSUME NEW w \in Writers, Resume(w)
      PROVE  TypeOK'
  <2>1. CASE Full
    BY <1>3, <2>1 DEF TypeOK, Resume, StoreInRoom, ring, stats
  <2>2. CASE ~Full
    <3>1. offer[w] \in Messages
      BY <1>3 DEF TypeOK, Resume
    <3>2. QED
      BY <1>0, <1>3, <2>2, <3>1 DEF TypeOK, Resume, StoreInRoom, Store, Full
  <2>3. QED
    BY <2>1, <2>2
<1>4. ASSUME NEW w \in Writers, SpuriousWakeup(w)
      PROVE  TypeOK'
  BY <1>4 DEF TypeOK, SpuriousWakeup, ring, stats
<1>5. ASSUME NEW size \in Messages, Dequeue(size)
      PROVE  TypeOK'
  BY <1>0, <1>5 DEF TypeOK, Dequeue, NotifyOne, WakeOne, WriterAt
<1>6. CASE Clear
  BY <1>6 DEF TypeOK, Clear, Indices, stats
<1>7. CASE UNCHANGED vars
  BY <1>7 DEF TypeOK, vars, ring, stats
<1>8. QED
  BY <1>1, <1>2, <1>3, <1>4, <1>5, <1>6, <1>7 DEF Next

\* Every step keeps the distance between the two positions.
LEMMA StepIndex ==
    ASSUME TypeOK, HeadFollowsTail, [Next]_vars
    PROVE  HeadFollowsTail'
<1>0. /\ Capacity \in Nat \ {0}
      /\ tail \in Indices /\ head \in Indices /\ count \in 0..Capacity
  BY QueueAssumption DEF TypeOK
<1>1. head = IF tail + count < Capacity THEN tail + count
             ELSE tail + count - Capacity
  BY <1>0, Position DEF HeadFollowsTail, Indices
<1>2. ASSUME NEW t \in Indices, NEW c \in 0..Capacity
      PROVE  (t + c) % Capacity = IF t + c < Capacity THEN t + c
                                  ELSE t + c - Capacity
  BY <1>0, Position DEF Indices
<1>3. ASSUME NEW m, StoreInRoom(m)
      PROVE  HeadFollowsTail'
  <2>1. count + 1 \in 0..Capacity /\ count' = count + 1 /\ tail' = tail
    BY <1>0, <1>3 DEF StoreInRoom, Full
  <2>2. head' = IF head + 1 < Capacity THEN head + 1 ELSE 0
    BY <1>0, <1>3, AdvanceIs DEF StoreInRoom, Store
  <2>3. (tail + (count + 1)) % Capacity =
            IF tail + (count + 1) < Capacity THEN tail + (count + 1)
            ELSE tail + (count + 1) - Capacity
    BY <1>0, <1>2, <2>1
  <2>4. head' = (tail + (count + 1)) % Capacity
    BY <1>0, <1>1, <2>1, <2>2, <2>3 DEF Indices
  <2>5. QED
    BY <2>1, <2>4 DEF HeadFollowsTail
<1>4. ASSUME NEW m, DropOldest(m)
      PROVE  HeadFollowsTail'
  <2>1. count = Capacity /\ count' = count /\ tail' = Advance(tail)
        /\ head' = Advance(head)
    BY <1>0, <1>4 DEF DropOldest, Full, Store
  <2>2. Advance(tail) \in 0..(Capacity - 1) /\ head = tail
    BY <1>0, <1>1, <2>1, AdvanceIs DEF Indices
  <2>3. (Advance(tail) + Capacity) % Capacity = Advance(tail)
    BY <1>0, <2>2, FullTurn
  <2>4. QED
    BY <2>1, <2>2, <2>3 DEF HeadFollowsTail
<1>5. ASSUME NEW size, Dequeue(size)
      PROVE  HeadFollowsTail'
  <2>1. count - 1 \in 0..Capacity /\ count' = count - 1 /\ head' = head
        /\ tail' = Advance(tail)
    BY <1>0, <1>5 DEF Dequeue
  <2>2. tail' \in Indices
        /\ tail' = IF tail + 1 < Capacity THEN tail + 1 ELSE 0
    BY <1>0, <2>1, AdvanceIs
  <2>3. (tail' + (count - 1)) % Capacity =
            IF tail' + (count - 1) < Capacity THEN tail' + (count - 1)
            ELSE tail' + (count - 1) - Capacity
    BY <1>2, <2>1, <2>2
  <2>4. head = (tail' + (count - 1)) % Capacity
    BY <1>0, <1>1, <2>1, <2>2, <2>3 DEF Indices
  <2>5. QED
    BY <2>1, <2>4 DEF HeadFollowsTail
<1>6. CASE Clear
  <2>1. 0 \in Indices /\ 0 \in 0..Capacity
    BY <1>0 DEF Indices
  <2>2. (0 + 0) % Capacity = 0
    BY <1>0, <1>2, <2>1
  <2>3. QED
    BY <1>6, <2>2 DEF Clear, HeadFollowsTail
<1>7. CASE UNCHANGED ring
  BY <1>7 DEF ring, HeadFollowsTail
<1>8. QED
  BY <1>3, <1>4, <1>5, <1>6, <1>7
     DEF Next, vars, Enqueue, EnqueueBlocks, Resume, SpuriousWakeup

-----------------------------------------------------------------------------
(* Sleeping writers.                                                       *)

\* The woken writers are finitely many, so they can be counted.
LEMMA WokenCount ==
    /\ IsFiniteSet(WriterAt("woken"))
    /\ Cardinality(WriterAt("woken")) \in Nat
<1>1. WriterAt("woken") \subseteq Writers
  BY DEF WriterAt
<1>2. IsFiniteSet(WriterAt("woken"))
  BY <1>1, QueueAssumption, FS_Subset
<1>3. QED
  BY <1>2, FS_CardinalityType

\* Waking a writer adds one to the woken.
LEMMA WakeCounts ==
    ASSUME TypeOK, NEW w \in WriterAt("waiting"),
           writer' = [writer EXCEPT ![w] = "woken"]
    PROVE  /\ Cardinality(WriterAt("woken")') = Cardinality(WriterAt("woken")) + 1
           /\ WriterAt("waiting")' \subseteq WriterAt("waiting")
<1>1. /\ w \in Writers /\ w \notin WriterAt("woken")
      /\ writer \in [Writers -> {"idle", "waiting", "woken"}]
  BY DEF TypeOK, WriterAt
<1>2. WriterAt("woken")' = WriterAt("woken") \cup {w}
  BY <1>1 DEF WriterAt
<1>3. Cardinality(WriterAt("woken") \cup {w}) = Cardinality(WriterAt("woken")) + 1
  BY <1>1, WokenCount, FS_AddElement
<1>4. WriterAt("waiting")' \subseteq WriterAt("waiting")
  BY <1>1 DEF WriterAt
<1>5. QED
  BY <1>2, <1>3, <1>4

\* A queue that does not block its writers has no sleepers.
LEMMA NoSleepers ==
    ASSUME TypeOK, "BLOCK_WRITER" \notin flags
    PROVE  WriterAt("waiting") = {}
BY DEF TypeOK, WriterAt

\* Every step leaves enough woken writers for the free slots.
LEMMA StepWakeup ==
    ASSUME TypeOK, NoLostWakeup, [Next]_vars
    PROVE  NoLostWakeup'
<1>0. /\ Capacity \in Nat /\ count \in 0..Capacity
      /\ Cardinality(WriterAt("woken")) \in Nat
      /\ writer \in [Writers -> {"idle", "waiting", "woken"}]
  BY QueueAssumption, WokenCount DEF TypeOK
<1> DEFINE Woken == Cardinality(WriterAt("woken"))
<1>1. ASSUME NEW w \in Writers, NEW m \in Messages, Enqueue(w, m)
      PROVE  NoLostWakeup'
  <2>1. count' \in {count, count + 1}
    BY <1>1 DEF Enqueue, StoreInRoom, DropOldest
  <2>2. WriterAt("waiting")' = WriterAt("waiting") /\ Woken' = Woken
    BY <1>1 DEF Enqueue, WriterAt
  <2>3. QED
    BY <1>0, <2>1, <2>2 DEF NoLostWakeup
<1>2. ASSUME NEW w \in Writers, NEW m \in Messages, EnqueueBlocks(w, m)
      PROVE  NoLostWakeup'
  <2>1. WriterAt("woken")' = WriterAt("woken")
    BY <1>0, <1>2 DEF EnqueueBlocks, WriterAt
  <2>2. Woken' = Woken /\ count' = count /\ count = Capacity
    BY <1>0, <1>2, <2>1 DEF EnqueueBlocks, Full, ring
  <2>3. QED
    BY <1>0, <2>2 DEF NoLostWakeup
<1>3. ASSUME NEW w \in Writers, Resume(w)
      PROVE  NoLostWakeup'
  <2>1. CASE ~Full
    <3>1. count' = count + 1 /\ writer[w] = "woken"
          /\ writer' = [writer EXCEPT ![w] = "idle"]
      BY <1>3, <2>1 DEF Resume, StoreInRoom
    <3>2. WriterAt("waiting")' = WriterAt("waiting")
          /\ WriterAt("woken")' = WriterAt("woken") \ {w}
          /\ w \in WriterAt("woken")
      BY <1>0, <3>1 DEF WriterAt
    <3>3. Woken' = Woken - 1
      BY <3>2, WokenCount, FS_RemoveElement
    <3>4. QED
      BY <1>0, <3>1, <3>2, <3>3 DEF NoLostWakeup
  <2>2. CASE Full
    <3>1. count' = count /\ count = Capacity
      BY <1>0, <1>3, <2>2 DEF Resume, StoreInRoom, Full, ring
    <3>2. Woken' \in Nat
      <4>1. WriterAt("woken")' \subseteq WriterAt("woken")
        BY <1>0, <1>3, <2>2 DEF Resume, StoreInRoom, WriterAt
      <4>2. IsFiniteSet(WriterAt("woken")')
        BY <4>1, WokenCount, FS_Subset
      <4>3. QED
        BY <4>2, FS_CardinalityType
    <3>3. QED
      BY <1>0, <3>1, <3>2 DEF NoLostWakeup
  <2>3. QED
    BY <2>1, <2>2
<1>4. ASSUME NEW w \in Writers, SpuriousWakeup(w)
      PROVE  NoLostWakeup'
  <2>1. w \in WriterAt("waiting") /\ count' = count
    BY <1>4 DEF SpuriousWakeup, WriterAt, ring
  <2>2. Woken' = Woken + 1
    BY <1>4, <2>1, WakeCounts DEF SpuriousWakeup
  <2>3. QED
    BY <1>0, <2>1, <2>2 DEF NoLostWakeup
<1>5. ASSUME NEW size \in Messages, Dequeue(size)
      PROVE  NoLostWakeup'
  <2>1. count' = count - 1
    BY <1>5 DEF Dequeue
  <2>2. CASE WriterAt("waiting") = {}
    <3>1. UNCHANGED writer
      BY <1>5, <2>2 DEF Dequeue, NotifyOne, WakeOne
    <3>2. QED
      BY <2>2, <3>1 DEF NoLostWakeup, WriterAt
  <2>3. CASE WriterAt("waiting") # {}
    <3>1. "BLOCK_WRITER" \in flags
      BY <2>3, NoSleepers
    <3>2. PICK w \in WriterAt("waiting") : writer' = [writer EXCEPT ![w] = "woken"]
      BY <1>5, <2>3, <3>1 DEF Dequeue, NotifyOne, WakeOne
    <3>3. Woken' = Woken + 1
      BY <3>2, WakeCounts
    <3>4. QED
      BY <1>0, <2>1, <2>3, <3>3 DEF NoLostWakeup
  <2>4. QED
    BY <2>2, <2>3
<1>6. CASE Clear
  <2>1. WriterAt("waiting")' = {}
    <3>1. CASE "BLOCK_WRITER" \in flags
      BY <1>6, <3>1 DEF Clear, WriterAt
    <3>2. CASE "BLOCK_WRITER" \notin flags
      BY <1>6, <3>2, NoSleepers DEF Clear, WriterAt
    <3>3. QED
      BY <3>1, <3>2
  <2>2. QED
    BY <2>1 DEF NoLostWakeup
<1>7. CASE UNCHANGED vars
  BY <1>7 DEF NoLostWakeup, WriterAt, vars, ring
<1>8. QED
  BY <1>1, <1>2, <1>3, <1>4, <1>5, <1>6, <1>7 DEF Next

-----------------------------------------------------------------------------
(* Statistics, and the theorems about states.                              *)

\* Every step accounts for the messages it adds and removes.
LEMMA StepAccounted ==
    ASSUME TypeOK, Accounted, [Next]_vars
    PROVE  Accounted'
<1>0. /\ Capacity \in Nat /\ count \in 0..Capacity /\ cleared \in Nat
      /\ enqueue_count \in Nat /\ dequeue_count \in Nat /\ dropped_count \in Nat
  BY QueueAssumption DEF TypeOK
<1>1. ASSUME NEW m, StoreInRoom(m), UNCHANGED <<flags, cleared>>
      PROVE  Accounted'
  BY <1>0, <1>1 DEF Accounted, StoreInRoom, Store
<1>2. ASSUME NEW m, DropOldest(m), UNCHANGED <<flags, cleared>>
      PROVE  Accounted'
  BY <1>0, <1>2 DEF Accounted, DropOldest, Store
<1>3. ASSUME NEW size, Dequeue(size)
      PROVE  Accounted'
  BY <1>0, <1>3 DEF Accounted, Dequeue
<1>4. CASE Clear
  BY <1>0, <1>4 DEF Accounted, Clear, stats
<1>5. CASE UNCHANGED <<flags, ring, stats, cleared>>
  BY <1>5 DEF Accounted, ring, stats
<1>6. QED
  BY <1>1, <1>2, <1>3, <1>4, <1>5
     DEF Next, vars, Enqueue, EnqueueBlocks, Resume, SpuriousWakeup

\* The queue keeps its invariant: indices inside the buffer, write position
\* count slots past the read position, no sleeping writer forgotten by
\* notify_one, statistics that add up.
THEOREM QueueCorrect == Spec => []QueueInvariant
<1>1. Init => QueueInvariant
  BY InitQueue
<1>2. QueueInvariant /\ [Next]_vars => QueueInvariant'
  BY StepType, StepIndex, StepWakeup, StepAccounted DEF QueueInvariant
<1>3. QED
  BY <1>1, <1>2, PTL DEF Spec

\* No writer of async_queue_enqueue is left asleep in not_full.wait when
\* dequeues have made more room than there are writers on their way.
THEOREM WakeupsSuffice == Spec => []NoLostWakeup
<1>1. QueueInvariant => NoLostWakeup
  BY DEF QueueInvariant
<1>2. QED
  BY <1>1, QueueCorrect, PTL

-----------------------------------------------------------------------------
(* The circular buffer is a bounded FIFO.                                  *)

\* c consecutive slots of the buffer s from position t on.
Window(s, t, c) == [i \in 1..c |-> s[(t + (i - 1)) % Capacity]]

\* A position is inside the buffer; two positions less than one turn apart
\* are different.
LEMMA Positions ==
    ASSUME NEW t \in Indices, NEW i \in 0..Capacity, NEW j \in 0..Capacity
    PROVE  /\ (t + i) % Capacity \in Indices
           /\ i < j /\ j - i < Capacity =>
                (t + i) % Capacity # (t + j) % Capacity
<1>1. Capacity \in Nat \ {0} /\ t \in 0..(Capacity - 1)
  BY QueueAssumption DEF Indices
<1> DEFINE p == (t + i) % Capacity
           q == (t + j) % Capacity
<1>2. /\ p = IF t + i < Capacity THEN t + i ELSE t + i - Capacity
      /\ q = IF t + j < Capacity THEN t + j ELSE t + j - Capacity
  BY <1>1, Position
<1> HIDE DEF p, q
<1>3. p \in Indices /\ (i < j /\ j - i < Capacity => p # q)
  BY <1>1, <1>2 DEF Indices
<1>4. QED
  BY <1>3 DEF p, q

\* Reading from the next slot on is reading one position further.
LEMMA PositionShift ==
    ASSUME NEW t \in Indices, NEW i \in 0..(Capacity - 1)
    PROVE  (Advance(t) + i) % Capacity = (t + (i + 1)) % Capacity
<1>1. Capacity \in Nat \ {0} /\ t \in 0..(Capacity - 1)
  BY QueueAssumption DEF Indices
<1> DEFINE u == Advance(t)
           p == (u + i) % Capacity
           q == (t + (i + 1)) % Capacity
<1>2. u = (IF t + 1 < Capacity THEN t + 1 ELSE 0) /\ u \in 0..(Capacity - 1)
  BY AdvanceIs DEF Indices
<1> HIDE DEF u
<1>3. i \in 0..Capacity /\ i + 1 \in 0..Capacity
  BY <1>1
<1>4. p = IF u + i < Capacity THEN u + i ELSE u + i - Capacity
  BY <1>1, <1>2, <1>3, Position
<1>5. q = IF t + (i + 1) < Capacity THEN t + (i + 1)
          ELSE t + (i + 1) - Capacity
  BY <1>1, <1>3, Position
<1> HIDE DEF p, q
<1>6. p = q
  BY <1>1, <1>2, <1>3, <1>4, <1>5
<1>7. QED
  BY <1>6 DEF p, q, u

\* A window is a sequence.
LEMMA WindowSeq ==
    ASSUME NEW s \in [Indices -> 0..MaxMsgSize], NEW t \in Indices,
           NEW c \in 0..Capacity
    PROVE  /\ Window(s, t, c) \in Seq(0..MaxMsgSize)
           /\ Len(Window(s, t, c)) = c
           /\ \A i \in 1..c : Window(s, t, c)[i] = s[(t + (i - 1)) % Capacity]
<1>1. Capacity \in Nat /\ c \in Nat
  BY QueueAssumption
<1>2. \A i \in 1..c : (t + (i - 1)) % Capacity \in Indices
  <2> SUFFICES ASSUME NEW i \in 1..c
               PROVE  (t + (i - 1)) % Capacity \in Indices
    OBVIOUS
  <2>1. i - 1 \in 0..Capacity
    BY <1>1
  <2>2. QED
    BY <2>1, Positions
<1>3. \A i \in 1..c : s[(t + (i - 1)) % Capacity] \in 0..MaxMsgSize
  BY <1>2
<1>4. Window(s, t, c) \in [1..c -> 0..MaxMsgSize]
  BY <1>3 DEF Window
<1>5. QED
  BY <1>1, <1>4 DEF Window

\* Writing past the end of a window appends to it.
LEMMA WindowAppend ==
    ASSUME NEW s \in [Indices -> 0..MaxMsgSize], NEW t \in Indices,
           NEW c \in 0..(Capacity - 1), NEW m \in 0..MaxMsgSize
    PROVE  Window([s EXCEPT ![(t + c) % Capacity] = m], t, c + 1)
               = Append(Window(s, t, c), m)
<1> DEFINE h == (t + c) % Capacity
           s2 == [s EXCEPT ![h] = m]
           old == Window(s, t, c)
           new == Window(s2, t, c + 1)
<1>1. Capacity \in Nat /\ c \in 0..Capacity /\ c + 1 \in 0..Capacity
  BY QueueAssumption
<1>2. h \in Indices
  BY <1>1, Positions
<1>3. s2 \in [Indices -> 0..MaxMsgSize]
  BY <1>2
<1>4. /\ old \in Seq(0..MaxMsgSize) /\ Len(old) = c
      /\ \A i \in 1..c : old[i] = s[(t + (i - 1)) % Capacity]
  BY <1>1, WindowSeq
<1>5. /\ new \in Seq(0..MaxMsgSize) /\ Len(new) = c + 1
      /\ \A i \in 1..(c + 1) : new[i] = s2[(t + (i - 1)) % Capacity]
  BY <1>1, <1>3, WindowSeq
<1>6. ASSUME NEW i \in 1..c
      PROVE  new[i] = old[i]
  <2>1. i - 1 \in 0..Capacity /\ i - 1 < c /\ c - (i - 1) < Capacity
        /\ i \in 1..(c + 1)
    BY <1>1
  <2>2. (t + (i - 1)) % Capacity \in Indices /\ (t + (i - 1)) % Capacity # h
    BY <1>1, <2>1, Positions
  <2>3. s2[(t + (i - 1)) % Capacity] = s[(t + (i - 1)) % Capacity]
    BY <2>2
  <2>4. QED
    BY <1>4, <1>5, <2>1, <2>3
<1>7. new[c + 1] = m
  <2>1. c + 1 \in 1..(c + 1) /\ (c + 1) - 1 = c
    BY <1>1
  <2>2. new[c + 1] = s2[(t + ((c + 1) - 1)) % Capacity]
    BY <1>5, <2>1
  <2>3. new[c + 1] = s2[h]
    BY <2>1, <2>2, Zenon
  <2>4. QED
    BY <1>2, <2>3
<1> HIDE DEF old, new
<1>8. /\ Append(old, m) \in Seq(0..MaxMsgSize) /\ Len(Append(old, m)) = c + 1
      /\ \A i \in 1..c : Append(old, m)[i] = old[i]
      /\ Append(old, m)[c + 1] = m
  BY <1>4, AppendProperties
<1>9. \A i \in 1..(c + 1) : new[i] = Append(old, m)[i]
  BY <1>1, <1>6, <1>7, <1>8
<1>10. new = Append(old, m)
  BY <1>5, <1>8, <1>9, SeqEqual
<1>11. QED
  BY <1>10 DEF old, new

\* Advancing the read position drops the head of a window.
LEMMA WindowTail ==
    ASSUME NEW s \in [Indices -> 0..MaxMsgSize], NEW t \in Indices,
           NEW c \in 1..Capacity
    PROVE  /\ Window(s, t, c) # <<>>
           /\ Window(s, Advance(t), c - 1) = Tail(Window(s, t, c))
<1> DEFINE old == Window(s, t, c)
           new == Window(s, Advance(t), c - 1)
<1>1. Capacity \in Nat /\ c \in 0..Capacity /\ c - 1 \in 0..Capacity
  BY QueueAssumption
<1>2. Advance(t) \in Indices
  BY AdvanceIs
<1>3. /\ old \in Seq(0..MaxMsgSize) /\ Len(old) = c
      /\ \A i \in 1..c : old[i] = s[(t + (i - 1)) % Capacity]
  BY <1>1, WindowSeq
<1>4. /\ new \in Seq(0..MaxMsgSize) /\ Len(new) = c - 1
      /\ \A i \in 1..(c - 1) : new[i] = s[(Advance(t) + (i - 1)) % Capacity]
  BY <1>1, <1>2, WindowSeq
<1>5. ASSUME NEW i \in 1..(c - 1)
      PROVE  new[i] = old[i + 1]
  <2>1. i - 1 \in 0..(Capacity - 1) /\ (i - 1) + 1 = (i + 1) - 1
        /\ i + 1 \in 1..c
    BY <1>1
  <2>2. (Advance(t) + (i - 1)) % Capacity = (t + ((i - 1) + 1)) % Capacity
    BY <2>1, PositionShift
  <2>3. (Advance(t) + (i - 1)) % Capacity = (t + ((i + 1) - 1)) % Capacity
    BY <2>1, <2>2, Zenon
  <2>4. old[i + 1] = s[(t + ((i + 1) - 1)) % Capacity]
    BY <1>3, <2>1
  <2>5. QED
    BY <1>4, <2>3, <2>4, Zenon
<1> HIDE DEF old, new
<1>6. old # <<>>
  BY <1>1, <1>3, EmptySeq
<1>7. /\ Tail(old) \in Seq(0..MaxMsgSize) /\ Len(Tail(old)) = c - 1
      /\ \A i \in 1..(c - 1) : Tail(old)[i] = old[i + 1]
  BY <1>3, <1>6, HeadTailProperties
<1>8. new = Tail(old)
  <2>1. \A i \in 1..(c - 1) : new[i] = Tail(old)[i]
    BY <1>5, <1>7
  <2>2. QED
    BY <1>4, <1>7, <2>1, SeqEqual
<1>9. QED
  BY <1>6, <1>8 DEF old, new

\* An empty window is the empty sequence.
LEMMA WindowEmpty ==
    ASSUME NEW s \in [Indices -> 0..MaxMsgSize], NEW t \in Indices
    PROVE  Window(s, t, 0) = <<>>
<1>1. 0 \in 0..Capacity
  BY QueueAssumption
<1>2. Window(s, t, 0) \in Seq(0..MaxMsgSize) /\ Len(Window(s, t, 0)) = 0
  BY <1>1, WindowSeq
<1>3. QED
  BY <1>2, EmptySeq

\* The queue starts empty.
LEMMA InitFifo == Init => Fifo!Init
<1> SUFFICES ASSUME Init PROVE Fifo!Init
  OBVIOUS
<1>1. slots \in [Indices -> 0..MaxMsgSize] /\ tail \in Indices /\ count = 0
  BY QueueAssumption DEF Init, Indices
<1>2. Contents = Window(slots, tail, 0)
  BY <1>1 DEF Contents, Window
<1>3. Contents = <<>>
  BY <1>1, <1>2, WindowEmpty
<1>4. QED
  BY <1>3 DEF Fifo!Init

\* Every step of the circular buffer is a step of the FIFO or leaves it alone.
LEMMA StepFifo ==
    ASSUME QueueInvariant, [Next]_vars
    PROVE  [Fifo!Next]_<<"DROP_OLDEST" \in flags, Contents>>
<1>0. /\ Capacity \in Nat \ {0} /\ MaxMsgSize \in Nat
      /\ slots \in [Indices -> 0..MaxMsgSize]
      /\ head \in Indices /\ tail \in Indices /\ count \in 0..Capacity
      /\ head = (tail + count) % Capacity
      /\ Messages \subseteq 0..MaxMsgSize
  BY QueueAssumption DEF QueueInvariant, TypeOK, HeadFollowsTail, Messages
<1>1. Contents = Window(slots, tail, count) /\ Len(Contents) = count
  BY <1>0, WindowSeq DEF Contents, Window
<1>2. Contents' = Window(slots', tail', count')
  BY DEF Contents, Window
<1>3. ASSUME NEW m \in Messages, StoreInRoom(m), UNCHANGED flags
      PROVE  Fifo!Next
  <2>1. count \in 0..(Capacity - 1) /\ m \in 0..MaxMsgSize
    BY <1>0, <1>3 DEF StoreInRoom, Full
  <2>2. Window([slots EXCEPT ![(tail + count) % Capacity] = m], tail, count + 1)
            = Append(Window(slots, tail, count), m)
    BY <1>0, <2>1, WindowAppend
  <2>3. Contents' = Append(Contents, m)
    BY <1>0, <1>1, <1>2, <1>3, <2>2, Zenon DEF StoreInRoom, Store
  <2>4. Len(Contents) < Capacity
    BY <1>0, <1>1, <2>1
  <2>5. QED
    BY <1>3, <2>3, <2>4 DEF Fifo!Next, Fifo!Put
<1>4. ASSUME NEW m \in Messages, DropOldest(m), UNCHANGED flags
      PROVE  Fifo!Next
  <2>1. /\ count = Capacity /\ Capacity \in 1..Capacity /\ m \in 0..MaxMsgSize
        /\ Capacity - 1 \in 0..(Capacity - 1) /\ (Capacity - 1) + 1 = Capacity
    BY <1>0, <1>4 DEF DropOldest, Full
  <2>2. Advance(tail) \in Indices
    BY <1>0, AdvanceIs
  <2>3. Window(slots, Advance(tail), Capacity - 1) = Tail(Contents)
    BY <1>0, <1>1, <2>1, WindowTail
  <2>4. head = (Advance(tail) + (Capacity - 1)) % Capacity
    <3>1. (Advance(tail) + (Capacity - 1)) % Capacity
            = (tail + ((Capacity - 1) + 1)) % Capacity
      BY <1>0, <2>1, PositionShift
    <3>2. QED
      BY <1>0, <2>1, <3>1, Zenon
  <2>5. Window([slots EXCEPT ![(Advance(tail) + (Capacity - 1)) % Capacity] = m],
               Advance(tail), (Capacity - 1) + 1)
            = Append(Window(slots, Advance(tail), Capacity - 1), m)
    BY <1>0, <2>1, <2>2, WindowAppend
  <2>6. /\ slots' = [slots EXCEPT ![head] = m]
        /\ tail' = Advance(tail) /\ count' = (Capacity - 1) + 1
    BY <1>4, <2>1 DEF DropOldest, Store
  <2>7. Contents' = Append(Tail(Contents), m)
    BY <1>2, <2>3, <2>4, <2>5, <2>6, Zenon
  <2>8. QED
    BY <1>1, <1>4, <2>1, <2>7 DEF Fifo!Next, Fifo!Displace, DropOldest
<1>5. ASSUME NEW size, Dequeue(size)
      PROVE  Fifo!Next
  <2>1. count \in 1..Capacity
    BY <1>0, <1>5 DEF Dequeue
  <2>2. /\ Contents # <<>>
        /\ Window(slots, Advance(tail), count - 1) = Tail(Contents)
    BY <1>0, <1>1, <2>1, WindowTail
  <2>3. Contents' = Tail(Contents)
    BY <1>2, <1>5, <2>2 DEF Dequeue
  <2>4. QED
    BY <1>5, <2>2, <2>3 DEF Fifo!Next, Fifo!Take, Dequeue
<1>6. CASE Clear
  <2>1. 0 \in Indices
    BY <1>0 DEF Indices
  <2>2. Contents' = <<>>
    BY <1>0, <1>2, <1>6, <2>1, WindowEmpty DEF Clear
  <2>3. QED
    BY <1>6, <2>2 DEF Fifo!Next, Fifo!Clear, Clear
<1>7. CASE UNCHANGED <<flags, ring>>
  BY <1>7 DEF Contents, ring
<1>8. CASE UNCHANGED vars
  BY <1>7, <1>8 DEF vars
<1>9. ASSUME NEW w \in Writers, Resume(w)
      PROVE  [Fifo!Next]_<<"DROP_OLDEST" \in flags, Contents>>
  <2>1. offer[w] \in Messages
    BY <1>9 DEF QueueInvariant, TypeOK, Resume
  <2>2. QED
    BY <1>3, <1>7, <1>9, <2>1 DEF Resume
<1>10. QED
  BY <1>3, <1>4, <1>5, <1>6, <1>7, <1>8, <1>9
     DEF Next, Enqueue, EnqueueBlocks, SpuriousWakeup

\* The circular buffer of async_queue.cpp is a bounded first-in first-out
\* queue for every capacity: no message is overwritten, skipped, repeated or
\* reordered, and only a lossy queue gives up its oldest one.
THEOREM QueueIsFifo == Spec => ImplementsFifo
<1>1. Init => Fifo!Init
  BY InitFifo
<1>2. QueueInvariant /\ [Next]_vars
        => [Fifo!Next]_<<"DROP_OLDEST" \in flags, Contents>>
  BY StepFifo
<1>3. QED
  BY <1>1, <1>2, QueueCorrect, PTL DEF Spec, ImplementsFifo, Fifo!Spec
=============================================================================
