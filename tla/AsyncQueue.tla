----------------------------- MODULE AsyncQueue -----------------------------
(***************************************************************************)
(* The message queue of src/lib/async/async_queue.cpp: a circular buffer   *)
(* with three answers to a writer that finds it full, and the condition    *)
(* variable not_full on which blocking writers sleep.                      *)
(*                                                                         *)
(* Each critical section of the queue's mutex is one step.  A message is   *)
(* represented by its size, the only thing the queue reads of it.  Calls   *)
(* that return false (a null or oversized message, a full queue with       *)
(* neither flag, an empty queue) and the queries change nothing and are    *)
(* not steps.  Destroying a queue that is in use is left to the callers.   *)
(***************************************************************************)
EXTENDS Naturals, Sequences, FiniteSets

CONSTANTS
    Capacity,       \* capacity
    MaxMsgSize,     \* max_msg_size
    Writers,        \* threads that enqueue
    MaxEnqueues     \* bound: messages that enter the queue

ASSUME QueueAssumption ==
    /\ Capacity \in Nat \ {0}       \* async_queue_create refuses 0
    /\ MaxMsgSize \in Nat \ {0}
    /\ MaxEnqueues \in Nat
    /\ IsFiniteSet(Writers)

VARIABLES
    flags,          \* flags, fixed when the queue is created
    slots,          \* buffer: the size stored in each slot
    head,           \* write position
    tail,           \* read position
    count,          \* messages in the buffer
    enqueue_count, dequeue_count, dropped_count,    \* statistics
    writer,         \* progress of each writer in async_queue_enqueue
    offer,          \* the message of a writer that sleeps in it
    cleared         \* history: messages discarded by async_queue_clear

ring  == <<slots, head, tail, count>>
stats == <<enqueue_count, dequeue_count, dropped_count>>
vars  == <<flags, ring, stats, writer, offer, cleared>>

-----------------------------------------------------------------------------
Flags    == {"DROP_OLDEST", "BLOCK_WRITER"}
Messages == 1..MaxMsgSize
Indices  == 0..(Capacity - 1)

WriterAt(pc) == {w \in Writers : writer[w] = pc}

Full == count >= Capacity

Advance(i) == (i + 1) % Capacity

Init ==
    /\ flags \in SUBSET Flags
    /\ slots = [i \in Indices |-> 0]        \* calloc
    /\ head = 0 /\ tail = 0 /\ count = 0
    /\ enqueue_count = 0 /\ dequeue_count = 0 /\ dropped_count = 0
    /\ writer = [w \in Writers |-> "idle"]
    /\ offer = [w \in Writers |-> 0]
    /\ cleared = 0

-----------------------------------------------------------------------------
\* Mutant: head is advanced before the message is written.
StoreAfterAdvance(m) ==
    /\ slots' = [slots EXCEPT ![Advance(head)] = m]
    /\ head' = Advance(head)
    /\ enqueue_count' = enqueue_count + 1

\* The end of async_queue_enqueue: m is written at head.
Store(m) ==
    /\ slots' = [slots EXCEPT ![head] = m]
    /\ head' = Advance(head)
    /\ enqueue_count' = enqueue_count + 1

\* There is room.
StoreInRoom(m) ==
    /\ ~Full
    /\ Store(m)
    /\ count' = count + 1
    /\ UNCHANGED <<tail, dequeue_count, dropped_count>>

\* Mutant: the oldest message is overwritten but stays the next to be read.
DropKeepsTail(m) ==
    /\ Full /\ "DROP_OLDEST" \in flags
    /\ dropped_count' = dropped_count + 1
    /\ Store(m)
    /\ UNCHANGED <<tail, count, dequeue_count>>

\* The queue is full and drops its oldest message; the loop tests again and
\* finds room, so count is decremented and incremented.
DropOldest(m) ==
    /\ Full /\ "DROP_OLDEST" \in flags
    /\ tail' = Advance(tail)
    /\ dropped_count' = dropped_count + 1
    /\ Store(m)
    /\ UNCHANGED <<count, dequeue_count>>

\* A call of async_queue_enqueue that does not sleep.
Enqueue(w, m) ==
    /\ enqueue_count < MaxEnqueues
    /\ writer[w] = "idle"
    /\ StoreInRoom(m) \/ DropOldest(m)
    /\ UNCHANGED <<flags, writer, offer, cleared>>

\* A call that finds the queue full and waits on not_full.
EnqueueBlocks(w, m) ==
    /\ writer[w] = "idle"
    /\ Full /\ "BLOCK_WRITER" \in flags /\ "DROP_OLDEST" \notin flags
    /\ writer' = [writer EXCEPT ![w] = "waiting"]
    /\ offer' = [offer EXCEPT ![w] = m]
    /\ UNCHANGED <<flags, ring, stats, cleared>>

\* A woken writer has the mutex again and tests the predicate of the wait:
\* another writer may have taken the room it was woken for.
Resume(w) ==
    /\ enqueue_count < MaxEnqueues
    /\ writer[w] = "woken"
    /\ \/ /\ StoreInRoom(offer[w])
          /\ writer' = [writer EXCEPT ![w] = "idle"]
          /\ offer' = [offer EXCEPT ![w] = 0]
       \/ /\ Full
          /\ writer' = [writer EXCEPT ![w] = "waiting"]
          /\ UNCHANGED <<ring, stats, offer>>
    /\ UNCHANGED <<flags, cleared>>

\* A condition variable may wake a sleeper that nobody notified.
SpuriousWakeup(w) ==
    /\ writer[w] = "waiting"
    /\ writer' = [writer EXCEPT ![w] = "woken"]
    /\ UNCHANGED <<flags, ring, stats, offer, cleared>>

-----------------------------------------------------------------------------
\* A sleeping writer, if there is one, is notified.
WakeOne ==
    IF WriterAt("waiting") = {} THEN UNCHANGED writer
    ELSE \E w \in WriterAt("waiting") : writer' = [writer EXCEPT ![w] = "woken"]

\* Mutant: only a dequeue that finds the queue full notifies.
NotifyWhenFull ==
    IF "BLOCK_WRITER" \in flags /\ Full THEN WakeOne ELSE UNCHANGED writer

\* not_full.notify_one, called only if the queue blocks its writers.
NotifyOne == IF "BLOCK_WRITER" \in flags THEN WakeOne ELSE UNCHANGED writer

\* A reader with a buffer of the given size; a message that does not fit
\* stays where it is.
Dequeue(size) ==
    /\ count > 0
    /\ slots[tail] <= size
    /\ tail' = Advance(tail)
    /\ count' = count - 1
    /\ dequeue_count' = dequeue_count + 1
    /\ NotifyOne
    /\ UNCHANGED <<flags, slots, head, enqueue_count, dropped_count, offer,
                   cleared>>

\* async_queue_clear; not_full.notify_all wakes every sleeping writer.
Clear ==
    /\ head' = 0 /\ tail' = 0 /\ count' = 0
    /\ cleared' = cleared + count
    /\ writer' = IF "BLOCK_WRITER" \in flags
                 THEN [w \in Writers |-> IF writer[w] = "waiting"
                                         THEN "woken" ELSE writer[w]]
                 ELSE writer
    /\ UNCHANGED <<flags, slots, stats, offer>>

Next ==
    \/ \E w \in Writers, m \in Messages : Enqueue(w, m) \/ EnqueueBlocks(w, m)
    \/ \E w \in Writers : Resume(w) \/ SpuriousWakeup(w)
    \/ \E size \in Messages : Dequeue(size)
    \/ Clear

Spec == Init /\ [][Next]_vars

-----------------------------------------------------------------------------
(* Properties                                                              *)

\* Types, the bounds that keep every access inside the buffer, and that only
\* a writer with a message, of a queue that blocks, sleeps.
TypeOK ==
    /\ flags \in SUBSET Flags
    /\ slots \in [Indices -> 0..MaxMsgSize]
    /\ head \in Indices /\ tail \in Indices /\ count \in 0..Capacity
    /\ enqueue_count \in Nat /\ dequeue_count \in Nat
    /\ dropped_count \in Nat /\ cleared \in Nat
    /\ writer \in [Writers -> {"idle", "waiting", "woken"}]
    /\ offer \in [Writers -> 0..MaxMsgSize]
    /\ \A w \in Writers : writer[w] # "idle" =>
            /\ offer[w] \in Messages
            /\ "BLOCK_WRITER" \in flags /\ "DROP_OLDEST" \notin flags

\* The write position is count slots past the read position, so a write
\* never lands on a message that has not been read or dropped.
HeadFollowsTail == head = (tail + count) % Capacity

\* A writer never sleeps on while there is room nobody was woken for: for
\* every free slot a woken writer is on its way, although dequeue notifies
\* one writer only and a newcomer may take the slot first.
NoLostWakeup ==
    WriterAt("waiting") # {} =>
        Capacity - count <= Cardinality(WriterAt("woken"))

\* async_queue_get_stats adds up: a message that entered was dequeued,
\* dropped, cleared or is still there, and only a queue created with
\* ASYNC_QUEUE_DROP_OLDEST drops.
Accounted ==
    /\ enqueue_count = dequeue_count + dropped_count + cleared + count
    /\ dropped_count > 0 => "DROP_OLDEST" \in flags

\* The inductive invariant of the queue.  Its parts need each other: the
\* positions need the bound on count, the wake-ups that only a queue which
\* blocks has sleepers, and the statistics that a message is dropped or
\* cleared at most once.
QueueInvariant == TypeOK /\ HeadFollowsTail /\ NoLostWakeup /\ Accounted

\* The messages in the buffer in the order in which they will be read.
Contents == [i \in 1..count |-> slots[(tail + (i - 1)) % Capacity]]

Fifo == INSTANCE BoundedFifo
    WITH lossy <- "DROP_OLDEST" \in flags, items <- Contents

\* The circular buffer implements the bounded FIFO under every overflow
\* policy, interleaving of writers and position of the wrap.
ImplementsFifo == Fifo!Spec
=============================================================================
