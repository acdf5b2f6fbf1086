------------------------- MODULE InputThreadsProofs -------------------------
(***************************************************************************)
(* Theorems about InputThreads, for every input, every capacity and every  *)
(* number of closes: the types and capacities, and that what a hook gets   *)
(* is in order and, at the end of standard input, complete.                *)
(***************************************************************************)
EXTENDS InputThreads, SequenceTheorems, TLAPS

Places ==
    {"start", "connect", "reconnect", "relock", "top", "wait", "console", "join",
     "rearm", "lookup", "drain", "process", "eof", "resume", "progress", "prompt",
     "closing", "await", "pending", "stop", "release", "joinlast", "done"}
ReaderPlaces == {"none", "read", "enqueue", "post", "eof", "done", "failed"}

Readers == [at : ReaderPlaces, stop : BOOLEAN, eof : BOOLEAN, line : Nat]
Slots   == [live : BOOLEAN, flags : SUBSET Flags, buffer : Seq(Nat), gate : Seq(Hooks)]
Fresh   == [live |-> TRUE, flags |-> {}, buffer |-> <<>>, gate |-> <<>>]

-----------------------------------------------------------------------------
(* Operators on the slot.                                                  *)

\* Raising a flag changes nothing else of the slot.
LEMMA RaiseFacts ==
    ASSUME NEW s \in Slots, NEW f \in Flags
    PROVE  /\ Raise(s, f) \in Slots
           /\ Raise(s, f).live = s.live /\ Raise(s, f).buffer = s.buffer
           /\ Raise(s, f).gate = s.gate /\ Raise(s, f).flags = s.flags \cup {f}
BY DEF Raise, Slots

\* Clearing a flag changes nothing else of the slot.
LEMMA ClearFacts ==
    ASSUME NEW s \in Slots, NEW f \in Flags
    PROVE  /\ Clear(s, f) \in Slots
           /\ Clear(s, f).live = s.live /\ Clear(s, f).buffer = s.buffer
           /\ Clear(s, f).gate = s.gate /\ Clear(s, f).flags = s.flags \ {f}
BY DEF Clear, Slots

\* Queueing a hook appends it to the gate and changes nothing else.
LEMMA EnqueueFacts ==
    ASSUME NEW s \in Slots, NEW hook \in Hooks
    PROVE  /\ Enqueue(s, hook) \in Slots
           /\ Enqueue(s, hook).live = s.live /\ Enqueue(s, hook).buffer = s.buffer
           /\ Enqueue(s, hook).flags = s.flags
           /\ Enqueue(s, hook).gate = Append(s.gate, hook)
           /\ Len(Enqueue(s, hook).gate) = Len(s.gate) + 1
<1>1. s.gate \in Seq(Hooks)
  BY DEF Slots
<1>2. Append(s.gate, hook) \in Seq(Hooks) /\ Len(Append(s.gate, hook)) = Len(s.gate) + 1
  BY <1>1, AppendProperties
<1>3. Enqueue(s, hook) = [s EXCEPT !.gate = Append(s.gate, hook)]
  BY DEF Enqueue
<1> QED
  BY <1>2, <1>3 DEF Slots

\* A slot that is removed keeps its gate only.
LEMMA RemovedFacts ==
    ASSUME NEW s \in Slots
    PROVE  /\ Removed(s) \in Slots
           /\ ~Removed(s).live /\ Removed(s).buffer = <<>>
           /\ Removed(s).gate = s.gate /\ Removed(s).flags = {}
<1>1. <<>> \in Seq(Nat)
  OBVIOUS
<1> QED
  BY <1>1 DEF Removed, Slots

\* The connect hook may enable the prompt and does nothing else.
LEMMA ConnectedFacts ==
    ASSUME NEW s \in Slots
    PROVE  /\ Connected(s) \in Slots
           /\ Connected(s).live = s.live /\ Connected(s).buffer = s.buffer
           /\ Connected(s).gate = s.gate
           /\ Connected(s).flags = IF prompting THEN s.flags \cup {"ENABLE_PROMPT"} ELSE s.flags
<1>1. "ENABLE_PROMPT" \in Flags
  BY DEF Flags
<1> QED
  BY <1>1, RaiseFacts DEF Connected

\* comm_invoke_connect runs the connect hook or queues it.
LEMMA ConnectFacts ==
    ASSUME NEW s \in Slots, strict \in BOOLEAN
    PROVE  /\ Connect(s) \in Slots
           /\ Connect(s).live = s.live /\ Connect(s).buffer = s.buffer
           /\ strict => /\ Connect(s).gate = s.gate
                        /\ Connect(s).flags = IF prompting THEN s.flags \cup {"ENABLE_PROMPT"}
                                              ELSE s.flags
           /\ ~strict => /\ Connect(s).gate = Append(s.gate, "connect")
                         /\ Len(Connect(s).gate) = Len(s.gate) + 1
                         /\ Connect(s).flags = s.flags \cup {"AWAITING_HOOK"}
<1>1. "AWAITING_HOOK" \in Flags /\ "connect" \in Hooks
  BY DEF Flags, Hooks
<1>2. CASE strict
  BY <1>2, ConnectedFacts DEF Connect
<1>3. CASE ~strict
  <2> DEFINE q == Enqueue(s, "connect")
  <2>1. /\ q \in Slots /\ q.live = s.live /\ q.buffer = s.buffer /\ q.flags = s.flags
        /\ q.gate = Append(s.gate, "connect") /\ Len(q.gate) = Len(s.gate) + 1
    BY <1>1, EnqueueFacts
  <2> DEFINE r == Raise(q, "AWAITING_HOOK")
  <2>2. Connect(s) = r
    BY <1>3 DEF Connect
  <2> HIDE DEF q
  <2>3. /\ r \in Slots /\ r.live = q.live /\ r.buffer = q.buffer /\ r.gate = q.gate
        /\ r.flags = q.flags \cup {"AWAITING_HOOK"}
    BY <1>1, <2>1, RaiseFacts
  <2> HIDE DEF r
  <2> QED
    BY <1>3, <2>1, <2>2, <2>3
<1> QED
  BY <1>2, <1>3

\* What comm_close_impl may do with the slot.
CloseResult(s, c) ==
    /\ c.slot \in Slots /\ c.signal \in BOOLEAN /\ c.shut \in BOOLEAN
    /\ c.slot.buffer = s.buffer \/ c.slot.buffer = <<>>
    /\ ~s.live => c.slot = s /\ ~c.signal /\ ~c.shut
    /\ mode # "file" => c.slot.live = s.live /\ c.slot.buffer = s.buffer /\ ~c.shut
    /\ s.live /\ c.slot.live => "CLOSING" \in c.slot.flags
    /\ s.live /\ ~c.slot.live => c.slot.buffer = <<>>
    /\ \/ c.slot.gate = s.gate
       \/ /\ c.slot.gate = Append(s.gate, "disconnect")
          /\ Len(c.slot.gate) = Len(s.gate) + 1
          /\ Len(s.gate) <= Backlog /\ ~strict /\ s.live
    /\ "ENABLE_PROMPT" \in c.slot.flags => "ENABLE_PROMPT" \in s.flags

\* comm_close_impl keeps the input of the slot, unless it removes the slot of a
\* file; it queues at most the disconnect hook, within the backlog.
LEMMA CloseFacts ==
    ASSUME NEW s \in Slots, NEW signal \in BOOLEAN, strict \in BOOLEAN, Backlog \in Nat
    PROVE  CloseResult(s, Close(s, signal))
<1> DEFINE c == Clear(Clear(Raise(s, "CLOSING"), "DISCONNECT_PENDING"), "AWAITING_HOOK")
           begins == ~Has(s, "CLOSING") \/ Has(s, "DISCONNECT_PENDING")
           still(t) == [slot |-> t, signal |-> FALSE, shut |-> FALSE]
           ends(t) == IF mode = "file"
                      THEN [slot |-> Removed(t), signal |-> FALSE, shut |-> TRUE]
                      ELSE [slot |-> t, signal |-> signal, shut |-> FALSE]
<1>1. /\ "CLOSING" \in Flags /\ "DISCONNECT_PENDING" \in Flags
      /\ "AWAITING_HOOK" \in Flags /\ "ENABLE_PROMPT" \in Flags
      /\ "disconnect" \in Hooks
  BY DEF Flags, Hooks
<1> DEFINE a == Raise(s, "CLOSING")
           b == Clear(a, "DISCONNECT_PENDING")
<1>a. /\ a \in Slots /\ a.live = s.live /\ a.buffer = s.buffer /\ a.gate = s.gate
      /\ a.flags = s.flags \cup {"CLOSING"}
  BY <1>1, RaiseFacts
<1>b. /\ b \in Slots /\ b.live = a.live /\ b.buffer = a.buffer /\ b.gate = a.gate
      /\ b.flags = a.flags \ {"DISCONNECT_PENDING"}
  <2> HIDE DEF a
  <2> QED
    BY <1>1, <1>a, ClearFacts
<1>c. /\ c \in Slots /\ c.live = b.live /\ c.buffer = b.buffer /\ c.gate = b.gate
      /\ c.flags = b.flags \ {"AWAITING_HOOK"}
  <2>1. c = Clear(b, "AWAITING_HOOK")
    OBVIOUS
  <2> HIDE DEF a, b, c
  <2> QED
    BY <1>1, <1>b, <2>1, ClearFacts
<1>3. /\ c \in Slots /\ c.live = s.live /\ c.buffer = s.buffer /\ c.gate = s.gate
      /\ "CLOSING" \in c.flags
      /\ "ENABLE_PROMPT" \in c.flags => "ENABLE_PROMPT" \in s.flags
  <2> HIDE DEF a, b, c
  <2> QED
    BY <1>a, <1>b, <1>c
<1> HIDE DEF a, b, c
<1>4. ASSUME NEW t \in Slots, t.live = s.live, t.buffer = s.buffer, t.gate = s.gate,
             "CLOSING" \in t.flags,
             "ENABLE_PROMPT" \in t.flags => "ENABLE_PROMPT" \in s.flags, s.live
      PROVE  CloseResult(s, ends(t)) /\ CloseResult(s, still(t))
  BY <1>4, RemovedFacts DEF CloseResult
<1>5. CASE ~s.live
  <2>1. Close(s, signal) = still(s)
    BY <1>5 DEF Close
  <2> QED
    BY <2>1, <1>5 DEF CloseResult
<1>6. CASE s.live /\ begins /\ strict
  <2>1. Close(s, signal) = ends(Clear(c, "ENABLE_PROMPT"))
    BY <1>6 DEF Close, a, b, c
  <2> DEFINE p == Clear(c, "ENABLE_PROMPT")
  <2>2. /\ p \in Slots /\ p.live = c.live /\ p.buffer = c.buffer /\ p.gate = c.gate
        /\ p.flags = c.flags \ {"ENABLE_PROMPT"}
    BY <1>1, <1>3, ClearFacts
  <2> HIDE DEF p
  <2>3. "CLOSING" \in p.flags /\ "ENABLE_PROMPT" \notin p.flags
    BY <2>2, <1>3
  <2>4. CloseResult(s, ends(p))
    BY <2>2, <2>3, <1>3, <1>4, <1>6
  <2> QED
    BY <2>1, <2>4 DEF p
<1>7. CASE s.live /\ begins /\ ~strict /\ Len(s.gate) > Backlog
  <2>1. Close(s, signal) = still(Raise(c, "DISCONNECT_PENDING"))
    BY <1>7 DEF Close, a, b, c
  <2>2. /\ Raise(c, "DISCONNECT_PENDING") \in Slots
        /\ Raise(c, "DISCONNECT_PENDING").live = s.live
        /\ Raise(c, "DISCONNECT_PENDING").buffer = s.buffer
        /\ Raise(c, "DISCONNECT_PENDING").gate = s.gate
        /\ "CLOSING" \in Raise(c, "DISCONNECT_PENDING").flags
        /\ "ENABLE_PROMPT" \in Raise(c, "DISCONNECT_PENDING").flags => "ENABLE_PROMPT" \in s.flags
    BY <1>1, <1>3, RaiseFacts
  <2> QED
    BY <2>1, <2>2, <1>4, <1>7
<1>8. CASE s.live /\ begins /\ ~strict /\ Len(s.gate) <= Backlog
  <2> DEFINE q == Enqueue(c, "disconnect")
             p == Clear(q, "ENABLE_PROMPT")
  <2>1. Close(s, signal) = still(Raise(p, "AWAITING_HOOK"))
    <3>1. ~(Len(s.gate) > Backlog)
      BY <1>8 DEF Slots
    <3> QED
      BY <1>8, <3>1 DEF Close, a, b, c
  <2>2. /\ q \in Slots /\ q.live = s.live /\ q.buffer = s.buffer /\ q.flags = c.flags
        /\ q.gate = Append(s.gate, "disconnect") /\ Len(q.gate) = Len(s.gate) + 1
    BY <1>1, <1>3, EnqueueFacts
  <2>3. /\ p \in Slots /\ p.live = s.live /\ p.buffer = s.buffer
        /\ p.gate = q.gate /\ p.flags = c.flags \ {"ENABLE_PROMPT"}
    <3> HIDE DEF q
    <3>1. /\ p \in Slots /\ p.live = q.live /\ p.buffer = q.buffer
          /\ p.gate = q.gate /\ p.flags = q.flags \ {"ENABLE_PROMPT"}
      BY <1>1, <2>2, ClearFacts
    <3> QED
      BY <3>1, <2>2
  <2> HIDE DEF p, q
  <2> DEFINE r == Raise(p, "AWAITING_HOOK")
  <2>4. /\ r \in Slots /\ r.live = s.live /\ r.buffer = s.buffer
        /\ r.gate = q.gate /\ r.flags = (c.flags \ {"ENABLE_PROMPT"}) \cup {"AWAITING_HOOK"}
    BY <1>1, <2>3, RaiseFacts
  <2> HIDE DEF r
  <2>5. CloseResult(s, still(r))
    BY <1>3, <2>2, <2>4, <1>8 DEF CloseResult
  <2> QED
    BY <2>1, <2>5 DEF r
<1>9. CASE s.live /\ ~begins
  <2>1. Close(s, signal) = IF Has(s, "AWAITING_HOOK") THEN still(s) ELSE ends(s)
    BY <1>9 DEF Close
  <2>2. "CLOSING" \in s.flags
    BY <1>9 DEF Has
  <2> QED
    BY <2>1, <2>2, <1>4, <1>9
<1> QED
  <2>1. Len(s.gate) > Backlog \/ Len(s.gate) <= Backlog
    BY DEF Slots
  <2> QED
    BY <2>1, <1>5, <1>6, <1>7, <1>8, <1>9

-----------------------------------------------------------------------------
(* Sequences of lines: a front and the rest.                               *)

Upto(q, n)  == SubSeq(q, 1, n)
After(q, n) == SubSeq(q, n + 1, Len(q))

\* A sequence is its front followed by the rest.
LEMMA Split ==
    ASSUME NEW q \in Seq(Nat), NEW n \in 0 .. Len(q)
    PROVE  /\ Upto(q, n) \in Seq(Nat) /\ Len(Upto(q, n)) = n
           /\ \A i \in 1 .. n : Upto(q, n)[i] = q[i]
           /\ After(q, n) \in Seq(Nat) /\ Len(After(q, n)) = Len(q) - n
           /\ \A i \in 1 .. Len(q) - n : After(q, n)[i] = q[n + i]
           /\ Upto(q, n) \o After(q, n) = q
<1> PICK l \in Nat : l = Len(q)
  OBVIOUS
<1>1. \A i \in 1 .. l : q[i] \in Nat
  OBVIOUS
<1>2. /\ Upto(q, n) \in Seq(Nat)
      /\ Len(Upto(q, n)) = IF 1 <= n THEN n - 1 + 1 ELSE 0
      /\ \A i \in 1 .. n - 1 + 1 : Upto(q, n)[i] = q[1 + i - 1]
  <2>1. \A i \in 1 .. n : q[i] \in Nat
    BY <1>1
  <2>2. n \in Int /\ 1 \in Int
    OBVIOUS
  <2> QED
    BY <2>1, <2>2, SubSeqProperties DEF Upto
<1>3. /\ After(q, n) \in Seq(Nat)
      /\ Len(After(q, n)) = IF n + 1 <= l THEN l - (n + 1) + 1 ELSE 0
      /\ \A i \in 1 .. l - (n + 1) + 1 : After(q, n)[i] = q[n + 1 + i - 1]
  <2>1. \A i \in n + 1 .. l : q[i] \in Nat
    BY <1>1
  <2>2. n + 1 \in Int /\ l \in Int
    OBVIOUS
  <2>3. PICK m \in Int : m = n + 1
    BY <2>2
  <2>4. After(q, n) = SubSeq(q, m, l)
    BY <2>3 DEF After
  <2>5. /\ SubSeq(q, m, l) \in Seq(Nat)
        /\ Len(SubSeq(q, m, l)) = IF m <= l THEN l - m + 1 ELSE 0
        /\ \A i \in 1 .. l - m + 1 : SubSeq(q, m, l)[i] = q[m + i - 1]
    BY <2>1, <2>2, <2>3, SubSeqProperties
  <2> QED
    BY <2>3, <2>4, <2>5
<1>4. Upto(q, n) \o After(q, n) = q
  <2>1. 1 \in 1 .. Len(q) + 1 /\ n \in 1 - 1 .. Len(q) /\ Len(q) \in n .. Len(q)
    OBVIOUS
  <2>2. SubSeq(q, 1, n) \o SubSeq(q, n + 1, Len(q)) = SubSeq(q, 1, Len(q))
    BY <2>1, ConcatAdjacentSubSeq
  <2>3. SubSeq(q, 1, Len(q)) = q
    BY SubSeqFull
  <2> QED
    BY <2>2, <2>3 DEF Upto, After
<1>5. Len(Upto(q, n)) = n /\ \A i \in 1 .. n : Upto(q, n)[i] = q[i]
  BY <1>2
<1>6. Len(After(q, n)) = l - n /\ \A i \in 1 .. l - n : After(q, n)[i] = q[n + i]
  BY <1>3
<1> QED
  BY <1>2, <1>3, <1>4, <1>5, <1>6

\* What is left of a sequence when nothing or all of it is in front.
LEMMA SplitEnds ==
    ASSUME NEW q \in Seq(Nat)
    PROVE  /\ Upto(q, 0) = <<>> /\ After(q, 0) = q
           /\ Upto(q, Len(q)) = q /\ After(q, Len(q)) = <<>>
           /\ q # <<>> => Upto(q, 1) = <<Head(q)>> /\ After(q, 1) = Tail(q) /\ 1 <= Len(q)
<1>1. Upto(q, 0) = <<>>
  BY SubSeqEmpty DEF Upto
<1>2. After(q, 0) = q
  <2>1. After(q, 0) = SubSeq(q, 1, Len(q))
    BY DEF After
  <2> QED
    BY <2>1, SubSeqFull
<1>3. Upto(q, Len(q)) = q
  BY SubSeqFull DEF Upto
<1>4. After(q, Len(q)) = <<>>
  BY SubSeqEmpty DEF After
<1>5. ASSUME q # <<>> PROVE Upto(q, 1) = <<Head(q)>> /\ After(q, 1) = Tail(q) /\ 1 <= Len(q)
  <2>1. 1 <= Len(q)
    BY <1>5
  <2>a. PICK n \in 0 .. Len(q) : n = 1
    BY <2>1
  <2>b. Upto(q, n) \in Seq(Nat) /\ Len(Upto(q, n)) = n /\ \A i \in 1 .. n : Upto(q, n)[i] = q[i]
    BY Split
  <2>c. 1 \in 1 .. n
    BY <2>a
  <2>2. Upto(q, 1) \in Seq(Nat) /\ Len(Upto(q, 1)) = 1 /\ Upto(q, 1)[1] = q[1]
    BY <2>a, <2>b, <2>c
  <2>3. Upto(q, 1) = <<Head(q)>>
    BY <1>5, <2>2
  <2>4. Tail(q) = SubSeq(q, 2, Len(q))
    BY <1>5, TailIsSubSeq
  <2> QED
    BY <2>1, <2>3, <2>4 DEF After
<1> QED
  BY <1>1, <1>2, <1>3, <1>4, <1>5

-----------------------------------------------------------------------------
(* comm_process_input.                                                     *)

\* What comm_process_input may do with slot s: the lines taken are a front of
\* its buffer; a hook is queued only if the slot is free; nothing is left in the
\* buffer unless a hook was queued or the slot is not free.
ProcessResult(s, t, taken) ==
    /\ t \in Slots /\ (t.live <=> s.live)
    /\ \E k \in 0 .. Len(s.buffer) : taken = Upto(s.buffer, k) /\ t.buffer = After(s.buffer, k)
    /\ \A f \in {"CLOSING", "ENABLE_PROMPT", "AWAITING_HOOK"} : f \in t.flags <=> f \in s.flags
    /\ ~Accepts(s) => t = s
    /\ Accepts(s) => \/ t.gate = s.gate /\ t.buffer = <<>>
                     \/ /\ ~strict /\ t.gate = <<"inbound">>
                        /\ "DEFERRED_INBOUND" \in t.flags

\* comm_process_input takes lines from the front of the buffer, in order.
LEMMA ProcessedFacts ==
    ASSUME NEW s \in Slots, strict \in BOOLEAN
    PROVE  ProcessResult(s, Processed(s), Taken(s))
<1>0. s.buffer \in Seq(Nat) /\ Len(s.buffer) \in Nat /\ s.gate \in Seq(Hooks)
  BY DEF Slots
<1>1. "DEFERRED_INBOUND" \in Flags /\ "INVOKED_PROMPT" \in Flags /\ "inbound" \in Hooks
  BY DEF Flags, Hooks
<1>2. 0 \in 0 .. Len(s.buffer) /\ Len(s.buffer) \in 0 .. Len(s.buffer)
  BY <1>0
<1>3. /\ Upto(s.buffer, 0) = <<>> /\ After(s.buffer, 0) = s.buffer
      /\ Upto(s.buffer, Len(s.buffer)) = s.buffer /\ After(s.buffer, Len(s.buffer)) = <<>>
  BY <1>0, SplitEnds
<1> DEFINE c == Clear(s, "DEFERRED_INBOUND")
<1>4. /\ c \in Slots /\ c.live = s.live /\ c.buffer = s.buffer /\ c.gate = s.gate
      /\ c.flags = s.flags \ {"DEFERRED_INBOUND"}
  BY <1>1, ClearFacts
<1>5. CASE ~Accepts(s)
  <2>1. Processed(s) = s /\ Taken(s) = <<>>
    BY <1>5 DEF Processed, Taken
  <2> QED
    BY <2>1, <1>2, <1>3, <1>5 DEF ProcessResult
<1>6. CASE Accepts(s) /\ s.buffer = <<>>
  <2>1. Processed(s) = c /\ Taken(s) = <<>>
    BY <1>6 DEF Processed, Taken
  <2> HIDE DEF c
  <2> QED
    BY <2>1, <1>2, <1>3, <1>4, <1>6 DEF ProcessResult
<1>7. CASE Accepts(s) /\ s.buffer # <<>>
  <2> DEFINE k == IF strict THEN Len(s.buffer) ELSE 1
             d == [c EXCEPT !.buffer = After(s.buffer, k)]
             t == Clear(d, "INVOKED_PROMPT")
  <2>1. 1 \in 0 .. Len(s.buffer) /\ Upto(s.buffer, 1) = <<Head(s.buffer)>>
    BY <1>0, <1>7, SplitEnds
  <2>2. k \in 0 .. Len(s.buffer) /\ Taken(s) = Upto(s.buffer, k)
    BY <2>1, <1>2, <1>3, <1>7 DEF Taken
  <2>3. Len(Taken(s)) = k /\ After(s.buffer, k) \in Seq(Nat)
    BY <1>0, <2>2, Split
  <2>4. Processed(s) = IF strict THEN t ELSE Raise(Enqueue(t, "inbound"), "DEFERRED_INBOUND")
    <3>1. After(s.buffer, k) = SubSeq(c.buffer, Len(Taken(s)) + 1, Len(c.buffer))
      BY <2>3, <1>4 DEF After
    <3> QED
      BY <3>1, <1>7 DEF Processed
  <2> HIDE DEF c
  <2>5. /\ d \in Slots /\ d.live = s.live /\ d.buffer = After(s.buffer, k) /\ d.gate = s.gate
        /\ d.flags = c.flags
    BY <1>4, <2>3 DEF Slots
  <2> HIDE DEF d, k
  <2>6. /\ t \in Slots /\ t.live = d.live /\ t.buffer = d.buffer /\ t.gate = d.gate
        /\ t.flags = d.flags \ {"INVOKED_PROMPT"}
    BY <1>1, <2>5, ClearFacts
  <2> HIDE DEF t
  <2>7. CASE strict
    <3>1. Processed(s) = t
      BY <2>4, <2>7
    <3>2. t.buffer = <<>>
      BY <2>5, <2>6, <2>7, <1>3 DEF k
    <3> QED
      BY <3>1, <3>2, <2>2, <2>5, <2>6, <1>4, <1>7 DEF ProcessResult
  <2>8. CASE ~strict
    <3> DEFINE q == Enqueue(t, "inbound")
               r == Raise(q, "DEFERRED_INBOUND")
    <3>1. Processed(s) = r
      BY <2>4, <2>8
    <3>2. /\ q \in Slots /\ q.live = t.live /\ q.buffer = t.buffer /\ q.flags = t.flags
          /\ q.gate = Append(t.gate, "inbound")
      BY <1>1, <2>6, EnqueueFacts
    <3>3. s.gate = <<>>
      BY <1>7 DEF Accepts, Busy
    <3> HIDE DEF q
    <3>4. /\ r \in Slots /\ r.live = q.live /\ r.buffer = q.buffer /\ r.gate = q.gate
          /\ r.flags = q.flags \cup {"DEFERRED_INBOUND"}
      BY <1>1, <3>2, RaiseFacts
    <3> HIDE DEF r
    <3>5. r.gate = <<"inbound">>
      BY <3>2, <3>3, <3>4, <2>5, <2>6
    <3> QED
      BY <3>1, <3>2, <3>4, <3>5, <2>2, <2>5, <2>6, <2>8, <1>4, <1>7 DEF ProcessResult
  <2> QED
    BY <2>7, <2>8
<1> QED
  BY <1>5, <1>6, <1>7

-----------------------------------------------------------------------------
(* Types and capacities.                                                   *)

Typed ==
    /\ mode \in Modes /\ device \in Devices /\ (mode = "file" => device = "regular")
    /\ strict \in BOOLEAN /\ prompting \in BOOLEAN
    /\ source \in Seq(Nat) /\ unread \in Seq(Nat) /\ queue \in Seq(Nat)
    /\ delivered \in Seq(Nat) /\ lost \in SUBSET Nat
    /\ slotsMutex \in {"none", "loop", "reader", "hook"}
    /\ inputMutex \in {"none", "loop"}
    /\ reader \in Readers /\ slot \in Slots /\ loop \in Places
    /\ wakeup \in BOOLEAN /\ disconnecting \in BOOLEAN /\ shutting \in BOOLEAN
    /\ closes \in 0 .. MaxCloses

Capped ==
    /\ Len(queue) <= QueueCap
    /\ Len(slot.buffer) <= BufferCap
    /\ Len(slot.gate) <= Backlog + 1

\* Where a hook is queued without a look at the gate, the gate is empty: at the
\* first connect the slot is as it was added; at the next one on a terminal it
\* was removed when it was idle, and comm_slots_mtx is held since.
Gated ==
    /\ loop \in {"start", "connect"} => slot = Fresh /\ ~disconnecting /\ ~shutting
    /\ loop = "reconnect" =>
          slot.live /\ slot.gate = <<>> /\ slotsMutex = "loop" /\ mode = "console"
    /\ mode # "file" /\ ~slot.live /\ loop # "done" => slot.gate = <<>>
    /\ strict => slot.gate = <<>>
    /\ reader.at = "eof" => mode = "file"

Shape == Typed /\ Capped /\ Gated

\* The bounds of the model, from its assumption.
LEMMA Bounds ==
    /\ QueueCap \in Nat /\ QueueCap # 0 /\ BufferCap \in Nat /\ BufferCap # 0
    /\ Backlog \in Nat /\ Backlog # 0 /\ MaxCloses \in Nat
BY InputThreadsAssumption

\* The invariant holds when mudmux_run starts.
LEMMA ShapeInit == Init => Shape
<1> SUFFICES ASSUME Init PROVE Shape
  OBVIOUS
<1>1. /\ source \in Seq(Nat) /\ mode \in Modes /\ device \in Devices
      /\ mode = "file" => device = "regular"
  BY InputThreadsAssumption DEF Init
<1>2. <<>> \in Seq(Nat) /\ <<>> \in Seq(Hooks) /\ Len(<<>>) = 0
  OBVIOUS
<1>3. NoReader \in Readers
  BY DEF NoReader, Readers, ReaderPlaces
<1>4. slot = Fresh /\ Fresh \in Slots
  BY <1>2 DEF Init, Fresh, Slots
<1>5. Typed
  <2>1. closes \in 0 .. MaxCloses /\ lost \in SUBSET Nat
    BY Bounds DEF Init
  <2>2. loop \in Places /\ slotsMutex = "none" /\ inputMutex = "none"
    BY DEF Init, Places
  <2>3. strict \in BOOLEAN /\ prompting \in BOOLEAN
    BY DEF Init
  <2>4. wakeup \in BOOLEAN /\ disconnecting \in BOOLEAN /\ shutting \in BOOLEAN
    BY DEF Init
  <2>5. /\ unread \in Seq(Nat) /\ queue \in Seq(Nat) /\ delivered \in Seq(Nat)
        /\ reader \in Readers
    BY <1>1, <1>2, <1>3 DEF Init
  <2> QED
    BY <1>1, <1>4, <2>1, <2>2, <2>3, <2>4, <2>5 DEF Typed
<1>6. slot.buffer = <<>> /\ slot.gate = <<>> /\ slot.live
  BY <1>4 DEF Fresh
<1>7. Capped
  BY <1>2, <1>6, Bounds DEF Init, Capped
<1>8. Gated
  BY <1>4, <1>6 DEF Init, Gated, NoReader
<1> QED
  BY <1>5, <1>7, <1>8 DEF Shape

\* console_worker_set_eof and mudmux_shutdown change the flags only, and the
\* EOF flag only of a worker there is.
LEMMA PostsFacts ==
    ASSUME Typed, NEW signal \in BOOLEAN, NEW shut \in BOOLEAN, Posts(signal, shut)
    PROVE  /\ reader' \in Readers /\ reader'.at = reader.at /\ reader'.stop = reader.stop
           /\ reader'.line = reader.line
           /\ reader'.eof => reader.eof \/ (signal /\ reader.at # "none")
           /\ wakeup' \in BOOLEAN /\ shutting' \in BOOLEAN
           /\ shutting' => shutting \/ shut
BY DEF Typed, Readers, Posts, HasContext

\* The reader's steps leave the slot and the loop alone.
LEMMA ShapeOfReader ==
    ASSUME Shape, ReaderSteps
    PROVE  Shape'
<1>1. /\ reader \in Readers /\ unread \in Seq(Nat) /\ queue \in Seq(Nat)
      /\ reader.line \in Nat /\ wakeup \in BOOLEAN
  BY DEF Shape, Typed, Readers
<1>2. unread # <<>> => Head(unread) \in Nat /\ Tail(unread) \in Seq(Nat)
  BY <1>1
<1>3. UNCHANGED <<setup, inputMutex, slot, loop, disconnecting, shutting, delivered, closes>>
  BY DEF ReaderSteps, WorkerReads, WorkerStops, ReaderFails, FileReads, FileReportsEof, ReaderEnqueues,
         ReaderPosts, ReaderOnly
<1>4. Gated'
  <2>1. loop = "reconnect" => slotsMutex' = "loop"
    BY DEF ReaderSteps, WorkerReads, WorkerStops, ReaderFails, FileReads, FileReportsEof, ReaderEnqueues,
           ReaderPosts, Shape, Gated
  <2>2. reader'.at = "eof" => mode = "file"
    BY <1>1 DEF ReaderSteps, WorkerReads, WorkerStops, ReaderFails, FileReads, FileReportsEof, ReaderEnqueues,
                ReaderPosts, Readers
  <2> QED
    BY <1>3, <2>1, <2>2 DEF Gated, Shape, setup
<1>5. ASSUME UNCHANGED <<queue, lost>>, reader' \in Readers, unread' \in Seq(Nat),
             wakeup' \in BOOLEAN, slotsMutex' \in {"none", "loop", "reader", "hook"}
      PROVE  Typed' /\ Capped'
  BY <1>3, <1>5 DEF Shape, Typed, Capped, setup
<1>6. CASE WorkerReads
  <2>1. reader' \in Readers /\ wakeup' \in BOOLEAN
    BY <1>1, <1>2, <1>6 DEF WorkerReads, Readers, ReaderPlaces
  <2>2. unread' \in Seq(Nat)
    BY <1>1, <1>2, <1>6 DEF WorkerReads
  <2> QED
    BY <2>1, <2>2, <1>4, <1>5, <1>6 DEF WorkerReads, Shape, Typed
<1>7. CASE WorkerStops
  <2>1. reader' \in Readers
    BY <1>1, <1>7 DEF WorkerStops, Readers, ReaderPlaces
  <2> QED
    BY <2>1, <1>4, <1>5, <1>7 DEF WorkerStops, Shape, Typed
<1>8. CASE FileReads
  <2>1. reader' \in Readers
    BY <1>1, <1>2, <1>8 DEF FileReads, Readers, ReaderPlaces
  <2>2. unread' \in Seq(Nat)
    BY <1>1, <1>2, <1>8 DEF FileReads
  <2>3. slotsMutex' \in {"none", "loop", "reader", "hook"}
    BY <1>8 DEF FileReads, Shape, Typed
  <2> QED
    BY <2>1, <2>2, <2>3, <1>1, <1>4, <1>5, <1>8 DEF FileReads, Shape
<1>9. CASE FileReportsEof
  <2>1. reader' \in Readers
    BY <1>1, <1>9 DEF FileReportsEof, Readers, ReaderPlaces
  <2> QED
    BY <2>1, <1>1, <1>4, <1>5, <1>9 DEF FileReportsEof, Shape
<1>10. CASE ReaderEnqueues
  <2>1. reader' \in Readers
    BY <1>1, <1>10 DEF ReaderEnqueues, Readers, ReaderPlaces
  <2>2. PICK q \in Seq(Nat) : /\ q = (IF Len(queue) = QueueCap THEN Tail(queue) ELSE queue)
                              /\ Len(q) < QueueCap
    <3>1. Len(queue) \in Nat /\ Len(queue) <= QueueCap
      BY <1>1 DEF Shape, Capped
    <3>2. CASE Len(queue) = QueueCap
      <4>1. queue # <<>>
        BY <3>2, Bounds
      <4>2. PICK q \in Seq(Nat) : q = Tail(queue) /\ Len(q) = Len(queue) - 1
        BY <1>1, <4>1, HeadTailProperties
      <4>3. Len(q) < QueueCap
        BY <3>1, <3>2, <4>2, Bounds
      <4> QED
        BY <3>2, <4>2, <4>3
    <3>3. CASE Len(queue) # QueueCap
      BY <3>1, <3>3, <1>1, Bounds
    <3> QED
      BY <3>2, <3>3
  <2>3. queue' = Append(q, reader.line)
    BY <2>2, <1>10 DEF ReaderEnqueues, EnqueueLine
  <2>4. Append(q, reader.line) \in Seq(Nat) /\ Len(Append(q, reader.line)) = Len(q) + 1
    BY <1>1, AppendProperties
  <2>5. Len(queue') <= QueueCap
    BY <2>2, <2>3, <2>4, Bounds
  <2>6. lost' \in SUBSET Nat
    <3>1. Range(queue) \subseteq Nat
      BY <1>1 DEF Range
    <3> QED
      BY <3>1, <1>10 DEF ReaderEnqueues, Shape, Typed
  <2>7. Typed' /\ Capped'
    BY <2>1, <2>3, <2>4, <2>5, <2>6, <1>3, <1>10 DEF ReaderEnqueues, Shape, Typed, Capped, setup
  <2> QED
    BY <2>7, <1>4 DEF Shape
<1>11. CASE ReaderPosts
  <2>1. reader' \in Readers
    BY <1>1, <1>11 DEF ReaderPosts, Readers, ReaderPlaces
  <2> QED
    BY <2>1, <1>1, <1>4, <1>5, <1>11 DEF ReaderPosts, Shape, Typed
<1>12. CASE ReaderFails
  <2>1. reader' \in Readers
    BY <1>1, <1>12 DEF ReaderFails, Readers, ReaderPlaces
  <2> QED
    BY <2>1, <1>1, <1>4, <1>5, <1>12 DEF ReaderFails, Shape, Typed
<1> QED
  BY <1>6, <1>7, <1>8, <1>9, <1>10, <1>11, <1>12 DEF ReaderSteps

\* Steps of the loop that change neither the slot nor what is queued.
QuietSteps ==
    \/ StartReader \/ Top \/ Wait \/ TakeEof \/ JoinWorker \/ Rearm
    \/ NoConsoleEof \/ FileEof \/ WaitForHook \/ ReleaseInput

\* They keep the invariant.
LEMMA ShapeOfQuiet ==
    ASSUME Shape, QuietSteps
    PROVE  Shape'
<1>1. /\ reader \in Readers /\ reader.eof \in BOOLEAN /\ wakeup \in BOOLEAN
      /\ shutting \in BOOLEAN /\ disconnecting \in BOOLEAN /\ mode \in Modes
  BY DEF Shape, Typed, Readers
<1>2. UNCHANGED <<setup, unread, queue, slot, delivered, lost, closes>>
  BY DEF QuietSteps, StartReader, Top, Wait, TakeEof, JoinWorker, Rearm, NoConsoleEof, FileEof,
         WaitForHook, ReleaseInput, history
<1>3. NewReader \in Readers /\ NoReader \in Readers /\ NewReader.at = "read" /\ NoReader.at = "none"
  BY DEF NewReader, NoReader, Readers, ReaderPlaces
<1>4. Capped'
  BY <1>2 DEF Shape, Capped
<1>5. ASSUME reader' \in Readers, loop' \in Places, wakeup' \in BOOLEAN, disconnecting' \in BOOLEAN,
             shutting' \in BOOLEAN, slotsMutex' \in {"none", "loop", "reader", "hook"},
             inputMutex' \in {"none", "loop"}
      PROVE  Typed'
  BY <1>2, <1>5 DEF Shape, Typed, setup
<1>6. ASSUME loop # "done", loop' \notin {"start", "connect", "reconnect"},
             reader'.at = "eof" => reader.at = "eof"
      PROVE  Gated'
  BY <1>2, <1>6 DEF Shape, Gated, setup
<1>7. CASE StartReader
  <2>1. Typed'
    BY <1>1, <1>3, <1>5, <1>7 DEF StartReader, Shape, Typed, Places
  <2>2. Gated'
    BY <1>2, <1>3, <1>7 DEF StartReader, Shape, Gated, setup
  <2> QED
    BY <2>1, <2>2, <1>4 DEF Shape
<1>8. CASE Top
  BY <1>1, <1>4, <1>5, <1>6, <1>8 DEF Top, Shape, Typed, Places
<1>9. CASE Wait
  BY <1>1, <1>4, <1>5, <1>6, <1>9 DEF Wait, Shape, Typed, Places
<1>10. CASE TakeEof
  <2>1. reader' \in Readers /\ reader'.at = reader.at
    BY <1>1, <1>10 DEF TakeEof, Readers
  <2> QED
    BY <2>1, <1>1, <1>4, <1>5, <1>6, <1>10 DEF TakeEof, Shape, Typed, Places
<1>11. CASE JoinWorker
  BY <1>1, <1>3, <1>4, <1>5, <1>6, <1>11 DEF JoinWorker, Shape, Typed, Places
<1>12. CASE Rearm
  BY <1>1, <1>3, <1>4, <1>5, <1>6, <1>12 DEF Rearm, Shape, Typed, Places
<1>13. CASE NoConsoleEof
  BY <1>1, <1>4, <1>5, <1>6, <1>13 DEF NoConsoleEof, Leave, Shape, Typed, Places
<1>14. CASE FileEof
  <2>1. /\ reader' \in Readers /\ reader'.at = reader.at
        /\ wakeup' \in BOOLEAN /\ shutting' \in BOOLEAN
    BY <1>1, <1>14, PostsFacts DEF FileEof, Shape
  <2> QED
    BY <2>1, <1>1, <1>4, <1>5, <1>6, <1>14 DEF FileEof, Leave, Shape, Typed, Places
<1>15. CASE WaitForHook
  BY <1>1, <1>4, <1>5, <1>6, <1>15 DEF WaitForHook, Shape, Typed, Places
<1>16. CASE ReleaseInput
  <2>1. reader' \in Readers /\ reader'.at = reader.at
    BY <1>1, <1>16 DEF ReleaseInput, Readers
  <2> QED
    BY <2>1, <1>1, <1>4, <1>5, <1>6, <1>16 DEF ReleaseInput, Shape, Typed, Places
<1> QED
  BY <1>7, <1>8, <1>9, <1>10, <1>11, <1>12, <1>13, <1>14, <1>15, <1>16 DEF QuietSteps

\* comm_close of slot 0, in the loop or on a worker, keeps the invariant.
LEMMA ShapeOfClose ==
    ASSUME Shape, NEW c, CloseResult(slot, c), slot' = c.slot,
           UNCHANGED <<setup, unread, queue, lost>>,
           loop \notin {"start", "connect", "reconnect", "done"},
           loop' \in Places \ {"start", "connect", "reconnect"},
           reader' \in Readers, reader'.at = reader.at, delivered' \in Seq(Nat),
           wakeup' \in BOOLEAN, disconnecting' \in BOOLEAN,
           shutting' \in BOOLEAN, slotsMutex' \in {"none", "loop", "reader", "hook"},
           inputMutex' \in {"none", "loop"}, closes' \in 0 .. MaxCloses
    PROVE  Shape'
<1>1. slot \in Slots /\ slot.gate \in Seq(Hooks)
  BY DEF Shape, Typed, Slots
<1>2. slot' \in Slots
  BY DEF CloseResult
<1>3. Typed'
  BY <1>2 DEF Shape, Typed, setup
<1>4. Len(slot'.buffer) <= BufferCap
  <2>1. Len(<<>>) = 0
    OBVIOUS
  <2> QED
    BY <2>1, Bounds DEF CloseResult, Shape, Capped
<1>5. Len(slot'.gate) <= Backlog + 1
  BY <1>1, Bounds DEF CloseResult, Shape, Capped
<1>6. Capped'
  BY <1>4, <1>5 DEF Shape, Capped
<1>7. Gated'
  <2>1. mode # "file" /\ ~slot'.live => slot'.gate = <<>>
    BY DEF CloseResult, Shape, Gated
  <2>2. strict => slot'.gate = <<>>
    BY DEF CloseResult, Shape, Gated
  <2> QED
    BY <2>1, <2>2 DEF Shape, Gated, setup
<1> QED
  BY <1>3, <1>6, <1>7 DEF Shape

\* The steps of the loop that may call comm_close and nothing else.
CloseSteps == Progress \/ CloseSlots \/ AwaitDisconnect \/ StopWorkers

\* They keep the invariant.
LEMMA ShapeOfCloseSteps ==
    ASSUME Shape, CloseSteps
    PROVE  Shape'
<1>1. /\ slot \in Slots /\ strict \in BOOLEAN /\ reader \in Readers /\ wakeup \in BOOLEAN
      /\ shutting \in BOOLEAN /\ disconnecting \in BOOLEAN /\ delivered \in Seq(Nat)
      /\ slotsMutex \in {"none", "loop", "reader", "hook"} /\ inputMutex \in {"none", "loop"}
      /\ closes \in 0 .. MaxCloses
  BY DEF Shape, Typed
<1>2. PICK c : c = Close(slot, TRUE)
  OBVIOUS
<1>3. CloseResult(slot, c)
  BY <1>1, <1>2, CloseFacts, Bounds
<1>4. /\ UNCHANGED <<setup, unread, queue, lost, delivered, closes, disconnecting,
                     slotsMutex, inputMutex>>
      /\ loop \notin {"start", "connect", "reconnect", "done"}
      /\ loop' \in Places \ {"start", "connect", "reconnect"}
  BY DEF CloseSteps, Progress, CloseSlots, AwaitDisconnect, StopWorkers, history, Places
<1>5. ASSUME slot' = c.slot, NEW signal \in BOOLEAN, NEW shut \in BOOLEAN, Posts(signal, shut)
      PROVE  Shape'
  <2>1. /\ reader' \in Readers /\ reader'.at = reader.at
        /\ wakeup' \in BOOLEAN /\ shutting' \in BOOLEAN
    BY <1>5, PostsFacts DEF Shape
  <2> QED
    BY <2>1, <1>1, <1>3, <1>4, <1>5, ShapeOfClose
<1>6. ASSUME UNCHANGED <<slot, reader, wakeup, shutting>>
      PROVE  Shape'
  <2>1. Typed' /\ Capped'
    BY <1>4, <1>6 DEF Shape, Typed, Capped, setup
  <2>2. Gated'
    BY <1>4, <1>6 DEF Shape, Gated, setup
  <2> QED
    BY <2>1, <2>2 DEF Shape
<1>7. c.signal \in BOOLEAN /\ c.shut \in BOOLEAN
  BY <1>3 DEF CloseResult
<1>8. CASE Progress
  BY <1>2, <1>5, <1>6, <1>7, <1>8 DEF Progress
<1>9. CASE CloseSlots
  BY <1>2, <1>5, <1>7, <1>9 DEF CloseSlots
<1>10. CASE AwaitDisconnect
  <2> DEFINE again == Has(slot, "DISCONNECT_PENDING") /\ ~Busy(slot)
  <2>1. slot' = (IF again THEN c.slot ELSE slot) /\ Posts(again /\ c.signal, again /\ c.shut)
    BY <1>2, <1>10 DEF AwaitDisconnect
  <2>2. CASE again
    <3>1. (again /\ c.signal) \in BOOLEAN /\ (again /\ c.shut) \in BOOLEAN
      BY <1>7
    <3> QED
      BY <2>1, <2>2, <3>1, <1>5
  <2>3. CASE ~again
    <3>1. Posts(FALSE, FALSE) /\ slot' = slot
      <4>1. (again /\ c.signal) = FALSE /\ (again /\ c.shut) = FALSE
        BY <2>3
      <4> QED
        BY <2>1, <2>3, <4>1
    <3>2. UNCHANGED <<reader, wakeup, shutting>>
      BY <3>1, <1>1 DEF Posts
    <3> QED
      BY <3>1, <3>2, <1>6
  <2> QED
    BY <2>2, <2>3
<1>11. CASE StopWorkers
  BY <1>2, <1>5, <1>6, <1>7, <1>11 DEF StopWorkers
<1> QED
  BY <1>8, <1>9, <1>10, <1>11 DEF CloseSteps

\* What a drain does: the first n lines go to the slot; the next one, if there
\* is one, is lost.
DrainResult(n) ==
    /\ slot' = [slot EXCEPT !.buffer = @ \o Upto(queue, n)]
    /\ slot'.buffer = slot.buffer \o Upto(queue, n)
    /\ slot'.live = slot.live /\ slot'.flags = slot.flags /\ slot'.gate = slot.gate
    /\ slot' \in Slots /\ Len(slot'.buffer) <= BufferCap
    /\ queue' = IF n < Len(queue) THEN After(queue, n + 1) ELSE <<>>
    /\ lost' = IF n < Len(queue) THEN lost \cup {queue[n + 1]} ELSE lost
    /\ Posts(n < Len(queue) /\ mode # "file", FALSE)

\* Everything queued goes to the slot as long as it fits.
LEMMA DrainFacts ==
    ASSUME Shape, Drain
    PROVE  \E n \in 0 .. Len(queue) : DrainResult(n)
<1>1. /\ slot \in Slots /\ queue \in Seq(Nat) /\ slot.buffer \in Seq(Nat) /\ slot.live \in BOOLEAN
      /\ Len(slot.buffer) \in Nat
  BY DEF Shape, Typed, Slots
<1>2. PICK l \in Nat : l = Len(queue)
  BY <1>1
<1>a. PICK m \in Nat : m = Len(slot.buffer) /\ m <= BufferCap
  BY <1>1 DEF Shape, Capped
<1>3. PICK room \in Nat : /\ room = (IF slot.live THEN BufferCap - Len(slot.buffer) ELSE 0)
                          /\ room + m <= BufferCap
  <2>1. BufferCap - m \in Nat /\ BufferCap - m + m <= BufferCap /\ 0 + m <= BufferCap
    BY <1>a, Bounds
  <2>2. CASE slot.live
    BY <2>1, <2>2, <1>a
  <2>3. CASE ~slot.live
    BY <2>1, <2>3, <1>a
  <2> QED
    BY <2>2, <2>3
<1>4. PICK n \in 0 .. l : n = (IF room < l THEN room ELSE l) /\ n <= room
  OBVIOUS
<1>5. /\ slot' = [slot EXCEPT !.buffer = @ \o SubSeq(queue, 1, n)]
      /\ queue' = SubSeq(queue, n + 2, l)
      /\ lost' = IF n < l THEN lost \cup {queue[n + 1]} ELSE lost
      /\ Posts(n < l /\ mode # "file", FALSE)
  BY <1>2, <1>3, <1>4 DEF Drain
<1>6. Upto(queue, n) \in Seq(Nat) /\ Len(Upto(queue, n)) = n
  BY <1>1, <1>2, Split
<1>7. PICK b \in Seq(Nat) : b = slot.buffer \o Upto(queue, n) /\ Len(b) = m + n
  <2>1. /\ slot.buffer \o Upto(queue, n) \in Seq(Nat)
        /\ Len(slot.buffer \o Upto(queue, n)) = Len(slot.buffer) + Len(Upto(queue, n))
    BY <1>1, <1>6, ConcatProperties
  <2> QED
    BY <2>1, <1>a, <1>6
<1>8. Len(b) <= BufferCap
  <2>1. n \in Nat /\ n <= room
    BY <1>4
  <2>2. room + m <= BufferCap
    BY <1>3
  <2>3. m + n <= BufferCap
    BY <2>1, <2>2, Bounds
  <2> QED
    BY <2>3, <1>7
<1>9. /\ slot' = [slot EXCEPT !.buffer = b] /\ slot' \in Slots /\ slot'.buffer = b
      /\ slot'.live = slot.live /\ slot'.flags = slot.flags /\ slot'.gate = slot.gate
  BY <1>1, <1>5, <1>7 DEF Slots, Upto
<1>10. queue' = IF n < l THEN After(queue, n + 1) ELSE <<>>
  <2>1. CASE n < l
    <3>1. n + 1 + 1 = n + 2
      OBVIOUS
    <3> QED
      BY <2>1, <3>1, <1>2, <1>5 DEF After
  <2>2. CASE ~(n < l)
    <3>1. l < n + 2 /\ n + 2 \in Int /\ l \in Int
      BY <2>2
    <3> QED
      BY <2>2, <3>1, <1>5, SubSeqEmpty
  <2> QED
    BY <2>1, <2>2
<1>11. DrainResult(n)
  BY <1>2, <1>5, <1>7, <1>8, <1>9, <1>10 DEF DrainResult, Upto
<1> QED
  BY <1>2, <1>11

\* What is left of the queue after a drain.
LEMMA DrainedQueue ==
    ASSUME NEW q \in Seq(Nat), NEW n \in 0 .. Len(q)
    PROVE  LET r == IF n < Len(q) THEN After(q, n + 1) ELSE <<>> IN
           r \in Seq(Nat) /\ Len(r) <= Len(q)
<1>1. PICK l \in Nat : l = Len(q)
  OBVIOUS
<1>2. CASE n < l
  <2>1. PICK k \in 0 .. l : k = n + 1
    BY <1>2
  <2>2. After(q, k) \in Seq(Nat) /\ Len(After(q, k)) = l - k
    BY <1>1, Split
  <2> QED
    BY <1>1, <1>2, <2>1, <2>2
<1>3. CASE ~(n < l)
  BY <1>1, <1>3
<1> QED
  BY <1>2, <1>3

\* The lines that comm_process_input takes.
LEMMA TakenType ==
    ASSUME NEW s \in Slots, strict \in BOOLEAN
    PROVE  /\ Taken(s) \in Seq(Nat) /\ Processed(s).buffer \in Seq(Nat)
           /\ Len(Processed(s).buffer) <= Len(s.buffer)
           /\ Taken(s) \o Processed(s).buffer = s.buffer
<1>1. ProcessResult(s, Processed(s), Taken(s)) /\ s.buffer \in Seq(Nat)
  BY ProcessedFacts DEF Slots
<1>2. PICK k \in 0 .. Len(s.buffer) : /\ Taken(s) = Upto(s.buffer, k)
                                      /\ Processed(s).buffer = After(s.buffer, k)
  BY <1>1 DEF ProcessResult
<1>3. PICK l \in Nat : l = Len(s.buffer)
  BY <1>1
<1>4. /\ Upto(s.buffer, k) \in Seq(Nat) /\ After(s.buffer, k) \in Seq(Nat)
      /\ Len(After(s.buffer, k)) = Len(s.buffer) - k
      /\ Upto(s.buffer, k) \o After(s.buffer, k) = s.buffer
  BY <1>1, Split
<1> QED
  BY <1>2, <1>3, <1>4

\* comm_process_input keeps the invariant.
LEMMA ShapeOfProcessing ==
    ASSUME Shape, NEW s \in Slots, s.live = slot.live, s.buffer = slot.buffer,
           s.gate = slot.gate, slot' = Processed(s), delivered' \in Seq(Nat),
           UNCHANGED <<setup, unread, inputMutex, slotsMutex, queue, reader, wakeup,
                       disconnecting, shutting, lost, closes>>,
           loop \notin {"start", "connect", "reconnect", "done"},
           loop' \in Places \ {"start", "connect", "reconnect"}
    PROVE  Shape'
<1>1. strict \in BOOLEAN /\ slot \in Slots /\ Len(slot.buffer) \in Nat /\ Len(slot.gate) \in Nat
  BY DEF Shape, Typed, Slots
<1>2. ProcessResult(s, slot', Taken(s)) /\ Len(slot'.buffer) <= Len(slot.buffer)
      /\ slot'.buffer \in Seq(Nat)
  BY <1>1, ProcessedFacts, TakenType
<1>3. Typed'
  BY <1>2 DEF ProcessResult, Shape, Typed, setup
<1>4. slot'.gate = slot.gate \/ (slot'.gate = <<"inbound">> /\ ~strict /\ slot.live)
  BY <1>2 DEF ProcessResult, Accepts
<1>5. Capped'
  <2>1. Len(<<"inbound">>) = 1
    OBVIOUS
  <2>2. Len(slot'.gate) <= Backlog + 1
    <3>1. 1 <= Backlog + 1
      BY Bounds
    <3> QED
      BY <1>4, <2>1, <3>1 DEF Shape, Capped
  <2>3. Len(slot'.buffer) <= BufferCap
    <3>1. Len(slot'.buffer) \in Nat
      BY <1>2
    <3> QED
      BY <3>1, <1>1, <1>2, Bounds DEF Shape, Capped
  <2> QED
    BY <2>2, <2>3 DEF Shape, Capped
<1>6. Gated'
  <2>1. slot'.live <=> slot.live
    BY <1>2 DEF ProcessResult
  <2> QED
    BY <2>1, <1>1, <1>4 DEF Shape, Gated, setup
<1> QED
  BY <1>3, <1>5, <1>6 DEF Shape

\* The other steps of the loop.
SlotSteps ==
    \/ InvokeConnect \/ ConnectCloses \/ Lookup \/ Drain \/ Process \/ ProcessCloses
    \/ ConsoleEof \/ Resume \/ Prompt \/ JoinReader

\* They keep the invariant.
LEMMA ShapeOfSlotSteps ==
    ASSUME Shape, SlotSteps
    PROVE  Shape'
<1>1. /\ slot \in Slots /\ strict \in BOOLEAN /\ reader \in Readers /\ wakeup \in BOOLEAN
      /\ shutting \in BOOLEAN /\ disconnecting \in BOOLEAN /\ delivered \in Seq(Nat)
      /\ slotsMutex \in {"none", "loop", "reader", "hook"} /\ inputMutex \in {"none", "loop"}
      /\ closes \in 0 .. MaxCloses /\ queue \in Seq(Nat) /\ lost \in SUBSET Nat
      /\ mode \in Modes
  BY DEF Shape, Typed
<1>2. Range(queue) \subseteq Nat /\ <<>> \in Seq(Nat) /\ Len(<<>>) = 0
  BY <1>1 DEF Range
<1>3. /\ slot.gate \in Seq(Hooks) /\ Len(slot.gate) \in Nat /\ Len(slot.buffer) \in Nat
      /\ slot.buffer \in Seq(Nat)
  BY <1>1 DEF Slots
<1>4. CASE InvokeConnect
  <2>1. slot.gate = <<>>
    BY <1>4 DEF InvokeConnect, MayConnect, Shape, Gated, Fresh
  <2>2. /\ slot' \in Slots /\ slot'.buffer = slot.buffer /\ slot'.live = slot.live
        /\ Len(slot'.gate) <= 1
        /\ strict => slot'.gate = <<>>
    <3>1. PICK t : t = Connect(slot)
      OBVIOUS
    <3>2. /\ t \in Slots /\ t.buffer = slot.buffer /\ t.live = slot.live
          /\ strict => t.gate = slot.gate
          /\ ~strict => Len(t.gate) = Len(slot.gate) + 1
      BY <3>1, <1>1, ConnectFacts
    <3>3. strict \/ Len(t.gate) = 1
      BY <3>2, <2>1, <1>2
    <3>4. Len(t.gate) <= 1
      <4>1. strict => t.gate = <<>>
        BY <3>2, <2>1
      <4>2. Len(t.gate) = 0 \/ Len(t.gate) = 1
        BY <4>1, <3>3, <1>2
      <4>3. 0 <= 1 /\ 1 <= 1
        OBVIOUS
      <4> QED
        BY <4>2, <4>3, Zenon
    <3> QED
      BY <3>1, <3>2, <3>4, <2>1, <1>4 DEF InvokeConnect
  <2>3. slot.live
    BY <1>4 DEF InvokeConnect, MayConnect, Shape, Gated, Fresh
  <2>4. Typed'
    BY <2>2, <1>4 DEF InvokeConnect, Shape, Typed, Places, setup, history
  <2>5. Capped'
    <3>1. Len(slot'.gate) <= Backlog + 1
      <4>1. slot'.gate \in Seq(Hooks) /\ Len(slot'.gate) \in Nat
        BY <2>2 DEF Slots
      <4> QED
        BY <4>1, <2>2, Bounds
    <3> QED
      BY <3>1, <2>2, <1>4 DEF InvokeConnect, Shape, Capped
  <2>6. Gated'
    BY <2>2, <2>3, <1>4 DEF InvokeConnect, MayConnect, Shape, Gated, setup
  <2> QED
    BY <2>4, <2>5, <2>6 DEF Shape
<1>5. CASE ConnectCloses
  <2>1. /\ slot' \in Slots /\ slot'.buffer = slot.buffer /\ slot'.live = slot.live
        /\ slot'.gate = slot.gate
    BY <1>1, <1>5, RaiseFacts DEF ConnectCloses, Flags
  <2>2. closes' \in 0 .. MaxCloses
    BY <1>1, <1>5, Bounds DEF ConnectCloses
  <2>3. Typed'
    BY <2>1, <2>2, <1>5 DEF ConnectCloses, Shape, Typed, Places, setup
  <2>4. Capped'
    BY <2>1, <1>5 DEF ConnectCloses, Shape, Capped
  <2>5. Gated'
    BY <2>1, <1>5 DEF ConnectCloses, MayConnect, Shape, Gated, setup
  <2> QED
    BY <2>3, <2>4, <2>5 DEF Shape
<1>6. CASE Lookup
  <2>1. CASE ~slot.live /\ mode = "console" /\ HasContext /\ queue # <<>>
    <3>1. slot' = [slot EXCEPT !.live = TRUE] /\ queue' = <<>> /\ lost' = lost \cup Range(queue)
          /\ slotsMutex' = "loop" /\ loop' = "reconnect" /\ inputMutex' = inputMutex
      BY <1>6, <2>1 DEF Lookup
    <3>2. slot' \in Slots /\ slot'.buffer = slot.buffer /\ slot'.gate = slot.gate /\ slot'.live
      BY <3>1, <1>1 DEF Slots
    <3>3. lost' \in SUBSET Nat
      BY <3>1, <1>1, <1>2
    <3>4. Typed'
      BY <3>1, <3>2, <3>3, <1>2, <1>6 DEF Lookup, Shape, Typed, Places, setup
    <3>5. Capped'
      BY <3>1, <3>2, <1>2, Bounds DEF Shape, Capped
    <3>6. Gated'
      BY <3>1, <3>2, <1>6, <2>1 DEF Lookup, Shape, Gated, setup
    <3> QED
      BY <3>4, <3>5, <3>6 DEF Shape
  <2>2. CASE ~(~slot.live /\ mode = "console" /\ HasContext /\ queue # <<>>)
    <3>1. inputMutex' = "none" /\ loop' = "drain" /\ UNCHANGED <<slot, queue, lost, slotsMutex>>
      BY <1>6, <2>2 DEF Lookup
    <3>2. Typed' /\ Capped'
      BY <3>1, <1>6 DEF Lookup, Shape, Typed, Capped, Places, setup
    <3>3. Gated'
      BY <3>1, <1>6 DEF Lookup, Shape, Gated, setup
    <3> QED
      BY <3>2, <3>3 DEF Shape
  <2> QED
    BY <2>1, <2>2
<1>7. CASE Drain
  <2>1. PICK n \in 0 .. Len(queue) : DrainResult(n)
    BY <1>7, DrainFacts
  <2>2. queue' \in Seq(Nat) /\ Len(queue') <= Len(queue)
    BY <2>1, <1>1, DrainedQueue DEF DrainResult
  <2>3. /\ reader' \in Readers /\ reader'.at = reader.at
        /\ wakeup' \in BOOLEAN /\ shutting' \in BOOLEAN /\ (shutting' => shutting)
    <3>1. (n < Len(queue) /\ mode # "file") \in BOOLEAN
      OBVIOUS
    <3> QED
      BY <2>1, <3>1, PostsFacts DEF DrainResult, Shape
  <2>4. lost' \in SUBSET Nat
    <3>1. n < Len(queue) => queue[n + 1] \in Nat
      BY <1>1
    <3> QED
      BY <2>1, <3>1, <1>1 DEF DrainResult
  <2>5. Typed'
    BY <2>1, <2>2, <2>3, <2>4, <1>7 DEF DrainResult, Drain, Shape, Typed, Places, setup
  <2>6. Capped'
    <3>1. Len(queue') \in Nat /\ Len(queue) \in Nat
      BY <2>2, <1>1
    <3>2. Len(queue') <= QueueCap
      BY <3>1, <2>2, Bounds DEF Shape, Capped
    <3> QED
      BY <3>2, <2>1 DEF DrainResult, Shape, Capped
  <2>7. Gated'
    BY <2>1, <2>3, <1>7 DEF DrainResult, Drain, Shape, Gated, setup
  <2> QED
    BY <2>5, <2>6, <2>7 DEF Shape
<1>8. CASE Process
  <2>1. delivered \o Taken(slot) \in Seq(Nat)
    BY <1>1, TakenType, ConcatProperties
  <2> QED
    BY <2>1, <1>1, <1>8, ShapeOfProcessing DEF Process, Places
<1>9. CASE ProcessCloses
  <2>1. PICK p \in Slots : /\ p = Processed(slot) /\ ProcessResult(slot, p, Taken(slot))
                           /\ Len(p.buffer) <= Len(slot.buffer) /\ Taken(slot) \in Seq(Nat)
    BY <1>1, ProcessedFacts, TakenType DEF ProcessResult
  <2>2. PICK c : c = Close(p, TRUE) /\ CloseResult(p, c)
    BY <1>1, <2>1, CloseFacts, Bounds
  <2>3. PICK k \in 1 .. Len(Taken(slot)) :
          /\ slot' = c.slot /\ Posts(c.signal, c.shut)
          /\ delivered' = delivered \o IF c.slot.live THEN Taken(slot) ELSE SubSeq(Taken(slot), 1, k)
    BY <1>9, <2>1, <2>2 DEF ProcessCloses
  <2>4. delivered' \in Seq(Nat)
    <3>1. PICK t \in Seq(Nat) : t = Taken(slot)
      BY <2>1
    <3>2. k \in 0 .. Len(t)
      BY <2>3, <3>1
    <3>3. Upto(t, k) \in Seq(Nat)
      BY <3>2, Split
    <3>4. PICK d \in Seq(Nat) : d = IF c.slot.live THEN Taken(slot) ELSE SubSeq(Taken(slot), 1, k)
      BY <3>1, <3>3 DEF Upto
    <3> QED
      BY <2>3, <3>4, <1>1, ConcatProperties
  <2>5. /\ reader' \in Readers /\ reader'.at = reader.at
        /\ wakeup' \in BOOLEAN /\ shutting' \in BOOLEAN
    BY <2>2, <2>3, PostsFacts DEF CloseResult, Shape
  <2>6. closes' \in 0 .. MaxCloses
    BY <1>1, <1>9, Bounds DEF ProcessCloses
  <2>7. slot' \in Slots /\ slot'.gate = <<>> /\ Len(slot'.buffer) <= BufferCap
    <3>1. p.gate = <<>>
      BY <2>1, <1>9 DEF ProcessResult, ProcessCloses, Shape, Gated
    <3>2. slot' \in Slots /\ slot'.gate = <<>>
      BY <3>1, <2>2, <2>3, <1>9 DEF CloseResult, ProcessCloses
    <3>3. Len(p.buffer) \in Nat /\ Len(p.buffer) <= BufferCap
      <4>1. Len(p.buffer) \in Nat
        BY DEF Slots
      <4> QED
        BY <4>1, <2>1, <1>3, Bounds DEF Shape, Capped
    <3>4. slot'.buffer = p.buffer \/ slot'.buffer = <<>>
      BY <2>2, <2>3 DEF CloseResult
    <3>5. 0 <= BufferCap
      BY Bounds
    <3> QED
      BY <3>2, <3>3, <3>4, <3>5, <1>2
  <2>8. Typed'
    BY <2>4, <2>5, <2>6, <2>7, <1>9 DEF ProcessCloses, Shape, Typed, Places, setup
  <2>9. Capped' /\ Gated'
    BY <2>5, <2>7, <1>2, <1>9, Bounds DEF ProcessCloses, Shape, Capped, Gated, setup
  <2> QED
    BY <2>8, <2>9 DEF Shape
<1>10. CASE ConsoleEof
  <2> DEFINE begins == ~Has(slot, "CLOSING") \/ Has(slot, "DISCONNECT_PENDING")
             wait(s) == /\ s.live
                        /\ Busy(s) \/ Has(s, "AWAITING_HOOK") \/ Has(s, "DISCONNECT_PENDING")
  <2>1. CloseResult(slot, Close(slot, FALSE))
    BY <1>1, CloseFacts, Bounds
  <2>2. PICK s \in Slots : /\ s = (IF begins THEN Close(slot, FALSE).slot ELSE slot)
                           /\ s.live = slot.live /\ s.buffer = slot.buffer
                           /\ Len(s.gate) <= Backlog + 1
                           /\ strict => s.gate = <<>>
                           /\ ~slot.live => s.gate = slot.gate
    <3>0. mode # "file"
      BY <1>10 DEF ConsoleEof
    <3>1. CASE begins
      <4>1. PICK t \in Slots : t = Close(slot, FALSE).slot
        BY <2>1 DEF CloseResult
      <4>2. Len(t.gate) <= Backlog + 1
        <5>1. \/ t.gate = slot.gate
              \/ Len(t.gate) = Len(slot.gate) + 1 /\ Len(slot.gate) <= Backlog
          BY <2>1, <4>1 DEF CloseResult
        <5> QED
          BY <5>1, <1>3, Bounds DEF Shape, Capped
      <4>3. /\ strict => t.gate = <<>>
            /\ ~slot.live => t.gate = slot.gate
            /\ t.live = slot.live /\ t.buffer = slot.buffer
        BY <2>1, <4>1, <3>0 DEF CloseResult, Shape, Gated
      <4> QED
        BY <3>1, <4>1, <4>2, <4>3
    <3>2. CASE ~begins
      BY <3>2, <1>1 DEF Shape, Gated, Capped
    <3> QED
      BY <3>1, <3>2
  <2>3. /\ mode # "file" /\ loop = "eof" /\ Leave
        /\ UNCHANGED <<setup, unread, inputMutex, delivered, closes>>
        /\ IF wait(s)
           THEN /\ slot' = s
                /\ UNCHANGED <<queue, lost, disconnecting, reader, shutting, wakeup>>
           ELSE /\ slot' = Removed(s)
                /\ queue' = <<>> /\ lost' = lost \cup Range(queue)
                /\ disconnecting' = FALSE
                /\ Posts(FALSE, mode = "stdin")
    BY <2>2, <1>10 DEF ConsoleEof
  <2>4. CASE wait(s)
    <3>1. Typed'
      BY <2>2, <2>3, <2>4 DEF Leave, Shape, Typed, Places, setup
    <3>2. Capped' /\ Gated'
      BY <2>2, <2>3, <2>4 DEF Leave, Shape, Capped, Gated, setup
    <3> QED
      BY <3>1, <3>2 DEF Shape
  <2>5. CASE ~wait(s)
    <3>1. /\ slot' \in Slots /\ ~slot'.live /\ slot'.buffer = <<>> /\ slot'.gate = s.gate
      BY <2>3, <2>5, RemovedFacts
    <3>2. s.gate = <<>>
      BY <2>2, <2>3, <2>5 DEF Busy, Shape, Gated
    <3>3. (mode = "stdin") \in BOOLEAN /\ Posts(FALSE, mode = "stdin")
      BY <2>3, <2>5
    <3>4. /\ reader' \in Readers /\ reader'.at = reader.at
          /\ wakeup' \in BOOLEAN /\ shutting' \in BOOLEAN
      BY <3>3, PostsFacts DEF Shape
    <3>5. lost' \in SUBSET Nat
      BY <2>3, <2>5, <1>1, <1>2
    <3>6. Typed'
      BY <2>3, <2>5, <3>1, <3>4, <3>5, <1>2 DEF Leave, Shape, Typed, Places, setup
    <3>7. Capped'
      <4>1. slot'.gate = <<>> /\ queue' = <<>> /\ slot'.buffer = <<>>
        BY <2>3, <2>5, <3>1, <3>2
      <4>2. 0 <= QueueCap /\ 0 <= BufferCap /\ 0 <= Backlog + 1
        BY Bounds
      <4> QED
        BY <4>1, <4>2, <1>2 DEF Capped
    <3>8. Gated'
      BY <2>3, <2>5, <3>1, <3>2, <3>4 DEF Leave, Shape, Gated, setup
    <3> QED
      BY <3>6, <3>7, <3>8 DEF Shape
  <2> QED
    BY <2>4, <2>5
<1>11. CASE Resume
  <2> DEFINE s == Clear(slot, "DEFERRED_INBOUND")
  <2>1. /\ s \in Slots /\ s.live = slot.live /\ s.buffer = slot.buffer /\ s.gate = slot.gate
    BY <1>1, ClearFacts DEF Flags
  <2>2. CASE slot.live /\ Has(slot, "DEFERRED_INBOUND") /\ ~Busy(slot)
    <3>1. slot' = Processed(s) /\ delivered' = delivered \o Taken(s)
      BY <1>11, <2>2 DEF Resume
    <3> HIDE DEF s
    <3>2. delivered \o Taken(s) \in Seq(Nat)
      BY <1>1, <2>1, TakenType, ConcatProperties
    <3> QED
      BY <2>1, <3>1, <3>2, <1>11, ShapeOfProcessing DEF Resume, Places
  <2>3. CASE ~(slot.live /\ Has(slot, "DEFERRED_INBOUND") /\ ~Busy(slot))
    <3>1. UNCHANGED <<slot, delivered>>
      BY <1>11, <2>3 DEF Resume
    <3>2. Typed' /\ Capped'
      BY <3>1, <1>11 DEF Resume, Shape, Typed, Capped, Places, setup
    <3>3. Gated'
      BY <3>1, <1>11 DEF Resume, Shape, Gated, setup
    <3> QED
      BY <3>2, <3>3 DEF Shape
  <2> QED
    BY <2>2, <2>3
<1>12. CASE Prompt
  <2>1. /\ slot' \in Slots /\ slot'.buffer = slot.buffer /\ slot'.live = slot.live
        /\ slot'.gate = slot.gate \/ (Len(slot'.gate) = 1 /\ ~strict /\ slot.live)
    <3>1. "INVOKED_PROMPT" \in Flags /\ "prompt" \in Hooks
      BY DEF Flags, Hooks
    <3>2. CASE slot' = slot
      BY <3>2, <1>1
    <3>3. CASE slot' # slot
      <4>1. slot.gate = <<>> /\ slot.live
        BY <3>3, <1>12 DEF Prompt, Busy
      <4>2. PICK q : q = (IF strict THEN slot ELSE Enqueue(slot, "prompt"))
        OBVIOUS
      <4>3. slot' = Raise(q, "INVOKED_PROMPT")
        BY <3>3, <4>2, <1>12 DEF Prompt
      <4>4. /\ q \in Slots /\ q.buffer = slot.buffer /\ q.live = slot.live
            /\ q.gate = slot.gate \/ (Len(q.gate) = 1 /\ ~strict)
        <5>1. CASE strict
          BY <5>1, <4>2, <1>1
        <5>2. CASE ~strict
          <6>1. /\ q \in Slots /\ q.buffer = slot.buffer /\ q.live = slot.live
                /\ Len(q.gate) = Len(slot.gate) + 1
            BY <5>2, <4>2, <3>1, <1>1, EnqueueFacts
          <6>2. Len(q.gate) = 1
            BY <6>1, <4>1, <1>2
          <6> QED
            BY <6>1, <6>2, <5>2
        <5> QED
          BY <5>1, <5>2
      <4> QED
        BY <3>1, <4>1, <4>3, <4>4, RaiseFacts
    <3> QED
      BY <3>2, <3>3
  <2>2. Typed'
    BY <2>1, <1>12 DEF Prompt, Shape, Typed, Places, setup, history
  <2>3. Capped'
    <3>1. Len(slot'.gate) <= Backlog + 1
      <4>1. 1 <= Backlog + 1
        BY Bounds
      <4> QED
        BY <2>1, <4>1 DEF Shape, Capped
    <3> QED
      BY <2>1, <3>1, <1>12 DEF Prompt, Shape, Capped
  <2>4. Gated'
    BY <2>1, <1>1, <1>12 DEF Prompt, Shape, Gated, setup
  <2> QED
    BY <2>2, <2>3, <2>4 DEF Shape
<1>13. CASE JoinReader
  <2>1. /\ slot' \in Slots /\ ~slot'.live /\ slot'.buffer = <<>> /\ slot'.gate = slot.gate
    BY <1>1, <1>13, RemovedFacts DEF JoinReader
  <2>2. NoReader \in Readers /\ NoReader.at = "none"
    BY DEF NoReader, Readers, ReaderPlaces
  <2>3. lost' \in SUBSET Nat
    BY <1>1, <1>2, <1>13 DEF JoinReader
  <2>4. Typed'
    BY <2>1, <2>2, <2>3, <1>2, <1>13 DEF JoinReader, Shape, Typed, Places, setup
  <2>5. Capped' /\ Gated'
    BY <2>1, <2>2, <1>2, <1>13, Bounds DEF JoinReader, Shape, Capped, Gated, setup
  <2> QED
    BY <2>4, <2>5 DEF Shape
<1> QED
  BY <1>4, <1>5, <1>6, <1>7, <1>8, <1>9, <1>10, <1>11, <1>12, <1>13 DEF SlotSteps

\* Steps of hooks on workers.
HookSteps == HookCompletes \/ HookLeaves \/ HookCloses \/ HookSignals

\* What the completion of a hook does with the slot: the hook stays in the gate
\* until it leaves, and DEFERRED_INBOUND is raised after connect and inbound.
CompletedSlot(s, t) ==
    /\ t \in Slots /\ (t.live <=> s.live) /\ t.buffer = s.buffer
    /\ t.gate = [s.gate EXCEPT ![1] = "leaving"]
    /\ ~s.live => t.flags = s.flags
    /\ "CLOSING" \in t.flags <=> "CLOSING" \in s.flags
    /\ "ENABLE_PROMPT" \in t.flags => "ENABLE_PROMPT" \in s.flags \/ prompting
    /\ "DEFERRED_INBOUND" \in s.flags => "DEFERRED_INBOUND" \in t.flags
    /\ s.live /\ s.gate[1] \in {"connect", "inbound"} => "DEFERRED_INBOUND" \in t.flags
    /\ "AWAITING_HOOK" \in t.flags => "AWAITING_HOOK" \in s.flags
    /\ s.live /\ s.gate[1] = "connect" /\ "CLOSING" \notin s.flags
          => "AWAITING_HOOK" \notin t.flags

\* The completion of the hook that is running.
LEMMA CompletedFacts ==
    ASSUME Shape, HookCompletes
    PROVE  CompletedSlot(slot, slot') /\ slot.gate # <<>>
<1>1. slot \in Slots /\ slot.gate \in Seq(Hooks) /\ slot.gate # <<>> /\ slot.gate[1] # "leaving"
  BY DEF HookCompletes, Busy, Shape, Typed, Slots
<1>2. 1 \in 1 .. Len(slot.gate) /\ "leaving" \in Hooks
  BY <1>1 DEF Hooks
<1>3. PICK g \in Seq(Hooks) : g = [slot.gate EXCEPT ![1] = "leaving"]
  BY <1>1, <1>2, ExceptSeq
<1>4. PICK s : s = [slot EXCEPT !.gate[1] = "leaving"]
  OBVIOUS
<1>5. /\ s \in Slots /\ s.live = slot.live /\ s.buffer = slot.buffer /\ s.gate = g
      /\ s.flags = slot.flags
  BY <1>1, <1>3, <1>4 DEF Slots
<1>6. PICK hook : hook = slot.gate[1]
  OBVIOUS
<1> DEFINE free(t) == IF Has(t, "CLOSING") THEN t ELSE Clear(t, "AWAITING_HOOK")
<1>7. slot' = IF ~s.live THEN s ELSE
              CASE hook = "connect" -> Raise(free(Connected(s)), "DEFERRED_INBOUND")
                [] hook = "inbound" -> Raise(s, "DEFERRED_INBOUND")
                [] hook = "disconnect" -> Clear(s, "AWAITING_HOOK")
                [] OTHER -> s
  BY <1>4, <1>6 DEF HookCompletes
<1>8. "DEFERRED_INBOUND" \in Flags /\ "AWAITING_HOOK" \in Flags
  BY DEF Flags
<1>9. CASE ~s.live
  BY <1>1, <1>3, <1>5, <1>7, <1>9 DEF CompletedSlot
<1>10. CASE s.live /\ hook = "connect"
  <2>1. PICK u \in Slots :
          /\ u = Connected(s) /\ u.live = s.live /\ u.buffer = s.buffer /\ u.gate = s.gate
          /\ u.flags = IF prompting THEN s.flags \cup {"ENABLE_PROMPT"} ELSE s.flags
    BY <1>5, ConnectedFacts
  <2>2. PICK v \in Slots :
          /\ v = free(u) /\ v.live = u.live /\ v.buffer = u.buffer /\ v.gate = u.gate
          /\ v.flags = IF "CLOSING" \in u.flags THEN u.flags ELSE u.flags \ {"AWAITING_HOOK"}
    BY <1>8, ClearFacts DEF Has
  <2>3. slot' = Raise(v, "DEFERRED_INBOUND")
    BY <1>7, <1>10, <2>1, <2>2
  <2>4. /\ slot' \in Slots /\ slot'.live = v.live /\ slot'.buffer = v.buffer /\ slot'.gate = v.gate
        /\ slot'.flags = v.flags \cup {"DEFERRED_INBOUND"}
    BY <2>3, <1>8, RaiseFacts
  <2> QED
    BY <2>1, <2>2, <2>4, <1>1, <1>3, <1>5, <1>6, <1>10 DEF CompletedSlot
<1>11. CASE s.live /\ hook = "inbound"
  <2>1. slot' = Raise(s, "DEFERRED_INBOUND")
    BY <1>7, <1>11
  <2>2. /\ slot' \in Slots /\ slot'.live = s.live /\ slot'.buffer = s.buffer /\ slot'.gate = s.gate
        /\ slot'.flags = s.flags \cup {"DEFERRED_INBOUND"}
    BY <2>1, <1>5, <1>8, RaiseFacts
  <2> QED
    BY <2>2, <1>1, <1>3, <1>5, <1>6, <1>11 DEF CompletedSlot
<1>12. CASE s.live /\ hook = "disconnect"
  <2>1. slot' = Clear(s, "AWAITING_HOOK")
    BY <1>7, <1>12
  <2>2. /\ slot' \in Slots /\ slot'.live = s.live /\ slot'.buffer = s.buffer /\ slot'.gate = s.gate
        /\ slot'.flags = s.flags \ {"AWAITING_HOOK"}
    BY <2>1, <1>5, <1>8, ClearFacts
  <2> QED
    BY <2>2, <1>1, <1>3, <1>5, <1>6, <1>12 DEF CompletedSlot
<1>13. CASE s.live /\ hook \notin {"connect", "inbound", "disconnect"}
  <2>1. slot' = s
    BY <1>7, <1>13
  <2> QED
    BY <2>1, <1>1, <1>3, <1>5, <1>6, <1>13 DEF CompletedSlot
<1> QED
  BY <1>9, <1>10, <1>11, <1>12, <1>13

\* The steps of hooks keep the invariant.
LEMMA ShapeOfHooks ==
    ASSUME Shape, HookSteps
    PROVE  Shape'
<1>1. /\ slot \in Slots /\ strict \in BOOLEAN /\ reader \in Readers /\ wakeup \in BOOLEAN
      /\ shutting \in BOOLEAN /\ disconnecting \in BOOLEAN /\ delivered \in Seq(Nat)
      /\ slotsMutex \in {"none", "loop", "reader", "hook"} /\ inputMutex \in {"none", "loop"}
      /\ closes \in 0 .. MaxCloses /\ mode \in Modes
      /\ slot.gate \in Seq(Hooks) /\ loop \in Places
  BY DEF Shape, Typed, Slots
<1>2. CASE HookCompletes
  <2>1. CompletedSlot(slot, slot') /\ slot.gate # <<>>
    BY <1>2, CompletedFacts
  <2>2. Len(slot'.gate) = Len(slot.gate)
    <3>1. 1 \in 1 .. Len(slot.gate) /\ "leaving" \in Hooks
      BY <2>1, <1>1 DEF Hooks
    <3>2. Len([slot.gate EXCEPT ![1] = "leaving"]) = Len(slot.gate)
      BY <3>1, <1>1, ExceptSeq
    <3> QED
      BY <3>2, <2>1 DEF CompletedSlot
  <2>3. Typed'
    BY <2>1, <1>2 DEF CompletedSlot, HookCompletes, Hooking, Shape, Typed, setup
  <2>4. Capped'
    BY <2>1, <2>2, <1>2 DEF CompletedSlot, HookCompletes, Hooking, Shape, Capped
  <2>5. ~strict /\ loop \notin {"start", "connect", "reconnect"} /\ (mode = "file" \/ slot.live \/ loop = "done")
    BY <2>1 DEF Shape, Gated, Fresh
  <2>6. Gated'
    BY <2>1, <2>5, <1>2 DEF CompletedSlot, HookCompletes, Hooking, Shape, Gated, setup
  <2> QED
    BY <2>3, <2>4, <2>6 DEF Shape
<1>3. CASE HookLeaves
  <2>1. slot.gate # <<>>
    BY <1>3 DEF HookLeaves, Busy
  <2>2. PICK g \in Seq(Hooks) : g = Tail(slot.gate) /\ Len(g) = Len(slot.gate) - 1
    BY <1>1, <2>1, HeadTailProperties
  <2>3. /\ slot' \in Slots /\ slot'.live = slot.live /\ slot'.buffer = slot.buffer
        /\ slot'.gate = g /\ slot'.flags = slot.flags
    BY <1>1, <1>3, <2>2 DEF HookLeaves, Slots
  <2>4. Typed'
    BY <2>3, <1>3 DEF HookLeaves, Hooking, Shape, Typed, setup
  <2>5. Capped'
    <3>1. Len(g) <= Backlog + 1
      <4>1. Len(g) \in Nat /\ Len(slot.gate) \in Nat
        BY <1>1
      <4> QED
        BY <4>1, <2>2, Bounds DEF Shape, Capped
    <3> QED
      BY <2>3, <3>1, <1>3 DEF HookLeaves, Hooking, Shape, Capped
  <2>6. ~strict /\ loop \notin {"start", "connect", "reconnect"} /\ (mode = "file" \/ slot.live \/ loop = "done")
    BY <2>1 DEF Shape, Gated, Fresh
  <2>7. Gated'
    BY <2>3, <2>6, <1>3 DEF HookLeaves, Hooking, Shape, Gated, setup
  <2> QED
    BY <2>4, <2>5, <2>7 DEF Shape
<1>4. CASE HookCloses
  <2>1. PICK c : c = Close(slot, TRUE) /\ CloseResult(slot, c)
    BY <1>1, CloseFacts, Bounds
  <2>2. /\ slot' = c.slot /\ slotsMutex' \in {"none", "loop", "reader", "hook"}
        /\ Posts(FALSE, c.shut)
    BY <2>1, <1>4 DEF HookCloses
  <2>3. c.shut \in BOOLEAN /\ FALSE \in BOOLEAN
    BY <2>1 DEF CloseResult
  <2>4. /\ reader' \in Readers /\ reader'.at = reader.at
        /\ wakeup' \in BOOLEAN /\ shutting' \in BOOLEAN
    BY <2>2, <2>3, PostsFacts DEF Shape
  <2>5. closes' \in 0 .. MaxCloses
    BY <1>1, <1>4, Bounds DEF HookCloses
  <2>6. /\ loop \notin {"start", "connect", "reconnect", "done"}
        /\ loop' \in Places \ {"start", "connect", "reconnect"}
        /\ UNCHANGED <<setup, unread, queue, lost, delivered, disconnecting, inputMutex>>
    BY <1>1, <1>4 DEF HookCloses, Hooking, Shape, Gated
  <2> QED
    BY <2>1, <2>2, <2>4, <2>5, <2>6, <1>1, ShapeOfClose
<1>5. CASE HookSignals
  <2>1. TRUE \in BOOLEAN /\ FALSE \in BOOLEAN /\ Posts(TRUE, FALSE)
    BY <1>5 DEF HookSignals
  <2>2. /\ reader' \in Readers /\ reader'.at = reader.at
        /\ wakeup' \in BOOLEAN /\ shutting' \in BOOLEAN /\ (shutting' => shutting)
    BY <2>1, PostsFacts DEF Shape
  <2>3. Typed' /\ Capped'
    BY <2>2, <1>5 DEF HookSignals, Hooking, Shape, Typed, Capped, setup
  <2>4. Gated'
    BY <2>2, <1>1, <1>5 DEF HookSignals, Hooking, Shape, Gated, setup
  <2> QED
    BY <2>3, <2>4 DEF Shape
<1> QED
  BY <1>2, <1>3, <1>4, <1>5 DEF HookSteps

\* Every step keeps the invariant.
LEMMA ShapeStep == Shape /\ [Next]_vars => Shape'
<1> SUFFICES ASSUME Shape, [Next]_vars PROVE Shape'
  OBVIOUS
<1>1. CASE ReaderSteps
  BY <1>1, ShapeOfReader
<1>2. CASE LoopSteps
  BY <1>2, ShapeOfQuiet, ShapeOfCloseSteps, ShapeOfSlotSteps
     DEF LoopSteps, QuietSteps, CloseSteps, SlotSteps
<1>3. CASE HookSteps
  BY <1>3, ShapeOfHooks
<1>4. CASE UNCHANGED vars
  <2>1. Typed' /\ Capped'
    BY <1>4 DEF vars, Shape, Typed, Capped
  <2>2. Gated'
    BY <1>4 DEF vars, Shape, Gated
  <2> QED
    BY <2>1, <2>2 DEF Shape
<1> QED
  BY <1>1, <1>2, <1>3, <1>4 DEF Next, HookSteps

\* The invariant implies the type invariant the runs check.
LEMMA ShapeTypeOK == Shape => TypeOK
<1> SUFFICES ASSUME Shape PROVE TypeOK
  OBVIOUS
<1>1. slot \in Slots /\ reader \in Readers
  BY DEF Shape, Typed
<1>2. slot.gate \in BoundedSeq(Hooks, Backlog + 1)
  <2>1. PICK n \in Nat : n = Len(slot.gate) /\ slot.gate \in [1 .. n -> Hooks]
    BY <1>1 DEF Slots
  <2>2. n \in 0 .. Backlog + 1
    BY <2>1, Bounds DEF Shape, Capped
  <2> QED
    BY <2>1, <2>2 DEF BoundedSeq, SeqOf
<1>3. /\ slot.live \in BOOLEAN /\ slot.flags \subseteq Flags
      /\ reader.at \in {"none", "read", "enqueue", "post", "eof", "done", "failed"}
  BY <1>1 DEF Slots, Readers, ReaderPlaces
<1> QED
  BY <1>2, <1>3 DEF Shape, Typed, Capped, TypeOK

\* Whatever the threads do, the queue of the input module, the inbound buffer of
\* the slot and its continuation queue stay within their capacities: the connect
\* hooks, which are queued without a look at the gate, find it empty.
THEOREM InputTypeCorrect == Spec => []TypeOK
<1>1. Spec => []Shape
  BY ShapeInit, ShapeStep, PTL DEF Spec
<1> QED
  BY <1>1, ShapeTypeOK, PTL

-----------------------------------------------------------------------------
(* The order of the lines.                                                 *)

Rising(s) == \A i, j \in DOMAIN s : i < j => s[i] < s[j]

\* The lines of s rise from above lo to at most hi.
Between(s, lo, hi) == Rising(s) /\ \A i \in DOMAIN s : lo < s[i] /\ s[i] <= hi

\* The lines of u rise from above lo; 0 is not a line.
Beyond(u, lo) == Numbered(u) /\ \A i \in DOMAIN u : u[i] # 0 => lo < u[i]

\* What was delivered, what is buffered, queued, carried by the reader and not
\* yet read, one above the other.
Rungs(del, buf, que, car, unr) ==
    \E a, b, c, d \in Nat :
        /\ a <= b /\ b <= c /\ c <= d
        /\ Between(del, 0, a) /\ Between(buf, a, b) /\ Between(que, b, c)
        /\ Between(car, c, d) /\ Beyond(unr, d)

\* The order of a sequence of lines, index by index.
LEMMA BetweenMeans ==
    ASSUME NEW q \in Seq(Nat), NEW l \in Nat, l = Len(q), NEW lo, NEW hi
    PROVE  /\ DOMAIN q = 1 .. l /\ \A i \in 1 .. l : q[i] \in Nat
           /\ Between(q, lo, hi) <=> /\ \A i, j \in 1 .. l : i < j => q[i] < q[j]
                                    /\ \A i \in 1 .. l : lo < q[i] /\ q[i] <= hi
<1>1. DOMAIN q = 1 .. l
  OBVIOUS
<1>2. \A i \in 1 .. l : q[i] \in Nat
  OBVIOUS
<1> QED
  BY <1>1, <1>2, Zenon DEF Between, Rising

\* Two sequences of lines, the second above the first.
LEMMA BetweenConcat ==
    ASSUME NEW s \in Seq(Nat), NEW t \in Seq(Nat), NEW lo \in Nat, NEW mid \in Nat, NEW hi \in Nat,
           lo <= mid, mid <= hi, Between(s, lo, mid), Between(t, mid, hi)
    PROVE  s \o t \in Seq(Nat) /\ Between(s \o t, lo, hi)
<1>1. PICK m \in Nat, n \in Nat : m = Len(s) /\ n = Len(t)
  OBVIOUS
<1>2. PICK r \in Seq(Nat) :
        /\ r = s \o t /\ Len(r) = m + n
        /\ \A i \in 1 .. m + n : r[i] = IF i <= m THEN s[i] ELSE t[i - m]
  <2>1. /\ s \o t \in Seq(Nat) /\ Len(s \o t) = Len(s) + Len(t)
        /\ \A i \in 1 .. Len(s) + Len(t) : (s \o t)[i] =
             IF i <= Len(s) THEN s[i] ELSE t[i - Len(s)]
    BY ConcatProperties
  <2> QED
    BY <1>1, <2>1
<1>3. DOMAIN s = 1 .. m /\ DOMAIN t = 1 .. n /\ DOMAIN r = 1 .. m + n
  BY <1>1, <1>2
<1>4. /\ \A i \in 1 .. m : s[i] \in Nat /\ lo < s[i] /\ s[i] <= mid
      /\ \A i \in 1 .. n : t[i] \in Nat /\ mid < t[i] /\ t[i] <= hi
      /\ \A i, j \in 1 .. m : i < j => s[i] < s[j]
      /\ \A i, j \in 1 .. n : i < j => t[i] < t[j]
  <2>1. /\ \A i \in 1 .. m : s[i] \in Nat
        /\ \A i, j \in 1 .. m : i < j => s[i] < s[j]
        /\ \A i \in 1 .. m : lo < s[i] /\ s[i] <= mid
    BY <1>1, BetweenMeans
  <2>2. /\ \A i \in 1 .. n : t[i] \in Nat
        /\ \A i, j \in 1 .. n : i < j => t[i] < t[j]
        /\ \A i \in 1 .. n : mid < t[i] /\ t[i] <= hi
    BY <1>1, BetweenMeans
  <2> QED
    BY <2>1, <2>2
<1>5. ASSUME NEW i \in 1 .. m + n PROVE lo < r[i] /\ r[i] <= hi
  <2>1. CASE i <= m
    <3>1. i \in 1 .. m /\ r[i] = s[i]
      BY <2>1, <1>2
    <3>2. s[i] \in Nat /\ lo < s[i] /\ s[i] <= mid
      BY <3>1, <1>4
    <3> QED
      BY <3>1, <3>2
  <2>2. CASE ~(i <= m)
    <3>1. i - m \in 1 .. n
      BY <2>2
    <3>2. r[i] = t[i - m]
      BY <2>2, <1>2
    <3>3. PICK x \in 1 .. n : x = i - m
      BY <3>1
    <3>4. r[i] = t[x] /\ t[x] \in Nat /\ mid < t[x] /\ t[x] <= hi
      BY <3>2, <3>3, <1>4
    <3> QED
      BY <3>4
  <2> QED
    BY <2>1, <2>2
<1>6. ASSUME NEW i \in 1 .. m + n, NEW j \in 1 .. m + n, i < j PROVE r[i] < r[j]
  <2>1. CASE j <= m
    <3>0. i <= m /\ i \in 1 .. m /\ j \in 1 .. m
      BY <2>1, <1>6
    <3>1. i \in 1 .. m /\ j \in 1 .. m /\ r[i] = s[i] /\ r[j] = s[j]
      BY <2>1, <3>0, <1>2
    <3> QED
      BY <3>1, <1>4, <1>6
  <2>2. CASE i <= m /\ ~(j <= m)
    <3>1. i \in 1 .. m /\ j - m \in 1 .. n /\ r[i] = s[i] /\ r[j] = t[j - m]
      BY <2>2, <1>2
    <3>2. s[i] \in Nat /\ s[i] <= mid /\ t[j - m] \in Nat /\ mid < t[j - m]
      BY <3>1, <1>4
    <3> QED
      BY <3>1, <3>2
  <2>3. CASE ~(i <= m)
    <3>1. i - m \in 1 .. n /\ j - m \in 1 .. n /\ i - m < j - m
      BY <2>3, <1>6
    <3>a. ~(j <= m)
      BY <2>3, <1>6
    <3>2. r[i] = t[i - m] /\ r[j] = t[j - m]
      BY <2>3, <3>a, <1>2
    <3> QED
      BY <3>1, <3>2, <1>4
  <2> QED
    BY <2>1, <2>2, <2>3
<1>7. Between(r, lo, hi)
  BY <1>3, <1>5, <1>6, Zenon DEF Between, Rising
<1> QED
  BY <1>2, <1>7

\* The front of a sequence of lines is below the rest.
LEMMA BetweenSplit ==
    ASSUME NEW q \in Seq(Nat), NEW lo \in Nat, NEW hi \in Nat, lo <= hi, Between(q, lo, hi),
           NEW n \in 0 .. Len(q)
    PROVE  \E mid \in Nat : /\ lo <= mid /\ mid <= hi
                            /\ Between(Upto(q, n), lo, mid) /\ Between(After(q, n), mid, hi)
<1>1. PICK l \in Nat : l = Len(q) /\ DOMAIN q = 1 .. l
  OBVIOUS
<1>2. PICK f \in Seq(Nat) : f = Upto(q, n) /\ DOMAIN f = 1 .. n /\ \A i \in 1 .. n : f[i] = q[i]
  <2>1. /\ Upto(q, n) \in Seq(Nat) /\ Len(Upto(q, n)) = n
        /\ \A i \in 1 .. n : Upto(q, n)[i] = q[i]
    BY Split
  <2> QED
    BY <2>1
<1>3. PICK r \in Seq(Nat) :
        r = After(q, n) /\ DOMAIN r = 1 .. l - n /\ \A i \in 1 .. l - n : r[i] = q[n + i]
  <2>1. /\ After(q, n) \in Seq(Nat) /\ Len(After(q, n)) = l - n
        /\ \A i \in 1 .. l - n : After(q, n)[i] = q[n + i]
    BY <1>1, Split
  <2> QED
    BY <2>1
<1>4. /\ \A i \in 1 .. l : q[i] \in Nat /\ lo < q[i] /\ q[i] <= hi
      /\ \A i, j \in 1 .. l : i < j => q[i] < q[j]
  <2>1. /\ \A i \in 1 .. l : q[i] \in Nat
        /\ \A i, j \in 1 .. l : i < j => q[i] < q[j]
        /\ \A i \in 1 .. l : lo < q[i] /\ q[i] <= hi
    BY <1>1, BetweenMeans
  <2> QED
    BY <2>1
<1>5. n \in Nat /\ n <= l
  BY <1>1
<1>6. PICK mid \in Nat : mid = IF n = 0 THEN lo ELSE q[n]
  BY <1>4, <1>5
<1>7. lo <= mid /\ mid <= hi
  <2>1. CASE n = 0
    BY <2>1, <1>6
  <2>2. CASE n # 0
    <3>1. q[n] \in Nat /\ lo < q[n] /\ q[n] <= hi
      BY <2>2, <1>4, <1>5
    <3> QED
      BY <3>1, <2>2, <1>6
  <2> QED
    BY <2>1, <2>2
<1>8. Between(f, lo, mid)
  <2>1. ASSUME NEW i \in 1 .. n PROVE lo < f[i] /\ f[i] <= mid
    <3>1. n # 0 /\ i \in 1 .. l /\ n \in 1 .. l /\ f[i] = q[i]
      BY <1>2, <1>5
    <3>2. lo < q[i] /\ q[i] \in Nat /\ q[n] \in Nat /\ (i = n \/ q[i] < q[n])
      BY <3>1, <1>4, <1>5
    <3>3. q[i] <= q[n]
      BY <3>2
    <3> QED
      BY <3>1, <3>2, <3>3, <1>6
  <2>2. ASSUME NEW i \in 1 .. n, NEW j \in 1 .. n, i < j PROVE f[i] < f[j]
    <3>1. i \in 1 .. l /\ j \in 1 .. l /\ f[i] = q[i] /\ f[j] = q[j]
      BY <1>2, <1>5
    <3> QED
      BY <3>1, <2>2, <1>4
  <2> QED
    BY <2>1, <2>2, <1>2, Zenon DEF Between, Rising
<1>9. Between(r, mid, hi)
  <2>1. ASSUME NEW i \in 1 .. l - n PROVE mid < r[i] /\ r[i] <= hi
    <3>1. n + i \in 1 .. l /\ r[i] = q[n + i] /\ n < n + i
      BY <1>3, <1>5
    <3>2. CASE n = 0
      BY <3>1, <3>2, <1>4, <1>6
    <3>3. CASE n # 0
      <4>1. n \in 1 .. l /\ mid = q[n]
        BY <3>3, <1>5, <1>6
      <4> QED
        BY <3>1, <4>1, <1>4
    <3> QED
      BY <3>2, <3>3
  <2>2. ASSUME NEW i \in 1 .. l - n, NEW j \in 1 .. l - n, i < j PROVE r[i] < r[j]
    <3>1. n + i \in 1 .. l /\ n + j \in 1 .. l /\ n + i < n + j
      BY <2>2, <1>5
    <3>2. r[i] = q[n + i] /\ r[j] = q[n + j]
      BY <1>3
    <3> QED
      BY <3>1, <3>2, <1>4
  <2> QED
    BY <2>1, <2>2, <1>3, Zenon DEF Between, Rising
<1> QED
  BY <1>2, <1>3, <1>7, <1>8, <1>9

\* Nothing and a single line.
LEMMA BetweenShort ==
    /\ \A lo, hi \in Nat : Between(<<>>, lo, hi)
    /\ \A lo, hi, x \in Nat : Between(<<x>>, lo, hi) <=> lo < x /\ x <= hi
BY DEF Between, Rising

\* What is not read rises after a line is read.
LEMMA BeyondTail ==
    ASSUME NEW u \in Seq(Nat), u # <<>>, NEW lo \in Nat, Beyond(u, lo)
    PROVE  /\ Tail(u) \in Seq(Nat) /\ Beyond(Tail(u), lo)
           /\ Head(u) # 0 => lo < Head(u) /\ Beyond(Tail(u), Head(u))
<1>1. PICK l \in Nat : l = Len(u) /\ DOMAIN u = 1 .. l /\ l # 0
  OBVIOUS
<1>2. PICK t \in Seq(Nat) : /\ t = Tail(u) /\ DOMAIN t = 1 .. l - 1
                            /\ \A i \in 1 .. l - 1 : t[i] = u[i + 1]
  <2>1. /\ Tail(u) \in Seq(Nat) /\ Len(Tail(u)) = l - 1
        /\ \A i \in 1 .. Len(Tail(u)) : Tail(u)[i] = u[i + 1]
    BY <1>1, HeadTailProperties
  <2>2. PICK t \in Seq(Nat) : t = Tail(u)
    BY <2>1
  <2>3. DOMAIN t = 1 .. l - 1
    BY <2>1, <2>2
  <2>4. \A i \in 1 .. l - 1 : t[i] = u[i + 1]
    BY <2>1, <2>2, Zenon
  <2> QED
    BY <2>2, <2>3, <2>4
<1>3. PICK h \in Nat : h = Head(u) /\ h = u[1]
  OBVIOUS
<1>4. /\ \A i \in 1 .. l : u[i] \in Nat /\ (u[i] # 0 => lo < u[i])
      /\ \A i, j \in 1 .. l : i < j /\ u[i] # 0 /\ u[j] # 0 => u[i] < u[j]
  <2>1. \A i \in 1 .. l : u[i] \in Nat
    BY <1>1
  <2> QED
    BY <2>1, <1>1, Zenon DEF Beyond, Numbered
<1>5. \A i \in 1 .. l - 1 : i + 1 \in 1 .. l
  BY <1>1
<1>6. ASSUME NEW i \in 1 .. l - 1, NEW j \in 1 .. l - 1, i < j, t[i] # 0, t[j] # 0
      PROVE  t[i] < t[j]
  <2>1. i + 1 \in 1 .. l /\ j + 1 \in 1 .. l /\ i + 1 < j + 1
    BY <1>5, <1>6
  <2>2. t[i] = u[i + 1] /\ t[j] = u[j + 1]
    BY <1>2
  <2> QED
    BY <2>1, <2>2, <1>4, <1>6
<1>7. ASSUME NEW i \in 1 .. l - 1, t[i] # 0
      PROVE  lo < t[i] /\ (h # 0 => h < t[i])
  <2>1. i + 1 \in 1 .. l /\ 1 \in 1 .. l /\ 1 < i + 1 /\ t[i] = u[i + 1]
    BY <1>1, <1>2, <1>5
  <2> QED
    BY <2>1, <1>3, <1>4, <1>7
<1>8. Numbered(t)
  BY <1>2, <1>6 DEF Numbered
<1>9. Beyond(t, lo) /\ (h # 0 => Beyond(t, h))
  BY <1>2, <1>7, <1>8 DEF Beyond
<1>10. h # 0 => lo < h
  BY <1>1, <1>3, <1>4
<1> QED
  BY <1>2, <1>3, <1>9, <1>10

\* Lines may be dropped from the buffer, from the queue, or with the reader.
LEMMA RungsDrop ==
    ASSUME NEW D, NEW B, NEW Q, NEW C, NEW U, Rungs(D, B, Q, C, U)
    PROVE  /\ Rungs(D, <<>>, Q, C, U) /\ Rungs(D, B, <<>>, C, U) /\ Rungs(D, B, Q, <<>>, U)
           /\ Rungs(D, <<>>, <<>>, C, U)
<1>1. PICK a, b, c, d \in Nat :
        /\ a <= b /\ b <= c /\ c <= d
        /\ Between(D, 0, a) /\ Between(B, a, b) /\ Between(Q, b, c)
        /\ Between(C, c, d) /\ Beyond(U, d)
  BY Zenon DEF Rungs
<1>2. /\ Between(<<>>, a, b) /\ Between(<<>>, b, c) /\ Between(<<>>, c, d)
  BY BetweenShort
<1> QED
  BY <1>1, <1>2, Zenon DEF Rungs

\* The reader reads the next line, or passes over what is not one.
LEMMA RungsRead ==
    ASSUME NEW D, NEW B, NEW Q, NEW U \in Seq(Nat), U # <<>>, Rungs(D, B, Q, <<>>, U)
    PROVE  /\ Rungs(D, B, Q, <<>>, Tail(U))
           /\ Head(U) # 0 => Rungs(D, B, Q, <<Head(U)>>, Tail(U))
<1>1. PICK a, b, c, d \in Nat :
        /\ a <= b /\ b <= c /\ c <= d
        /\ Between(D, 0, a) /\ Between(B, a, b) /\ Between(Q, b, c)
        /\ Between(<<>>, c, d) /\ Beyond(U, d)
  BY Zenon DEF Rungs
<1>2. PICK h \in Nat : h = Head(U)
  OBVIOUS
<1>3. Beyond(Tail(U), d) /\ (h # 0 => d < h /\ Beyond(Tail(U), h))
  BY <1>1, <1>2, BeyondTail
<1>4. ASSUME h # 0 PROVE c <= h /\ Between(<<h>>, c, h)
  <2>1. c < h /\ h <= h /\ c <= h
    BY <1>1, <1>3, <1>4
  <2> QED
    BY <2>1, BetweenShort
<1> QED
  BY <1>1, <1>2, <1>3, <1>4, Zenon DEF Rungs

\* The reader puts its line behind the queue, whose head may have been dropped.
LEMMA RungsEnqueue ==
    ASSUME NEW D, NEW B, NEW Q \in Seq(Nat), NEW x \in Nat, NEW U, Rungs(D, B, Q, <<x>>, U)
    PROVE  /\ Rungs(D, B, Append(Q, x), <<>>, U)
           /\ Q # <<>> => Rungs(D, B, Append(Tail(Q), x), <<>>, U)
<1>1. PICK a, b, c, d \in Nat :
        /\ a <= b /\ b <= c /\ c <= d
        /\ Between(D, 0, a) /\ Between(B, a, b) /\ Between(Q, b, c)
        /\ Between(<<x>>, c, d) /\ Beyond(U, d)
  BY Zenon DEF Rungs
<1>2. ASSUME NEW q \in Seq(Nat), Between(q, b, c) PROVE Rungs(D, B, Append(q, x), <<>>, U)
  <2>1. <<x>> \in Seq(Nat) /\ Append(q, x) = q \o <<x>>
    BY AppendIsConcat
  <2>a. PICK y \in Seq(Nat) : y = <<x>>
    BY <2>1
  <2>b. Between(y, c, d)
    BY <1>1, <2>a
  <2>c. Between(q \o y, b, d)
    BY <1>1, <1>2, <2>b, BetweenConcat
  <2>2. Between(Append(q, x), b, d)
    BY <2>1, <2>a, <2>c
  <2>3. b <= d /\ d <= d /\ Between(<<>>, d, d)
    BY <1>1, BetweenShort
  <2> QED
    BY <1>1, <2>2, <2>3, Zenon DEF Rungs
<1>3. ASSUME Q # <<>> PROVE Tail(Q) \in Seq(Nat) /\ Between(Tail(Q), b, c)
  <2>1. Tail(Q) \in Seq(Nat) /\ Tail(Q) = After(Q, 1) /\ 1 \in 0 .. Len(Q)
    BY <1>3, SplitEnds
  <2>2. PICK mid \in Nat : b <= mid /\ mid <= c /\ Between(After(Q, 1), mid, c)
    BY <1>1, <2>1, BetweenSplit
  <2>3. Between(Tail(Q), b, c)
    <3>0. PICK t \in Seq(Nat) : t = Tail(Q)
      BY <2>1
    <3>1. PICK l \in Nat : t = Tail(Q) /\ l = Len(t)
      BY <3>0
    <3>2. /\ \A i \in 1 .. l : t[i] \in Nat
          /\ \A i, j \in 1 .. l : i < j => t[i] < t[j]
          /\ \A i \in 1 .. l : mid < t[i] /\ t[i] <= c
      BY <2>1, <2>2, <3>1, BetweenMeans
    <3>3. \A i \in 1 .. l : b < t[i] /\ t[i] <= c
      BY <2>2, <3>2
    <3> QED
      BY <3>1, <3>2, <3>3, BetweenMeans
  <2> QED
    BY <2>1, <2>3
<1> QED
  BY <1>1, <1>2, <1>3

\* Lines from the front of the buffer are delivered.
LEMMA RungsTake ==
    ASSUME NEW D \in Seq(Nat), NEW B \in Seq(Nat), NEW Q, NEW C, NEW U, Rungs(D, B, Q, C, U),
           NEW k \in 0 .. Len(B)
    PROVE  Rungs(D \o Upto(B, k), After(B, k), Q, C, U)
<1>1. PICK a, b, c, d \in Nat :
        /\ a <= b /\ b <= c /\ c <= d
        /\ Between(D, 0, a) /\ Between(B, a, b) /\ Between(Q, b, c)
        /\ Between(C, c, d) /\ Beyond(U, d)
  BY Zenon DEF Rungs
<1>2. PICK m \in Nat : /\ a <= m /\ m <= b
                       /\ Between(Upto(B, k), a, m) /\ Between(After(B, k), m, b)
  BY <1>1, BetweenSplit
<1>3. Upto(B, k) \in Seq(Nat)
  BY Split
<1>4. 0 \in Nat /\ 0 <= a
  BY <1>1
<1>5. Between(D \o Upto(B, k), 0, m)
  BY <1>1, <1>2, <1>3, <1>4, BetweenConcat
<1> QED
  BY <1>1, <1>2, <1>5, Zenon DEF Rungs

\* Lines from the front of the queue go to the buffer.
LEMMA RungsDrain ==
    ASSUME NEW D, NEW B \in Seq(Nat), NEW Q \in Seq(Nat), NEW C, NEW U, Rungs(D, B, Q, C, U),
           NEW n \in 0 .. Len(Q)
    PROVE  /\ Rungs(D, B \o Upto(Q, n), <<>>, C, U)
           /\ n < Len(Q) => Rungs(D, B \o Upto(Q, n), After(Q, n + 1), C, U)
<1>1. PICK a, b, c, d \in Nat :
        /\ a <= b /\ b <= c /\ c <= d
        /\ Between(D, 0, a) /\ Between(B, a, b) /\ Between(Q, b, c)
        /\ Between(C, c, d) /\ Beyond(U, d)
  BY Zenon DEF Rungs
<1>2. PICK m \in Nat : /\ b <= m /\ m <= c
                       /\ Between(Upto(Q, n), b, m) /\ Between(After(Q, n), m, c)
  BY <1>1, BetweenSplit
<1>3. Upto(Q, n) \in Seq(Nat)
  BY Split
<1>4. Between(B \o Upto(Q, n), a, m) /\ a <= m
  BY <1>1, <1>2, <1>3, BetweenConcat
<1>5. Between(<<>>, m, c)
  BY BetweenShort
<1>6. Rungs(D, B \o Upto(Q, n), <<>>, C, U)
  BY <1>1, <1>2, <1>4, <1>5, Zenon DEF Rungs
<1>7. ASSUME n < Len(Q) PROVE Between(After(Q, n + 1), m, c)
  <2>1. PICK l \in Nat : l = Len(Q)
    OBVIOUS
  <2>2. PICK k \in 0 .. l : k = n + 1
    BY <1>7, <2>1
  <2>3. PICK r \in Seq(Nat) : r = After(Q, n) /\ Len(r) = l - n /\ \A i \in 1 .. l - n : r[i] = Q[n + i]
    BY <2>1, Split
  <2>4. PICK t \in Seq(Nat) : t = After(Q, k) /\ Len(t) = l - k /\ \A i \in 1 .. l - k : t[i] = Q[k + i]
    BY <2>1, Split
  <2>a. l - n \in Nat /\ l - k \in Nat /\ l - n = (l - k) + 1
    BY <1>7, <2>1, <2>2
  <2>b. PICK x \in Nat : x = l - n
    BY <2>a
  <2>5. PICK y \in Nat : x = l - n /\ y = l - k /\ x = y + 1
    BY <2>a, <2>b
  <2>6. /\ \A i \in 1 .. x : r[i] \in Nat
        /\ \A i, j \in 1 .. x : i < j => r[i] < r[j]
        /\ \A i \in 1 .. x : m < r[i] /\ r[i] <= c
    BY <1>2, <2>3, <2>5, BetweenMeans
  <2>7. ASSUME NEW i \in 1 .. y PROVE i + 1 \in 1 .. x /\ t[i] = r[i + 1]
    <3>1. i + 1 \in 1 .. x
      BY <2>5
    <3>2. t[i] = Q[k + i] /\ r[i + 1] = Q[n + (i + 1)]
      BY <3>1, <2>3, <2>4, <2>5
    <3>3. k + i = n + (i + 1)
      BY <2>2
    <3> QED
      BY <3>1, <3>2, <3>3
  <2>8. \A i, j \in 1 .. y : i < j => t[i] < t[j]
    <3> TAKE i \in 1 .. y, j \in 1 .. y
    <3> HAVE i < j
    <3>1. i + 1 \in 1 .. x /\ j + 1 \in 1 .. x /\ i + 1 < j + 1 /\ t[i] = r[i + 1] /\ t[j] = r[j + 1]
      BY <2>7
    <3> QED
      BY <3>1, <2>6
  <2>9. \A i \in 1 .. y : m < t[i] /\ t[i] <= c
    BY <2>6, <2>7
  <2>10. Between(t, m, c)
    BY <2>4, <2>5, <2>8, <2>9, BetweenMeans
  <2> QED
    BY <2>2, <2>4, <2>10
<1>8. ASSUME n < Len(Q) PROVE Rungs(D, B \o Upto(Q, n), After(Q, n + 1), C, U)
  <2>1. Between(After(Q, n + 1), m, c)
    BY <1>7, <1>8
  <2> QED
    BY <2>1, <1>1, <1>2, <1>4, Zenon DEF Rungs
<1> QED
  BY <1>6, <1>8

\* The line the reader has read and not yet queued.
Carried == IF reader.at = "enqueue" THEN <<reader.line>> ELSE <<>>

\* Lines are delivered, buffered, queued, carried and left to read in the order
\* of the input; 0 is read from a terminal only.
Lines ==
    /\ Rungs(delivered, slot.buffer, queue, Carried, unread)
    /\ device # "tty" => \A i \in DOMAIN unread : unread[i] # 0

\* Nothing was read when mudmux_run starts.
LEMMA LinesInit == Init => Lines
<1> SUFFICES ASSUME Init PROVE Lines
  OBVIOUS
<1>1. /\ delivered = <<>> /\ slot.buffer = <<>> /\ queue = <<>> /\ Carried = <<>>
      /\ unread = source
  BY DEF Init, Carried, NoReader
<1>2. source \in Seq(Nat) /\ Numbered(source) /\ (device # "tty" => 0 \notin Range(source))
  BY InputThreadsAssumption DEF Init
<1>3. Beyond(unread, 0)
  <2>1. PICK l \in Nat : l = Len(source) /\ DOMAIN source = 1 .. l
    BY <1>2
  <2>2. \A i \in 1 .. l : source[i] \in Nat
    BY <1>2, <2>1
  <2>3. \A i \in 1 .. l : source[i] # 0 => 0 < source[i]
    BY <2>2
  <2> QED
    BY <1>1, <1>2, <2>1, <2>3 DEF Beyond
<1>4. Between(<<>>, 0, 0) /\ 0 \in Nat /\ 0 <= 0
  BY BetweenShort
<1>5. Rungs(<<>>, <<>>, <<>>, <<>>, unread)
  BY <1>3, <1>4, Zenon DEF Rungs
<1>6. device # "tty" => \A i \in DOMAIN unread : unread[i] # 0
  BY <1>1, <1>2 DEF Range
<1> QED
  BY <1>1, <1>5, <1>6 DEF Lines

\* A step that delivers nothing and adds nothing keeps the order.
LEMMA LinesKept ==
    ASSUME Lines, UNCHANGED <<device, delivered, unread>>,
           slot'.buffer = slot.buffer \/ slot'.buffer = <<>>,
           queue' = queue \/ queue' = <<>>,
           reader'.at = "enqueue" => reader.at = "enqueue" /\ reader'.line = reader.line
    PROVE  Lines'
<1>1. PICK D, B, Q, C, U : /\ D = delivered /\ B = slot.buffer /\ Q = queue /\ C = Carried /\ U = unread
                           /\ Rungs(D, B, Q, C, U)
  BY DEF Lines
<1>2. Carried' = C \/ Carried' = <<>>
  BY <1>1 DEF Carried
<1>3. \A b \in {B, <<>>}, q \in {Q, <<>>}, c \in {C, <<>>} : Rungs(D, b, q, c, U)
  <2>1. /\ Rungs(D, <<>>, Q, C, U) /\ Rungs(D, B, <<>>, C, U) /\ Rungs(D, B, Q, <<>>, U)
        /\ Rungs(D, <<>>, <<>>, C, U)
    BY <1>1, RungsDrop
  <2>2. /\ Rungs(D, <<>>, Q, <<>>, U) /\ Rungs(D, B, <<>>, <<>>, U) /\ Rungs(D, <<>>, <<>>, <<>>, U)
    BY <2>1, RungsDrop
  <2> QED
    BY <1>1, <2>1, <2>2, Zenon
<1>4. Rungs(delivered, slot.buffer, queue, Carried, unread)'
  <2>1. Rungs(D, slot'.buffer, queue', Carried', U)
    BY <1>1, <1>2, <1>3
  <2> QED
    BY <1>1, <2>1
<1> QED
  BY <1>4 DEF Lines

\* The reader keeps the order.
LEMMA LinesOfReader ==
    ASSUME Shape, Lines, ReaderSteps
    PROVE  Lines'
<1>1. /\ reader \in Readers /\ unread \in Seq(Nat) /\ queue \in Seq(Nat)
      /\ reader.line \in Nat
  BY DEF Shape, Typed, Readers
<1>2. UNCHANGED <<device, slot, delivered>>
  BY DEF ReaderSteps, WorkerReads, WorkerStops, ReaderFails, FileReads, FileReportsEof, ReaderEnqueues,
         ReaderPosts, ReaderOnly, setup
<1>3. PICK D, B, Q, U : /\ D = delivered /\ B = slot.buffer /\ Q = queue /\ U = unread
                        /\ Rungs(D, B, Q, Carried, U)
  BY DEF Lines
<1>4. unread # <<>> /\ device # "tty" =>
         Head(unread) # 0 /\ \A i \in DOMAIN Tail(unread) : Tail(unread)[i] # 0
  <2> SUFFICES ASSUME unread # <<>>, device # "tty"
               PROVE  Head(unread) # 0 /\ \A i \in DOMAIN Tail(unread) : Tail(unread)[i] # 0
    OBVIOUS
  <2>1. \A i \in DOMAIN unread : unread[i] # 0
    BY DEF Lines
  <2>2. PICK l \in Nat : l = Len(unread) /\ DOMAIN unread = 1 .. l /\ l # 0
    BY <1>1
  <2>3. /\ Tail(unread) \in Seq(Nat) /\ Len(Tail(unread)) = l - 1
        /\ \A i \in 1 .. Len(Tail(unread)) : Tail(unread)[i] = unread[i + 1]
    BY <1>1, <2>2, HeadTailProperties
  <2>4. PICK t \in Seq(Nat) : t = Tail(unread)
    BY <2>3
  <2>5. DOMAIN t = 1 .. l - 1 /\ \A i \in 1 .. l - 1 : t[i] = unread[i + 1]
    BY <2>3, <2>4
  <2>6. \A i \in 1 .. l - 1 : i + 1 \in 1 .. l
    BY <2>2
  <2>7. \A i \in DOMAIN t : t[i] # 0
    BY <2>1, <2>2, <2>5, <2>6
  <2>8. Head(unread) # 0
    <3>1. 1 \in 1 .. l /\ Head(unread) = unread[1]
      BY <2>2, <1>1
    <3> QED
      BY <3>1, <2>1, <2>2
  <2> QED
    BY <2>4, <2>7, <2>8
<1>5. ASSUME reader.at = "read", unread # <<>>, unread' = Tail(unread), UNCHANGED queue,
             \/ reader'.at # "enqueue"
             \/ reader'.at = "enqueue" /\ reader'.line = Head(unread) /\ Head(unread) # 0
      PROVE  Lines'
  <2>1. Carried = <<>>
    BY <1>5 DEF Carried
  <2>2. /\ Rungs(D, B, Q, <<>>, Tail(U))
        /\ Head(U) # 0 => Rungs(D, B, Q, <<Head(U)>>, Tail(U))
    BY <2>1, <1>1, <1>3, <1>5, RungsRead
  <2>3. Carried' = <<>> \/ (Carried' = <<Head(U)>> /\ Head(U) # 0)
    BY <1>3, <1>5 DEF Carried
  <2>4. Rungs(D, B, Q, Carried', Tail(U))
    BY <2>2, <2>3, Zenon
  <2>5. Rungs(delivered, slot.buffer, queue, Carried, unread)'
    BY <2>4, <1>2, <1>3, <1>5
  <2> QED
    BY <2>5, <1>2, <1>4, <1>5 DEF Lines
<1>6. CASE WorkerReads
  <2>1. CASE unread = <<>>
    <3>1. reader'.at = "done" /\ unread' = unread /\ UNCHANGED queue
      BY <1>1, <1>6, <2>1 DEF WorkerReads, Readers
    <3> QED
      BY <3>1, <1>2, LinesKept
  <2>2. CASE unread # <<>>
    <3>1. /\ reader.at = "read" /\ unread' = Tail(unread) /\ UNCHANGED queue
          /\ \/ reader'.at = "done"
             \/ reader'.at = "enqueue" /\ reader'.line = Head(unread) /\ Head(unread) # 0
      BY <1>1, <1>6, <2>2 DEF WorkerReads, Readers
    <3> QED
      BY <3>1, <2>2, <1>5
  <2> QED
    BY <2>1, <2>2
<1>7. CASE WorkerStops
  <2>1. reader'.at = "done" /\ UNCHANGED <<unread, queue>>
    BY <1>1, <1>7 DEF WorkerStops, Readers
  <2> QED
    BY <2>1, <1>2, LinesKept
<1>8. CASE FileReads
  <2>1. CASE slot.live /\ unread # <<>>
    <3>1. /\ reader.at = "read" /\ unread' = Tail(unread) /\ UNCHANGED queue
          /\ reader'.at = "enqueue" /\ reader'.line = Head(unread) /\ mode = "file"
      BY <1>1, <1>8, <2>1 DEF FileReads, Readers
    <3>2. device # "tty"
      BY <3>1 DEF Shape, Typed
    <3> QED
      BY <3>1, <3>2, <2>1, <1>4, <1>5
  <2>2. CASE ~(slot.live /\ unread # <<>>)
    <3>1. reader'.at \in {"done", "eof"} /\ UNCHANGED <<unread, queue>>
      BY <1>1, <1>8, <2>2 DEF FileReads, Readers
    <3> QED
      BY <3>1, <1>2, LinesKept
  <2> QED
    BY <2>1, <2>2
<1>9. CASE FileReportsEof
  <2>1. reader'.at = "done" /\ UNCHANGED <<unread, queue>>
    BY <1>1, <1>9 DEF FileReportsEof, Readers
  <2> QED
    BY <2>1, <1>2, LinesKept
<1>10. CASE ReaderEnqueues
  <2>1. reader.at = "enqueue" /\ reader'.at = "post" /\ UNCHANGED unread
    BY <1>1, <1>10 DEF ReaderEnqueues, Readers
  <2>2. PICK x \in Nat : x = reader.line
    BY <1>1
  <2>3. Carried = <<x>> /\ Carried' = <<>>
    BY <2>1, <2>2 DEF Carried
  <2>4. /\ Rungs(D, B, Append(Q, x), <<>>, U)
        /\ Q # <<>> => Rungs(D, B, Append(Tail(Q), x), <<>>, U)
    BY <2>3, <1>1, <1>3, RungsEnqueue
  <2>5. \/ queue' = Append(Q, x)
        \/ queue' = Append(Tail(Q), x) /\ Q # <<>>
    <3>1. Len(queue) = QueueCap => queue # <<>>
      BY <1>1, Bounds
    <3> QED
      BY <3>1, <2>2, <1>3, <1>10 DEF ReaderEnqueues, EnqueueLine
  <2>6. Rungs(D, B, queue', <<>>, U)
    BY <2>4, <2>5, Zenon
  <2>7. Rungs(delivered, slot.buffer, queue, Carried, unread)'
    BY <2>1, <2>3, <2>6, <1>2, <1>3
  <2> QED
    BY <2>1, <2>7, <1>2 DEF Lines
<1>11. CASE ReaderPosts
  <2>1. reader'.at = "read" /\ UNCHANGED <<unread, queue>>
    BY <1>1, <1>11 DEF ReaderPosts, Readers
  <2> QED
    BY <2>1, <1>2, LinesKept
<1>12. CASE ReaderFails
  <2>1. reader'.at = "failed" /\ UNCHANGED <<unread, queue>>
    BY <1>1, <1>12 DEF ReaderFails, Readers
  <2> QED
    BY <2>1, <1>2, LinesKept
<1> QED
  BY <1>6, <1>7, <1>8, <1>9, <1>10, <1>11, <1>12 DEF ReaderSteps

\* The end of console input: the slot is closed, and removed once it is idle.
LEMMA ConsoleEofFacts ==
    ASSUME Shape, ConsoleEof
    PROVE  \E s \in Slots :
             /\ s.live = slot.live /\ s.buffer = slot.buffer
             /\ s.live => "CLOSING" \in s.flags
             /\ "ENABLE_PROMPT" \in s.flags => "ENABLE_PROMPT" \in slot.flags
             /\ \/ /\ slot' = s
                   /\ UNCHANGED <<queue, lost, disconnecting, reader, shutting, wakeup>>
                \/ /\ slot' = Removed(s) /\ queue' = <<>> /\ lost' = lost \cup Range(queue)
                   /\ disconnecting' = FALSE /\ Posts(FALSE, mode = "stdin")
<1>1. slot \in Slots /\ strict \in BOOLEAN /\ mode # "file"
  BY DEF Shape, Typed, ConsoleEof
<1>2. PICK c : c = Close(slot, FALSE) /\ CloseResult(slot, c)
  BY <1>1, CloseFacts, Bounds
<1>3. PICK s : s = IF ~Has(slot, "CLOSING") \/ Has(slot, "DISCONNECT_PENDING") THEN c.slot ELSE slot
  OBVIOUS
<1>4. /\ s \in Slots /\ s.live = slot.live /\ s.buffer = slot.buffer
      /\ s.live => "CLOSING" \in s.flags
      /\ "ENABLE_PROMPT" \in s.flags => "ENABLE_PROMPT" \in slot.flags
  BY <1>1, <1>2, <1>3 DEF CloseResult, Has
<1>5. \/ /\ slot' = s
         /\ UNCHANGED <<queue, lost, disconnecting, reader, shutting, wakeup>>
      \/ /\ slot' = Removed(s) /\ queue' = <<>> /\ lost' = lost \cup Range(queue)
         /\ disconnecting' = FALSE /\ Posts(FALSE, mode = "stdin")
  BY <1>2, <1>3 DEF ConsoleEof
<1> QED
  BY <1>4, <1>5

\* What such a step does: nothing, or comm_close of a slot that is there; while
\* the server runs the slot is closing already.
CloseOutcome ==
    /\ slot'.buffer = slot.buffer \/ slot'.buffer = <<>>
    /\ reader'.at = reader.at /\ reader'.line = reader.line
    /\ \/ UNCHANGED <<slot, reader, shutting>>
       \/ /\ slot.live /\ (loop # "progress" \/ "CLOSING" \in slot.flags)
          /\ mode # "file" => /\ slot'.buffer = slot.buffer /\ (slot'.live <=> slot.live)
                              /\ shutting' => shutting
          /\ slot'.live => "CLOSING" \in slot'.flags
          /\ "ENABLE_PROMPT" \in slot'.flags => "ENABLE_PROMPT" \in slot.flags
          /\ reader.at = "none" => reader' = reader

\* Closing keeps what is buffered or, with the slot of a file, drops it.
LEMMA CloseStepsFacts ==
    ASSUME Shape, CloseSteps
    PROVE  /\ UNCHANGED <<setup, unread, queue, lost, delivered, closes, disconnecting, slotsMutex>>
           /\ CloseOutcome
<1>1. /\ slot \in Slots /\ strict \in BOOLEAN /\ reader \in Readers
      /\ wakeup \in BOOLEAN /\ shutting \in BOOLEAN /\ slot.live \in BOOLEAN
  BY DEF Shape, Typed, Slots
<1>2. PICK c : c = Close(slot, TRUE) /\ CloseResult(slot, c)
  BY <1>1, CloseFacts, Bounds
<1>3. UNCHANGED <<setup, unread, queue, lost, delivered, closes, disconnecting, slotsMutex>>
  BY DEF CloseSteps, Progress, CloseSlots, AwaitDisconnect, StopWorkers, history
<1>4. ASSUME slot' = c.slot, Posts(c.signal, c.shut), loop # "progress" \/ "CLOSING" \in slot.flags
      PROVE  CloseOutcome
  <2>1. /\ reader'.at = reader.at /\ reader'.line = reader.line
        /\ shutting' => shutting \/ c.shut
    BY <1>2, <1>4, PostsFacts DEF CloseResult, Shape
  <2>2. slot'.buffer = slot.buffer \/ slot'.buffer = <<>>
    BY <1>2, <1>4 DEF CloseResult
  <2>3. CASE ~slot.live
    <3>1. slot' = slot /\ ~c.signal /\ ~c.shut
      BY <1>2, <1>4, <2>3 DEF CloseResult
    <3>2. UNCHANGED <<reader, shutting>>
      BY <3>1, <1>1, <1>4 DEF Posts
    <3> QED
      BY <2>1, <2>2, <3>1, <3>2 DEF CloseOutcome
  <2>4. CASE slot.live
    <3>1. mode # "file" => slot'.buffer = slot.buffer /\ slot'.live = slot.live /\ ~c.shut
      BY <1>2, <1>4 DEF CloseResult
    <3>2. /\ slot'.live => "CLOSING" \in slot'.flags
          /\ "ENABLE_PROMPT" \in slot'.flags => "ENABLE_PROMPT" \in slot.flags
      BY <1>2, <1>4, <2>4 DEF CloseResult
    <3>3. reader.at = "none" => reader' = reader
      BY <1>4 DEF Posts, HasContext
    <3> QED
      BY <2>1, <2>2, <2>4, <3>1, <3>2, <3>3, <1>4 DEF CloseOutcome
  <2> QED
    BY <2>3, <2>4
<1>5. ASSUME UNCHANGED <<slot, reader, shutting>>
      PROVE  CloseOutcome
  BY <1>5 DEF CloseOutcome
<1>6. CASE Progress
  <2>1. CASE slot.live /\ Has(slot, "CLOSING") /\ ~Has(slot, "AWAITING_HOOK")
    <3>1. slot' = c.slot /\ Posts(c.signal, c.shut) /\ "CLOSING" \in slot.flags
      BY <1>2, <1>6, <2>1 DEF Progress, Has
    <3> QED
      BY <3>1, <1>3, <1>4
  <2>2. CASE ~(slot.live /\ Has(slot, "CLOSING") /\ ~Has(slot, "AWAITING_HOOK"))
    <3>1. UNCHANGED <<slot, reader, shutting>>
      BY <1>6, <2>2 DEF Progress
    <3> QED
      BY <3>1, <1>3, <1>5
  <2> QED
    BY <2>1, <2>2
<1>7. CASE CloseSlots
  <2>1. slot' = c.slot /\ Posts(c.signal, c.shut) /\ loop # "progress"
    BY <1>2, <1>7 DEF CloseSlots
  <2> QED
    BY <2>1, <1>3, <1>4
<1>8. CASE AwaitDisconnect
  <2>1. CASE Has(slot, "DISCONNECT_PENDING") /\ ~Busy(slot)
    <3>1. slot' = c.slot /\ Posts(TRUE /\ c.signal, TRUE /\ c.shut) /\ loop # "progress"
      BY <1>2, <1>8, <2>1 DEF AwaitDisconnect
    <3>2. (TRUE /\ c.signal) = c.signal /\ (TRUE /\ c.shut) = c.shut
      BY <1>2 DEF CloseResult
    <3> QED
      BY <3>1, <3>2, <1>3, <1>4
  <2>2. CASE ~(Has(slot, "DISCONNECT_PENDING") /\ ~Busy(slot))
    <3>1. slot' = slot /\ Posts(FALSE, FALSE)
      <4>1. slot' = slot /\ Posts(FALSE /\ c.signal, FALSE /\ c.shut)
        BY <1>2, <1>8, <2>2 DEF AwaitDisconnect
      <4> QED
        BY <4>1
    <3>2. UNCHANGED <<reader, shutting>>
      BY <3>1, <1>1 DEF Posts
    <3> QED
      BY <3>1, <3>2, <1>3, <1>5
  <2> QED
    BY <2>1, <2>2
<1>9. CASE StopWorkers
  <2>1. CASE slot.live /\ Has(slot, "CLOSING")
    <3>1. slot' = c.slot /\ Posts(c.signal, c.shut) /\ loop # "progress"
      BY <1>2, <1>9, <2>1 DEF StopWorkers
    <3> QED
      BY <3>1, <1>3, <1>4
  <2>2. CASE ~(slot.live /\ Has(slot, "CLOSING"))
    <3>1. UNCHANGED <<slot, reader, shutting>>
      BY <1>9, <2>2 DEF StopWorkers
    <3> QED
      BY <3>1, <1>3, <1>5
  <2> QED
    BY <2>1, <2>2
<1> QED
  BY <1>6, <1>7, <1>8, <1>9 DEF CloseSteps

\* The loop keeps the order.
LEMMA LinesOfLoop ==
    ASSUME Shape, Lines, LoopSteps
    PROVE  Lines'
<1>1. /\ slot \in Slots /\ strict \in BOOLEAN /\ reader \in Readers /\ queue \in Seq(Nat)
      /\ delivered \in Seq(Nat) /\ slot.buffer \in Seq(Nat)
  BY DEF Shape, Typed, Slots
<1>2. UNCHANGED <<mode, device>>
  BY DEF LoopSteps, StartReader, InvokeConnect, ConnectCloses, Top, Wait, TakeEof, JoinWorker,
         Rearm, Lookup, Drain, Process, ProcessCloses, ConsoleEof, NoConsoleEof, FileEof,
         Resume, Progress, Prompt, CloseSlots, AwaitDisconnect, WaitForHook, StopWorkers,
         ReleaseInput, JoinReader, setup
<1>a. PICK C, U : C = Carried /\ U = unread
  OBVIOUS
<1>3. PICK D \in Seq(Nat), B \in Seq(Nat), Q \in Seq(Nat) :
        /\ D = delivered /\ B = slot.buffer /\ Q = queue /\ C = Carried /\ U = unread
        /\ Rungs(D, B, Q, C, U)
  BY <1>1, <1>a DEF Lines
<1>4. NewReader.at = "read" /\ NoReader.at = "none"
  BY DEF NewReader, NoReader
<1>5. CASE QuietSteps
  <2>1. UNCHANGED <<slot, queue, delivered, unread>>
    BY <1>5 DEF QuietSteps, StartReader, Top, Wait, TakeEof, JoinWorker, Rearm, NoConsoleEof,
                FileEof, WaitForHook, ReleaseInput, history
  <2>2. reader'.at = "enqueue" => reader.at = "enqueue" /\ reader'.line = reader.line
    <3>1. CASE StartReader \/ JoinWorker \/ Rearm
      BY <3>1, <1>4 DEF StartReader, JoinWorker, Rearm
    <3>2. CASE Top \/ Wait \/ NoConsoleEof \/ WaitForHook
      BY <3>2 DEF Top, Wait, NoConsoleEof, WaitForHook
    <3>3. CASE TakeEof \/ ReleaseInput
      BY <3>3, <1>1 DEF TakeEof, ReleaseInput, Readers
    <3>4. CASE FileEof
      <4>1. Posts(FALSE, reader.eof) /\ FALSE \in BOOLEAN /\ reader.eof \in BOOLEAN
        BY <3>4, <1>1 DEF FileEof, Readers
      <4> QED
        BY <4>1, PostsFacts DEF Shape
    <3> QED
      BY <1>5, <3>1, <3>2, <3>3, <3>4 DEF QuietSteps
  <2> QED
    BY <2>1, <2>2, <1>2, LinesKept
<1>6. CASE CloseSteps
  <2>1. /\ UNCHANGED <<unread, queue, delivered>>
        /\ slot'.buffer = slot.buffer \/ slot'.buffer = <<>>
        /\ reader'.at = reader.at /\ reader'.line = reader.line
    BY <1>6, CloseStepsFacts DEF CloseOutcome
  <2> QED
    BY <2>1, <1>2, LinesKept
<1>7. CASE InvokeConnect \/ ConnectCloses
  <2>1. slot'.buffer = slot.buffer
    BY <1>1, <1>7, ConnectFacts, RaiseFacts DEF InvokeConnect, ConnectCloses, Flags
  <2>2. UNCHANGED <<queue, delivered, unread, reader>>
    BY <1>7 DEF InvokeConnect, ConnectCloses, history
  <2> QED
    BY <2>1, <2>2, <1>2, LinesKept
<1>8. CASE Lookup
  <2>1. slot'.buffer = slot.buffer
    BY <1>1, <1>8 DEF Lookup, Slots
  <2>2. UNCHANGED <<delivered, unread, reader>> /\ (queue' = queue \/ queue' = <<>>)
    BY <1>8 DEF Lookup
  <2> QED
    BY <2>1, <2>2, <1>2, LinesKept
<1>9. CASE Drain
  <2>1. PICK n \in 0 .. Len(queue) : DrainResult(n)
    BY <1>9, DrainFacts
  <2>2. /\ Rungs(D, B \o Upto(Q, n), <<>>, C, U)
        /\ n < Len(Q) => Rungs(D, B \o Upto(Q, n), After(Q, n + 1), C, U)
    BY <1>3, <2>1, RungsDrain
  <2>3. reader'.at = reader.at /\ reader'.line = reader.line
    <3>1. (n < Len(queue) /\ mode # "file") \in BOOLEAN /\ FALSE \in BOOLEAN
      OBVIOUS
    <3> QED
      BY <2>1, <3>1, PostsFacts DEF DrainResult, Shape
  <2>4. Carried' = C /\ delivered' = D /\ unread' = U
    BY <2>3, <1>3, <1>9 DEF Drain, Carried
  <2>5. slot'.buffer = B \o Upto(Q, n) /\ queue' = IF n < Len(Q) THEN After(Q, n + 1) ELSE <<>>
    BY <2>1, <1>3 DEF DrainResult
  <2>6. Rungs(D, slot'.buffer, queue', C, U)
    BY <2>2, <2>5, Zenon
  <2>7. Rungs(delivered, slot.buffer, queue, Carried, unread)'
    BY <2>4, <2>6
  <2> QED
    BY <2>4, <2>7, <1>2, <1>3 DEF Lines
<1>10. ASSUME NEW s \in Slots, s.buffer = slot.buffer, NEW k \in 0 .. Len(s.buffer),
              delivered' = delivered \o Upto(s.buffer, k),
              slot'.buffer = After(s.buffer, k) \/ slot'.buffer = <<>>,
              UNCHANGED <<queue, unread>>, reader'.at = reader.at, reader'.line = reader.line
       PROVE  Lines'
  <2>1. k \in 0 .. Len(B)
    BY <1>3, <1>10
  <2>2. Rungs(D \o Upto(B, k), After(B, k), Q, C, U)
    BY <2>1, <1>3, RungsTake
  <2>3. Rungs(D \o Upto(B, k), <<>>, Q, C, U)
    BY <2>2, RungsDrop
  <2>4. Rungs(D \o Upto(B, k), slot'.buffer, Q, C, U)
    BY <2>2, <2>3, <1>3, <1>10
  <2>5. Carried' = C /\ queue' = Q /\ unread' = U /\ delivered' = D \o Upto(B, k)
    BY <1>3, <1>10 DEF Carried
  <2>6. Rungs(delivered, slot.buffer, queue, Carried, unread)'
    BY <2>4, <2>5
  <2> QED
    BY <2>5, <2>6, <1>2, <1>3 DEF Lines
<1>11. CASE Process
  <2>1. PICK k \in 0 .. Len(slot.buffer) : /\ Taken(slot) = Upto(slot.buffer, k)
                                           /\ Processed(slot).buffer = After(slot.buffer, k)
    BY <1>1, ProcessedFacts DEF ProcessResult
  <2>2. /\ delivered' = delivered \o Upto(slot.buffer, k) /\ slot'.buffer = After(slot.buffer, k)
        /\ UNCHANGED <<queue, unread, reader>>
    BY <2>1, <1>11 DEF Process
  <2> QED
    BY <2>2, <1>1, <1>10
<1>12. CASE ProcessCloses
  <2>1. PICK p \in Slots : p = Processed(slot) /\ ProcessResult(slot, p, Taken(slot))
    BY <1>1, ProcessedFacts DEF ProcessResult
  <2>2. PICK n \in 0 .. Len(B) : Taken(slot) = Upto(B, n) /\ p.buffer = After(B, n)
    BY <2>1, <1>3 DEF ProcessResult
  <2>3. PICK c : c = Close(p, TRUE) /\ CloseResult(p, c)
    BY <1>1, <2>1, CloseFacts, Bounds
  <2>4. PICK k \in 1 .. Len(Taken(slot)) :
          /\ slot' = c.slot /\ Posts(c.signal, c.shut)
          /\ delivered' = delivered \o IF c.slot.live THEN Taken(slot) ELSE SubSeq(Taken(slot), 1, k)
    BY <1>12, <2>1, <2>3 DEF ProcessCloses
  <2>5. /\ reader'.at = reader.at /\ reader'.line = reader.line /\ UNCHANGED <<queue, unread>>
    BY <2>3, <2>4, <1>12, PostsFacts DEF CloseResult, ProcessCloses, Shape
  <2>6. slot'.buffer = After(B, n) \/ slot'.buffer = <<>>
    BY <2>2, <2>3, <2>4 DEF CloseResult
  <2>7. CASE c.slot.live
    BY <2>2, <2>4, <2>5, <2>6, <2>7, <1>1, <1>3, <1>10
  <2>8. CASE ~c.slot.live
    <3>1. slot'.buffer = <<>>
      <4>1. slot.live
        <5>1. Taken(slot) # <<>>
          BY <2>4
        <5> QED
          BY <5>1 DEF Taken, Accepts
      <4>2. p.live
        BY <4>1, <2>1 DEF ProcessResult
      <4> QED
        BY <4>2, <2>3, <2>4, <2>8 DEF CloseResult
    <3>2. PICK t \in Seq(Nat) : t = Upto(B, n) /\ Len(t) = n /\ \A i \in 1 .. n : t[i] = B[i]
      BY <1>3, Split
    <3>3. k \in 0 .. n /\ k \in 0 .. Len(B) /\ k \in 0 .. Len(t)
      BY <3>2, <2>2, <2>4, <1>3
    <3>4. PICK x \in Seq(Nat) : x = Upto(t, k) /\ Len(x) = k /\ \A i \in 1 .. k : x[i] = t[i]
      BY <3>3, Split
    <3>5. PICK y \in Seq(Nat) : y = Upto(B, k) /\ Len(y) = k /\ \A i \in 1 .. k : y[i] = B[i]
      BY <3>3, <1>3, Split
    <3>6. x = y
      <4>0. \A i \in 1 .. k : i \in 1 .. n
        BY <3>3
      <4>1. \A i \in 1 .. k : x[i] = y[i]
        BY <4>0, <3>2, <3>4, <3>5, Zenon
      <4> QED
        BY <4>1, <3>4, <3>5, SeqEqual
    <3>7. delivered' = delivered \o Upto(B, k)
      BY <3>2, <3>4, <3>5, <3>6, <2>2, <2>4, <2>8 DEF Upto
    <3> QED
      BY <3>1, <3>3, <3>7, <2>5, <1>1, <1>3, <1>10
  <2> QED
    BY <2>7, <2>8
<1>13. CASE ConsoleEof
  <2>1. PICK s \in Slots :
          /\ s.buffer = slot.buffer
          /\ \/ slot' = s /\ UNCHANGED <<queue, reader>>
             \/ slot' = Removed(s) /\ queue' = <<>> /\ Posts(FALSE, mode = "stdin")
    BY <1>13, ConsoleEofFacts
  <2>2. slot'.buffer = slot.buffer \/ slot'.buffer = <<>>
    BY <2>1, RemovedFacts
  <2>3. reader'.at = reader.at /\ reader'.line = reader.line
    <3>1. FALSE \in BOOLEAN /\ (mode = "stdin") \in BOOLEAN
      OBVIOUS
    <3> QED
      BY <2>1, <3>1, PostsFacts DEF Shape
  <2> QED
    BY <2>1, <2>2, <2>3, <1>2, <1>13, LinesKept DEF ConsoleEof
<1>14. CASE Resume
  <2>1. CASE UNCHANGED <<slot, delivered>>
    BY <2>1, <1>2, <1>14, LinesKept DEF Resume
  <2>2. CASE ~UNCHANGED <<slot, delivered>>
    <3>1. PICK s \in Slots : s = Clear(slot, "DEFERRED_INBOUND") /\ s.buffer = slot.buffer
      BY <1>1, ClearFacts DEF Flags
    <3>2. PICK k \in 0 .. Len(s.buffer) : /\ Taken(s) = Upto(s.buffer, k)
                                          /\ Processed(s).buffer = After(s.buffer, k)
      BY <3>1, <1>1, ProcessedFacts DEF ProcessResult
    <3>3. slot' = Processed(s) /\ delivered' = delivered \o Taken(s) /\ UNCHANGED <<queue, unread, reader>>
      BY <3>1, <2>2, <1>14 DEF Resume
    <3> QED
      BY <3>1, <3>2, <3>3, <1>10
  <2> QED
    BY <2>1, <2>2
<1>15. CASE Prompt
  <2>1. slot'.buffer = slot.buffer
    <3>1. "INVOKED_PROMPT" \in Flags /\ "prompt" \in Hooks
      BY DEF Flags, Hooks
    <3>2. PICK q \in Slots : q = (IF strict THEN slot ELSE Enqueue(slot, "prompt"))
                             /\ q.buffer = slot.buffer
      BY <3>1, <1>1, EnqueueFacts
    <3>3. slot' = slot \/ slot' = Raise(q, "INVOKED_PROMPT")
      BY <3>2, <1>15 DEF Prompt
    <3> QED
      BY <3>1, <3>2, <3>3, RaiseFacts
  <2> QED
    BY <2>1, <1>2, <1>15, LinesKept DEF Prompt, history
<1>16. CASE JoinReader
  <2>1. slot'.buffer = <<>> /\ queue' = <<>> /\ reader'.at = "none"
    BY <1>1, <1>4, <1>16, RemovedFacts DEF JoinReader
  <2> QED
    BY <2>1, <1>2, <1>16, LinesKept DEF JoinReader
<1> QED
  BY <1>5, <1>6, <1>7, <1>8, <1>9, <1>11, <1>12, <1>13, <1>14, <1>15, <1>16
     DEF LoopSteps, QuietSteps, CloseSteps

\* The hooks on workers keep the order.
LEMMA LinesOfHooks ==
    ASSUME Shape, Lines, HookSteps
    PROVE  Lines'
<1>1. slot \in Slots /\ strict \in BOOLEAN /\ reader \in Readers
  BY DEF Shape, Typed
<1>2. UNCHANGED <<mode, device, unread, queue, delivered>>
  BY DEF HookSteps, HookCompletes, HookLeaves, HookCloses, HookSignals, Hooking, setup
<1>3. slot'.buffer = slot.buffer \/ slot'.buffer = <<>>
  <2>1. CASE HookCompletes
    BY <2>1, CompletedFacts DEF CompletedSlot
  <2>2. CASE HookLeaves
    BY <2>2, <1>1 DEF HookLeaves, Slots
  <2>3. CASE HookCloses
    <3>1. PICK c : c = Close(slot, TRUE) /\ CloseResult(slot, c)
      BY <1>1, CloseFacts, Bounds
    <3> QED
      BY <2>3, <3>1 DEF HookCloses, CloseResult
  <2>4. CASE HookSignals
    BY <2>4 DEF HookSignals
  <2> QED
    BY <2>1, <2>2, <2>3, <2>4 DEF HookSteps
<1>4. reader'.at = reader.at /\ reader'.line = reader.line
  BY <1>1 DEF HookSteps, HookCompletes, HookLeaves, HookCloses, HookSignals, Posts, Readers
<1> QED
  BY <1>2, <1>3, <1>4, LinesKept

\* Every step keeps the order.
LEMMA LinesStep == Shape /\ Lines /\ [Next]_vars => Lines'
<1> SUFFICES ASSUME Shape, Lines, [Next]_vars PROVE Lines'
  OBVIOUS
<1>1. CASE UNCHANGED vars
  BY <1>1, LinesKept DEF vars
<1> QED
  BY <1>1, LinesOfReader, LinesOfLoop, LinesOfHooks DEF Next, HookSteps

-----------------------------------------------------------------------------
(* Nothing is missing at the end of standard input.                        *)

Cat(s, t) == s \o t
LineSeqs == Seq(Nat)

\* What there was to read: delivered, buffered, queued, carried, unread.
Flow(D, B, Q, C, U) == Cat(D, Cat(B, Cat(Q, Cat(C, U))))

\* Concatenation of lines, with its two laws.
LEMMA CatLaws ==
    /\ \A s, t \in LineSeqs : Cat(s, t) \in LineSeqs
    /\ \A s, t, u \in LineSeqs : Cat(Cat(s, t), u) = Cat(s, Cat(t, u))
    /\ \A s \in LineSeqs : Cat(s, <<>>) = s /\ Cat(<<>>, s) = s
    /\ <<>> \in LineSeqs
<1>1. \A s, t \in LineSeqs : Cat(s, t) \in LineSeqs
  BY ConcatProperties DEF Cat, LineSeqs
<1>2. \A s, t, u \in LineSeqs : Cat(Cat(s, t), u) = Cat(s, Cat(t, u))
  BY ConcatAssociative DEF Cat, LineSeqs
<1>3. \A s \in LineSeqs : Cat(s, <<>>) = s /\ Cat(<<>>, s) = s
  BY ConcatEmptySeq DEF Cat, LineSeqs
<1>4. <<>> \in LineSeqs
  BY DEF LineSeqs
<1> QED
  BY <1>1, <1>2, <1>3, <1>4

\* A line at an end of a sequence is a sequence of its own.
LEMMA CatLine ==
    ASSUME NEW s \in LineSeqs
    PROVE  /\ \A x \in Nat : <<x>> \in LineSeqs /\ Append(s, x) = Cat(s, <<x>>)
           /\ s # <<>> => /\ <<Head(s)>> \in LineSeqs /\ Tail(s) \in LineSeqs
                          /\ s = Cat(<<Head(s)>>, Tail(s))
<1>0. s \in Seq(Nat)
  BY DEF LineSeqs
<1>1. ASSUME NEW x \in Nat PROVE <<x>> \in LineSeqs /\ Append(s, x) = Cat(s, <<x>>)
  BY <1>0, AppendIsConcat DEF Cat, LineSeqs
<1>2. ASSUME s # <<>>
      PROVE  /\ <<Head(s)>> \in LineSeqs /\ Tail(s) \in LineSeqs
             /\ s = Cat(<<Head(s)>>, Tail(s))
  <2>1. PICK n \in Nat : n = 1 /\ n \in 0 .. Len(s)
    BY <1>0, <1>2
  <2>2. Upto(s, n) \o After(s, n) = s
    BY <2>1, <1>0, Split
  <2>3. Upto(s, 1) = <<Head(s)>> /\ After(s, 1) = Tail(s)
    BY <1>0, <1>2, SplitEnds
  <2>4. <<Head(s)>> \in Seq(Nat) /\ Tail(s) \in Seq(Nat)
    BY <1>0, <1>2
  <2> QED
    BY <2>1, <2>2, <2>3, <2>4 DEF Cat, LineSeqs
<1> QED
  BY <1>1, <1>2

\* A line that is read stays in its place.
LEMMA FlowRead ==
    ASSUME NEW D \in LineSeqs, NEW B \in LineSeqs, NEW Q \in LineSeqs, NEW U \in LineSeqs, U # <<>>
    PROVE  Flow(D, B, Q, <<Head(U)>>, Tail(U)) = Flow(D, B, Q, <<>>, U)
BY CatLine, CatLaws DEF Flow

\* A line that is queued stays in its place.
LEMMA FlowQueued ==
    ASSUME NEW D \in LineSeqs, NEW B \in LineSeqs, NEW Q \in LineSeqs, NEW U \in LineSeqs,
           NEW x \in Nat
    PROVE  Flow(D, B, Append(Q, x), <<>>, U) = Flow(D, B, Q, <<x>>, U)
<1>1. PICK y \in LineSeqs : y = <<x>> /\ Append(Q, x) = Cat(Q, y)
  BY CatLine
<1>2. Flow(D, B, Cat(Q, y), <<>>, U) = Flow(D, B, Q, y, U)
  BY CatLaws DEF Flow
<1> QED
  BY <1>1, <1>2

\* Lines that are drained to the buffer stay in their place.
LEMMA FlowDrained ==
    ASSUME NEW D \in LineSeqs, NEW B \in LineSeqs, NEW Q \in LineSeqs, NEW C \in LineSeqs,
           NEW U \in LineSeqs
    PROVE  Flow(D, Cat(B, Q), <<>>, C, U) = Flow(D, B, Q, C, U)
BY CatLaws DEF Flow

\* Lines that are delivered from the front of the buffer stay in their place.
LEMMA FlowDelivered ==
    ASSUME NEW D \in LineSeqs, NEW t \in LineSeqs, NEW r \in LineSeqs, NEW Q \in LineSeqs,
           NEW C \in LineSeqs, NEW U \in LineSeqs
    PROVE  Flow(Cat(D, t), r, Q, C, U) = Flow(D, Cat(t, r), Q, C, U)
BY CatLaws DEF Flow

Clean == mode = "stdin" /\ device # "tty" /\ ~prompting /\ closes = 0 /\ lost = {}

Endings == {"closing", "await", "pending", "stop", "release", "joinlast", "done"}

Exhausted == slot.buffer = <<>> /\ queue = <<>> /\ unread = <<>> /\ reader.at = "none"

Prompted ==
    /\ "ENABLE_PROMPT" \in slot.flags => prompting
    /\ slotsMutex = "hook" => closes # 0

\* The worker stops at the end of the input only, and the loop has taken what it
\* queued before it acts on the end.
ReaderDone ==
    /\ loop = "start" => reader.at = "none"
    /\ reader.at = "done" => unread = <<>>
    /\ reader.at = "none" /\ loop # "start" => unread = <<>>
    /\ reader.eof \/ reader.stop => reader.at \in {"done", "none"}
    /\ loop = "join" => reader.at = "done"
    /\ loop = "rearm" \/ disconnecting => reader.at = "none"
    /\ disconnecting /\ loop \notin {"lookup", "drain"} => queue = <<>>

\* The slot is not closed, and the server not shut down, before the last line
\* was delivered.
Ended ==
    /\ "CLOSING" \in slot.flags \/ ~slot.live => Exhausted
    /\ shutting => ~slot.live
    /\ loop \in Endings => shutting

\* A line stays in the buffer only if a hook that will resume the input is in the
\* gate, or DEFERRED_INBOUND says that the loop is to resume it.
SlotWaits ==
    slot.live /\ "CLOSING" \notin slot.flags =>
        /\ slot.gate \in {<<>>, <<"connect">>, <<"inbound">>, <<"leaving">>}
        /\ "AWAITING_HOOK" \in slot.flags => slot.gate = <<"connect">>
        /\ slot.gate \in {<<"leaving">>, <<"inbound">>} => "DEFERRED_INBOUND" \in slot.flags
        /\ slot.buffer # <<>> /\ loop # "process" =>
              "DEFERRED_INBOUND" \in slot.flags \/ slot.gate = <<"connect">>

Whole == Flow(delivered, slot.buffer, queue, Carried, unread) = source

Sound == Whole /\ ReaderDone /\ Ended /\ SlotWaits

Complete == Clean => Sound

\* Nothing was read when mudmux_run starts, and nothing waits.
LEMMA CompleteInit == Init => Prompted /\ Complete
<1> SUFFICES ASSUME Init PROVE Prompted /\ Complete
  OBVIOUS
<1>1. /\ reader.at = "none" /\ ~reader.eof /\ ~reader.stop
      /\ slot.live /\ slot.flags = {} /\ slot.gate = <<>> /\ slot.buffer = <<>>
      /\ loop = "start" /\ ~disconnecting /\ ~shutting /\ slotsMutex = "none"
  BY DEF Init, NoReader
<1>2. /\ delivered = <<>> /\ slot.buffer = <<>> /\ queue = <<>> /\ Carried = <<>>
      /\ unread = source
  BY <1>1 DEF Init, Carried
<1>3. source \in Seq(Nat)
  BY InputThreadsAssumption DEF Init
<1>4. Whole
  <2>1. source \in LineSeqs
    BY <1>3 DEF LineSeqs
  <2> QED
    BY <1>2, <2>1, CatLaws DEF Whole, Flow
<1>5. Prompted /\ ReaderDone
  BY <1>1 DEF Prompted, ReaderDone
<1>6. Ended /\ SlotWaits
  BY <1>1 DEF Ended, SlotWaits, Endings
<1> QED
  BY <1>4, <1>5, <1>6 DEF Complete, Sound

\* No step forgets a lost line or a call of comm_close, and the set-up stays.
LEMMA HistoryGrows ==
    ASSUME Shape, Next
    PROVE  UNCHANGED setup /\ lost \subseteq lost' /\ closes \in Nat /\ closes' >= closes
<1>1. closes \in Nat
  BY Bounds DEF Shape, Typed
<1>2. CASE ReaderSteps
  <2>1. UNCHANGED <<setup, closes>>
    BY <1>2 DEF ReaderSteps, WorkerReads, WorkerStops, ReaderFails, FileReads, FileReportsEof, ReaderEnqueues,
                ReaderPosts, ReaderOnly
  <2>2. lost \subseteq lost'
    BY <1>2 DEF ReaderSteps, WorkerReads, WorkerStops, ReaderFails, FileReads, FileReportsEof, ReaderEnqueues,
                ReaderPosts
  <2> QED
    BY <2>1, <2>2, <1>1
<1>3. CASE QuietSteps
  <2>1. UNCHANGED <<setup, lost, closes>>
    BY <1>3 DEF QuietSteps, StartReader, Top, Wait, TakeEof, JoinWorker, Rearm, NoConsoleEof,
                FileEof, WaitForHook, ReleaseInput, history
  <2> QED
    BY <2>1, <1>1
<1>4. CASE CloseSteps
  <2>1. UNCHANGED <<setup, lost, closes>>
    BY <1>4 DEF CloseSteps, Progress, CloseSlots, AwaitDisconnect, StopWorkers, history
  <2> QED
    BY <2>1, <1>1
<1>5. CASE InvokeConnect \/ ConnectCloses \/ Lookup \/ JoinReader
  <2>1. UNCHANGED setup /\ (UNCHANGED closes \/ closes' = closes + 1)
    BY <1>5 DEF InvokeConnect, ConnectCloses, Lookup, JoinReader, history
  <2>2. lost \subseteq lost'
    BY <1>5 DEF InvokeConnect, ConnectCloses, Lookup, JoinReader, history
  <2> QED
    BY <2>1, <2>2, <1>1
<1>6. CASE Drain
  <2>1. UNCHANGED <<setup, closes>>
    BY <1>6 DEF Drain
  <2>2. PICK n : DrainResult(n)
    BY <1>6, DrainFacts
  <2>3. lost \subseteq lost'
    BY <2>2 DEF DrainResult
  <2> QED
    BY <2>1, <2>3, <1>1
<1>7. CASE Process \/ ProcessCloses \/ ConsoleEof \/ Resume \/ Prompt
  <2>1. UNCHANGED setup /\ (UNCHANGED closes \/ closes' = closes + 1)
    BY <1>7 DEF Process, ProcessCloses, ConsoleEof, Resume, Prompt, history
  <2>2. lost \subseteq lost'
    BY <1>7 DEF Process, ProcessCloses, ConsoleEof, Resume, Prompt, history
  <2> QED
    BY <2>1, <2>2, <1>1
<1>8. CASE HookSteps
  <2>1. UNCHANGED <<setup, lost>> /\ (UNCHANGED closes \/ closes' = closes + 1)
    BY <1>8 DEF HookSteps, HookCompletes, HookLeaves, HookCloses, HookSignals, Hooking
  <2> QED
    BY <2>1, <1>1
<1> QED
  BY <1>2, <1>3, <1>4, <1>5, <1>6, <1>7, <1>8
     DEF Next, LoopSteps, QuietSteps, CloseSteps, HookSteps

\* The prompt is enabled only by a connect hook that does so, and a worker keeps
\* comm_slots_mtx only in a close.
LEMMA PromptedStep ==
    ASSUME Shape, Prompted, Next
    PROVE  Prompted'
<1>1. /\ slot \in Slots /\ strict \in BOOLEAN /\ reader \in Readers
      /\ closes \in Nat
  BY Bounds DEF Shape, Typed
<1>2. UNCHANGED prompting /\ (closes # 0 => closes' # 0)
  BY <1>1, HistoryGrows DEF setup
<1>3. ASSUME "ENABLE_PROMPT" \in slot'.flags => "ENABLE_PROMPT" \in slot.flags \/ prompting,
             slotsMutex' = "hook" => slotsMutex = "hook"
      PROVE  Prompted'
  BY <1>2, <1>3 DEF Prompted
<1>4. CASE ReaderSteps
  BY <1>3, <1>4 DEF ReaderSteps, WorkerReads, WorkerStops, ReaderFails, FileReads, FileReportsEof,
                    ReaderEnqueues, ReaderPosts, ReaderOnly
<1>5. CASE QuietSteps
  <2>1. UNCHANGED slot /\ (slotsMutex' = slotsMutex \/ slotsMutex' = "none")
    BY <1>5 DEF QuietSteps, StartReader, Top, Wait, TakeEof, JoinWorker, Rearm, NoConsoleEof,
                FileEof, WaitForHook, ReleaseInput, Leave
  <2> QED
    BY <2>1, <1>3
<1>6. CASE CloseSteps
  <2>1. PICK c : c = Close(slot, TRUE) /\ CloseResult(slot, c)
    BY <1>1, CloseFacts, Bounds
  <2>2. slot' = slot \/ slot' = c.slot
    BY <1>6, <2>1 DEF CloseSteps, Progress, CloseSlots, AwaitDisconnect, StopWorkers
  <2>3. UNCHANGED slotsMutex
    BY <1>6 DEF CloseSteps, Progress, CloseSlots, AwaitDisconnect, StopWorkers
  <2> QED
    BY <2>1, <2>2, <2>3, <1>3 DEF CloseResult
<1>7. CASE InvokeConnect
  <2>1. PICK t : t = Connect(slot) /\ t.flags \subseteq slot.flags \cup
                     (IF prompting THEN {"ENABLE_PROMPT"} ELSE {}) \cup {"AWAITING_HOOK"}
    <3>1. CASE strict
      BY <3>1, <1>1, ConnectFacts
    <3>2. CASE ~strict
      BY <3>2, <1>1, ConnectFacts
    <3> QED
      BY <3>1, <3>2
  <2>2. slot' = t /\ slotsMutex' = "none"
    BY <2>1, <1>7 DEF InvokeConnect
  <2> QED
    BY <2>1, <2>2, <1>3
<1>8. CASE ConnectCloses
  BY <1>1, <1>3, <1>8, RaiseFacts DEF ConnectCloses, Flags
<1>9. CASE Lookup
  BY <1>1, <1>3, <1>9 DEF Lookup, Slots
<1>10. CASE Drain
  BY <1>3, <1>10, DrainFacts DEF DrainResult, Drain
<1>11. ASSUME NEW s \in Slots, s.flags \subseteq slot.flags, slot' = Processed(s),
              slotsMutex' = slotsMutex
       PROVE  Prompted'
  <2>1. ProcessResult(s, slot', Taken(s))
    BY <1>1, <1>11, ProcessedFacts
  <2> QED
    BY <2>1, <1>3, <1>11 DEF ProcessResult
<1>12. CASE Process
  BY <1>1, <1>11, <1>12 DEF Process
<1>13. CASE ProcessCloses
  <2>1. PICK p \in Slots : p = Processed(slot) /\ ProcessResult(slot, p, Taken(slot))
    BY <1>1, ProcessedFacts DEF ProcessResult
  <2>2. PICK c : c = Close(p, TRUE) /\ CloseResult(p, c)
    BY <1>1, <2>1, CloseFacts, Bounds
  <2>3. slot' = c.slot /\ UNCHANGED slotsMutex
    BY <2>1, <2>2, <1>13 DEF ProcessCloses
  <2> QED
    BY <2>1, <2>2, <2>3, <1>3 DEF ProcessResult, CloseResult
<1>14. CASE ConsoleEof
  <2>1. PICK s \in Slots : /\ "ENABLE_PROMPT" \in s.flags => "ENABLE_PROMPT" \in slot.flags
                           /\ slot' = s \/ slot' = Removed(s)
    BY <1>14, ConsoleEofFacts
  <2>2. slotsMutex' = "none"
    BY <1>14 DEF ConsoleEof, Leave
  <2> QED
    BY <2>1, <2>2, <1>3, RemovedFacts
<1>15. CASE Resume
  <2>1. PICK s \in Slots : s = Clear(slot, "DEFERRED_INBOUND") /\ s.flags \subseteq slot.flags
    BY <1>1, ClearFacts DEF Flags
  <2>2. slot' = slot \/ slot' = Processed(s)
    BY <2>1, <1>15 DEF Resume
  <2> QED
    BY <2>1, <2>2, <1>3, <1>11, <1>15 DEF Resume
<1>16. CASE Prompt
  <2>1. "INVOKED_PROMPT" \in Flags /\ "prompt" \in Hooks
    BY DEF Flags, Hooks
  <2>2. PICK q \in Slots : q = (IF strict THEN slot ELSE Enqueue(slot, "prompt"))
                           /\ q.flags = slot.flags
    BY <2>1, <1>1, EnqueueFacts
  <2>3. slot' = slot \/ slot' = Raise(q, "INVOKED_PROMPT")
    BY <2>2, <1>16 DEF Prompt
  <2> QED
    BY <2>1, <2>2, <2>3, <1>3, <1>16, RaiseFacts DEF Prompt
<1>17. CASE JoinReader
  BY <1>1, <1>3, <1>17, RemovedFacts DEF JoinReader
<1>18. CASE HookCompletes
  BY <1>3, <1>18, CompletedFacts DEF CompletedSlot, HookCompletes
<1>19. CASE HookLeaves
  BY <1>1, <1>3, <1>19 DEF HookLeaves, Slots
<1>20. CASE HookCloses
  <2>1. PICK c : c = Close(slot, TRUE) /\ CloseResult(slot, c)
    BY <1>1, CloseFacts, Bounds
  <2>2. slot' = c.slot /\ closes' # 0
    BY <2>1, <1>1, <1>20 DEF HookCloses
  <2> QED
    BY <2>1, <2>2, <1>2 DEF CloseResult, Prompted
<1>21. CASE HookSignals
  BY <1>3, <1>21 DEF HookSignals
<1> QED
  BY <1>4, <1>5, <1>6, <1>7, <1>8, <1>9, <1>10, <1>12, <1>13, <1>14, <1>15, <1>16, <1>17, <1>18,
     <1>19, <1>20, <1>21
     DEF Next, LoopSteps, QuietSteps, CloseSteps, HookSteps

\* The line that a full queue drops is not in the queue any more.
LEMMA DropLoses ==
    ASSUME NEW q \in Seq(Nat), q # <<>>, NEW x \in Nat, NEW lo \in Nat, NEW hi \in Nat,
           Between(q, lo, hi), hi < x
    PROVE  Range(q) \ Range(Append(Tail(q), x)) # {}
<1>1. PICK l \in Nat : l = Len(q) /\ l # 0
  BY EmptySeq
<1>2. /\ DOMAIN q = 1 .. l /\ \A i \in 1 .. l : q[i] \in Nat
      /\ \A i, j \in 1 .. l : i < j => q[i] < q[j]
      /\ \A i \in 1 .. l : lo < q[i] /\ q[i] <= hi
  BY <1>1, BetweenMeans
<1>3. /\ Tail(q) \in Seq(Nat) /\ Len(Tail(q)) = l - 1
      /\ \A i \in 1 .. Len(Tail(q)) : Tail(q)[i] = q[i + 1]
  BY <1>1, HeadTailProperties
<1>4. PICK t \in Seq(Nat) : t = Tail(q)
  BY <1>3
<1>5. PICK r \in Seq(Nat) : r = Append(t, x)
  BY AppendProperties
<1>6. Len(r) = l /\ \A i \in 1 .. l : r[i] = IF i = l THEN x ELSE t[i]
  <2>1. Len(t) = l - 1
    BY <1>3, <1>4
  <2>2. Len(r) = Len(t) + 1 /\ \A i \in 1 .. Len(r) : r[i] = IF i = Len(r) THEN x ELSE t[i]
    BY <1>5, AppendProperties
  <2> QED
    BY <2>1, <2>2, <1>1
<1>7. PICK h \in Nat : h = q[1]
  BY <1>1, <1>2
<1>8. \A i \in 1 .. l : h # r[i]
  <2> SUFFICES ASSUME NEW i \in 1 .. l PROVE h # r[i]
    OBVIOUS
  <2>1. 1 \in 1 .. l /\ h <= hi
    BY <1>1, <1>2, <1>7
  <2>2. CASE i = l
    BY <2>1, <2>2, <1>6
  <2>3. CASE i # l
    <3>1. PICK j \in 1 .. l : j = i + 1 /\ i \in 1 .. l - 1 /\ 1 < j
      BY <2>3, <1>1
    <3>2. r[i] = q[j]
      BY <2>3, <3>1, <1>3, <1>4, <1>6
    <3>3. q[1] < q[j] /\ q[j] \in Nat
      BY <2>1, <3>1, <1>2
    <3> QED
      BY <3>2, <3>3, <1>7
  <2> QED
    BY <2>2, <2>3
<1>9. h \in Range(q)
  <2>1. 1 \in DOMAIN q
    BY <1>1, <1>2
  <2> QED
    BY <2>1, <1>7 DEF Range
<1>10. h \notin Range(r)
  <2>1. DOMAIN r = 1 .. l
    BY <1>6
  <2> QED
    BY <2>1, <1>8 DEF Range
<1> QED
  BY <1>4, <1>5, <1>9, <1>10

\* The types of what Flow puts together.
LEMMA FlowTypes ==
    ASSUME Shape
    PROVE  /\ delivered \in LineSeqs /\ slot.buffer \in LineSeqs /\ queue \in LineSeqs
           /\ Carried \in LineSeqs /\ unread \in LineSeqs
<1>1. Carried \in Seq(Nat)
  BY DEF Shape, Typed, Readers, Carried
<1> QED
  BY <1>1 DEF Shape, Typed, Slots, LineSeqs

\* A step that moves no line.
LEMMA WholeKept ==
    ASSUME Whole, UNCHANGED <<source, delivered, queue, unread>>, slot'.buffer = slot.buffer,
           reader'.at = "enqueue" <=> reader.at = "enqueue",
           reader'.at = "enqueue" => reader'.line = reader.line
    PROVE  Whole'
<1>1. Carried' = Carried
  BY DEF Carried
<1> QED
  BY <1>1 DEF Whole

\* A step without an effect on the slot.
LEMMA SlotKept ==
    ASSUME SlotWaits, slot' = slot, loop # "process" \/ loop' = loop
    PROVE  SlotWaits'
BY DEF SlotWaits

\* While the worker is at work nothing has ended.
LEMMA NothingEnded ==
    ASSUME ReaderDone, Ended, reader.at # "none"
    PROVE  /\ slot.live /\ "CLOSING" \notin slot.flags /\ ~shutting /\ ~disconnecting
           /\ loop \notin Endings /\ loop \notin {"start", "rearm"}
           /\ reader.at # "done" => loop # "join" /\ ~reader.eof /\ ~reader.stop
BY DEF ReaderDone, Ended, Exhausted

\* The worker reads and queues without losing a line, and stops at the end.
LEMMA SoundOfReader ==
    ASSUME Shape, Lines, Clean, Clean', Sound, ReaderSteps
    PROVE  Sound'
<1>1. /\ reader \in Readers /\ reader.line \in Nat /\ unread \in Seq(Nat) /\ queue \in Seq(Nat)
      /\ mode = "stdin" /\ device # "tty" /\ lost = {} /\ lost' = {}
  BY DEF Shape, Typed, Readers, Clean
<1>2. UNCHANGED <<source, slot, loop, disconnecting, shutting, delivered>>
  BY DEF ReaderSteps, WorkerReads, WorkerStops, ReaderFails, FileReads, FileReportsEof, ReaderEnqueues,
         ReaderPosts, ReaderOnly, setup
<1>3. reader.at \in {"read", "enqueue", "post"}
  BY <1>1 DEF ReaderSteps, WorkerReads, WorkerStops, ReaderFails, FileReads, FileReportsEof, ReaderEnqueues,
              ReaderPosts, Shape, Gated
<1>4. /\ slot.live /\ "CLOSING" \notin slot.flags /\ ~shutting /\ ~disconnecting
      /\ loop \notin Endings /\ loop \notin {"start", "rearm", "join"} /\ ~reader.eof /\ ~reader.stop
  BY <1>3, NothingEnded DEF Sound
<1>5. SlotWaits' /\ Ended'
  <2>1. SlotWaits'
    BY <1>2, SlotKept DEF Sound
  <2>2. Ended'
    BY <1>2, <1>4 DEF Ended
  <2> QED
    BY <2>1, <2>2
<1>6. ASSUME reader'.at \in {"read", "enqueue", "post", "failed"}, reader'.eof = reader.eof,
             reader'.stop = reader.stop
      PROVE  ReaderDone'
  BY <1>2, <1>4, <1>6 DEF ReaderDone
<1>7. CASE WorkerReads
  <2>1. Carried = <<>> /\ reader.at = "read"
    BY <1>7 DEF WorkerReads, Carried
  <2>2. CASE unread = <<>>
    <3>1. /\ reader'.at = "done" /\ unread' = <<>> /\ UNCHANGED queue
      BY <1>1, <1>7, <2>2 DEF WorkerReads, Readers
    <3>2. ReaderDone'
      BY <3>1, <1>2, <1>4 DEF ReaderDone
    <3>3. Whole'
      BY <2>1, <2>2, <3>1, <1>2, WholeKept DEF Sound
    <3> QED
      BY <3>2, <3>3, <1>5 DEF Sound
  <2>3. CASE unread # <<>>
    <3>1. Head(unread) # 0
      <4>1. Head(unread) = unread[1] /\ 1 \in DOMAIN unread
        BY <2>3, <1>1
      <4> QED
        BY <4>1, <1>1 DEF Lines
    <3>2. /\ reader'.at = "enqueue" /\ reader'.line = Head(unread) /\ unread' = Tail(unread)
          /\ reader'.eof = reader.eof /\ reader'.stop = reader.stop /\ UNCHANGED queue
      BY <2>3, <3>1, <1>1, <1>7 DEF WorkerReads, Readers
    <3>3. Carried' = <<Head(unread)>>
      BY <3>2 DEF Carried
    <3>4. Whole'
      <4>1. Flow(delivered, slot.buffer, queue, <<Head(unread)>>, Tail(unread))
              = Flow(delivered, slot.buffer, queue, <<>>, unread)
        BY <2>3, FlowTypes, FlowRead
      <4> QED
        BY <2>1, <3>2, <3>3, <4>1, <1>2 DEF Whole, Sound
    <3> QED
      BY <3>2, <3>4, <1>5, <1>6 DEF Sound
  <2> QED
    BY <2>2, <2>3
<1>8. CASE WorkerStops
  BY <1>4, <1>8 DEF WorkerStops
<1>9. CASE FileReads \/ FileReportsEof
  BY <1>1, <1>3, <1>9 DEF FileReads, FileReportsEof
<1>10. CASE ReaderEnqueues
  <2>1. /\ reader.at = "enqueue" /\ reader'.at = "post" /\ UNCHANGED unread
        /\ reader'.eof = reader.eof /\ reader'.stop = reader.stop
    BY <1>1, <1>10 DEF ReaderEnqueues, Readers
  <2>2. PICK x \in Nat : x = reader.line
    BY <1>1
  <2>3. Carried = <<x>> /\ Carried' = <<>>
    BY <2>1, <2>2 DEF Carried
  <2>4. queue' = Append(queue, x)
    <3>1. CASE Len(queue) # QueueCap
      BY <2>2, <3>1, <1>10 DEF ReaderEnqueues, EnqueueLine
    <3>2. CASE Len(queue) = QueueCap
      <4>1. queue # <<>> /\ queue' = Append(Tail(queue), x)
        BY <2>2, <3>2, <1>1, <1>10, Bounds DEF ReaderEnqueues, EnqueueLine
      <4>2. PICK b \in Nat, c \in Nat, d \in Nat : Between(queue, b, c) /\ Between(<<x>>, c, d)
        BY <2>3, Zenon DEF Lines, Rungs
      <4>3. c < x
        <5>1. 1 \in DOMAIN <<x>> /\ <<x>>[1] = x
          OBVIOUS
        <5> QED
          BY <4>2, <5>1 DEF Between
      <4>4. Range(queue) \ Range(queue') # {}
        BY <4>1, <4>2, <4>3, <1>1, DropLoses
      <4> QED
        BY <4>4, <1>1, <1>10 DEF ReaderEnqueues
    <3> QED
      BY <3>1, <3>2
  <2>5. Whole'
    <3>1. Flow(delivered, slot.buffer, Append(queue, x), <<>>, unread)
            = Flow(delivered, slot.buffer, queue, <<x>>, unread)
      BY FlowTypes, FlowQueued
    <3> QED
      BY <2>1, <2>3, <2>4, <3>1, <1>2 DEF Whole, Sound
  <2> QED
    BY <2>1, <2>5, <1>5, <1>6 DEF Sound
<1>11. CASE ReaderPosts
  <2>1. /\ reader.at = "post" /\ reader'.at = "read" /\ UNCHANGED <<unread, queue>>
        /\ reader'.eof = reader.eof /\ reader'.stop = reader.stop
    BY <1>1, <1>11 DEF ReaderPosts, Readers
  <2>2. Whole'
    BY <2>1, <1>2, WholeKept DEF Sound
  <2> QED
    BY <2>1, <2>2, <1>5, <1>6 DEF Sound
<1>12. CASE ReaderFails
  <2>1. /\ reader.at = "read" /\ reader'.at = "failed" /\ UNCHANGED <<unread, queue>>
        /\ reader'.eof = reader.eof /\ reader'.stop = reader.stop
    BY <1>1, <1>12 DEF ReaderFails, Readers
  <2>2. Whole'
    BY <2>1, <1>2, WholeKept DEF Sound
  <2> QED
    BY <2>1, <2>2, <1>5, <1>6 DEF Sound
<1> QED
  BY <1>7, <1>8, <1>9, <1>10, <1>11, <1>12 DEF ReaderSteps

\* The quiet steps of the loop: the end is taken only after the worker has read
\* everything, and the worker is joined only then.
LEMMA SoundOfQuiet ==
    ASSUME Shape, Clean, Sound, QuietSteps
    PROVE  Sound'
<1>1. /\ reader \in Readers /\ reader.eof \in BOOLEAN /\ mode = "stdin" /\ shutting \in BOOLEAN
  BY DEF Shape, Typed, Readers, Clean
<1>2. UNCHANGED <<mode, source, unread, queue, slot, delivered>> /\ loop # "process"
  BY DEF QuietSteps, StartReader, Top, Wait, TakeEof, JoinWorker, Rearm, NoConsoleEof, FileEof,
         WaitForHook, ReleaseInput, history, setup
<1>3. /\ NewReader.at = "read" /\ ~NewReader.eof /\ ~NewReader.stop
      /\ NoReader.at = "none" /\ ~NoReader.eof /\ ~NoReader.stop
  BY DEF NewReader, NoReader
<1>4. Whole /\ ReaderDone /\ Ended /\ SlotWaits
  BY DEF Sound
<1>5. SlotWaits'
  BY <1>2, <1>4, SlotKept
<1>6. ASSUME reader'.at # "enqueue", reader.at # "enqueue"
      PROVE  Whole'
  BY <1>2, <1>4, <1>6, WholeKept
<1>7. ASSUME reader' = reader PROVE Whole'
  BY <1>2, <1>4, <1>7, WholeKept
<1>8. CASE StartReader
  <2>1. loop = "start" /\ loop' = "connect" /\ reader' = NewReader /\ UNCHANGED <<disconnecting, shutting>>
    BY <1>8 DEF StartReader
  <2>2. slot.live /\ slot.flags = {} /\ ~disconnecting /\ ~shutting
    BY <2>1 DEF Shape, Gated, Fresh
  <2>3. reader.at = "none"
    BY <2>1, <1>4 DEF ReaderDone
  <2>4. ReaderDone'
    BY <2>1, <2>2, <1>3 DEF ReaderDone
  <2>5. Ended'
    BY <2>1, <2>2, <1>2 DEF Ended, Endings
  <2> QED
    BY <2>1, <2>3, <2>4, <2>5, <1>3, <1>5, <1>6 DEF Sound
<1>9. CASE Top \/ Wait \/ NoConsoleEof \/ WaitForHook
  <2>1. /\ UNCHANGED <<reader, disconnecting, shutting>>
        /\ loop \notin {"start", "lookup", "drain"} /\ loop' \notin {"start", "join", "rearm"}
        /\ loop' \in Endings => loop \in Endings \/ shutting
    BY <1>9, <1>1 DEF Top, Wait, NoConsoleEof, WaitForHook, Leave, Endings
  <2>2. ReaderDone'
    BY <2>1, <1>2, <1>4 DEF ReaderDone
  <2>3. Ended'
    BY <2>1, <1>2, <1>4 DEF Ended, Exhausted
  <2> QED
    BY <2>1, <2>2, <2>3, <1>5, <1>7 DEF Sound
<1>10. CASE TakeEof
  <2>1. CASE HasContext /\ reader.eof
    <3>1. /\ loop' = "join" /\ UNCHANGED <<disconnecting, shutting>> /\ reader'.at = reader.at
          /\ ~reader'.eof /\ reader'.stop
      BY <1>1, <1>10, <2>1 DEF TakeEof, Readers
    <3>2. reader.at = "done" /\ reader.at # "none"
      BY <2>1, <1>4 DEF HasContext, ReaderDone
    <3>3. ~disconnecting /\ slot.live /\ "CLOSING" \notin slot.flags /\ ~shutting
      BY <3>2, <1>4, NothingEnded
    <3>4. ReaderDone'
      BY <3>1, <3>2, <3>3, <1>2, <1>4 DEF ReaderDone
    <3>5. Ended'
      BY <3>1, <3>3, <1>2 DEF Ended, Endings
    <3> QED
      BY <3>1, <3>2, <3>4, <3>5, <1>5, <1>6 DEF Sound
  <2>2. CASE ~(HasContext /\ reader.eof)
    <3>1. loop = "console" /\ loop' = "lookup" /\ UNCHANGED <<reader, disconnecting, shutting>>
      BY <1>10, <2>2 DEF TakeEof
    <3>2. ReaderDone'
      BY <3>1, <1>2, <1>4 DEF ReaderDone
    <3>3. Ended'
      BY <3>1, <1>2, <1>4 DEF Ended, Endings, Exhausted
    <3> QED
      BY <3>1, <3>2, <3>3, <1>5, <1>7 DEF Sound
  <2> QED
    BY <2>1, <2>2
<1>11. CASE JoinWorker
  <2>1. /\ reader.at = "done" /\ loop' = "rearm" /\ reader' = NoReader
        /\ UNCHANGED <<disconnecting, shutting>>
    BY <1>4, <1>11 DEF JoinWorker, ReaderDone
  <2>2. ~disconnecting /\ slot.live /\ "CLOSING" \notin slot.flags /\ ~shutting /\ unread = <<>>
    BY <2>1, <1>4, NothingEnded DEF ReaderDone
  <2>3. ReaderDone'
    BY <2>1, <2>2, <1>2, <1>3 DEF ReaderDone
  <2>4. Ended'
    BY <2>1, <2>2, <1>2 DEF Ended, Endings
  <2> QED
    BY <2>1, <2>3, <2>4, <1>3, <1>5, <1>6 DEF Sound
<1>12. CASE Rearm
  <2>1. loop = "rearm" /\ loop' = "lookup" /\ reader' = NoReader /\ UNCHANGED shutting
    BY <1>1, <1>12 DEF Rearm
  <2>2. reader.at = "none" /\ unread = <<>>
    BY <2>1, <1>4 DEF ReaderDone
  <2>3. ReaderDone'
    BY <2>1, <2>2, <1>2, <1>3 DEF ReaderDone
  <2>4. Ended'
    BY <2>1, <1>2, <1>3, <1>4 DEF Ended, Endings, Exhausted
  <2> QED
    BY <2>1, <2>2, <2>3, <2>4, <1>3, <1>5, <1>6 DEF Sound
<1>13. CASE FileEof
  BY <1>1, <1>13 DEF FileEof
<1>14. CASE ReleaseInput
  <2>1. /\ loop = "release" /\ loop' = "joinlast" /\ UNCHANGED <<disconnecting, shutting>>
        /\ reader'.at = reader.at
    BY <1>1, <1>14 DEF ReleaseInput, Readers
  <2>2. shutting /\ Exhausted
    BY <2>1, <1>4 DEF Ended, Endings
  <2>3. ReaderDone'
    BY <2>1, <2>2, <1>2 DEF ReaderDone, Exhausted
  <2>4. Ended'
    BY <2>1, <2>2, <1>2, <1>4 DEF Ended, Exhausted
  <2> QED
    BY <2>1, <2>2, <2>3, <2>4, <1>5, <1>6 DEF Sound, Exhausted
<1> QED
  BY <1>8, <1>9, <1>10, <1>11, <1>12, <1>13, <1>14 DEF QuietSteps

\* Closing in the loop: the slot is closing already, or it is gone.
LEMMA SoundOfCloseSteps ==
    ASSUME Shape, Clean, Sound, CloseSteps
    PROVE  Sound'
<1>1. /\ mode = "stdin" /\ Whole /\ ReaderDone /\ Ended /\ SlotWaits
  BY DEF Clean, Sound
<1>2. /\ UNCHANGED <<source, unread, queue, delivered, disconnecting>> /\ CloseOutcome
  BY CloseStepsFacts DEF setup
<1>3. /\ loop \in Endings \cup {"progress"} /\ loop' \in Endings \cup {"prompt"}
      /\ loop' \in Endings => loop \in Endings
  BY DEF CloseSteps, Progress, CloseSlots, AwaitDisconnect, StopWorkers, Endings
<1>4. loop \notin {"start", "lookup", "drain", "process"} /\ loop' \notin {"start", "join", "rearm", "process"}
  BY <1>3 DEF Endings
<1>5. CASE UNCHANGED <<slot, reader, shutting>>
  <2>1. Whole'
    BY <1>1, <1>2, <1>5, WholeKept
  <2>2. ReaderDone'
    BY <1>1, <1>2, <1>4, <1>5 DEF ReaderDone
  <2>3. Ended'
    BY <1>1, <1>2, <1>3, <1>5 DEF Ended, Exhausted
  <2>4. SlotWaits'
    BY <1>1, <1>4, <1>5, SlotKept
  <2> QED
    BY <2>1, <2>2, <2>3, <2>4 DEF Sound
<1>6. CASE ~UNCHANGED <<slot, reader, shutting>>
  <2>1. /\ slot.live /\ (loop # "progress" \/ "CLOSING" \in slot.flags)
        /\ slot'.buffer = slot.buffer /\ slot'.live /\ (shutting' => shutting)
        /\ "CLOSING" \in slot'.flags /\ (reader.at = "none" => reader' = reader)
    BY <1>1, <1>2, <1>6 DEF CloseOutcome
  <2>2. ~shutting /\ loop \notin Endings /\ Exhausted
    BY <2>1, <1>1, <1>3 DEF Ended
  <2>3. reader' = reader
    BY <2>1, <2>2 DEF Exhausted
  <2>4. Whole'
    BY <2>1, <2>3, <1>1, <1>2, WholeKept
  <2>5. ReaderDone'
    BY <2>3, <1>1, <1>2, <1>4 DEF ReaderDone
  <2>6. Ended'
    BY <2>1, <2>2, <2>3, <1>2, <1>3 DEF Ended, Exhausted
  <2>7. SlotWaits'
    BY <2>1 DEF SlotWaits
  <2> QED
    BY <2>4, <2>5, <2>6, <2>7 DEF Sound
<1> QED
  BY <1>5, <1>6

\* comm_process_input, from the drain or when deferred input is resumed: what is
\* left in the buffer waits for a hook or is marked as deferred.
LEMMA SoundOfProcessing ==
    ASSUME Shape, Clean, Sound, NEW s \in Slots, s.live = slot.live, s.buffer = slot.buffer,
           s.gate = slot.gate,
           \A f \in {"CLOSING", "AWAITING_HOOK"} : f \in s.flags <=> f \in slot.flags,
           s = slot \/ (slot.live /\ slot.gate = <<>>),
           slot' = Processed(s), delivered' = delivered \o Taken(s),
           UNCHANGED <<source, unread, queue, reader, disconnecting, shutting>>,
           loop \in {"process", "resume"}, loop' \in {"eof", "progress"}
    PROVE  Sound'
<1>1. /\ strict \in BOOLEAN /\ slot \in Slots /\ slot.buffer \in Seq(Nat)
      /\ Whole /\ ReaderDone /\ Ended /\ SlotWaits
  BY DEF Shape, Typed, Slots, Sound
<1>2. PICK p \in Slots : p = Processed(s) /\ slot' = p
  BY <1>1, ProcessedFacts DEF ProcessResult
<1>3. PICK t \in Seq(Nat) : t = Taken(s)
  BY <1>1, TakenType
<1>4. ProcessResult(s, p, t)
  BY <1>1, <1>2, <1>3, ProcessedFacts
<1>5. /\ p.buffer \in Seq(Nat) /\ Len(p.buffer) <= Len(s.buffer) /\ t \o p.buffer = s.buffer
  BY <1>1, <1>2, <1>3, TakenType
<1>6. Whole'
  <2>1. PICK r \in LineSeqs : r = p.buffer
    BY <1>5 DEF LineSeqs
  <2>2. Cat(t, r) = slot.buffer /\ delivered' = Cat(delivered, t) /\ slot'.buffer = r
    BY <2>1, <1>2, <1>3, <1>5 DEF Cat
  <2>3. t \in LineSeqs /\ Carried' = Carried
    BY DEF LineSeqs, Carried
  <2>4. Flow(Cat(delivered, t), r, queue, Carried, unread)
          = Flow(delivered, Cat(t, r), queue, Carried, unread)
    BY <2>3, FlowTypes, FlowDelivered
  <2> QED
    BY <2>2, <2>3, <2>4, <1>1 DEF Whole
<1>7. ReaderDone'
  BY <1>1 DEF ReaderDone
<1>8. /\ slot'.live <=> slot.live
      /\ "CLOSING" \in slot'.flags <=> "CLOSING" \in slot.flags
      /\ "AWAITING_HOOK" \in slot'.flags <=> "AWAITING_HOOK" \in slot.flags
  BY <1>2, <1>4 DEF ProcessResult
<1>9. Ended'
  <2>1. slot.buffer = <<>> => slot'.buffer = <<>>
    <3>1. PICK l \in Nat : l = Len(p.buffer)
      BY <1>5
    <3>2. slot.buffer = <<>> => l = 0
      BY <3>1, <1>5
    <3> QED
      BY <3>1, <3>2, <1>2, <1>5, EmptySeq
  <2> QED
    BY <2>1, <1>1, <1>8 DEF Ended, Exhausted, Endings
<1>10. SlotWaits'
  <2> SUFFICES ASSUME slot'.live, "CLOSING" \notin slot'.flags
               PROVE  SlotWaits'
    BY DEF SlotWaits
  <2>1. slot.live /\ "CLOSING" \notin slot.flags
    BY <1>8
  <2>2. /\ slot.gate \in {<<>>, <<"connect">>, <<"inbound">>, <<"leaving">>}
        /\ "AWAITING_HOOK" \in slot.flags => slot.gate = <<"connect">>
        /\ slot.gate \in {<<"leaving">>, <<"inbound">>} => "DEFERRED_INBOUND" \in slot.flags
    BY <2>1, <1>1 DEF SlotWaits
  <2>3. /\ <<"connect">> # <<>> /\ <<"connect">> # <<"inbound">> /\ <<"connect">> # <<"leaving">>
        /\ <<"inbound">> # <<>> /\ <<"leaving">> # <<>> /\ <<"inbound">> # <<"leaving">>
    OBVIOUS
  <2>4. CASE Accepts(s)
    <3>1. "AWAITING_HOOK" \notin slot'.flags /\ slot.gate = <<>>
      BY <2>4, <1>8 DEF Accepts, Has, Busy
    <3>2. \/ slot'.gate = <<>> /\ slot'.buffer = <<>>
          \/ slot'.gate = <<"inbound">> /\ "DEFERRED_INBOUND" \in slot'.flags
      BY <2>4, <3>1, <1>2, <1>4 DEF ProcessResult
    <3> QED
      BY <2>3, <3>1, <3>2 DEF SlotWaits
  <2>5. CASE ~Accepts(s)
    <3>1. slot' = s /\ ("AWAITING_HOOK" \in slot.flags \/ slot.gate # <<>>)
      BY <2>1, <2>5, <1>2, <1>4 DEF ProcessResult, Accepts, Has, Busy
    <3>2. slot.gate # <<>>
      BY <2>2, <2>3, <3>1
    <3>3. slot' = slot
      BY <3>1, <3>2
    <3>4. slot.gate = <<"connect">> \/ "DEFERRED_INBOUND" \in slot.flags
      BY <2>2, <3>2
    <3> QED
      BY <2>2, <3>3, <3>4 DEF SlotWaits
  <2> QED
    BY <2>4, <2>5
<1> QED
  BY <1>6, <1>7, <1>9, <1>10 DEF Sound

\* The other steps of the loop.
LEMMA SoundOfLoop ==
    ASSUME Shape, Prompted, Clean, Clean', Sound, LoopSteps
    PROVE  Sound'
<1>1. /\ slot \in Slots /\ strict \in BOOLEAN /\ reader \in Readers /\ queue \in Seq(Nat)
      /\ slot.buffer \in Seq(Nat) /\ shutting \in BOOLEAN /\ closes \in Nat
      /\ mode = "stdin" /\ prompting = FALSE /\ closes = 0 /\ closes' = 0 /\ lost = {} /\ lost' = {}
  BY Bounds DEF Shape, Typed, Slots, Clean
<1>2. UNCHANGED source
  BY HistoryGrows DEF Next, setup
<1>3. Whole /\ ReaderDone /\ Ended /\ SlotWaits
  BY DEF Sound
<1>4. CASE QuietSteps
  BY <1>4, SoundOfQuiet
<1>5. CASE CloseSteps
  BY <1>5, SoundOfCloseSteps
<1>6. CASE ConnectCloses \/ ProcessCloses
  BY <1>1, <1>6 DEF ConnectCloses, ProcessCloses
<1>7. CASE InvokeConnect
  <2>1. loop = "connect"
    BY <1>1, <1>7 DEF InvokeConnect, MayConnect, Shape, Gated
  <2>2. slot.live /\ slot.flags = {} /\ slot.gate = <<>> /\ slot.buffer = <<>> /\ ~disconnecting /\ ~shutting
    BY <2>1 DEF Shape, Gated, Fresh
  <2>3. /\ slot' = Connect(slot) /\ loop' = "top"
        /\ UNCHANGED <<unread, queue, reader, disconnecting, shutting, delivered>>
    BY <2>1, <1>7 DEF InvokeConnect, history
  <2>4. slot'.live /\ slot'.buffer = <<>> /\ "CLOSING" \notin slot'.flags
    <3>1. CASE strict
      BY <2>2, <2>3, <3>1, <1>1, ConnectFacts
    <3>2. CASE ~strict
      BY <2>2, <2>3, <3>2, <1>1, ConnectFacts
    <3> QED
      BY <3>1, <3>2
  <2>5. \/ slot'.gate = <<>> /\ "AWAITING_HOOK" \notin slot'.flags
        \/ slot'.gate = <<"connect">>
    <3>1. CASE strict
      BY <2>2, <2>3, <3>1, <1>1, ConnectFacts
    <3>2. CASE ~strict
      <4>1. slot'.gate = Append(<<>>, "connect")
        BY <2>2, <2>3, <3>2, <1>1, ConnectFacts
      <4> QED
        BY <4>1
    <3> QED
      BY <3>1, <3>2
  <2>6. Whole'
    BY <2>2, <2>3, <2>4, <1>2, <1>3, WholeKept
  <2>7. ReaderDone'
    BY <2>1, <2>2, <2>3, <1>3 DEF ReaderDone
  <2>8. Ended'
    BY <2>2, <2>3, <2>4 DEF Ended, Endings
  <2>9. SlotWaits'
    <3>1. <<"connect">> # <<>> /\ <<"connect">> # <<"inbound">> /\ <<"connect">> # <<"leaving">>
          /\ <<"inbound">> # <<>> /\ <<"leaving">> # <<>>
      OBVIOUS
    <3> QED
      BY <2>4, <2>5, <3>1 DEF SlotWaits
  <2> QED
    BY <2>6, <2>7, <2>8, <2>9 DEF Sound
<1>8. CASE Lookup
  <2>1. /\ loop = "lookup" /\ loop' = "drain"
        /\ UNCHANGED <<slot, queue, unread, reader, disconnecting, shutting, delivered>>
    BY <1>1, <1>8 DEF Lookup
  <2>2. Whole' /\ SlotWaits'
    BY <2>1, <1>2, <1>3, WholeKept, SlotKept
  <2>3. ReaderDone' /\ Ended'
    BY <2>1, <1>3 DEF ReaderDone, Ended, Exhausted, Endings
  <2> QED
    BY <2>2, <2>3 DEF Sound
<1>9. CASE Drain
  <2>1. PICK n \in 0 .. Len(queue) : DrainResult(n)
    BY <1>9, DrainFacts
  <2>2. ~(n < Len(queue))
    BY <2>1, <1>1 DEF DrainResult
  <2>3. n = Len(queue)
    BY <2>1, <2>2, <1>1
  <2>4. queue' = <<>> /\ slot'.buffer = Cat(slot.buffer, queue)
    BY <2>1, <2>2, <2>3, <1>1, SplitEnds DEF DrainResult, Cat
  <2>5. slot'.live = slot.live /\ slot'.flags = slot.flags /\ slot'.gate = slot.gate
    BY <2>1 DEF DrainResult
  <2>6. reader' = reader /\ shutting' = shutting
    BY <2>1, <2>2, <1>1 DEF DrainResult, Posts
  <2>7. loop = "drain" /\ loop' = "process" /\ UNCHANGED <<unread, disconnecting, delivered>>
    BY <1>9 DEF Drain
  <2>8. Whole'
    <3>1. Flow(delivered, Cat(slot.buffer, queue), <<>>, Carried, unread)
            = Flow(delivered, slot.buffer, queue, Carried, unread)
      BY FlowTypes, FlowDrained
    <3>2. Carried' = Carried
      BY <2>6 DEF Carried
    <3> QED
      BY <2>4, <2>7, <3>1, <3>2, <1>2, <1>3 DEF Whole
  <2>9. ReaderDone'
    BY <2>4, <2>6, <2>7, <1>3 DEF ReaderDone
  <2>10. Ended'
    <3>1. Exhausted => Exhausted'
      <4>1. slot.buffer = <<>> /\ queue = <<>> => slot'.buffer = <<>>
        BY <2>4, CatLaws
      <4> QED
        BY <2>4, <2>6, <2>7, <4>1 DEF Exhausted
    <3> QED
      BY <2>5, <2>6, <2>7, <3>1, <1>3 DEF Ended, Endings
  <2>11. SlotWaits'
    BY <2>5, <2>7, <1>3 DEF SlotWaits
  <2> QED
    BY <2>8, <2>9, <2>10, <2>11 DEF Sound
<1>10. CASE Process
  <2>1. /\ slot' = Processed(slot) /\ delivered' = delivered \o Taken(slot)
        /\ UNCHANGED <<unread, queue, reader, disconnecting, shutting>>
        /\ loop = "process" /\ loop' = "eof"
    BY <1>10 DEF Process
  <2> QED
    BY <2>1, <1>1, <1>2, SoundOfProcessing
<1>11. CASE Resume
  <2>1. /\ UNCHANGED <<unread, queue, reader, disconnecting, shutting>>
        /\ loop = "resume" /\ loop' = "progress"
    BY <1>11 DEF Resume
  <2>2. CASE slot.live /\ Has(slot, "DEFERRED_INBOUND") /\ ~Busy(slot)
    <3>1. PICK s \in Slots : /\ s = Clear(slot, "DEFERRED_INBOUND") /\ s.live = slot.live
                             /\ s.buffer = slot.buffer /\ s.gate = slot.gate
                             /\ s.flags = slot.flags \ {"DEFERRED_INBOUND"}
      BY <1>1, ClearFacts DEF Flags
    <3>2. slot' = Processed(s) /\ delivered' = delivered \o Taken(s)
      BY <2>2, <3>1, <1>11 DEF Resume
    <3>3. \A f \in {"CLOSING", "AWAITING_HOOK"} : f \in s.flags <=> f \in slot.flags
      BY <3>1
    <3>4. slot.live /\ slot.gate = <<>>
      BY <2>2 DEF Busy
    <3> QED
      BY <2>1, <3>1, <3>2, <3>3, <3>4, <1>2, SoundOfProcessing
  <2>3. CASE ~(slot.live /\ Has(slot, "DEFERRED_INBOUND") /\ ~Busy(slot))
    <3>1. UNCHANGED <<slot, delivered>>
      BY <2>3, <1>11 DEF Resume
    <3>2. Whole' /\ SlotWaits'
      BY <2>1, <3>1, <1>2, <1>3, WholeKept, SlotKept
    <3>3. ReaderDone' /\ Ended'
      BY <2>1, <3>1, <1>3 DEF ReaderDone, Ended, Exhausted, Endings
    <3> QED
      BY <3>2, <3>3 DEF Sound
  <2> QED
    BY <2>2, <2>3
<1>12. CASE ConsoleEof
  <2>1. /\ loop = "eof" /\ disconnecting /\ ~EofWaits(slot) /\ loop' = "resume"
        /\ UNCHANGED <<unread, delivered>>
    BY <1>12 DEF ConsoleEof, Leave
  <2>2. Exhausted
    <3>1. reader.at = "none" /\ queue = <<>> /\ unread = <<>>
      BY <2>1, <1>3 DEF ReaderDone
    <3>2. CASE slot.live /\ "CLOSING" \notin slot.flags
      <4>1. slot.gate = <<>> /\ "DEFERRED_INBOUND" \notin slot.flags
        BY <2>1, <3>2, <1>1 DEF EofWaits, Busy, Has
      <4>2. <<"connect">> # <<>>
        OBVIOUS
      <4>3. slot.buffer = <<>>
        BY <2>1, <3>2, <4>1, <4>2, <1>3 DEF SlotWaits
      <4> QED
        BY <3>1, <4>3 DEF Exhausted
    <3>3. CASE ~(slot.live /\ "CLOSING" \notin slot.flags)
      BY <3>3, <1>3 DEF Ended
    <3> QED
      BY <3>2, <3>3
  <2>3. PICK s \in Slots :
          /\ s.live = slot.live /\ s.buffer = slot.buffer /\ (s.live => "CLOSING" \in s.flags)
          /\ \/ slot' = s /\ UNCHANGED <<queue, disconnecting, reader, shutting>>
             \/ slot' = Removed(s) /\ queue' = <<>> /\ disconnecting' = FALSE
                /\ Posts(FALSE, mode = "stdin")
    BY <1>12, ConsoleEofFacts
  <2>4. /\ slot'.buffer = <<>> /\ queue' = <<>> /\ reader' = reader
        /\ slot'.live => "CLOSING" \in slot'.flags
        /\ disconnecting' => disconnecting
        /\ shutting' => ~slot'.live
    <3>1. CASE slot' = s /\ UNCHANGED <<queue, disconnecting, reader, shutting>>
      BY <2>2, <2>3, <3>1, <1>3 DEF Exhausted, Ended
    <3>2. CASE slot' = Removed(s) /\ queue' = <<>> /\ disconnecting' = FALSE
               /\ Posts(FALSE, mode = "stdin")
      BY <3>2, RemovedFacts DEF Posts
    <3> QED
      BY <2>3, <3>1, <3>2
  <2>5. Whole'
    BY <2>1, <2>2, <2>4, <1>2, <1>3, WholeKept DEF Exhausted
  <2>6. ReaderDone'
    BY <2>1, <2>2, <2>4, <1>3 DEF ReaderDone, Exhausted
  <2>7. Ended'
    BY <2>1, <2>2, <2>4 DEF Ended, Exhausted, Endings
  <2>8. SlotWaits'
    BY <2>4 DEF SlotWaits
  <2> QED
    BY <2>5, <2>6, <2>7, <2>8 DEF Sound
<1>13. CASE Prompt
  <2>1. /\ UNCHANGED <<slot, unread, queue, reader, disconnecting, shutting, delivered>>
        /\ loop = "prompt" /\ loop' = "top"
    <3>1. "ENABLE_PROMPT" \notin slot.flags
      BY <1>1 DEF Prompted
    <3> QED
      BY <3>1, <1>13 DEF Prompt, Has, history
  <2>2. Whole' /\ SlotWaits'
    BY <2>1, <1>2, <1>3, WholeKept, SlotKept
  <2>3. ReaderDone' /\ Ended'
    BY <2>1, <1>3 DEF ReaderDone, Ended, Exhausted, Endings
  <2> QED
    BY <2>2, <2>3 DEF Sound
<1>14. CASE JoinReader
  <2>1. /\ loop = "joinlast" /\ loop' = "done" /\ queue' = <<>> /\ reader'.at = "none"
        /\ ~reader'.eof /\ ~reader'.stop /\ slot' = Removed(slot)
        /\ UNCHANGED <<unread, disconnecting, shutting, delivered>>
    BY <1>14 DEF JoinReader, NoReader
  <2>2. ~slot'.live /\ slot'.buffer = <<>>
    BY <2>1, <1>1, RemovedFacts
  <2>3. shutting /\ Exhausted
    BY <2>1, <1>3 DEF Ended, Endings
  <2>4. Whole'
    BY <2>1, <2>2, <2>3, <1>2, <1>3, WholeKept DEF Exhausted
  <2>5. ReaderDone'
    BY <2>1, <2>3 DEF ReaderDone, Exhausted
  <2>6. Ended' /\ SlotWaits'
    BY <2>1, <2>2, <2>3 DEF Ended, SlotWaits, Exhausted
  <2> QED
    BY <2>4, <2>5, <2>6 DEF Sound
<1> QED
  BY <1>4, <1>5, <1>6, <1>7, <1>8, <1>9, <1>10, <1>11, <1>12, <1>13, <1>14
     DEF LoopSteps, QuietSteps, CloseSteps

\* A hook that returns leaves the input to be resumed by the loop.
LEMMA SoundOfHooks ==
    ASSUME Shape, Prompted, Clean, Clean', Sound, HookSteps
    PROVE  Sound'
<1>1. /\ slot \in Slots /\ slot.gate \in Seq(Hooks) /\ closes = 0 /\ closes' = 0
      /\ Whole /\ ReaderDone /\ Ended /\ SlotWaits
  BY DEF Shape, Typed, Slots, Clean, Sound
<1>2. UNCHANGED <<source, unread, queue, loop, disconnecting, delivered>>
  BY DEF HookSteps, HookCompletes, HookLeaves, HookCloses, HookSignals, Hooking, setup
<1>3. CASE HookCloses \/ HookSignals
  BY <1>1, <1>3 DEF HookCloses, HookSignals, Prompted
<1>4. ASSUME UNCHANGED <<reader, shutting>>, slot'.live <=> slot.live, slot'.buffer = slot.buffer,
             "CLOSING" \in slot'.flags <=> "CLOSING" \in slot.flags, SlotWaits'
      PROVE  Sound'
  <2>1. Whole'
    BY <1>1, <1>2, <1>4, WholeKept
  <2>2. ReaderDone'
    BY <1>1, <1>2, <1>4 DEF ReaderDone
  <2>3. Ended'
    BY <1>1, <1>2, <1>4 DEF Ended, Exhausted
  <2> QED
    BY <2>1, <2>2, <2>3, <1>4 DEF Sound
<1>5. /\ <<"connect">>[1] = "connect" /\ <<"inbound">>[1] = "inbound" /\ <<"leaving">>[1] = "leaving"
      /\ Tail(<<"leaving">>) = <<>> /\ <<"connect">> # <<>> /\ <<"inbound">> # <<>> /\ <<"leaving">> # <<>>
      /\ <<"connect">> # <<"inbound">> /\ <<"connect">> # <<"leaving">> /\ <<"inbound">> # <<"leaving">>
      /\ [<<"connect">> EXCEPT ![1] = "leaving"] = <<"leaving">>
      /\ [<<"inbound">> EXCEPT ![1] = "leaving"] = <<"leaving">>
  OBVIOUS
<1>6. CASE HookCompletes
  <2>1. UNCHANGED <<reader, shutting>> /\ slot.gate[1] # "leaving"
    BY <1>6 DEF HookCompletes
  <2>2. CompletedSlot(slot, slot') /\ slot.gate # <<>>
    BY <1>6, CompletedFacts
  <2>3. /\ slot'.live <=> slot.live
        /\ slot'.buffer = slot.buffer /\ ("CLOSING" \in slot'.flags <=> "CLOSING" \in slot.flags)
    BY <2>2 DEF CompletedSlot
  <2>4. SlotWaits'
    <3> SUFFICES ASSUME slot.live, "CLOSING" \notin slot.flags PROVE SlotWaits'
      BY <2>3 DEF SlotWaits
    <3>1. slot.gate = <<"connect">> \/ slot.gate = <<"inbound">>
      BY <2>1, <2>2, <1>1, <1>5 DEF SlotWaits
    <3>2. slot'.gate = <<"leaving">> /\ "DEFERRED_INBOUND" \in slot'.flags
      BY <2>2, <3>1, <1>5 DEF CompletedSlot
    <3>3. "AWAITING_HOOK" \notin slot'.flags
      BY <2>2, <3>1, <1>1, <1>5 DEF CompletedSlot, SlotWaits
    <3> QED
      BY <3>2, <3>3 DEF SlotWaits
  <2> QED
    BY <2>1, <2>3, <2>4, <1>4
<1>7. CASE HookLeaves
  <2>1. /\ UNCHANGED <<reader, shutting>> /\ slot.gate[1] = "leaving" /\ slot.gate # <<>>
        /\ slot'.live = slot.live /\ slot'.buffer = slot.buffer /\ slot'.flags = slot.flags
        /\ slot'.gate = Tail(slot.gate)
    BY <1>1, <1>7 DEF HookLeaves, Busy, Slots
  <2>2. SlotWaits'
    <3> SUFFICES ASSUME slot.live, "CLOSING" \notin slot.flags PROVE SlotWaits'
      BY <2>1 DEF SlotWaits
    <3>1. slot.gate = <<"leaving">>
      BY <2>1, <1>1, <1>5 DEF SlotWaits
    <3>2. slot'.gate = <<>> /\ "DEFERRED_INBOUND" \in slot'.flags /\ "AWAITING_HOOK" \notin slot'.flags
      BY <2>1, <3>1, <1>1, <1>5 DEF SlotWaits
    <3> QED
      BY <3>2, <1>5 DEF SlotWaits
  <2> QED
    BY <2>1, <2>2, <1>4
<1> QED
  BY <1>3, <1>6, <1>7 DEF HookSteps

\* Every step keeps the input whole.
LEMMA CompleteStep ==
    Shape /\ Lines /\ Prompted /\ Complete /\ [Next]_vars => Prompted' /\ Complete'
<1> SUFFICES ASSUME Shape, Lines, Prompted, Complete, [Next]_vars PROVE Prompted' /\ Complete'
  OBVIOUS
<1>1. CASE UNCHANGED vars
  <2>1. UNCHANGED <<mode, device, prompting, source, unread, slotsMutex, queue, reader, slot, loop,
                    disconnecting, shutting, delivered, lost, closes>>
    BY <1>1 DEF vars
  <2>2. Prompted' /\ (Clean' => Clean)
    BY <2>1 DEF Prompted, Clean
  <2>3. Sound => Sound'
    <3>1. Whole => Whole'
      BY <2>1, WholeKept
    <3>2. ReaderDone => ReaderDone'
      BY <2>1 DEF ReaderDone
    <3>3. Ended => Ended'
      BY <2>1 DEF Ended, Exhausted
    <3>4. SlotWaits => SlotWaits'
      BY <2>1, SlotKept
    <3> QED
      BY <3>1, <3>2, <3>3, <3>4 DEF Sound
  <2> QED
    BY <2>2, <2>3 DEF Complete
<1>2. CASE Next
  <2>1. Prompted'
    BY <1>2, PromptedStep
  <2>2. ASSUME Clean' PROVE Sound'
    <3>1. Clean
      <4>1. UNCHANGED <<mode, device, prompting>> /\ lost \subseteq lost' /\ closes \in Nat /\ closes' >= closes
        BY <1>2, HistoryGrows DEF setup
      <4>2. mode' = "stdin" /\ device' # "tty" /\ ~prompting' /\ closes' = 0 /\ lost' = {}
        BY <2>2 DEF Clean
      <4>3. closes = 0 /\ lost = {}
        BY <4>1, <4>2
      <4> QED
        BY <4>1, <4>2, <4>3 DEF Clean
    <3>2. Sound
      BY <3>1 DEF Complete
    <3> QED
      BY <2>2, <3>1, <3>2, <1>2, SoundOfReader, SoundOfLoop, SoundOfHooks DEF Next, HookSteps
  <2> QED
    BY <2>1, <2>2 DEF Complete
<1> QED
  BY <1>1, <1>2

\* In the order of the input, and whole when the server has stopped.
LEMMA LinesComplete == Shape /\ Lines /\ Complete => InputComplete
<1> SUFFICES ASSUME Shape, Lines, Complete PROVE InputComplete
  OBVIOUS
<1>1. \A i, j \in DOMAIN delivered : i < j => delivered[i] < delivered[j]
  <2>1. PICK a \in Nat : Between(delivered, 0, a)
    BY Zenon DEF Lines, Rungs
  <2> QED
    BY <2>1, Zenon DEF Between, Rising
<1>2. ASSUME loop = "done", Clean PROVE delivered = source
  <2>1. Exhausted /\ Whole
    BY <1>2 DEF Complete, Sound, Ended, Endings
  <2>2. Carried = <<>>
    BY <2>1 DEF Exhausted, Carried
  <2>3. delivered \in LineSeqs
    BY FlowTypes
  <2> QED
    BY <2>1, <2>2, <2>3, CatLaws DEF Whole, Flow, Exhausted
<1> QED
  BY <1>1, <1>2 DEF InputComplete, Clean

\* What HOOK_MESSAGE_INBOUND gets is in the order of the input; a server that has
\* stopped for the end of its standard input has passed all of it on, whatever
\* the interleaving of the worker, the loop and the hooks, and whatever the
\* capacities, unless a line was dropped: InputComplete.
THEOREM InputCompleteAlways == Spec => []InputComplete
<1>1. Init => Shape /\ Lines /\ Prompted /\ Complete
  BY ShapeInit, LinesInit, CompleteInit
<1>2. Shape /\ Lines /\ Prompted /\ Complete /\ [Next]_vars
         => Shape' /\ Lines' /\ Prompted' /\ Complete'
  BY ShapeStep, LinesStep, CompleteStep
<1>3. Shape /\ Lines /\ Prompted /\ Complete => InputComplete
  BY LinesComplete
<1> QED
  BY <1>1, <1>2, <1>3, PTL DEF Spec
=============================================================================
