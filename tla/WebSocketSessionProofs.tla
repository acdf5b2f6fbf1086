----------------------- MODULE WebSocketSessionProofs -----------------------
(***************************************************************************)
(* Theorems about WebSocketSession: the bounds of the outbound queue, of   *)
(* the upgrade barrier and of the gate, that the peer is answered in HTTP  *)
(* before any frame, that it is sent one Close frame at most, and that its *)
(* messages reach the application whole and in order, for every session    *)
(* and every number of writes.                                             *)
(***************************************************************************)
EXTENDS WebSocketSession, FoldTheorems, SequenceTheorems

OutOps == {"101", "error", "raw", "data", "close", "reply", "pong", "negotiation"}
OutUnits == [op : OutOps, of : Nat]
DataUnits == [op : {"data"}, of : Nat]
InUnits == [op : Ops \cup {"part", "get", "end", "hello", "finished"}, id : Nat]
WsStates == {"handshake", "telnet_pending", "ready", "close_sent", "close_received"}
Outputs == Seq(OutUnits)
Barriers == Seq(DataUnits)
Inputs == Seq(InUnits)
Numbers == Seq(Nat)
Gates == Seq(Hooks)
FlagSets == SUBSET Flags

\* The slot, with its bounds.
Slots ==
    {s \in [live : BOOLEAN, flags : FlagSets, ws : WsStates, out : Outputs,
            barrier : Barriers, inbound : Inputs, wire : Inputs, decoded : Numbers,
            fragment : Numbers, gate : Gates, writes : Nat, sends : Nat] :
        /\ Len(s.out) <= OutCap /\ Len(s.barrier) <= OutCap
        /\ Len(s.gate) <= Backlog + 1
        /\ s.writes <= MaxWrites /\ s.sends <= MaxSends}

\* Everything queued for the peer since the connection began: h is what was
\* sent, s.out is still queued.
All(h, s) == h \o s.out

IsClose(u) == u.op \in {"close", "reply"}
OneClose(q) == \A i, j \in DOMAIN q : IsClose(q[i]) /\ IsClose(q[j]) => i = j
NoClose(q) == \A i \in DOMAIN q : ~IsClose(q[i])

\* The answer in HTTP is first, and frames follow a 101 only.
Answered(q) ==
    /\ q # <<>> => q[1].op \in {"101", "error"}
    /\ \A i \in DOMAIN q :
          /\ IsFrame(q[i]) => q[1].op = "101"
          /\ q[i].op \in {"101", "error"} => i = 1

\* What was queued tells the phase of the upgrade; before the TLS handshake is
\* over it has not begun.
Linked(q, tls, s) ==
    /\ s.ws = "handshake" /\ Has(s, "ENABLE_WEBSOCKET") => Len(q) = 0
    /\ s.ws = "handshake" /\ ~Has(s, "ENABLE_WEBSOCKET") => Len(q) # 0 /\ q[1].op = "error"
    /\ Ready(s) => Len(q) # 0 /\ q[1].op = "101"
    /\ tls /\ ~Has(s, "TLS_ESTABLISHED") => s.ws = "handshake" /\ Has(s, "ENABLE_WEBSOCKET")

\* The output q of a slot: at most one Close frame, none before the Close
\* handshake began.  A failed write drops queued output, so that the rest is
\* about connections none of whose writes failed (~b).
Protocol(q, b, tls, s) ==
    /\ OneClose(q)
    /\ ~CloseBegun(s) => NoClose(q)
    /\ ~b => Answered(q)
    /\ ~b /\ s.live => Linked(q, tls, s)

SlotOK(h, b, tls, s) == s \in Slots /\ Protocol(All(h, s), b, tls, s)

SessionInvariant ==
    /\ session \in Sessions /\ strict \in BOOLEAN /\ eof \in BOOLEAN /\ broken \in BOOLEAN
    /\ closed \in BOOLEAN /\ ioerror \in BOOLEAN
    /\ pass \in {"read", "failed", "resume"}
    /\ loop \in {"wait", "process", "frames", "settle", "resume", "flush",
                 "drained", "progress"}
    /\ unread \in Inputs
    /\ sent \in Outputs /\ Answered(sent)
    /\ SlotOK(sent, broken, session.tls, slot)
    /\ loop = "drained" => slot.live /\ slot.out = <<>>
    /\ loop = "frames" => Ready(slot)

-----------------------------------------------------------------------------
(* What is queued for the peer.                                            *)

\* Queueing behind what was sent is queueing behind all of it.
LEMMA ConcatAppend ==
    ASSUME NEW S, NEW a \in Seq(S), NEW b \in Seq(S), NEW u \in S
    PROVE  /\ Append(b, u) \in Seq(S) /\ Len(Append(b, u)) = Len(b) + 1
           /\ a \o b \in Seq(S) /\ Len(a \o b) = Len(a) + Len(b)
           /\ a \o Append(b, u) \in Seq(S)
           /\ Len(a \o Append(b, u)) = Len(a \o b) + 1
           /\ (a \o Append(b, u))[Len(a \o b) + 1] = u
           /\ \A i \in 1 .. Len(a \o b) : (a \o Append(b, u))[i] = (a \o b)[i]
<1>1. /\ Append(b, u) \in Seq(S) /\ Len(Append(b, u)) = Len(b) + 1
      /\ Append(b, u)[Len(b) + 1] = u
      /\ \A i \in 1 .. Len(b) : Append(b, u)[i] = b[i]
  OBVIOUS
<1>2. PICK c \in Seq(S) : c = Append(b, u)
  BY <1>1
<1>3. /\ a \o b \in Seq(S) /\ Len(a \o b) = Len(a) + Len(b)
      /\ \A i \in 1 .. Len(a) + Len(b) : (a \o b)[i] =
             IF i <= Len(a) THEN a[i] ELSE b[i - Len(a)]
  BY ConcatProperties
<1>4. /\ a \o c \in Seq(S) /\ Len(a \o c) = Len(a) + Len(c)
      /\ \A i \in 1 .. Len(a) + Len(c) : (a \o c)[i] =
             IF i <= Len(a) THEN a[i] ELSE c[i - Len(a)]
  BY ConcatProperties
<1>5. PICK m \in Nat : m = Len(a)
  OBVIOUS
<1>6. PICK n \in Nat : n = Len(b)
  OBVIOUS
<1>7. Len(c) = n + 1 /\ c[n + 1] = u /\ \A i \in 1 .. n : c[i] = b[i]
  BY <1>1, <1>2, <1>6
<1>8. (a \o c)[m + n + 1] = u
  <2>1. m + n + 1 \in 1 .. m + (n + 1) /\ ~(m + n + 1 <= m) /\ (m + n + 1) - m = n + 1
    OBVIOUS
  <2>2. QED
    BY <1>4, <1>5, <1>7, <2>1
<1>9. ASSUME NEW i \in 1 .. m + n PROVE (a \o c)[i] = (a \o b)[i]
  <2>1. i \in 1 .. m + (n + 1)
    OBVIOUS
  <2>2. (a \o b)[i] = IF i <= m THEN a[i] ELSE b[i - m]
    BY <1>3, <1>5, <1>6
  <2>3. (a \o c)[i] = IF i <= m THEN a[i] ELSE c[i - m]
    BY <1>4, <1>5, <1>7, <2>1
  <2>4. ~(i <= m) => i - m \in 1 .. n
    OBVIOUS
  <2>5. QED
    BY <1>7, <2>2, <2>3, <2>4
<1>10. QED
  BY <1>1, <1>2, <1>3, <1>4, <1>5, <1>6, <1>7, <1>8, <1>9

\* q begins with p.
Extends(p, q) ==
    /\ p \in Outputs /\ q \in Outputs /\ Len(p) <= Len(q)
    /\ \A i \in 1 .. Len(p) : q[i] = p[i]

\* What was promised of all output holds of its beginning.
LEMMA Beginning ==
    ASSUME NEW p, NEW q, Extends(p, q)
    PROVE  /\ OneClose(q) => OneClose(p)
           /\ NoClose(q) => NoClose(p)
           /\ Answered(q) => Answered(p)
<1>1. /\ Len(p) \in Nat /\ Len(q) \in Nat
      /\ DOMAIN p = 1 .. Len(p) /\ DOMAIN q = 1 .. Len(q)
      /\ (p # <<>> => Len(p) # 0) /\ (q = <<>> => Len(q) = 0)
  BY DEF Extends, Outputs
<1>2. \A i \in DOMAIN p : i \in DOMAIN q /\ q[i] = p[i]
  BY <1>1 DEF Extends
<1>3. OneClose(q) => OneClose(p)
  BY <1>2 DEF OneClose, IsClose
<1>4. NoClose(q) => NoClose(p)
  BY <1>2 DEF NoClose, IsClose
<1>5. p # <<>> => q # <<>> /\ q[1] = p[1]
  BY <1>1, <1>2
<1>6. \A i \in DOMAIN p : p # <<>>
  BY <1>1
<1>7. Answered(q) => Answered(p)
  BY <1>2, <1>5, <1>6 DEF Answered, IsFrame
<1>8. QED
  BY <1>3, <1>4, <1>7

\* One more unit.
LEMMA Queued ==
    ASSUME NEW p, NEW q, NEW u, Extends(p, q), Len(q) = Len(p) + 1, q[Len(p) + 1] = u
    PROVE  /\ OneClose(p) /\ ~IsClose(u) => OneClose(q)
           /\ NoClose(p) => OneClose(q)
           /\ NoClose(p) /\ ~IsClose(u) => NoClose(q)
           /\ Answered(p) /\ Len(p) = 0 /\ u.op \in {"101", "error"} => Answered(q)
           /\ Answered(p) /\ Len(p) # 0 /\ u.op \notin {"101", "error"}
              /\ (IsFrame(u) => p[1].op = "101") => Answered(q)
           /\ Len(p) # 0 => q[1] = p[1]
           /\ Len(p) = 0 => q[1] = u
<1>1. /\ Len(p) \in Nat /\ Len(q) \in Nat
      /\ DOMAIN p = 1 .. Len(p) /\ DOMAIN q = 1 .. Len(q)
      /\ (p # <<>> => Len(p) # 0) /\ (q = <<>> => Len(q) = 0)
  BY DEF Extends, Outputs
<1>2. PICK n \in Nat : n = Len(p)
  BY <1>1
<1>3. /\ DOMAIN p = 1 .. n /\ DOMAIN q = 1 .. n + 1 /\ q[n + 1] = u
      /\ \A i \in 1 .. n : q[i] = p[i]
  BY <1>1, <1>2 DEF Extends
<1>4. \A i \in DOMAIN q : i = n + 1 \/ (i \in DOMAIN p /\ q[i] = p[i])
  BY <1>3
<1>5. OneClose(p) /\ ~IsClose(u) => OneClose(q)
  BY <1>3, <1>4 DEF OneClose, IsClose
<1>6. NoClose(p) => OneClose(q)
  BY <1>3, <1>4 DEF OneClose, NoClose, IsClose
<1>7. NoClose(p) /\ ~IsClose(u) => NoClose(q)
  BY <1>3, <1>4 DEF NoClose, IsClose
<1>8. (n # 0 => q[1] = p[1]) /\ (n = 0 => q[1] = u)
  BY <1>3
<1>9. q # <<>>
  BY <1>1, <1>2
<1>10. ASSUME Answered(p), n = 0, u.op \in {"101", "error"} PROVE Answered(q)
  <2>1. \A i \in DOMAIN q : i = 1
    BY <1>3, <1>10
  <2>2. q[1] = u
    BY <1>8, <1>10
  <2>3. QED
    BY <1>10, <2>1, <2>2 DEF Answered, IsFrame
<1>11. ASSUME Answered(p), n # 0, u.op \notin {"101", "error"}, IsFrame(u) => p[1].op = "101"
       PROVE Answered(q)
  <2>1. p # <<>> /\ q[1] = p[1]
    BY <1>1, <1>2, <1>8, <1>11
  <2>2. ASSUME NEW i \in DOMAIN q
        PROVE  /\ IsFrame(q[i]) => q[1].op = "101"
               /\ q[i].op \in {"101", "error"} => i = 1
    <3>1. CASE i = n + 1
      BY <1>3, <1>11, <2>1, <3>1
    <3>2. CASE i \in DOMAIN p /\ q[i] = p[i]
      BY <1>11, <2>1, <3>2 DEF Answered
    <3>3. QED
      BY <1>4, <3>1, <3>2
  <2>3. QED
    BY <1>11, <2>1, <2>2 DEF Answered
<1>12. QED
  BY <1>2, <1>5, <1>6, <1>7, <1>8, <1>10, <1>11

-----------------------------------------------------------------------------
(* The fields of the slot.                                                 *)

\* A slot field by field.
LEMMA SlotFields ==
    ASSUME NEW s
    PROVE  s \in Slots <=>
              /\ s = [live |-> s.live, flags |-> s.flags, ws |-> s.ws, out |-> s.out,
                      barrier |-> s.barrier, inbound |-> s.inbound, wire |-> s.wire,
                      decoded |-> s.decoded, fragment |-> s.fragment, gate |-> s.gate,
                      writes |-> s.writes, sends |-> s.sends]
              /\ s.live \in BOOLEAN /\ s.flags \in FlagSets /\ s.ws \in WsStates
              /\ s.out \in Outputs /\ Len(s.out) <= OutCap
              /\ s.barrier \in Barriers /\ Len(s.barrier) <= OutCap
              /\ s.inbound \in Inputs /\ s.wire \in Inputs
              /\ s.decoded \in Numbers /\ s.fragment \in Numbers
              /\ s.gate \in Gates /\ Len(s.gate) <= Backlog + 1
              /\ s.writes \in Nat /\ s.writes <= MaxWrites
              /\ s.sends \in Nat /\ s.sends <= MaxSends
BY DEF Slots

\* t has the output, the phase and the transport of s.
SameOutput(s, t) ==
    /\ t.out = s.out /\ t.ws = s.ws /\ t.live = s.live
    /\ \A f \in {"ENABLE_WEBSOCKET", "TLS_ESTABLISHED"} : Has(t, f) <=> Has(s, f)

\* The output and the phase are all the protocol is about.
LEMMA SameOutputOK ==
    ASSUME NEW h, NEW b, NEW tls, NEW s, NEW t \in Slots,
           SlotOK(h, b, tls, s), SameOutput(s, t)
    PROVE  SlotOK(h, b, tls, t)
BY DEF SlotOK, SameOutput, All, Protocol, Linked, Ready, CloseBegun

\* Changes of one field each, that keep the bounds.
LEMMA SetField ==
    ASSUME NEW s \in Slots
    PROVE  /\ \A v \in FlagSets : /\ [s EXCEPT !.flags = v] \in Slots
                                  /\ [s EXCEPT !.flags = v].flags = v
           /\ \A v \in WsStates : [s EXCEPT !.ws = v] \in Slots
           /\ \A v \in Outputs : Len(v) <= OutCap => [s EXCEPT !.out = v] \in Slots
           /\ \A v \in Barriers : Len(v) <= OutCap => [s EXCEPT !.barrier = v] \in Slots
           /\ \A v \in Inputs : [s EXCEPT !.inbound = v] \in Slots
           /\ \A v \in Inputs : [s EXCEPT !.wire = v] \in Slots
           /\ \A v \in Numbers : [s EXCEPT !.decoded = v] \in Slots
           /\ \A v \in Numbers : [s EXCEPT !.fragment = v] \in Slots
           /\ \A v \in Gates : Len(v) <= Backlog + 1 => [s EXCEPT !.gate = v] \in Slots
           /\ \A v \in Nat : v <= MaxWrites => [s EXCEPT !.writes = v] \in Slots
           /\ \A v \in Nat : v <= MaxSends => [s EXCEPT !.sends = v] \in Slots
<1>1. s \in [live : BOOLEAN, flags : FlagSets, ws : WsStates, out : Outputs,
            barrier : Barriers, inbound : Inputs, wire : Inputs, decoded : Numbers,
            fragment : Numbers, gate : Gates, writes : Nat, sends : Nat]
  BY DEF Slots
<1>2. QED
  BY <1>1 DEF Slots

\* Flags the protocol is not about.
LEMMA OtherFlags ==
    ASSUME NEW s \in Slots, NEW f \in Flags \ {"ENABLE_WEBSOCKET", "TLS_ESTABLISHED"}
    PROVE  /\ Raise(s, f) \in Slots /\ SameOutput(s, Raise(s, f))
           /\ Clear(s, f) \in Slots /\ SameOutput(s, Clear(s, f))
<1>1. s.flags \in FlagSets
  BY DEF Slots
<1>2. s.flags \cup {f} \in FlagSets /\ s.flags \ {f} \in FlagSets
  BY <1>1 DEF FlagSets
<1>3. Raise(s, f) \in Slots /\ Clear(s, f) \in Slots
  BY <1>2, SetField DEF Raise, Clear
<1>4. /\ Raise(s, f) = [s EXCEPT !.flags = s.flags \cup {f}]
      /\ Clear(s, f) = [s EXCEPT !.flags = s.flags \ {f}]
  BY DEF Raise, Clear
<1>5. s \in [live : BOOLEAN, flags : FlagSets, ws : WsStates, out : Outputs,
            barrier : Barriers, inbound : Inputs, wire : Inputs, decoded : Numbers,
            fragment : Numbers, gate : Gates, writes : Nat, sends : Nat]
  BY DEF Slots
<1>6. SameOutput(s, Raise(s, f)) /\ SameOutput(s, Clear(s, f))
  BY <1>4, <1>5 DEF SameOutput, Has
<1>7. QED
  BY <1>3, <1>6

\* SameOutput is transitive.
LEMMA SameOutputTrans ==
    ASSUME NEW r, NEW s, NEW t, SameOutput(r, s), SameOutput(s, t)
    PROVE  SameOutput(r, t)
BY DEF SameOutput

-----------------------------------------------------------------------------
(* Writing.                                                                *)

\* comm_buffered_write_raw_comm either drops the unit, when the queue is full,
\* or queues it behind everything else.
LEMMA RawWriteEffect ==
    ASSUME NEW h \in Outputs, NEW s \in Slots, NEW u \in OutUnits
    PROVE  LET t == RawWrite(s, u) IN
           /\ t \in Slots /\ t.live = s.live /\ t.ws = s.ws
           /\ \A f \in {"ENABLE_WEBSOCKET", "TLS_ESTABLISHED"} : Has(t, f) <=> Has(s, f)
           /\ \/ t.out = s.out /\ Len(s.out) = OutCap
              \/ /\ Extends(All(h, s), All(h, t))
                 /\ Len(All(h, t)) = Len(All(h, s)) + 1
                 /\ All(h, t)[Len(All(h, s)) + 1] = u
<1> DEFINE t == RawWrite(s, u)
<1>1. s.out \in Outputs /\ Len(s.out) \in Nat /\ Len(s.out) <= OutCap
  BY DEF Slots, Outputs
<1>2. OutCap \in Nat
  BY WebSocketAssumption
<1>3. CASE Len(s.out) >= OutCap
  <2>1. t = s /\ Len(s.out) = OutCap
    BY <1>1, <1>2, <1>3 DEF RawWrite
  <2> HIDE DEF t
  <2>2. QED
    BY <2>1 DEF t
<1>4. CASE ~(Len(s.out) >= OutCap)
  <2>1. PICK o : o = Append(s.out, u)
    OBVIOUS
  <2>2. o \in Outputs /\ Len(o) = Len(s.out) + 1
    BY <1>1, <2>1 DEF Outputs
  <2>3. Len(o) <= OutCap
    BY <1>1, <1>2, <1>4, <2>2
  <2> DEFINE w == [s EXCEPT !.out = o]
  <2>4. w \in Slots
    BY <2>2, <2>3, SetField
  <2>5. /\ w.out = o /\ w.live = s.live /\ w.ws = s.ws /\ w.flags = s.flags
    BY DEF Slots
  <2>6. t = Raise(w, "BUFFERED_WRITE")
    BY <1>4, <2>1 DEF RawWrite
  <2> HIDE DEF w, t
  <2>7. "BUFFERED_WRITE" \in Flags \ {"ENABLE_WEBSOCKET", "TLS_ESTABLISHED"}
    BY DEF Flags
  <2>8. t \in Slots /\ SameOutput(w, t)
    BY <2>4, <2>6, <2>7, OtherFlags
  <2>9. t.out = o
    BY <2>5, <2>8 DEF SameOutput
  <2>10. /\ h \o s.out \in Outputs /\ h \o o \in Outputs
         /\ Len(h \o o) = Len(h \o s.out) + 1
         /\ (h \o o)[Len(h \o s.out) + 1] = u
         /\ \A i \in 1 .. Len(h \o s.out) : (h \o o)[i] = (h \o s.out)[i]
    BY <1>1, <2>1, ConcatAppend DEF Outputs
  <2>11. Len(h \o s.out) \in Nat
    BY <2>10 DEF Outputs
  <2>12. Extends(All(h, s), All(h, t))
    BY <2>9, <2>10, <2>11 DEF Extends, All
  <2>13. QED
    BY <2>5, <2>8, <2>9, <2>10, <2>12 DEF SameOutput, All, t, Has
<1>5. QED
  BY <1>3, <1>4

\* A slot in use that keeps the protocol.
Open(h, b, tls, s) == SlotOK(h, b, tls, s) /\ s.live

\* A write that is neither a Close nor an answer in HTTP keeps the protocol: a
\* frame once the 101 is queued, raw output once the upgrade was refused.
LEMMA RawWriteOK ==
    ASSUME NEW h \in Outputs, NEW b \in BOOLEAN, NEW tls \in BOOLEAN, NEW s,
           Open(h, b, tls, s), NEW u \in OutUnits,
           u.op \notin {"101", "error", "close", "reply"},
           Ready(s) \/ (u.op = "raw" /\ ~Has(s, "ENABLE_WEBSOCKET"))
    PROVE  Open(h, b, tls, RawWrite(s, u)) /\ RawWrite(s, u).ws = s.ws
<1> DEFINE t == RawWrite(s, u)
           p == All(h, s)
           q == All(h, t)
<1>1. s \in Slots /\ Protocol(p, b, tls, s) /\ s.live
  BY DEF Open, SlotOK
<1>2. /\ t \in Slots /\ t.live = s.live /\ t.ws = s.ws
      /\ \A f \in {"ENABLE_WEBSOCKET", "TLS_ESTABLISHED"} : Has(t, f) <=> Has(s, f)
      /\ \/ t.out = s.out
         \/ Extends(p, q) /\ Len(q) = Len(p) + 1 /\ q[Len(p) + 1] = u
  <2>1. s \in Slots
    BY <1>1
  <2>2. QED
    BY <2>1, RawWriteEffect
<1> HIDE DEF t
<1>3. CASE t.out = s.out
  BY <1>1, <1>2, <1>3, SameOutputOK DEF SameOutput, t, Open
<1>4. CASE Extends(p, q) /\ Len(q) = Len(p) + 1 /\ q[Len(p) + 1] = u
  <2> HIDE DEF p, q
  <2>1. /\ OneClose(p) /\ ~IsClose(u) => OneClose(q)
        /\ NoClose(p) /\ ~IsClose(u) => NoClose(q)
        /\ Answered(p) /\ Len(p) # 0 /\ u.op \notin {"101", "error"}
              /\ (IsFrame(u) => p[1].op = "101") => Answered(q)
        /\ Len(p) # 0 => q[1] = p[1]
    BY <1>4, Queued
  <2>2. ~IsClose(u) /\ Len(p) \in Nat
    BY <1>4 DEF IsClose, Extends, Outputs
  <2>3. OneClose(q) /\ (~CloseBegun(t) => NoClose(q))
    BY <1>1, <1>2, <2>1, <2>2 DEF Protocol, CloseBegun
  <2>4. ASSUME ~b PROVE Answered(q) /\ Linked(q, tls, t)
    <3>1. Linked(p, tls, s) /\ Answered(p)
      BY <1>1, <2>4 DEF Protocol
    <3>2. Len(p) # 0 /\ (IsFrame(u) => p[1].op = "101")
      BY <3>1 DEF Linked, Ready, IsFrame
    <3>3. Answered(q) /\ q[1] = p[1]
      BY <2>1, <3>1, <3>2
    <3>4. Len(q) # 0
      BY <1>4, <2>2
    <3>5. ~(s.ws = "handshake" /\ Has(s, "ENABLE_WEBSOCKET"))
      BY DEF Ready
    <3>6. QED
      BY <1>2, <3>1, <3>2, <3>3, <3>4, <3>5 DEF Linked, Ready
  <2>5. Protocol(q, b, tls, t)
    BY <2>3, <2>4 DEF Protocol
  <2>6. QED
    BY <1>1, <1>2, <2>5 DEF Open, SlotOK, q, t
<1>5. QED
  BY <1>2, <1>3, <1>4

\* comm_buffered_write keeps the protocol, whenever the application writes.
LEMMA WriteOK ==
    ASSUME NEW h \in Outputs, NEW b \in BOOLEAN, NEW tls \in BOOLEAN, NEW s,
           Open(h, b, tls, s), s.writes < MaxWrites
    PROVE  Open(h, b, tls, Write(s)) /\ Write(s).ws = s.ws
<1> DEFINE n == s.writes + 1
           w == [s EXCEPT !.writes = n]
<1>1. s \in Slots /\ s.live /\ s.writes \in Nat /\ MaxWrites \in Nat
  BY WebSocketAssumption DEF Open, SlotOK, Slots
<1>2. n \in Nat /\ n <= MaxWrites
  BY <1>1
<1>3. w \in Slots
  BY <1>1, <1>2, SetField
<1>4. SameOutput(s, w) /\ w.writes = n /\ w.barrier = s.barrier /\ w.live
  BY <1>1 DEF Slots, SameOutput, Has
<1>5. /\ Write(s) =
          CASE s.ws = "close_sent" -> w
            [] Has(s, "ENABLE_WEBSOCKET") /\ ~Ready(s) -> AppendBarrier(w, Frame("data", w.writes))
            [] Ready(s) /\ s.ws # "close_sent" -> RawWrite(w, Frame("data", w.writes))
            [] OTHER -> RawWrite(w, Frame("raw", w.writes))
  BY DEF Write
<1> HIDE DEF w, n
<1>6. Open(h, b, tls, w)
  BY <1>3, <1>4, SameOutputOK DEF Open
<1>7. /\ Ready(w) <=> Ready(s)
      /\ Has(w, "ENABLE_WEBSOCKET") <=> Has(s, "ENABLE_WEBSOCKET")
      /\ w.ws = s.ws
  BY <1>4 DEF SameOutput, Ready
<1>8. Frame("data", n) \in OutUnits /\ Frame("raw", n) \in OutUnits /\ Frame("data", n) \in DataUnits
      /\ Frame("data", n).op = "data" /\ Frame("raw", n).op = "raw"
  BY <1>2 DEF Frame, OutUnits, OutOps, DataUnits
<1>9. CASE s.ws = "close_sent"
  <2>1. Write(s) = w
    BY <1>5, <1>9 DEF Ready
  <2>2. QED
    BY <1>6, <1>7, <2>1
<1>10. CASE Has(s, "ENABLE_WEBSOCKET") /\ ~Ready(s)
  <2>1. Write(s) = AppendBarrier(w, Frame("data", n))
    BY <1>4, <1>5, <1>10 DEF Ready
  <2>2. PICK a : a = Append(w.barrier, Frame("data", n))
    OBVIOUS
  <2>3. w.barrier \in Barriers /\ OutCap \in Nat
    BY <1>3, WebSocketAssumption DEF Slots
  <2>4. a \in Barriers /\ Len(a) = Len(w.barrier) + 1 /\ Len(w.barrier) \in Nat
    BY <1>8, <2>2, <2>3 DEF Barriers
  <2>5. CASE Len(w.barrier) >= OutCap
    <3>1. Write(s) = w
      BY <2>1, <2>5 DEF AppendBarrier
    <3>2. QED
      BY <1>6, <1>7, <3>1
  <2>6. CASE ~(Len(w.barrier) >= OutCap)
    <3>1. Write(s) = [w EXCEPT !.barrier = a]
      BY <2>1, <2>2, <2>6 DEF AppendBarrier
    <3>2. Len(a) <= OutCap
      BY <2>3, <2>4, <2>6
    <3>3. Write(s) \in Slots
      BY <1>3, <2>4, <3>1, <3>2, SetField
    <3>4. SameOutput(w, Write(s))
      BY <1>3, <3>1 DEF Slots, SameOutput, Has
    <3>5. QED
      BY <1>6, <1>7, <3>3, <3>4, SameOutputOK DEF Open, SameOutput
  <2>7. QED
    BY <2>5, <2>6
<1>11. CASE Ready(s) /\ s.ws # "close_sent"
  <2>1. Write(s) = RawWrite(w, Frame("data", n))
    BY <1>4, <1>5, <1>11
  <2>2. QED
    BY <1>6, <1>7, <1>8, <1>11, <2>1, RawWriteOK
<1>12. CASE ~Has(s, "ENABLE_WEBSOCKET") /\ ~Ready(s)
  <2>1. Write(s) = RawWrite(w, Frame("raw", n))
    BY <1>4, <1>5, <1>12 DEF Ready
  <2>2. QED
    BY <1>6, <1>7, <1>8, <1>12, <2>1, RawWriteOK
<1>13. QED
  BY <1>9, <1>10, <1>11, <1>12

\* What an inline hook leaves.
LEMMA WrittenOK ==
    ASSUME NEW h \in Outputs, NEW b \in BOOLEAN, NEW tls \in BOOLEAN, NEW s,
           Open(h, b, tls, s), NEW t \in Written(s)
    PROVE  Open(h, b, tls, t) /\ t.ws = s.ws
<1>1. t = s \/ (s.writes < MaxWrites /\ t = Write(s))
  BY DEF Written
<1>2. QED
  BY <1>1, WriteOK

\* comm_websocket_queue_close adds a Close frame only if there is none.
LEMMA QueueCloseOK ==
    ASSUME NEW h \in Outputs, NEW b \in BOOLEAN, NEW tls \in BOOLEAN, NEW s,
           Open(h, b, tls, s), Ready(s), NEW op \in {"close", "reply"}
    PROVE  /\ Open(h, b, tls, QueueClose(s, op)) /\ CloseBegun(QueueClose(s, op))
           /\ Ready(QueueClose(s, op))
<1>1. CASE CloseBegun(s)
  <2>1. QueueClose(s, op) = s
    BY <1>1 DEF QueueClose
  <2>2. QED
    BY <1>1, <2>1
<1>2. CASE ~CloseBegun(s)
  <2> DEFINE u == Frame(op, 0)
             r == RawWrite(s, u)
             t == [r EXCEPT !.ws = "close_sent"]
             p == All(h, s)
             q == All(h, t)
  <2>1. s \in Slots /\ Protocol(p, b, tls, s) /\ s.live
    BY DEF Open, SlotOK
  <2>2. u \in OutUnits /\ u.op = op
    BY DEF Frame, OutUnits, OutOps
  <2> HIDE DEF u
  <2>3. /\ r \in Slots /\ r.live = s.live /\ r.ws = s.ws
        /\ \A f \in {"ENABLE_WEBSOCKET", "TLS_ESTABLISHED"} : Has(r, f) <=> Has(s, f)
        /\ \/ r.out = s.out
           \/ /\ Extends(p, All(h, r)) /\ Len(All(h, r)) = Len(p) + 1
              /\ All(h, r)[Len(p) + 1] = u
    BY <2>1, <2>2, RawWriteEffect
  <2>4. QueueClose(s, op) = t
    BY <1>2 DEF QueueClose, u
  <2> HIDE DEF r
  <2>5. t \in Slots
    BY <2>3, SetField DEF WsStates
  <2>6. t.out = r.out /\ t.live = r.live /\ t.flags = r.flags /\ t.ws = "close_sent"
    BY <2>3 DEF Slots
  <2> HIDE DEF t
  <2>7. q = p \/ (Extends(p, q) /\ Len(q) = Len(p) + 1 /\ q[Len(p) + 1] = u)
    BY <2>3, <2>6 DEF All
  <2>8. Ready(t) /\ CloseBegun(t)
    BY <2>6 DEF Ready, CloseBegun
  <2> HIDE DEF p, q
  <2>9. NoClose(p)
    BY <1>2, <2>1 DEF Protocol
  <2>10. OneClose(q)
    BY <2>1, <2>7, <2>9, Queued DEF Protocol
  <2>11. ASSUME ~b PROVE Answered(q) /\ Linked(q, tls, t)
    <3>1. Linked(p, tls, s) /\ Answered(p)
      BY <2>1, <2>11 DEF Protocol
    <3>2. Len(p) # 0 /\ p[1].op = "101"
      BY <3>1 DEF Linked
    <3>3. Answered(q) /\ Len(q) # 0 /\ q[1].op = "101"
      <4>1. CASE q = p
        BY <3>1, <3>2, <4>1
      <4>2. CASE Extends(p, q) /\ Len(q) = Len(p) + 1 /\ q[Len(p) + 1] = u
        <5>1. Len(p) \in Nat
          BY <4>2 DEF Extends, Outputs
        <5>2. Answered(q) /\ q[1] = p[1]
          BY <2>2, <3>1, <3>2, <4>2, Queued
        <5>3. QED
          BY <3>2, <4>2, <5>1, <5>2
      <4>3. QED
        BY <2>7, <4>1, <4>2
    <3>4. tls => Has(t, "TLS_ESTABLISHED")
      BY <2>3, <2>6, <3>1 DEF Linked, Ready, Has
    <3>5. QED
      BY <2>6, <2>8, <3>3, <3>4 DEF Linked, Ready
  <2>12. Protocol(q, b, tls, t)
    BY <2>8, <2>10, <2>11 DEF Protocol
  <2>13. QED
    BY <2>1, <2>3, <2>4, <2>5, <2>6, <2>8, <2>12 DEF Open, SlotOK, q
<1>3. QED
  BY <1>1, <1>2

-----------------------------------------------------------------------------
(* comm_close.                                                             *)

\* Without its queue a slot has been sent a beginning of what it had.
LEMMA Emptied ==
    ASSUME NEW h \in Outputs, NEW s \in Slots, NEW t, t.out = <<>>
    PROVE  Extends(All(h, t), All(h, s)) /\ All(h, t) = h
<1>1. s.out \in Outputs
  BY DEF Slots
<1>2. h \o <<>> = h
  BY ConcatEmptySeq DEF Outputs
<1>3. PICK o \in Outputs : o = s.out
  BY <1>1
<1>4. /\ h \o o \in Seq(OutUnits) /\ Len(h \o o) = Len(h) + Len(o)
      /\ \A i \in 1 .. Len(h) + Len(o) : (h \o o)[i] = IF i <= Len(h) THEN h[i] ELSE o[i - Len(h)]
  BY ConcatProperties DEF Outputs
<1>5. Len(h) \in Nat /\ Len(o) \in Nat
  BY DEF Outputs
<1>6. Len(h) <= Len(h \o o) /\ \A i \in 1 .. Len(h) : (h \o o)[i] = h[i]
  BY <1>4, <1>5
<1>7. QED
  BY <1>2, <1>3, <1>4, <1>6 DEF Extends, All, Outputs

\* Dropping queued output keeps the protocol, if there was none or the slot is
\* given up or its connection broken.
LEMMA DropOK ==
    ASSUME NEW h \in Outputs, NEW b \in BOOLEAN, NEW tls \in BOOLEAN, NEW s,
           SlotOK(h, b, tls, s), NEW t \in Slots, t.out = <<>>, t.ws = s.ws,
           ~b /\ t.live => /\ s.live /\ Len(All(h, s)) = 0
                           /\ \A f \in {"ENABLE_WEBSOCKET", "TLS_ESTABLISHED"} :
                                 Has(t, f) <=> Has(s, f)
    PROVE  SlotOK(h, b, tls, t)
<1> DEFINE p == All(h, t)
           q == All(h, s)
<1>1. s \in Slots /\ Protocol(q, b, tls, s)
  BY DEF SlotOK
<1>2. Extends(p, q)
  BY <1>1, Emptied
<1> HIDE DEF p, q
<1>3. OneClose(p) /\ (~CloseBegun(t) => NoClose(p)) /\ (~b => Answered(p))
  BY <1>1, <1>2, Beginning DEF Protocol, CloseBegun
<1>4. ASSUME ~b, t.live PROVE Linked(p, tls, t)
  <2>1. Linked(q, tls, s) /\ Len(q) = 0
    BY <1>1, <1>4 DEF Protocol, q
  <2>2. Len(p) = 0
    BY <1>2, <2>1 DEF Extends, Outputs
  <2>3. QED
    BY <1>4, <2>1, <2>2 DEF Linked, Ready
<1>5. QED
  BY <1>3, <1>4 DEF SlotOK, Protocol, p

\* comm_free_outbound_buffers empties the queue and the barrier and nothing else.
LEMMA FreeOutboundFields ==
    ASSUME NEW s \in Slots
    PROVE  LET t == FreeOutbound(s) IN
           /\ t \in Slots /\ t.out = <<>> /\ t.barrier = <<>> /\ t.ws = s.ws
           /\ t.live = s.live /\ t.flags = s.flags
<1>1. <<>> \in Outputs /\ <<>> \in Barriers /\ Len(<<>>) <= OutCap
  BY WebSocketAssumption DEF Outputs, Barriers
<1>2. s \in [live : BOOLEAN, flags : FlagSets, ws : WsStates, out : Outputs,
            barrier : Barriers, inbound : Inputs, wire : Inputs, decoded : Numbers,
            fragment : Numbers, gate : Gates, writes : Nat, sends : Nat]
  BY DEF Slots
<1> DEFINE o == [s EXCEPT !.out = <<>>]
<1>3. o \in Slots
  BY <1>1, SetField
<1>4. FreeOutbound(s) = [o EXCEPT !.barrier = <<>>]
  BY <1>2 DEF FreeOutbound
<1>5. o.out = <<>> /\ o.ws = s.ws /\ o.live = s.live /\ o.flags = s.flags
  BY <1>2
<1> HIDE DEF o
<1>6. FreeOutbound(s) \in Slots
  BY <1>1, <1>3, <1>4, SetField
<1>7. QED
  BY <1>3, <1>4, <1>5, <1>6 DEF Slots

\* The slot as comm_close leaves it when nothing keeps it any more.
Removed(d) ==
    [FreeOutbound(d) EXCEPT !.live = FALSE, !.inbound = <<>>, !.wire = <<>>,
                            !.decoded = <<>>, !.fragment = <<>>, !.flags = {}]

\* A removed slot is a slot with nothing queued.
LEMMA RemovedFields ==
    ASSUME NEW d \in Slots
    PROVE  /\ Removed(d) \in Slots /\ Removed(d).out = <<>> /\ Removed(d).ws = d.ws
           /\ ~Removed(d).live
<1>1. PICK f \in Slots : f = FreeOutbound(d) /\ f.out = <<>> /\ f.ws = d.ws
  BY FreeOutboundFields
<1>2. Removed(d) = [f EXCEPT !.live = FALSE, !.inbound = <<>>, !.wire = <<>>,
                             !.decoded = <<>>, !.fragment = <<>>, !.flags = {}]
  BY <1>1 DEF Removed
<1>3. <<>> \in Inputs /\ <<>> \in Numbers /\ {} \in FlagSets
  BY DEF Inputs, Numbers, FlagSets
<1>4. f \in [live : BOOLEAN, flags : FlagSets, ws : WsStates, out : Outputs,
            barrier : Barriers, inbound : Inputs, wire : Inputs, decoded : Numbers,
            fragment : Numbers, gate : Gates, writes : Nat, sends : Nat]
      /\ Len(f.out) <= OutCap /\ Len(f.barrier) <= OutCap
      /\ Len(f.gate) <= Backlog + 1 /\ f.writes <= MaxWrites /\ f.sends <= MaxSends
  BY DEF Slots
<1>5. Removed(d) \in Slots
  BY <1>2, <1>3, <1>4 DEF Slots
<1>6. QED
  BY <1>1, <1>2, <1>4, <1>5

\* The drain, the Close handshake and the removal.
LEMMA TeardownOK ==
    ASSUME NEW h \in Outputs, NEW b \in BOOLEAN, session.tls \in BOOLEAN, NEW s,
           Open(h, b, session.tls, s)
    PROVE  SlotOK(h, b, session.tls, Teardown(s)) /\ (Ready(s) => Ready(Teardown(s)))
<1> DEFINE tls == session.tls
           c == Clear(FreeOutbound(s), "BUFFERED_WRITE")
           drop == Has(s, "BUFFERED_WRITE") /\ tls /\ ~Has(s, "TLS_ESTABLISHED")
           d == IF drop THEN c ELSE s
<1>1. s \in Slots /\ Protocol(All(h, s), b, tls, s) /\ s.live /\ SlotOK(h, b, tls, s)
  BY DEF Open, SlotOK
<1>2. ASSUME drop PROVE Open(h, b, tls, c) /\ c.ws = s.ws
  <2>1. PICK f \in Slots : /\ f = FreeOutbound(s) /\ f.out = <<>> /\ f.ws = s.ws
                           /\ f.live = s.live /\ f.flags = s.flags
    BY <1>1, FreeOutboundFields
  <2>2. c \in Slots /\ SameOutput(f, c)
    BY <2>1, OtherFlags DEF Flags
  <2> HIDE DEF c
  <2>3. c.out = <<>> /\ c.ws = s.ws /\ c.live = s.live
        /\ \A g \in {"ENABLE_WEBSOCKET", "TLS_ESTABLISHED"} : Has(c, g) <=> Has(s, g)
    BY <2>1, <2>2 DEF SameOutput, Has
  <2>4. ~b => Len(All(h, s)) = 0
    BY <1>1, <1>2 DEF Protocol, Linked
  <2>5. SlotOK(h, b, tls, c)
    BY <1>1, <2>2, <2>3, <2>4, DropOK
  <2>6. QED
    BY <1>1, <2>3, <2>5 DEF Open
<1>3. Open(h, b, tls, d) /\ d.ws = s.ws
  BY <1>2
<1>4. Teardown(s) = IF Has(d, "AWAITING_HOOK") \/ Has(d, "DISCONNECT_PENDING") THEN s
                    ELSE IF Has(d, "BUFFERED_WRITE") \/ d.ws = "close_sent" THEN d
                    ELSE IF Ready(d) /\ ~CloseBegun(d) THEN QueueClose(d, "close")
                    ELSE Removed(d)
  BY DEF Teardown, Removed
<1> HIDE DEF d
<1>5. d \in Slots /\ SlotOK(h, b, tls, d) /\ (Ready(s) => Ready(d))
  BY <1>3 DEF Open, SlotOK, Ready
<1>6. CASE Teardown(s) = s
  BY <1>1, <1>6
<1>7. CASE Teardown(s) = d
  BY <1>5, <1>7
<1>8. CASE Teardown(s) = QueueClose(d, "close") /\ Ready(d)
  BY <1>3, <1>8, QueueCloseOK DEF Open
<1>9. CASE Teardown(s) = Removed(d)
  <2>1. Removed(d) \in Slots /\ Removed(d).out = <<>> /\ Removed(d).ws = d.ws /\ ~Removed(d).live
    BY <1>5, RemovedFields
  <2>2. SlotOK(h, b, tls, Removed(d))
    BY <1>5, <2>1, DropOK
  <2>3. QED
    BY <1>5, <1>9, <2>1, <2>2 DEF Ready
<1>10. QED
  BY <1>4, <1>6, <1>7, <1>8, <1>9

\* A hook more in the gate.
LEMMA EnqueueOK ==
    ASSUME NEW s \in Slots, GateTakes(s), NEW hook \in Hooks
    PROVE  Enqueue(s, hook) \in Slots /\ SameOutput(s, Enqueue(s, hook))
<1>1. s.gate \in Gates /\ Len(s.gate) \in Nat /\ Backlog \in Nat
  BY WebSocketAssumption DEF Slots, Gates
<1>2. PICK g : g = Append(s.gate, hook)
  OBVIOUS
<1>3. g \in Gates /\ Len(g) = Len(s.gate) + 1
  BY <1>1, <1>2 DEF Gates
<1>4. Len(g) <= Backlog + 1
  BY <1>1, <1>3 DEF GateTakes
<1>5. Enqueue(s, hook) = [s EXCEPT !.gate = g]
  BY <1>2 DEF Enqueue
<1>6. QED
  BY <1>3, <1>4, <1>5, SetField DEF Slots, SameOutput, Has

\* HOOK_DISCONNECT, inline, queued or pending.
LEMMA DispatchDisconnectOK ==
    ASSUME NEW h \in Outputs, NEW b \in BOOLEAN, session.tls \in BOOLEAN,
           strict \in BOOLEAN, NEW s, Open(h, b, session.tls, s),
           NEW t \in DispatchDisconnect(s)
    PROVE  Open(h, b, session.tls, t) /\ t.ws = s.ws
<1> DEFINE tls == session.tls
           a == Raise(s, "CLOSING")
           c == Clear(a, "DISCONNECT_PENDING")
           e == Enqueue(c, "disconnect")
           k == Clear(c, "AWAITING_HOOK")
<1>1. s \in Slots /\ s.live /\ SlotOK(h, b, tls, s)
  BY DEF Open, SlotOK
<1>2. {"CLOSING", "DISCONNECT_PENDING", "AWAITING_HOOK"} \subseteq
         Flags \ {"ENABLE_WEBSOCKET", "TLS_ESTABLISHED"}
  BY DEF Flags
<1>3. \/ strict /\ t \in Written(c)
      \/ GateTakes(s) /\ t = Raise(e, "AWAITING_HOOK")
      \/ t = Raise(k, "DISCONNECT_PENDING")
  BY DEF DispatchDisconnect
<1>4. c.gate = s.gate
  BY <1>1 DEF Slots, Raise, Clear
<1>5. a \in Slots /\ SameOutput(s, a)
  BY <1>1, <1>2, OtherFlags
<1> HIDE DEF a
<1>6. c \in Slots /\ SameOutput(a, c)
  BY <1>2, <1>5, OtherFlags
<1> HIDE DEF c
<1>7. SameOutput(s, c)
  BY <1>5, <1>6, SameOutputTrans
<1>8. ASSUME NEW x \in Slots, SameOutput(c, x) PROVE Open(h, b, tls, x) /\ x.ws = s.ws
  <2>1. SameOutput(s, x)
    BY <1>7, <1>8, SameOutputTrans
  <2>2. SlotOK(h, b, tls, x)
    BY <1>1, <2>1, SameOutputOK
  <2>3. QED
    BY <1>1, <2>1, <2>2 DEF Open, SameOutput
<1>9. SameOutput(c, c)
  BY DEF SameOutput
<1>10. CASE strict /\ t \in Written(c)
  <2>1. Open(h, b, tls, c) /\ c.ws = s.ws
    BY <1>6, <1>8, <1>9
  <2>2. Open(h, b, tls, t) /\ t.ws = c.ws
    BY <1>10, <2>1, WrittenOK
  <2>3. QED
    BY <2>1, <2>2
<1>11. CASE GateTakes(s) /\ t = Raise(e, "AWAITING_HOOK")
  <2>1. GateTakes(c) /\ "disconnect" \in Hooks
    BY <1>4, <1>11 DEF GateTakes, Hooks
  <2>2. e \in Slots /\ SameOutput(c, e)
    BY <1>6, <2>1, EnqueueOK
  <2> HIDE DEF e
  <2>3. t \in Slots /\ SameOutput(e, t)
    BY <1>2, <1>11, <2>2, OtherFlags
  <2>4. SameOutput(c, t)
    BY <2>2, <2>3, SameOutputTrans
  <2>5. QED
    BY <1>8, <2>3, <2>4
<1>12. CASE t = Raise(k, "DISCONNECT_PENDING")
  <2>1. k \in Slots /\ SameOutput(c, k)
    BY <1>2, <1>6, OtherFlags
  <2> HIDE DEF k
  <2>2. t \in Slots /\ SameOutput(k, t)
    BY <1>2, <1>12, <2>1, OtherFlags
  <2>3. SameOutput(c, t)
    BY <2>1, <2>2, SameOutputTrans
  <2>4. QED
    BY <1>8, <2>2, <2>3
<1>13. QED
  BY <1>3, <1>10, <1>11, <1>12

\* comm_close keeps the protocol, in whatever phase it is called.
LEMMA CloseOK ==
    ASSUME NEW h \in Outputs, NEW b \in BOOLEAN, session.tls \in BOOLEAN,
           strict \in BOOLEAN, NEW s, SlotOK(h, b, session.tls, s), NEW t \in Close(s)
    PROVE  SlotOK(h, b, session.tls, t) /\ (Ready(s) => Ready(t))
<1>1. s.live \in BOOLEAN
  BY DEF SlotOK, Slots
<1>2. CASE ~s.live
  <2>1. t = s
    BY <1>2 DEF Close
  <2>2. QED
    BY <2>1
<1>3. CASE s.live /\ NeedsDisconnect(s)
  <2>1. PICK d \in DispatchDisconnect(s) : t = Teardown(d)
    BY <1>3 DEF Close
  <2>2. Open(h, b, session.tls, d) /\ d.ws = s.ws
    BY <1>3, DispatchDisconnectOK DEF Open
  <2>3. SlotOK(h, b, session.tls, t) /\ (Ready(d) => Ready(t))
    BY <2>1, <2>2, TeardownOK
  <2>4. QED
    BY <2>2, <2>3 DEF Ready
<1>4. CASE s.live /\ ~NeedsDisconnect(s)
  <2>1. t = Teardown(s)
    BY <1>4 DEF Close
  <2>2. QED
    BY <1>4, <2>1, TeardownOK DEF Open
<1>5. QED
  BY <1>1, <1>2, <1>3, <1>4

\* Once frames are exchanged the peer's Close may be taken for received.
LEMMA CloseReceivedOK ==
    ASSUME NEW h, NEW b, NEW tls, NEW c, Open(h, b, tls, c), Ready(c)
    PROVE  /\ Open(h, b, tls, [c EXCEPT !.ws = "close_received"])
           /\ Ready([c EXCEPT !.ws = "close_received"])
<1> DEFINE r == [c EXCEPT !.ws = "close_received"]
<1>1. c \in Slots /\ c.live /\ Protocol(All(h, c), b, tls, c)
  BY DEF Open, SlotOK
<1>2. r \in Slots
  BY <1>1, SetField DEF WsStates
<1>3. r.out = c.out /\ r.live = c.live /\ r.flags = c.flags /\ r.ws = "close_received"
  BY <1>1 DEF Slots
<1> HIDE DEF r
<1>4. All(h, r) = All(h, c) /\ Ready(r) /\ CloseBegun(r)
  BY <1>3 DEF All, Ready, CloseBegun
<1>5. Protocol(All(h, c), b, tls, r)
  BY <1>1, <1>3, <1>4 DEF Protocol, Linked, Ready, Has
<1>6. QED
  BY <1>1, <1>2, <1>3, <1>4, <1>5 DEF Open, SlotOK, r

\* The same without a peer to wait for.
LEMMA CloseWithoutPeerOK ==
    ASSUME NEW h \in Outputs, NEW b \in BOOLEAN, session.tls \in BOOLEAN,
           strict \in BOOLEAN, NEW s, SlotOK(h, b, session.tls, s),
           NEW t \in CloseWithoutPeer(s)
    PROVE  SlotOK(h, b, session.tls, t)
<1>1. PICK c \in Close(s) :
         t \in IF c.live /\ Has(c, "CLOSING") /\ Ready(c)
               THEN Close([c EXCEPT !.ws = "close_received"]) ELSE {c}
  BY DEF CloseWithoutPeer
<1>2. SlotOK(h, b, session.tls, c)
  BY CloseOK
<1>3. CASE c.live /\ Has(c, "CLOSING") /\ Ready(c)
  <2>1. PICK r : r = [c EXCEPT !.ws = "close_received"]
    OBVIOUS
  <2>2. SlotOK(h, b, session.tls, r)
    BY <1>2, <1>3, <2>1, CloseReceivedOK DEF Open
  <2>3. t \in Close(r)
    BY <1>1, <1>3, <2>1
  <2>4. QED
    BY <2>2, <2>3, CloseOK
<1>4. CASE ~(c.live /\ Has(c, "CLOSING") /\ Ready(c))
  BY <1>1, <1>2, <1>4
<1>5. QED
  BY <1>3, <1>4

\* comm_invoke_transport_ready keeps the protocol.
LEMMA TransportReadyOK ==
    ASSUME NEW h \in Outputs, NEW b \in BOOLEAN, session.tls \in BOOLEAN,
           strict \in BOOLEAN, NEW s, Open(h, b, session.tls, s),
           NEW t \in TransportReady(s)
    PROVE  Open(h, b, session.tls, t) /\ t.ws = s.ws
<1> DEFINE tls == session.tls
           a == Raise(s, "TRANSPORT_READY")
           e == Enqueue(s, "ready")
           f == Raise(e, "TRANSPORT_READY")
<1>1. s \in Slots /\ s.live /\ SlotOK(h, b, tls, s)
  BY DEF Open, SlotOK
<1>2. {"TRANSPORT_READY", "AWAITING_HOOK"} \subseteq
         Flags \ {"ENABLE_WEBSOCKET", "TLS_ESTABLISHED"}
  BY DEF Flags
<1>3. \/ t = s
      \/ t \in Written(a)
      \/ GateTakes(s) /\ t = Raise(f, "AWAITING_HOOK")
      \/ t = Clear(s, "AWAITING_HOOK")
  BY DEF TransportReady
<1>4. ASSUME NEW x \in Slots, SameOutput(s, x) PROVE Open(h, b, tls, x) /\ x.ws = s.ws
  <2>1. SlotOK(h, b, tls, x)
    BY <1>1, <1>4, SameOutputOK
  <2>2. QED
    BY <1>1, <1>4, <2>1 DEF Open, SameOutput
<1>5. CASE t = s
  BY <1>5
<1>6. CASE t \in Written(a)
  <2>1. a \in Slots /\ SameOutput(s, a)
    BY <1>1, <1>2, OtherFlags
  <2> HIDE DEF a
  <2>2. Open(h, b, tls, a) /\ a.ws = s.ws
    BY <1>4, <2>1
  <2>3. Open(h, b, tls, t) /\ t.ws = a.ws
    BY <1>6, <2>2, WrittenOK
  <2>4. QED
    BY <2>2, <2>3
<1>7. CASE GateTakes(s) /\ t = Raise(f, "AWAITING_HOOK")
  <2>1. "ready" \in Hooks
    BY DEF Hooks
  <2>2. e \in Slots /\ SameOutput(s, e)
    BY <1>1, <1>7, <2>1, EnqueueOK
  <2> HIDE DEF e
  <2>3. f \in Slots /\ SameOutput(e, f)
    BY <1>2, <2>2, OtherFlags
  <2> HIDE DEF f
  <2>4. t \in Slots /\ SameOutput(f, t)
    BY <1>2, <1>7, <2>3, OtherFlags
  <2>5. SameOutput(s, t)
    BY <2>2, <2>3, <2>4, SameOutputTrans
  <2>6. QED
    BY <1>4, <2>4, <2>5
<1>8. CASE t = Clear(s, "AWAITING_HOOK")
  <2>1. t \in Slots /\ SameOutput(s, t)
    BY <1>1, <1>2, <1>8, OtherFlags
  <2>2. QED
    BY <1>4, <2>1
<1>9. QED
  BY <1>3, <1>5, <1>6, <1>7, <1>8

-----------------------------------------------------------------------------
(* The upgrade.                                                            *)

\* The HTTP answer is the first thing queued: t is the slot w, in which
\* nothing else was, with the answer and in the phase that belongs to it.
LEMMA AnswerOK ==
    ASSUME NEW h \in Outputs, NEW b \in BOOLEAN, NEW tls \in BOOLEAN, NEW s,
           Open(h, b, tls, s), s.ws = "handshake", Has(s, "ENABLE_WEBSOCKET"),
           tls => Has(s, "TLS_ESTABLISHED"),
           NEW w \in Slots, w.out = s.out \/ w.out = <<>>,
           NEW answer \in {"101", "error"}, NEW t \in Slots,
           t.out = RawWrite(w, Http(answer)).out, t.live,
           Has(t, "TLS_ESTABLISHED") <=> Has(s, "TLS_ESTABLISHED"),
           answer = "101" => t.ws \in {"telnet_pending", "ready"},
           answer = "error" => t.ws = "handshake" /\ ~Has(t, "ENABLE_WEBSOCKET")
    PROVE  Open(h, b, tls, t)
<1> DEFINE u == Http(answer)
           r == RawWrite(w, u)
           p == All(h, w)
           q == All(h, t)
<1>1. s \in Slots /\ s.live /\ Protocol(All(h, s), b, tls, s)
  BY DEF Open, SlotOK
<1>2. u \in OutUnits /\ u.op = answer
  BY DEF Http, OutUnits, OutOps
<1>3. ~CloseBegun(s) /\ ~CloseBegun(t)
  BY DEF CloseBegun
<1>4. NoClose(All(h, s)) /\ (~b => Len(All(h, s)) = 0 /\ Answered(All(h, s)))
  BY <1>1, <1>3 DEF Protocol, Linked
<1>5. NoClose(p) /\ (~b => Len(p) = 0 /\ Answered(p))
  <2>1. CASE w.out = s.out
    BY <1>4, <2>1 DEF All
  <2>2. CASE w.out = <<>>
    <3>1. Extends(p, All(h, s))
      BY <1>1, <2>2, Emptied
    <3>2. QED
      BY <1>4, <3>1, Beginning DEF Extends, Outputs
  <2>3. QED
    BY <2>1, <2>2
<1>6. \/ r.out = w.out /\ Len(w.out) = OutCap
      \/ /\ Extends(p, All(h, r)) /\ Len(All(h, r)) = Len(p) + 1
         /\ All(h, r)[Len(p) + 1] = u
  <2> HIDE DEF u
  <2>1. QED
    BY <1>2, RawWriteEffect
<1>7. t.out = r.out
  OBVIOUS
<1> HIDE DEF u, r
<1>8. \/ (q = p /\ Len(w.out) = OutCap)
      \/ (Extends(p, q) /\ Len(q) = Len(p) + 1 /\ q[Len(p) + 1] = u)
  BY <1>6, <1>7 DEF All
<1>9. ~IsClose(u)
  BY <1>2 DEF IsClose
<1>10. ASSUME Len(w.out) = OutCap PROVE Len(p) # 0
  <2>1. w.out \in Outputs
    BY DEF Slots
  <2>2. PICK o \in Outputs : o = w.out
    BY <2>1
  <2>3. Len(h \o o) = Len(h) + Len(o) /\ Len(h) \in Nat /\ Len(o) \in Nat
    BY ConcatProperties DEF Outputs
  <2>4. Len(o) # 0
    BY <1>10, <2>2, WebSocketAssumption
  <2>5. QED
    BY <2>2, <2>3, <2>4 DEF All
<1>11. CASE q = p /\ Len(w.out) = OutCap
  <2>1. b
    BY <1>5, <1>10, <1>11
  <2>2. NoClose(q)
    BY <1>5, <1>11
  <2> HIDE DEF p, q
  <2>3. OneClose(q)
    BY <2>2 DEF NoClose, OneClose
  <2>4. Protocol(q, b, tls, t)
    BY <2>1, <2>2, <2>3 DEF Protocol
  <2>5. QED
    BY <2>4 DEF Open, SlotOK, q
<1>12. CASE Extends(p, q) /\ Len(q) = Len(p) + 1 /\ q[Len(p) + 1] = u
  <2> HIDE DEF p, q
  <2>1. OneClose(q) /\ NoClose(q)
    BY <1>5, <1>9, <1>12, Queued
  <2>2. ASSUME ~b PROVE Answered(q) /\ Len(q) # 0 /\ q[1].op = answer
    <3>1. Len(p) = 0 /\ Answered(p)
      BY <1>5, <2>2
    <3>2. Answered(q) /\ q[1] = u
      BY <1>2, <1>12, <3>1, Queued
    <3>3. QED
      BY <1>2, <1>12, <3>1, <3>2
  <2>3. ~b => Linked(q, tls, t)
    BY <2>2 DEF Linked, Ready
  <2>4. Protocol(q, b, tls, t)
    BY <2>1, <2>2, <2>3 DEF Protocol
  <2>5. QED
    BY <2>4 DEF Open, SlotOK, q
<1>13. QED
  BY <1>8, <1>11, <1>12

\* What is left of a sequence behind its first k elements.
LEMMA RestOf ==
    ASSUME NEW S, NEW q \in Seq(S), NEW k \in Nat
    PROVE  SubSeq(q, k + 1, Len(q)) \in Seq(S)
<1>1. Len(q) \in Nat /\ \A i \in 1 .. Len(q) : q[i] \in S
  OBVIOUS
<1>2. \A i \in k + 1 .. Len(q) : q[i] \in S
  BY <1>1
<1>3. QED
  BY <1>1, <1>2, SubSeqProperties

\* comm_try_upgrade_websocket
LEMMA TryUpgradeOK ==
    ASSUME NEW h \in Outputs, NEW b \in BOOLEAN, session.tls \in BOOLEAN,
           strict \in BOOLEAN, session.request \in Requests, NEW s,
           Open(h, b, session.tls, s), session.tls => Has(s, "TLS_ESTABLISHED"),
           NEW t \in TryUpgrade(s)
    PROVE  SlotOK(h, b, session.tls, t)
<1> DEFINE tls == session.tls
           rest == SubSeq(s.inbound, 3, Len(s.inbound))
           i == [s EXCEPT !.inbound = rest]
           up == RawWrite(i, Http("101"))
           f == FreeOutbound(s)
           g == [f EXCEPT !.inbound = <<>>]
           c == Clear(g, "ENABLE_WEBSOCKET")
           no == RawWrite(c, Http("error"))
<1>1. s \in Slots /\ s.live /\ SlotOK(h, b, tls, s)
  BY DEF Open, SlotOK
<1>2. CASE ~Has(s, "ENABLE_WEBSOCKET") \/ Ready(s) \/ Len(s.inbound) < 2
  <2>1. t = s
    BY <1>2 DEF TryUpgrade
  <2>2. QED
    BY <1>1, <2>1
<1>3. CASE ~(~Has(s, "ENABLE_WEBSOCKET") \/ Ready(s) \/ Len(s.inbound) < 2)
  <2>1. s.ws = "handshake" /\ Has(s, "ENABLE_WEBSOCKET")
    BY <1>3 DEF Ready
  <2>2. \/ session.request = "bad" /\ t \in Close(no)
        \/ t = Raise([up EXCEPT !.ws = "telnet_pending"], "ENABLE_TELNET")
        \/ t = [up EXCEPT !.ws = "ready"]
    BY <1>3 DEF TryUpgrade
  <2>3. rest \in Inputs
    <3>1. s.inbound \in Inputs
      BY <1>1 DEF Slots
    <3>2. SubSeq(s.inbound, 2 + 1, Len(s.inbound)) \in Inputs
      BY <3>1, RestOf DEF Inputs
    <3>3. QED
      BY <3>2
  <2> HIDE DEF rest
  <2>4. i \in Slots
    BY <1>1, <2>3, SetField
  <2>5. i.out = s.out /\ i.live = s.live /\ i.flags = s.flags
    BY <1>1 DEF Slots
  <2> HIDE DEF i
  <2>6. Http("101") \in OutUnits /\ Http("error") \in OutUnits
    BY DEF Http, OutUnits, OutOps
  <2>7. /\ up \in Slots /\ up.live = i.live
        /\ \A e \in {"ENABLE_WEBSOCKET", "TLS_ESTABLISHED"} : Has(up, e) <=> Has(i, e)
    BY <2>4, <2>6, RawWriteEffect
  <2>8. ASSUME NEW v \in {"telnet_pending", "ready"}
        PROVE  Open(h, b, tls, [up EXCEPT !.ws = v])
    <3> DEFINE x == [up EXCEPT !.ws = v]
    <3>1. x \in Slots
      <4>1. v \in WsStates
        BY DEF WsStates
      <4> HIDE DEF up
      <4>2. QED
        BY <2>7, <4>1, SetField
    <3>2. x.out = up.out /\ x.live = up.live /\ x.flags = up.flags /\ x.ws = v
      <4> HIDE DEF up
      <4>1. QED
        BY <2>7 DEF Slots
    <3> HIDE DEF x
    <3>3. x.live /\ (Has(x, "TLS_ESTABLISHED") <=> Has(s, "TLS_ESTABLISHED"))
      <4> HIDE DEF up
      <4>1. QED
        BY <1>1, <2>5, <2>7, <3>2 DEF Has
    <3>4. x.out = RawWrite(i, Http("101")).out
      BY <3>2
    <3>5. Open(h, b, tls, x)
      BY <2>1, <2>4, <2>5, <3>1, <3>2, <3>3, <3>4, AnswerOK
    <3>6. QED
      BY <3>5 DEF x
  <2>9. CASE session.request = "bad" /\ t \in Close(no)
    <3>1. f \in Slots /\ f.out = <<>> /\ f.ws = s.ws /\ f.live = s.live /\ f.flags = s.flags
      BY <1>1, FreeOutboundFields
    <3> HIDE DEF f
    <3>2. g \in Slots
      <4>1. <<>> \in Inputs
        BY DEF Inputs
      <4>2. QED
        BY <3>1, <4>1, SetField
    <3>3. g.out = <<>> /\ g.ws = s.ws /\ g.live = s.live /\ g.flags = s.flags
      BY <3>1 DEF Slots
    <3> HIDE DEF g
    <3>4. s.flags \ {"ENABLE_WEBSOCKET"} \in FlagSets
      BY <1>1 DEF Slots, FlagSets
    <3>5. c = [g EXCEPT !.flags = s.flags \ {"ENABLE_WEBSOCKET"}]
      BY <3>3 DEF Clear
    <3>6. c \in Slots
      BY <3>2, <3>4, <3>5, SetField
    <3>7. c.out = <<>> /\ c.ws = s.ws /\ c.live = s.live /\ c.flags = s.flags \ {"ENABLE_WEBSOCKET"}
      BY <3>2, <3>3, <3>5 DEF Slots
    <3> HIDE DEF c
    <3>8. /\ no \in Slots /\ no.live = c.live /\ no.ws = c.ws
          /\ \A e \in {"ENABLE_WEBSOCKET", "TLS_ESTABLISHED"} : Has(no, e) <=> Has(c, e)
      BY <2>6, <3>6, RawWriteEffect
    <3>9. no.out = RawWrite(c, Http("error")).out
      OBVIOUS
    <3> HIDE DEF no
    <3>10. /\ no.live /\ no.ws = "handshake" /\ ~Has(no, "ENABLE_WEBSOCKET")
           /\ Has(no, "TLS_ESTABLISHED") <=> Has(s, "TLS_ESTABLISHED")
      BY <1>1, <2>1, <3>7, <3>8 DEF Has
    <3>11. Open(h, b, tls, no)
      BY <2>1, <3>6, <3>7, <3>8, <3>9, <3>10, AnswerOK
    <3>12. QED
      BY <2>9, <3>11, CloseOK DEF Open
  <2>10. CASE t = Raise([up EXCEPT !.ws = "telnet_pending"], "ENABLE_TELNET")
    <3>1. PICK x : x = [up EXCEPT !.ws = "telnet_pending"]
      OBVIOUS
    <3>2. SlotOK(h, b, tls, x) /\ x \in Slots
      BY <2>8, <3>1 DEF Open, SlotOK
    <3>3. t = Raise(x, "ENABLE_TELNET")
      BY <2>10, <3>1
    <3>4. "ENABLE_TELNET" \in Flags \ {"ENABLE_WEBSOCKET", "TLS_ESTABLISHED"}
      BY DEF Flags
    <3>5. t \in Slots /\ SameOutput(x, t)
      BY <3>2, <3>3, <3>4, OtherFlags
    <3>6. QED
      BY <3>2, <3>5, SameOutputOK
  <2>11. CASE t = [up EXCEPT !.ws = "ready"]
    <3>1. Open(h, b, tls, t)
      BY <2>8, <2>11
    <3>2. QED
      BY <3>1 DEF Open
  <2>12. QED
    BY <2>2, <2>9, <2>10, <2>11
<1>4. QED
  BY <1>2, <1>3

-----------------------------------------------------------------------------
(* Decoding.                                                               *)

Verdicts == {"more", "message", "closed", "refused"}

\* What comm_websocket_process_inbound keeps between two units: whatever the
\* peer sent, the slot keeps the protocol.
Decoders(h, b, tls) ==
    {a \in [verdict : Verdicts, s : Slots, at : Nat, used : Nat, message : Numbers] :
        Open(h, b, tls, a.s) /\ Ready(a.s)}

\* The fields of a decoder.
LEMMA DecoderFields ==
    ASSUME NEW h, NEW b, NEW tls, NEW a \in Decoders(h, b, tls)
    PROVE  /\ a.s \in Slots /\ Open(h, b, tls, a.s) /\ Ready(a.s) /\ a.message \in Numbers
           /\ a.verdict \in Verdicts /\ a.at \in Nat /\ a.used \in Nat
BY DEF Decoders

\* Changes of its fields.
LEMMA SetVerdict ==
    ASSUME NEW h, NEW b, NEW tls, NEW a \in Decoders(h, b, tls), NEW v \in Verdicts
    PROVE  [a EXCEPT !.verdict = v] \in Decoders(h, b, tls)
BY DEF Decoders

\* Counting units changes nothing the protocol is about.
LEMMA SetCounts ==
    ASSUME NEW h, NEW b, NEW tls, NEW a \in Decoders(h, b, tls), NEW n \in Nat
    PROVE  /\ [a EXCEPT !.at = n] \in Decoders(h, b, tls) /\ [a EXCEPT !.at = n].at = n
           /\ [a EXCEPT !.used = n] \in Decoders(h, b, tls)
BY DEF Decoders

\* The decoder goes on with another slot that is as it should be.
LEMMA SetSlot ==
    ASSUME NEW h, NEW b, NEW tls, NEW a \in Decoders(h, b, tls),
           NEW t, Open(h, b, tls, t), Ready(t), NEW v \in Verdicts, NEW m \in Numbers
    PROVE  /\ [a EXCEPT !.s = t] \in Decoders(h, b, tls)
           /\ [a EXCEPT !.s = t, !.verdict = v] \in Decoders(h, b, tls)
           /\ [a EXCEPT !.message = m, !.s = t, !.verdict = v] \in Decoders(h, b, tls)
<1>1. t \in Slots
  BY DEF Open, SlotOK
<1>2. QED
  BY <1>1 DEF Decoders

\* A fragment more, or none.
LEMMA SetFragment ==
    ASSUME NEW h, NEW b, NEW tls, NEW s, Open(h, b, tls, s), Ready(s), NEW q \in Numbers
    PROVE  LET t == [s EXCEPT !.fragment = q] IN
           t \in Slots /\ Open(h, b, tls, t) /\ Ready(t)
<1> DEFINE t == [s EXCEPT !.fragment = q]
<1>1. s \in Slots /\ s.live /\ SlotOK(h, b, tls, s)
  BY DEF Open, SlotOK
<1>2. t \in Slots
  BY <1>1, SetField
<1>3. SameOutput(s, t)
  BY <1>1 DEF Slots, SameOutput, Has
<1> HIDE DEF t
<1>4. Open(h, b, tls, t) /\ Ready(t)
  BY <1>1, <1>2, <1>3, SameOutputOK DEF Open, SameOutput, Ready
<1>5. QED
  BY <1>2, <1>4 DEF t

\* A complete frame.
LEMMA TakeFrameOK ==
    ASSUME NEW h \in Outputs, NEW b \in BOOLEAN, NEW tls \in BOOLEAN,
           NEW a \in Decoders(h, b, tls), NEW u \in InUnits
    PROVE  TakeFrame(a, u) \in Decoders(h, b, tls)
<1> DEFINE D == Decoders(h, b, tls)
           s == a.s
           frag == a.s.fragment
           more == Append(frag, u.id)
<1>1. s \in Slots /\ Open(h, b, tls, s) /\ Ready(s) /\ frag \in Numbers /\ u.id \in Nat
  BY DecoderFields DEF Slots, InUnits
<1>2. more \in Numbers /\ <<>> \in Numbers /\ <<u.id>> \in Numbers
  BY <1>1 DEF Numbers
<1>3. {"message", "closed", "refused"} \subseteq Verdicts
  BY DEF Verdicts
<1> DEFINE refuse == \/ u.op \in {"header", "toobig"}
                     \/ /\ u.op \notin {"close", "ping", "pong"}
                        /\ (u.op \in {"cont", "last"}) = (frag = <<>>)
                     \/ u.op = "notutf8"
<1>4. CASE refuse
  <2>1. TakeFrame(a, u) = [a EXCEPT !.verdict = "refused"]
    BY <1>4 DEF TakeFrame, Refuse
  <2>2. QED
    BY <1>3, <2>1, SetVerdict
<1>5. CASE ~refuse /\ u.op = "close"
  <2>1. PICK t : t = [QueueClose(s, "reply") EXCEPT !.ws = "close_received"]
    OBVIOUS
  <2>2. TakeFrame(a, u) = [a EXCEPT !.s = t, !.verdict = "closed"]
    BY <1>5, <2>1 DEF TakeFrame
  <2>3. PICK c : c = QueueClose(s, "reply")
    OBVIOUS
  <2>4. Open(h, b, tls, c) /\ Ready(c)
    BY <1>1, <2>3, QueueCloseOK
  <2>5. Open(h, b, tls, t) /\ Ready(t)
    BY <2>1, <2>3, <2>4, CloseReceivedOK
  <2>6. "closed" \in Verdicts /\ <<>> \in Numbers
    BY <1>2, <1>3
  <2>7. [a EXCEPT !.s = t, !.verdict = "closed"] \in D
    BY <2>5, <2>6, SetSlot
  <2>8. QED
    BY <2>2, <2>7
<1>6. CASE ~refuse /\ u.op = "ping"
  <2>1. PICK t : t = RawWrite(s, Frame("pong", 0))
    OBVIOUS
  <2>2. TakeFrame(a, u) = [a EXCEPT !.s = t]
    BY <1>6, <2>1 DEF TakeFrame
  <2>3. Frame("pong", 0) \in OutUnits /\ Frame("pong", 0).op = "pong"
    BY DEF Frame, OutUnits, OutOps
  <2>4. Open(h, b, tls, t) /\ t.ws = s.ws
    BY <1>1, <2>1, <2>3, RawWriteOK
  <2>5. Ready(t)
    BY <1>1, <2>4 DEF Ready
  <2>6. "closed" \in Verdicts /\ <<>> \in Numbers
    BY <1>2, <1>3
  <2>7. [a EXCEPT !.s = t] \in D
    BY <2>4, <2>5, <2>6, SetSlot
  <2>8. QED
    BY <2>2, <2>7
<1>7. CASE ~refuse /\ u.op = "pong"
  <2>1. TakeFrame(a, u) = a
    BY <1>7 DEF TakeFrame
  <2>2. QED
    BY <2>1
<1>8. ASSUME NEW q \in Numbers
      PROVE  [a EXCEPT !.s = [s EXCEPT !.fragment = q]] \in D
  BY <1>1, <1>2, <1>3, SetFragment, SetSlot
<1>9. ASSUME NEW m \in Numbers
      PROVE  Message(a, m) \in D
  <2>1. PICK t : t = [s EXCEPT !.fragment = <<>>]
    OBVIOUS
  <2>2. t \in Slots /\ Open(h, b, tls, t) /\ Ready(t)
    BY <1>1, <1>2, <2>1, SetFragment
  <2>3. Message(a, m) = [a EXCEPT !.message = m, !.s = t, !.verdict = "message"]
    BY <2>1 DEF Message
  <2>4. "message" \in Verdicts
    BY <1>3
  <2>5. [a EXCEPT !.message = m, !.s = t, !.verdict = "message"] \in D
    BY <2>2, <2>4, SetSlot
  <2>6. QED
    BY <2>3, <2>5
<1>10. CASE ~refuse /\ u.op = "cont"
  <2>1. TakeFrame(a, u) = [a EXCEPT !.s.fragment = more]
    BY <1>10 DEF TakeFrame
  <2>2. TakeFrame(a, u) = [a EXCEPT !.s = [s EXCEPT !.fragment = more]]
    BY <2>1
  <2>3. QED
    BY <1>2, <1>8, <2>2
<1>11. CASE ~refuse /\ u.op = "first"
  <2>1. TakeFrame(a, u) = [a EXCEPT !.s = [s EXCEPT !.fragment = <<u.id>>]]
    BY <1>11 DEF TakeFrame
  <2>2. QED
    BY <1>2, <1>8, <2>1
<1>12. CASE ~refuse /\ u.op = "last"
  <2>1. TakeFrame(a, u) = Message(a, more)
    BY <1>12 DEF TakeFrame
  <2>2. QED
    BY <1>2, <1>9, <2>1
<1>13. CASE ~refuse /\ u.op \notin {"close", "ping", "pong", "cont", "first", "last"}
  <2>1. TakeFrame(a, u) = Message(a, <<u.id>>)
    BY <1>13 DEF TakeFrame
  <2>2. QED
    BY <1>2, <1>9, <2>1
<1>14. QED
  BY <1>4, <1>5, <1>6, <1>7, <1>10, <1>11, <1>12, <1>13

\* A unit of the wire, whatever it is, leaves a slot that is as it should be.
LEMMA DecodeUnitOK ==
    ASSUME NEW h \in Outputs, NEW b \in BOOLEAN, NEW tls \in BOOLEAN,
           NEW a \in Decoders(h, b, tls), NEW u \in InUnits
    PROVE  DecodeUnit(a, u) \in Decoders(h, b, tls)
<1> DEFINE D == Decoders(h, b, tls)
<1>1. PICK k \in Nat : k = a.at + 1
  BY DecoderFields
<1>2. PICK n \in D : n = [a EXCEPT !.at = k] /\ n.at = k
  <2>1. [a EXCEPT !.at = k] \in D
    BY SetCounts
  <2>2. [a EXCEPT !.at = k].at = k
    BY SetCounts
  <2>3. QED
    BY <2>1, <2>2
<1>3. PICK m \in D : m = [n EXCEPT !.used = k]
  BY <1>2, SetCounts
<1>4. DecodeUnit(a, u) \in {a, n, TakeFrame(m, u)}
  <2>1. DecodeUnit(a, u) = IF a.verdict # "more" THEN a
                           ELSE IF u.op = "part" THEN n ELSE TakeFrame([n EXCEPT !.used = n.at], u)
    BY <1>1, <1>2 DEF DecodeUnit
  <2>2. QED
    BY <1>2, <1>3, <2>1
<1>5. TakeFrame(m, u) \in D
  BY <1>3, TakeFrameOK
<1>6. QED
  BY <1>2, <1>4, <1>5

\* The decoder before the first unit.
Fresh(s) == [verdict |-> "more", s |-> s, at |-> 0, used |-> 0, message |-> <<>>]

\* F holds what the decoder of s is after each unit of the wire.
DecodeSteps(F, s) ==
    /\ F[0] = Fresh(s) /\ F[Len(s.wire)] = ProcessInbound(s)
    /\ \A i \in 1 .. Len(s.wire) : F[i] = DecodeUnit(F[i - 1], s.wire[i])

\* comm_websocket_process_inbound, unit by unit.
LEMMA DecodeRun ==
    ASSUME NEW h \in Outputs, NEW b \in BOOLEAN, NEW tls \in BOOLEAN, NEW s,
           Open(h, b, tls, s), Ready(s)
    PROVE  \E F \in [0 .. Len(s.wire) -> Decoders(h, b, tls)] : DecodeSteps(F, s)
<1> DEFINE D == Decoders(h, b, tls)
           wire == s.wire
           N == Len(wire)
           start == [verdict |-> "more", s |-> s, at |-> 0, used |-> 0, message |-> <<>>]
           g == [x \in D \X (1 .. N) |-> DecodeUnit(x[1], wire[x[2]])]
           Body(f) == [k \in SUBSET (1 .. N) |->
                         IF k = {} THEN start
                         ELSE DecodeUnit(f[k \ {Max(k)}], wire[Max(k)])]
<1>1. wire \in Inputs /\ s \in Slots
  BY DEF Open, SlotOK, Slots
<1>2. N \in Nat /\ DOMAIN wire = 1 .. N /\ \A i \in 1 .. N : wire[i] \in InUnits
  BY <1>1 DEF Inputs
<1>3. start \in D
  BY <1>1 DEF Decoders, Verdicts, Numbers
<1>4. ProcessInbound(s) = (CHOOSE f : f = Body(f))[1 .. N]
  <2>1. ProcessInbound(s) =
          (CHOOSE iter : iter = [k \in SUBSET (DOMAIN s.wire) |->
                 IF k = {} THEN [verdict |-> "more", s |-> s, at |-> 0, used |-> 0,
                                 message |-> <<>>]
                 ELSE DecodeUnit(iter[k \ {Max(k)}], s.wire[Max(k)])])[DOMAIN s.wire]
    BY Zenon DEF ProcessInbound, FoldLeft, MapThenFoldSet
  <2>2. QED
    BY <1>2, <2>1, Zenon
<1> HIDE DEF N, start, wire, D
<1>5. g \in [D \X (1 .. N) -> D]
  <2>1. \A x \in D \X (1 .. N) : DecodeUnit(x[1], wire[x[2]]) \in D
    BY <1>2, DecodeUnitOK DEF D
  <2>2. QED
    BY <2>1, Zenon
<1>6. \A p \in D, i \in 1 .. N : g[<<p, i>>] = DecodeUnit(p, wire[i])
  OBVIOUS
<1> HIDE DEF g
<1>7. PICK f \in [SUBSET (1 .. N) -> D] : FoldOf(f, N, start, g)
  <2>1. N \in Nat
    BY <1>2
  <2> HIDE DEF Body
  <2>2. QED
    BY <1>3, <1>5, <2>1, FoldExists
<1>8. \A k \in SUBSET (1 .. N) :
         f[k] = IF k = {} THEN start ELSE DecodeUnit(f[k \ {Max(k)}], wire[Max(k)])
  <2>1. ASSUME NEW k \in SUBSET (1 .. N), k # {}
        PROVE  f[k] = DecodeUnit(f[k \ {Max(k)}], wire[Max(k)])
    <3>1. Max(k) \in 1 .. N
      BY <1>2, <2>1, GreatestElement
    <3>2. f[k \ {Max(k)}] \in D
      BY <1>7
    <3>3. QED
      BY <1>6, <1>7, <2>1, <3>1, <3>2 DEF FoldOf
  <2>2. QED
    BY <1>7, <2>1 DEF FoldOf
<1>9. f = Body(f)
  BY <1>8, Zenon
<1>10. PICK e : e = (CHOOSE d : d = Body(d))
  OBVIOUS
<1>11. e = Body(e)
  BY <1>9, <1>10, Zenon
<1>12. \A k \in SUBSET (1 .. N) : e[k] =
           IF k = {} THEN start ELSE DecodeUnit(e[k \ {Max(k)}], wire[Max(k)])
  BY <1>11, Zenon
<1>13. ProcessInbound(s) = e[1 .. N]
  BY <1>4, <1>10
<1> HIDE DEF Body
<1>14. e[{}] = start
  BY <1>12
<1>15. ASSUME NEW k \in SUBSET (1 .. N), k # {}, e[k \ {Max(k)}] \in D
       PROVE  e[k] = g[<<e[k \ {Max(k)}], Max(k)>>]
  <2>1. Max(k) \in 1 .. N
    BY <1>2, <1>15, GreatestElement
  <2>2. QED
    BY <1>6, <1>12, <1>15, <2>1
<1>16. PICK F \in [0 .. N -> D] :
          RunOf(F, N, start, g, e)
  <2>1. N \in Nat
    BY <1>2
  <2>2. FoldIn(e, N, D, start, g)
    BY <1>14, <1>15 DEF FoldIn
  <2>3. QED
    BY <1>3, <1>5, <2>1, <2>2, FoldRun
<1>17. ASSUME NEW i \in 1 .. N PROVE F[i] = DecodeUnit(F[i - 1], wire[i])
  <2>1. i - 1 \in 0 .. N
    BY <1>2
  <2>2. F[i - 1] \in D
    BY <2>1
  <2> QED
    BY <1>6, <1>16, <2>2 DEF RunOf
<1>18. F[0] = start /\ F[N] = ProcessInbound(s)
  BY <1>13, <1>16 DEF RunOf
<1> HIDE DEF g
<1>19. DecodeSteps(F, s)
  BY <1>17, <1>18 DEF DecodeSteps, Fresh, start, N, wire
<1> QED
  BY <1>19 DEF N, D, wire

\* comm_websocket_process_inbound over a wire of any length.
LEMMA ProcessInboundOK ==
    ASSUME NEW h \in Outputs, NEW b \in BOOLEAN, NEW tls \in BOOLEAN, NEW s,
           Open(h, b, tls, s), Ready(s)
    PROVE  ProcessInbound(s) \in Decoders(h, b, tls)
<1>1. PICK N \in Nat : N = Len(s.wire)
  BY DEF Open, SlotOK, Slots, Inputs
<1>2. PICK F \in [0 .. N -> Decoders(h, b, tls)] : F[N] = ProcessInbound(s)
  BY <1>1, DecodeRun DEF DecodeSteps
<1>3. N \in 0 .. N
  OBVIOUS
<1>4. QED
  BY <1>2, <1>3

-----------------------------------------------------------------------------
(* What is sent.                                                           *)

\* What was sent once q is, too.
SentAfter(h, q) == FoldLeft(Record, h, q)

\* comm_flush records what it takes from the queue one by one.
LEMMA RecordRun ==
    ASSUME NEW h \in Outputs, NEW q \in Outputs
    PROVE  \E F \in [0 .. Len(q) -> Outputs] :
              /\ F[0] = h /\ SentAfter(h, q) = F[Len(q)]
              /\ \A i \in 1 .. Len(q) : F[i] = Record(F[i - 1], q[i])
<1> DEFINE N == Len(q)
           g == [x \in Outputs \X (1 .. N) |-> Record(x[1], q[x[2]])]
           Body(f) == [k \in SUBSET (1 .. N) |->
                         IF k = {} THEN h
                         ELSE Record(f[k \ {Max(k)}], q[Max(k)])]
<1>1. N \in Nat /\ DOMAIN q = 1 .. N /\ \A i \in 1 .. N : q[i] \in OutUnits
  BY DEF Outputs
<1>2. SentAfter(h, q) = (CHOOSE f : f = Body(f))[1 .. N]
  <2>1. SentAfter(h, q) =
          (CHOOSE iter : iter = [k \in SUBSET (DOMAIN q) |->
                 IF k = {} THEN h
                 ELSE Record(iter[k \ {Max(k)}], q[Max(k)])])[DOMAIN q]
    BY Zenon DEF SentAfter, FoldLeft, MapThenFoldSet
  <2>2. QED
    BY <1>1, <2>1, Zenon
<1> HIDE DEF N
<1>3. ASSUME NEW p \in Outputs, NEW u \in OutUnits PROVE Record(p, u) \in Outputs
  BY DEF Record, Outputs
<1>4. g \in [Outputs \X (1 .. N) -> Outputs]
  <2>1. \A x \in Outputs \X (1 .. N) : Record(x[1], q[x[2]]) \in Outputs
    BY <1>1, <1>3
  <2>2. QED
    BY <2>1, Zenon
<1>5. \A p \in Outputs, i \in 1 .. N : g[<<p, i>>] = Record(p, q[i])
  OBVIOUS
<1> HIDE DEF g
<1>6. PICK f \in [SUBSET (1 .. N) -> Outputs] : FoldOf(f, N, h, g)
  <2>1. N \in Nat
    BY <1>1
  <2> HIDE DEF Body
  <2>2. QED
    BY <1>4, <2>1, FoldExists
<1>7. \A k \in SUBSET (1 .. N) :
         f[k] = IF k = {} THEN h ELSE Record(f[k \ {Max(k)}], q[Max(k)])
  <2>1. ASSUME NEW k \in SUBSET (1 .. N), k # {}
        PROVE  f[k] = Record(f[k \ {Max(k)}], q[Max(k)])
    <3>1. Max(k) \in 1 .. N
      BY <1>1, <2>1, GreatestElement
    <3>2. f[k \ {Max(k)}] \in Outputs
      BY <1>6
    <3>3. QED
      BY <1>5, <1>6, <2>1, <3>1, <3>2 DEF FoldOf
  <2>2. QED
    BY <1>6, <2>1 DEF FoldOf
<1>8. f = Body(f)
  BY <1>7, Zenon
<1>9. PICK e : e = (CHOOSE d : d = Body(d))
  OBVIOUS
<1>10. e = Body(e)
  BY <1>8, <1>9, Zenon
<1>11. \A k \in SUBSET (1 .. N) : e[k] =
           IF k = {} THEN h ELSE Record(e[k \ {Max(k)}], q[Max(k)])
  BY <1>10, Zenon
<1>12. SentAfter(h, q) = e[1 .. N]
  BY <1>2, <1>9
<1> HIDE DEF Body
<1>13. e[{}] = h
  BY <1>11
<1>14. ASSUME NEW k \in SUBSET (1 .. N), k # {}, e[k \ {Max(k)}] \in Outputs
       PROVE  e[k] = g[<<e[k \ {Max(k)}], Max(k)>>]
  <2>1. Max(k) \in 1 .. N
    BY <1>1, <1>14, GreatestElement
  <2>2. QED
    BY <1>5, <1>11, <1>14, <2>1
<1>15. PICK F \in [0 .. N -> Outputs] :
          RunOf(F, N, h, g, e)
  <2>1. N \in Nat
    BY <1>1
  <2>2. FoldIn(e, N, Outputs, h, g)
    BY <1>13, <1>14 DEF FoldIn
  <2>3. QED
    BY <1>4, <2>1, <2>2, FoldRun
<1>16. ASSUME NEW i \in 1 .. N PROVE F[i] = Record(F[i - 1], q[i])
  <2>1. i - 1 \in 0 .. N
    BY <1>1
  <2>2. F[i - 1] \in Outputs
    BY <1>15, <2>1
  <2>3. QED
    BY <1>5, <1>15, <2>2 DEF RunOf
<1>17. QED
  BY <1>12, <1>15, <1>16 DEF N, RunOf

\* All output while o is being flushed and its first n units are gone.
Rest(f, o, n) == f \o SubSeq(o, n + 1, Len(o))

\* Its elements.
LEMMA RestElements ==
    ASSUME NEW f \in Outputs, NEW o \in Outputs, NEW n \in 0 .. Len(o)
    PROVE  /\ Rest(f, o, n) \in Outputs /\ Len(Rest(f, o, n)) = Len(f) + (Len(o) - n)
           /\ \A k \in 1 .. Len(f) : Rest(f, o, n)[k] = f[k]
           /\ \A k \in 1 .. Len(o) - n : Rest(f, o, n)[Len(f) + k] = o[n + k]
<1>1. PICK l \in Nat : l = Len(o)
  BY DEF Outputs
<1>2. PICK m \in Nat : m = Len(f)
  BY DEF Outputs
<1>3. n \in Nat /\ n <= l
  BY <1>1
<1>4. \A i \in n + 1 .. l : o[i] \in OutUnits
  <2>1. \A i \in 1 .. l : o[i] \in OutUnits
    BY <1>1 DEF Outputs
  <2>2. QED
    BY <1>3, <2>1
<1>5. n + 1 \in Int /\ l \in Int
  BY <1>3
<1>6. /\ SubSeq(o, n + 1, l) \in Seq(OutUnits)
      /\ Len(SubSeq(o, n + 1, l)) = IF n + 1 <= l THEN l - (n + 1) + 1 ELSE 0
      /\ \A i \in 1 .. l - (n + 1) + 1 : SubSeq(o, n + 1, l)[i] = o[(n + 1) + i - 1]
  BY <1>4, <1>5, SubSeqProperties
<1> DEFINE sub == SubSeq(o, n + 1, l)
<1>7. sub \in Outputs /\ Len(sub) = l - n /\ \A i \in 1 .. l - n : sub[i] = o[n + i]
  <2>1. l - (n + 1) + 1 = l - n /\ (n + 1 <= l \/ n = l)
    BY <1>3
  <2>2. ASSUME NEW i \in 1 .. l - n PROVE sub[i] = o[n + i]
    <3>1. (n + 1) + i - 1 = n + i /\ i \in 1 .. l - (n + 1) + 1
      BY <1>3
    <3>2. sub[i] = o[(n + 1) + i - 1]
      BY <1>6, <3>1
    <3>3. QED
      BY <3>1, <3>2
  <2>3. sub \in Seq(OutUnits) /\ Len(sub) = IF n + 1 <= l THEN l - (n + 1) + 1 ELSE 0
    BY <1>6
  <2> HIDE DEF sub
  <2>4. Len(sub) = l - n
    BY <1>3, <2>1, <2>3
  <2>5. QED
    BY <2>2, <2>3, <2>4 DEF Outputs
<1> HIDE DEF sub
<1>8. PICK r \in Outputs : /\ r = sub /\ Len(r) = l - n
                            /\ \A i \in 1 .. l - n : r[i] = o[n + i]
  BY <1>7
<1>9. Rest(f, o, n) = f \o r
  BY <1>1, <1>8 DEF Rest, sub
<1>10. /\ f \o r \in Outputs /\ Len(f \o r) = m + (l - n)
      /\ \A i \in 1 .. m + (l - n) : (f \o r)[i] = IF i <= m THEN f[i] ELSE r[i - m]
  <2>1. /\ f \o r \in Seq(OutUnits) /\ Len(f \o r) = Len(f) + Len(r)
        /\ \A i \in 1 .. Len(f) + Len(r) :
              (f \o r)[i] = IF i <= Len(f) THEN f[i] ELSE r[i - Len(f)]
    BY ConcatProperties DEF Outputs
  <2>2. Len(f) = m /\ Len(r) = l - n
    BY <1>2, <1>8
  <2>3. QED
    BY <2>1, <2>2 DEF Outputs
<1>11. ASSUME NEW k \in 1 .. m PROVE (f \o r)[k] = f[k]
  <2>1. k \in 1 .. m + (l - n) /\ k <= m
    BY <1>3
  <2>2. QED
    BY <1>10, <2>1
<1>12. ASSUME NEW k \in 1 .. l - n PROVE (f \o r)[m + k] = o[n + k]
  <2>1. m + k \in 1 .. m + (l - n) /\ ~(m + k <= m) /\ (m + k) - m = k
    BY <1>3
  <2>2. QED
    BY <1>8, <1>10, <2>1
<1>13. QED
  BY <1>1, <1>2, <1>9, <1>10, <1>11, <1>12

\* What sending one unit leaves of the promises about all output: a pong is
\* dropped from the record, but it is never the first.
SameAnswer(p, q) ==
    /\ q \in Outputs /\ Answered(q)
    /\ OneClose(p) => OneClose(q)
    /\ NoClose(p) => NoClose(q)
    /\ Len(p) = 0 <=> Len(q) = 0
    /\ Len(p) # 0 => q[1] = p[1]

\* One more element moves from the queue to the history.
LEMMA FlushStep ==
    ASSUME NEW f \in Outputs, NEW o \in Outputs, NEW n \in 0 .. Len(o) - 1,
           Answered(Rest(f, o, n))
    PROVE  SameAnswer(Rest(f, o, n), Rest(Record(f, o[n + 1]), o, n + 1))
<1> DEFINE u == o[n + 1]
           p == Rest(f, o, n)
           q == Rest(Record(f, u), o, n + 1)
<1>1. PICK l \in Nat : l = Len(o)
  BY DEF Outputs
<1>2. PICK m \in Nat : m = Len(f)
  BY DEF Outputs
<1>3. n \in Nat /\ n < l /\ n \in 0 .. Len(o) /\ n + 1 \in 0 .. Len(o) /\ n + 1 \in 1 .. l
  BY <1>1
<1>4. u \in OutUnits
  BY <1>1, <1>3 DEF Outputs
<1>5. /\ p \in Outputs /\ Len(p) = m + (l - n)
      /\ \A k \in 1 .. m : p[k] = f[k]
      /\ \A k \in 1 .. l - n : p[m + k] = o[n + k]
  BY <1>1, <1>2, <1>3, RestElements
<1>6. p[m + 1] = u
  BY <1>3, <1>5
<1>7. CASE u.op # "pong"
  <2>1. PICK a : a = Append(f, u)
    OBVIOUS
  <2>2. /\ a \in Outputs /\ Len(a) = m + 1 /\ a[m + 1] = u
        /\ \A k \in 1 .. m : a[k] = f[k]
    BY <1>2, <1>4, <2>1 DEF Outputs
  <2>3. q = Rest(a, o, n + 1)
    BY <1>7, <2>1 DEF Record
  <2>4. /\ q \in Outputs /\ Len(q) = (m + 1) + (l - (n + 1))
        /\ \A k \in 1 .. m + 1 : q[k] = a[k]
        /\ \A k \in 1 .. l - (n + 1) : q[(m + 1) + k] = o[(n + 1) + k]
    <3>1. PICK i \in 0 .. Len(o) : i = n + 1
      BY <1>3
    <3>2. /\ Rest(a, o, i) \in Outputs /\ Len(Rest(a, o, i)) = Len(a) + (Len(o) - i)
          /\ \A k \in 1 .. Len(a) : Rest(a, o, i)[k] = a[k]
          /\ \A k \in 1 .. Len(o) - i : Rest(a, o, i)[Len(a) + k] = o[i + k]
      BY <2>2, RestElements
    <3>3. QED
      BY <1>1, <2>2, <2>3, <3>1, <3>2
  <2> HIDE DEF q, p, u
  <2>5. ASSUME NEW k \in 1 .. m + (l - n) PROVE q[k] = p[k]
    <3>1. CASE k \in 1 .. m
      BY <1>5, <2>2, <2>4, <3>1
    <3>2. CASE k = m + 1
      BY <1>6, <2>2, <2>4, <3>2
    <3>3. CASE k > m + 1
      <4>1. PICK j \in Nat : j = k - (m + 1)
        BY <3>3
      <4>2. j \in 1 .. l - (n + 1) /\ j + 1 \in 1 .. l - n
        BY <1>3, <3>3, <4>1
      <4>3. (m + 1) + j = k /\ m + (j + 1) = k /\ (n + 1) + j = n + (j + 1)
        BY <1>3, <4>1
      <4>4. q[(m + 1) + j] = o[(n + 1) + j] /\ p[m + (j + 1)] = o[n + (j + 1)]
        BY <1>5, <2>4, <4>2
      <4>5. QED
        BY <4>3, <4>4
    <3>4. QED
      BY <3>1, <3>2, <3>3
  <2>6. Len(q) = m + (l - n)
    BY <1>3, <2>4
  <2>7. q = p
    BY <1>5, <2>4, <2>5, <2>6, SeqEqual DEF Outputs
  <2>8. Answered(p)
    BY DEF p
  <2>9. SameAnswer(p, q)
    BY <1>5, <2>7, <2>8 DEF SameAnswer
  <2>10. QED
    BY <2>9 DEF p, q, u
<1>8. CASE u.op = "pong"
  <2>1. q = Rest(f, o, n + 1)
    BY <1>8 DEF Record
  <2>2. /\ q \in Outputs /\ Len(q) = m + (l - (n + 1))
        /\ \A k \in 1 .. m : q[k] = f[k]
        /\ \A k \in 1 .. l - (n + 1) : q[m + k] = o[(n + 1) + k]
    <3>1. PICK i \in 0 .. Len(o) : i = n + 1
      BY <1>3
    <3>2. /\ Rest(f, o, i) \in Outputs /\ Len(Rest(f, o, i)) = Len(f) + (Len(o) - i)
          /\ \A k \in 1 .. Len(f) : Rest(f, o, i)[k] = f[k]
          /\ \A k \in 1 .. Len(o) - i : Rest(f, o, i)[Len(f) + k] = o[i + k]
      BY RestElements
    <3>3. QED
      BY <1>1, <1>2, <2>1, <3>1, <3>2
  <2>3. Answered(p)
    OBVIOUS
  <2> HIDE DEF q, p, u
  <2>4. /\ DOMAIN p = 1 .. m + (l - n) /\ DOMAIN q = 1 .. m + (l - (n + 1))
        /\ (p = <<>> => Len(p) = 0) /\ (q # <<>> => Len(q) # 0)
    BY <1>5, <2>2 DEF Outputs
  <2>5. m # 0
    <3>1. ASSUME m = 0 PROVE FALSE
      <4>1. p[1] = u /\ p # <<>>
        BY <1>3, <1>5, <1>6, <2>4, <3>1
      <4>2. QED
        BY <1>8, <2>3, <4>1 DEF Answered
    <3>2. QED
      BY <3>1
  <2>6. ASSUME NEW k \in DOMAIN q
        PROVE  \E j \in DOMAIN p : q[k] = p[j] /\ j = IF k <= m THEN k ELSE k + 1
    <3>1. CASE k <= m
      <4>1. k \in 1 .. m /\ k \in DOMAIN p
        BY <1>3, <2>4, <3>1
      <4>2. q[k] = p[k]
        BY <1>5, <2>2, <4>1
      <4>3. QED
        BY <3>1, <4>1, <4>2
    <3>2. CASE ~(k <= m)
      <4>0. k \in Nat /\ k > m /\ k <= m + (l - (n + 1)) /\ n \in Nat /\ l \in Nat /\ m \in Nat
        BY <1>3, <2>4, <3>2
      <4>1. PICK j \in Nat : j = k - m
        BY <4>0
      <4>2. /\ j \in 1 .. l - (n + 1) /\ j + 1 \in 1 .. l - n
            /\ m + j = k /\ m + (j + 1) = k + 1 /\ (n + 1) + j = n + (j + 1)
        BY <4>0, <4>1
      <4>3. q[m + j] = o[(n + 1) + j] /\ p[m + (j + 1)] = o[n + (j + 1)]
        BY <1>5, <2>2, <4>2
      <4>4. q[k] = p[k + 1]
        BY <4>2, <4>3
      <4>5. k + 1 \in DOMAIN p
        BY <1>3, <2>4
      <4>6. QED
        BY <3>2, <4>4, <4>5
    <3>3. QED
      BY <3>1, <3>2
  <2> DEFINE J(k) == IF k <= m THEN k ELSE k + 1
  <2>7. \A k \in DOMAIN q : J(k) \in DOMAIN p /\ q[k] = p[J(k)]
    BY <2>6
  <2>8. \A k, i \in DOMAIN q : J(k) = J(i) => k = i
    BY <2>4
  <2>9. \A k \in DOMAIN q : J(k) = 1 => k = 1
    BY <2>4
  <2> HIDE DEF J
  <2>10. OneClose(p) => OneClose(q)
    <3>1. ASSUME OneClose(p), NEW i \in DOMAIN q, NEW k \in DOMAIN q,
                 IsClose(q[i]), IsClose(q[k])
          PROVE  i = k
      <4>1. IsClose(p[J(i)]) /\ IsClose(p[J(k)]) /\ J(i) \in DOMAIN p /\ J(k) \in DOMAIN p
        BY <2>7, <3>1
      <4>2. J(i) = J(k)
        BY <3>1, <4>1 DEF OneClose
      <4>3. QED
        BY <2>8, <4>2
    <3>2. QED
      BY <3>1 DEF OneClose
  <2>11. NoClose(p) => NoClose(q)
    BY <2>7 DEF NoClose
  <2>12. Len(p) # 0 /\ Len(q) # 0 /\ q[1] = p[1] /\ p # <<>>
    <3>1. 1 \in 1 .. m
      BY <2>5
    <3>2. Len(p) # 0 /\ Len(q) # 0
      BY <1>3, <1>5, <2>2, <2>5
    <3>3. QED
      BY <1>5, <2>2, <2>4, <3>1, <3>2
  <2>13. Answered(q)
    <3>1. p[1].op \in {"101", "error"}
      BY <2>3, <2>12 DEF Answered
    <3>2. ASSUME NEW k \in DOMAIN q
          PROVE  /\ IsFrame(q[k]) => q[1].op = "101"
                 /\ q[k].op \in {"101", "error"} => k = 1
      <4>1. J(k) \in DOMAIN p /\ q[k] = p[J(k)]
        BY <2>7
      <4>2. /\ IsFrame(p[J(k)]) => p[1].op = "101"
            /\ p[J(k)].op \in {"101", "error"} => J(k) = 1
        BY <2>3, <4>1 DEF Answered
      <4>3. QED
        BY <2>9, <2>12, <4>1, <4>2
    <3>3. QED
      BY <2>12, <3>1, <3>2 DEF Answered
  <2>14. SameAnswer(p, q)
    BY <2>2, <2>10, <2>11, <2>12, <2>13 DEF SameAnswer
  <2>15. QED
    BY <2>14 DEF p, q, u
<1>9. QED
  BY <1>7, <1>8

\* What a flush of n elements leaves: the history and the slot.
Taken(h, s, n) == SentAfter(h, SubSeq(s.out, 1, n))
Shortened(s, n) == [s EXCEPT !.out = SubSeq(s.out, n + 1, Len(s.out))]

\* comm_flush keeps the protocol, however much of the queue the socket takes.
LEMMA FlushOK ==
    ASSUME NEW h \in Outputs, NEW b \in BOOLEAN, NEW tls \in BOOLEAN, NEW s,
           SlotOK(h, b, tls, s), Answered(h), NEW n \in 0 .. Len(s.out), b => n = 0
    PROVE  /\ Taken(h, s, n) \in Outputs /\ Answered(Taken(h, s, n))
           /\ SlotOK(Taken(h, s, n), b, tls, Shortened(s, n))
           /\ Shortened(s, n).live = s.live /\ Shortened(s, n).ws = s.ws
           /\ n = Len(s.out) => Shortened(s, n).out = <<>>
<1> DEFINE g == SentAfter(h, SubSeq(s.out, 1, n))
           t == [s EXCEPT !.out = SubSeq(s.out, n + 1, Len(s.out))]
<1>0. Taken(h, s, n) = g /\ Shortened(s, n) = t
  BY DEF Taken, Shortened
<1>  SUFFICES /\ g \in Outputs /\ Answered(g) /\ SlotOK(g, b, tls, t)
              /\ t.live = s.live /\ t.ws = s.ws
              /\ n = Len(s.out) => t.out = <<>>
  BY <1>0
<1>1. s \in Slots /\ Protocol(All(h, s), b, tls, s)
  BY DEF SlotOK
<1>2. PICK o \in Outputs : o = s.out /\ Len(o) <= OutCap
  BY <1>1 DEF Slots
<1>3. PICK l \in Nat : l = Len(o)
  BY DEF Outputs
<1>4. n \in Nat /\ n <= l /\ n \in 0 .. Len(o)
  BY <1>2, <1>3
<1>5. PICK q \in Outputs : /\ q = SubSeq(o, 1, n) /\ Len(q) = n
                           /\ \A i \in 1 .. n : q[i] = o[i]
  <2> DEFINE c == SubSeq(o, 1, n)
  <2>1. o \in Seq(OutUnits)
    BY DEF Outputs
  <2>2. c \in Seq(OutUnits) /\ Len(c) = n /\ \A i \in 1 .. n : c[i] = o[i]
    BY <1>3, <1>4, <2>1
  <2>3. c = SubSeq(o, 1, n)
    OBVIOUS
  <2> HIDE DEF c
  <2>4. QED
    BY <2>2, <2>3 DEF Outputs
<1>6. PICK F \in [0 .. n -> Outputs] :
              /\ F[0] = h /\ SentAfter(h, q) = F[n]
              /\ \A i \in 1 .. n : F[i] = Record(F[i - 1], q[i])
  <2>1. \E F \in [0 .. Len(q) -> Outputs] :
              /\ F[0] = h /\ SentAfter(h, q) = F[Len(q)]
              /\ \A i \in 1 .. Len(q) : F[i] = Record(F[i - 1], q[i])
    BY RecordRun
  <2>2. QED
    BY <1>5, <2>1, Zenon
<1>7. g = F[n]
  BY <1>2, <1>5, <1>6
<1> HIDE DEF g
<1>8. g \in Outputs
  BY <1>4, <1>6, <1>7
<1> DEFINE p == Rest(h, o, 0)
<1>9. p = All(h, s)
  <2>1. 0 + 1 = 1 /\ SubSeq(o, 1, Len(o)) = o
    BY SubSeqFull DEF Outputs
  <2>2. QED
    BY <1>2, <2>1 DEF Rest, All
<1>10. p \in Outputs
  <2>1. 0 \in 0 .. Len(o)
    BY <1>3
  <2>2. QED
    BY <2>1, RestElements
<1> DEFINE r == SubSeq(o, n + 1, l)
<1>11. r \in Outputs /\ Len(r) = l - n
  BY <1>3, <1>4 DEF Outputs
<1>12. t = [s EXCEPT !.out = r]
  BY <1>2, <1>3
<1>13. Rest(g, o, n) = g \o r
  BY <1>3 DEF Rest
<1> HIDE DEF t, p, r
<1>14. Len(r) <= OutCap
  BY <1>2, <1>3, <1>4, <1>11, WebSocketAssumption
<1>15. t \in Slots
  BY <1>1, <1>11, <1>12, <1>14, SetField
<1>16. t.out = r /\ t.live = s.live /\ t.ws = s.ws /\ t.flags = s.flags
  BY <1>1, <1>12 DEF Slots
<1>17. n = l => t.out = <<>>
  <2>1. n = l => Len(r) = 0
    BY <1>4, <1>11
  <2>2. Len(r) = 0 => r = <<>>
    BY <1>11 DEF Outputs
  <2>3. QED
    BY <1>16, <2>1, <2>2
<1>18. All(g, t) = Rest(g, o, n)
  BY <1>13, <1>16 DEF All
<1>19. CASE n = 0
  <2>1. g = h
    BY <1>6, <1>7, <1>19
  <2>2. Rest(g, o, n) = p
    BY <1>19, <2>1 DEF p
  <2>3. Protocol(p, b, tls, t)
    BY <1>1, <1>9, <1>16 DEF Protocol, Linked, Ready, CloseBegun, Has
  <2>4. SlotOK(g, b, tls, t)
    BY <1>15, <1>18, <2>2, <2>3 DEF SlotOK
  <2>5. QED
    BY <1>2, <1>3, <1>8, <1>16, <1>17, <2>1, <2>4 DEF g, t
<1>20. CASE n # 0
  <2>1. ~b /\ Answered(p)
    BY <1>1, <1>9, <1>20 DEF Protocol
  <2> DEFINE T == {i \in 0 .. n : SameAnswer(p, Rest(F[i], o, i))}
  <2>2. 0 \in T
    <3>1. Rest(F[0], o, 0) = p
      BY <1>6 DEF p
    <3>2. SameAnswer(p, p)
      BY <1>10, <2>1 DEF SameAnswer
    <3>3. QED
      BY <1>4, <3>1, <3>2
  <2>3. ASSUME NEW i \in 0 .. n - 1, i \in T PROVE i + 1 \in T
    <3>1. /\ i + 1 \in 1 .. n /\ i + 1 \in 0 .. n /\ (i + 1) - 1 = i
          /\ i \in 0 .. Len(o) - 1 /\ i \in 0 .. n
      BY <1>3, <1>4
    <3>2. F[i] \in Outputs /\ F[i + 1] = Record(F[i], o[i + 1])
      BY <1>5, <1>6, <3>1
    <3>3. PICK c \in Outputs : c = F[i]
      BY <3>2
    <3>4. SameAnswer(p, Rest(c, o, i))
      BY <2>3, <3>3
    <3>5. SameAnswer(Rest(c, o, i), Rest(Record(c, o[i + 1]), o, i + 1))
      BY <3>1, <3>4, FlushStep DEF SameAnswer
    <3>6. SameAnswer(p, Rest(Record(c, o[i + 1]), o, i + 1))
      BY <3>4, <3>5 DEF SameAnswer
    <3>7. QED
      BY <3>1, <3>2, <3>3, <3>6
  <2>4. n \in T
    <3> HIDE DEF T
    <3>1. \A i \in 0 .. n : i \in T
      BY <1>4, <2>2, <2>3, SetInduction
    <3>2. n \in 0 .. n
      BY <1>4
    <3>3. QED
      BY <3>1, <3>2
  <2>5. PICK x : x = Rest(g, o, n)
    OBVIOUS
  <2>6. SameAnswer(p, x)
    BY <1>7, <2>4, <2>5
  <2>7. Protocol(p, b, tls, s)
    BY <1>1, <1>9
  <2>8. Linked(p, tls, s) /\ t.live => Linked(x, tls, t)
    BY <1>16, <2>6 DEF Linked, SameAnswer, Ready, Has
  <2>9. Protocol(x, b, tls, t)
    BY <1>16, <2>6, <2>7, <2>8 DEF Protocol, SameAnswer, CloseBegun
  <2>10. SlotOK(g, b, tls, t)
    BY <1>15, <1>18, <2>5, <2>9 DEF SlotOK
  <2>11. Extends(g, x)
    <3>1. /\ x \in Outputs /\ Len(x) = Len(g) + (Len(o) - n)
          /\ \A k \in 1 .. Len(g) : x[k] = g[k]
      BY <1>4, <1>8, <2>5, RestElements
    <3>2. Len(g) \in Nat
      BY <1>8 DEF Outputs
    <3>3. Len(g) <= Len(x)
      BY <1>3, <1>4, <3>1, <3>2
    <3>4. QED
      BY <1>8, <3>1, <3>3 DEF Extends
  <2>12. Answered(g)
    BY <2>6, <2>11, Beginning DEF SameAnswer
  <2>13. QED
    BY <1>2, <1>3, <1>8, <1>16, <1>17, <2>10, <2>12 DEF g, t
<1>21. QED
  BY <1>19, <1>20

-----------------------------------------------------------------------------
(* Changes of the slot that the protocol is not about.                     *)

\* t is as good as s.
Kept(h, b, tls, s, t) == SlotOK(h, b, tls, t) /\ SameOutput(s, t)

\* What a slot that is as good as s shares with it.
LEMMA KeptReady ==
    ASSUME NEW h, NEW b, NEW tls, NEW s, NEW t, Kept(h, b, tls, s, t)
    PROVE  /\ SlotOK(h, b, tls, t) /\ t \in Slots /\ t.ws = s.ws /\ t.live = s.live /\ t.out = s.out
           /\ Open(h, b, tls, s) => Open(h, b, tls, t)
           /\ Ready(t) <=> Ready(s)
BY DEF Kept, SlotOK, SameOutput, Open, Ready

\* Kept is transitive.
LEMMA KeptTrans ==
    ASSUME NEW h, NEW b, NEW tls, NEW r, NEW s, NEW t,
           Kept(h, b, tls, r, s), Kept(h, b, tls, s, t)
    PROVE  Kept(h, b, tls, r, t)
BY SameOutputTrans DEF Kept

\* A slot is as good as itself.
LEMMA KeptSelf ==
    ASSUME NEW h, NEW b, NEW tls, NEW s, SlotOK(h, b, tls, s)
    PROVE  Kept(h, b, tls, s, s)
BY DEF Kept, SameOutput

\* Flags.
LEMMA FlagKept ==
    ASSUME NEW h, NEW b, NEW tls, NEW s, SlotOK(h, b, tls, s),
           NEW f \in {"CLOSING", "AWAITING_HOOK", "DISCONNECT_PENDING", "BUFFERED_WRITE",
                      "TRANSPORT_READY", "DEFERRED_INBOUND", "ENABLE_TELNET"}
    PROVE  Kept(h, b, tls, s, Raise(s, f)) /\ Kept(h, b, tls, s, Clear(s, f))
<1>1. f \in Flags \ {"ENABLE_WEBSOCKET", "TLS_ESTABLISHED"} /\ s \in Slots
  BY DEF Flags, SlotOK
<1>2. /\ Raise(s, f) \in Slots /\ SameOutput(s, Raise(s, f))
      /\ Clear(s, f) \in Slots /\ SameOutput(s, Clear(s, f))
  BY <1>1, OtherFlags
<1>3. QED
  BY <1>2, SameOutputOK DEF Kept

\* The stages of the decoder.
LEMMA StageKept ==
    ASSUME NEW h, NEW b, NEW tls, NEW s, SlotOK(h, b, tls, s), NEW v \in Inputs, NEW m \in Numbers
    PROVE  /\ Kept(h, b, tls, s, [s EXCEPT !.inbound = v])
           /\ Kept(h, b, tls, s, [s EXCEPT !.wire = v])
           /\ Kept(h, b, tls, s, [s EXCEPT !.decoded = m])
<1>1. s \in Slots
  BY DEF SlotOK
<1>2. /\ [s EXCEPT !.inbound = v] \in Slots /\ [s EXCEPT !.wire = v] \in Slots
      /\ [s EXCEPT !.decoded = m] \in Slots
  BY <1>1, SetField
<1>3. /\ SameOutput(s, [s EXCEPT !.inbound = v]) /\ SameOutput(s, [s EXCEPT !.wire = v])
      /\ SameOutput(s, [s EXCEPT !.decoded = m])
  BY <1>1 DEF Slots, SameOutput, Has
<1>4. QED
  BY <1>2, <1>3, SameOutputOK DEF Kept

\* The gate.
LEMMA GateKept ==
    ASSUME NEW h, NEW b, NEW tls, NEW s, SlotOK(h, b, tls, s),
           NEW v \in Gates, Len(v) <= Backlog + 1
    PROVE  Kept(h, b, tls, s, [s EXCEPT !.gate = v])
<1>1. s \in Slots
  BY DEF SlotOK
<1>2. [s EXCEPT !.gate = v] \in Slots
  BY <1>1, SetField
<1>3. SameOutput(s, [s EXCEPT !.gate = v])
  BY <1>1 DEF Slots, SameOutput, Has
<1>4. QED
  BY <1>2, <1>3, SameOutputOK DEF Kept

\* Counting comm_add_message calls.
LEMMA SendsKept ==
    ASSUME NEW h, NEW b, NEW tls, NEW s, SlotOK(h, b, tls, s), NEW v \in Nat, v <= MaxSends
    PROVE  Kept(h, b, tls, s, [s EXCEPT !.sends = v])
<1>1. s \in Slots
  BY DEF SlotOK
<1>2. [s EXCEPT !.sends = v] \in Slots
  BY <1>1, SetField
<1>3. SameOutput(s, [s EXCEPT !.sends = v])
  BY <1>1 DEF Slots, SameOutput, Has
<1>4. QED
  BY <1>2, <1>3, SameOutputOK DEF Kept

\* A hook is queued; an idle gate takes one.
LEMMA EnqueueKept ==
    ASSUME NEW h, NEW b, NEW tls, NEW s, SlotOK(h, b, tls, s), NEW hook \in Hooks,
           GateTakes(s) \/ ~Busy(s)
    PROVE  Kept(h, b, tls, s, Enqueue(s, hook))
<1>1. s \in Slots
  BY DEF SlotOK
<1>2. GateTakes(s)
  <2>1. ~Busy(s) => Len(s.gate) = 0
    BY DEF Busy
  <2>2. QED
    BY <2>1, WebSocketAssumption DEF GateTakes
<1>3. Enqueue(s, hook) \in Slots /\ SameOutput(s, Enqueue(s, hook))
  BY <1>1, <1>2, EnqueueOK
<1>4. QED
  BY <1>3, SameOutputOK DEF Kept

\* The TLS handshake is over.
LEMMA TlsEstablished ==
    ASSUME NEW h, NEW b, NEW tls, NEW s, Open(h, b, tls, s)
    PROVE  Open(h, b, tls, Raise(s, "TLS_ESTABLISHED"))
<1> DEFINE t == Raise(s, "TLS_ESTABLISHED")
<1>1. s \in Slots /\ Protocol(All(h, s), b, tls, s) /\ s.live
  BY DEF Open, SlotOK
<1>2. s.flags \cup {"TLS_ESTABLISHED"} \in FlagSets
  BY <1>1 DEF Slots, FlagSets, Flags
<1>3. t = [s EXCEPT !.flags = s.flags \cup {"TLS_ESTABLISHED"}]
  BY DEF Raise
<1>4. t \in Slots
  BY <1>1, <1>2, <1>3, SetField
<1>5. /\ t.out = s.out /\ t.live = s.live /\ t.ws = s.ws
      /\ t.flags = s.flags \cup {"TLS_ESTABLISHED"}
  BY <1>1, <1>3 DEF Slots
<1> HIDE DEF t
<1>6. Protocol(All(h, s), b, tls, t)
  BY <1>1, <1>5 DEF Protocol, Linked, Ready, CloseBegun, Has
<1>7. All(h, t) = All(h, s)
  BY <1>5 DEF All
<1>8. QED
  BY <1>1, <1>4, <1>5, <1>6, <1>7 DEF Open, SlotOK, t

\* What the upgrade barrier held becomes the queue: data frames only, behind
\* the 101.
LEMMA BarrierOK ==
    ASSUME NEW h \in Outputs, NEW b \in BOOLEAN, NEW tls \in BOOLEAN, NEW s,
           Open(h, b, tls, s), Ready(s), s.out = <<>>
    PROVE  Open(h, b, tls, [s EXCEPT !.out = s.barrier, !.barrier = <<>>])
<1> DEFINE t == [s EXCEPT !.out = s.barrier, !.barrier = <<>>]
<1>1. s \in Slots /\ Protocol(All(h, s), b, tls, s) /\ s.live
  BY DEF Open, SlotOK
<1>2. PICK d \in Barriers : d = s.barrier /\ Len(d) <= OutCap
  BY <1>1 DEF Slots
<1>3. d \in Outputs
  <2>1. DataUnits \subseteq OutUnits
    BY DEF DataUnits, OutUnits, OutOps
  <2>2. QED
    BY <2>1, SeqMonotonic DEF Barriers, Outputs
<1>4. <<>> \in Barriers /\ Len(<<>>) <= OutCap
  BY WebSocketAssumption DEF Barriers
<1>5. PICK o : o = [s EXCEPT !.out = d]
  OBVIOUS
<1>6. o \in Slots /\ o.out = d /\ o.ws = s.ws /\ o.live = s.live /\ o.flags = s.flags
  <2>1. o \in Slots
    BY <1>1, <1>2, <1>3, <1>5, SetField
  <2>2. QED
    BY <1>1, <1>5, <2>1 DEF Slots
<1>7. t = [o EXCEPT !.barrier = <<>>]
  BY <1>1, <1>2, <1>5 DEF Slots
<1>8. t \in Slots
  BY <1>4, <1>6, <1>7, SetField
<1>9. t.out = d /\ t.ws = s.ws /\ t.live = s.live /\ t.flags = s.flags
  BY <1>6, <1>7 DEF Slots
<1> HIDE DEF t
<1>10. All(h, s) = h /\ All(h, t) = h \o d
  BY <1>1, <1>9, Emptied DEF All
<1>11. PICK q : q = h \o d
  OBVIOUS
<1>12. /\ q \in Outputs /\ Len(q) = Len(h) + Len(d)
       /\ \A i \in 1 .. Len(h) + Len(d) : q[i] = IF i <= Len(h) THEN h[i] ELSE d[i - Len(h)]
  BY <1>3, <1>11, ConcatProperties DEF Outputs
<1>13. PICK m \in Nat : m = Len(h)
  BY DEF Outputs
<1>14. PICK n \in Nat : n = Len(d)
  BY <1>3 DEF Outputs
<1>15. /\ DOMAIN h = 1 .. m /\ DOMAIN q = 1 .. m + n
       /\ (h = <<>> => m = 0) /\ (q = <<>> => m + n = 0)
  BY <1>12, <1>13, <1>14 DEF Outputs
<1>16. ASSUME NEW i \in DOMAIN q
       PROVE  (i \in DOMAIN h /\ q[i] = h[i]) \/ (q[i].op = "data" /\ i > m)
  <2>1. CASE i <= m
    BY <1>12, <1>13, <1>14, <1>15, <2>1
  <2>2. CASE ~(i <= m)
    <3>1. i - m \in 1 .. n
      BY <1>15, <2>2
    <3>2. d[i - m] \in DataUnits
      BY <1>14, <3>1 DEF Barriers
    <3>3. q[i] = d[i - m]
      BY <1>12, <1>13, <1>14, <1>15, <2>2
    <3>4. i > m
      BY <1>15, <2>2
    <3>5. QED
      BY <3>2, <3>3, <3>4 DEF DataUnits
  <2>3. QED
    BY <2>1, <2>2
<1>17. Protocol(h, b, tls, s)
  BY <1>1, <1>10
<1>18. OneClose(q) /\ (~CloseBegun(t) => NoClose(q))
  <2>1. OneClose(h) /\ (~CloseBegun(t) => NoClose(h))
    BY <1>9, <1>17 DEF Protocol, CloseBegun
  <2>2. \A i \in DOMAIN q : IsClose(q[i]) => i \in DOMAIN h /\ IsClose(h[i])
    BY <1>16 DEF IsClose
  <2>3. QED
    BY <2>1, <2>2 DEF OneClose, NoClose
<1>19. ASSUME ~b PROVE Answered(q) /\ Linked(q, tls, t)
  <2>1. Answered(h) /\ Linked(h, tls, s) /\ Len(h) # 0 /\ h[1].op = "101"
    BY <1>1, <1>17, <1>19 DEF Protocol, Linked
  <2>2. m # 0 /\ h # <<>> /\ 1 \in 1 .. m
    BY <1>13, <1>15, <2>1
  <2>3. q # <<>> /\ Len(q) # 0 /\ q[1] = h[1]
    BY <1>12, <1>13, <1>14, <1>15, <2>2
  <2>4. ASSUME NEW i \in DOMAIN q
        PROVE  q[i].op \in {"101", "error"} => i = 1
    BY <1>16, <2>1 DEF Answered
  <2>5. Answered(q)
    BY <2>1, <2>3, <2>4 DEF Answered
  <2>6. QED
    BY <1>9, <2>1, <2>3, <2>5 DEF Linked, Ready, Has
<1>20. Protocol(q, b, tls, t)
  BY <1>18, <1>19 DEF Protocol
<1>21. QED
  BY <1>1, <1>8, <1>9, <1>10, <1>11, <1>20 DEF Open, SlotOK, t

-----------------------------------------------------------------------------
(* The steps.                                                              *)

LoopPlaces == {"wait", "process", "frames", "settle", "resume", "flush", "drained", "progress"}

\* What a step that sends nothing has to show.
LEMMA StepOK ==
    ASSUME SessionInvariant, session' = session, strict' = strict, sent' = sent,
           broken' = broken, eof' \in BOOLEAN, closed' \in BOOLEAN, ioerror' \in BOOLEAN,
           pass' \in {"read", "failed", "resume"}, loop' \in LoopPlaces, unread' \in Inputs,
           SlotOK(sent, broken, session.tls, slot'),
           loop' = "drained" => slot'.live /\ slot'.out = <<>>,
           loop' = "frames" => Ready(slot')
    PROVE  SessionInvariant'
  BY DEF SessionInvariant, Ready, LoopPlaces

\* The types a step starts from.
LEMMA SessionFacts ==
    ASSUME SessionInvariant
    PROVE  /\ session.tls \in BOOLEAN /\ session.request \in Requests /\ strict \in BOOLEAN
           /\ sent \in Outputs /\ broken \in BOOLEAN /\ Answered(sent)
           /\ SlotOK(sent, broken, session.tls, slot) /\ slot \in Slots
           /\ slot.live => Open(sent, broken, session.tls, slot)
           /\ unread \in Inputs /\ eof \in BOOLEAN /\ closed \in BOOLEAN /\ ioerror \in BOOLEAN
           /\ pass \in {"read", "failed", "resume"} /\ loop \in LoopPlaces
  BY WebSocketAssumption DEF SessionInvariant, LoopPlaces, Open, SlotOK

\* A step that leaves the slot alone and does not enter the frames or the end
\* of a flush.
LEMMA SameSlotStep ==
    ASSUME SessionInvariant, session' = session, strict' = strict, sent' = sent,
           broken' = broken, eof' \in BOOLEAN, closed' \in BOOLEAN, ioerror' \in BOOLEAN,
           pass' \in {"read", "failed", "resume"}, unread' \in Inputs, slot' = slot,
           loop' = loop \/ loop' \in LoopPlaces \ {"frames", "drained"}
    PROVE  SessionInvariant'
  BY StepOK, SessionFacts DEF SessionInvariant, LoopPlaces

\* Bytes arrive and the upgrade is tried.
LEMMA RefillStep ==
    ASSUME SessionInvariant, Refill
    PROVE  SessionInvariant'
<1>1. PICK n \in 1 .. Len(unread) :
          /\ unread' = SubSeq(unread, n + 1, Len(unread))
          /\ slot' \in TryUpgrade([slot EXCEPT !.inbound = @ \o SubSeq(unread, 1, n)])
  BY DEF Refill
<1>2. SubSeq(unread, 1, n) \in Inputs /\ unread' \in Inputs
  <2>1. unread \in Seq(InUnits)
    BY SessionFacts DEF Inputs
  <2>2. n \in Nat
    BY <2>1
  <2>3. QED
    BY <1>1, <2>1, <2>2, RestOf DEF Inputs
<1>3. PICK v \in Inputs : v = slot.inbound \o SubSeq(unread, 1, n)
  <2>1. slot.inbound \in Inputs
    BY SessionFacts, SlotFields
  <2>2. PICK r \in Inputs : r = SubSeq(unread, 1, n)
    BY <1>2
  <2>3. slot.inbound \o r \in Inputs
    BY <2>1, <2>2 DEF Inputs
  <2>4. QED
    BY <2>2, <2>3
<1>4. PICK s : s = [slot EXCEPT !.inbound = v]
  OBVIOUS
<1>5. slot.live /\ Open(sent, broken, session.tls, slot) /\ (session.tls => Has(slot, "TLS_ESTABLISHED"))
  BY SessionFacts DEF Refill, MayRead, Handshaking
<1>6. Kept(sent, broken, session.tls, slot, s)
  <2>1. <<>> \in Numbers
    BY DEF Numbers
  <2>2. QED
    BY <1>4, <2>1, SessionFacts, StageKept
<1>7. Open(sent, broken, session.tls, s) /\ (session.tls => Has(s, "TLS_ESTABLISHED"))
  BY <1>5, <1>6, KeptReady DEF Kept, SameOutput
<1>8. slot' \in TryUpgrade(s)
  BY <1>1, <1>3, <1>4
<1>9. SlotOK(sent, broken, session.tls, slot')
  BY <1>7, <1>8, SessionFacts, TryUpgradeOK
<1>10. QED
  BY <1>2, <1>9, SessionFacts, StepOK DEF Refill, Process, histVars, LoopPlaces

\* The TLS handshake goes on with a record of the peer.
LEMMA HandshakeStepOK ==
    ASSUME SessionInvariant, HandshakeStep, slot.live
    PROVE  unread' \in Inputs /\ Open(sent, broken, session.tls, slot')
<1>1. unread' \in Inputs
  BY SessionFacts DEF HandshakeStep, Inputs
<1>2. Open(sent, broken, session.tls, slot)
  BY SessionFacts
<1>3. PICK r : r = Raise(slot, "TLS_ESTABLISHED")
  OBVIOUS
<1>4. Open(sent, broken, session.tls, r)
  BY <1>2, <1>3, TlsEstablished
<1>5. slot' \in TransportReady(r) \/ slot' = slot
  BY <1>3 DEF HandshakeStep
<1>6. QED
  BY <1>1, <1>2, <1>4, <1>5, SessionFacts, TransportReadyOK

\* The TLS handshake, from a read or from a flush.
LEMMA HandshakeSteps ==
    ASSUME SessionInvariant, HandshakeRead \/ FlushHandshake
    PROVE  SessionInvariant'
<1>1. CASE HandshakeRead
  <2>1. unread' \in Inputs /\ SlotOK(sent, broken, session.tls, slot')
    BY <1>1, HandshakeStepOK DEF HandshakeRead, MayRead, Open
  <2>2. QED
    BY <1>1, <2>1, SessionFacts, StepOK DEF HandshakeRead, Process, histVars, LoopPlaces
<1>2. CASE FlushHandshake
  <2>1. CASE unread = <<>> \/ Head(unread).op \notin {"hello", "finished"}
    <3>1. ioerror' = (ioerror \/ eof) /\ loop' = "progress" /\ slot' = slot /\ unread' = unread
      BY <1>2, <2>1 DEF FlushHandshake
    <3>2. ioerror' \in BOOLEAN
      BY <3>1, SessionFacts
    <3>3. QED
      BY <1>2, <3>1, <3>2, SessionFacts, SameSlotStep
      DEF FlushHandshake, passVars, histVars, LoopPlaces
  <2>2. CASE ~(unread = <<>> \/ Head(unread).op \notin {"hello", "finished"})
    <3>1. HandshakeStep /\ ioerror' = ioerror /\ loop' \in {"flush", "progress"} /\ slot.live
      BY <1>2, <2>2 DEF FlushHandshake
    <3>2. unread' \in Inputs /\ SlotOK(sent, broken, session.tls, slot')
      BY <3>1, HandshakeStepOK DEF Open
    <3>3. QED
      BY <1>2, <3>1, <3>2, SessionFacts, StepOK DEF FlushHandshake, passVars, histVars, LoopPlaces
  <2>3. QED
    BY <2>1, <2>2
<1>3. QED
  BY <1>1, <1>2

\* The steps that only move the loop or the peer.
LEMMA PlainSteps ==
    ASSUME SessionInvariant, RefillFails \/ NoRead \/ FlushRemoved \/ PeerLeaves
    PROVE  SessionInvariant'
<1>1. slot' = slot /\ session' = session /\ strict' = strict /\ sent' = sent /\ broken' = broken
  BY DEF RefillFails, NoRead, FlushRemoved, PeerLeaves, Aside, peerVars, histVars
<1>2. /\ eof' \in BOOLEAN /\ closed' \in BOOLEAN /\ ioerror' \in BOOLEAN
      /\ pass' \in {"read", "failed", "resume"} /\ unread' \in Inputs
  BY SessionFacts DEF RefillFails, NoRead, FlushRemoved, PeerLeaves, Process, Aside, peerVars,
     passVars, histVars
<1>3. loop' = loop \/ loop' \in LoopPlaces \ {"frames", "drained"}
  BY DEF RefillFails, NoRead, FlushRemoved, PeerLeaves, Process, Aside, LoopPlaces
<1>4. QED
  BY <1>1, <1>2, <1>3, SameSlotStep

\* A frame is one unit or two.
LEMMA UnitsType ==
    ASSUME NEW op \in Ops, NEW id \in Nat
    PROVE  Units(op, id) \in Inputs
<1>1. PICK p \in InUnits : p = Unit("part", id)
  BY DEF Unit, InUnits
<1>2. PICK u \in InUnits : u = Unit(op, id)
  BY DEF Unit, InUnits
<1>3. <<p, u>> \in Seq(InUnits) /\ <<u>> \in Seq(InUnits)
  OBVIOUS
<1>4. Units(op, id) = <<p, u>> \/ Units(op, id) = <<u>>
  BY <1>1, <1>2 DEF Units
<1>5. QED
  BY <1>3, <1>4 DEF Inputs

\* The peer answers a Close with its own.
LEMMA PeerAnswersStep ==
    ASSUME SessionInvariant, PeerAnswers
    PROVE  SessionInvariant'
<1>1. PICK w \in Inputs : w = Units("close", 0)
  <2>1. "close" \in Ops /\ 0 \in Nat
    BY DEF Ops
  <2>2. QED
    BY <2>1, UnitsType
<1>2. unread' \in Inputs
  <2>1. unread' = unread \o w
    BY <1>1 DEF PeerAnswers
  <2>2. QED
    BY <1>1, <2>1, SessionFacts DEF Inputs
<1>3. QED
  BY <1>2, SessionFacts, SameSlotStep DEF PeerAnswers, Aside, passVars, histVars

\* The steps that close the slot, or may.
LEMMA ClosingSteps ==
    ASSUME SessionInvariant, ErrorEvent \/ Settle \/ Progress \/ AppCloses
    PROVE  SessionInvariant'
<1>1. SlotOK(sent, broken, session.tls, slot')
  <2>1. slot' \in CloseWithoutPeer(slot) \/ slot' \in Close(slot) \/ slot' = slot
    <3>1. CASE ErrorEvent BY <3>1 DEF ErrorEvent
    <3>2. CASE Settle
      <4>1. CASE pass = "failed" BY <3>2, <4>1 DEF Settle
      <4>2. CASE pass # "failed" /\ closed BY <3>2, <4>2 DEF Settle
      <4>3. CASE pass # "failed" /\ ~closed BY <3>2, <4>3 DEF Settle
      <4>4. QED BY <4>1, <4>2, <4>3
    <3>3. CASE Progress BY <3>3 DEF Progress
    <3>4. CASE AppCloses BY <3>4 DEF AppCloses
    <3>5. QED BY <3>1, <3>2, <3>3, <3>4
  <2>2. QED
    BY <2>1, SessionFacts, CloseOK, CloseWithoutPeerOK
<1>2. loop' \in LoopPlaces \ {"frames", "drained"}
  BY DEF ErrorEvent, Settle, Progress, AppCloses, Aside, MutexFree, LoopPlaces
<1>3. /\ session' = session /\ strict' = strict /\ sent' = sent /\ broken' = broken
      /\ eof' \in BOOLEAN /\ closed' \in BOOLEAN /\ ioerror' \in BOOLEAN
      /\ pass' \in {"read", "failed", "resume"} /\ unread' \in Inputs
  BY SessionFacts DEF ErrorEvent, Settle, Progress, AppCloses, Aside, peerVars, passVars, histVars
<1>4. QED
  BY <1>1, <1>2, <1>3, StepOK DEF LoopPlaces

\* Input is put off, or its processing begins or goes on later.
LEMMA ProcessingSteps ==
    ASSUME SessionInvariant, ProcessNothing \/ ProcessBegins \/ DeliverLater \/ Resume
    PROVE  SessionInvariant'
<1>1. SlotOK(sent, broken, session.tls, slot) /\ slot \in Slots
  BY SessionFacts
<1>2. PICK c : c = Clear(slot, "DEFERRED_INBOUND")
  OBVIOUS
<1>3. Kept(sent, broken, session.tls, slot, c) /\ SlotOK(sent, broken, session.tls, c)
  BY <1>1, <1>2, FlagKept DEF Kept
<1>4. ASSUME ProcessBegins PROVE SlotOK(sent, broken, session.tls, slot') /\ Ready(slot')
  <2>1. slot.wire \in Inputs /\ slot.inbound \in Inputs /\ c.wire = slot.wire /\ c \in Slots
    BY <1>1, <1>2, <1>3 DEF Slots, Clear, Kept, SlotOK
  <2>2. PICK w \in Inputs : w = slot.wire \o slot.inbound
    <3>1. \A p, q \in Inputs : p \o q \in Inputs
      BY DEF Inputs
    <3>2. QED
      BY <2>1, <3>1
  <2>3. PICK d : d = [c EXCEPT !.wire = w]
    OBVIOUS
  <2>4. <<>> \in Inputs /\ <<>> \in Numbers
    BY DEF Inputs, Numbers
  <2>5. Kept(sent, broken, session.tls, c, d)
    BY <1>3, <2>3, <2>4, StageKept
  <2>6. slot' = [d EXCEPT !.inbound = <<>>]
    <3>1. slot' = [c EXCEPT !.wire = w, !.inbound = <<>>]
      BY <1>2, <1>4, <2>1, <2>2 DEF ProcessBegins
    <3>2. QED
      BY <2>1, <2>3, <3>1 DEF Slots
  <2>7. Kept(sent, broken, session.tls, d, slot')
    <3>1. SlotOK(sent, broken, session.tls, d)
      BY <2>5 DEF Kept
    <3>2. QED
      BY <2>4, <2>6, <3>1, StageKept
  <2>8. Kept(sent, broken, session.tls, slot, slot')
    BY <1>3, <2>5, <2>7, KeptTrans
  <2>9. QED
    BY <1>4, <2>8, KeptReady DEF ProcessBegins
<1>5. SlotOK(sent, broken, session.tls, slot') /\ (ProcessBegins => Ready(slot'))
  <2>1. SlotOK(sent, broken, session.tls, Raise(slot, "DEFERRED_INBOUND"))
    BY <1>1, FlagKept DEF Kept
  <2>2. CASE ProcessBegins BY <1>4, <2>2
  <2>3. CASE ~ProcessBegins
    <3>1. slot' = slot \/ slot' = c \/ slot' = Raise(slot, "DEFERRED_INBOUND")
      BY <1>2, <2>3 DEF ProcessNothing, DeliverLater, Resume
    <3>2. QED
      BY <1>1, <1>3, <2>1, <2>3, <3>1
  <2>4. QED BY <2>2, <2>3
<1>6. loop' \in LoopPlaces \ {"drained"} /\ (loop' = "frames" => ProcessBegins)
  BY DEF ProcessNothing, ProcessBegins, DeliverLater, Resume, Return, LoopPlaces
<1>7. /\ session' = session /\ strict' = strict /\ sent' = sent /\ broken' = broken
      /\ eof' = eof /\ closed' = closed /\ ioerror' = ioerror /\ pass' = pass
      /\ unread' = unread
  BY DEF ProcessNothing, ProcessBegins, DeliverLater, Resume, peerVars, passVars, histVars
<1>8. QED
  BY <1>5, <1>6, <1>7, SessionFacts, StepOK DEF LoopPlaces

\* A message reaches the application.
LEMMA DeliverStep ==
    ASSUME SessionInvariant, Deliver
    PROVE  SessionInvariant'
<1>1. /\ Open(sent, broken, session.tls, slot) /\ SlotOK(sent, broken, session.tls, slot)
      /\ Ready(slot)
  BY SessionFacts DEF Deliver, SessionInvariant
<1>2. PICK d : d = [slot EXCEPT !.decoded = <<>>]
  OBVIOUS
<1>3. Kept(sent, broken, session.tls, slot, d)
  <2>1. <<>> \in Inputs /\ <<>> \in Numbers
    BY DEF Inputs, Numbers
  <2>2. QED
    BY <1>1, <1>2, <2>1, StageKept
<1>4. Open(sent, broken, session.tls, d) /\ Ready(d) /\ SlotOK(sent, broken, session.tls, d)
  BY <1>1, <1>3, KeptReady
<1>5. CASE strict
  <2>1. slot' \in Written(d) \/ slot' \in Close(d)
    BY <1>2, <1>5 DEF Deliver
  <2>2. SlotOK(sent, broken, session.tls, slot') /\ Ready(slot')
    BY <1>4, <2>1, SessionFacts, WrittenOK, CloseOK DEF Open, Ready
  <2>3. loop' = loop /\ loop = "frames"
    BY <1>5 DEF Deliver
  <2>4. QED
    BY <2>2, <2>3, SessionFacts, StepOK DEF Deliver, peerVars, passVars
<1>6. CASE ~strict
  <2>1. PICK e : e = Enqueue(d, "inbound")
    OBVIOUS
  <2>2. Kept(sent, broken, session.tls, d, e)
    <3>1. ~Busy(d)
      BY <1>1, <1>2 DEF Deliver, Busy, Open, SlotOK, Slots
    <3>2. "inbound" \in Hooks
      BY DEF Hooks
    <3>3. QED
      BY <1>4, <2>1, <3>1, <3>2, EnqueueKept
  <2>3. slot' = Raise(e, "DEFERRED_INBOUND")
    BY <1>2, <1>6, <2>1 DEF Deliver
  <2>4. SlotOK(sent, broken, session.tls, e)
    BY <2>2 DEF Kept
  <2>5. SlotOK(sent, broken, session.tls, slot')
    BY <2>3, <2>4, FlagKept DEF Kept
  <2>6. loop' = "settle"
    BY <1>6 DEF Deliver, Return
  <2>7. QED
    BY <2>5, <2>6, SessionFacts, StepOK DEF Deliver, peerVars, passVars, LoopPlaces
<1>7. QED
  BY <1>5, <1>6

\* The next message is decoded.
LEMMA DecodeStep ==
    ASSUME SessionInvariant, Decode
    PROVE  SessionInvariant'
<1>1. Open(sent, broken, session.tls, slot) /\ Ready(slot) /\ loop = "frames"
  BY SessionFacts DEF Decode, SessionInvariant
<1>2. PICK r : r = ProcessInbound(slot)
  OBVIOUS
<1>3. r \in Decoders(sent, broken, session.tls)
  BY <1>1, <1>2, SessionFacts, ProcessInboundOK
<1>4. /\ r.s \in Slots /\ Open(sent, broken, session.tls, r.s) /\ Ready(r.s)
      /\ r.message \in Numbers /\ r.used \in Nat
  BY <1>3, DecoderFields
<1>5. PICK w \in Inputs : w = SubSeq(r.s.wire, r.used + 1, Len(r.s.wire))
  <2>1. PICK q \in Seq(InUnits) : q = r.s.wire
    BY <1>4 DEF Slots, Inputs
  <2>2. SubSeq(q, r.used + 1, Len(q)) \in Seq(InUnits)
    BY <1>4, RestOf
  <2>3. QED
    BY <2>1, <2>2 DEF Inputs
<1>6. PICK s : s = [r.s EXCEPT !.wire = w]
  OBVIOUS
<1>7. <<>> \in Numbers
  BY DEF Numbers
<1>8. Kept(sent, broken, session.tls, r.s, s)
  BY <1>4, <1>6, <1>7, StageKept DEF Open
<1>9. Open(sent, broken, session.tls, s) /\ Ready(s) /\ SlotOK(sent, broken, session.tls, s)
  BY <1>4, <1>8, KeptReady
<1>10. /\ r.verdict \in {"more", "message"}
       /\ CASE r.verdict = "more" -> slot' = s /\ Return
            [] r.verdict = "message" /\ IsSubneg(r.message) ->
                  /\ slot' \in Subnegotiate(s)
                  /\ IF strict THEN UNCHANGED loop ELSE Return
            [] OTHER -> /\ slot' = [s EXCEPT !.decoded = r.message]
                        /\ UNCHANGED loop
  <2>1. s = [r.s EXCEPT !.wire = SubSeq(@, r.used + 1, Len(@))]
    BY <1>5, <1>6
  <2>2. QED
    BY <1>2, <2>1 DEF Decode
<1>11. SlotOK(sent, broken, session.tls, slot') /\ (loop' = "frames" => Ready(slot'))
       /\ loop' \in {"frames", "settle"}
  <2>1. CASE r.verdict = "more"
    BY <1>9, <1>10, <2>1 DEF Return
  <2>2. CASE r.verdict = "message" /\ IsSubneg(r.message)
    <3>1. slot' \in Subnegotiate(s) /\ IF strict THEN UNCHANGED loop ELSE Return
      BY <1>10, <2>2
    <3>2. CASE strict
      <4>1. slot' \in Written(s)
        BY <3>1, <3>2 DEF Subnegotiate
      <4>2. QED
        BY <1>1, <1>9, <3>1, <3>2, <4>1, SessionFacts, WrittenOK DEF Open, Ready
    <3>3. CASE ~strict /\ ~Busy(s)
      <4>1. "subneg" \in Hooks
        BY DEF Hooks
      <4>2. slot' = Enqueue(s, "subneg")
        BY <3>1, <3>3 DEF Subnegotiate
      <4>3. QED
        BY <1>9, <3>1, <3>3, <4>1, <4>2, EnqueueKept DEF Kept, Return
    <3>4. CASE ~strict /\ Busy(s)
      <4>1. slot' = Raise(s, "DEFERRED_INBOUND")
        BY <3>1, <3>4 DEF Subnegotiate
      <4>2. QED
        BY <1>9, <3>1, <3>4, <4>1, FlagKept DEF Kept, Return
    <3>5. QED
      BY <3>2, <3>3, <3>4
  <2>3. CASE ~(r.verdict = "more") /\ ~(r.verdict = "message" /\ IsSubneg(r.message))
    <3>1. slot' = [s EXCEPT !.decoded = r.message] /\ loop' = loop
      BY <1>10, <2>3
    <3>2. Kept(sent, broken, session.tls, s, slot')
      BY <1>4, <1>5, <1>9, <3>1, StageKept
    <3>3. QED
      BY <1>1, <1>9, <3>1, <3>2, KeptReady
  <2>4. QED
    BY <2>1, <2>2, <2>3
<1>12. /\ session' = session /\ strict' = strict /\ sent' = sent /\ broken' = broken
       /\ eof' = eof /\ closed' = closed /\ ioerror' = ioerror /\ pass' = pass
       /\ unread' = unread
  BY DEF Decode, peerVars, passVars, histVars
<1>13. QED
  BY <1>11, <1>12, SessionFacts, StepOK DEF LoopPlaces

\* A Close frame, or a frame that is refused.
LEMMA DecodeClosesStep ==
    ASSUME SessionInvariant, DecodeCloses
    PROVE  SessionInvariant'
<1>1. Open(sent, broken, session.tls, slot) /\ Ready(slot)
  BY SessionFacts DEF DecodeCloses, SessionInvariant
<1>2. PICK r : r = ProcessInbound(slot)
  OBVIOUS
<1>3. r \in Decoders(sent, broken, session.tls)
  BY <1>1, <1>2, SessionFacts, ProcessInboundOK
<1>4. Open(sent, broken, session.tls, r.s) /\ Ready(r.s)
  BY <1>3, DecoderFields
<1>5. slot' = r.s \/ slot' \in Close(QueueClose(r.s, "close"))
  BY <1>2 DEF DecodeCloses
<1>6. PICK c : c = QueueClose(r.s, "close")
  OBVIOUS
<1>7. SlotOK(sent, broken, session.tls, c)
  BY <1>4, <1>6, SessionFacts, QueueCloseOK DEF Open
<1>8. SlotOK(sent, broken, session.tls, slot')
  BY <1>4, <1>5, <1>6, <1>7, SessionFacts, CloseOK DEF Open
<1>9. QED
  BY <1>8, SessionFacts, StepOK DEF DecodeCloses, peerVars, histVars, Return, LoopPlaces

\* The socket takes some of the queue.
LEMMA FlushWritesStep ==
    ASSUME SessionInvariant, FlushWrites
    PROVE  SessionInvariant'
<1>1. PICK n \in 0 .. Len(slot.out) :
          /\ Handshaking \/ broken => n = 0
          /\ sent' = SentAfter(sent, SubSeq(slot.out, 1, n))
          /\ slot' = [slot EXCEPT !.out = SubSeq(@, n + 1, Len(@))]
          /\ loop' = IF n = Len(slot.out) THEN "drained" ELSE "progress"
  BY DEF FlushWrites, SentAfter
<1>2. /\ sent' \in Outputs /\ Answered(sent')
      /\ SlotOK(sent', broken, session.tls, slot')
      /\ slot'.live = slot.live
      /\ n = Len(slot.out) => slot'.out = <<>>
  <2>1. slot' = [slot EXCEPT !.out = SubSeq(slot.out, n + 1, Len(slot.out))]
    BY <1>1
  <2>2. broken => n = 0
    BY <1>1
  <2>3. PICK g : g = Taken(sent, slot, n)
    OBVIOUS
  <2>4. PICK t : t = Shortened(slot, n)
    OBVIOUS
  <2>5. /\ g \in Outputs /\ Answered(g) /\ SlotOK(g, broken, session.tls, t)
        /\ t.live = slot.live
        /\ n = Len(slot.out) => t.out = <<>>
    BY <2>2, <2>3, <2>4, SessionFacts, FlushOK
  <2>6. sent' = g /\ slot' = t
    BY <1>1, <2>1, <2>3, <2>4 DEF Taken, Shortened
  <2>7. QED
    BY <2>5, <2>6
<1>3. loop' \in {"drained", "progress"} /\ (loop' = "drained" => n = Len(slot.out)) /\ slot.live
  BY <1>1 DEF FlushWrites
<1>4. /\ session' = session /\ strict' = strict /\ broken' = broken
      /\ eof' = eof /\ closed' = closed /\ ioerror' = ioerror /\ pass' = pass
      /\ unread' = unread
  BY DEF FlushWrites, peerVars, passVars
<1>5. QED
  BY <1>2, <1>3, <1>4 DEF SessionInvariant, Ready

\* A write fails and what was queued is dropped.
LEMMA FlushFailsStep ==
    ASSUME SessionInvariant, FlushFails
    PROVE  SessionInvariant'
<1>1. slot \in Slots /\ SlotOK(sent, broken, session.tls, slot) /\ slot.live
  BY SessionFacts DEF FlushFails
<1>2. SlotOK(sent, TRUE, session.tls, slot)
  BY <1>1 DEF SlotOK, Protocol
<1>3. PICK e : e = FreeOutbound(slot)
  OBVIOUS
<1>4. e \in Slots /\ e.out = <<>> /\ e.ws = slot.ws /\ e.live = slot.live
  BY <1>1, <1>3, FreeOutboundFields
<1>5. slot' \in Slots /\ slot'.out = <<>> /\ slot'.ws = slot.ws /\ slot'.live
  <2>1. slot'.flags \in FlagSets /\ slot' = [e EXCEPT !.flags = slot'.flags]
    <3>1. /\ e.flags \ {"BUFFERED_WRITE"} \in FlagSets
          /\ (e.flags \ {"BUFFERED_WRITE"}) \ {"TLS_ESTABLISHED"} \in FlagSets
      BY <1>4 DEF Slots, FlagSets
    <3>2. PICK f : f = Clear(e, "BUFFERED_WRITE")
      OBVIOUS
    <3>3. f = [e EXCEPT !.flags = e.flags \ {"BUFFERED_WRITE"}]
      BY <3>2 DEF Clear
    <3>4. f.flags = e.flags \ {"BUFFERED_WRITE"}
      BY <1>4, <3>3 DEF Slots
    <3>5. Clear(f, "TLS_ESTABLISHED")
             = [e EXCEPT !.flags = (e.flags \ {"BUFFERED_WRITE"}) \ {"TLS_ESTABLISHED"}]
      BY <1>4, <3>3, <3>4 DEF Clear, Slots
    <3>6. slot' = f \/ slot' = Clear(f, "TLS_ESTABLISHED")
      BY <1>3, <3>2 DEF FlushFails
    <3>7. PICK v \in FlagSets : slot' = [e EXCEPT !.flags = v]
      BY <3>1, <3>3, <3>5, <3>6
    <3>8. slot'.flags = v
      BY <1>4, <3>7 DEF Slots
    <3>9. QED
      BY <3>7, <3>8
  <2>2. slot' \in Slots
    BY <1>4, <2>1, SetField
  <2>3. QED
    BY <1>1, <1>4, <2>1, <2>2 DEF Slots
<1>6. SlotOK(sent, TRUE, session.tls, slot')
  BY <1>2, <1>5, SessionFacts, DropOK
<1>7. ioerror' \in BOOLEAN
  BY DEF FlushFails
<1>8. QED
  BY <1>5, <1>6, <1>7 DEF FlushFails, passVars, histVars, SessionInvariant

\* The 101 is out and the pending Telnet negotiation is queued.
LEMMA DrainedTelnetStep ==
    ASSUME SessionInvariant, DrainedTelnet
    PROVE  SessionInvariant'
<1>1. slot.live /\ slot.out = <<>> /\ Open(sent, broken, session.tls, slot)
  BY SessionFacts DEF DrainedTelnet, SessionInvariant
<1>2. PICK r : r = [slot EXCEPT !.ws = "ready"]
  OBVIOUS
<1>3. Open(sent, broken, session.tls, r) /\ Ready(r) /\ r.out = <<>>
  <2>1. slot \in Slots /\ Protocol(All(sent, slot), broken, session.tls, slot)
    BY <1>1 DEF Open, SlotOK
  <2>2. "ready" \in WsStates
    BY DEF WsStates
  <2>3. r \in Slots
    BY <1>2, <2>1, <2>2, SetField
  <2>4. /\ r.ws = "ready" /\ r.out = slot.out /\ r.live = slot.live /\ r.flags = slot.flags
    BY <1>2, <2>1 DEF Slots
  <2>5. slot.ws = "telnet_pending"
    BY DEF DrainedTelnet
  <2>6. Protocol(All(sent, slot), broken, session.tls, r)
    BY <2>1, <2>4, <2>5 DEF Protocol, Linked, Ready, CloseBegun, Has
  <2>7. All(sent, r) = All(sent, slot)
    BY <2>4 DEF All
  <2>8. QED
    BY <1>1, <2>3, <2>4, <2>6, <2>7 DEF Open, SlotOK, Ready
<1>4. /\ session' = session /\ strict' = strict /\ sent' = sent /\ broken' = broken
      /\ eof' = eof /\ closed' = closed /\ ioerror' = ioerror /\ pass' = pass
      /\ unread' = unread
  BY DEF DrainedTelnet, peerVars, passVars, histVars
<1>5. CASE Has(slot, "CLOSING")
  <2>1. slot' = r /\ loop' = "drained"
    BY <1>2, <1>5 DEF DrainedTelnet
  <2>2. QED
    BY <1>3, <1>4, <2>1, SessionFacts, StepOK DEF Open, LoopPlaces
<1>6. CASE ~Has(slot, "CLOSING")
  <2>1. slot' = RawWrite(r, Frame("negotiation", 0)) /\ loop' = "flush"
    BY <1>2, <1>6 DEF DrainedTelnet
  <2>2. PICK u \in OutUnits : u = Frame("negotiation", 0) /\ u.op = "negotiation"
    <3>1. Frame("negotiation", 0) \in OutUnits /\ Frame("negotiation", 0).op = "negotiation"
      BY DEF Frame, OutUnits, OutOps
    <3>2. QED
      BY <3>1
  <2>3. Open(sent, broken, session.tls, slot')
    BY <1>3, <2>1, <2>2, SessionFacts, RawWriteOK
  <2>4. QED
    BY <1>4, <2>1, <2>3, SessionFacts, StepOK DEF Open, LoopPlaces
<1>7. QED
  BY <1>5, <1>6

\* The barrier is released.
LEMMA DrainedBarrierStep ==
    ASSUME SessionInvariant, DrainedBarrier
    PROVE  SessionInvariant'
<1>1. slot.out = <<>> /\ Ready(slot) /\ Open(sent, broken, session.tls, slot)
  BY SessionFacts DEF DrainedBarrier, SessionInvariant
<1>2. PICK o : o = [slot EXCEPT !.out = slot.barrier, !.barrier = <<>>]
  OBVIOUS
<1>3. Open(sent, broken, session.tls, o)
  BY <1>1, <1>2, SessionFacts, BarrierOK
<1>4. PICK r : r = Raise(o, "BUFFERED_WRITE")
  OBVIOUS
<1>5. Kept(sent, broken, session.tls, o, r)
  BY <1>3, <1>4, FlagKept DEF Open
<1>6. Open(sent, broken, session.tls, r)
  BY <1>3, <1>5, KeptReady
<1>7. slot' \in TransportReady(r)
  BY <1>2, <1>4 DEF DrainedBarrier
<1>8. SlotOK(sent, broken, session.tls, slot')
  BY <1>6, <1>7, SessionFacts, TransportReadyOK DEF Open
<1>9. QED
  BY <1>8, SessionFacts, StepOK DEF DrainedBarrier, peerVars, passVars, histVars, LoopPlaces

\* Nothing is held back.
LEMMA DrainedStep ==
    ASSUME SessionInvariant, Drained
    PROVE  SessionInvariant'
<1>1. Open(sent, broken, session.tls, slot)
  BY SessionFacts DEF Drained, SessionInvariant
<1>2. PICK s \in IF Ready(slot) THEN TransportReady(slot) ELSE {slot} :
          slot' = IF s.out = <<>> THEN Clear(s, "BUFFERED_WRITE") ELSE s
  BY DEF Drained
<1>3. SlotOK(sent, broken, session.tls, s)
  BY <1>1, <1>2, SessionFacts, TransportReadyOK DEF Open
<1>4. SlotOK(sent, broken, session.tls, Clear(s, "BUFFERED_WRITE"))
  BY <1>3, FlagKept DEF Kept
<1>5. SlotOK(sent, broken, session.tls, slot')
  BY <1>2, <1>3, <1>4
<1>6. QED
  BY <1>5, SessionFacts, StepOK DEF Drained, peerVars, passVars, histVars, LoopPlaces

\* Hooks of other slots write or send.
LEMMA AppSteps ==
    ASSUME SessionInvariant, AppWrites \/ AppSends
    PROVE  SessionInvariant'
<1>1. Open(sent, broken, session.tls, slot) /\ SlotOK(sent, broken, session.tls, slot)
      /\ slot \in Slots
  BY SessionFacts DEF AppWrites, AppSends
<1>2. SlotOK(sent, broken, session.tls, slot') /\ (Ready(slot) => Ready(slot'))
  <2>1. CASE AppWrites
    BY <1>1, <2>1, SessionFacts, WriteOK DEF AppWrites, Open, Ready
  <2>2. CASE AppSends
    <3>1. PICK e : e = Enqueue(slot, "outbound")
      OBVIOUS
    <3>2. Kept(sent, broken, session.tls, slot, e)
      <4>1. "outbound" \in Hooks
        BY DEF Hooks
      <4>2. QED
        BY <1>1, <2>2, <3>1, <4>1, EnqueueKept DEF AppSends
    <3>3. e.sends = slot.sends
      BY <1>1, <3>1 DEF Enqueue, Slots
    <3>4. PICK v \in Nat : v = slot.sends + 1 /\ v <= MaxSends
      <4>1. slot.sends \in Nat /\ slot.sends < MaxSends /\ MaxSends \in Nat
        BY <1>1, <2>2, WebSocketAssumption DEF AppSends, Slots
      <4>2. slot.sends + 1 \in Nat /\ slot.sends + 1 <= MaxSends
        BY <4>1
      <4>3. QED
        BY <4>2
    <3>5. slot' = [e EXCEPT !.sends = v]
      BY <2>2, <3>1, <3>3, <3>4 DEF AppSends
    <3>6. SlotOK(sent, broken, session.tls, e)
      BY <3>2 DEF Kept
    <3>7. Kept(sent, broken, session.tls, e, slot')
      BY <3>4, <3>5, <3>6, SendsKept
    <3>8. QED
      BY <3>2, <3>7, KeptReady
  <2>3. QED
    BY <2>1, <2>2
<1>3. loop' = loop /\ loop # "drained"
  BY DEF AppWrites, AppSends, Aside, MutexFree, GateFree
<1>4. /\ session' = session /\ strict' = strict /\ sent' = sent /\ broken' = broken
      /\ eof' = eof /\ closed' = closed /\ ioerror' = ioerror /\ pass' = pass
      /\ unread' = unread
  BY DEF AppWrites, AppSends, Aside, passVars, histVars
<1>5. loop = "frames" => Ready(slot)
  BY DEF SessionInvariant
<1>6. QED
  BY <1>2, <1>3, <1>4, <1>5, SessionFacts, StepOK

\* A hook of the slot is over: the flags it held, then its place in the gate.
LEMMA HookSteps ==
    ASSUME SessionInvariant, HookCompletes \/ HookLeaves
    PROVE  SessionInvariant'
<1>1. SlotOK(sent, broken, session.tls, slot) /\ slot \in Slots /\ Busy(slot)
  BY SessionFacts DEF HookCompletes, HookLeaves
<1>2. PICK g \in Gates : g = slot.gate /\ Len(g) <= Backlog + 1 /\ g # <<>>
  BY <1>1 DEF Slots, Busy
<1>3. Kept(sent, broken, session.tls, slot, slot')
  <2>1. CASE HookLeaves
    <3>1. Tail(g) \in Gates /\ Len(Tail(g)) <= Backlog + 1
      BY <1>2, WebSocketAssumption DEF Gates
    <3>2. slot' = [slot EXCEPT !.gate = Tail(g)]
      BY <1>2, <2>1 DEF HookLeaves
    <3>3. QED
      BY <1>1, <3>1, <3>2, GateKept
  <2>2. CASE HookCompletes
    <3>1. PICK c : c = Completed(slot)
      OBVIOUS
    <3>2. Kept(sent, broken, session.tls, slot, c)
      <4>1. CASE ~slot.live
        BY <1>1, <3>1, <4>1, KeptSelf DEF Completed
      <4>2. CASE slot.live /\ slot.gate[1] = "ready"
        <5>1. PICK d : d = IF Has(slot, "CLOSING") THEN slot ELSE Clear(slot, "AWAITING_HOOK")
          OBVIOUS
        <5>2. Kept(sent, broken, session.tls, slot, d)
          BY <1>1, <5>1, KeptSelf, FlagKept
        <5>3. c = Raise(d, "DEFERRED_INBOUND")
          BY <3>1, <4>2, <5>1 DEF Completed
        <5>4. SlotOK(sent, broken, session.tls, d)
          BY <5>2 DEF Kept
        <5>5. Kept(sent, broken, session.tls, d, c)
          BY <5>3, <5>4, FlagKept
        <5>6. QED
          BY <5>2, <5>5, KeptTrans
      <4>3. CASE slot.live /\ slot.gate[1] = "inbound"
        <5>1. c = Raise(slot, "DEFERRED_INBOUND")
          BY <3>1, <4>3 DEF Completed
        <5>2. QED
          BY <1>1, <5>1, FlagKept
      <4>4. CASE slot.live /\ slot.gate[1] = "disconnect"
        <5>1. c = Clear(slot, "AWAITING_HOOK")
          BY <3>1, <4>4 DEF Completed
        <5>2. QED
          BY <1>1, <5>1, FlagKept
      <4>5. CASE slot.live /\ slot.gate[1] \notin {"ready", "inbound", "disconnect"}
        <5>1. c = slot
          BY <3>1, <4>5 DEF Completed
        <5>2. QED
          BY <1>1, <5>1, KeptSelf
      <4>6. QED
        BY <4>1, <4>2, <4>3, <4>4, <4>5
    <3>3. c.gate = g
      BY <1>1, <1>2, <3>1 DEF Completed, Raise, Clear, Slots
    <3>4. PICK v \in Gates : v = [g EXCEPT ![1] = "leaving"] /\ Len(v) <= Backlog + 1
      <4>1. "leaving" \in Hooks
        BY DEF Hooks
      <4>2. g \in Seq(Hooks)
        BY <1>2 DEF Gates
      <4>3. 1 \in 1 .. Len(g)
        BY <1>2, <4>2
      <4>4. [g EXCEPT ![1] = "leaving"] \in Seq(Hooks) /\ Len([g EXCEPT ![1] = "leaving"]) = Len(g)
        BY <4>1, <4>2, <4>3, ExceptSeq
      <4>5. QED
        BY <1>2, <4>4 DEF Gates
    <3>5. slot' = [c EXCEPT !.gate = v]
      <4>1. slot' = [c EXCEPT !.gate[1] = "leaving"]
        BY <2>2, <3>1 DEF HookCompletes
      <4>2. QED
        BY <3>3, <3>4, <4>1
    <3>6. SlotOK(sent, broken, session.tls, c)
      BY <3>2 DEF Kept
    <3>7. Kept(sent, broken, session.tls, c, slot')
      BY <3>4, <3>5, <3>6, GateKept
    <3>8. QED
      BY <3>2, <3>7, KeptTrans
  <2>3. QED
    BY <2>1, <2>2
<1>4. SlotOK(sent, broken, session.tls, slot') /\ (Ready(slot) => Ready(slot'))
  BY <1>3, KeptReady
<1>5. loop' = loop /\ loop # "drained"
  BY DEF HookCompletes, HookLeaves, Aside, MutexFree, GateFree
<1>6. /\ session' = session /\ strict' = strict /\ sent' = sent /\ broken' = broken
      /\ eof' = eof /\ closed' = closed /\ ioerror' = ioerror /\ pass' = pass
      /\ unread' = unread
  BY DEF HookCompletes, HookLeaves, Aside, passVars, histVars
<1>7. loop = "frames" => Ready(slot)
  BY DEF SessionInvariant
<1>8. QED
  BY <1>4, <1>5, <1>6, <1>7, SessionFacts, StepOK

-----------------------------------------------------------------------------
(* The initial states.                                                     *)

\* What FlattenSeq computes, element by element.
FlatRun(c, q, n) ==
    /\ c[0] = <<>>
    /\ \A i \in 1 .. n : c[i] = c[i - 1] \o q[i]

\* FlattenSeq puts the elements one behind the other.
LEMMA FlattenRun ==
    ASSUME NEW S, NEW q \in Seq(Seq(S)), NEW N \in Nat, N = Len(q)
    PROVE  \E c \in [0 .. N -> Seq(S)] : FlatRun(c, q, N) /\ FlattenSeq(q) = c[N]
<1> DEFINE A == Seq(S)
<1>0. <<>> \in A /\ (\A i \in 1 .. N : q[i] \in A)
  OBVIOUS
<1>a. \A p \in A : \A r \in A : p \o r \in A
  BY ConcatProperties
<1>b. \A r \in A : <<>> \o r = r
  BY ConcatEmptySeq
<1> HIDE DEF A
<1>1. CASE N = 0
  <2>1. FlattenSeq(q) = <<>>
    <3>1. FlattenSeq(q) = q /\ q = <<>>
      BY <1>1, Zenon, EmptySeq DEF FlattenSeq
    <3> QED
      BY <3>1
  <2> DEFINE c == [i \in 0 .. N |-> <<>>]
  <2>2. c \in [0 .. N -> A] /\ c[0] = <<>> /\ c[N] = <<>>
    BY <1>0, <1>1
  <2>3. \A i \in 1 .. N : FALSE
    BY <1>1
  <2> HIDE DEF c
  <2>4. FlatRun(c, q, N)
    BY <2>2, <2>3, Zenon DEF FlatRun
  <2> QED
    BY <2>1, <2>2, <2>4 DEF A
<1>2. CASE N # 0
  <2> DEFINE Body(f) == [i \in 1 .. N |-> IF i = 1 THEN q[i] ELSE f[i - 1] \o q[i]]
             g == [x \in A \X (1 .. N) |-> x[1] \o q[x[2]]]
  <2>4. FlattenSeq(q) = (CHOOSE f : f = Body(f))[N]
    <3>1. FlattenSeq(q)
            = (CHOOSE f : f = [i \in 1 .. Len(q) |-> IF i = 1 THEN q[i] ELSE f[i - 1] \o q[i]])[Len(q)]
      BY <1>2, Zenon DEF FlattenSeq
    <3>2. QED
      BY <3>1
  <2>5. \E f : f = Body(f)
    <3>2. g \in [A \X (1 .. N) -> A]
      BY <1>0, <1>a
    <3>2a. \A p \in A, i \in 1 .. N : g[<<p, i>>] = p \o q[i]
      OBVIOUS
    <3> HIDE DEF g
    <3>3. PICK f \in [SUBSET (1 .. N) -> A] : FoldOf(f, N, <<>>, g)
      BY <1>0, <3>2, FoldExists
    <3> DEFINE e == [i \in 1 .. N |-> f[1 .. i]]
    <3>4. ASSUME NEW i \in 1 .. N
          PROVE  e[i] = IF i = 1 THEN q[i] ELSE e[i - 1] \o q[i]
      <4>1. i \in Nat \ {0} /\ i \in 1 .. i /\ 1 .. i \in SUBSET (1 .. N)
        OBVIOUS
      <4>2. 1 .. i # {}
        BY <4>1
      <4>3. Max(1 .. i) = i /\ (1 .. i) \ {Max(1 .. i)} = 1 .. i - 1
        BY <4>1, IntervalMax
      <4>4. f[1 .. i] = g[<<f[(1 .. i) \ {Max(1 .. i)}], Max(1 .. i)>>]
        BY <3>3, <4>1, <4>2 DEF FoldOf
      <4>5. f[1 .. i] = g[<<f[1 .. i - 1], i>>]
        BY <4>3, <4>4, Zenon
      <4>6. 1 .. i - 1 \in SUBSET (1 .. N)
        OBVIOUS
      <4>7. PICK p \in A : p = f[1 .. i - 1]
        BY <4>6
      <4>8. g[<<p, i>>] = p \o q[i]
        BY <3>2a
      <4>9. i # 1 => i - 1 \in 1 .. N
        OBVIOUS
      <4>10. i # 1 => e[i - 1] = p
        BY <4>7, <4>9
      <4>10a. i = 1 => p = <<>>
        <5>1. 1 .. 1 - 1 = {} /\ {} \in SUBSET (1 .. N)
          OBVIOUS
        <5>2. f[{}] = <<>>
          BY <3>3, <5>1 DEF FoldOf
        <5> QED
          BY <4>7, <5>1, <5>2
      <4>11. e[i] = f[1 .. i]
        OBVIOUS
      <4> HIDE DEF e
      <4>12. e[i] = p \o q[i]
        BY <4>5, <4>7, <4>8, <4>11
      <4>13. CASE i = 1
        BY <1>0, <1>b, <4>10a, <4>12, <4>13
      <4>14. CASE i # 1
        BY <4>10, <4>12, <4>14
      <4>15. QED
        BY <4>13, <4>14
    <3>5. e = Body(e)
      BY <3>4
    <3>6. QED
      BY <3>5
  <2>6. PICK c : c = Body(c) /\ FlattenSeq(q) = c[N]
    <3> DEFINE c == CHOOSE f : f = Body(f)
    <3>1. c = Body(c)
      BY <2>5, Zenon
    <3>2. FlattenSeq(q) = c[N]
      BY <2>4
    <3> HIDE DEF c
    <3>3. QED
      BY <3>1, <3>2
  <2>7. \A i \in 1 .. N : c[i] = IF i = 1 THEN q[i] ELSE c[i - 1] \o q[i]
    BY <2>6
  <2> HIDE DEF Body
  <2> DEFINE d == [i \in 0 .. N |-> IF i = 0 THEN <<>> ELSE c[i]]
  <2>8a. d[0] = <<>> /\ d[N] = c[N] /\ \A i \in 1 .. N : d[i] = c[i]
    BY <1>2
  <2>8c. DOMAIN d = 0 .. N /\ d = [i \in 0 .. N |-> d[i]]
    OBVIOUS
  <2> HIDE DEF d
  <2>8b. ASSUME NEW i \in 1 .. N PROVE d[i] = d[i - 1] \o q[i]
    <3>1. CASE i = 1
      <4>1. i - 1 = 0 /\ q[i] \in A
        BY <1>0, <3>1
      <4>2. d[i] = q[i] /\ d[i - 1] = <<>>
        BY <2>7, <2>8a, <3>1, <4>1
      <4> QED
        BY <1>b, <4>1, <4>2
    <3>2. CASE i # 1
      <4>1. i - 1 \in 1 .. N
        BY <3>2
      <4> QED
        BY <2>7, <2>8a, <3>2, <4>1
    <3> QED
      BY <3>1, <3>2
  <2> DEFINE T == {n \in 0 .. N : d[n] \in A}
  <2>8. 0 \in T
    BY <1>0, <2>8a
  <2>9. ASSUME NEW n \in 0 .. N - 1, n \in T PROVE n + 1 \in T
    <3>1. n + 1 \in 1 .. N /\ n + 1 \in 0 .. N /\ (n + 1) - 1 = n
      OBVIOUS
    <3>2. PICK k \in 1 .. N : k = n + 1
      BY <3>1
    <3>5. k - 1 = n
      BY <3>1, <3>2
    <3>3. d[k] = d[k - 1] \o q[k] /\ k - 1 = n
      BY <2>8b, <3>5
    <3>4. d[n] \in A
      BY <2>9
    <3>6. d[k] \in A
      BY <1>0, <1>a, <3>3, <3>4
    <3>7. QED
      BY <3>1, <3>2, <3>6
  <2>10. \A n \in 0 .. N : n \in T
    <3> HIDE DEF T
    <3>1. \A n \in 0 .. N - 1 : n \in T => n + 1 \in T
      BY <2>9
    <3>2. QED
      BY <2>8, <3>1, SetInduction
  <2>11. d \in [0 .. N -> A]
    BY <2>8c, <2>10
  <2>12. FlatRun(d, q, N)
    BY <2>8a, <2>8b, Zenon DEF FlatRun
  <2>13. QED
    BY <2>6, <2>8a, <2>11, <2>12 DEF A
<1>3. QED
  BY <1>1, <1>2

\* The frames of a session, one after the other, are input.
LEMMA FlattenType ==
    ASSUME NEW q \in Seq(Inputs)
    PROVE  FlattenSeq(q) \in Inputs
<1>1. PICK N \in Nat : N = Len(q)
  OBVIOUS
<1>2. PICK c \in [0 .. N -> Seq(InUnits)] : FlattenSeq(q) = c[N]
  BY <1>1, FlattenRun DEF Inputs
<1>3. N \in 0 .. N
  OBVIOUS
<1>4. QED
  BY <1>2, <1>3 DEF Inputs

\* What the peer will send is input.
LEMMA InitialInput ==
    ASSUME Init
    PROVE  unread \in Inputs
<1> DEFINE frames == [i \in DOMAIN session.frames |-> Units(session.frames[i], i)]
           hello == IF session.tls THEN <<Unit("hello", 0), Unit("finished", 0)>> ELSE <<>>
           request == <<Unit("get", 0), Unit("end", 0)>>
<1>1. session.frames \in Seq(Ops)
  BY WebSocketAssumption DEF Init
<1>2. PICK n \in Nat : n = Len(session.frames) /\ DOMAIN session.frames = 1 .. n
  BY <1>1
<1>3. frames \in Seq(Inputs)
  <2>1. ASSUME NEW i \in 1 .. n PROVE Units(session.frames[i], i) \in Inputs
    <3>1. session.frames[i] \in Ops /\ i \in Nat
      BY <1>1, <1>2
    <3>2. QED
      BY <3>1, UnitsType
  <2>2. frames = [i \in 1 .. n |-> Units(session.frames[i], i)]
    BY <1>2
  <2>3. frames \in [1 .. n -> Inputs]
    BY <2>1, <2>2
  <2> HIDE DEF frames
  <2>4. QED
    BY <2>3
<1>4. hello \in Inputs /\ request \in Inputs
  <2>1. Unit("hello", 0) \in InUnits
    BY DEF Unit, InUnits
  <2>2. Unit("finished", 0) \in InUnits
    BY DEF Unit, InUnits
  <2>3. Unit("get", 0) \in InUnits
    BY DEF Unit, InUnits
  <2>4. Unit("end", 0) \in InUnits
    BY DEF Unit, InUnits
  <2>5. \A u, v \in InUnits : <<u, v>> \in Seq(InUnits)
    OBVIOUS
  <2>6. QED
    BY <2>1, <2>2, <2>3, <2>4, <2>5 DEF Inputs
<1>5. FlattenSeq(frames) \in Inputs
  BY <1>3, FlattenType
<1>6. unread = hello \o request \o FlattenSeq(frames)
  BY DEF Init
<1>7. \A p, q, r \in Inputs : p \o q \o r \in Inputs
  BY DEF Inputs
<1> HIDE DEF frames, hello, request
<1>8. QED
  BY <1>4, <1>5, <1>6, <1>7

\* The session begins well.
LEMMA InitOK ==
    ASSUME Init
    PROVE  SessionInvariant
<1>1. session.tls \in BOOLEAN /\ session \in Sessions /\ sent = <<>> /\ broken = FALSE
  BY WebSocketAssumption DEF Init
<1>2. sent \in Outputs /\ Answered(sent) /\ DOMAIN sent = {} /\ Len(sent) = 0
  BY <1>1 DEF Outputs, Answered
<1>3. PICK s : /\ s = [live |-> TRUE, flags |-> {"ENABLE_WEBSOCKET"},
                       ws |-> "handshake", out |-> <<>>, barrier |-> <<>>,
                       inbound |-> <<>>, wire |-> <<>>, decoded |-> <<>>,
                       fragment |-> <<>>, gate |-> <<>>, writes |-> 0,
                       sends |-> 0]
               /\ slot \in Written(s)
  BY DEF Init
<1>4. /\ s.live = TRUE /\ s.flags = {"ENABLE_WEBSOCKET"} /\ s.ws = "handshake"
      /\ s.out = <<>> /\ s.barrier = <<>> /\ s.inbound = <<>> /\ s.wire = <<>>
      /\ s.decoded = <<>> /\ s.fragment = <<>> /\ s.gate = <<>> /\ s.writes = 0
      /\ s.sends = 0
  BY <1>3
<1>5. s \in Slots
  <2>1. /\ <<>> \in Outputs /\ <<>> \in Barriers /\ <<>> \in Inputs /\ <<>> \in Numbers
        /\ <<>> \in Gates /\ Len(<<>>) = 0 /\ {"ENABLE_WEBSOCKET"} \in FlagSets
        /\ "handshake" \in WsStates
    BY DEF Outputs, Barriers, Inputs, Numbers, Gates, FlagSets, Flags, WsStates
  <2>2. /\ 0 <= OutCap /\ 0 <= Backlog + 1 /\ 0 <= MaxWrites /\ 0 <= MaxSends
    BY WebSocketAssumption
  <2>3. s = [live |-> s.live, flags |-> s.flags, ws |-> s.ws, out |-> s.out,
             barrier |-> s.barrier, inbound |-> s.inbound, wire |-> s.wire,
             decoded |-> s.decoded, fragment |-> s.fragment, gate |-> s.gate,
             writes |-> s.writes, sends |-> s.sends]
    BY <1>3
  <2>4. /\ s.live \in BOOLEAN /\ s.flags \in FlagSets /\ s.ws \in WsStates
        /\ s.out \in Outputs /\ Len(s.out) <= OutCap
        /\ s.barrier \in Barriers /\ Len(s.barrier) <= OutCap
        /\ s.inbound \in Inputs /\ s.wire \in Inputs
        /\ s.decoded \in Numbers /\ s.fragment \in Numbers
        /\ s.gate \in Gates /\ Len(s.gate) <= Backlog + 1
        /\ s.writes \in Nat /\ s.writes <= MaxWrites
        /\ s.sends \in Nat /\ s.sends <= MaxSends
    <3>1. /\ s.live \in BOOLEAN /\ s.flags \in FlagSets /\ s.ws \in WsStates
          /\ s.out \in Outputs /\ s.barrier \in Barriers
          /\ s.inbound \in Inputs /\ s.wire \in Inputs
          /\ s.decoded \in Numbers /\ s.fragment \in Numbers /\ s.gate \in Gates
      BY <1>4, <2>1, Zenon
    <3>2. Len(s.out) = 0 /\ Len(s.barrier) = 0 /\ Len(s.gate) = 0
      BY <1>4, <2>1, Zenon
    <3>3. s.writes \in Nat /\ s.sends \in Nat /\ s.writes <= MaxWrites /\ s.sends <= MaxSends
      BY <1>4, <2>2
    <3>4. Len(s.out) <= OutCap /\ Len(s.barrier) <= OutCap /\ Len(s.gate) <= Backlog + 1
      BY <2>2, <3>2
    <3>5. QED
      BY <3>1, <3>3, <3>4
  <2>5. QED
    BY <2>3, <2>4, SlotFields, Zenon
<1>6. All(sent, s) = sent
  BY <1>1, <1>4 DEF All
<1>7. Protocol(sent, broken, session.tls, s)
  BY <1>1, <1>2, <1>4 DEF Protocol, OneClose, NoClose, Linked, Ready, Has
<1>8. Open(sent, broken, session.tls, s)
  BY <1>4, <1>5, <1>6, <1>7 DEF Open, SlotOK
<1>9. SlotOK(sent, broken, session.tls, slot)
  BY <1>1, <1>2, <1>3, <1>8, WrittenOK DEF Open
<1>10. QED
  BY <1>1, <1>2, <1>9, InitialInput DEF Init, SessionInvariant

-----------------------------------------------------------------------------
(* The theorems.                                                           *)

\* Every step of the loop, of a hook and of the peer keeps the invariant.
LEMMA NextOK ==
    ASSUME SessionInvariant, [Next]_vars
    PROVE  SessionInvariant'
<1>1. CASE Refill \/ RefillFails \/ HandshakeRead \/ ErrorEvent \/ NoRead
  BY <1>1, RefillStep, PlainSteps, HandshakeSteps, ClosingSteps
<1>2. CASE ProcessNothing \/ ProcessBegins \/ Deliver \/ DeliverLater \/ Decode
           \/ DecodeCloses \/ Settle \/ Resume
  BY <1>2, ProcessingSteps, DeliverStep, DecodeStep, DecodeClosesStep, ClosingSteps
<1>3. CASE FlushRemoved \/ FlushHandshake \/ FlushWrites \/ FlushFails
  BY <1>3, PlainSteps, HandshakeSteps, FlushWritesStep, FlushFailsStep
<1>4. CASE DrainedTelnet \/ DrainedBarrier \/ Drained \/ Progress
  BY <1>4, DrainedTelnetStep, DrainedBarrierStep, DrainedStep, ClosingSteps
<1>5. CASE AppWrites \/ AppCloses \/ AppSends \/ HookCompletes \/ HookLeaves
           \/ PeerAnswers \/ PeerLeaves
  BY <1>5, AppSteps, ClosingSteps, HookSteps, PeerAnswersStep, PlainSteps
<1>6. CASE UNCHANGED vars
  BY <1>6, SessionFacts, SameSlotStep DEF vars
<1>7. QED
  BY <1>1, <1>2, <1>3, <1>4, <1>5, <1>6 DEF Next, LoopSteps

\* The inductive invariant holds throughout every session.
THEOREM SessionAlways == Spec => []SessionInvariant
<1>1. Init => SessionInvariant
  BY InitOK
<1>2. SessionInvariant /\ [Next]_vars => SessionInvariant'
  BY NextOK
<1>3. QED
  BY <1>1, <1>2, PTL DEF Spec

\* The queues of a slot stay within MAX_OUTBOUND_BUFFERS_PER_SLOT and its gate
\* within its backlog, whatever is written and however the session goes.
THEOREM WebSocketTypeCorrect == Spec => []TypeOK
<1>1. SessionInvariant => TypeOK
  <2>1. SUFFICES ASSUME SessionInvariant PROVE TypeOK
    OBVIOUS
  <2>2. /\ slot.live \in BOOLEAN /\ slot.flags \in FlagSets /\ slot.ws \in WsStates
        /\ Len(slot.out) <= OutCap /\ Len(slot.barrier) <= OutCap
        /\ slot.gate \in Gates /\ Len(slot.gate) <= Backlog + 1
        /\ slot.writes \in Nat /\ slot.writes <= MaxWrites
        /\ slot.sends \in Nat /\ slot.sends <= MaxSends
    BY <2>1, SessionFacts, SlotFields
  <2>3. slot.gate \in BoundedSeq(Hooks, Backlog + 1)
    <3>1. PICK g \in Seq(Hooks) : g = slot.gate /\ Len(g) <= Backlog + 1
      BY <2>2 DEF Gates
    <3>2. PICK n \in Nat : n = Len(g) /\ g \in [1 .. n -> Hooks] /\ n <= Backlog + 1
      BY <3>1
    <3>3. n \in 0 .. Backlog + 1
      BY <3>2, WebSocketAssumption
    <3>4. g \in UNION {[1 .. m -> Hooks] : m \in 0 .. Backlog + 1}
      BY <3>2, <3>3
    <3>5. QED
      BY <3>1, <3>4, Zenon DEF BoundedSeq, SeqOf
  <2>4. slot.writes \in 0 .. MaxWrites /\ slot.sends \in 0 .. MaxSends
    BY <2>2, WebSocketAssumption
  <2>5. QED
    BY <2>1, <2>2, <2>3, <2>4 DEF SessionInvariant, TypeOK, FlagSets, WsStates
<1>2. QED
  BY <1>1, SessionAlways, PTL

\* The peer is answered in HTTP first, and gets frames after a 101 only.
THEOREM UpgradeFirstAlways == Spec => []UpgradeFirst
<1>1. SessionInvariant => UpgradeFirst
  BY DEF SessionInvariant, Answered, UpgradeFirst
<1>2. QED
  BY <1>1, SessionAlways, PTL

\* One Close frame at most is sent, whoever closes and however often.
THEOREM CloseOnceAlways == Spec => []CloseOnce
<1>1. SessionInvariant => CloseOnce
  <2>1. SUFFICES ASSUME SessionInvariant PROVE CloseOnce
    OBVIOUS
  <2> DEFINE C == {i \in DOMAIN sent : sent[i].op \in {"close", "reply"}}
  <2>2. OneClose(sent)
    <3>1. sent \in Outputs /\ slot \in Slots /\ OneClose(All(sent, slot))
      BY <2>1, SessionFacts DEF SlotOK, Protocol
    <3>2. PICK t : t = [slot EXCEPT !.out = <<>>]
      OBVIOUS
    <3>3. t.out = <<>>
      BY <3>1, <3>2 DEF Slots
    <3>4. Extends(sent, All(sent, slot))
      BY <3>1, <3>3, Emptied
    <3>5. QED
      BY <3>1, <3>4, Beginning
  <2>3. \A i, j \in C : i = j
    BY <2>2 DEF OneClose, IsClose
  <2>4. C = {} \/ \E i \in C : C = {i}
    <3> HIDE DEF C
    <3>1. QED
      BY <2>3
  <2>5. Cardinality(C) <= 1
    <3> HIDE DEF C
    <3>1. Cardinality({}) = 0 /\ \A i : Cardinality({i}) = 1
      BY FS_EmptySet, FS_Singleton
    <3>2. QED
      BY <2>4, <3>1
  <2>6. QED
    BY <2>5 DEF CloseOnce
<1>2. QED
  BY <1>1, SessionAlways, PTL

-----------------------------------------------------------------------------
(* The messages of a session.  fr is what the peer sends, frame by frame.  *)

\* The frames whose payload reaches HOOK_MESSAGE_INBOUND.
Text(fr) == {i \in DOMAIN fr : fr[i] \in Data \ {"subneg"}}
Count(fr, n) == Cardinality({i \in Text(fr) : i <= n})

\* q holds text frames, each at the place it has among them: none is missing.
InPlace(fr, q) == \A k \in DOMAIN q : q[k] \in Text(fr) /\ k = Count(fr, q[k])

\* q is the text of the first p frames.
TextOf(fr, q, p) == InPlace(fr, q) /\ Len(q) = Count(fr, p)

\* One frame more counts if it is text.
LEMMA CountStep ==
    ASSUME NEW fr \in Seq(Ops), NEW n \in Nat
    PROVE  /\ Count(fr, 0) = 0 /\ Count(fr, n) \in Nat
           /\ n + 1 \in Text(fr) => Count(fr, n + 1) = Count(fr, n) + 1
           /\ n + 1 \notin Text(fr) => Count(fr, n + 1) = Count(fr, n)
<1> DEFINE S == {i \in Text(fr) : i <= n}
           T == {i \in Text(fr) : i <= n + 1}
<1>1. PICK l \in Nat : l = Len(fr) /\ DOMAIN fr = 1 .. l
  OBVIOUS
<1>2. Text(fr) \in SUBSET (1 .. l)
  BY <1>1 DEF Text
<1>3. IsFiniteSet(1 .. l)
  BY FS_Interval
<1>4. S \in SUBSET (1 .. l) /\ n + 1 \notin S
  BY <1>2
<1>5. IsFiniteSet(S) /\ Cardinality(S) \in Nat
  <2> HIDE DEF S
  <2>1. IsFiniteSet(S)
    BY <1>3, <1>4, FS_Subset
  <2> QED
    BY <2>1, FS_CardinalityType
<1>6. Count(fr, n) = Cardinality(S) /\ Count(fr, n + 1) = Cardinality(T)
  BY DEF Count
<1>7. n + 1 \in Text(fr) => T = S \cup {n + 1}
  BY <1>2
<1>8. n + 1 \notin Text(fr) => T = S
  BY <1>2
<1>9. Cardinality(S \cup {n + 1}) = Cardinality(S) + 1
  <2> HIDE DEF S
  <2> QED
    BY <1>4, <1>5, FS_AddElement
<1>10. Count(fr, 0) = 0
  <2>1. {i \in Text(fr) : i <= 0} = {}
    BY <1>2
  <2> QED
    BY <2>1, FS_EmptySet DEF Count
<1> HIDE DEF S, T
<1> QED
  BY <1>5, <1>6, <1>7, <1>8, <1>9, <1>10

\* The next frame, if it is text, is the next of the text.
LEMMA TextGrows ==
    ASSUME NEW fr \in Seq(Ops), NEW q \in Numbers, NEW p \in Nat, TextOf(fr, q, p),
           p + 1 \in Text(fr)
    PROVE  TextOf(fr, Append(q, p + 1), p + 1)
<1>1. q \in Seq(Nat)
  BY DEF Numbers
<1>2. PICK n \in Nat : n = Len(q)
  BY <1>1
<1>3. Count(fr, p + 1) = n + 1
  BY <1>2, CountStep DEF TextOf
<1>4. PICK r \in Seq(Nat) : r = Append(q, p + 1)
  <2>1. p + 1 \in Nat
    OBVIOUS
  <2>2. Append(q, p + 1) \in Seq(Nat)
    BY <1>1, <2>1, AppendProperties
  <2> QED
    BY <2>2
<1>5. /\ Len(r) = n + 1 /\ DOMAIN r = 1 .. n + 1 /\ r[n + 1] = p + 1
      /\ \A k \in 1 .. n : r[k] = q[k]
  BY <1>1, <1>2, <1>4
<1>6. \A k \in 1 .. n : q[k] \in Text(fr) /\ k = Count(fr, q[k])
  BY <1>1, <1>2 DEF TextOf, InPlace
<1>7. ASSUME NEW k \in 1 .. n + 1 PROVE r[k] \in Text(fr) /\ k = Count(fr, r[k])
  <2>1. CASE k = n + 1
    BY <2>1, <1>3, <1>5
  <2>2. CASE k # n + 1
    <3>1. k \in 1 .. n
      BY <2>2
    <3> QED
      BY <3>1, <1>5, <1>6
  <2> QED
    BY <2>1, <2>2
<1>8. InPlace(fr, r)
  BY <1>5, <1>7 DEF InPlace
<1> QED
  BY <1>3, <1>4, <1>5, <1>8 DEF TextOf

\* A frame that is not text changes nothing.
LEMMA TextSkips ==
    ASSUME NEW fr \in Seq(Ops), NEW q \in Numbers, NEW p \in Nat, TextOf(fr, q, p),
           p + 1 \notin Text(fr)
    PROVE  TextOf(fr, q, p + 1)
BY CountStep DEF TextOf

\* What comes first is in its place whatever follows.
LEMMA InPlaceFirst ==
    ASSUME NEW fr, NEW q \in Numbers, NEW r \in Numbers, InPlace(fr, q \o r)
    PROVE  InPlace(fr, q)
<1>1. q \in Seq(Nat) /\ r \in Seq(Nat)
  BY DEF Numbers
<1>2. PICK s : s = q \o r
  OBVIOUS
<1>3. \A k \in DOMAIN q : k \in DOMAIN s /\ s[k] = q[k]
  BY <1>1, <1>2
<1>4. \A k \in DOMAIN s : s[k] \in Text(fr) /\ k = Count(fr, s[k])
  BY <1>2 DEF InPlace
<1> QED
  BY <1>3, <1>4 DEF InPlace

\* One element more is put behind the rest.
LEMMA FlattenAppend ==
    ASSUME NEW S, NEW q \in Seq(Seq(S)), NEW d \in Seq(S)
    PROVE  /\ FlattenSeq(q) \in Seq(S)
           /\ FlattenSeq(Append(q, d)) = FlattenSeq(q) \o d
<1>1. PICK N \in Nat : N = Len(q)
  OBVIOUS
<1>2. PICK r \in Seq(Seq(S)) : r = Append(q, d)
  <2>1. Append(q, d) \in Seq(Seq(S))
    BY AppendProperties
  <2> QED
    BY <2>1
<1>3. PICK M \in Nat : M = N + 1
  OBVIOUS
<1>4. Len(r) = M /\ r[M] = d /\ \A i \in 1 .. N : r[i] = q[i]
  BY <1>1, <1>2, <1>3
<1>5. PICK c \in [0 .. N -> Seq(S)] : FlatRun(c, q, N) /\ FlattenSeq(q) = c[N]
  BY <1>1, FlattenRun
<1>6. PICK e \in [0 .. M -> Seq(S)] : FlatRun(e, r, M) /\ FlattenSeq(r) = e[M]
  BY <1>4, FlattenRun
<1> DEFINE T == {n \in 0 .. N : e[n] = c[n]}
<1>7. 0 \in T
  BY <1>5, <1>6 DEF FlatRun
<1>8. ASSUME NEW n \in 0 .. N - 1, n \in T PROVE n + 1 \in T
  <2>1. PICK k \in 1 .. N : k = n + 1 /\ k - 1 = n /\ k \in 1 .. M /\ k \in 0 .. N
    BY <1>3
  <2>2. e[k] = e[k - 1] \o r[k] /\ c[k] = c[k - 1] \o q[k]
    BY <1>5, <1>6, <2>1 DEF FlatRun
  <2>3. e[k] = c[k]
    BY <1>4, <1>8, <2>1, <2>2
  <2> QED
    BY <2>1, <2>3
<1>9. N \in T
  <2> HIDE DEF T
  <2>1. \A n \in 0 .. N : n \in T
    BY <1>7, <1>8, SetInduction
  <2> QED
    BY <2>1
<1>10. e[M] = e[M - 1] \o r[M] /\ M - 1 = N
  <2>1. M \in 1 .. M /\ M - 1 = N
    BY <1>3
  <2> QED
    BY <1>6, <2>1 DEF FlatRun
<1>11. FlattenSeq(r) = c[N] \o d
  BY <1>4, <1>6, <1>9, <1>10
<1> QED
  BY <1>2, <1>5, <1>11

-----------------------------------------------------------------------------
(* The stages of the input, one behind the other.                          *)

Join(s, t) == s \o t
First(q, n) == SubSeq(q, 1, n)
Drop(q, n) == SubSeq(q, n + 1, Len(q))

\* What there is to decode: the wire, the inbound buffer, the socket.
Stream(w, i, u) == Join(w, Join(i, u))

\* The elements of a concatenation.
LEMMA JoinFacts ==
    ASSUME NEW s \in Inputs, NEW t \in Inputs
    PROVE  /\ Join(s, t) \in Inputs /\ Len(Join(s, t)) = Len(s) + Len(t)
           /\ \A i \in 1 .. Len(s) : Join(s, t)[i] = s[i]
           /\ \A i \in 1 .. Len(t) : Join(s, t)[Len(s) + i] = t[i]
<1>1. s \in Seq(InUnits) /\ t \in Seq(InUnits)
  BY DEF Inputs
<1>2. /\ s \o t \in Seq(InUnits) /\ Len(s \o t) = Len(s) + Len(t)
      /\ \A i \in 1 .. Len(s) + Len(t) : (s \o t)[i] = IF i <= Len(s) THEN s[i] ELSE t[i - Len(s)]
  BY <1>1, ConcatProperties
<1>3. PICK m \in Nat : m = Len(s)
  BY <1>1
<1>4. PICK n \in Nat : n = Len(t)
  BY <1>1
<1>5. ASSUME NEW i \in 1 .. m PROVE (s \o t)[i] = s[i]
  <2>1. i \in 1 .. m + n /\ i <= m
    OBVIOUS
  <2> QED
    BY <1>2, <1>3, <1>4, <2>1
<1>6. ASSUME NEW i \in 1 .. n PROVE (s \o t)[m + i] = t[i]
  <2>1. m + i \in 1 .. m + n /\ ~(m + i <= m) /\ (m + i) - m = i
    OBVIOUS
  <2> QED
    BY <1>2, <1>3, <1>4, <2>1
<1> QED
  BY <1>2, <1>3, <1>4, <1>5, <1>6 DEF Join, Inputs

\* Concatenation of three, and with nothing.
LEMMA JoinLaws ==
    /\ \A s, t, u \in Inputs : Join(Join(s, t), u) = Join(s, Join(t, u))
    /\ \A s \in Inputs : Join(s, <<>>) = s /\ Join(<<>>, s) = s
    /\ <<>> \in Inputs
<1>1. \A s, t, u \in Inputs : Join(Join(s, t), u) = Join(s, Join(t, u))
  BY ConcatAssociative DEF Join, Inputs
<1>2. \A s \in Inputs : Join(s, <<>>) = s /\ Join(<<>>, s) = s
  BY ConcatEmptySeq DEF Join, Inputs
<1>3. <<>> \in Inputs
  BY DEF Inputs
<1> QED
  BY <1>1, <1>2, <1>3

\* Inputs with the same elements are the same.
LEMMA SameInput ==
    ASSUME NEW s \in Inputs, NEW t \in Inputs, Len(s) = Len(t),
           \A i \in 1 .. Len(s) : s[i] = t[i]
    PROVE  s = t
BY SeqEqual DEF Inputs

\* The first n elements, and the rest.
LEMMA CutFacts ==
    ASSUME NEW q \in Inputs, NEW n \in 0 .. Len(q)
    PROVE  /\ Drop(q, n) \in Inputs /\ Len(Drop(q, n)) = Len(q) - n
           /\ \A i \in 1 .. Len(q) - n : Drop(q, n)[i] = q[n + i]
           /\ First(q, n) \in Inputs /\ Len(First(q, n)) = n
           /\ \A i \in 1 .. n : First(q, n)[i] = q[i]
<1>1. q \in Seq(InUnits)
  BY DEF Inputs
<1>2. PICK l \in Nat : l = Len(q)
  BY <1>1
<1>3. n \in Nat /\ n <= l /\ n + 1 \in Int /\ l \in Int /\ 1 \in Int
  BY <1>2
<1>4. \A i \in n + 1 .. l : q[i] \in InUnits
  BY <1>1, <1>2, <1>3
<1>5. \A i \in 1 .. n : q[i] \in InUnits
  BY <1>1, <1>2, <1>3
<1>6. /\ SubSeq(q, n + 1, l) \in Seq(InUnits)
      /\ Len(SubSeq(q, n + 1, l)) = IF n + 1 <= l THEN l - (n + 1) + 1 ELSE 0
      /\ \A i \in 1 .. l - (n + 1) + 1 : SubSeq(q, n + 1, l)[i] = q[(n + 1) + i - 1]
  BY <1>3, <1>4, SubSeqProperties
<1>7. /\ SubSeq(q, 1, n) \in Seq(InUnits)
      /\ Len(SubSeq(q, 1, n)) = IF 1 <= n THEN n - 1 + 1 ELSE 0
      /\ \A i \in 1 .. n - 1 + 1 : SubSeq(q, 1, n)[i] = q[1 + i - 1]
  BY <1>3, <1>5, SubSeqProperties
<1>8. ASSUME NEW i \in 1 .. l - n PROVE SubSeq(q, n + 1, l)[i] = q[n + i]
  <2>1. i \in 1 .. l - (n + 1) + 1 /\ (n + 1) + i - 1 = n + i
    BY <1>3
  <2> QED
    BY <1>6, <2>1
<1>9. ASSUME NEW i \in 1 .. n PROVE SubSeq(q, 1, n)[i] = q[i]
  <2>1. i \in 1 .. n - 1 + 1 /\ 1 + i - 1 = i
    BY <1>3
  <2> QED
    BY <1>7, <2>1
<1>10. Len(SubSeq(q, n + 1, l)) = l - n /\ Len(SubSeq(q, 1, n)) = n
  BY <1>3, <1>6, <1>7
<1> QED
  BY <1>2, <1>6, <1>7, <1>8, <1>9, <1>10 DEF Drop, First, Inputs

\* Together they are the whole.
LEMMA CutJoin ==
    ASSUME NEW q \in Inputs, NEW n \in 0 .. Len(q)
    PROVE  Join(First(q, n), Drop(q, n)) = q
<1>1. PICK l \in Nat : l = Len(q)
  BY DEF Inputs
<1>2. PICK a \in Inputs : a = First(q, n) /\ Len(a) = n /\ \A i \in 1 .. n : a[i] = q[i]
  BY CutFacts
<1>4. n \in Nat /\ n <= l
  BY <1>1
<1>8. PICK z \in Nat : z = l - n
  BY <1>4
<1>3. PICK b \in Inputs : b = Drop(q, n) /\ Len(b) = z /\ \A i \in 1 .. z : b[i] = q[n + i]
  BY <1>1, <1>8, CutFacts
<1>5. /\ Join(a, b) \in Inputs /\ Len(Join(a, b)) = n + z
      /\ \A i \in 1 .. n : Join(a, b)[i] = a[i]
      /\ \A i \in 1 .. z : Join(a, b)[n + i] = b[i]
  <2>1. /\ Join(a, b) \in Inputs /\ Len(Join(a, b)) = Len(a) + Len(b)
        /\ \A i \in 1 .. Len(a) : Join(a, b)[i] = a[i]
        /\ \A i \in 1 .. Len(b) : Join(a, b)[Len(a) + i] = b[i]
    BY JoinFacts
  <2> QED
    BY <1>2, <1>3, <2>1
<1>6. Len(Join(a, b)) = l
  BY <1>4, <1>5, <1>8
<1>7. ASSUME NEW i \in 1 .. l PROVE Join(a, b)[i] = q[i]
  <2>1. CASE i <= n
    <3>1. i \in 1 .. n
      BY <1>4, <2>1
    <3> QED
      BY <1>2, <1>5, <3>1
  <2>2. CASE i > n
    <3>1. PICK j \in 1 .. z : i = n + j
      <4>1. i - n \in 1 .. z /\ i = n + (i - n)
        BY <1>4, <1>8, <2>2
      <4> QED
        BY <4>1
    <3> QED
      BY <1>3, <1>5, <3>1
  <2> QED
    BY <1>4, <2>1, <2>2
<1> QED
  BY <1>1, <1>2, <1>3, <1>5, <1>6, <1>7, SameInput

\* Dropping from the front leaves what is behind.
LEMMA DropJoin ==
    ASSUME NEW w \in Inputs, NEW r \in Inputs, NEW n \in 0 .. Len(w)
    PROVE  Drop(Join(w, r), n) = Join(Drop(w, n), r)
<1>1. PICK l \in Nat : l = Len(w)
  BY DEF Inputs
<1>2. PICK k \in Nat : k = Len(r)
  BY DEF Inputs
<1>3. n \in Nat /\ n <= l
  BY <1>1
<1>11. PICK z \in Nat : z = l - n
  BY <1>3
<1>12. PICK y \in Nat : y = (l + k) - n
  BY <1>3
<1>4. PICK j \in Inputs : /\ j = Join(w, r) /\ Len(j) = l + k
                          /\ \A i \in 1 .. l : j[i] = w[i]
                          /\ \A i \in 1 .. k : j[l + i] = r[i]
  BY <1>1, <1>2, JoinFacts
<1>5. PICK d \in Inputs : /\ d = Drop(w, n) /\ Len(d) = z
                          /\ \A i \in 1 .. z : d[i] = w[n + i]
  BY <1>1, <1>11, CutFacts
<1>6. n \in 0 .. Len(j)
  BY <1>3, <1>4
<1>7. PICK e \in Inputs : /\ e = Drop(j, n) /\ Len(e) = y
                          /\ \A i \in 1 .. y : e[i] = j[n + i]
  <2>1. /\ Drop(j, n) \in Inputs /\ Len(Drop(j, n)) = Len(j) - n
        /\ \A i \in 1 .. Len(j) - n : Drop(j, n)[i] = j[n + i]
    BY <1>6, CutFacts
  <2>2. Len(j) - n = y
    BY <1>4, <1>12
  <2> QED
    BY <2>1, <2>2
<1>8. PICK f \in Inputs : /\ f = Join(d, r) /\ Len(f) = z + k
                          /\ \A i \in 1 .. z : f[i] = d[i]
                          /\ \A i \in 1 .. k : f[z + i] = r[i]
  <2>1. /\ Join(d, r) \in Inputs /\ Len(Join(d, r)) = Len(d) + Len(r)
        /\ \A i \in 1 .. Len(d) : Join(d, r)[i] = d[i]
        /\ \A i \in 1 .. Len(r) : Join(d, r)[Len(d) + i] = r[i]
    BY JoinFacts
  <2> QED
    BY <1>2, <1>5, <2>1
<1>9. Len(e) = Len(f)
  BY <1>3, <1>7, <1>8, <1>11, <1>12
<1>10. ASSUME NEW i \in 1 .. y PROVE e[i] = f[i]
  <2>1. e[i] = j[n + i]
    BY <1>7
  <2>2. CASE i <= z
    <3>1. i \in 1 .. z /\ n + i \in 1 .. l
      BY <1>3, <1>11, <2>2
    <3> QED
      BY <1>4, <1>5, <1>8, <2>1, <3>1
  <2>3. CASE i > z
    <3>1. PICK m \in 1 .. k : i = z + m /\ n + i = l + m
      <4>1. i - z \in 1 .. k /\ i = z + (i - z) /\ n + i = l + (i - z)
        BY <1>3, <1>11, <1>12, <2>3
      <4> QED
        BY <4>1
    <3> QED
      BY <1>4, <1>8, <2>1, <3>1
  <2> QED
    BY <1>3, <1>11, <2>2, <2>3
<1> QED
  BY <1>4, <1>5, <1>7, <1>8, <1>9, <1>10, SameInput

-----------------------------------------------------------------------------
(* Units follow each other as the frames they are parts of.                *)

\* v can be what follows the first n - 1 frames: a unit of the next frame, or
\* the Close with which the peer answers.
Starts(fr, v, n) ==
    \/ v.op = "close"
    \/ v.op = "part" /\ v.id = 0
    \/ v.id = n /\ n \in DOMAIN fr /\ v.op \in {"part", fr[n]}

\* The frame that is to follow u; what follows a Close is never decoded.
NextId(u) == IF u.op = "part" THEN u.id ELSE u.id + 1
Link(fr, u, v) == u.op = "close" \/ Starts(fr, v, NextId(u))

\* q continues, behind its first k units, where frame p ends.
Chain(fr, p, q, k) ==
    /\ k < Len(q) => Starts(fr, q[k + 1], p + 1)
    /\ \A i \in k + 1 .. Len(q) - 1 : Link(fr, q[i], q[i + 1])

\* There is nothing of the TLS handshake or of the request behind the first k.
Plain(q, k) == \A i \in k + 1 .. Len(q) : q[i].op \in Ops \cup {"part"}

\* Taking units from the front moves the place.
LEMMA ChainDrop ==
    ASSUME NEW fr, NEW p, NEW q \in Inputs, NEW k \in Nat, NEW m \in Nat, NEW j \in Nat,
           k = m + j, k <= Len(q), Chain(fr, p, q, k)
    PROVE  Chain(fr, p, Drop(q, m), j)
<1>1. PICK l \in Nat : l = Len(q)
  BY DEF Inputs
<1>2. PICK z \in Nat : z = l - m /\ m <= l /\ j <= z
  <2>1. l - m \in Nat /\ m <= l /\ j <= l - m
    BY <1>1
  <2> QED
    BY <2>1
<1>3. PICK d : d = Drop(q, m)
  OBVIOUS
<1>4. Len(d) = z /\ \A i \in 1 .. z : d[i] = q[m + i]
  <2>1. m \in 0 .. Len(q)
    BY <1>1, <1>2
  <2>2. Len(Drop(q, m)) = Len(q) - m /\ \A i \in 1 .. Len(q) - m : Drop(q, m)[i] = q[m + i]
    BY <2>1, CutFacts
  <2> QED
    BY <1>1, <1>2, <1>3, <2>2
<1>5. (k < l => Starts(fr, q[k + 1], p + 1)) /\ \A i \in k + 1 .. l - 1 : Link(fr, q[i], q[i + 1])
  BY <1>1 DEF Chain
<1>6. j < z => Starts(fr, d[j + 1], p + 1)
  <2>1. SUFFICES ASSUME j < z PROVE Starts(fr, d[j + 1], p + 1)
    OBVIOUS
  <2>2. j + 1 \in 1 .. z /\ m + (j + 1) = k + 1 /\ k < l
    BY <1>2, <2>1
  <2> QED
    BY <1>4, <1>5, <2>2
<1>7. ASSUME NEW i \in j + 1 .. z - 1 PROVE Link(fr, d[i], d[i + 1])
  <2>1. /\ i \in 1 .. z /\ i + 1 \in 1 .. z /\ m + i \in k + 1 .. l - 1
        /\ m + (i + 1) = (m + i) + 1
    BY <1>2
  <2> QED
    BY <1>4, <1>5, <2>1
<1>8. Chain(fr, p, d, j)
  BY <1>4, <1>6, <1>7 DEF Chain
<1> QED
  BY <1>3, <1>8

\* So does passing over them.
LEMMA ChainLater ==
    ASSUME NEW fr, NEW p, NEW r \in Nat, NEW q \in Inputs, NEW k \in Nat, NEW j \in Nat,
           k < j, j <= Len(q), Chain(fr, p, q, k), q[j].op # "close", NextId(q[j]) = r + 1
    PROVE  Chain(fr, r, q, j)
<1>1. PICK l \in Nat : l = Len(q)
  BY DEF Inputs
<1>2. \A i \in k + 1 .. l - 1 : Link(fr, q[i], q[i + 1])
  BY <1>1 DEF Chain
<1>3. j < l => Starts(fr, q[j + 1], r + 1)
  <2>1. j < l => j \in k + 1 .. l - 1
    BY <1>1
  <2> QED
    BY <1>2, <2>1 DEF Link
<1>4. \A i \in j + 1 .. l - 1 : i \in k + 1 .. l - 1
  BY <1>1
<1> QED
  BY <1>1, <1>2, <1>3, <1>4 DEF Chain

\* A beginning of a chain is one.
LEMMA ChainFirst ==
    ASSUME NEW fr, NEW p, NEW q \in Inputs, NEW r \in Inputs, Chain(fr, p, Join(q, r), 0)
    PROVE  Chain(fr, p, q, 0)
<1>1. PICK l \in Nat : l = Len(q)
  BY DEF Inputs
<1>2. PICK n \in Nat : n = Len(r)
  BY DEF Inputs
<1>3. PICK j : j = Join(q, r)
  OBVIOUS
<1>4. Len(j) = l + n /\ \A i \in 1 .. l : j[i] = q[i]
  BY <1>1, <1>2, <1>3, JoinFacts
<1>5. (0 < l + n => Starts(fr, j[0 + 1], p + 1)) /\ \A i \in 0 + 1 .. (l + n) - 1 : Link(fr, j[i], j[i + 1])
  BY <1>3, <1>4 DEF Chain
<1>6. 0 < l => Starts(fr, q[0 + 1], p + 1)
  <2>1. 0 < l => 0 < l + n /\ 0 + 1 \in 1 .. l
    OBVIOUS
  <2> QED
    BY <1>4, <1>5, <2>1
<1>7. ASSUME NEW i \in 0 + 1 .. l - 1 PROVE Link(fr, q[i], q[i + 1])
  <2>1. i \in 0 + 1 .. (l + n) - 1 /\ i \in 1 .. l /\ i + 1 \in 1 .. l
    OBVIOUS
  <2> QED
    BY <1>4, <1>5, <2>1
<1> QED
  BY <1>1, <1>6, <1>7 DEF Chain

\* Units are joined to a chain whose end they follow.
LEMMA ChainJoin ==
    ASSUME NEW fr, NEW p, NEW q \in Inputs, NEW r \in Inputs, Chain(fr, p, q, 0),
           Len(q) = 0 => Starts(fr, r[1], p + 1),
           Len(q) # 0 => Link(fr, q[Len(q)], r[1]),
           \A i \in 1 .. Len(r) - 1 : Link(fr, r[i], r[i + 1])
    PROVE  Chain(fr, p, Join(q, r), 0)
<1>1. PICK l \in Nat : l = Len(q)
  BY DEF Inputs
<1>2. PICK n \in Nat : n = Len(r)
  BY DEF Inputs
<1>3. PICK j : j = Join(q, r)
  OBVIOUS
<1>4. Len(j) = l + n /\ (\A i \in 1 .. l : j[i] = q[i]) /\ \A i \in 1 .. n : j[l + i] = r[i]
  BY <1>1, <1>2, <1>3, JoinFacts
<1>5. (0 < l => Starts(fr, q[0 + 1], p + 1)) /\ \A i \in 0 + 1 .. l - 1 : Link(fr, q[i], q[i + 1])
  BY <1>1 DEF Chain
<1>6. 0 < l + n => Starts(fr, j[0 + 1], p + 1)
  <2>1. SUFFICES ASSUME 0 < l + n PROVE Starts(fr, j[1], p + 1)
    OBVIOUS
  <2>2. CASE l = 0
    <3>1. 1 \in 1 .. n /\ l + 1 = 1
      BY <2>1, <2>2
    <3>2. j[1] = r[1]
      BY <1>4, <3>1
    <3> QED
      BY <1>1, <2>2, <3>2
  <2>3. CASE l # 0
    <3>1. 1 \in 1 .. l /\ 0 < l /\ 0 + 1 = 1
      BY <2>3
    <3> QED
      BY <1>4, <1>5, <3>1
  <2> QED
    BY <2>2, <2>3
<1>7. ASSUME NEW i \in 0 + 1 .. (l + n) - 1 PROVE Link(fr, j[i], j[i + 1])
  <2>1. CASE i < l
    <3>1. i \in 0 + 1 .. l - 1 /\ i \in 1 .. l /\ i + 1 \in 1 .. l
      BY <2>1
    <3> QED
      BY <1>4, <1>5, <3>1
  <2>2. CASE i = l
    <3>1. i \in 1 .. l /\ 1 \in 1 .. n /\ l # 0
      BY <2>2
    <3>2. j[i] = q[l] /\ j[i + 1] = r[1]
      BY <1>4, <2>2, <3>1
    <3> QED
      BY <1>1, <3>1, <3>2
  <2>3. CASE i > l
    <3>1. PICK m \in 1 .. n - 1 : i = l + m
      <4>1. i - l \in 1 .. n - 1 /\ i = l + (i - l)
        BY <2>3
      <4> QED
        BY <4>1
    <3>2. m \in 1 .. n /\ m + 1 \in 1 .. n /\ i + 1 = l + (m + 1)
      BY <3>1
    <3>3. j[i] = r[m] /\ j[i + 1] = r[m + 1]
      BY <1>4, <3>1, <3>2
    <3> QED
      BY <1>2, <3>1, <3>3
  <2> QED
    BY <2>1, <2>2, <2>3
<1>8. Chain(fr, p, j, 0)
  BY <1>4, <1>6, <1>7 DEF Chain
<1> QED
  BY <1>3, <1>8

\* What is before a chain moves its place.
LEMMA ChainBehind ==
    ASSUME NEW fr, NEW p, NEW h \in Inputs, NEW q \in Inputs, Chain(fr, p, q, 0), Plain(q, 0)
    PROVE  Chain(fr, p, Join(h, q), Len(h)) /\ Plain(Join(h, q), Len(h))
<1>1. PICK l \in Nat : l = Len(h)
  BY DEF Inputs
<1>2. PICK n \in Nat : n = Len(q)
  BY DEF Inputs
<1>3. PICK j : j = Join(h, q)
  OBVIOUS
<1>4. Len(j) = l + n /\ \A i \in 1 .. n : j[l + i] = q[i]
  BY <1>1, <1>2, <1>3, JoinFacts
<1>5. /\ 0 < n => Starts(fr, q[0 + 1], p + 1)
      /\ \A i \in 0 + 1 .. n - 1 : Link(fr, q[i], q[i + 1])
      /\ \A i \in 0 + 1 .. n : q[i].op \in Ops \cup {"part"}
  BY <1>2 DEF Chain, Plain
<1>6. l < l + n => Starts(fr, j[l + 1], p + 1)
  <2>1. l < l + n => 0 < n /\ 1 \in 1 .. n /\ 0 + 1 = 1
    OBVIOUS
  <2> QED
    BY <1>4, <1>5, <2>1
<1>7. ASSUME NEW i \in l + 1 .. (l + n) - 1 PROVE Link(fr, j[i], j[i + 1])
  <2>1. PICK m \in 0 + 1 .. n - 1 : i = l + m
    <3>1. i - l \in 0 + 1 .. n - 1 /\ i = l + (i - l)
      OBVIOUS
    <3> QED
      BY <3>1
  <2>2. m \in 1 .. n /\ m + 1 \in 1 .. n /\ i + 1 = l + (m + 1)
    BY <2>1
  <2> QED
    BY <1>4, <1>5, <2>1, <2>2
<1>8. ASSUME NEW i \in l + 1 .. l + n PROVE j[i].op \in Ops \cup {"part"}
  <2>1. PICK m \in 1 .. n : i = l + m
    <3>1. i - l \in 1 .. n /\ i = l + (i - l)
      OBVIOUS
    <3> QED
      BY <3>1
  <2> QED
    BY <1>4, <1>5, <2>1
<1>9. Chain(fr, p, j, l) /\ Plain(j, l)
  BY <1>4, <1>6, <1>7, <1>8 DEF Chain, Plain
<1> QED
  BY <1>1, <1>3, <1>9

\* The same, of what is decoded only.
LEMMA PlainDrop ==
    ASSUME NEW q \in Inputs, NEW k \in Nat, NEW m \in Nat, NEW j \in Nat,
           k = m + j, k <= Len(q), Plain(q, k)
    PROVE  Plain(Drop(q, m), j)
<1>1. PICK l \in Nat : l = Len(q)
  BY DEF Inputs
<1>2. PICK z \in Nat : z = l - m /\ m <= l /\ j <= z
  <2>1. l - m \in Nat /\ m <= l /\ j <= l - m
    BY <1>1
  <2> QED
    BY <2>1
<1>3. PICK d : d = Drop(q, m)
  OBVIOUS
<1>4. Len(d) = z /\ \A i \in 1 .. z : d[i] = q[m + i]
  <2>1. m \in 0 .. Len(q)
    BY <1>1, <1>2
  <2>2. Len(Drop(q, m)) = Len(q) - m /\ \A i \in 1 .. Len(q) - m : Drop(q, m)[i] = q[m + i]
    BY <2>1, CutFacts
  <2> QED
    BY <1>1, <1>2, <1>3, <2>2
<1>5. ASSUME NEW i \in j + 1 .. z PROVE d[i].op \in Ops \cup {"part"}
  <2>1. i \in 1 .. z /\ m + i \in k + 1 .. l
    BY <1>2
  <2> QED
    BY <1>1, <1>4, <2>1 DEF Plain
<1> QED
  BY <1>3, <1>4, <1>5 DEF Plain

-----------------------------------------------------------------------------
(* What leaves the input of a slot alone.                                  *)

\* The slot without its bounds.
AnySlots ==
    [live : BOOLEAN, flags : FlagSets, ws : WsStates, out : Outputs,
     barrier : Barriers, inbound : Inputs, wire : Inputs, decoded : Numbers,
     fragment : Numbers, gate : Gates, writes : Nat, sends : Nat]

\* The upgrade is still to come.
Idle(s) == ~Ready(s) /\ Has(s, "ENABLE_WEBSOCKET")

SameStages(s, t) ==
    /\ t.wire = s.wire /\ t.inbound = s.inbound
    /\ t.decoded = s.decoded /\ t.fragment = s.fragment

SameTransport(s, t) ==
    \A f \in {"ENABLE_WEBSOCKET", "TLS_ESTABLISHED"} : Has(t, f) <=> Has(s, f)

\* From s to t the input stayed as it was, or the slot was removed.
Carries(s, t) ==
    /\ t \in AnySlots
    /\ Ready(t) <=> Ready(s)
    /\ t.live => s.live /\ SameStages(s, t) /\ SameTransport(s, t)
    /\ t.live /\ Idle(s) /\ s.out = <<>> => t.out = <<>>

\* One after the other.
LEMMA CarriesTrans ==
    ASSUME NEW r, NEW s, NEW t, Carries(r, s), Carries(s, t)
    PROVE  Carries(r, t)
BY DEF Carries, SameStages, SameTransport, Idle

\* Nothing happens.
LEMMA CarriesSelf ==
    ASSUME NEW s \in AnySlots
    PROVE  Carries(s, s)
BY DEF Carries, SameStages, SameTransport

\* Other flags.
LEMMA CarriesFlag ==
    ASSUME NEW s \in AnySlots, NEW f \in Flags \ {"ENABLE_WEBSOCKET", "TLS_ESTABLISHED"}
    PROVE  Carries(s, Raise(s, f)) /\ Carries(s, Clear(s, f))
<1>1. s.flags \cup {f} \in FlagSets /\ s.flags \ {f} \in FlagSets
  BY DEF AnySlots, FlagSets
<1>2. /\ Raise(s, f) = [s EXCEPT !.flags = s.flags \cup {f}]
      /\ Clear(s, f) = [s EXCEPT !.flags = s.flags \ {f}]
  BY DEF Raise, Clear
<1>3. PICK a : a = s.flags \cup {f} /\ a \in FlagSets
  BY <1>1
<1>4. PICK b : b = s.flags \ {f} /\ b \in FlagSets
  BY <1>1
<1>5. PICK t : t = [s EXCEPT !.flags = a]
  OBVIOUS
<1>6. PICK u : u = [s EXCEPT !.flags = b]
  OBVIOUS
<1>7. Carries(s, t)
  BY <1>3, <1>5 DEF Carries, SameStages, SameTransport, AnySlots, Ready, Has
<1>8. Carries(s, u)
  BY <1>4, <1>6 DEF Carries, SameStages, SameTransport, AnySlots, Ready, Has
<1> QED
  BY <1>2, <1>3, <1>4, <1>5, <1>6, <1>7, <1>8

\* Output, the gate and the counters.
LEMMA CarriesField ==
    ASSUME NEW s \in AnySlots
    PROVE  /\ \A v \in Outputs : ~Idle(s) \/ v = <<>> => Carries(s, [s EXCEPT !.out = v])
           /\ \A v \in Barriers : Carries(s, [s EXCEPT !.barrier = v])
           /\ \A v \in Gates : Carries(s, [s EXCEPT !.gate = v])
           /\ \A v \in Nat : Carries(s, [s EXCEPT !.writes = v])
           /\ \A v \in Nat : Carries(s, [s EXCEPT !.sends = v])
           /\ \A v \in WsStates \ {"handshake"} : Ready(s) => Carries(s, [s EXCEPT !.ws = v])
<1>1. ASSUME NEW v \in Outputs, ~Idle(s) \/ v = <<>> PROVE Carries(s, [s EXCEPT !.out = v])
  BY <1>1 DEF Carries, SameStages, SameTransport, AnySlots, Ready, Has, Idle
<1>2. ASSUME NEW v \in Barriers PROVE Carries(s, [s EXCEPT !.barrier = v])
  BY DEF Carries, SameStages, SameTransport, AnySlots, Ready, Has, Idle
<1>3. ASSUME NEW v \in Gates PROVE Carries(s, [s EXCEPT !.gate = v])
  BY DEF Carries, SameStages, SameTransport, AnySlots, Ready, Has, Idle
<1>4. ASSUME NEW v \in Nat PROVE Carries(s, [s EXCEPT !.writes = v]) /\ Carries(s, [s EXCEPT !.sends = v])
  BY DEF Carries, SameStages, SameTransport, AnySlots, Ready, Has, Idle
<1>5. ASSUME NEW v \in WsStates \ {"handshake"}, Ready(s) PROVE Carries(s, [s EXCEPT !.ws = v])
  BY <1>5 DEF Carries, SameStages, SameTransport, AnySlots, Ready, Has, Idle
<1> QED
  BY <1>1, <1>2, <1>3, <1>4, <1>5

\* comm_buffered_write_raw_comm
LEMMA CarriesRawWrite ==
    ASSUME NEW s \in AnySlots, NEW u \in OutUnits, ~Idle(s)
    PROVE  Carries(s, RawWrite(s, u)) /\ RawWrite(s, u).live = s.live
<1>1. CASE Len(s.out) >= OutCap
  BY <1>1, CarriesSelf DEF RawWrite
<1>2. CASE ~(Len(s.out) >= OutCap)
  <2>1. PICK v \in Outputs : v = Append(s.out, u)
    <3>1. s.out \in Seq(OutUnits)
      BY DEF AnySlots, Outputs
    <3>2. Append(s.out, u) \in Seq(OutUnits)
      BY <3>1, AppendProperties
    <3> QED
      BY <3>2 DEF Outputs
  <2>2. PICK t : t = [s EXCEPT !.out = v]
    OBVIOUS
  <2>3. Carries(s, t) /\ t.live = s.live /\ t \in AnySlots
    BY <2>2, CarriesField DEF Carries, AnySlots
  <2>4. RawWrite(s, u) = Raise(t, "BUFFERED_WRITE")
    BY <1>2, <2>1, <2>2 DEF RawWrite
  <2>5. "BUFFERED_WRITE" \in Flags \ {"ENABLE_WEBSOCKET", "TLS_ESTABLISHED"}
    BY DEF Flags
  <2>6. PICK r : r = Raise(t, "BUFFERED_WRITE")
    OBVIOUS
  <2>7. Carries(t, r)
    BY <2>3, <2>5, <2>6, CarriesFlag
  <2>8. r.live = t.live
    BY <2>3, <2>6 DEF Raise, AnySlots
  <2> QED
    BY <2>3, <2>4, <2>6, <2>7, <2>8, CarriesTrans
<1> QED
  BY <1>1, <1>2

\* comm_buffered_write
LEMMA CarriesWrite ==
    ASSUME NEW s \in AnySlots
    PROVE  Carries(s, Write(s)) /\ Write(s).live = s.live
<1>1. PICK n \in Nat : n = s.writes + 1
  BY DEF AnySlots
<1>2. PICK w : w = [s EXCEPT !.writes = n]
  OBVIOUS
<1>3. Carries(s, w) /\ w.live = s.live /\ w \in AnySlots /\ w.writes = n /\ w.ws = s.ws
      /\ w.flags = s.flags
  BY <1>2, CarriesField DEF Carries, AnySlots
<1>4. w = [s EXCEPT !.writes = @ + 1]
  BY <1>1, <1>2
<1>5. PICK u \in OutUnits : u = Frame("data", n)
  BY DEF Frame, OutUnits, OutOps
<1>6. PICK r \in OutUnits : r = Frame("raw", n)
  BY DEF Frame, OutUnits, OutOps
<1>7. Write(s) = CASE s.ws = "close_sent" -> w
      [] Has(s, "ENABLE_WEBSOCKET") /\ ~Ready(s) -> AppendBarrier(w, u)
      [] Ready(s) /\ s.ws # "close_sent" -> RawWrite(w, u)
      [] OTHER -> RawWrite(w, r)
  BY <1>3, <1>4, <1>5, <1>6 DEF Write
<1>8. CASE s.ws = "close_sent"
  <2>1. Write(s) = w
    BY <1>7, <1>8 DEF Ready
  <2> QED
    BY <1>3, <2>1
<1>9. CASE s.ws # "close_sent" /\ Idle(s)
  <2>1. Write(s) = AppendBarrier(w, u)
    BY <1>7, <1>9 DEF Idle
  <2>2. CASE Len(w.barrier) >= OutCap
    BY <1>3, <2>1, <2>2 DEF AppendBarrier
  <2>3. CASE ~(Len(w.barrier) >= OutCap)
    <3>1. PICK v \in Barriers : v = Append(w.barrier, u)
      <4>1. u \in DataUnits
        BY <1>5 DEF Frame, DataUnits
      <4>2. w.barrier \in Seq(DataUnits)
        BY <1>3 DEF AnySlots, Barriers
      <4>3. Append(w.barrier, u) \in Seq(DataUnits)
        BY <4>1, <4>2, AppendProperties
      <4> QED
        BY <4>3 DEF Barriers
    <3>2. PICK t : t = [w EXCEPT !.barrier = v]
      OBVIOUS
    <3>3. Carries(w, t) /\ t.live = w.live
      BY <1>3, <3>2, CarriesField DEF AnySlots
    <3>4. Write(s) = t
      BY <2>1, <2>3, <3>1, <3>2 DEF AppendBarrier
    <3> QED
      BY <1>3, <3>3, <3>4, CarriesTrans
  <2> QED
    BY <2>2, <2>3
<1>10. CASE s.ws # "close_sent" /\ ~Idle(s)
  <2>1. ~Idle(w)
    BY <1>3, <1>10 DEF Idle, Ready, Has
  <2>2. Write(s) = RawWrite(w, u) \/ Write(s) = RawWrite(w, r)
    BY <1>7, <1>10 DEF Idle, Ready
  <2>3. /\ Carries(w, RawWrite(w, u)) /\ RawWrite(w, u).live = w.live
        /\ Carries(w, RawWrite(w, r)) /\ RawWrite(w, r).live = w.live
    BY <1>3, <2>1, CarriesRawWrite
  <2> QED
    BY <1>3, <2>2, <2>3, CarriesTrans
<1> QED
  BY <1>8, <1>9, <1>10

\* What a hook that runs inline writes.
LEMMA CarriesWritten ==
    ASSUME NEW s \in AnySlots, NEW t \in Written(s)
    PROVE  Carries(s, t) /\ t.live = s.live
<1>1. t = s \/ t = Write(s)
  BY DEF Written
<1> QED
  BY <1>1, CarriesSelf, CarriesWrite

\* comm_websocket_queue_close
LEMMA CarriesQueueClose ==
    ASSUME NEW s \in AnySlots, Ready(s), NEW op \in {"close", "reply"}
    PROVE  Carries(s, QueueClose(s, op)) /\ QueueClose(s, op).live = s.live
<1>1. CASE CloseBegun(s)
  BY <1>1, CarriesSelf DEF QueueClose
<1>2. CASE ~CloseBegun(s)
  <2>1. PICK u \in OutUnits : u = Frame(op, 0)
    BY DEF Frame, OutUnits, OutOps
  <2>2. PICK r : r = RawWrite(s, u)
    OBVIOUS
  <2>3. Carries(s, r) /\ r.live = s.live
    BY <2>2, CarriesRawWrite DEF Idle
  <2>4. r \in AnySlots /\ Ready(r)
    BY <2>3 DEF Carries
  <2>5. PICK t : t = [r EXCEPT !.ws = "close_sent"]
    OBVIOUS
  <2>6. "close_sent" \in WsStates \ {"handshake"}
    BY DEF WsStates
  <2>7. Carries(r, t) /\ t.live = r.live
    BY <2>4, <2>5, <2>6, CarriesField DEF AnySlots
  <2>8. QueueClose(s, op) = t
    BY <1>2, <2>1, <2>2, <2>5 DEF QueueClose
  <2> QED
    BY <2>3, <2>7, <2>8, CarriesTrans
<1> QED
  BY <1>1, <1>2

\* comm_free_outbound_buffers
LEMMA CarriesFree ==
    ASSUME NEW s \in AnySlots
    PROVE  Carries(s, FreeOutbound(s)) /\ FreeOutbound(s).live = s.live
<1>1. <<>> \in Outputs /\ <<>> \in Barriers
  BY DEF Outputs, Barriers
<1>2. PICK r : r = [s EXCEPT !.out = <<>>]
  OBVIOUS
<1>3. Carries(s, r) /\ r \in AnySlots /\ r.live = s.live
  BY <1>1, <1>2, CarriesField DEF Carries, AnySlots
<1>4. PICK t : t = [r EXCEPT !.barrier = <<>>]
  OBVIOUS
<1>5. Carries(r, t) /\ t.live = r.live
  BY <1>1, <1>3, <1>4, CarriesField DEF AnySlots
<1>6. FreeOutbound(s) = t
  BY <1>2, <1>4 DEF FreeOutbound, AnySlots
<1> QED
  BY <1>3, <1>5, <1>6, CarriesTrans

\* A slot that is removed.
LEMMA CarriesRemoved ==
    ASSUME NEW s \in AnySlots
    PROVE  LET t == [FreeOutbound(s) EXCEPT !.live = FALSE, !.inbound = <<>>, !.wire = <<>>,
                                 !.decoded = <<>>, !.fragment = <<>>, !.flags = {}] IN
           Carries(s, t) /\ ~t.live
<1>1. PICK d : d = FreeOutbound(s)
  OBVIOUS
<1>2. d \in AnySlots /\ (Ready(d) <=> Ready(s))
  BY <1>1, CarriesFree DEF Carries
<1>3. <<>> \in Inputs /\ <<>> \in Numbers /\ {} \in FlagSets
  BY DEF Inputs, Numbers, FlagSets
<1>4. PICK t : t = [d EXCEPT !.live = FALSE, !.inbound = <<>>, !.wire = <<>>,
                             !.decoded = <<>>, !.fragment = <<>>, !.flags = {}]
  OBVIOUS
<1>5. t \in AnySlots /\ t.live = FALSE /\ t.ws = d.ws
  BY <1>2, <1>3, <1>4 DEF AnySlots
<1>6. Carries(s, t)
  BY <1>2, <1>5 DEF Carries, Ready
<1> QED
  BY <1>1, <1>4, <1>5, <1>6

\* The rest of comm_close_impl
LEMMA CarriesTeardown ==
    ASSUME NEW s \in AnySlots
    PROVE  Carries(s, Teardown(s))
<1> DEFINE freed == Clear(FreeOutbound(s), "BUFFERED_WRITE")
           preTls == session.tls /\ ~Has(s, "TLS_ESTABLISHED")
<1>1. PICK d : d = IF Has(s, "BUFFERED_WRITE") /\ preTls THEN freed ELSE s
  OBVIOUS
<1>2. Carries(s, freed)
  <2>1. PICK e : e = FreeOutbound(s)
    OBVIOUS
  <2>2. Carries(s, e) /\ e \in AnySlots
    BY <2>1, CarriesFree DEF Carries
  <2>3. "BUFFERED_WRITE" \in Flags \ {"ENABLE_WEBSOCKET", "TLS_ESTABLISHED"}
    BY DEF Flags
  <2>4. Carries(e, Clear(e, "BUFFERED_WRITE"))
    BY <2>2, <2>3, CarriesFlag
  <2> QED
    BY <2>1, <2>2, <2>4, CarriesTrans
<1>3. Carries(s, d) /\ d \in AnySlots
  BY <1>1, <1>2, CarriesSelf DEF Carries
<1>4. PICK x : x = [FreeOutbound(d) EXCEPT !.live = FALSE, !.inbound = <<>>, !.wire = <<>>,
                                 !.decoded = <<>>, !.fragment = <<>>, !.flags = {}]
  OBVIOUS
<1>5. \/ Teardown(s) = s \/ Teardown(s) = d
      \/ Ready(d) /\ Teardown(s) = QueueClose(d, "close")
      \/ Teardown(s) = x
  BY <1>1, <1>4 DEF Teardown
<1>6. Carries(d, x)
  BY <1>3, <1>4, CarriesRemoved
<1>7. Ready(d) => Carries(d, QueueClose(d, "close"))
  BY <1>3, CarriesQueueClose
<1> QED
  BY <1>3, <1>5, <1>6, <1>7, CarriesSelf, CarriesTrans

\* Queueing a hook.
LEMMA CarriesEnqueue ==
    ASSUME NEW s \in AnySlots, NEW hook \in Hooks
    PROVE  Carries(s, Enqueue(s, hook)) /\ Enqueue(s, hook) \in AnySlots
<1>1. s.gate \in Seq(Hooks)
  BY DEF AnySlots, Gates
<1>2. Append(s.gate, hook) \in Seq(Hooks)
  BY <1>1, AppendProperties
<1>3. PICK v \in Gates : v = Append(s.gate, hook)
  BY <1>2 DEF Gates
<1>4. Enqueue(s, hook) = [s EXCEPT !.gate = v]
  BY <1>3 DEF Enqueue
<1> QED
  BY <1>4, CarriesField DEF Carries

\* HOOK_DISCONNECT, and then the rest.
LEMMA CarriesClose ==
    ASSUME NEW s \in AnySlots, NEW t \in Close(s), strict \in BOOLEAN
    PROVE  Carries(s, t)
<1>1. /\ {"CLOSING", "DISCONNECT_PENDING", "AWAITING_HOOK"}
           \subseteq Flags \ {"ENABLE_WEBSOCKET", "TLS_ESTABLISHED"}
      /\ "disconnect" \in Hooks
  BY DEF Flags, Hooks
<1>2. PICK a : a = Raise(s, "CLOSING")
  OBVIOUS
<1>3. Carries(s, a) /\ a \in AnySlots
  BY <1>1, <1>2, CarriesFlag DEF Carries
<1>4. PICK c : c = Clear(a, "DISCONNECT_PENDING")
  OBVIOUS
<1>5. Carries(s, c) /\ c \in AnySlots
  <2>1. Carries(a, c)
    BY <1>1, <1>3, <1>4, CarriesFlag
  <2> QED
    BY <1>3, <2>1, CarriesTrans DEF Carries
<1>6. ASSUME NEW d \in DispatchDisconnect(s) PROVE Carries(s, d)
  <2>1. DispatchDisconnect(s) =
          CASE strict -> Written(c)
            [] ~strict /\ GateTakes(s) -> {Raise(Enqueue(c, "disconnect"), "AWAITING_HOOK")}
            [] OTHER -> {Raise(Clear(c, "AWAITING_HOOK"), "DISCONNECT_PENDING")}
    BY <1>2, <1>4 DEF DispatchDisconnect
  <2>2. CASE strict
    <3>1. d \in Written(c)
      BY <1>6, <2>1, <2>2
    <3> QED
      BY <1>5, <3>1, CarriesWritten, CarriesTrans
  <2>3. CASE ~strict /\ GateTakes(s)
    <3>1. PICK e : e = Enqueue(c, "disconnect")
      OBVIOUS
    <3>2. d = Raise(e, "AWAITING_HOOK")
      BY <1>6, <2>1, <2>3, <3>1
    <3>3. Carries(c, e) /\ e \in AnySlots
      BY <1>1, <1>5, <3>1, CarriesEnqueue
    <3>4. Carries(e, d)
      BY <1>1, <3>2, <3>3, CarriesFlag
    <3> QED
      BY <1>5, <3>3, <3>4, CarriesTrans
  <2>4. CASE ~strict /\ ~GateTakes(s)
    <3>1. PICK e : e = Clear(c, "AWAITING_HOOK")
      OBVIOUS
    <3>2. d = Raise(e, "DISCONNECT_PENDING")
      BY <1>6, <2>1, <2>4, <3>1
    <3>3. Carries(c, e) /\ e \in AnySlots
      BY <1>1, <1>5, <3>1, CarriesFlag DEF Carries
    <3>4. Carries(e, d)
      BY <1>1, <3>2, <3>3, CarriesFlag
    <3> QED
      BY <1>5, <3>3, <3>4, CarriesTrans
  <2> QED
    BY <2>2, <2>3, <2>4
<1>7. t = s \/ t = Teardown(s) \/ \E d \in DispatchDisconnect(s) : t = Teardown(d)
  BY s.live \in BOOLEAN DEF Close, AnySlots
<1>8. CASE \E d \in DispatchDisconnect(s) : t = Teardown(d)
  <2>1. PICK d \in DispatchDisconnect(s) : t = Teardown(d)
    BY <1>8
  <2>2. Carries(s, d) /\ d \in AnySlots
    BY <1>6 DEF Carries
  <2> QED
    BY <2>1, <2>2, CarriesTeardown, CarriesTrans
<1> QED
  BY <1>7, <1>8, CarriesSelf, CarriesTeardown

\* The peer cannot answer any more.
LEMMA CarriesWithoutPeer ==
    ASSUME NEW s \in AnySlots, NEW t \in CloseWithoutPeer(s), strict \in BOOLEAN
    PROVE  Carries(s, t)
<1>1. PICK c \in Close(s) :
          t \in IF c.live /\ Has(c, "CLOSING") /\ Ready(c)
                THEN Close([c EXCEPT !.ws = "close_received"]) ELSE {c}
  BY DEF CloseWithoutPeer
<1>2. Carries(s, c) /\ c \in AnySlots
  BY CarriesClose DEF Carries
<1>3. CASE c.live /\ Has(c, "CLOSING") /\ Ready(c)
  <2>1. PICK r : r = [c EXCEPT !.ws = "close_received"]
    OBVIOUS
  <2>2. "close_received" \in WsStates \ {"handshake"}
    BY DEF WsStates
  <2>3. Carries(c, r) /\ r \in AnySlots
    BY <1>2, <1>3, <2>1, <2>2, CarriesField DEF Carries
  <2>4. Carries(r, t)
    BY <1>1, <1>3, <2>1, <2>3, CarriesClose
  <2> QED
    BY <1>2, <2>3, <2>4, CarriesTrans
<1>4. CASE ~(c.live /\ Has(c, "CLOSING") /\ Ready(c))
  BY <1>1, <1>2, <1>4
<1> QED
  BY <1>3, <1>4

\* comm_invoke_transport_ready
LEMMA CarriesTransportReady ==
    ASSUME NEW s \in AnySlots, NEW t \in TransportReady(s), strict \in BOOLEAN
    PROVE  Carries(s, t)
<1>1. /\ {"TRANSPORT_READY", "AWAITING_HOOK"} \subseteq Flags \ {"ENABLE_WEBSOCKET", "TLS_ESTABLISHED"}
      /\ "ready" \in Hooks
  BY DEF Flags, Hooks
<1>2. \/ t = s
      \/ strict /\ t \in Written(Raise(s, "TRANSPORT_READY"))
      \/ t = Raise(Raise(Enqueue(s, "ready"), "TRANSPORT_READY"), "AWAITING_HOOK")
      \/ t = Clear(s, "AWAITING_HOOK")
  BY DEF TransportReady
<1>3. CASE t \in Written(Raise(s, "TRANSPORT_READY"))
  <2>1. PICK r : r = Raise(s, "TRANSPORT_READY")
    OBVIOUS
  <2>2. Carries(s, r) /\ r \in AnySlots
    BY <1>1, <2>1, CarriesFlag DEF Carries
  <2> QED
    BY <1>3, <2>1, <2>2, CarriesWritten, CarriesTrans
<1>4. CASE t = Raise(Raise(Enqueue(s, "ready"), "TRANSPORT_READY"), "AWAITING_HOOK")
  <2>1. PICK e : e = Enqueue(s, "ready")
    OBVIOUS
  <2>2. Carries(s, e) /\ e \in AnySlots
    BY <1>1, <2>1, CarriesEnqueue
  <2>3. PICK r : r = Raise(e, "TRANSPORT_READY")
    OBVIOUS
  <2>4. Carries(e, r) /\ r \in AnySlots
    BY <1>1, <2>2, <2>3, CarriesFlag DEF Carries
  <2>5. Carries(r, t)
    BY <1>1, <1>4, <2>1, <2>3, <2>4, CarriesFlag
  <2> QED
    BY <2>2, <2>4, <2>5, CarriesTrans
<1>5. CASE t = Clear(s, "AWAITING_HOOK")
  BY <1>1, <1>5, CarriesFlag
<1> QED
  BY <1>2, <1>3, <1>4, <1>5, CarriesSelf

-----------------------------------------------------------------------------
(* What decoding does with the fragments.                                  *)

\* Input no frame of which was taken yet.
Steady(s, t) ==
    /\ t.live = s.live /\ t.wire = s.wire /\ t.inbound = s.inbound
    /\ t.decoded = s.decoded /\ SameTransport(s, t)

\* A frame that ends the decoding for good, with or without a message begun.
Blocks(some, op) ==
    \/ op \in Refused \cup {"close"}
    \/ op \in {"cont", "last"} /\ ~some
    \/ op \in {"msg", "first", "subneg"} /\ some

\* A unit that is taken by a decoder that has decided nothing yet.
Goes(a, u, b) ==
    /\ b.verdict = "more"
    /\ \/ u.op = "part" /\ b.used = a.used /\ b.s.fragment = a.s.fragment
       \/ /\ b.used = b.at
          /\ \/ u.op \in {"ping", "pong"} /\ b.s.fragment = a.s.fragment
             \/ /\ u.op = "cont" /\ a.s.fragment # <<>>
                /\ b.s.fragment = Append(a.s.fragment, u.id)
             \/ u.op = "first" /\ a.s.fragment = <<>> /\ b.s.fragment = <<u.id>>

\* A message is complete.
Completes(a, u, b) ==
    /\ b.verdict = "message" /\ b.used = b.at /\ b.s.fragment = <<>>
    /\ \/ u.op = "last" /\ a.s.fragment # <<>> /\ b.message = Append(a.s.fragment, u.id)
       \/ /\ u.op \notin {"part", "close", "ping", "pong", "cont", "first", "last"} \cup Refused
          /\ a.s.fragment = <<>> /\ b.message = <<u.id>>

\* The decoding ends.
Ends(a, u, b) ==
    /\ b.verdict \in {"closed", "refused"} /\ b.s.fragment = a.s.fragment
    /\ u.op # "part"
    /\ u.op \in Ops => Blocks(a.s.fragment # <<>>, u.op)

Takes(a, u, b) == Goes(a, u, b) \/ Completes(a, u, b) \/ Ends(a, u, b)

\* A frame changes only the fragment, the output and the Close handshake.
LEMMA FrameTaken ==
    ASSUME NEW h \in Outputs, NEW b \in BOOLEAN, NEW tls \in BOOLEAN,
           NEW a \in Decoders(h, b, tls), NEW u \in InUnits,
           a.verdict = "more", u.op # "part", a.used = a.at
    PROVE  /\ Takes(a, u, TakeFrame(a, u)) /\ TakeFrame(a, u).at = a.at
           /\ Steady(a.s, TakeFrame(a, u).s)
<1> DEFINE s == a.s
           frag == a.s.fragment
           more == Append(frag, u.id)
<1>1. /\ s \in Slots /\ s \in AnySlots /\ s.live /\ Ready(s) /\ frag \in Numbers /\ u.id \in Nat
      /\ Steady(s, s)
  BY DecoderFields DEF Slots, AnySlots, InUnits, Open, Steady, SameTransport
<1>2. PICK v : v = a.s.fragment
  OBVIOUS
<1>3. DOMAIN a = {"verdict", "s", "at", "used", "message"} /\ a.at \in Nat
  BY DEF Decoders
<1> DEFINE refuse == \/ u.op \in {"header", "toobig"}
                     \/ /\ u.op \notin {"close", "ping", "pong"}
                        /\ (u.op \in {"cont", "last"}) = (frag = <<>>)
                     \/ u.op = "notutf8"
<1>4. CASE refuse
  <2>1. PICK r : r = [a EXCEPT !.verdict = "refused"]
    OBVIOUS
  <2>2. r.verdict = "refused" /\ r.s = a.s /\ r.at = a.at
    BY <1>3, <2>1
  <2>3. u.op \in Ops => Blocks(frag # <<>>, u.op)
    BY <1>4 DEF Blocks, Ops, Refused, Data
  <2>4. Ends(a, u, r)
    BY <2>2, <2>3 DEF Ends
  <2>5. TakeFrame(a, u) = r
    BY <1>4, <2>1 DEF TakeFrame, Refuse
  <2> QED
    BY <1>1, <2>2, <2>4, <2>5 DEF Takes
<1>5. CASE ~refuse /\ u.op = "close"
  <2>1. PICK c : c = QueueClose(s, "reply")
    OBVIOUS
  <2>2. PICK t : t = [c EXCEPT !.ws = "close_received"]
    OBVIOUS
  <2>3. PICK r : r = [a EXCEPT !.s = t, !.verdict = "closed"]
    OBVIOUS
  <2>4. TakeFrame(a, u) = r
    BY <1>5, <2>1, <2>2, <2>3 DEF TakeFrame
  <2>5. Carries(s, c) /\ c.live = s.live
    BY <1>1, <2>1, CarriesQueueClose
  <2>6. c \in AnySlots /\ Ready(c)
    BY <1>1, <2>5 DEF Carries
  <2>7. Carries(c, t) /\ t.live = c.live
    BY <2>2, <2>6, CarriesField DEF AnySlots, WsStates
  <2>8. Carries(s, t) /\ t.live
    BY <1>1, <2>5, <2>7, CarriesTrans
  <2>9. Steady(s, t) /\ t.fragment = s.fragment
    BY <1>1, <2>8 DEF Carries, SameStages, Steady
  <2>10. r.verdict = "closed" /\ r.s = t /\ r.at = a.at
    BY <1>3, <2>3
  <2>11. Ends(a, u, r)
    BY <1>5, <2>9, <2>10 DEF Ends, Blocks
  <2> QED
    BY <2>4, <2>9, <2>10, <2>11 DEF Takes
<1>6. CASE ~refuse /\ u.op = "ping"
  <2>1. PICK t : t = RawWrite(s, Frame("pong", 0))
    OBVIOUS
  <2>2. PICK r : r = [a EXCEPT !.s = t]
    OBVIOUS
  <2>3. TakeFrame(a, u) = r
    BY <1>6, <2>1, <2>2 DEF TakeFrame
  <2>4. Frame("pong", 0) \in OutUnits /\ ~Idle(s)
    BY <1>1 DEF Frame, OutUnits, OutOps, Idle
  <2>5. Carries(s, t) /\ t.live = s.live
    BY <1>1, <2>1, <2>4, CarriesRawWrite
  <2>6. Steady(s, t) /\ t.fragment = s.fragment
    BY <1>1, <2>5 DEF Carries, SameStages, Steady
  <2>7. r.verdict = a.verdict /\ r.s = t /\ r.at = a.at /\ r.used = a.used
    BY <1>3, <2>2
  <2>8. Goes(a, u, r)
    BY <1>6, <2>6, <2>7 DEF Goes
  <2> QED
    BY <2>3, <2>6, <2>7, <2>8 DEF Takes
<1>7. CASE ~refuse /\ u.op = "pong"
  <2>1. TakeFrame(a, u) = a
    BY <1>7 DEF TakeFrame
  <2>2. Goes(a, u, a)
    BY <1>7 DEF Goes
  <2> QED
    BY <1>1, <2>1, <2>2 DEF Takes
<1>8. ASSUME NEW q
      PROVE  LET t == [s EXCEPT !.fragment = q] IN Steady(s, t) /\ t.fragment = q
  BY <1>1 DEF Steady, SameTransport, Has, AnySlots
<1>10. CASE ~refuse /\ u.op \in {"cont", "first"}
  <2>1. PICK q : q = IF u.op = "cont" THEN more ELSE <<u.id>>
    OBVIOUS
  <2>2. PICK t : t = [s EXCEPT !.fragment = q]
    OBVIOUS
  <2>3. PICK r : r = [a EXCEPT !.s = t]
    OBVIOUS
  <2>4. TakeFrame(a, u) = r
    BY <1>10, <2>1, <2>2, <2>3 DEF TakeFrame
  <2>5. Steady(s, t) /\ t.fragment = q
    BY <1>8, <2>2
  <2>6. r.verdict = a.verdict /\ r.s = t /\ r.at = a.at /\ r.used = a.used
    BY <1>3, <2>3
  <2>7. (u.op = "cont" => frag # <<>>) /\ (u.op = "first" => frag = <<>>)
    BY <1>10
  <2>8. Goes(a, u, r)
    BY <1>10, <2>1, <2>5, <2>6, <2>7 DEF Goes
  <2> QED
    BY <2>4, <2>5, <2>6, <2>8 DEF Takes
<1>11. CASE ~refuse /\ u.op \notin {"close", "ping", "pong", "cont", "first"}
  <2>1. PICK q : q = IF u.op = "last" THEN more ELSE <<u.id>>
    OBVIOUS
  <2>2. PICK t : t = [s EXCEPT !.fragment = <<>>]
    OBVIOUS
  <2>3. PICK r : r = [a EXCEPT !.message = q, !.s = t, !.verdict = "message"]
    OBVIOUS
  <2>4. TakeFrame(a, u) = r
    BY <1>11, <2>1, <2>2, <2>3 DEF TakeFrame, Message
  <2>5. Steady(s, t) /\ t.fragment = <<>>
    BY <1>8, <2>2
  <2>6. r.verdict = "message" /\ r.s = t /\ r.at = a.at /\ r.used = a.used /\ r.message = q
    BY <1>3, <2>3
  <2>7. (u.op = "last" => frag # <<>>) /\ (u.op # "last" => frag = <<>>) /\ u.op \notin Refused
    BY <1>11 DEF Refused
  <2>8. Completes(a, u, r)
    BY <1>11, <2>1, <2>5, <2>6, <2>7 DEF Completes
  <2> QED
    BY <2>4, <2>5, <2>6, <2>8 DEF Takes
<1> QED
  BY <1>4, <1>5, <1>6, <1>7, <1>10, <1>11

\* A unit of the wire.
LEMMA UnitTaken ==
    ASSUME NEW h \in Outputs, NEW b \in BOOLEAN, NEW tls \in BOOLEAN,
           NEW a \in Decoders(h, b, tls), NEW u \in InUnits
    PROVE  LET d == DecodeUnit(a, u) IN
           /\ Steady(a.s, d.s)
           /\ a.verdict # "more" => d = a
           /\ a.verdict = "more" => Takes(a, u, d) /\ d.at = a.at + 1
<1>1. PICK k \in Nat : k = a.at + 1
  BY DecoderFields
<1>2. PICK n : n = [a EXCEPT !.at = k]
  OBVIOUS
<1>3. n \in Decoders(h, b, tls) /\ n.at = k /\ n.s = a.s /\ n.used = a.used /\ n.verdict = a.verdict
  <2>1. [a EXCEPT !.at = k] \in Decoders(h, b, tls)
    BY SetCounts
  <2>2. [a EXCEPT !.at = k].at = k
    BY SetCounts
  <2> QED
    BY <1>2, <2>1, <2>2 DEF Decoders
<1>4. PICK m : m = [n EXCEPT !.used = k]
  OBVIOUS
<1>5. /\ m \in Decoders(h, b, tls) /\ m.at = k /\ m.s = a.s /\ m.used = k /\ m.verdict = a.verdict
  <2>1. m \in Decoders(h, b, tls)
    BY <1>3, <1>4, SetCounts
  <2> QED
    BY <1>3, <1>4, <2>1 DEF Decoders
<1>6. DecodeUnit(a, u) = IF a.verdict # "more" THEN a
                         ELSE IF u.op = "part" THEN n ELSE TakeFrame(m, u)
  BY <1>1, <1>2, <1>3, <1>4 DEF DecodeUnit
<1>7. Steady(a.s, a.s)
  BY DEF Steady, SameTransport
<1>8. CASE a.verdict # "more"
  BY <1>6, <1>7, <1>8
<1>9. CASE a.verdict = "more" /\ u.op = "part"
  <2>1. Goes(a, u, n)
    BY <1>3, <1>9 DEF Goes
  <2> QED
    BY <1>1, <1>3, <1>6, <1>7, <1>9, <2>1 DEF Takes
<1>10. CASE a.verdict = "more" /\ u.op # "part"
  <2>1. PICK d : d = TakeFrame(m, u)
    OBVIOUS
  <2>2. Takes(m, u, d) /\ d.at = k /\ Steady(m.s, d.s)
    BY <1>5, <1>10, <2>1, FrameTaken
  <2>3. Takes(a, u, d)
    BY <1>5, <1>10, <2>2 DEF Takes, Goes, Completes, Ends
  <2> QED
    BY <1>1, <1>5, <1>6, <1>10, <2>1, <2>2, <2>3
<1> QED
  BY <1>8, <1>9, <1>10

Cat(s, t) == s \o t

\* Payloads one behind the other.
LEMMA CatAppend ==
    ASSUME NEW s \in Numbers, NEW t \in Numbers, NEW x \in Nat
    PROVE  /\ Cat(s, t) \in Numbers /\ Append(t, x) \in Numbers
           /\ Cat(s, Append(t, x)) = Append(Cat(s, t), x)
<1>1. s \in Seq(Nat) /\ t \in Seq(Nat)
  BY DEF Numbers
<1>2. /\ Append(t, x) \in Seq(Nat)
      /\ s \o t \in Seq(Nat) /\ Len(s \o t) = Len(s) + Len(t)
      /\ s \o Append(t, x) \in Seq(Nat)
      /\ Len(s \o Append(t, x)) = Len(s \o t) + 1
      /\ (s \o Append(t, x))[Len(s \o t) + 1] = x
      /\ \A i \in 1 .. Len(s \o t) : (s \o Append(t, x))[i] = (s \o t)[i]
  BY <1>1, ConcatAppend
<1>3. PICK c \in Seq(Nat) : c = s \o t
  BY <1>2
<1>4. PICK l \in Seq(Nat) : l = s \o Append(t, x)
  BY <1>2
<1>5. PICK r \in Seq(Nat) : r = Append(c, x)
  <2>1. Append(c, x) \in Seq(Nat)
    BY AppendProperties
  <2> QED
    BY <2>1
<1>6. PICK n \in Nat : n = Len(c)
  BY <1>3
<1>7. Len(l) = n + 1 /\ l[n + 1] = x /\ \A i \in 1 .. n : l[i] = c[i]
  BY <1>2, <1>3, <1>4, <1>6
<1>8. Len(r) = n + 1 /\ r[n + 1] = x /\ \A i \in 1 .. n : r[i] = c[i]
  BY <1>3, <1>5, <1>6
<1>9. \A i \in 1 .. n + 1 : l[i] = r[i]
  <2>1. \A i \in 1 .. n + 1 : i = n + 1 \/ i \in 1 .. n
    OBVIOUS
  <2> QED
    BY <1>7, <1>8, <2>1
<1>10. l = r
  BY <1>7, <1>8, <1>9, SeqEqual
<1> QED
  BY <1>2, <1>3, <1>4, <1>5, <1>10 DEF Cat, Numbers

\* Concatenation of three, and with nothing.
LEMMA CatLaws ==
    /\ \A s, t, u \in Numbers : Cat(Cat(s, t), u) = Cat(s, Cat(t, u))
    /\ \A s \in Numbers : Cat(s, <<>>) = s /\ Cat(<<>>, s) = s
    /\ \A s, t \in Numbers : Cat(s, t) \in Numbers
    /\ <<>> \in Numbers
BY ConcatAssociative, ConcatEmptySeq, ConcatProperties DEF Cat, Numbers

\* A message: one frame, or a first one, continuations and a last one.
Formed(fr, d) ==
    /\ d # <<>>
    /\ fr[d[1]] \in {"msg", "first"}
    /\ fr[d[Len(d)]] \in {"msg", "last"}
    /\ \A k \in 2 .. Len(d) - 1 : fr[d[k]] = "cont"

\* The beginning of one.
Partial(fr, d) ==
    d # <<>> => fr[d[1]] = "first" /\ \A k \in 2 .. Len(d) : fr[d[k]] = "cont"

\* One frame can be a message, or begin one.
LEMMA OneFrame ==
    ASSUME NEW fr, NEW x \in Nat
    PROVE  /\ fr[x] = "msg" => Formed(fr, <<x>>)
           /\ fr[x] = "first" => Partial(fr, <<x>>)
<1>1. PICK d : d = <<x>>
  OBVIOUS
<1>2. Len(d) = 1 /\ d[1] = x /\ d # <<>>
  BY <1>1
<1>3. /\ \A k \in 2 .. Len(d) - 1 : FALSE
      /\ \A k \in 2 .. Len(d) : FALSE
  BY <1>2
<1>4. fr[x] = "msg" => Formed(fr, d)
  BY <1>2, <1>3 DEF Formed
<1>5. fr[x] = "first" => Partial(fr, d)
  BY <1>2, <1>3 DEF Partial
<1> QED
  BY <1>1, <1>4, <1>5

\* One more continues a message that has begun, or completes it.
LEMMA FrameMore ==
    ASSUME NEW fr, NEW d \in Numbers, NEW x \in Nat, d # <<>>, Partial(fr, d)
    PROVE  /\ fr[x] = "cont" => Partial(fr, Append(d, x))
           /\ fr[x] = "last" => Formed(fr, Append(d, x))
<1>1. d \in Seq(Nat)
  BY DEF Numbers
<1>2. PICK n \in Nat : n = Len(d) /\ n # 0
  BY <1>1
<1>3. PICK e \in Seq(Nat) : e = Append(d, x)
  <2>1. Append(d, x) \in Seq(Nat)
    BY <1>1, AppendProperties
  <2> QED
    BY <2>1
<1>4. Len(e) = n + 1 /\ e[n + 1] = x /\ (\A i \in 1 .. n : e[i] = d[i]) /\ e # <<>>
  BY <1>1, <1>2, <1>3
<1>5. fr[d[1]] = "first" /\ \A k \in 2 .. n : fr[d[k]] = "cont"
  BY <1>2 DEF Partial
<1>6. 1 \in 1 .. n /\ (\A k \in 2 .. n : k \in 1 .. n) /\ (n + 1) - 1 = n
      /\ (\A k \in 2 .. n + 1 : k \in 2 .. n \/ k = n + 1)
  BY <1>2
<1>7. fr[e[1]] = "first" /\ \A k \in 2 .. n : fr[e[k]] = "cont"
  BY <1>4, <1>5, <1>6
<1>8. fr[x] = "cont" => \A k \in 2 .. n + 1 : fr[e[k]] = "cont"
  BY <1>4, <1>6, <1>7
<1>9. fr[x] = "cont" => Partial(fr, e)
  BY <1>4, <1>7, <1>8 DEF Partial
<1>10. fr[x] = "last" => Formed(fr, e)
  BY <1>4, <1>6, <1>7 DEF Formed
<1> QED
  BY <1>3, <1>9, <1>10

\* The first n units do not end a message, nor do they begin one.
Quiet(w, n) == \A i \in 1 .. n : w[i].op \in {"part", "ping", "pong", "cont"}

\* Decoding will never get beyond this wire.
Stuck(frag, w) == \E k \in 1 .. Len(w) : Blocks(frag # <<>>, w[k].op) /\ Quiet(w, k - 1)

\* Where the fragment comes from: it was there, or it began on the wire.
Begun(frag, w, i) ==
    \/ Quiet(w, i)
    \/ frag # <<>> /\ \E j \in 1 .. i : w[j].op = "first" /\ Quiet(w, j - 1)

\* The frames up to p are those before the wire and the first `used` units of it.
Reached(w, p0, used, p) ==
    \/ used = 0 /\ p = p0
    \/ used \in 1 .. Len(w) /\ w[used].op \notin {"close", "part"} /\ w[used].id = p

\* Decoding got to unit i; got is the text delivered before.
Underway(fr, got, p0, w, i, used, frag) ==
    /\ Partial(fr, frag) /\ Begun(frag, w, i)
    /\ \E p \in Nat :
          /\ Reached(w, p0, used, p) /\ TextOf(fr, Cat(got, frag), p)
          /\ i < Len(w) => Starts(fr, w[i + 1], p + 1)

\* A message came out, or a subnegotiation, which is not text.
Complete(fr, got, p0, w, used, message) ==
    \E p \in Nat :
        /\ Reached(w, p0, used, p)
        /\ IF fr[message[1]] = "subneg" THEN TextOf(fr, got, p)
           ELSE Formed(fr, message) /\ TextOf(fr, Cat(got, message), p)

\* The next frame is the one that was to come.
LEMMA NextFrame ==
    ASSUME NEW fr, NEW p0, NEW w \in Inputs, Chain(fr, p0, w, 0), NEW j \in 1 .. Len(w),
           NEW p \in Nat, Starts(fr, w[j], p + 1), w[j].op \notin {"part", "close"}
    PROVE  /\ w[j].id = p + 1 /\ p + 1 \in DOMAIN fr /\ w[j].op = fr[p + 1]
           /\ Reached(w, p0, j, p + 1)
           /\ j < Len(w) => Starts(fr, w[j + 1], (p + 1) + 1)
<1>1. w[j].id = p + 1 /\ p + 1 \in DOMAIN fr /\ w[j].op = fr[p + 1]
  BY DEF Starts
<1>2. Reached(w, p0, j, p + 1)
  BY <1>1 DEF Reached
<1>3. CASE j < Len(w)
  <2>1. j \in 0 + 1 .. Len(w) - 1
    BY <1>3 DEF Inputs
  <2>2. Link(fr, w[j], w[j + 1])
    BY <2>1 DEF Chain
  <2>3. NextId(w[j]) = (p + 1) + 1
    BY <1>1 DEF NextId
  <2> QED
    BY <1>1, <1>2, <2>2, <2>3 DEF Link
<1> QED
  BY <1>1, <1>2, <1>3

\* A part of a frame is followed by its rest.
LEMMA NextPart ==
    ASSUME NEW fr \in Seq(Ops), NEW p0, NEW w \in Inputs, Chain(fr, p0, w, 0),
           NEW j \in 1 .. Len(w), NEW p \in Nat, Starts(fr, w[j], p + 1), w[j].op = "part",
           j < Len(w)
    PROVE  Starts(fr, w[j + 1], p + 1)
<1>1. j \in 0 + 1 .. Len(w) - 1
  BY DEF Inputs
<1>2. Link(fr, w[j], w[j + 1])
  BY <1>1 DEF Chain
<1>3. Starts(fr, w[j + 1], w[j].id)
  BY <1>2 DEF Link, NextId
<1>4. w[j].id = 0 \/ w[j].id = p + 1
  BY DEF Starts
<1>5. CASE w[j].id = 0
  <2>1. 0 \notin DOMAIN fr
    OBVIOUS
  <2> QED
    BY <1>3, <1>5, <2>1 DEF Starts
<1> QED
  BY <1>3, <1>4, <1>5

\* Units that begin no message.
LEMMA BegunQuiet ==
    ASSUME NEW f, NEW g, NEW w, NEW i \in Nat, NEW j \in Nat, j = i + 1, Begun(f, w, i),
           w[j].op \in {"part", "ping", "pong", "cont"}, f # <<>> => g # <<>>
    PROVE  Begun(g, w, j)
<1>1. CASE Quiet(w, i)
  <2>1. \A k \in 1 .. j : k \in 1 .. i \/ k = j
    OBVIOUS
  <2>2. Quiet(w, j)
    BY <1>1, <2>1 DEF Quiet
  <2> QED
    BY <2>2 DEF Begun
<1>2. CASE f # <<>> /\ \E k \in 1 .. i : w[k].op = "first" /\ Quiet(w, k - 1)
  <2>1. PICK k \in 1 .. i : w[k].op = "first" /\ Quiet(w, k - 1)
    BY <1>2
  <2>2. k \in 1 .. j
    OBVIOUS
  <2> QED
    BY <1>2, <2>1, <2>2 DEF Begun
<1> QED
  BY <1>1, <1>2 DEF Begun

\* The one that does.
LEMMA BegunFirst ==
    ASSUME NEW f, NEW g, NEW w, NEW i \in Nat, NEW j \in Nat, j = i + 1, Begun(f, w, i), f = <<>>,
           w[j].op = "first", g # <<>>
    PROVE  Begun(g, w, j)
<1>1. Quiet(w, i)
  BY DEF Begun
<1>2. j \in 1 .. j /\ j - 1 = i
  OBVIOUS
<1> QED
  BY <1>1, <1>2 DEF Begun

\* The one that ends the decoding: the wire has it, and is kept.
LEMMA BegunBlocks ==
    ASSUME NEW f, NEW w, NEW i \in Nat, NEW j \in 1 .. Len(w), Len(w) \in Nat, j = i + 1,
           Begun(f, w, i), Blocks(f # <<>>, w[j].op)
    PROVE  Stuck(f, w)
<1>1. CASE Quiet(w, i)
  <2>1. j - 1 = i
    OBVIOUS
  <2> QED
    BY <1>1, <2>1 DEF Stuck
<1>2. CASE f # <<>> /\ \E k \in 1 .. i : w[k].op = "first" /\ Quiet(w, k - 1)
  <2>1. PICK k \in 1 .. i : w[k].op = "first" /\ Quiet(w, k - 1)
    BY <1>2
  <2>2. k \in 1 .. Len(w)
    OBVIOUS
  <2>3. Blocks(f # <<>>, w[k].op)
    BY <1>2, <2>1 DEF Blocks
  <2> QED
    BY <2>1, <2>2, <2>3 DEF Stuck
<1> QED
  BY <1>1, <1>2 DEF Begun

\* What decoding has come to after unit i.
Flows(fr, got, p0, w, i, d) ==
    /\ d.verdict = "more" => d.at = i /\ Underway(fr, got, p0, w, i, d.used, d.s.fragment)
    /\ d.verdict = "message" =>
          d.s.fragment = <<>> /\ Complete(fr, got, p0, w, d.used, d.message)
    /\ d.verdict \in {"closed", "refused"} => Stuck(d.s.fragment, w)

\* A unit that completes nothing.
LEMMA FlowGoes ==
    ASSUME NEW fr \in Seq(Ops), NEW got \in Numbers, NEW p0 \in Nat, NEW w \in Inputs,
           Chain(fr, p0, w, 0), NEW i \in Nat, NEW j \in 1 .. Len(w), j = i + 1,
           NEW a, NEW d, a.s.fragment \in Numbers, a.at = i, d.at = j, Goes(a, w[j], d),
           Underway(fr, got, p0, w, i, a.used, a.s.fragment)
    PROVE  Flows(fr, got, p0, w, j, d)
<1>1. PICK f \in Numbers : f = a.s.fragment
  OBVIOUS
<1>2. PICK g : g = d.s.fragment
  OBVIOUS
<1>3. PICK u : u = w[j]
  OBVIOUS
<1>4. Len(w) \in Nat /\ i < Len(w)
  BY DEF Inputs
<1>5. Partial(fr, f) /\ Begun(f, w, i)
  BY <1>1 DEF Underway
<1>6. PICK p \in Nat : /\ Reached(w, p0, a.used, p) /\ TextOf(fr, Cat(got, f), p)
                       /\ Starts(fr, u, p + 1)
  BY <1>1, <1>3, <1>4 DEF Underway
<1>7. d.verdict = "more"
  BY DEF Goes
<1>8. SUFFICES Underway(fr, got, p0, w, j, d.used, g)
  BY <1>2, <1>7 DEF Flows
<1>9. CASE u.op = "part"
  <2>1. g = f /\ d.used = a.used
    BY <1>1, <1>2, <1>3, <1>9 DEF Goes
  <2>2. Begun(g, w, j)
    BY <1>3, <1>5, <1>9, <2>1, BegunQuiet
  <2>3. j < Len(w) => Starts(fr, w[j + 1], p + 1)
    BY <1>3, <1>6, <1>9, NextPart
  <2> QED
    BY <1>5, <1>6, <2>1, <2>2, <2>3 DEF Underway
<1>10. CASE u.op # "part"
  <2>1. d.used = j /\ u.op \in {"ping", "pong", "cont", "first"}
    BY <1>3, <1>10 DEF Goes
  <2>2. /\ u.id = p + 1 /\ p + 1 \in DOMAIN fr /\ u.op = fr[p + 1]
        /\ Reached(w, p0, j, p + 1)
        /\ j < Len(w) => Starts(fr, w[j + 1], (p + 1) + 1)
    BY <1>3, <1>6, <2>1, NextFrame
  <2>3. PICK n \in Nat : n = p + 1
    OBVIOUS
  <2>4. SUFFICES Partial(fr, g) /\ Begun(g, w, j) /\ TextOf(fr, Cat(got, g), n)
    BY <2>1, <2>2, <2>3 DEF Underway
  <2>5. CASE u.op \in {"ping", "pong"}
    <3>1. g = f
      BY <1>1, <1>2, <1>3, <2>5 DEF Goes
    <3>2. Begun(g, w, j)
      BY <1>3, <1>5, <2>5, <3>1, BegunQuiet
    <3>3. n \notin Text(fr)
      BY <2>2, <2>3, <2>5 DEF Text, Data
    <3>4. Cat(got, f) \in Numbers
      BY CatLaws
    <3>5. TextOf(fr, Cat(got, f), n)
      BY <1>6, <2>3, <3>3, <3>4, TextSkips
    <3> QED
      BY <1>5, <3>1, <3>2, <3>5
  <2>6. CASE u.op = "cont"
    <3>1. f # <<>> /\ g = Append(f, n)
      BY <1>1, <1>2, <1>3, <2>2, <2>3, <2>6 DEF Goes
    <3>2. g # <<>>
      BY <3>1, AppendProperties DEF Numbers
    <3>3. Begun(g, w, j)
      BY <1>3, <1>5, <2>6, <3>2, BegunQuiet
    <3>4. n \in Text(fr) /\ fr[n] = "cont"
      BY <2>2, <2>3, <2>6 DEF Text, Data
    <3>5. Partial(fr, g)
      BY <1>5, <3>1, <3>4, FrameMore
    <3>6. Cat(got, f) \in Numbers /\ Cat(got, Append(f, n)) = Append(Cat(got, f), n)
      BY CatAppend
    <3>7. TextOf(fr, Append(Cat(got, f), n), n)
      BY <1>6, <2>3, <3>4, <3>6, TextGrows
    <3> QED
      BY <3>1, <3>3, <3>5, <3>6, <3>7
  <2>7. CASE u.op = "first"
    <3>1. f = <<>> /\ g = <<n>>
      BY <1>1, <1>2, <1>3, <2>2, <2>3, <2>7 DEF Goes
    <3>2. g # <<>> /\ g = Append(f, n)
      BY <3>1
    <3>3. Begun(g, w, j)
      <4>1. w[j].op = "first" /\ j \in Nat
        BY <1>3, <1>4, <2>7
      <4>2. f = <<>> /\ g # <<>> /\ Begun(f, w, i)
        BY <1>5, <3>1, <3>2
      <4> HIDE <3>1, <3>2
      <4> QED
        BY <4>1, <4>2, BegunFirst, Zenon
    <3>4. n \in Text(fr) /\ fr[n] = "first"
      BY <2>2, <2>3, <2>7 DEF Text, Data
    <3>5. Partial(fr, g)
      BY <3>1, <3>4, OneFrame
    <3>6. Cat(got, f) \in Numbers /\ Cat(got, Append(f, n)) = Append(Cat(got, f), n)
      BY CatAppend
    <3>7. TextOf(fr, Append(Cat(got, f), n), n)
      BY <1>6, <2>3, <3>4, <3>6, TextGrows
    <3> QED
      BY <3>2, <3>3, <3>5, <3>6, <3>7
  <2> QED
    BY <2>1, <2>5, <2>6, <2>7
<1> QED
  BY <1>9, <1>10

\* A unit that completes a message.
LEMMA FlowCompletes ==
    ASSUME NEW fr \in Seq(Ops), NEW got \in Numbers, NEW p0 \in Nat, NEW w \in Inputs,
           Chain(fr, p0, w, 0), NEW i \in Nat, NEW j \in 1 .. Len(w), j = i + 1,
           NEW a, NEW d, a.s.fragment \in Numbers, a.at = i, d.at = j, Completes(a, w[j], d),
           Underway(fr, got, p0, w, i, a.used, a.s.fragment)
    PROVE  Flows(fr, got, p0, w, j, d)
<1>1. PICK f \in Numbers : f = a.s.fragment
  OBVIOUS
<1>2. PICK m : m = d.message
  OBVIOUS
<1>3. PICK u : u = w[j]
  OBVIOUS
<1>4. Len(w) \in Nat /\ i < Len(w)
  BY DEF Inputs
<1>5. Partial(fr, f)
  BY <1>1 DEF Underway
<1>6. PICK p \in Nat : TextOf(fr, Cat(got, f), p) /\ Starts(fr, u, p + 1)
  BY <1>1, <1>3, <1>4 DEF Underway
<1>7. d.verdict = "message" /\ d.s.fragment = <<>> /\ d.used = j /\ u.op \notin {"part", "close"}
  BY <1>3 DEF Completes
<1>8. /\ u.id = p + 1 /\ p + 1 \in DOMAIN fr /\ u.op = fr[p + 1]
      /\ Reached(w, p0, j, p + 1)
  BY <1>3, <1>6, <1>7, NextFrame
<1>9. PICK n \in Nat : n = p + 1
  OBVIOUS
<1>10. SUFFICES IF fr[m[1]] = "subneg" THEN TextOf(fr, got, n)
                ELSE Formed(fr, m) /\ TextOf(fr, Cat(got, m), n)
  BY <1>2, <1>7, <1>8, <1>9 DEF Flows, Complete
<1>11. Cat(got, f) \in Numbers /\ Cat(got, Append(f, n)) = Append(Cat(got, f), n)
  BY CatAppend
<1>12. n \in Text(fr) => TextOf(fr, Append(Cat(got, f), n), n)
  BY <1>6, <1>9, <1>11, TextGrows
<1>13. CASE u.op = "last"
  <2>1. f # <<>> /\ m = Append(f, n)
    BY <1>1, <1>2, <1>3, <1>8, <1>9, <1>13 DEF Completes
  <2>2. n \in Text(fr) /\ fr[n] = "last"
    BY <1>8, <1>9, <1>13 DEF Text, Data
  <2>3. Formed(fr, m)
    BY <1>5, <2>1, <2>2, FrameMore
  <2>4. TextOf(fr, Cat(got, m), n)
    BY <1>11, <1>12, <2>1, <2>2
  <2>5. fr[m[1]] # "subneg"
    BY <2>3 DEF Formed
  <2> QED
    BY <2>3, <2>4, <2>5
<1>14. CASE u.op # "last"
  <2>1. f = <<>> /\ m = <<n>> /\ u.op \notin {"part", "close", "ping", "pong", "cont", "first", "last"} \cup Refused
    BY <1>1, <1>2, <1>3, <1>8, <1>9, <1>14 DEF Completes
  <2>2. fr[n] \in Ops
    BY <1>8, <1>9
  <2>3. fr[n] \in {"msg", "subneg"} /\ m[1] = n
    BY <1>8, <1>9, <2>1, <2>2 DEF Ops, Data
  <2>4. CASE fr[n] = "subneg"
    <3>1. n \notin Text(fr)
      BY <2>4 DEF Text, Data
    <3>2. Cat(got, f) = got
      BY <2>1, CatLaws
    <3>3. TextOf(fr, got, n)
      BY <1>6, <1>9, <3>1, <3>2, TextSkips
    <3> QED
      BY <2>3, <2>4, <3>3
  <2>5. CASE fr[n] = "msg"
    <3>1. n \in Text(fr)
      BY <1>8, <1>9, <2>5 DEF Text, Data
    <3>2. m = Append(f, n)
      BY <2>1
    <3>3. TextOf(fr, Cat(got, m), n)
      BY <1>11, <1>12, <3>1, <3>2
    <3>4. Formed(fr, m)
      BY <2>1, <2>5, OneFrame
    <3> QED
      BY <2>3, <2>5, <3>3, <3>4
  <2> QED
    BY <2>3, <2>4, <2>5
<1> QED
  BY <1>13, <1>14

\* A unit that ends the decoding.
LEMMA FlowEnds ==
    ASSUME NEW fr \in Seq(Ops), NEW got \in Numbers, NEW p0 \in Nat, NEW w \in Inputs,
           Chain(fr, p0, w, 0), NEW i \in Nat, NEW j \in 1 .. Len(w), j = i + 1,
           NEW a, NEW d, a.s.fragment \in Numbers, a.at = i, d.at = j, Ends(a, w[j], d),
           Underway(fr, got, p0, w, i, a.used, a.s.fragment)
    PROVE  Flows(fr, got, p0, w, j, d)
<1>1. PICK f : f = a.s.fragment
  OBVIOUS
<1>2. Len(w) \in Nat /\ i < Len(w)
  BY DEF Inputs
<1>3. Begun(f, w, i)
  BY <1>1 DEF Underway
<1>4. PICK p \in Nat : Starts(fr, w[j], p + 1)
  BY <1>2 DEF Underway
<1>5. w[j].op \in Ops
  <2>1. w[j].op = "close" \/ (p + 1 \in DOMAIN fr /\ w[j].op = fr[p + 1])
    BY <1>4 DEF Ends, Starts
  <2> QED
    BY <2>1 DEF Ops
<1>6. Blocks(f # <<>>, w[j].op) /\ d.s.fragment = f /\ d.verdict \in {"closed", "refused"}
  BY <1>1, <1>5 DEF Ends
<1>7. Stuck(f, w)
  BY <1>2, <1>3, <1>6, BegunBlocks
<1> QED
  BY <1>6, <1>7 DEF Flows

\* Nothing but the output, the fragment and the Close handshake changes.
LEMMA SteadyTrans ==
    ASSUME NEW r, NEW s, NEW t, Steady(r, s), Steady(s, t)
    PROVE  Steady(r, t)
BY DEF Steady, SameTransport

\* A step of the decoder.
LEMMA FlowStep ==
    ASSUME NEW h \in Outputs, NEW b \in BOOLEAN, NEW tls \in BOOLEAN,
           NEW fr \in Seq(Ops), NEW got \in Numbers, NEW p0 \in Nat, NEW w \in Inputs,
           Chain(fr, p0, w, 0), NEW i \in Nat, NEW j \in 1 .. Len(w), j = i + 1,
           NEW a \in Decoders(h, b, tls), NEW d, d = DecodeUnit(a, w[j]),
           Flows(fr, got, p0, w, i, a)
    PROVE  Flows(fr, got, p0, w, j, d) /\ Steady(a.s, d.s)
<1>1. w[j] \in InUnits
  BY DEF Inputs
<1>2. /\ Steady(a.s, d.s)
      /\ a.verdict # "more" => d = a
      /\ a.verdict = "more" => Takes(a, w[j], d) /\ d.at = a.at + 1
  BY <1>1, UnitTaken
<1>3. CASE a.verdict # "more"
  BY <1>2, <1>3 DEF Flows
<1>4. CASE a.verdict = "more"
  <2>1. a.at = i /\ Underway(fr, got, p0, w, i, a.used, a.s.fragment)
    BY <1>4 DEF Flows
  <2>2. d.at = j /\ Takes(a, w[j], d)
    BY <1>2, <1>4, <2>1
  <2>3. a.s.fragment \in Numbers
    BY DecoderFields DEF Slots
  <2>4. CASE Goes(a, w[j], d)
    BY <1>2, <2>1, <2>2, <2>3, <2>4, FlowGoes
  <2>5. CASE Completes(a, w[j], d)
    BY <1>2, <2>1, <2>2, <2>3, <2>5, FlowCompletes
  <2>6. CASE Ends(a, w[j], d)
    BY <1>2, <2>1, <2>2, <2>3, <2>6, FlowEnds
  <2> QED
    BY <2>2, <2>4, <2>5, <2>6 DEF Takes
<1> QED
  BY <1>3, <1>4

\* The decoder takes the messages of the session as they come.
LEMMA DecodeFlows ==
    ASSUME NEW h \in Outputs, NEW b \in BOOLEAN, NEW tls \in BOOLEAN, NEW s,
           Open(h, b, tls, s), Ready(s),
           NEW fr \in Seq(Ops), NEW got \in Numbers, NEW p0 \in Nat, Chain(fr, p0, s.wire, 0),
           TextOf(fr, Cat(got, s.fragment), p0), Partial(fr, s.fragment)
    PROVE  LET r == ProcessInbound(s) IN
           Flows(fr, got, p0, s.wire, Len(s.wire), r) /\ Steady(s, r.s)
<1>1. PICK w \in Inputs : w = s.wire
  BY DEF Open, SlotOK, Slots
<1>2. PICK N \in Nat : N = Len(w)
  BY DEF Inputs
<1> DEFINE D == Decoders(h, b, tls)
<1>3. PICK F \in [0 .. N -> D] : DecodeSteps(F, s)
  BY <1>1, <1>2, DecodeRun
<1>4. /\ F[0] = Fresh(s) /\ F[N] = ProcessInbound(s)
      /\ \A i \in 1 .. N : F[i] = DecodeUnit(F[i - 1], w[i])
  BY <1>1, <1>2, <1>3 DEF DecodeSteps
<1> DEFINE T == {i \in 0 .. N : Flows(fr, got, p0, w, i, F[i]) /\ Steady(s, F[i].s)}
<1>5. 0 \in T
  <2>1. /\ Fresh(s).verdict = "more" /\ Fresh(s).at = 0 /\ Fresh(s).used = 0
        /\ Fresh(s).s = s
    BY DEF Fresh
  <2>2. Begun(s.fragment, w, 0)
    BY DEF Begun, Quiet
  <2>3. Reached(w, p0, 0, p0)
    BY DEF Reached
  <2>4. 0 < Len(w) => Starts(fr, w[0 + 1], p0 + 1)
    BY <1>1 DEF Chain
  <2>5. Underway(fr, got, p0, w, 0, 0, s.fragment)
    BY <2>2, <2>3, <2>4 DEF Underway
  <2>6. Flows(fr, got, p0, w, 0, Fresh(s))
    BY <2>1, <2>5 DEF Flows
  <2>7. Steady(s, s)
    BY DEF Steady, SameTransport
  <2> QED
    BY <1>4, <2>1, <2>6, <2>7
<1>6. ASSUME NEW n \in 0 .. N - 1, n \in T PROVE n + 1 \in T
  <2>1. PICK j \in 1 .. N : j = n + 1 /\ j - 1 = n /\ n \in Nat
    OBVIOUS
  <2>2. PICK a \in D : a = F[n]
    OBVIOUS
  <2>3. PICK d : d = F[j]
    OBVIOUS
  <2>4. d = DecodeUnit(a, w[j])
    BY <1>4, <2>1, <2>2, <2>3
  <2>5. Flows(fr, got, p0, w, n, a) /\ Steady(s, a.s)
    BY <1>6, <2>2
  <2>6. Chain(fr, p0, w, 0)
    BY <1>1
  <2>7. Flows(fr, got, p0, w, j, d) /\ Steady(a.s, d.s)
    <3>1. j \in 1 .. Len(w) /\ j = n + 1 /\ n \in Nat
      BY <1>2, <2>1
    <3> HIDE DEF D, T
    <3>2. a \in Decoders(h, b, tls)
      BY DEF D
    <3> QED
      BY <2>4, <2>5, <2>6, <3>1, <3>2, FlowStep, SMTT(30)
  <2>8. Steady(s, d.s)
    BY <2>5, <2>7, SteadyTrans
  <2>9. j \in 0 .. N
    OBVIOUS
  <2> QED
    BY <2>1, <2>3, <2>7, <2>8, <2>9
<1>7. N \in T
  <2> HIDE DEF T
  <2>1. \A n \in 0 .. N : n \in T
    BY <1>5, <1>6, SetInduction
  <2> QED
    BY <2>1
<1> QED
  BY <1>1, <1>2, <1>4, <1>7

\* The decoder before and behind the frame k that it cannot take.
Halts(k, i, f, d) ==
    /\ d.verdict \in {"more", "closed", "refused"}
    /\ d.verdict = "more" => i < k
    /\ d.s.fragment # <<>> <=> f # <<>>

\* A step towards that frame.
LEMMA HaltStep ==
    ASSUME NEW h \in Outputs, NEW b \in BOOLEAN, NEW tls \in BOOLEAN, NEW f, NEW w \in Inputs,
           NEW k \in 1 .. Len(w), Blocks(f # <<>>, w[k].op), Quiet(w, k - 1),
           NEW i \in Nat, NEW j \in 1 .. Len(w), j = i + 1,
           NEW a \in Decoders(h, b, tls), NEW d, d = DecodeUnit(a, w[j]), Halts(k, i, f, a)
    PROVE  Halts(k, j, f, d) /\ Steady(a.s, d.s)
<1>1. w[j] \in InUnits /\ Len(w) \in Nat
  BY DEF Inputs
<1>2. /\ Steady(a.s, d.s)
      /\ a.verdict # "more" => d = a
      /\ a.verdict = "more" => Takes(a, w[j], d)
  BY <1>1, UnitTaken
<1>3. CASE a.verdict # "more"
  BY <1>2, <1>3 DEF Halts
<1>4. CASE a.verdict = "more"
  <2>1. i < k /\ Takes(a, w[j], d) /\ (a.s.fragment # <<>> <=> f # <<>>)
    BY <1>2, <1>4 DEF Halts
  <2>2. PICK u : u = w[j]
    OBVIOUS
  <2>3. PICK e \in Numbers : e = a.s.fragment
    BY DecoderFields DEF Slots
  <2>4. Append(e, u.id) # <<>>
    <3>1. PICK x \in Nat : x = u.id
      BY <1>1, <2>2 DEF InUnits
    <3>2. e \in Seq(Nat)
      BY DEF Numbers
    <3>3. Append(e, x) # <<>>
      BY <3>2, AppendProperties
    <3> QED
      BY <3>1, <3>3
  <2>5. CASE j < k
    <3>1. j \in 1 .. k - 1
      BY <1>1, <2>5
    <3>2. u.op \in {"part", "ping", "pong", "cont"}
      BY <2>2, <3>1 DEF Quiet
    <3>3. d.verdict \in {"more", "closed", "refused"} /\ (d.s.fragment # <<>> <=> e # <<>>)
      BY <2>1, <2>2, <2>3, <2>4, <3>2 DEF Takes, Goes, Completes, Ends
    <3> QED
      BY <1>2, <2>1, <2>3, <2>5, <3>3 DEF Halts
  <2>6. CASE j = k
    <3>1. Blocks(e # <<>>, u.op)
      <4>1. CASE f = <<>>
        BY <2>1, <2>2, <2>3, <2>6, <4>1 DEF Blocks
      <4>2. CASE f # <<>>
        BY <2>1, <2>2, <2>3, <2>6, <4>2 DEF Blocks
      <4> QED
        BY <4>1, <4>2
    <3>2. ~Goes(a, u, d)
      BY <2>3, <3>1 DEF Goes, Blocks, Refused
    <3>3. ~Completes(a, u, d)
      BY <2>3, <3>1 DEF Completes, Blocks, Refused
    <3>4. d.verdict \in {"closed", "refused"} /\ d.s.fragment = e
      BY <2>1, <2>2, <2>3, <3>2, <3>3 DEF Takes, Ends
    <3> QED
      BY <1>2, <2>1, <2>3, <3>4 DEF Halts
  <2>7. j < k \/ j = k
    BY <1>1, <2>1
  <2> QED
    BY <2>5, <2>6, <2>7
<1> QED
  BY <1>3, <1>4

\* A decoder that is stuck stays so.
LEMMA DecodeStuck ==
    ASSUME NEW h \in Outputs, NEW b \in BOOLEAN, NEW tls \in BOOLEAN, NEW s,
           Open(h, b, tls, s), Ready(s), Stuck(s.fragment, s.wire)
    PROVE  LET r == ProcessInbound(s) IN
           /\ r.verdict \in {"closed", "refused"} /\ Stuck(r.s.fragment, s.wire)
           /\ Steady(s, r.s)
<1>1. PICK w \in Inputs : w = s.wire
  BY DEF Open, SlotOK, Slots
<1>2. PICK N \in Nat : N = Len(w)
  BY DEF Inputs
<1>3. PICK f : f = s.fragment
  OBVIOUS
<1> DEFINE D == Decoders(h, b, tls)
<1>4. PICK F \in [0 .. N -> D] : DecodeSteps(F, s)
  BY <1>1, <1>2, DecodeRun
<1>5. /\ F[0] = Fresh(s) /\ F[N] = ProcessInbound(s)
      /\ \A i \in 1 .. N : F[i] = DecodeUnit(F[i - 1], w[i])
  BY <1>1, <1>2, <1>4 DEF DecodeSteps
<1>6. PICK k \in 1 .. N : Blocks(f # <<>>, w[k].op) /\ Quiet(w, k - 1)
  BY <1>1, <1>2, <1>3 DEF Stuck
<1> DEFINE T == {i \in 0 .. N : Halts(k, i, f, F[i]) /\ Steady(s, F[i].s)}
<1>7. 0 \in T
  <2>1. Fresh(s).verdict = "more" /\ Fresh(s).s = s
    BY DEF Fresh
  <2>2. Halts(k, 0, f, Fresh(s))
    BY <1>3, <2>1 DEF Halts
  <2>3. Steady(s, s)
    BY DEF Steady, SameTransport
  <2> QED
    BY <1>5, <2>1, <2>2, <2>3
<1>8. ASSUME NEW n \in 0 .. N - 1, n \in T PROVE n + 1 \in T
  <2>1. PICK j \in 1 .. N : j = n + 1 /\ j - 1 = n /\ n \in Nat
    OBVIOUS
  <2>2. PICK a \in D : a = F[n]
    OBVIOUS
  <2>3. PICK d : d = F[j]
    OBVIOUS
  <2>4. d = DecodeUnit(a, w[j])
    BY <1>5, <2>1, <2>2, <2>3
  <2>5. Halts(k, n, f, a) /\ Steady(s, a.s)
    BY <1>8, <2>2
  <2>6. Halts(k, j, f, d) /\ Steady(a.s, d.s)
    BY <1>2, <1>6, <2>1, <2>4, <2>5, HaltStep
  <2>7. Steady(s, d.s)
    BY <2>5, <2>6, SteadyTrans
  <2>8. j \in 0 .. N
    OBVIOUS
  <2> QED
    BY <2>1, <2>3, <2>6, <2>7, <2>8
<1>9. N \in T
  <2> HIDE DEF T
  <2>1. \A n \in 0 .. N : n \in T
    BY <1>7, <1>8, SetInduction
  <2> QED
    BY <2>1
<1>10. PICK r : r = ProcessInbound(s)
  OBVIOUS
<1>11. Halts(k, N, f, r) /\ Steady(s, r.s)
  BY <1>5, <1>9, <1>10
<1>12. r.verdict \in {"closed", "refused"} /\ (r.s.fragment # <<>> <=> f # <<>>)
  BY <1>11 DEF Halts
<1>13. Blocks(r.s.fragment # <<>>, w[k].op)
  <2>1. CASE f = <<>>
    BY <1>6, <1>12, <2>1 DEF Blocks
  <2>2. CASE f # <<>>
    BY <1>6, <1>12, <2>2 DEF Blocks
  <2> QED
    BY <2>1, <2>2
<1>14. Stuck(r.s.fragment, w)
  BY <1>2, <1>6, <1>13 DEF Stuck
<1> QED
  BY <1>1, <1>10, <1>11, <1>12, <1>14

-----------------------------------------------------------------------------
(* The order of the input, from the socket to the application.  tls is     *)
(* whether TLS is enabled, s the slot, u what is unread, dl what was       *)
(* delivered.                                                              *)

\* The TLS handshake is not over, so that what is unread is not data.
Shaking(tls, s) == tls /\ ~Has(s, "TLS_ESTABLISHED")
Visible(tls, s, u) == IF Shaking(tls, s) THEN <<>> ELSE u

\* Before the upgrade: the records of the handshake, the request, the frames.
Opening(fr, tls, s, u) ==
    LET q == Join(s.inbound, u) IN
    \E k \in 2 .. 4 :
        /\ k <= Len(q) /\ Chain(fr, 0, q, k) /\ Plain(q, k)
        /\ (k = 2) <=> ~Shaking(tls, s)
        /\ k # 2 => s.inbound = <<>>
        /\ k = 3 => q[1].op = "finished"
        /\ k = 4 => q[1].op = "hello" /\ q[2].op = "finished"

Waiting(fr, tls, s, u, dl) ==
    /\ dl = <<>> /\ s.decoded = <<>> /\ s.fragment = <<>> /\ s.wire = <<>>
    /\ Has(s, "ENABLE_WEBSOCKET") => s.out = <<>> /\ Opening(fr, tls, s, u)

\* Behind it: what was delivered, the message and the fragments that are
\* decoded are the text of the first p frames, and the stream goes on there.
Flowing(fr, tls, s, u, got) ==
    /\ Partial(fr, s.fragment)
    /\ s.decoded # <<>> => Formed(fr, s.decoded)
    /\ \E p \in Nat :
          /\ TextOf(fr, Cat(Cat(got, s.decoded), s.fragment), p)
          /\ Chain(fr, p, Stream(s.wire, s.inbound, Visible(tls, s, u)), 0)

\* A slot that is stuck delivers nothing any more.
Decoding(fr, tls, s, u, got) ==
    (Stuck(s.fragment, s.wire) /\ s.decoded = <<>>) \/ Flowing(fr, tls, s, u, got)

Told(fr, dl) ==
    /\ dl \in Seq(Numbers) /\ InPlace(fr, FlattenSeq(dl))
    /\ \A m \in DOMAIN dl : Formed(fr, dl[m])

Ordered(fr, tls, s, u, dl) ==
    /\ Told(fr, dl)
    /\ s.live /\ ~Ready(s) => Waiting(fr, tls, s, u, dl)
    /\ s.live /\ Ready(s) => Plain(u, 0) /\ Decoding(fr, tls, s, u, FlattenSeq(dl))

\* What leaves the input alone leaves it in order.
LEMMA OrderCarried ==
    ASSUME NEW fr, NEW tls, NEW s, NEW t, NEW u, NEW dl, Ordered(fr, tls, s, u, dl), Carries(s, t)
    PROVE  Ordered(fr, tls, t, u, dl)
<1>1. Told(fr, dl) /\ (Ready(t) <=> Ready(s))
  BY DEF Ordered, Carries
<1>2. CASE ~t.live
  BY <1>1, <1>2 DEF Ordered
<1>3. CASE t.live
  <2>1. s.live /\ SameStages(s, t) /\ SameTransport(s, t)
    BY <1>3 DEF Carries
  <2>2. /\ t.wire = s.wire /\ t.inbound = s.inbound
        /\ t.decoded = s.decoded /\ t.fragment = s.fragment
    BY <2>1 DEF SameStages
  <2>3. Has(t, "ENABLE_WEBSOCKET") <=> Has(s, "ENABLE_WEBSOCKET")
    BY <2>1 DEF SameTransport
  <2>4. Shaking(tls, t) <=> Shaking(tls, s)
    BY <2>1 DEF SameTransport, Shaking
  <2>5. Visible(tls, t, u) = Visible(tls, s, u)
    BY <2>4 DEF Visible
  <2>6. CASE Ready(s)
    <3>1. Plain(u, 0) /\ Decoding(fr, tls, s, u, FlattenSeq(dl))
      BY <2>1, <2>6 DEF Ordered
    <3>2. PICK got : got = FlattenSeq(dl)
      OBVIOUS
    <3>3. Decoding(fr, tls, t, u, got)
      BY <2>2, <2>5, <3>1, <3>2 DEF Decoding, Flowing
    <3> QED
      BY <1>1, <2>6, <3>1, <3>2, <3>3 DEF Ordered
  <2>7. CASE ~Ready(s)
    <3>1. Waiting(fr, tls, s, u, dl)
      BY <2>1, <2>7 DEF Ordered
    <3>2. Opening(fr, tls, s, u) => Opening(fr, tls, t, u)
      BY <2>2, <2>4 DEF Opening
    <3>3. Has(s, "ENABLE_WEBSOCKET") => t.out = <<>>
      BY <1>3, <2>7, <3>1 DEF Waiting, Idle, Carries
    <3>4. Waiting(fr, tls, t, u, dl)
      BY <2>2, <2>3, <3>1, <3>2, <3>3 DEF Waiting
    <3> QED
      BY <1>1, <2>7, <3>4 DEF Ordered
  <2> QED
    BY <2>6, <2>7
<1> QED
  BY <1>2, <1>3

\* The stages move on, the stream does not.
LEMMA OrderMoved ==
    ASSUME NEW fr, NEW tls, NEW s, NEW t, NEW u, NEW v, NEW dl, Ordered(fr, tls, s, u, dl),
           s.live, Ready(s), Ready(t), t.decoded = s.decoded, t.fragment = s.fragment,
           Plain(v, 0), Stuck(s.fragment, s.wire) => Stuck(t.fragment, t.wire),
           Stream(t.wire, t.inbound, Visible(tls, t, v)) = Stream(s.wire, s.inbound, Visible(tls, s, u))
    PROVE  Ordered(fr, tls, t, v, dl)
<1>1. Told(fr, dl) /\ Decoding(fr, tls, s, u, FlattenSeq(dl))
  BY DEF Ordered
<1>2. PICK got : got = FlattenSeq(dl)
  OBVIOUS
<1>3. Decoding(fr, tls, t, v, got)
  BY <1>1, <1>2 DEF Decoding, Flowing
<1> QED
  BY <1>1, <1>2, <1>3 DEF Ordered

\* Plain input stays plain from any place on.
LEMMA PlainLater ==
    ASSUME NEW q \in Inputs, NEW n \in 0 .. Len(q), Plain(q, 0)
    PROVE  Plain(Drop(q, n), 0)
<1>1. PICK l \in Nat : l = Len(q)
  BY DEF Inputs
<1>2. \A i \in n + 1 .. l : i \in 0 + 1 .. l
  BY <1>1
<1>3. Plain(q, n)
  BY <1>1, <1>2 DEF Plain
<1>4. n \in Nat /\ n = n + 0 /\ n <= Len(q) /\ 0 \in Nat
  BY <1>1
<1> QED
  BY <1>3, <1>4, PlainDrop

\* Bytes are read.
LEMMA OrderRefilled ==
    ASSUME NEW fr, NEW tls \in BOOLEAN, NEW s \in AnySlots, NEW t \in AnySlots, NEW u \in Inputs, NEW dl,
           Ordered(fr, tls, s, u, dl), s.live, ~Shaking(tls, s), NEW n \in 0 .. Len(u),
           t = [s EXCEPT !.inbound = Join(s.inbound, First(u, n))]
    PROVE  Ordered(fr, tls, t, Drop(u, n), dl)
<1>1. PICK i \in Inputs : i = s.inbound
  BY DEF AnySlots
<1>2. PICK a \in Inputs : a = First(u, n)
  BY CutFacts
<1>3. PICK v \in Inputs : v = Drop(u, n)
  BY CutFacts
<1>4. PICK j \in Inputs : j = Join(i, a)
  BY JoinFacts
<1>5. /\ t.live = s.live /\ t.inbound = j /\ t.wire = s.wire /\ t.decoded = s.decoded
      /\ t.fragment = s.fragment /\ t.ws = s.ws /\ t.flags = s.flags /\ t.out = s.out
  BY <1>1, <1>2, <1>4 DEF AnySlots
<1>6. Join(a, v) = u
  BY <1>2, <1>3, CutJoin
<1>7. Join(j, v) = Join(i, u)
  BY <1>4, <1>6, JoinLaws
<1>8. (Ready(t) <=> Ready(s)) /\ ~Shaking(tls, t) /\ Told(fr, dl)
  BY <1>5 DEF Ready, Shaking, Has, Ordered
<1>9. Visible(tls, t, v) = v /\ Visible(tls, s, u) = u
  BY <1>8 DEF Visible
<1>10. CASE Ready(s)
  <2>1. Plain(u, 0)
    BY <1>10 DEF Ordered
  <2>2. Plain(v, 0)
    BY <1>3, <2>1, PlainLater
  <2>3. Stream(t.wire, t.inbound, Visible(tls, t, v)) = Stream(s.wire, s.inbound, Visible(tls, s, u))
    BY <1>1, <1>5, <1>7, <1>9 DEF Stream
  <2>4. Ordered(fr, tls, t, v, dl)
    BY <1>5, <1>8, <1>10, <2>2, <2>3, OrderMoved
  <2> QED
    BY <1>3, <2>4
<1>11. CASE ~Ready(s)
  <2>1. Waiting(fr, tls, s, u, dl)
    BY <1>11 DEF Ordered
  <2>2. Opening(fr, tls, s, u) => Opening(fr, tls, t, v)
    BY <1>1, <1>5, <1>7, <1>8 DEF Opening
  <2>3. Waiting(fr, tls, t, v, dl)
    BY <1>5, <2>1, <2>2 DEF Waiting, Has
  <2> QED
    BY <1>3, <1>8, <1>11, <2>3 DEF Ordered
<1> QED
  BY <1>10, <1>11

\* Nothing was delivered, and the frames come next.
LEMMA NothingYet ==
    ASSUME NEW fr \in Seq(Ops)
    PROVE  /\ FlattenSeq(<<>>) = <<>> /\ Cat(Cat(<<>>, <<>>), <<>>) = <<>>
           /\ TextOf(fr, <<>>, 0) /\ Told(fr, <<>>)
<1>1. FlattenSeq(<<>>) = <<>>
  BY Zenon DEF FlattenSeq
<1>2. Cat(Cat(<<>>, <<>>), <<>>) = <<>>
  BY CatLaws
<1>3. TextOf(fr, <<>>, 0)
  BY CountStep DEF TextOf, InPlace
<1> QED
  BY <1>1, <1>2, <1>3 DEF Told, TextOf

\* The request is answered with a 101: what is behind it are frames.
LEMMA OrderUpgraded ==
    ASSUME NEW fr \in Seq(Ops), NEW tls \in BOOLEAN, NEW s \in AnySlots, NEW t, NEW u \in Inputs,
           NEW dl, Ordered(fr, tls, s, u, dl), s.live, Idle(s), ~Shaking(tls, s),
           Len(s.inbound) >= 2, Ready(t), t.inbound = Drop(s.inbound, 2), t.wire = s.wire,
           t.decoded = s.decoded, t.fragment = s.fragment, SameTransport(s, t)
    PROVE  Ordered(fr, tls, t, u, dl)
<1>1. Waiting(fr, tls, s, u, dl)
  BY DEF Ordered, Idle
<1>2. PICK i \in Inputs : i = s.inbound
  BY DEF AnySlots
<1>3. PICK q \in Inputs : q = Join(i, u)
  BY JoinFacts
<1>4. Chain(fr, 0, q, 2) /\ Plain(q, 2) /\ 2 <= Len(q)
  BY <1>1, <1>2, <1>3 DEF Waiting, Opening, Idle
<1>5. PICK l \in Nat : l = Len(i) /\ l >= 2
  BY <1>2 DEF Inputs
<1>6. PICK m \in Nat : m = Len(u)
  BY DEF Inputs
<1>7. Len(q) = l + m /\ \A j \in 1 .. m : q[l + j] = u[j]
  <2>1. /\ Len(Join(i, u)) = Len(i) + Len(u)
        /\ \A j \in 1 .. Len(u) : Join(i, u)[Len(i) + j] = u[j]
    BY JoinFacts
  <2> QED
    BY <1>3, <1>5, <1>6, <2>1
<1>8. Plain(u, 0)
  <2>1. ASSUME NEW j \in 0 + 1 .. m PROVE u[j].op \in Ops \cup {"part"}
    <3>1. l + j \in 2 + 1 .. l + m /\ j \in 1 .. m
      BY <1>5
    <3> QED
      BY <1>4, <1>7, <3>1 DEF Plain
  <2> QED
    BY <1>6, <2>1 DEF Plain
<1>9. PICK e \in Inputs : e = Drop(i, 2)
  BY <1>5, CutFacts
<1>10. Drop(q, 2) = Join(e, u)
  BY <1>3, <1>5, <1>9, DropJoin
<1>11. Chain(fr, 0, Drop(q, 2), 0)
  <2>1. 2 \in Nat /\ 0 \in Nat /\ 2 = 2 + 0
    OBVIOUS
  <2> QED
    BY <1>4, <2>1, ChainDrop
<1>12. PICK j \in Inputs : j = Join(e, u)
  BY JoinFacts
<1>13. t.inbound = e /\ t.wire = <<>> /\ t.decoded = <<>> /\ t.fragment = <<>> /\ dl = <<>>
  BY <1>1, <1>2, <1>9 DEF Waiting
<1>14. Visible(tls, t, u) = u
  BY DEF Visible, Shaking, SameTransport
<1>15. Stream(t.wire, t.inbound, Visible(tls, t, u)) = j
  BY <1>12, <1>13, <1>14, JoinLaws DEF Stream
<1>16. Chain(fr, 0, j, 0)
  BY <1>10, <1>11, <1>12
<1>17. TextOf(fr, Cat(Cat(<<>>, <<>>), <<>>), 0) /\ FlattenSeq(dl) = <<>> /\ Told(fr, dl)
  BY <1>13, NothingYet
<1>18. Partial(fr, <<>>) /\ 0 \in Nat
  BY DEF Partial
<1>19. Flowing(fr, tls, t, u, <<>>)
  BY <1>13, <1>15, <1>16, <1>17, <1>18 DEF Flowing
<1> QED
  BY <1>8, <1>17, <1>19 DEF Ordered, Decoding

\* The TLS handshake goes on.
LEMMA OrderShaken ==
    ASSUME NEW fr, NEW tls \in BOOLEAN, NEW s \in AnySlots, NEW u \in Inputs, NEW dl,
           Ordered(fr, tls, s, u, dl), s.live, Shaking(tls, s), u # <<>>, u[1].op # "finished"
    PROVE  Ordered(fr, tls, s, Drop(u, 1), dl)
<1>0. Len(u) \in Nat /\ 1 \in 0 .. Len(u)
  BY DEF Inputs
<1>1. PICK v \in Inputs : v = Drop(u, 1)
  BY <1>0, CutFacts
<1>2. CASE Ready(s)
  <2>1. Visible(tls, s, v) = Visible(tls, s, u)
    BY DEF Visible
  <2>2. Plain(u, 0)
    BY <1>2 DEF Ordered
  <2>3. Plain(v, 0)
    BY <1>0, <1>1, <2>2, PlainLater
  <2>4. Ordered(fr, tls, s, v, dl)
    BY <1>2, <2>1, <2>3, OrderMoved
  <2> QED
    BY <1>1, <2>4
<1>3. CASE ~Ready(s)
  <2>1. Waiting(fr, tls, s, u, dl) /\ Told(fr, dl)
    BY <1>3 DEF Ordered
  <2>2. ASSUME Opening(fr, tls, s, u) PROVE Opening(fr, tls, s, v)
    <3>1. PICK k \in 2 .. 4 :
            LET q == Join(s.inbound, u) IN
            /\ k <= Len(q) /\ Chain(fr, 0, q, k) /\ Plain(q, k)
            /\ (k = 2) <=> ~Shaking(tls, s)
            /\ k # 2 => s.inbound = <<>>
            /\ k = 3 => q[1].op = "finished"
            /\ k = 4 => q[1].op = "hello" /\ q[2].op = "finished"
      BY <2>2 DEF Opening
    <3>2. s.inbound = <<>> /\ Join(s.inbound, u) = u /\ Join(s.inbound, v) = v
      BY <3>1, JoinLaws
    <3>3. k = 4 /\ u[2].op = "finished" /\ 4 <= Len(u) /\ Chain(fr, 0, u, 4) /\ Plain(u, 4)
      BY <3>1, <3>2
    <3>4. Chain(fr, 0, v, 3) /\ Plain(v, 3)
      <4>1. 4 \in Nat /\ 1 \in Nat /\ 3 \in Nat /\ 4 = 1 + 3
        OBVIOUS
      <4> QED
        BY <1>1, <3>3, <4>1, ChainDrop, PlainDrop
    <3>5. 3 <= Len(v) /\ v[1].op = "finished"
      <4>1. Len(Drop(u, 1)) = Len(u) - 1 /\ \A i \in 1 .. Len(u) - 1 : Drop(u, 1)[i] = u[1 + i]
        BY <1>0, CutFacts
      <4>2. 1 \in 1 .. Len(u) - 1 /\ Len(u) - 1 >= 3
        BY <1>0, <3>3
      <4> QED
        BY <1>1, <3>3, <4>1, <4>2
    <3>6. 3 \in 2 .. 4 /\ (3 = 2 <=> ~Shaking(tls, s))
      OBVIOUS
    <3> QED
      BY <3>2, <3>4, <3>5, <3>6 DEF Opening
  <2>3. Waiting(fr, tls, s, v, dl)
    BY <2>1, <2>2 DEF Waiting
  <2> QED
    BY <1>1, <1>3, <2>1, <2>3 DEF Ordered
<1> QED
  BY <1>2, <1>3

\* It is over: the request is next.
LEMMA OrderEstablished ==
    ASSUME NEW fr, NEW tls \in BOOLEAN, NEW s \in AnySlots, NEW t, NEW u \in Inputs, NEW dl,
           Ordered(fr, tls, s, u, dl), s.live, Shaking(tls, s), u # <<>>, u[1].op = "finished",
           t = Raise(s, "TLS_ESTABLISHED")
    PROVE  Ordered(fr, tls, t, Drop(u, 1), dl)
<1>0. Len(u) \in Nat /\ 1 \in 0 .. Len(u) /\ 1 \in 0 + 1 .. Len(u)
  BY DEF Inputs
<1>1. PICK v \in Inputs : v = Drop(u, 1)
  BY <1>0, CutFacts
<1>2. ~Ready(s)
  <2>1. ASSUME Ready(s) PROVE FALSE
    <3>1. Plain(u, 0)
      BY <2>1 DEF Ordered
    <3>2. u[1].op \in Ops \cup {"part"}
      BY <1>0, <3>1 DEF Plain
    <3> QED
      BY <3>2 DEF Ops, Data, Refused
  <2> QED
    BY <2>1
<1>3. /\ t.inbound = s.inbound /\ t.wire = s.wire /\ t.decoded = s.decoded /\ t.out = s.out
      /\ t.fragment = s.fragment /\ t.ws = s.ws /\ t.flags = s.flags \cup {"TLS_ESTABLISHED"}
  BY DEF Raise, AnySlots
<1>4. /\ Waiting(fr, tls, s, u, dl) /\ Told(fr, dl) /\ ~Ready(t) /\ ~Shaking(tls, t)
      /\ Has(t, "ENABLE_WEBSOCKET") => Has(s, "ENABLE_WEBSOCKET")
  BY <1>2, <1>3 DEF Ordered, Ready, Shaking, Has
<1>5. ASSUME Opening(fr, tls, s, u) PROVE Opening(fr, tls, t, v)
  <2>1. PICK k \in 2 .. 4 :
          LET q == Join(s.inbound, u) IN
          /\ k <= Len(q) /\ Chain(fr, 0, q, k) /\ Plain(q, k)
          /\ (k = 2) <=> ~Shaking(tls, s)
          /\ k # 2 => s.inbound = <<>>
          /\ k = 3 => q[1].op = "finished"
          /\ k = 4 => q[1].op = "hello" /\ q[2].op = "finished"
    BY <1>5 DEF Opening
  <2>2. t.inbound = <<>> /\ Join(s.inbound, u) = u /\ Join(t.inbound, v) = v
    BY <1>3, <2>1, JoinLaws
  <2>3. k = 3 /\ 3 <= Len(u) /\ Chain(fr, 0, u, 3) /\ Plain(u, 3)
    BY <2>1, <2>2
  <2>4. Chain(fr, 0, v, 2) /\ Plain(v, 2)
    <3>1. 3 \in Nat /\ 1 \in Nat /\ 2 \in Nat /\ 3 = 1 + 2
      OBVIOUS
    <3> QED
      BY <1>1, <2>3, <3>1, ChainDrop, PlainDrop
  <2>5. 2 <= Len(v)
    <3>1. Len(Drop(u, 1)) = Len(u) - 1
      BY <1>0, CutFacts
    <3> QED
      BY <1>0, <1>1, <2>3, <3>1
  <2>6. 2 \in 2 .. 4
    OBVIOUS
  <2> QED
    BY <1>4, <2>2, <2>4, <2>5, <2>6 DEF Opening
<1>6. Waiting(fr, tls, t, v, dl)
  BY <1>3, <1>4, <1>5 DEF Waiting
<1> QED
  BY <1>1, <1>4, <1>6 DEF Ordered

\* A longer wire is stuck at the same frame.
LEMMA StuckJoin ==
    ASSUME NEW f, NEW w \in Inputs, NEW r \in Inputs, Stuck(f, w)
    PROVE  Stuck(f, Join(w, r))
<1>1. PICK l \in Nat : l = Len(w)
  BY DEF Inputs
<1>2. PICK m \in Nat : m = Len(r)
  BY DEF Inputs
<1>3. PICK k \in 1 .. l : Blocks(f # <<>>, w[k].op) /\ Quiet(w, k - 1)
  BY <1>1 DEF Stuck
<1>4. Len(Join(w, r)) = l + m /\ \A i \in 1 .. l : Join(w, r)[i] = w[i]
  BY <1>1, <1>2, JoinFacts
<1>5. PICK j : j = Join(w, r)
  OBVIOUS
<1>6. \A i \in 1 .. k - 1 : i \in 1 .. l
  OBVIOUS
<1>7. Quiet(j, k - 1) /\ j[k] = w[k]
  BY <1>3, <1>4, <1>5, <1>6 DEF Quiet
<1>8. k \in 1 .. Len(j)
  BY <1>4, <1>5
<1>9. Blocks(f # <<>>, j[k].op)
  BY <1>3, <1>7
<1> QED
  BY <1>5, <1>7, <1>8, <1>9 DEF Stuck

\* The inbound buffer is put behind the wire.
LEMMA OrderBegins ==
    ASSUME NEW fr, NEW tls, NEW s \in AnySlots, NEW t, NEW u \in Inputs, NEW dl,
           Ordered(fr, tls, s, u, dl), s.live, Ready(s), Ready(t),
           t.wire = Join(s.wire, s.inbound), t.inbound = <<>>,
           t.decoded = s.decoded, t.fragment = s.fragment, SameTransport(s, t)
    PROVE  Ordered(fr, tls, t, u, dl)
<1>1. PICK w \in Inputs : w = s.wire
  BY DEF AnySlots
<1>2. PICK i \in Inputs : i = s.inbound
  BY DEF AnySlots
<1>3. Visible(tls, t, u) = Visible(tls, s, u)
  BY DEF Visible, Shaking, SameTransport
<1>4. PICK v \in Inputs : v = Visible(tls, s, u)
  BY JoinLaws DEF Visible
<1>5. Join(Join(w, i), Join(<<>>, v)) = Join(w, Join(i, v))
  BY JoinLaws
<1>6. Stream(t.wire, t.inbound, Visible(tls, t, u)) = Stream(s.wire, s.inbound, Visible(tls, s, u))
  BY <1>1, <1>2, <1>3, <1>4, <1>5 DEF Stream
<1>7. Stuck(s.fragment, s.wire) => Stuck(t.fragment, t.wire)
  BY <1>1, <1>2, StuckJoin
<1>8. Plain(u, 0)
  BY DEF Ordered
<1> QED
  BY <1>6, <1>7, <1>8, OrderMoved

\* A message is handed to the application.
LEMMA OrderDelivered ==
    ASSUME NEW fr, NEW tls, NEW s \in AnySlots, NEW t, NEW u, NEW dl,
           Ordered(fr, tls, s, u, dl), s.live, Ready(s), s.decoded # <<>>, Ready(t),
           t.decoded = <<>>, t.fragment = s.fragment, t.wire = s.wire, t.inbound = s.inbound,
           SameTransport(s, t)
    PROVE  Ordered(fr, tls, t, u, Append(dl, s.decoded))
<1>1. Told(fr, dl) /\ Plain(u, 0) /\ Flowing(fr, tls, s, u, FlattenSeq(dl))
  BY DEF Ordered, Decoding
<1>2. PICK d \in Numbers : d = s.decoded
  BY DEF AnySlots
<1>3. PICK f \in Numbers : f = s.fragment
  BY DEF AnySlots
<1>4. dl \in Seq(Seq(Nat)) /\ d \in Seq(Nat)
  BY <1>1 DEF Told, Numbers
<1>5. FlattenSeq(dl) \in Seq(Nat) /\ FlattenSeq(Append(dl, d)) = FlattenSeq(dl) \o d
  BY <1>4, FlattenAppend
<1>6. PICK got \in Numbers : got = FlattenSeq(dl)
  BY <1>5 DEF Numbers
<1>7. PICK e : e = Append(dl, d)
  OBVIOUS
<1>8. FlattenSeq(e) = Cat(got, d)
  BY <1>5, <1>6, <1>7 DEF Cat
<1>9. Partial(fr, f) /\ Formed(fr, d)
  BY <1>1, <1>2, <1>3 DEF Flowing
<1>10. PICK p \in Nat :
          /\ TextOf(fr, Cat(Cat(got, d), f), p)
          /\ Chain(fr, p, Stream(s.wire, s.inbound, Visible(tls, s, u)), 0)
  BY <1>1, <1>2, <1>3, <1>6 DEF Flowing
<1>11. PICK c \in Numbers : c = Cat(got, d)
  BY CatLaws
<1>12. InPlace(fr, c)
  BY <1>10, <1>11, InPlaceFirst DEF TextOf, Cat
<1>13. Told(fr, e)
  <2>1. PICK n \in Nat : n = Len(dl) /\ DOMAIN dl = 1 .. n
    BY <1>4
  <2>2. /\ e \in Seq(Numbers) /\ DOMAIN e = 1 .. n + 1 /\ e[n + 1] = d
        /\ \A m \in 1 .. n : e[m] = dl[m]
    BY <1>4, <1>7, <2>1, AppendProperties DEF Numbers
  <2>3. \A m \in 1 .. n + 1 : m \in 1 .. n \/ m = n + 1
    OBVIOUS
  <2>4. \A m \in DOMAIN e : Formed(fr, e[m])
    BY <1>1, <1>9, <2>1, <2>2, <2>3 DEF Told
  <2> QED
    BY <1>8, <1>11, <1>12, <2>2, <2>4 DEF Told
<1>14. Visible(tls, t, u) = Visible(tls, s, u)
  BY DEF Visible, Shaking, SameTransport
<1>15. Cat(c, <<>>) = c
  BY CatLaws
<1>16. Flowing(fr, tls, t, u, c)
  BY <1>3, <1>9, <1>10, <1>11, <1>14, <1>15 DEF Flowing
<1> QED
  BY <1>1, <1>2, <1>7, <1>8, <1>11, <1>13, <1>16 DEF Ordered, Decoding

\* The wire from where decoding stopped.
LEMMA ChainReached ==
    ASSUME NEW fr, NEW p0 \in Nat, NEW w \in Inputs, NEW i \in Inputs, NEW v \in Inputs,
           Chain(fr, p0, Stream(w, i, v), 0), NEW n \in Nat, NEW p \in Nat, Reached(w, p0, n, p)
    PROVE  Drop(w, n) \in Inputs /\ Chain(fr, p, Stream(Drop(w, n), i, v), 0)
<1>1. PICK r \in Inputs : r = Join(i, v)
  BY JoinFacts
<1>2. PICK q \in Inputs : q = Join(w, r)
  BY JoinFacts
<1>3. Stream(w, i, v) = q
  BY <1>1, <1>2 DEF Stream
<1>4. PICK l \in Nat : l = Len(w)
  BY DEF Inputs
<1>5. n \in 0 .. l
  BY <1>4 DEF Reached
<1>6. PICK d \in Inputs : d = Drop(w, n)
  BY <1>4, <1>5, CutFacts
<1>7. Drop(q, n) = Join(d, r)
  BY <1>2, <1>4, <1>5, <1>6, DropJoin
<1>8. PICK m \in Nat : m = Len(q) /\ l <= m
  <2>1. Len(Join(w, r)) = Len(w) + Len(r)
    BY JoinFacts
  <2>2. Len(r) \in Nat
    BY DEF Inputs
  <2> QED
    BY <1>2, <1>4, <2>1, <2>2
<1>9. Chain(fr, p, q, n)
  <2>1. CASE n = 0
    <3>1. p = p0
      BY <2>1 DEF Reached
    <3> QED
      BY <1>3, <2>1, <3>1
  <2>2. CASE n # 0
    <3>1. n \in 1 .. l /\ w[n].op \notin {"close", "part"} /\ w[n].id = p
      BY <1>4, <2>2 DEF Reached
    <3>2. \A j \in 1 .. Len(w) : Join(w, r)[j] = w[j]
      BY JoinFacts
    <3>3. q[n] = w[n]
      BY <1>2, <1>4, <3>1, <3>2
    <3>4. NextId(q[n]) = p + 1 /\ q[n].op # "close"
      BY <3>1, <3>3 DEF NextId
    <3>5. 0 < n /\ n <= Len(q) /\ 0 \in Nat
      BY <1>8, <3>1
    <3>6. Chain(fr, p0, q, 0)
      BY <1>3
    <3> QED
      BY <3>4, <3>5, <3>6, ChainLater
  <2> QED
    BY <2>1, <2>2
<1>10. Chain(fr, p, Drop(q, n), 0)
  <2>1. n = n + 0 /\ n <= Len(q) /\ 0 \in Nat
    BY <1>5, <1>8
  <2> QED
    BY <1>9, <2>1, ChainDrop
<1> QED
  BY <1>1, <1>6, <1>7, <1>10 DEF Stream

\* The wire is part of what is to come.
LEMMA ChainWire ==
    ASSUME NEW fr, NEW p, NEW w \in Inputs, NEW i \in Inputs, NEW v \in Inputs,
           Chain(fr, p, Stream(w, i, v), 0)
    PROVE  Chain(fr, p, w, 0) /\ Chain(fr, p, Stream(w, i, <<>>), 0)
<1>1. PICK r \in Inputs : r = Join(i, v)
  BY JoinFacts
<1>2. Chain(fr, p, Join(w, r), 0)
  BY <1>1 DEF Stream
<1>3. PICK x \in Inputs : x = Join(w, i)
  BY JoinFacts
<1>4. Join(x, v) = Join(w, r) /\ Join(w, Join(i, <<>>)) = x
  BY <1>1, <1>3, JoinLaws
<1>5. Chain(fr, p, x, 0)
  BY <1>2, <1>4, ChainFirst
<1>6. Chain(fr, p, w, 0)
  BY <1>2, ChainFirst
<1> QED
  BY <1>4, <1>5, <1>6 DEF Stream

\* TLS is given up after a write that failed: nothing more will be read.
LEMMA OrderLost ==
    ASSUME NEW fr, NEW tls, NEW s \in AnySlots, NEW t, NEW u \in Inputs, NEW dl,
           Ordered(fr, tls, s, u, dl), ~Idle(s), t = Clear(s, "TLS_ESTABLISHED")
    PROVE  Ordered(fr, tls, t, u, dl)
<1>1. /\ t.inbound = s.inbound /\ t.wire = s.wire /\ t.decoded = s.decoded /\ t.live = s.live
      /\ t.fragment = s.fragment /\ t.ws = s.ws /\ t.flags = s.flags \ {"TLS_ESTABLISHED"}
  BY DEF Clear, AnySlots
<1>2. /\ (Ready(t) <=> Ready(s)) /\ Told(fr, dl)
      /\ Has(t, "ENABLE_WEBSOCKET") <=> Has(s, "ENABLE_WEBSOCKET")
  BY <1>1 DEF Ready, Has, Ordered
<1>3. CASE ~s.live
  BY <1>1, <1>2, <1>3 DEF Ordered
<1>4. CASE s.live /\ ~Ready(s)
  <2>1. Waiting(fr, tls, s, u, dl) /\ ~Has(s, "ENABLE_WEBSOCKET")
    BY <1>4 DEF Ordered, Idle
  <2>2. Waiting(fr, tls, t, u, dl)
    BY <1>1, <1>2, <2>1 DEF Waiting
  <2> QED
    BY <1>2, <1>4, <2>2 DEF Ordered
<1>5. CASE s.live /\ Ready(s)
  <2>1. Plain(u, 0) /\ Decoding(fr, tls, s, u, FlattenSeq(dl))
    BY <1>5 DEF Ordered
  <2>2. PICK got : got = FlattenSeq(dl)
    OBVIOUS
  <2>3. PICK w \in Inputs : w = s.wire
    BY DEF AnySlots
  <2>4. PICK i \in Inputs : i = s.inbound
    BY DEF AnySlots
  <2>5. PICK v \in Inputs : v = Visible(tls, s, u)
    BY JoinLaws DEF Visible
  <2>6. Visible(tls, t, u) = v \/ Visible(tls, t, u) = <<>>
    BY <1>1, <2>5 DEF Visible, Shaking, Has
  <2>7. \A p \in Nat : Chain(fr, p, Stream(w, i, v), 0) => Chain(fr, p, Stream(w, i, Visible(tls, t, u)), 0)
    BY <2>6, ChainWire
  <2>8. Flowing(fr, tls, s, u, got) => Flowing(fr, tls, t, u, got)
    BY <1>1, <2>3, <2>4, <2>5, <2>7 DEF Flowing
  <2>9. Decoding(fr, tls, t, u, got)
    BY <1>1, <2>1, <2>2, <2>8 DEF Decoding
  <2> QED
    BY <1>2, <1>5, <2>1, <2>2, <2>9 DEF Ordered
<1> QED
  BY <1>3, <1>4, <1>5

\* The peer answers with a Close.
LEMMA OrderAnswered ==
    ASSUME NEW fr, NEW tls, NEW s \in AnySlots, NEW u \in Inputs, NEW c \in Inputs, NEW dl,
           Ordered(fr, tls, s, u, dl), s.live, Ready(s), c = Units("close", 0)
    PROVE  Ordered(fr, tls, s, Join(u, c), dl)
<1>1. c = <<Unit("part", 0), Unit("close", 0)>>
  BY DEF Units, Refused
<1>2. Len(c) = 2 /\ c[1].op = "part" /\ c[1].id = 0 /\ c[2].op = "close"
  BY <1>1 DEF Unit
<1>a. PICK z \in Nat : z = Len(c)
  BY DEF Inputs
<1>b. z = 2
  BY <1>2, <1>a
<1>3. Told(fr, dl) /\ Plain(u, 0) /\ Decoding(fr, tls, s, u, FlattenSeq(dl))
  BY DEF Ordered
<1>4. PICK got : got = FlattenSeq(dl)
  OBVIOUS
<1>5. PICK x \in Inputs : x = Join(u, c)
  BY JoinFacts
<1>6. Plain(x, 0)
  <2>1. PICK n \in Nat : n = Len(u)
    BY DEF Inputs
  <2>2. /\ Len(Join(u, c)) = Len(u) + Len(c)
        /\ \A i \in 1 .. Len(u) : Join(u, c)[i] = u[i]
        /\ \A i \in 1 .. Len(c) : Join(u, c)[Len(u) + i] = c[i]
    BY JoinFacts
  <2>3. Len(x) = n + 2 /\ (\A i \in 1 .. n : x[i] = u[i]) /\ x[n + 1] = c[1] /\ x[n + 2] = c[2]
    <3>1. /\ Len(x) = n + z /\ (\A i \in 1 .. n : x[i] = u[i])
          /\ \A i \in 1 .. z : x[n + i] = c[i]
      BY <1>5, <1>a, <2>1, <2>2
    <3>2. 1 \in 1 .. z /\ 2 \in 1 .. z /\ n + z = n + 2
      BY <1>b
    <3> QED
      BY <3>1, <3>2
  <2>4. \A i \in 0 + 1 .. n + 2 : i \in 0 + 1 .. n \/ i = n + 1 \/ i = n + 2
    OBVIOUS
  <2>5. \A i \in 0 + 1 .. n : i \in 1 .. n /\ u[i].op \in Ops \cup {"part"}
    BY <1>3, <2>1 DEF Plain
  <2>6. "close" \in Ops
    BY DEF Ops
  <2>7. \A i \in 0 + 1 .. n + 2 : x[i].op \in Ops \cup {"part"}
    BY <1>2, <2>3, <2>4, <2>5, <2>6
  <2> QED
    BY <2>3, <2>7 DEF Plain
<1>7. CASE Shaking(tls, s)
  <2>1. Visible(tls, s, x) = Visible(tls, s, u)
    BY <1>7 DEF Visible
  <2>2. Decoding(fr, tls, s, x, got)
    BY <1>3, <1>4, <2>1 DEF Decoding, Flowing
  <2> QED
    BY <1>3, <1>4, <1>5, <1>6, <2>2 DEF Ordered
<1>8. CASE ~Shaking(tls, s)
  <2>1. Visible(tls, s, x) = x /\ Visible(tls, s, u) = u
    BY <1>8 DEF Visible
  <2>2. PICK w \in Inputs : w = s.wire
    BY DEF AnySlots
  <2>3. PICK i \in Inputs : i = s.inbound
    BY DEF AnySlots
  <2>4. PICK r \in Inputs : r = Join(i, u)
    BY JoinFacts
  <2>5. PICK q \in Inputs : q = Join(w, r)
    BY JoinFacts
  <2>6. Join(q, c) = Join(w, Join(i, Join(u, c)))
    <3>1. Join(r, c) = Join(i, Join(u, c))
      BY <2>4, JoinLaws
    <3>2. Join(q, c) = Join(w, Join(r, c))
      BY <2>5, JoinLaws
    <3> QED
      BY <3>1, <3>2
  <2>7. ASSUME NEW p \in Nat, Chain(fr, p, q, 0) PROVE Chain(fr, p, Join(q, c), 0)
    <3>1. \A n : Starts(fr, c[1], n)
      BY <1>2 DEF Starts
    <3>2. Link(fr, q[Len(q)], c[1])
      BY <3>1 DEF Link
    <3>3. \A j \in 1 .. Len(c) - 1 : Link(fr, c[j], c[j + 1])
      <4>1. \A j \in 1 .. Len(c) - 1 : j = 1
        <5>1. \A j \in 1 .. z - 1 : j = 1
          BY <1>b
        <5> QED
          BY <1>a, <5>1
      <4>2. Link(fr, c[1], c[1 + 1])
        BY <1>2 DEF Link, Starts
      <4> QED
        BY <4>1, <4>2
    <3> QED
      BY <2>7, <3>1, <3>2, <3>3, ChainJoin
  <2>8. /\ Stream(s.wire, s.inbound, Visible(tls, s, x)) = Join(q, c)
        /\ Stream(s.wire, s.inbound, Visible(tls, s, u)) = q
    BY <1>5, <2>1, <2>2, <2>3, <2>4, <2>5, <2>6 DEF Stream
  <2>9. Flowing(fr, tls, s, u, got) => Flowing(fr, tls, s, x, got)
    BY <2>7, <2>8 DEF Flowing
  <2>10. Decoding(fr, tls, s, x, got)
    BY <1>3, <1>4, <2>9 DEF Decoding
  <2> QED
    BY <1>3, <1>4, <1>5, <1>6, <2>10 DEF Ordered
<1> QED
  BY <1>7, <1>8

\* A Close frame or one that is refused: the decoder stays where it is.
LEMMA OrderHalted ==
    ASSUME NEW h \in Outputs, NEW b \in BOOLEAN, NEW tls \in BOOLEAN, NEW s, Open(h, b, tls, s),
           Ready(s), NEW fr \in Seq(Ops), NEW u \in Inputs, NEW dl, Ordered(fr, tls, s, u, dl),
           s.decoded = <<>>, NEW r, r = ProcessInbound(s), r.verdict \in {"closed", "refused"}
    PROVE  Ordered(fr, tls, r.s, u, dl)
<1>1. s \in AnySlots /\ s.live
  BY DEF Open, SlotOK, Slots, AnySlots
<1>2. Told(fr, dl) /\ Plain(u, 0) /\ Decoding(fr, tls, s, u, FlattenSeq(dl))
  BY <1>1 DEF Ordered
<1>3. Stuck(r.s.fragment, s.wire) /\ Steady(s, r.s)
  <2>1. CASE Stuck(s.fragment, s.wire)
    BY <2>1, DecodeStuck
  <2>2. CASE ~Stuck(s.fragment, s.wire)
    <3>1. Flowing(fr, tls, s, u, FlattenSeq(dl))
      BY <1>2, <2>2 DEF Decoding
    <3>2. PICK got \in Numbers : got = FlattenSeq(dl)
      BY <1>2, FlattenAppend DEF Told, Numbers
    <3>3. PICK p \in Nat :
            /\ TextOf(fr, Cat(Cat(got, s.decoded), s.fragment), p)
            /\ Chain(fr, p, Stream(s.wire, s.inbound, Visible(tls, s, u)), 0)
      BY <3>1, <3>2 DEF Flowing
    <3>4. Cat(got, s.decoded) = got /\ Partial(fr, s.fragment)
      BY <3>1, CatLaws DEF Flowing
    <3>5. Visible(tls, s, u) \in Inputs /\ s.wire \in Inputs /\ s.inbound \in Inputs
      BY <1>1, JoinLaws DEF Visible, AnySlots
    <3>6. Chain(fr, p, s.wire, 0)
      BY <3>3, <3>5, ChainWire
    <3>7. TextOf(fr, Cat(got, s.fragment), p)
      BY <3>3, <3>4
    <3>8. Flows(fr, got, p, s.wire, Len(s.wire), r) /\ Steady(s, r.s)
      BY <3>4, <3>6, <3>7, DecodeFlows
    <3> QED
      BY <3>8 DEF Flows
  <2> QED
    BY <2>1, <2>2
<1>4. r \in Decoders(h, b, tls)
  BY ProcessInboundOK
<1>5. Ready(r.s) /\ r.s.wire = s.wire /\ r.s.decoded = <<>>
  BY <1>3, <1>4, DecoderFields DEF Steady
<1> QED
  BY <1>2, <1>3, <1>5 DEF Ordered, Decoding

\* The units that were decoded leave the wire, and the message goes on.
LEMMA OrderDecoded ==
    ASSUME NEW h \in Outputs, NEW b \in BOOLEAN, NEW tls \in BOOLEAN, NEW s, Open(h, b, tls, s),
           Ready(s), NEW fr \in Seq(Ops), NEW u \in Inputs, NEW dl, Ordered(fr, tls, s, u, dl),
           s.decoded = <<>>, NEW r, r = ProcessInbound(s), r.verdict \in {"more", "message"},
           NEW t, Ready(t), t.wire = Drop(s.wire, r.used), t.inbound = s.inbound,
           t.fragment = r.s.fragment, SameTransport(s, t),
           t.decoded = IF r.verdict = "more" \/ fr[r.message[1]] = "subneg" THEN <<>> ELSE r.message
    PROVE  Ordered(fr, tls, t, u, dl)
<1>1. s \in AnySlots /\ s.live
  BY DEF Open, SlotOK, Slots, AnySlots
<1>2. Told(fr, dl) /\ Plain(u, 0) /\ Decoding(fr, tls, s, u, FlattenSeq(dl))
  BY <1>1 DEF Ordered
<1>3. ~Stuck(s.fragment, s.wire)
  <2>1. ASSUME Stuck(s.fragment, s.wire) PROVE r.verdict \in {"closed", "refused"}
    BY <2>1, DecodeStuck
  <2> QED
    BY <2>1
<1>4. Flowing(fr, tls, s, u, FlattenSeq(dl))
  BY <1>2, <1>3 DEF Decoding
<1>5. PICK got \in Numbers : got = FlattenSeq(dl)
  BY <1>2, FlattenAppend DEF Told, Numbers
<1>6. PICK p0 \in Nat :
        /\ TextOf(fr, Cat(Cat(got, s.decoded), s.fragment), p0)
        /\ Chain(fr, p0, Stream(s.wire, s.inbound, Visible(tls, s, u)), 0)
  BY <1>4, <1>5 DEF Flowing
<1>7. Cat(got, s.decoded) = got /\ Partial(fr, s.fragment)
  BY <1>4, CatLaws DEF Flowing
<1>8. PICK w \in Inputs : w = s.wire
  BY <1>1 DEF AnySlots
<1>9. PICK i \in Inputs : i = s.inbound
  BY <1>1 DEF AnySlots
<1>10. PICK v \in Inputs : v = Visible(tls, s, u)
  BY JoinLaws DEF Visible
<1>11. Visible(tls, t, u) = v
  BY <1>10 DEF Visible, Shaking, SameTransport
<1>12. Chain(fr, p0, Stream(w, i, v), 0) /\ Chain(fr, p0, w, 0)
  BY <1>6, <1>8, <1>9, <1>10, ChainWire
<1>13. Flows(fr, got, p0, s.wire, Len(s.wire), r)
  <2>1. TextOf(fr, Cat(got, s.fragment), p0)
    BY <1>6, <1>7
  <2>2. Chain(fr, p0, s.wire, 0)
    BY <1>8, <1>12
  <2> QED
    BY <1>7, <2>1, <2>2, DecodeFlows
<1>14. r \in Decoders(h, b, tls)
  BY ProcessInboundOK
<1>15. PICK n \in Nat : n = r.used
  BY <1>14, DecoderFields
<1>16. \A p \in Nat : Reached(w, p0, n, p) => Chain(fr, p, Stream(Drop(w, n), i, v), 0)
  BY <1>12, ChainReached
<1>17. Stream(t.wire, t.inbound, Visible(tls, t, u)) = Stream(Drop(w, n), i, v)
  BY <1>8, <1>9, <1>11, <1>15
<1>18. Flowing(fr, tls, t, u, got)
  <2>1. CASE r.verdict = "more"
    <3>1. Underway(fr, got, p0, w, Len(w), n, t.fragment)
      BY <1>8, <1>13, <1>15, <2>1 DEF Flows
    <3>2. PICK p \in Nat : Reached(w, p0, n, p) /\ TextOf(fr, Cat(got, t.fragment), p)
      BY <3>1 DEF Underway
    <3>3. Partial(fr, t.fragment) /\ t.decoded = <<>>
      BY <2>1, <3>1 DEF Underway
    <3>4. Cat(got, t.decoded) = got
      BY <3>3, CatLaws
    <3> QED
      BY <1>16, <1>17, <3>2, <3>3, <3>4 DEF Flowing
  <2>2. CASE r.verdict = "message"
    <3>1. PICK m \in Numbers : m = r.message
      BY <1>14, DecoderFields
    <3>2. t.fragment = <<>> /\ Complete(fr, got, p0, w, n, m)
      BY <1>8, <1>13, <1>15, <2>2, <3>1 DEF Flows
    <3>3. PICK p \in Nat : /\ Reached(w, p0, n, p)
                           /\ IF fr[m[1]] = "subneg" THEN TextOf(fr, got, p)
                              ELSE Formed(fr, m) /\ TextOf(fr, Cat(got, m), p)
      BY <3>2 DEF Complete
    <3>4. Cat(got, <<>>) = got /\ Cat(Cat(got, m), <<>>) = Cat(got, m)
      BY CatLaws
    <3>5. t.decoded = IF fr[m[1]] = "subneg" THEN <<>> ELSE m
      BY <2>2, <3>1
    <3>6. Partial(fr, t.fragment)
      BY <3>2 DEF Partial
    <3>7. CASE fr[m[1]] = "subneg"
      BY <1>16, <1>17, <3>2, <3>3, <3>4, <3>5, <3>6, <3>7 DEF Flowing
    <3>8. CASE fr[m[1]] # "subneg"
      BY <1>16, <1>17, <3>2, <3>3, <3>4, <3>5, <3>6, <3>8 DEF Flowing
    <3> QED
      BY <3>7, <3>8
  <2> QED
    BY <2>1, <2>2
<1> QED
  BY <1>2, <1>5, <1>18 DEF Ordered, Decoding

\* The input of the slot, wherever it has got to, is in order.
Order == Ordered(session.frames, session.tls, slot, unread, delivered)

\* The types a step starts from.
LEMMA OrderFacts ==
    ASSUME SessionInvariant
    PROVE  /\ session.frames \in Seq(Ops) /\ session.tls \in BOOLEAN /\ strict \in BOOLEAN
           /\ slot \in Slots /\ slot \in AnySlots /\ unread \in Inputs
BY WebSocketAssumption, SessionFacts DEF SessionInvariant, Slots, AnySlots

\* What a step that leaves the input alone has to show.
LEMMA OrderStep ==
    ASSUME Order, session' = session, unread' = unread, delivered' = delivered,
           Carries(slot, slot')
    PROVE  Order'
BY OrderCarried DEF Order

\* What any other step has to show.
LEMMA OrderNow ==
    ASSUME session' = session,
           Ordered(session.frames, session.tls, slot', unread', delivered')
    PROVE  Order'
BY DEF Order

\* The steps that only move the loop or the peer.
LEMMA OrderPlain ==
    ASSUME SessionInvariant, Order,
           RefillFails \/ NoRead \/ FlushRemoved \/ PeerLeaves \/ UNCHANGED vars
    PROVE  Order'
<1>1. slot' = slot /\ session' = session /\ unread' = unread /\ delivered' = delivered
  BY DEF RefillFails, NoRead, FlushRemoved, PeerLeaves, Aside, peerVars, histVars, vars
<1> QED
  BY <1>1 DEF Order

\* The steps that close the slot, or may.
LEMMA OrderClosing ==
    ASSUME SessionInvariant, Order, ErrorEvent \/ Settle \/ Progress \/ AppCloses
    PROVE  Order'
<1>1. slot' \in CloseWithoutPeer(slot) \/ slot' \in Close(slot) \/ slot' = slot
  <2>1. CASE ErrorEvent BY <2>1 DEF ErrorEvent
  <2>2. CASE Settle
    <3>1. CASE pass = "failed" BY <2>2, <3>1 DEF Settle
    <3>2. CASE pass # "failed" /\ closed BY <2>2, <3>2 DEF Settle
    <3>3. CASE pass # "failed" /\ ~closed BY <2>2, <3>3 DEF Settle
    <3> QED BY <3>1, <3>2, <3>3
  <2>3. CASE Progress BY <2>3 DEF Progress
  <2>4. CASE AppCloses BY <2>4 DEF AppCloses
  <2> QED BY <2>1, <2>2, <2>3, <2>4
<1>2. Carries(slot, slot')
  BY <1>1, OrderFacts, CarriesSelf, CarriesClose, CarriesWithoutPeer
<1>3. session' = session /\ unread' = unread /\ delivered' = delivered
  BY DEF ErrorEvent, Settle, Progress, AppCloses, Aside, peerVars, histVars
<1> QED
  BY <1>2, <1>3, OrderStep

\* Queueing output leaves the input alone, whatever the slot waits for.
LEMMA OutputKept ==
    ASSUME NEW s \in AnySlots, NEW u \in OutUnits
    PROVE  LET t == RawWrite(s, u) IN
           /\ t \in AnySlots /\ t.inbound = s.inbound /\ t.wire = s.wire /\ t.decoded = s.decoded
           /\ t.fragment = s.fragment /\ t.flags \subseteq s.flags \cup {"BUFFERED_WRITE"}
           /\ s.flags \subseteq t.flags
<1>1. CASE Len(s.out) >= OutCap
  BY <1>1 DEF RawWrite
<1>2. CASE ~(Len(s.out) >= OutCap)
  <2>1. PICK v \in Outputs : v = Append(s.out, u)
    <3>1. s.out \in Seq(OutUnits)
      BY DEF AnySlots, Outputs
    <3>2. Append(s.out, u) \in Seq(OutUnits)
      BY <3>1, AppendProperties
    <3> QED
      BY <3>2 DEF Outputs
  <2>2. PICK f \in FlagSets : f = s.flags \cup {"BUFFERED_WRITE"}
    BY DEF AnySlots, FlagSets, Flags
  <2>3. PICK a : a = [s EXCEPT !.out = v]
    OBVIOUS
  <2>4. a \in AnySlots /\ a.inbound = s.inbound /\ a.wire = s.wire /\ a.decoded = s.decoded
        /\ a.fragment = s.fragment /\ a.flags = s.flags
    BY <2>3 DEF AnySlots
  <2>5. PICK t : t = [a EXCEPT !.flags = f]
    OBVIOUS
  <2>6. RawWrite(s, u) = t
    BY <1>2, <2>1, <2>2, <2>3, <2>4, <2>5 DEF RawWrite, Raise
  <2>7. t \in AnySlots /\ t.inbound = a.inbound /\ t.wire = a.wire /\ t.decoded = a.decoded
        /\ t.fragment = a.fragment /\ t.flags = f
    BY <2>4, <2>5 DEF AnySlots
  <2> QED
    BY <2>2, <2>4, <2>6, <2>7
<1> QED
  BY <1>1, <1>2

\* Bytes arrive and the upgrade is tried.
LEMMA OrderRefill ==
    ASSUME SessionInvariant, Order, Refill
    PROVE  Order'
<1> DEFINE fr == session.frames
           tls == session.tls
<1>1. PICK n \in 1 .. Len(unread) :
          /\ unread' = SubSeq(unread, n + 1, Len(unread))
          /\ slot' \in TryUpgrade([slot EXCEPT !.inbound = @ \o SubSeq(unread, 1, n)])
  BY DEF Refill
<1>2. PICK u \in Inputs : u = unread
  BY OrderFacts
<1>3. Len(u) \in Nat /\ n \in 0 .. Len(u)
  BY <1>2 DEF Inputs
<1>4. PICK v \in Inputs : v = Drop(u, n)
  BY <1>3, CutFacts
<1>5. PICK i \in Inputs : i = Join(slot.inbound, First(u, n))
  BY <1>3, OrderFacts, CutFacts, JoinFacts DEF AnySlots
<1>6. PICK s : s = [slot EXCEPT !.inbound = i]
  OBVIOUS
<1>7. /\ s \in AnySlots /\ s.inbound = i /\ s.live = slot.live /\ s.ws = slot.ws
      /\ s.flags = slot.flags
  BY <1>6, OrderFacts DEF AnySlots
<1>8. slot' \in TryUpgrade(s) /\ unread' = v
  BY <1>1, <1>2, <1>4, <1>5, <1>6 DEF Join, First, Drop
<1>9. slot.live /\ ~Shaking(tls, slot) /\ session' = session /\ delivered' = delivered
  BY DEF Refill, MayRead, Handshaking, Shaking, histVars
<1>10. Ordered(fr, tls, s, v, delivered)
  <2>1. s = [slot EXCEPT !.inbound = Join(slot.inbound, First(u, n))]
    BY <1>5, <1>6
  <2>2. Ordered(fr, tls, slot, u, delivered)
    BY <1>2 DEF Order
  <2>3. tls \in BOOLEAN /\ slot \in AnySlots
    BY OrderFacts
  <2> HIDE DEF fr, tls
  <2> QED
    BY <1>3, <1>4, <1>7, <1>9, <2>1, <2>2, <2>3, OrderRefilled
<1>11. SUFFICES Ordered(fr, tls, slot', v, delivered)
  BY <1>8, <1>9, OrderNow
<1>12. s.live /\ ~Shaking(tls, s)
  BY <1>7, <1>9 DEF Shaking, Has
<1>13. CASE ~Has(s, "ENABLE_WEBSOCKET") \/ Ready(s) \/ Len(s.inbound) < 2
  <2>1. slot' = s
    BY <1>8, <1>13 DEF TryUpgrade
  <2> QED
    BY <1>10, <2>1
<1>14. CASE Idle(s) /\ ~(Len(s.inbound) < 2) /\ session.request = "bad"
  <2>1. PICK a : a = FreeOutbound(s)
    OBVIOUS
  <2>2. a \in AnySlots /\ Carries(s, a) /\ a.live = s.live
    BY <1>7, <2>1, CarriesFree DEF Carries
  <2>3. Ordered(fr, tls, a, v, delivered) /\ ~Ready(a)
    BY <1>10, <1>14, <2>2, OrderCarried DEF Carries, Idle
  <2>4. PICK c : c = [a EXCEPT !.inbound = <<>>]
    OBVIOUS
  <2>5. PICK e : e = Clear(c, "ENABLE_WEBSOCKET")
    OBVIOUS
  <2>6. /\ c \in AnySlots /\ c.live = a.live /\ c.ws = a.ws /\ c.decoded = a.decoded
        /\ c.fragment = a.fragment /\ c.wire = a.wire
    BY <2>2, <2>4, JoinLaws DEF AnySlots
  <2>7. /\ e \in AnySlots /\ e.live = c.live /\ e.ws = c.ws /\ e.decoded = c.decoded
        /\ e.fragment = c.fragment /\ e.wire = c.wire /\ ~Has(e, "ENABLE_WEBSOCKET")
    BY <2>5, <2>6 DEF AnySlots, Clear, Has, FlagSets
  <2>8. Waiting(fr, tls, a, v, delivered) /\ Told(fr, delivered)
    BY <1>12, <2>2, <2>3 DEF Ordered
  <2>9. Waiting(fr, tls, e, v, delivered)
    BY <2>6, <2>7, <2>8 DEF Waiting
  <2>10. Ordered(fr, tls, e, v, delivered) /\ ~Idle(e)
    BY <2>3, <2>6, <2>7, <2>8, <2>9 DEF Ordered, Ready, Idle
  <2>11. PICK o \in OutUnits : o = Http("error")
    BY DEF Http, OutUnits, OutOps
  <2>12. PICK x : x = RawWrite(e, o)
    OBVIOUS
  <2>13. slot' \in Close(x)
    <3>1. x = RawWrite(Clear([FreeOutbound(s) EXCEPT !.inbound = <<>>],
                             "ENABLE_WEBSOCKET"), Http("error"))
      BY <2>1, <2>4, <2>5, <2>11, <2>12
    <3> QED
      BY <1>8, <1>14, <3>1 DEF TryUpgrade, Idle
  <2>14. Carries(e, x)
    BY <2>7, <2>10, <2>12, CarriesRawWrite
  <2>15. x \in AnySlots
    BY <2>14 DEF Carries
  <2>16. Carries(x, slot')
    BY <2>13, <2>15, OrderFacts, CarriesClose
  <2> HIDE DEF fr, tls
  <2>17. Ordered(fr, tls, x, v, delivered)
    BY <2>10, <2>14, OrderCarried
  <2> QED
    BY <2>16, <2>17, OrderCarried
<1>15. CASE Idle(s) /\ ~(Len(s.inbound) < 2) /\ session.request # "bad"
  <2>1. Len(s.inbound) >= 2 /\ Len(i) >= 2
    BY <1>7, <1>15 DEF Inputs
  <2>2. PICK j \in Inputs : j = Drop(i, 2)
    <3>1. 2 \in 0 .. Len(i)
      BY <2>1 DEF Inputs
    <3> QED
      BY <3>1, CutFacts
  <2>3. PICK a : a = [s EXCEPT !.inbound = j]
    OBVIOUS
  <2>4. /\ a \in AnySlots /\ a.inbound = j /\ a.wire = s.wire /\ a.decoded = s.decoded
        /\ a.fragment = s.fragment /\ a.flags = s.flags /\ a.live = s.live
    BY <1>7, <2>2, <2>3 DEF AnySlots
  <2>5. PICK o \in OutUnits : o = Http("101")
    BY DEF Http, OutUnits, OutOps
  <2>6. PICK c : c = RawWrite(a, o)
    OBVIOUS
  <2>7. /\ c \in AnySlots /\ c.inbound = j /\ c.wire = s.wire /\ c.decoded = s.decoded
        /\ c.fragment = s.fragment /\ c.flags \subseteq s.flags \cup {"BUFFERED_WRITE"}
        /\ s.flags \subseteq c.flags
    BY <2>4, <2>6, OutputKept
  <2>8. /\ c = RawWrite([s EXCEPT !.inbound = SubSeq(@, 3, Len(@))], Http("101"))
    BY <1>7, <2>2, <2>3, <2>5, <2>6 DEF Drop
  <2>9. \/ slot' = Raise([c EXCEPT !.ws = "telnet_pending"], "ENABLE_TELNET")
        \/ slot' = [c EXCEPT !.ws = "ready"]
    BY <1>8, <1>15, <2>8 DEF TryUpgrade, Idle
  <2>10. /\ slot'.inbound = j /\ slot'.wire = s.wire /\ slot'.decoded = s.decoded
         /\ slot'.fragment = s.fragment /\ slot'.ws # "handshake"
         /\ slot'.flags = c.flags \/ slot'.flags = c.flags \cup {"ENABLE_TELNET"}
    BY <2>7, <2>9 DEF AnySlots, Raise
  <2>11. SameTransport(s, slot') /\ Ready(slot')
    BY <2>7, <2>10 DEF SameTransport, Has, Ready
  <2>12. fr \in Seq(Ops) /\ tls \in BOOLEAN /\ slot'.inbound = Drop(s.inbound, 2)
    BY <1>7, <2>2, <2>10, OrderFacts
  <2> HIDE DEF fr, tls
  <2> QED
    BY <1>7, <1>10, <1>12, <1>15, <2>1, <2>10, <2>11, <2>12, OrderUpgraded
<1> QED
  BY <1>13, <1>14, <1>15 DEF Idle

\* Decoding leaves the stages of the input alone, but for the fragment.
LEMMA DecodeSteady ==
    ASSUME NEW h \in Outputs, NEW b \in BOOLEAN, NEW tls \in BOOLEAN, NEW s,
           Open(h, b, tls, s), Ready(s)
    PROVE  Steady(s, ProcessInbound(s).s)
<1>1. PICK w \in Inputs : w = s.wire
  BY DEF Open, SlotOK, Slots
<1>2. PICK N \in Nat : N = Len(w)
  BY DEF Inputs
<1> DEFINE D == Decoders(h, b, tls)
<1>3. PICK F \in [0 .. N -> D] : DecodeSteps(F, s)
  BY <1>1, <1>2, DecodeRun
<1>4. /\ F[0] = Fresh(s) /\ F[N] = ProcessInbound(s)
      /\ \A i \in 1 .. N : F[i] = DecodeUnit(F[i - 1], w[i])
  BY <1>1, <1>2, <1>3 DEF DecodeSteps
<1> DEFINE T == {i \in 0 .. N : Steady(s, F[i].s)}
<1>5. 0 \in T
  <2>1. Fresh(s).s = s /\ Steady(s, s)
    BY DEF Fresh, Steady, SameTransport
  <2> QED
    BY <1>4, <2>1
<1>6. ASSUME NEW n \in 0 .. N - 1, n \in T PROVE n + 1 \in T
  <2>1. PICK j \in 1 .. N : j = n + 1 /\ j - 1 = n /\ j \in 0 .. N
    OBVIOUS
  <2>2. PICK a \in D : a = F[n]
    OBVIOUS
  <2>3. PICK d : d = DecodeUnit(a, w[j])
    OBVIOUS
  <2>4. d = F[j] /\ Steady(s, a.s)
    BY <1>4, <1>6, <2>1, <2>2, <2>3
  <2>5. w[j] \in InUnits
    BY <1>2 DEF Inputs
  <2>6. Steady(a.s, d.s)
    BY <2>3, <2>5, UnitTaken
  <2>7. Steady(s, d.s)
    BY <2>4, <2>6, SteadyTrans
  <2> QED
    BY <2>1, <2>4, <2>7
<1>7. N \in T
  <2> HIDE DEF T
  <2>1. \A n \in 0 .. N : n \in T
    BY <1>5, <1>6, SetInduction
  <2> QED
    BY <2>1
<1> QED
  BY <1>4, <1>7

\* The TLS handshake goes on with a record of the peer.
LEMMA OrderHandshake ==
    ASSUME SessionInvariant, Order, HandshakeStep, slot.live
    PROVE  Ordered(session.frames, session.tls, slot', unread', delivered)
<1> DEFINE fr == session.frames
           tls == session.tls
<1>1. PICK u \in Inputs : u = unread
  BY OrderFacts
<1>2. u # <<>> /\ Shaking(tls, slot)
  BY <1>1 DEF HandshakeStep, Handshaking, Shaking
<1>3. Head(u) = u[1] /\ Tail(u) = Drop(u, 1)
  <2>1. Tail(u) = SubSeq(u, 2, Len(u)) /\ Head(u) = u[1]
    BY <1>2, HeadTailProperties DEF Inputs
  <2> QED
    BY <2>1 DEF Drop
<1>4. PICK v : v = Drop(u, 1)
  OBVIOUS
<1>5. unread' = v
  BY <1>1, <1>3, <1>4 DEF HandshakeStep
<1>6. Ordered(fr, tls, slot, u, delivered) /\ tls \in BOOLEAN /\ slot \in AnySlots
  BY <1>1, OrderFacts DEF Order
<1>7. CASE u[1].op # "finished"
  <2>1. slot' = slot
    BY <1>1, <1>3, <1>7 DEF HandshakeStep
  <2> HIDE DEF fr, tls
  <2>2. Ordered(fr, tls, slot, v, delivered)
    BY <1>2, <1>4, <1>6, <1>7, OrderShaken
  <2> QED
    BY <1>5, <2>1, <2>2 DEF fr, tls
<1>8. CASE u[1].op = "finished"
  <2>1. PICK r : r = Raise(slot, "TLS_ESTABLISHED")
    OBVIOUS
  <2>2. slot' \in TransportReady(r)
    BY <1>1, <1>3, <1>8, <2>1 DEF HandshakeStep
  <2>3. r \in AnySlots
    BY <1>6, <2>1 DEF AnySlots, Raise, FlagSets, Flags
  <2>4. Carries(r, slot')
    BY <2>2, <2>3, OrderFacts, CarriesTransportReady
  <2> HIDE DEF fr, tls
  <2>5. Ordered(fr, tls, r, v, delivered)
    BY <1>2, <1>4, <1>6, <1>8, <2>1, OrderEstablished
  <2>6. Ordered(fr, tls, slot', v, delivered)
    BY <2>4, <2>5, OrderCarried
  <2> QED
    BY <1>5, <2>6 DEF fr, tls
<1> QED
  BY <1>7, <1>8

\* From a read or from a flush.
LEMMA OrderHandshakes ==
    ASSUME SessionInvariant, Order, HandshakeRead \/ FlushHandshake
    PROVE  Order'
<1>1. session' = session /\ delivered' = delivered /\ slot.live
  BY DEF HandshakeRead, FlushHandshake, MayRead, histVars
<1>2. CASE HandshakeStep
  BY <1>1, <1>2, OrderHandshake, OrderNow
<1>3. CASE ~HandshakeStep
  <2>1. slot' = slot /\ unread' = unread
    BY <1>3 DEF HandshakeRead, FlushHandshake
  <2> QED
    BY <1>1, <2>1 DEF Order
<1> QED
  BY <1>2, <1>3

\* Input is put off, or its processing begins or goes on later.
LEMMA OrderProcessing ==
    ASSUME SessionInvariant, Order, ProcessNothing \/ ProcessBegins \/ DeliverLater \/ Resume
    PROVE  Order'
<1>1. session' = session /\ unread' = unread /\ delivered' = delivered
  BY DEF ProcessNothing, ProcessBegins, DeliverLater, Resume, peerVars, histVars
<1>2. PICK c : c = Clear(slot, "DEFERRED_INBOUND")
  OBVIOUS
<1>3. PICK d : d = Raise(slot, "DEFERRED_INBOUND")
  OBVIOUS
<1>4. Carries(slot, slot) /\ Carries(slot, c) /\ Carries(slot, d)
  <2>1. "DEFERRED_INBOUND" \in Flags \ {"ENABLE_WEBSOCKET", "TLS_ESTABLISHED"}
    BY DEF Flags
  <2> QED
    BY <1>2, <1>3, <2>1, OrderFacts, CarriesSelf, CarriesFlag
<1>5. CASE ProcessBegins
  <2>1. slot.live /\ Ready(slot) /\ slot' = [c EXCEPT !.wire = @ \o slot.inbound, !.inbound = <<>>]
    BY <1>2, <1>5 DEF ProcessBegins
  <2>2. /\ c \in AnySlots /\ c.wire = slot.wire /\ c.inbound = slot.inbound
        /\ c.decoded = slot.decoded /\ c.fragment = slot.fragment /\ c.live /\ Ready(c)
    BY <1>2, <1>4, <2>1, OrderFacts DEF Carries, Clear, AnySlots
  <2>3. PICK w \in Inputs : w = Join(c.wire, c.inbound)
    BY <2>2, JoinFacts DEF AnySlots
  <2>4. slot' = [c EXCEPT !.wire = w, !.inbound = <<>>]
    BY <2>1, <2>2, <2>3 DEF Join
  <2>5. /\ slot'.wire = w /\ slot'.inbound = <<>> /\ slot'.decoded = c.decoded
        /\ slot'.fragment = c.fragment /\ slot'.ws = c.ws /\ slot'.flags = c.flags
    BY <2>2, <2>4 DEF AnySlots
  <2>6. Ready(slot') /\ SameTransport(c, slot') /\ slot'.wire = Join(c.wire, c.inbound)
    BY <2>2, <2>3, <2>5 DEF Ready, SameTransport, Has
  <2>7. Ordered(session.frames, session.tls, c, unread, delivered)
    BY <1>4, OrderCarried DEF Order
  <2>8. unread \in Inputs
    BY OrderFacts
  <2>9. Ordered(session.frames, session.tls, slot', unread, delivered)
    BY <2>2, <2>5, <2>6, <2>7, <2>8, OrderBegins
  <2> QED
    BY <1>1, <2>9, OrderNow
<1>6. CASE ~ProcessBegins
  <2>1. slot' = slot \/ slot' = c \/ slot' = d
    BY <1>2, <1>3, <1>6 DEF ProcessNothing, DeliverLater, Resume
  <2> QED
    BY <1>1, <1>4, <2>1, OrderStep
<1> QED
  BY <1>5, <1>6

\* A message reaches the application.
LEMMA OrderDeliver ==
    ASSUME SessionInvariant, Order, Deliver
    PROVE  Order'
<1>1. /\ session' = session /\ unread' = unread /\ delivered' = Append(delivered, slot.decoded)
      /\ slot.live /\ slot.decoded # <<>> /\ Ready(slot)
  BY DEF Deliver, peerVars, SessionInvariant
<1>2. PICK d : d = [slot EXCEPT !.decoded = <<>>]
  OBVIOUS
<1>3. /\ d \in AnySlots /\ d.decoded = <<>> /\ d.fragment = slot.fragment /\ d.wire = slot.wire
      /\ d.inbound = slot.inbound /\ d.ws = slot.ws /\ d.flags = slot.flags
  <2>1. <<>> \in Numbers
    BY CatLaws
  <2> QED
    BY <1>2, <2>1, OrderFacts DEF AnySlots
<1>4. Ready(d) /\ SameTransport(slot, d)
  BY <1>1, <1>3 DEF Ready, SameTransport, Has
<1>5. PICK e : e = Append(delivered, slot.decoded)
  OBVIOUS
<1>6. Ordered(session.frames, session.tls, d, unread, e)
  <2>1. Ordered(session.frames, session.tls, slot, unread, delivered) /\ slot \in AnySlots
    BY OrderFacts DEF Order
  <2> QED
    BY <1>1, <1>3, <1>4, <1>5, <2>1, OrderDelivered
<1>7. Carries(d, slot')
  <2>1. CASE strict
    <3>1. slot' \in Written(d) \/ slot' \in Close(d)
      BY <1>2, <2>1 DEF Deliver
    <3> QED
      BY <1>3, <3>1, OrderFacts, CarriesWritten, CarriesClose
  <2>2. CASE ~strict
    <3>1. PICK x : x = Enqueue(d, "inbound")
      OBVIOUS
    <3>2. slot' = Raise(x, "DEFERRED_INBOUND")
      BY <1>2, <2>2, <3>1 DEF Deliver
    <3>3. "inbound" \in Hooks /\ "DEFERRED_INBOUND" \in Flags \ {"ENABLE_WEBSOCKET", "TLS_ESTABLISHED"}
      BY DEF Hooks, Flags
    <3>4. Carries(d, x) /\ x \in AnySlots
      BY <1>3, <3>1, <3>3, CarriesEnqueue
    <3>5. Carries(x, slot')
      BY <3>2, <3>3, <3>4, CarriesFlag
    <3> QED
      BY <3>4, <3>5, CarriesTrans
  <2> QED
    BY <2>1, <2>2
<1>8. Ordered(session.frames, session.tls, slot', unread, e)
  BY <1>6, <1>7, OrderCarried
<1> QED
  BY <1>1, <1>5, <1>8, OrderNow

\* The next message is decoded.
LEMMA OrderDecode ==
    ASSUME SessionInvariant, Order, Decode
    PROVE  Order'
<1>1. /\ Open(sent, broken, session.tls, slot) /\ Ready(slot) /\ slot.decoded = <<>>
      /\ session' = session /\ unread' = unread /\ delivered' = delivered
  BY SessionFacts DEF Decode, SessionInvariant, peerVars, histVars
<1>2. PICK r : r = ProcessInbound(slot)
  OBVIOUS
<1>3. r \in Decoders(sent, broken, session.tls)
  BY <1>1, <1>2, SessionFacts, ProcessInboundOK
<1>4. r.s \in Slots /\ r.s \in AnySlots /\ Ready(r.s) /\ r.message \in Numbers /\ r.used \in Nat
  BY <1>3, DecoderFields DEF Slots, AnySlots
<1>5. PICK w \in Inputs : w = SubSeq(r.s.wire, r.used + 1, Len(r.s.wire))
  <2>1. PICK q \in Seq(InUnits) : q = r.s.wire
    BY <1>4 DEF Slots, Inputs
  <2>2. SubSeq(q, r.used + 1, Len(q)) \in Seq(InUnits)
    BY <1>4, RestOf
  <2> QED
    BY <2>1, <2>2 DEF Inputs
<1>6. PICK s : s = [r.s EXCEPT !.wire = w]
  OBVIOUS
<1>7. /\ r.verdict \in {"more", "message"}
      /\ CASE r.verdict = "more" -> slot' = s /\ Return
           [] r.verdict = "message" /\ IsSubneg(r.message) ->
                 /\ slot' \in Subnegotiate(s)
                 /\ IF strict THEN UNCHANGED loop ELSE Return
           [] OTHER -> /\ slot' = [s EXCEPT !.decoded = r.message]
                       /\ UNCHANGED loop
  <2>1. s = [r.s EXCEPT !.wire = SubSeq(@, r.used + 1, Len(@))]
    BY <1>5, <1>6
  <2> QED
    BY <1>2, <2>1 DEF Decode
<1>8. Steady(slot, r.s)
  BY <1>1, <1>2, SessionFacts, DecodeSteady
<1>9. /\ s \in AnySlots /\ s.wire = Drop(slot.wire, r.used) /\ s.inbound = slot.inbound
      /\ s.fragment = r.s.fragment /\ s.decoded = <<>> /\ s.ws = r.s.ws /\ s.flags = r.s.flags
  <2>1. /\ s \in AnySlots /\ s.wire = w /\ s.inbound = r.s.inbound
        /\ s.fragment = r.s.fragment /\ s.decoded = r.s.decoded /\ s.ws = r.s.ws /\ s.flags = r.s.flags
    BY <1>4, <1>6 DEF AnySlots
  <2>2. w = Drop(slot.wire, r.used)
    BY <1>5, <1>8 DEF Steady, Drop
  <2> QED
    BY <1>1, <1>8, <2>1, <2>2 DEF Steady
<1>10. Ready(s) /\ SameTransport(slot, s)
  BY <1>4, <1>8, <1>9 DEF Ready, Steady, SameTransport, Has
<1>11. /\ session.frames \in Seq(Ops) /\ session.tls \in BOOLEAN /\ sent \in Outputs
       /\ broken \in BOOLEAN /\ unread \in Inputs
  BY OrderFacts, SessionFacts
<1>12. Ordered(session.frames, session.tls, slot, unread, delivered)
  BY DEF Order
<1>13. CASE r.verdict = "more" \/ IsSubneg(r.message)
  <2>1. s.decoded = IF r.verdict = "more" \/ session.frames[r.message[1]] = "subneg"
                    THEN <<>> ELSE r.message
    BY <1>9, <1>13 DEF IsSubneg
  <2>2. Ordered(session.frames, session.tls, s, unread, delivered)
    BY <1>1, <1>2, <1>7, <1>9, <1>10, <1>11, <1>12, <2>1, OrderDecoded
  <2>3. Carries(s, slot')
    <3>1. CASE r.verdict = "more"
      BY <1>7, <1>9, <3>1, CarriesSelf
    <3>2. CASE r.verdict = "message"
      <4>1. slot' \in Subnegotiate(s)
        BY <1>7, <1>13, <3>2
      <4>2. CASE strict
        <5>1. slot' \in Written(s)
          BY <4>1, <4>2 DEF Subnegotiate
        <5> QED
          BY <1>9, <5>1, CarriesWritten
      <4>3. CASE ~strict /\ ~Busy(s)
        <5>1. "subneg" \in Hooks /\ slot' = Enqueue(s, "subneg")
          BY <4>1, <4>3 DEF Hooks, Subnegotiate
        <5> QED
          BY <1>9, <5>1, CarriesEnqueue
      <4>4. CASE ~strict /\ Busy(s)
        <5>1. "DEFERRED_INBOUND" \in Flags \ {"ENABLE_WEBSOCKET", "TLS_ESTABLISHED"}
          BY DEF Flags
        <5>2. slot' = Raise(s, "DEFERRED_INBOUND")
          BY <4>1, <4>4 DEF Subnegotiate
        <5> QED
          BY <1>9, <5>1, <5>2, CarriesFlag
      <4> QED
        BY <4>2, <4>3, <4>4
    <3> QED
      BY <1>7, <3>1, <3>2
  <2>4. Ordered(session.frames, session.tls, slot', unread, delivered)
    BY <2>2, <2>3, OrderCarried
  <2> QED
    BY <1>1, <2>4, OrderNow
<1>14. CASE ~(r.verdict = "more") /\ ~IsSubneg(r.message)
  <2>1. slot' = [s EXCEPT !.decoded = r.message]
    BY <1>7, <1>14
  <2>2. /\ slot'.wire = s.wire /\ slot'.inbound = s.inbound /\ slot'.fragment = s.fragment
        /\ slot'.decoded = r.message /\ slot'.ws = s.ws /\ slot'.flags = s.flags
    BY <1>9, <2>1 DEF AnySlots
  <2>3. slot'.decoded = IF r.verdict = "more" \/ session.frames[r.message[1]] = "subneg"
                        THEN <<>> ELSE r.message
    BY <1>14, <2>2 DEF IsSubneg
  <2>4. Ready(slot') /\ SameTransport(slot, slot') /\ slot'.wire = Drop(slot.wire, r.used)
        /\ slot'.inbound = slot.inbound /\ slot'.fragment = r.s.fragment
    BY <1>9, <1>10, <2>2 DEF Ready, SameTransport, Has
  <2>5. Ordered(session.frames, session.tls, slot', unread, delivered)
    BY <1>1, <1>2, <1>7, <1>11, <1>12, <2>3, <2>4, OrderDecoded
  <2> QED
    BY <1>1, <2>5, OrderNow
<1> QED
  BY <1>13, <1>14

\* A Close frame, or a frame that is refused.
LEMMA OrderDecodeCloses ==
    ASSUME SessionInvariant, Order, DecodeCloses
    PROVE  Order'
<1>1. /\ Open(sent, broken, session.tls, slot) /\ Ready(slot) /\ slot.decoded = <<>>
      /\ session' = session /\ unread' = unread /\ delivered' = delivered
  BY SessionFacts DEF DecodeCloses, SessionInvariant, peerVars, histVars
<1>2. PICK r : r = ProcessInbound(slot)
  OBVIOUS
<1>3. r \in Decoders(sent, broken, session.tls)
  BY <1>1, <1>2, SessionFacts, ProcessInboundOK
<1>4. r.s \in AnySlots /\ Ready(r.s)
  BY <1>3, DecoderFields DEF Slots, AnySlots
<1>5. PICK c : c = QueueClose(r.s, "close")
  OBVIOUS
<1>6. r.verdict \in {"closed", "refused"} /\ (slot' = r.s \/ slot' \in Close(c))
  BY <1>2, <1>5 DEF DecodeCloses
<1>7. Ordered(session.frames, session.tls, r.s, unread, delivered)
  <2>1. /\ session.frames \in Seq(Ops) /\ session.tls \in BOOLEAN /\ sent \in Outputs
        /\ broken \in BOOLEAN /\ unread \in Inputs
    BY OrderFacts, SessionFacts
  <2>2. Ordered(session.frames, session.tls, slot, unread, delivered)
    BY DEF Order
  <2> QED
    BY <1>1, <1>2, <1>6, <2>1, <2>2, OrderHalted
<1>8. Carries(r.s, c)
  BY <1>4, <1>5, CarriesQueueClose
<1>9. c \in AnySlots
  BY <1>8 DEF Carries
<1>10. slot' = r.s \/ Carries(c, slot')
  BY <1>6, <1>9, OrderFacts, CarriesClose
<1>11. Carries(r.s, slot')
  BY <1>4, <1>8, <1>10, CarriesSelf, CarriesTrans
<1>12. Ordered(session.frames, session.tls, slot', unread, delivered)
  BY <1>7, <1>11, OrderCarried
<1> QED
  BY <1>1, <1>12, OrderNow

\* While the upgrade is to come nothing is queued.
LEMMA NothingQueued ==
    ASSUME SessionInvariant, Order, slot.live, Idle(slot)
    PROVE  slot.out = <<>>
BY DEF Order, Ordered, Waiting, Idle

\* comm_flush takes some of the queue.
LEMMA OrderFlushWrites ==
    ASSUME SessionInvariant, Order, FlushWrites
    PROVE  Order'
<1>1. PICK n \in 0 .. Len(slot.out) :
          slot' = [slot EXCEPT !.out = SubSeq(@, n + 1, Len(@))]
  BY DEF FlushWrites
<1>2. PICK o \in Outputs : o = slot.out
  BY OrderFacts DEF AnySlots
<1>3. PICK v \in Outputs : v = SubSeq(o, n + 1, Len(o))
  <2>1. o \in Seq(OutUnits) /\ n \in Nat
    BY <1>1, <1>2 DEF Outputs
  <2>2. SubSeq(o, n + 1, Len(o)) \in Seq(OutUnits)
    BY <2>1, RestOf
  <2> QED
    BY <2>2 DEF Outputs
<1>4. ~Idle(slot) \/ v = <<>>
  <2>1. SUFFICES ASSUME Idle(slot) PROVE v = <<>>
    OBVIOUS
  <2>2. o = <<>>
    BY <1>2, <2>1, NothingQueued DEF FlushWrites
  <2>3. Len(o) = 0 /\ n = 0
    BY <1>1, <1>2, <2>2
  <2> QED
    BY <1>3, <2>2, <2>3
<1>5. slot' = [slot EXCEPT !.out = v]
  BY <1>1, <1>2, <1>3
<1>6. Carries(slot, slot')
  BY <1>4, <1>5, OrderFacts, CarriesField
<1>7. session' = session /\ unread' = unread /\ delivered' = delivered
  BY DEF FlushWrites, peerVars
<1> QED
  BY <1>6, <1>7, OrderStep

\* The write fails, and a closing slot is not on TLS any more.
LEMMA OrderFlushFails ==
    ASSUME SessionInvariant, Order, FlushFails
    PROVE  Order'
<1>1. slot.live /\ slot.out # <<>> /\ ~Idle(slot)
  BY NothingQueued DEF FlushFails
<1>2. PICK e : e = FreeOutbound(slot)
  OBVIOUS
<1>3. Carries(slot, e) /\ e \in AnySlots /\ e.live = slot.live
  BY <1>2, OrderFacts, CarriesFree DEF Carries
<1>4. PICK f : f = Clear(e, "BUFFERED_WRITE")
  OBVIOUS
<1>5. "BUFFERED_WRITE" \in Flags \ {"ENABLE_WEBSOCKET", "TLS_ESTABLISHED"}
  BY DEF Flags
<1>6. Carries(e, f)
  BY <1>3, <1>4, <1>5, CarriesFlag
<1>7. Carries(slot, f)
  BY <1>3, <1>6, CarriesTrans
<1>8. f.live = e.live
  BY <1>3, <1>4 DEF Clear, AnySlots
<1>9. f \in AnySlots /\ ~Idle(f)
  BY <1>1, <1>3, <1>7, <1>8 DEF Carries, SameTransport, Idle
<1>10. PICK fr : fr = session.frames
  OBVIOUS
<1>11. PICK tls : tls = session.tls
  OBVIOUS
<1>12. Ordered(fr, tls, f, unread, delivered)
  BY <1>7, <1>10, <1>11, OrderCarried DEF Order
<1>13. PICK l : l = Clear(f, "TLS_ESTABLISHED")
  OBVIOUS
<1>14. Ordered(fr, tls, l, unread, delivered)
  BY <1>9, <1>12, <1>13, OrderFacts, OrderLost
<1>15. slot' = f \/ slot' = l
  BY <1>2, <1>4, <1>13 DEF FlushFails
<1>16. session' = session /\ unread' = unread /\ delivered' = delivered
  BY DEF FlushFails, histVars
<1> QED
  BY <1>10, <1>11, <1>12, <1>14, <1>15, <1>16, OrderNow

\* The queue is empty: the negotiation, the barrier or nothing comes next.
LEMMA OrderDrained ==
    ASSUME SessionInvariant, Order, DrainedTelnet \/ DrainedBarrier \/ Drained
    PROVE  Order'
<1>1. "BUFFERED_WRITE" \in Flags \ {"ENABLE_WEBSOCKET", "TLS_ESTABLISHED"}
  BY DEF Flags
<1>2. slot \in AnySlots /\ strict \in BOOLEAN
  BY OrderFacts
<1>3. Carries(slot, slot')
  <2>1. CASE DrainedTelnet
    <3>1. Ready(slot)
      BY <2>1 DEF DrainedTelnet, Ready
    <3>2. PICK r : r = [slot EXCEPT !.ws = "ready"]
      OBVIOUS
    <3>3. "ready" \in WsStates \ {"handshake"}
      BY DEF WsStates
    <3>4. Carries(slot, r)
      BY <1>2, <3>1, <3>2, <3>3, CarriesField
    <3>5. r \in AnySlots /\ ~Idle(r)
      BY <3>1, <3>4 DEF Carries, Idle
    <3>6. PICK u \in OutUnits : u = Frame("negotiation", 0)
      BY DEF Frame, OutUnits, OutOps
    <3>7. Carries(r, RawWrite(r, u))
      BY <3>5, CarriesRawWrite
    <3>8. slot' = r \/ slot' = RawWrite(r, u)
      BY <2>1, <3>2, <3>6 DEF DrainedTelnet
    <3> QED
      BY <3>4, <3>7, <3>8, CarriesTrans
  <2>2. CASE DrainedBarrier
    <3>1. ~Idle(slot)
      BY <2>2 DEF DrainedBarrier, Idle
    <3>2. PICK v \in Outputs : v = slot.barrier
      <4>1. slot.barrier \in Seq(DataUnits)
        BY <1>2 DEF AnySlots, Barriers
      <4>2. \A u \in DataUnits : u \in OutUnits
        BY DEF DataUnits, OutUnits, OutOps
      <4>3. slot.barrier \in Seq(OutUnits)
        BY <4>1, <4>2
      <4> QED
        BY <4>3 DEF Outputs
    <3>3. PICK o : o = [slot EXCEPT !.out = v]
      OBVIOUS
    <3>4. Carries(slot, o)
      BY <1>2, <3>1, <3>3, CarriesField
    <3>5. o \in AnySlots
      BY <3>4 DEF Carries
    <3>6. PICK b : b = [o EXCEPT !.barrier = <<>>]
      OBVIOUS
    <3>7. <<>> \in Barriers
      BY DEF Barriers
    <3>8. Carries(o, b)
      BY <3>5, <3>6, <3>7, CarriesField
    <3>9. b \in AnySlots
      BY <3>8 DEF Carries
    <3>10. PICK w : w = Raise(b, "BUFFERED_WRITE")
      OBVIOUS
    <3>11. Carries(b, w)
      BY <1>1, <3>9, <3>10, CarriesFlag
    <3>12. w \in AnySlots
      BY <3>11 DEF Carries
    <3>13. b = [slot EXCEPT !.out = slot.barrier, !.barrier = <<>>]
      BY <1>2, <3>2, <3>3, <3>6 DEF AnySlots
    <3>14. slot' \in TransportReady(w)
      BY <2>2, <3>10, <3>13 DEF DrainedBarrier
    <3>15. Carries(w, slot')
      BY <1>2, <3>12, <3>14, CarriesTransportReady
    <3> QED
      BY <3>4, <3>8, <3>11, <3>15, CarriesTrans
  <2>3. CASE Drained
    <3>1. PICK s \in IF Ready(slot) THEN TransportReady(slot) ELSE {slot} :
              slot' = IF s.out = <<>> THEN Clear(s, "BUFFERED_WRITE") ELSE s
      BY <2>3 DEF Drained
    <3>2. Carries(slot, s)
      BY <1>2, <3>1, CarriesSelf, CarriesTransportReady
    <3>3. s \in AnySlots
      BY <3>2 DEF Carries
    <3>4. Carries(s, slot')
      BY <1>1, <3>1, <3>3, CarriesSelf, CarriesFlag
    <3> QED
      BY <3>2, <3>4, CarriesTrans
  <2> QED
    BY <2>1, <2>2, <2>3
<1>4. session' = session /\ unread' = unread /\ delivered' = delivered
  BY DEF DrainedTelnet, DrainedBarrier, Drained, peerVars, histVars
<1> QED
  BY <1>3, <1>4, OrderStep

\* Output and hooks of the application.
LEMMA OrderApp ==
    ASSUME SessionInvariant, Order, AppWrites \/ AppSends
    PROVE  Order'
<1>1. slot \in AnySlots
  BY OrderFacts
<1>2. Carries(slot, slot')
  <2>1. CASE AppWrites
    BY <1>1, <2>1, CarriesWrite DEF AppWrites
  <2>2. CASE AppSends
    <3>1. PICK e : e = Enqueue(slot, "outbound")
      OBVIOUS
    <3>2. "outbound" \in Hooks
      BY DEF Hooks
    <3>3. Carries(slot, e) /\ e \in AnySlots
      BY <1>1, <3>1, <3>2, CarriesEnqueue
    <3>4. PICK v \in Nat : v = e.sends + 1
      BY <3>3 DEF AnySlots
    <3>5. slot' = [e EXCEPT !.sends = v]
      BY <2>2, <3>1, <3>4 DEF AppSends
    <3>6. Carries(e, slot')
      BY <3>3, <3>5, CarriesField
    <3> QED
      BY <3>3, <3>6, CarriesTrans
  <2> QED
    BY <2>1, <2>2
<1>3. session' = session /\ unread' = unread /\ delivered' = delivered
  BY DEF AppWrites, AppSends, Aside, histVars
<1> QED
  BY <1>2, <1>3, OrderStep

\* A hook of the slot is over.
LEMMA OrderHooks ==
    ASSUME SessionInvariant, Order, HookCompletes \/ HookLeaves
    PROVE  Order'
<1>1. slot \in AnySlots /\ Busy(slot)
  BY OrderFacts DEF HookCompletes, HookLeaves
<1>2. PICK g \in Gates : g = slot.gate /\ g # <<>>
  BY <1>1 DEF AnySlots, Busy
<1>3. Carries(slot, slot')
  <2>1. CASE HookLeaves
    <3>1. Tail(g) \in Gates
      BY <1>2 DEF Gates
    <3>2. slot' = [slot EXCEPT !.gate = Tail(g)]
      BY <1>2, <2>1 DEF HookLeaves
    <3> QED
      BY <1>1, <3>1, <3>2, CarriesField
  <2>2. CASE HookCompletes
    <3> DEFINE others == Flags \ {"ENABLE_WEBSOCKET", "TLS_ESTABLISHED"}
    <3>1. "AWAITING_HOOK" \in others /\ "DEFERRED_INBOUND" \in others
      BY DEF Flags
    <3>2. PICK c : c = Completed(slot)
      OBVIOUS
    <3>3. PICK d : d = IF Has(slot, "CLOSING") THEN slot ELSE Clear(slot, "AWAITING_HOOK")
      OBVIOUS
    <3>4. Carries(slot, d)
      BY <1>1, <3>1, <3>3, CarriesSelf, CarriesFlag
    <3>5. d \in AnySlots
      BY <3>4 DEF Carries
    <3>6. Carries(d, Raise(d, "DEFERRED_INBOUND"))
      BY <3>1, <3>5, CarriesFlag
    <3>7. \/ c = slot \/ c = Raise(d, "DEFERRED_INBOUND")
          \/ c = Raise(slot, "DEFERRED_INBOUND") \/ c = Clear(slot, "AWAITING_HOOK")
      BY <3>2, <3>3 DEF Completed
    <3>8. Carries(slot, c)
      <4>1. Carries(slot, slot)
        BY <1>1, CarriesSelf
      <4>2. Carries(slot, Raise(slot, "DEFERRED_INBOUND")) /\ Carries(slot, Clear(slot, "AWAITING_HOOK"))
        BY <1>1, <3>1, CarriesFlag
      <4> QED
        BY <3>4, <3>6, <3>7, <4>1, <4>2, CarriesTrans
    <3>9. c.gate = g /\ c \in AnySlots
      <4>1. c \in AnySlots
        BY <3>8 DEF Carries
      <4>2. c.gate = g
        BY <1>1, <1>2, <3>2 DEF Completed, Raise, Clear, AnySlots
      <4> QED
        BY <4>1, <4>2
    <3>10. PICK v \in Gates : v = [g EXCEPT ![1] = "leaving"]
      <4>1. "leaving" \in Hooks
        BY DEF Hooks
      <4>2. g \in Seq(Hooks)
        BY <1>2 DEF Gates
      <4>3. 1 \in 1 .. Len(g)
        BY <1>2, <4>2
      <4>4. [g EXCEPT ![1] = "leaving"] \in Seq(Hooks)
        BY <4>1, <4>2, <4>3, ExceptSeq
      <4> QED
        BY <4>4 DEF Gates
    <3>11. slot' = [c EXCEPT !.gate = v]
      <4>1. slot' = [c EXCEPT !.gate[1] = "leaving"]
        BY <2>2, <3>2 DEF HookCompletes
      <4> QED
        BY <3>9, <3>10, <4>1
    <3>12. Carries(c, slot')
      BY <3>9, <3>10, <3>11, CarriesField
    <3> QED
      BY <3>8, <3>12, CarriesTrans
  <2> QED
    BY <2>1, <2>2
<1>4. session' = session /\ unread' = unread /\ delivered' = delivered
  BY DEF HookCompletes, HookLeaves, Aside, histVars
<1> QED
  BY <1>3, <1>4, OrderStep

\* The peer answers a Close that was sent, so that the upgrade is over.
LEMMA OrderPeerAnswers ==
    ASSUME SessionInvariant, Order, PeerAnswers
    PROVE  Order'
<1>1. Ready(slot)
  <2>1. SUFFICES ASSUME ~Ready(slot) PROVE FALSE
    OBVIOUS
  <2>2. sent \in Outputs /\ slot \in Slots /\ ~CloseBegun(slot)
    BY <2>1, SessionFacts DEF Ready, CloseBegun
  <2>3. NoClose(All(sent, slot))
    BY <2>2, SessionFacts DEF SlotOK, Protocol
  <2>4. PICK t : t = [slot EXCEPT !.out = <<>>]
    OBVIOUS
  <2>5. t.out = <<>>
    BY <2>2, <2>4 DEF Slots
  <2>6. Extends(sent, All(sent, slot))
    BY <2>2, <2>5, Emptied
  <2>7. NoClose(sent)
    BY <2>3, <2>6, Beginning
  <2> QED
    BY <2>7 DEF PeerAnswers, NoClose, IsClose
<1>2. PICK c \in Inputs : c = Units("close", 0)
  <2>1. "close" \in Ops /\ 0 \in Nat
    BY DEF Ops
  <2> QED
    BY <2>1, UnitsType
<1>3. slot.live /\ slot' = slot /\ session' = session /\ delivered' = delivered
  BY DEF PeerAnswers, Aside, histVars
<1>4. unread' = Join(unread, c)
  BY <1>2 DEF PeerAnswers, Join
<1>5. PICK fr : fr = session.frames
  OBVIOUS
<1>6. PICK tls : tls = session.tls
  OBVIOUS
<1>7. Ordered(fr, tls, slot, Join(unread, c), delivered)
  <2>1. slot \in AnySlots /\ unread \in Inputs /\ Ordered(fr, tls, slot, unread, delivered)
    BY <1>5, <1>6, OrderFacts DEF Order
  <2> QED
    BY <1>1, <1>2, <1>3, <2>1, OrderAnswered
<1> QED
  BY <1>3, <1>4, <1>5, <1>6, <1>7, OrderNow

\* The units of a frame, one behind the other.
LEMMA UnitsFollow ==
    ASSUME NEW fr \in Seq(Ops), NEW n \in DOMAIN fr, NEW r, r = Units(fr[n], n)
    PROVE  /\ r \in Inputs /\ Len(r) # 0
           /\ Starts(fr, r[1], n)
           /\ \A i \in 1 .. Len(r) - 1 : Link(fr, r[i], r[i + 1])
           /\ \A i \in 1 .. Len(r) : r[i].op \in Ops \cup {"part"}
           /\ NextId(r[Len(r)]) = n + 1
<1>1. PICK op \in Ops : op = fr[n]
  OBVIOUS
<1>2. n \in Nat
  OBVIOUS
<1>3. r \in Inputs
  BY <1>1, <1>2, UnitsType
<1>4. PICK p : p = Unit("part", n)
  OBVIOUS
<1>5. PICK u : u = Unit(op, n)
  OBVIOUS
<1>6. p.op = "part" /\ p.id = n /\ u.op = op /\ u.id = n /\ op # "part"
  BY <1>4, <1>5 DEF Unit, Ops, Data, Refused
<1>7. Starts(fr, p, n) /\ Starts(fr, u, n)
  BY <1>1, <1>6 DEF Starts
<1>8. Link(fr, p, u)
  BY <1>6, <1>7 DEF Link, NextId
<1>9. NextId(u) = n + 1
  BY <1>6 DEF NextId
<1>10. r = <<u>> \/ r = <<p, u>>
  BY <1>1, <1>4, <1>5 DEF Units
<1>11. CASE r = <<u>>
  <2>1. Len(r) = 1 /\ r[1] = u
    BY <1>11
  <2>2. \A i \in 1 .. Len(r) - 1 : FALSE
    BY <2>1
  <2>3. \A i \in 1 .. Len(r) : r[i] = u
    BY <2>1
  <2> QED
    BY <1>3, <1>6, <1>7, <1>9, <2>1, <2>2, <2>3
<1>12. CASE r = <<p, u>>
  <2>1. Len(r) = 2 /\ r[1] = p /\ r[2] = u
    BY <1>12
  <2>2. \A i \in 1 .. Len(r) - 1 : i = 1 /\ i + 1 = 2
    BY <2>1
  <2>3. \A i \in 1 .. Len(r) : r[i] = u \/ r[i] = p
    BY <2>1
  <2>4. \A i \in 1 .. Len(r) : r[i].op \in Ops \cup {"part"}
    BY <1>6, <2>3
  <2>5. \A i \in 1 .. Len(r) - 1 : Link(fr, r[i], r[i + 1])
    BY <1>8, <2>1, <2>2
  <2> QED
    BY <1>3, <1>7, <1>9, <2>1, <2>4, <2>5
<1> QED
  BY <1>10, <1>11, <1>12

\* q is the first n frames.
FirstFrames(fr, q, n) ==
    /\ q \in Inputs /\ Chain(fr, 0, q, 0) /\ Plain(q, 0)
    /\ Len(q) = 0 => n = 0
    /\ Len(q) # 0 => NextId(q[Len(q)]) = n + 1

\* One frame more.
LEMMA FrameJoins ==
    ASSUME NEW fr \in Seq(Ops), NEW n \in Nat, n + 1 \in DOMAIN fr, NEW q,
           FirstFrames(fr, q, n), NEW r, r = Units(fr[n + 1], n + 1)
    PROVE  FirstFrames(fr, Join(q, r), n + 1)
<1>1. PICK k \in DOMAIN fr : k = n + 1
  OBVIOUS
<1>2. /\ r \in Inputs /\ Len(r) # 0
      /\ Starts(fr, r[1], k)
      /\ \A i \in 1 .. Len(r) - 1 : Link(fr, r[i], r[i + 1])
      /\ \A i \in 1 .. Len(r) : r[i].op \in Ops \cup {"part"}
      /\ NextId(r[Len(r)]) = k + 1
  BY <1>1, UnitsFollow
<1>3. PICK z \in Nat : z = Len(r)
  BY <1>2 DEF Inputs
<1>4. q \in Inputs
  BY DEF FirstFrames
<1>5. PICK l \in Nat : l = Len(q)
  BY <1>4 DEF Inputs
<1>6. Len(q) = 0 => Starts(fr, r[1], 0 + 1)
  <2>1. Len(q) = 0 => k = 0 + 1
    BY <1>1 DEF FirstFrames
  <2> QED
    BY <1>2, <2>1
<1>7. Len(q) # 0 => Link(fr, q[Len(q)], r[1])
  BY <1>1, <1>2 DEF FirstFrames, Link
<1>8. Chain(fr, 0, Join(q, r), 0)
  <2>1. Chain(fr, 0, q, 0)
    BY DEF FirstFrames
  <2> QED
    BY <1>2, <1>4, <1>6, <1>7, <2>1, ChainJoin
<1>9. PICK j \in Inputs : j = Join(q, r)
  BY <1>2, <1>4, JoinFacts
<1>10. /\ Len(j) = l + z /\ (\A i \in 1 .. l : j[i] = q[i])
       /\ \A i \in 1 .. z : j[l + i] = r[i]
  <2>1. /\ Len(Join(q, r)) = Len(q) + Len(r)
        /\ \A i \in 1 .. Len(q) : Join(q, r)[i] = q[i]
        /\ \A i \in 1 .. Len(r) : Join(q, r)[Len(q) + i] = r[i]
    BY <1>2, <1>4, JoinFacts
  <2> QED
    BY <1>3, <1>5, <1>9, <2>1
<1>11. ASSUME NEW i \in 0 + 1 .. l + z PROVE j[i].op \in Ops \cup {"part"}
  <2>1. CASE i <= l
    <3>1. i \in 1 .. l /\ i \in 0 + 1 .. l
      BY <2>1
    <3> QED
      BY <1>5, <1>10, <3>1 DEF FirstFrames, Plain
  <2>2. CASE i > l
    <3>1. PICK m \in 1 .. z : i = l + m
      <4>1. i - l \in 1 .. z /\ i = l + (i - l)
        BY <2>2
      <4> QED
        BY <4>1
    <3> QED
      BY <1>2, <1>3, <1>10, <3>1
  <2> QED
    BY <2>1, <2>2
<1>12. Plain(j, 0)
  BY <1>10, <1>11 DEF Plain
<1>13. Len(j) # 0 /\ j[Len(j)] = r[z]
  <2>1. z # 0 /\ z \in 1 .. z /\ l + z # 0
    BY <1>2, <1>3
  <2> QED
    BY <1>10, <2>1
<1>14. NextId(j[Len(j)]) = k + 1
  BY <1>2, <1>3, <1>13
<1> QED
  BY <1>1, <1>8, <1>9, <1>12, <1>13, <1>14 DEF FirstFrames

\* The frames of a session, one behind the other, are in order.
LEMMA FramesFollow ==
    ASSUME NEW fr \in Seq(Ops), NEW q, q = [i \in DOMAIN fr |-> Units(fr[i], i)]
    PROVE  /\ FlattenSeq(q) \in Inputs
           /\ Chain(fr, 0, FlattenSeq(q), 0) /\ Plain(FlattenSeq(q), 0)
<1>1. PICK N \in Nat : N = Len(fr) /\ DOMAIN fr = 1 .. N
  OBVIOUS
<1>2. \A i \in 1 .. N : Units(fr[i], i) \in Inputs
  BY <1>1, UnitsFollow
<1>3. q \in [1 .. N -> Inputs] /\ \A i \in 1 .. N : q[i] = Units(fr[i], i)
  BY <1>1, <1>2
<1>4. q \in Seq(Seq(InUnits)) /\ Len(q) = N
  BY <1>3 DEF Inputs
<1>5. PICK c \in [0 .. N -> Seq(InUnits)] : FlatRun(c, q, N) /\ FlattenSeq(q) = c[N]
  BY <1>4, FlattenRun
<1> DEFINE T == {n \in 0 .. N : FirstFrames(fr, c[n], n)}
<1>6. 0 \in T
  <2>1. FirstFrames(fr, <<>>, 0)
    <3>1. <<>> \in Inputs /\ Len(<<>>) = 0
      BY DEF Inputs
    <3>2. Chain(fr, 0, <<>>, 0) /\ Plain(<<>>, 0)
      BY <3>1 DEF Chain, Plain
    <3> QED
      BY <3>1, <3>2 DEF FirstFrames
  <2>2. c[0] = <<>>
    BY <1>5 DEF FlatRun
  <2> QED
    BY <2>1, <2>2
<1>7. ASSUME NEW n \in 0 .. N - 1, n \in T PROVE n + 1 \in T
  <2>1. n \in Nat /\ n + 1 \in 1 .. N /\ n + 1 \in 0 .. N /\ (n + 1) - 1 = n
    OBVIOUS
  <2>2. PICK k \in 1 .. N : k = n + 1
    BY <2>1
  <2>3. k - 1 = n /\ k \in 0 .. N
    BY <2>1, <2>2
  <2>4. c[k] = c[k - 1] \o q[k]
    BY <1>5 DEF FlatRun
  <2>5. PICK r : r = Units(fr[n + 1], n + 1)
    OBVIOUS
  <2>6. c[k] = Join(c[n], r)
    BY <1>3, <2>2, <2>3, <2>4, <2>5 DEF Join
  <2>7. PICK e : e = c[n]
    OBVIOUS
  <2>8. FirstFrames(fr, e, n)
    BY <1>7, <2>7
  <2>9. n + 1 \in DOMAIN fr
    BY <1>1, <2>1
  <2>10. FirstFrames(fr, Join(e, r), n + 1)
    BY <2>1, <2>5, <2>8, <2>9, FrameJoins
  <2> QED
    BY <2>1, <2>2, <2>6, <2>7, <2>10
<1>8. N \in T
  <2> HIDE DEF T
  <2>1. \A n \in 0 .. N : n \in T
    BY <1>6, <1>7, SetInduction
  <2> QED
    BY <2>1
<1>9. FirstFrames(fr, c[N], N)
  BY <1>8
<1> QED
  BY <1>5, <1>9 DEF FirstFrames

\* At first everything is unread.
LEMMA OrderInit ==
    ASSUME Init
    PROVE  Order
<1>1. PICK fr \in Seq(Ops) : fr = session.frames
  BY WebSocketAssumption DEF Init
<1>2. PICK tls \in BOOLEAN : tls = session.tls
  BY WebSocketAssumption DEF Init
<1>3. PICK q : q = [i \in DOMAIN fr |-> Units(fr[i], i)]
  OBVIOUS
<1>4. PICK f \in Inputs : f = FlattenSeq(q) /\ Chain(fr, 0, f, 0) /\ Plain(f, 0)
  BY <1>3, FramesFollow
<1>5. PICK a \in InUnits : a = Unit("hello", 0)
  BY DEF Unit, InUnits
<1>6. PICK b \in InUnits : b = Unit("finished", 0)
  BY DEF Unit, InUnits
<1>7. PICK g \in InUnits : g = Unit("get", 0)
  BY DEF Unit, InUnits
<1>8. PICK e \in InUnits : e = Unit("end", 0)
  BY DEF Unit, InUnits
<1>9. a.op = "hello" /\ b.op = "finished"
  BY <1>5, <1>6 DEF Unit
<1>10. PICK h \in Inputs : h = (IF tls THEN <<a, b>> ELSE <<>>) \o <<g, e>>
  <2>1. <<a, b>> \in Seq(InUnits) /\ <<g, e>> \in Seq(InUnits) /\ <<>> \in Seq(InUnits)
    OBVIOUS
  <2>2. PICK x \in Seq(InUnits) : x = IF tls THEN <<a, b>> ELSE <<>>
    BY <2>1
  <2>3. x \o <<g, e>> \in Seq(InUnits)
    BY <2>1, ConcatProperties
  <2> QED
    BY <2>2, <2>3 DEF Inputs
<1>11. /\ tls => Len(h) = 4 /\ h[1] = a /\ h[2] = b
       /\ ~tls => Len(h) = 2
  <2>1. CASE tls
    <3>1. h = <<a, b>> \o <<g, e>>
      BY <1>10, <2>1
    <3>2. Len(h) = 4 /\ h[1] = a /\ h[2] = b
      BY <3>1
    <3> QED
      BY <2>1, <3>2
  <2>2. CASE ~tls
    <3>1. h = <<>> \o <<g, e>>
      BY <1>10, <2>2
    <3>2. Len(h) = 2
      BY <3>1
    <3> QED
      BY <2>2, <3>2
  <2> QED
    BY <2>1, <2>2
<1>12. PICK u \in Inputs : u = Join(h, f)
  BY JoinFacts
<1>13. unread = u
  BY <1>1, <1>2, <1>3, <1>4, <1>5, <1>6, <1>7, <1>8, <1>10, <1>12 DEF Init, Join
<1>14. PICK k \in 2 .. 4 : k = Len(h) /\ (k = 2 <=> ~tls) /\ k # 3
  <2>1. CASE tls
    BY <1>11, <2>1
  <2>2. CASE ~tls
    BY <1>11, <2>2
  <2> QED
    BY <2>1, <2>2
<1>15. Chain(fr, 0, u, k) /\ Plain(u, k)
  <2>1. Chain(fr, 0, Join(h, f), Len(h)) /\ Plain(Join(h, f), Len(h))
    BY <1>4, ChainBehind
  <2> QED
    BY <1>12, <1>14, <2>1
<1>16. k <= Len(u) /\ (k = 4 => u[1].op = "hello" /\ u[2].op = "finished")
  <2>1. Len(u) = Len(h) + Len(f) /\ \A i \in 1 .. Len(h) : u[i] = h[i]
    BY <1>12, JoinFacts
  <2>2. Len(f) \in Nat
    BY DEF Inputs
  <2>3. k <= Len(u)
    BY <1>14, <2>1, <2>2
  <2>4. k = 4 => tls /\ 1 \in 1 .. Len(h) /\ 2 \in 1 .. Len(h)
    BY <1>14
  <2> QED
    BY <1>9, <1>11, <2>1, <2>3, <2>4
<1>17. PICK s : /\ s = [live |-> TRUE, flags |-> {"ENABLE_WEBSOCKET"},
                       ws |-> "handshake", out |-> <<>>, barrier |-> <<>>,
                       inbound |-> <<>>, wire |-> <<>>, decoded |-> <<>>,
                       fragment |-> <<>>, gate |-> <<>>, writes |-> 0,
                       sends |-> 0]
                /\ slot \in Written(s)
  BY DEF Init
<1>18. /\ s.live = TRUE /\ s.flags = {"ENABLE_WEBSOCKET"} /\ s.ws = "handshake"
       /\ s.out = <<>> /\ s.inbound = <<>> /\ s.wire = <<>>
       /\ s.decoded = <<>> /\ s.fragment = <<>>
  BY <1>17
<1>19. s \in AnySlots
  <2>1. /\ <<>> \in Outputs /\ <<>> \in Barriers /\ <<>> \in Inputs /\ <<>> \in Numbers
        /\ <<>> \in Gates /\ {"ENABLE_WEBSOCKET"} \in FlagSets /\ "handshake" \in WsStates
    BY DEF Outputs, Barriers, Inputs, Numbers, Gates, FlagSets, Flags, WsStates
  <2>2. 0 \in Nat
    OBVIOUS
  <2> QED
    BY <1>17, <2>1, <2>2, Zenon DEF AnySlots
<1>20. Carries(s, slot)
  BY <1>17, <1>19, CarriesWritten
<1>21. ~Ready(s) /\ Has(s, "ENABLE_WEBSOCKET") /\ ~Has(s, "TLS_ESTABLISHED")
  BY <1>18 DEF Ready, Has
<1>22. Shaking(tls, s) <=> tls
  BY <1>21 DEF Shaking
<1>23. Join(s.inbound, u) = u
  BY <1>18, JoinLaws
<1>24. Opening(fr, tls, s, u)
  BY <1>14, <1>15, <1>16, <1>18, <1>22, <1>23 DEF Opening
<1>25. Waiting(fr, tls, s, u, <<>>)
  BY <1>18, <1>24 DEF Waiting
<1>26. Told(fr, <<>>)
  BY NothingYet
<1>27. Ordered(fr, tls, s, u, <<>>)
  BY <1>21, <1>25, <1>26 DEF Ordered
<1>28. Ordered(fr, tls, slot, u, <<>>)
  BY <1>20, <1>27, OrderCarried
<1>29. delivered = <<>>
  BY DEF Init
<1> QED
  BY <1>1, <1>2, <1>13, <1>28, <1>29 DEF Order

\* Every step keeps the input in order.
LEMMA OrderNext ==
    ASSUME SessionInvariant, Order, [Next]_vars
    PROVE  Order'
<1>1. CASE Refill \/ RefillFails \/ HandshakeRead \/ ErrorEvent \/ NoRead
  BY <1>1, OrderRefill, OrderPlain, OrderHandshakes, OrderClosing
<1>2. CASE ProcessNothing \/ ProcessBegins \/ Deliver \/ DeliverLater \/ Decode
           \/ DecodeCloses \/ Settle \/ Resume
  BY <1>2, OrderProcessing, OrderDeliver, OrderDecode, OrderDecodeCloses, OrderClosing
<1>3. CASE FlushRemoved \/ FlushHandshake \/ FlushWrites \/ FlushFails
  BY <1>3, OrderPlain, OrderHandshakes, OrderFlushWrites, OrderFlushFails
<1>4. CASE DrainedTelnet \/ DrainedBarrier \/ Drained \/ Progress
  BY <1>4, OrderDrained, OrderClosing
<1>5. CASE AppWrites \/ AppCloses \/ AppSends \/ HookCompletes \/ HookLeaves
           \/ PeerAnswers \/ PeerLeaves
  BY <1>5, OrderApp, OrderClosing, OrderHooks, OrderPeerAnswers, OrderPlain
<1>6. CASE UNCHANGED vars
  BY <1>6, OrderPlain
<1> QED
  BY <1>1, <1>2, <1>3, <1>4, <1>5, <1>6 DEF Next, LoopSteps

\* Messages reach HOOK_MESSAGE_INBOUND whole, in order, once, and none is passed
\* over, for every session, every cut of the reads and every stop for a hook.
THEOREM MessagesInOrderAlways == Spec => []MessagesInOrder
<1>1. Order => MessagesInOrder
  <2>1. SUFFICES ASSUME Order PROVE MessagesInOrder
    OBVIOUS
  <2>2. PICK fr : fr = session.frames
    OBVIOUS
  <2>3. PICK got : got = FlattenSeq(delivered)
    OBVIOUS
  <2>4. InPlace(fr, got) /\ \A m \in DOMAIN delivered : Formed(fr, delivered[m])
    BY <2>1, <2>2, <2>3 DEF Order, Ordered, Told
  <2> DEFINE text == {i \in DOMAIN fr : fr[i] \in Data \ {"subneg"}}
  <2>5. \A k \in DOMAIN got : got[k] \in text
    BY <2>4 DEF InPlace, Text
  <2>6. \A k \in DOMAIN got : k = Cardinality({i \in text : i <= got[k]})
    BY <2>4 DEF InPlace, Text, Count
  <2>7. ASSUME NEW m \in DOMAIN delivered
        PROVE  LET d == delivered[m] IN
               /\ fr[d[1]] \in {"msg", "first"}
               /\ fr[d[Len(d)]] \in {"msg", "last"}
               /\ \A k \in 2..Len(d) - 1 : fr[d[k]] = "cont"
    BY <2>4 DEF Formed
  <2> QED
    BY <2>2, <2>3, <2>5, <2>6, <2>7 DEF MessagesInOrder
<1>2. Init => Order
  BY OrderInit
<1>3. SessionInvariant /\ Order /\ [Next]_vars => Order'
  BY OrderNext
<1> QED
  BY <1>1, <1>2, <1>3, SessionAlways, PTL DEF Spec
=============================================================================
