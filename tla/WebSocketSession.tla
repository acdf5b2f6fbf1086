-------------------------- MODULE WebSocketSession --------------------------
(***************************************************************************)
(* A slot with WebSocket enabled in HOOK_CONNECT, over TCP or TLS:         *)
(* src/lib/comm/websocket.cpp, outbound.cpp, ssl.cpp, the TLS read path of *)
(* inbound.cpp and the event loop of src/src/mudmux.cpp.  The HTTP upgrade *)
(* and the barrier that holds output back until its answer is out, frame   *)
(* decoding across reads, the bounded outbound queue and its flush, the    *)
(* Close handshake started by either side, and the removal of the slot.    *)
(*                                                                         *)
(* What the peer sends is a sequence of units.  "part" is the beginning of *)
(* the frame whose end is the next unit, so reads end inside of frames;    *)
(* a bad frame is refused from its header and is one unit.  The queues to  *)
(* the peer hold one frame or HTTP answer per element.  Each WebSocket     *)
(* message is one line of input (framing of lines is InboundParsing's).    *)
(***************************************************************************)
EXTENDS Naturals, Sequences, SequencesExt, FiniteSets

CONSTANTS
    Sessions,       \* [request, frames, tls]: what the peer will send
    OutCap,         \* MAX_OUTBOUND_BUFFERS_PER_SLOT
    Backlog,        \* continuation queue of the slot
    MaxWrites,      \* bound: comm_buffered_write calls for the slot
    MaxSends        \* bound: comm_add_message calls queued as hooks

Requests == {"good", "telnet", "bad"}
Data     == {"msg", "first", "cont", "last", "subneg"}
Refused  == {"header", "toobig", "notutf8"}     \* 1002, 1009, 1007
Ops      == Data \cup Refused \cup {"ping", "pong", "close"}

ASSUME WebSocketAssumption ==
    /\ OutCap \in Nat \ {0} /\ Backlog \in Nat
    /\ MaxWrites \in Nat /\ MaxSends \in Nat
    /\ \A s \in Sessions :
          /\ s.request \in Requests /\ s.tls \in BOOLEAN
          /\ s.frames \in Seq(Ops)
          /\ s.request = "bad" => s.frames = <<>>
          /\ s.request # "telnet" => "subneg" \notin Range(s.frames)

VARIABLES
    session,        \* the member of Sessions that is played
    strict,         \* hooks run on the loop (MUDMUX_DETERMINISM_STRICT)
    unread,         \* units of the peer the loop has not read
    eof,            \* the peer closed its socket, or the connection broke
    broken,         \* a write failed; every later one will
    slot,           \* the comm_abstract_t and the slot's gate, see below
    loop,           \* where the event loop is
    pass,           \* the read or the resumption that input is processed for
    closed,         \* the result of comm_process_input was COMM_PROCESS_CLOSED
    ioerror,        \* an ASYNC_IO_ERROR_KEY completion for the slot is posted
    sent,           \* history: what the peer has been sent, but for pongs
    delivered       \* history: payloads HOOK_MESSAGE_INBOUND was called with

vars == <<session, strict, unread, eof, broken, slot, loop, pass, closed,
          ioerror, sent, delivered>>

\* Nothing of these changes: the peer, the loop's bookkeeping, the history.
peerVars == <<session, strict, unread, eof, broken>>
passVars == <<pass, closed>>
histVars == <<sent, delivered>>

-----------------------------------------------------------------------------
(* The slot.                                                               *)

Flags == {"ENABLE_WEBSOCKET", "ENABLE_TELNET", "TLS_ESTABLISHED", "CLOSING",
          "AWAITING_HOOK", "DISCONNECT_PENDING", "BUFFERED_WRITE",
          "TRANSPORT_READY", "DEFERRED_INBOUND"}
Hooks == {"ready", "inbound", "subneg", "outbound", "disconnect", "leaving"}

Has(s, f) == f \in s.flags
Raise(s, f) == [s EXCEPT !.flags = @ \cup {f}]
Clear(s, f) == [s EXCEPT !.flags = @ \ {f}]
Busy(s) == s.gate # <<>>

\* C_WEBSOCKET_IS_READY
Ready(s) == s.ws # "handshake"
CloseBegun(s) == s.ws \in {"close_sent", "close_received"}

\* An element of the outbound queue.
Http(answer) == [op |-> answer, of |-> 0]
Frame(op, n) == [op |-> op, of |-> n]
Record(history, u) == IF u.op = "pong" THEN history ELSE Append(history, u)
IsFrame(u) == u.op \notin {"101", "error", "raw"}

\* Mutant: the queue has no limit.
RawWriteUnbounded(s, u) ==
    Raise([s EXCEPT !.out = Append(@, u)], "BUFFERED_WRITE")

\* comm_buffered_write_raw_comm: output that meets a full queue is dropped,
\* without a word to the caller.
RawWrite(s, u) ==
    IF Len(s.out) >= OutCap THEN s
    ELSE Raise([s EXCEPT !.out = Append(@, u)], "BUFFERED_WRITE")

\* comm_free_outbound_buffers
FreeOutbound(s) == [s EXCEPT !.out = <<>>, !.barrier = <<>>]

\* Mutant: output does not wait for the upgrade.
WriteThrough(s) ==
    LET w == [s EXCEPT !.writes = @ + 1] IN
    IF s.ws = "close_sent" THEN w
    ELSE RawWrite(w, Frame(IF Ready(s) \/ Has(s, "ENABLE_WEBSOCKET")
                           THEN "data" ELSE "raw", w.writes))

\* append_websocket_upgrade_barrier: a full barrier drops the output.
AppendBarrier(s, u) ==
    IF Len(s.barrier) >= OutCap THEN s
    ELSE [s EXCEPT !.barrier = Append(@, u)]

\* comm_buffered_write_comm_impl: the application's output, numbered.
Write(s) ==
    LET w == [s EXCEPT !.writes = @ + 1] IN
    CASE s.ws = "close_sent" -> w
      [] Has(s, "ENABLE_WEBSOCKET") /\ ~Ready(s) ->
            AppendBarrier(w, Frame("data", w.writes))
      [] Ready(s) /\ s.ws # "close_sent" -> RawWrite(w, Frame("data", w.writes))
      [] OTHER -> RawWrite(w, Frame("raw", w.writes))

\* What a hook that runs inline may leave behind.
Written(s) == {s} \cup IF s.writes < MaxWrites THEN {Write(s)} ELSE {}

\* Mutant: a Close is queued whatever has been sent or received.
QueueCloseAgain(s, op) == [RawWrite(s, Frame(op, 0)) EXCEPT !.ws = "close_sent"]

\* comm_websocket_queue_close, with a Close or the reply to one: the state
\* changes even if the frame was dropped.
QueueClose(s, op) ==
    IF CloseBegun(s) THEN s
    ELSE [RawWrite(s, Frame(op, 0)) EXCEPT !.ws = "close_sent"]

\* The gate: mudmux_execution_enqueue for a hook that may be queued.
GateTakes(s) == Len(s.gate) <= Backlog
Enqueue(s, hook) == [s EXCEPT !.gate = Append(@, hook)]

-----------------------------------------------------------------------------
(* comm_close.                                                             *)

NeedsDisconnect(s) == ~Has(s, "CLOSING") \/ Has(s, "DISCONNECT_PENDING")

\* HOOK_DISCONNECT inline, or queued, or kept pending by a full queue.
DispatchDisconnect(s) ==
    LET c == Clear(Raise(s, "CLOSING"), "DISCONNECT_PENDING") IN
    CASE strict -> Written(c)
      [] ~strict /\ GateTakes(s) -> {Raise(Enqueue(c, "disconnect"), "AWAITING_HOOK")}
      [] OTHER -> {Raise(Clear(c, "AWAITING_HOOK"), "DISCONNECT_PENDING")}

\* The rest of comm_close_impl for a socket: drain, Close handshake, removal.
Teardown(s) ==
    LET preTls == session.tls /\ ~Has(s, "TLS_ESTABLISHED")
        d == IF Has(s, "BUFFERED_WRITE") /\ preTls
             THEN Clear(FreeOutbound(s), "BUFFERED_WRITE") ELSE s IN
    IF Has(d, "AWAITING_HOOK") \/ Has(d, "DISCONNECT_PENDING") THEN s
    ELSE IF Has(d, "BUFFERED_WRITE") \/ d.ws = "close_sent" THEN d
    ELSE IF Ready(d) /\ ~CloseBegun(d) THEN QueueClose(d, "close")
    ELSE [FreeOutbound(d) EXCEPT !.live = FALSE, !.inbound = <<>>, !.wire = <<>>,
                                 !.decoded = <<>>, !.fragment = <<>>, !.flags = {}]

\* comm_close: the states it may leave the slot in.
Close(s) ==
    CASE ~s.live -> {s}
      [] s.live /\ NeedsDisconnect(s) -> {Teardown(d) : d \in DispatchDisconnect(s)}
      [] OTHER -> {Teardown(s)}

\* Mutant: the peer is gone and its Close is waited for all the same.
CloseWithoutPeerPatiently(s) == Close(s)

\* The loop's treatment of a peer that cannot answer any more.
CloseWithoutPeer(s) ==
    UNION {IF c.live /\ Has(c, "CLOSING") /\ Ready(c)
           THEN Close([c EXCEPT !.ws = "close_received"]) ELSE {c} : c \in Close(s)}

\* comm_invoke_transport_ready
TransportReady(s) ==
    IF \/ Has(s, "CLOSING") \/ Has(s, "TRANSPORT_READY")
       \/ session.tls /\ ~Has(s, "TLS_ESTABLISHED")
       \/ Has(s, "ENABLE_WEBSOCKET") /\ ~Ready(s)
    THEN {s}
    ELSE CASE strict -> Written(Raise(s, "TRANSPORT_READY"))
           [] ~strict /\ GateTakes(s) ->
                {Raise(Raise(Enqueue(s, "ready"), "TRANSPORT_READY"), "AWAITING_HOOK")}
           [] OTHER -> {Clear(s, "AWAITING_HOOK")}

-----------------------------------------------------------------------------
(* The upgrade.                                                            *)

\* comm_try_upgrade_websocket.  The request is "get" and "end"; the limit of
\* WEBSOCKET_MAX_HANDSHAKE_BYTES is twice the buffer and is never reached.
TryUpgrade(s) ==
    LET upgraded == RawWrite([s EXCEPT !.inbound = SubSeq(@, 3, Len(@))], Http("101"))
        refused == RawWrite(Clear([FreeOutbound(s) EXCEPT !.inbound = <<>>],
                                  "ENABLE_WEBSOCKET"), Http("error")) IN
    IF ~Has(s, "ENABLE_WEBSOCKET") \/ Ready(s) \/ Len(s.inbound) < 2 THEN {s} ELSE
    CASE session.request = "bad" -> Close(refused)
      [] session.request = "telnet" ->
            {Raise([upgraded EXCEPT !.ws = "telnet_pending"], "ENABLE_TELNET")}
      [] OTHER -> {[upgraded EXCEPT !.ws = "ready"]}

-----------------------------------------------------------------------------
(* comm_websocket_process_inbound over the wire, at most one message.      *)

\* Mutant: the message is the payload of its last frame.
MessageLastOnly(a, ids) ==
    [a EXCEPT !.message = <<Last(ids)>>, !.s.fragment = <<>>, !.verdict = "message"]

Message(a, ids) ==
    [a EXCEPT !.message = ids, !.s.fragment = <<>>, !.verdict = "message"]

Refuse(a) == [a EXCEPT !.verdict = "refused"]

\* A complete frame.
TakeFrame(a, u) ==
    LET frag == a.s.fragment
        control == {"close", "ping", "pong"}
        continues == u.op \in {"cont", "last"} IN
    IF \/ u.op \in {"header", "toobig"}
       \/ u.op \notin control /\ continues = (frag = <<>>)
       \/ u.op = "notutf8"
    THEN Refuse(a) ELSE
    CASE u.op = "close" ->
            [a EXCEPT !.s = [QueueClose(@, "reply") EXCEPT !.ws = "close_received"],
                      !.verdict = "closed"]
      [] u.op = "ping"  -> [a EXCEPT !.s = RawWrite(@, Frame("pong", 0))]
      [] u.op = "pong"  -> a
      [] u.op = "cont"  -> [a EXCEPT !.s.fragment = Append(@, u.id)]
      [] u.op = "last"  -> Message(a, Append(frag, u.id))
      [] u.op = "first" -> [a EXCEPT !.s.fragment = <<u.id>>]
      [] OTHER          -> Message(a, <<u.id>>)

DecodeUnit(a, u) ==
    LET n == [a EXCEPT !.at = @ + 1] IN
    IF a.verdict # "more" THEN a
    ELSE IF u.op = "part" THEN n ELSE TakeFrame([n EXCEPT !.used = n.at], u)

\* [verdict, s, used, message]; refused and closed consume nothing.
ProcessInbound(s) ==
    FoldLeft(DecodeUnit,
             [verdict |-> "more", s |-> s, at |-> 0, used |-> 0,
              message |-> <<>>],
             s.wire)

-----------------------------------------------------------------------------
Unit(op, id) == [op |-> op, id |-> id]

\* A frame on the wire.
Units(op, id) ==
    IF op \in Refused \ {"notutf8"} THEN <<Unit(op, id)>>
    ELSE <<Unit("part", id), Unit(op, id)>>

\* comm_enable_tls_for_slot, comm_enable_websocket_for_slot and perhaps some
\* output, all during HOOK_CONNECT.
Init ==
    /\ session \in Sessions
    /\ strict \in BOOLEAN
    /\ unread = (IF session.tls THEN <<Unit("hello", 0), Unit("finished", 0)>> ELSE <<>>)
                \o <<Unit("get", 0), Unit("end", 0)>>
                \o FlattenSeq([i \in DOMAIN session.frames |-> Units(session.frames[i], i)])
    /\ eof = FALSE /\ broken = FALSE
    /\ slot \in Written([live |-> TRUE, flags |-> {"ENABLE_WEBSOCKET"},
                         ws |-> "handshake", out |-> <<>>, barrier |-> <<>>,
                         inbound |-> <<>>, wire |-> <<>>, decoded |-> <<>>,
                         fragment |-> <<>>, gate |-> <<>>, writes |-> 0,
                         sends |-> 0])
    /\ loop = "wait" /\ pass = "resume" /\ closed = FALSE
    /\ ioerror = FALSE
    /\ sent = <<>> /\ delivered = <<>>

-----------------------------------------------------------------------------
(* Reading: EVENT_READ in the loop, comm_refill_inbound_buffers.           *)

MayRead == loop = "wait" /\ slot.live /\ ~Has(slot, "AWAITING_HOOK") /\ ~Busy(slot)
Handshaking == session.tls /\ ~Has(slot, "TLS_ESTABLISHED")

Process(p) == loop' = "process" /\ pass' = p /\ closed' = FALSE

\* Bytes of any number arrive; the upgrade is tried at once.
Refill ==
    /\ MayRead /\ ~Handshaking
    /\ \E n \in 1..Len(unread) :
          /\ unread' = SubSeq(unread, n + 1, Len(unread))
          /\ slot' \in TryUpgrade([slot EXCEPT !.inbound = @ \o SubSeq(unread, 1, n)])
    /\ Process("read")
    /\ UNCHANGED <<session, strict, broken, eof, ioerror, histVars>>

\* End of file, in the middle of the TLS handshake or later.
RefillFails ==
    /\ MayRead /\ eof /\ unread = <<>>
    /\ Process("failed")
    /\ UNCHANGED <<peerVars, slot, ioerror, histVars>>

\* comm_tls_handshake_step with a record of the peer; on the last one
\* transport-ready is tried, which the pending upgrade still holds back.
HandshakeStep ==
    /\ Handshaking /\ unread # <<>>
    /\ unread' = Tail(unread)
    /\ slot' \in IF Head(unread).op = "finished"
                 THEN TransportReady(Raise(slot, "TLS_ESTABLISHED")) ELSE {slot}

HandshakeRead ==
    /\ MayRead /\ HandshakeStep
    /\ Process("read")
    /\ UNCHANGED <<session, strict, broken, eof, ioerror, histVars>>

\* async_runtime_wait returns for something else, or this slot is busy.
NoRead ==
    /\ loop = "wait"
    /\ loop' = "resume"
    /\ UNCHANGED <<peerVars, slot, ioerror, passVars, histVars>>

\* EVENT_ERROR, from the completion a failed flush posted.
ErrorEvent ==
    /\ loop = "wait" /\ ioerror /\ slot.live
    /\ slot' \in CloseWithoutPeer(slot)
    /\ ioerror' = FALSE /\ loop' = "resume"
    /\ UNCHANGED <<peerVars, passVars, histVars>>

-----------------------------------------------------------------------------
(* comm_process_input and comm_process_websocket_input.                    *)

Return == loop' = "settle"

ProcessNothing ==
    /\ loop = "process"
    /\ ~slot.live \/ Has(slot, "AWAITING_HOOK") \/ Busy(slot) \/ ~Ready(slot)
    /\ slot' = IF Has(slot, "AWAITING_HOOK") \/ Busy(slot) THEN slot
               ELSE Clear(slot, "DEFERRED_INBOUND")
    /\ Return
    /\ UNCHANGED <<peerVars, passVars, ioerror, histVars>>

ProcessBegins ==
    /\ loop = "process" /\ slot.live /\ Ready(slot)
    /\ ~Has(slot, "AWAITING_HOOK") /\ ~Busy(slot)
    /\ slot' = [Clear(slot, "DEFERRED_INBOUND") EXCEPT !.wire = @ \o slot.inbound,
                                                       !.inbound = <<>>]
    /\ loop' = "frames"
    /\ UNCHANGED <<peerVars, passVars, ioerror, histVars>>

\* _process_websocket_decoded_input: the line goes to HOOK_MESSAGE_INBOUND,
\* which may write and may close the slot.  An inline close does not remove it:
\* output or a Close frame is still to be sent.
Deliver ==
    /\ loop = "frames" /\ slot.live /\ slot.decoded # <<>> /\ ~Busy(slot)
    /\ LET d == [slot EXCEPT !.decoded = <<>>] IN
       slot' \in IF strict THEN Written(d) \cup Close(d)
                 ELSE {Raise(Enqueue(d, "inbound"), "DEFERRED_INBOUND")}
    /\ delivered' = Append(delivered, slot.decoded)
    /\ IF strict THEN UNCHANGED loop ELSE Return
    /\ UNCHANGED <<peerVars, sent, passVars, ioerror>>

\* A hook got into the gate meanwhile: seen before the dispatch, or by it.
DeliverLater ==
    /\ loop = "frames" /\ slot.live /\ slot.decoded # <<>> /\ Busy(slot)
    /\ slot' \in {slot, Raise(slot, "DEFERRED_INBOUND")}
    /\ Return
    /\ UNCHANGED <<peerVars, passVars, ioerror, histVars>>

\* _decode_websocket_telnet_payload with a subnegotiation: HOOK_TELNET_SUBNEG
\* is not queued; a busy slot loses the message.
Subnegotiate(s) ==
    CASE strict -> Written(s)
      [] ~strict /\ ~Busy(s) -> {Enqueue(s, "subneg")}
      [] OTHER -> {Raise(s, "DEFERRED_INBOUND")}

IsSubneg(ids) == session.frames[ids[1]] = "subneg"

\* The next message, if the wire holds one.
Decode ==
    /\ loop = "frames" /\ slot.live /\ slot.decoded = <<>>
    /\ \E r \in {ProcessInbound(slot)} :
          /\ r.verdict \in {"more", "message"}
          /\ LET s == [r.s EXCEPT !.wire = SubSeq(@, r.used + 1, Len(@))] IN
             CASE r.verdict = "more" -> slot' = s /\ Return
               [] r.verdict = "message" /\ IsSubneg(r.message) ->
                     /\ slot' \in Subnegotiate(s)
                     /\ IF strict THEN UNCHANGED loop ELSE Return
               [] OTHER -> /\ slot' = [s EXCEPT !.decoded = r.message]
                           /\ UNCHANGED loop
    /\ UNCHANGED <<peerVars, passVars, ioerror, histVars>>

\* A Close frame or one that is refused; the wire keeps what was read.
DecodeCloses ==
    /\ loop = "frames" /\ slot.live /\ slot.decoded = <<>>
    /\ \E r \in {ProcessInbound(slot)} :
          /\ r.verdict \in {"closed", "refused"}
          /\ slot' \in IF r.verdict = "closed" THEN {r.s}
                       ELSE Close(QueueClose(r.s, "close"))
    /\ closed' = TRUE /\ Return
    /\ UNCHANGED <<peerVars, pass, ioerror, histVars>>

\* The loop, or comm_resume_deferred_input, with the result.
Settle ==
    /\ loop = "settle"
    /\ slot' \in CASE pass = "failed" -> CloseWithoutPeer(slot)
                   [] pass # "failed" /\ closed -> Close(slot)
                   [] OTHER -> {slot}
    /\ loop' = IF pass = "resume" THEN "flush" ELSE "resume"
    /\ pass' = "resume" /\ closed' = FALSE
    /\ UNCHANGED <<peerVars, ioerror, histVars>>

\* comm_resume_deferred_input
Resume ==
    /\ loop = "resume"
    /\ IF slot.live /\ Has(slot, "DEFERRED_INBOUND") /\ ~Busy(slot)
       THEN /\ slot' = Clear(slot, "DEFERRED_INBOUND")
            /\ loop' = "process"
       ELSE loop' = "flush" /\ UNCHANGED slot
    /\ UNCHANGED <<peerVars, passVars, ioerror, histVars>>

-----------------------------------------------------------------------------
(* comm_flush_all: comm_flush, then comm_close of a closing slot.          *)

FlushTls == Handshaking /\ ~Has(slot, "CLOSING")

FlushRemoved ==
    /\ loop = "flush" /\ ~slot.live /\ loop' = "progress"
    /\ UNCHANGED <<peerVars, slot, passVars, ioerror, histVars>>

\* The handshake goes on from here, too; it fails when the peer is gone.
FlushHandshake ==
    /\ loop = "flush" /\ slot.live /\ FlushTls
    /\ IF unread = <<>> \/ Head(unread).op \notin {"hello", "finished"}
       THEN /\ ioerror' = (ioerror \/ eof)
            /\ loop' = "progress" /\ UNCHANGED <<slot, unread>>
       ELSE /\ HandshakeStep /\ UNCHANGED ioerror
            /\ loop' = IF Head(unread).op = "finished" THEN "flush" ELSE "progress"
    /\ UNCHANGED <<session, strict, broken, eof, passVars, histVars>>

\* The socket takes some of the queue, all of it or nothing.
FlushWrites ==
    /\ loop = "flush" /\ slot.live /\ ~FlushTls
    /\ \E n \in 0..Len(slot.out) :
          /\ Handshaking \/ broken => n = 0
          /\ sent' = FoldLeft(Record, sent, SubSeq(slot.out, 1, n))
          /\ slot' = [slot EXCEPT !.out = SubSeq(@, n + 1, Len(@))]
          /\ loop' = IF n = Len(slot.out) THEN "drained" ELSE "progress"
    /\ UNCHANGED <<peerVars, delivered, passVars, ioerror>>

\* The write fails: the output is dropped, and the code goes on as if drained.
FlushFails ==
    /\ loop = "flush" /\ slot.live /\ ~FlushTls /\ slot.out # <<>>
    /\ LET f == Clear(FreeOutbound(slot), "BUFFERED_WRITE") IN
       slot' = IF Has(slot, "CLOSING") THEN Clear(f, "TLS_ESTABLISHED") ELSE f
    /\ ioerror' = (ioerror \/ ~Has(slot, "CLOSING"))
    /\ eof' = TRUE /\ broken' = TRUE
    /\ loop' = "drained"
    /\ UNCHANGED <<session, strict, unread, passVars, histVars>>

\* The 101 is out: Telnet negotiation is the first frame.
DrainedTelnet ==
    /\ loop = "drained" /\ slot.ws = "telnet_pending"
    /\ LET r == [slot EXCEPT !.ws = "ready"] IN
       IF Has(slot, "CLOSING")
       THEN slot' = r /\ UNCHANGED loop
       ELSE slot' = RawWrite(r, Frame("negotiation", 0)) /\ loop' = "flush"
    /\ UNCHANGED <<peerVars, passVars, ioerror, histVars>>

\* What the barrier holds becomes the queue, then transport-ready.
DrainedBarrier ==
    /\ loop = "drained" /\ Ready(slot) /\ slot.ws # "telnet_pending"
    /\ slot.barrier # <<>>
    /\ slot' \in TransportReady(Raise([slot EXCEPT !.out = slot.barrier,
                                                  !.barrier = <<>>], "BUFFERED_WRITE"))
    /\ loop' = "flush"
    /\ UNCHANGED <<peerVars, passVars, ioerror, histVars>>

\* Nothing is held back.  Output of an inline transport-ready hook stays for
\* the next flush.
Drained ==
    /\ loop = "drained" /\ slot.ws # "telnet_pending"
    /\ slot.barrier = <<>> \/ ~Ready(slot)
    /\ \E s \in IF Ready(slot) THEN TransportReady(slot) ELSE {slot} :
          slot' = IF s.out = <<>> THEN Clear(s, "BUFFERED_WRITE") ELSE s
    /\ loop' = "progress"
    /\ UNCHANGED <<peerVars, passVars, ioerror, histVars>>

Progress ==
    /\ loop = "progress"
    /\ slot' \in IF slot.live /\ Has(slot, "CLOSING") /\ ~Has(slot, "AWAITING_HOOK")
                 THEN Close(slot) ELSE {slot}
    /\ loop' = "wait"
    /\ UNCHANGED <<peerVars, passVars, ioerror, histVars>>

-----------------------------------------------------------------------------
(* Hooks on workers, hooks of other slots, and the peer.                   *)

\* comm_slots_mtx is not held by the loop.
MutexFree == loop \in {"wait", "resume", "progress"}

\* The gate has locks of its own; these are the places where the loop is
\* about to look at it.
GateFree == MutexFree \/ loop = "frames"

Aside == UNCHANGED <<session, strict, broken, loop, passVars, histVars>>

\* comm_buffered_write for this slot.
AppWrites ==
    /\ MutexFree /\ slot.live /\ slot.writes < MaxWrites
    /\ slot' = Write(slot)
    /\ Aside /\ UNCHANGED <<unread, eof, ioerror>>

\* comm_close from a hook.
AppCloses ==
    /\ MutexFree /\ slot.live /\ ~strict
    /\ slot' \in Close(slot)
    /\ Aside /\ UNCHANGED <<unread, eof, ioerror>>

\* comm_add_message with an outbound hook.
AppSends ==
    /\ GateFree /\ slot.live /\ ~strict /\ slot.sends < MaxSends /\ GateTakes(slot)
    /\ slot' = [Enqueue(slot, "outbound") EXCEPT !.sends = @ + 1]
    /\ Aside /\ UNCHANGED <<unread, eof, ioerror>>

\* The completion of the hook that is running.
Completed(s) ==
    IF ~s.live THEN s ELSE
    CASE s.gate[1] = "ready" ->
            Raise(IF Has(s, "CLOSING") THEN s ELSE Clear(s, "AWAITING_HOOK"),
                  "DEFERRED_INBOUND")
      [] s.gate[1] = "inbound" -> Raise(s, "DEFERRED_INBOUND")
      [] s.gate[1] = "disconnect" -> Clear(s, "AWAITING_HOOK")
      [] OTHER -> s

HookCompletes ==
    /\ MutexFree /\ Busy(slot) /\ slot.gate[1] # "leaving"
    /\ slot' = [Completed(slot) EXCEPT !.gate[1] = "leaving"]
    /\ Aside /\ UNCHANGED <<unread, eof, ioerror>>

\* finish_slot_execution
HookLeaves ==
    /\ GateFree /\ Busy(slot) /\ slot.gate[1] = "leaving"
    /\ slot' = [slot EXCEPT !.gate = Tail(@)]
    /\ Aside /\ UNCHANGED <<unread, eof, ioerror>>

\* A peer answers the server's Close with its own.
PeerAnswers ==
    /\ loop = "wait" /\ slot.live /\ ~eof /\ \E i \in DOMAIN sent : sent[i].op = "close"
    /\ "close" \notin {session.frames[i] : i \in DOMAIN session.frames}
    /\ ~\E i \in DOMAIN unread : unread[i].op = "close"
    /\ ~\E i \in DOMAIN slot.wire : slot.wire[i].op = "close"
    /\ ~\E i \in DOMAIN slot.inbound : slot.inbound[i].op = "close"
    /\ slot.ws # "close_received"
    /\ unread' = unread \o Units("close", 0)
    /\ Aside /\ UNCHANGED <<eof, slot, ioerror>>

PeerLeaves ==
    /\ loop = "wait" /\ slot.live /\ ~eof /\ eof' = TRUE
    /\ Aside /\ UNCHANGED <<unread, slot, ioerror>>

LoopSteps ==
    \/ ProcessNothing \/ ProcessBegins \/ Deliver \/ DeliverLater \/ Decode
    \/ DecodeCloses \/ Settle \/ Resume
    \/ FlushRemoved \/ FlushHandshake \/ FlushWrites \/ FlushFails
    \/ DrainedTelnet \/ DrainedBarrier \/ Drained \/ Progress

Next ==
    \/ Refill \/ RefillFails \/ HandshakeRead \/ ErrorEvent
    \/ NoRead
    \/ LoopSteps
    \/ AppWrites \/ AppCloses \/ AppSends \/ HookCompletes \/ HookLeaves
    \/ PeerAnswers \/ PeerLeaves

Spec == Init /\ [][Next]_vars

\* The loop runs; an end of file is reported until it is read; the socket takes
\* the whole queue or fails in the end; hooks return.  Strong fairness where
\* the step waits for the loop to be at a certain place.
FairSpec ==
    /\ Spec
    /\ WF_vars(LoopSteps)
    /\ WF_vars(NoRead /\ eof)
    /\ SF_vars((Refill \/ HandshakeRead \/ RefillFails) /\ eof)
    /\ SF_vars((FlushWrites \/ FlushFails) /\ slot'.out = <<>>)
    /\ WF_vars(ErrorEvent)
    /\ SF_vars(HookCompletes \/ HookLeaves)

-----------------------------------------------------------------------------
(* Properties.                                                             *)

\* Values of the state; neither the outbound queue nor the upgrade barrier grows
\* past MAX_OUTBOUND_BUFFERS_PER_SLOT, nor the gate's queue past its backlog.
TypeOK ==
    /\ session \in Sessions /\ strict \in BOOLEAN /\ eof \in BOOLEAN
    /\ broken \in BOOLEAN
    /\ slot.live \in BOOLEAN /\ slot.flags \subseteq Flags
    /\ slot.ws \in {"handshake", "telnet_pending", "ready", "close_sent",
                    "close_received"}
    /\ Len(slot.out) <= OutCap /\ Len(slot.barrier) <= OutCap
    /\ slot.gate \in BoundedSeq(Hooks, Backlog + 1)
    /\ slot.writes \in 0..MaxWrites /\ slot.sends \in 0..MaxSends
    /\ loop \in {"wait", "process", "frames", "settle", "resume", "flush",
                 "drained", "progress"}
    /\ pass \in {"read", "failed", "resume"}
    /\ closed \in BOOLEAN /\ ioerror \in BOOLEAN

\* The peer is answered in HTTP before anything else, whenever output is
\* written and whatever hook writes it; frames follow a 101 and only a 101.
UpgradeFirst ==
    /\ sent # <<>> => sent[1].op \in {"101", "error"}
    /\ \A i \in DOMAIN sent :
          /\ IsFrame(sent[i]) => sent[1].op = "101"
          /\ sent[i].op \in {"101", "error"} => i = 1

\* The peer is sent one Close frame at most, the server's own or the reply to
\* the peer's, when both begin the handshake and after a frame that is refused.
CloseOnce ==
    Cardinality({i \in DOMAIN sent : sent[i].op \in {"close", "reply"}}) <= 1

\* Messages reach HOOK_MESSAGE_INBOUND whole, in order, once, and none is
\* passed over, however the reads cut the frames, whatever control frames are
\* in between and however often processing stops for a hook.
MessagesInOrder ==
    LET frames == session.frames
        text == {i \in DOMAIN frames : frames[i] \in Data \ {"subneg"}}
        got == FlattenSeq(delivered) IN
    /\ \A k \in DOMAIN got : got[k] \in text
    /\ \A k \in DOMAIN got : k = Cardinality({i \in text : i <= got[k]})
    /\ \A m \in DOMAIN delivered :
          LET d == delivered[m] IN
          /\ frames[d[1]] \in {"msg", "first"}
          /\ frames[d[Len(d)]] \in {"msg", "last"}
          /\ \A k \in 2..Len(d) - 1 : frames[d[k]] = "cont"

\* A peer that closes its socket has its slot removed, in whatever phase of
\* the TLS handshake, the upgrade or the Close handshake it did.
EofRemoves == [](eof => <>(~slot.live))

\* What docs/outbound.md says: "The outbound queue must preserve that boundary
\* even when a connect hook writes immediately", that is, the application's
\* output reaches the peer in the order it was written.
OutputInOrder ==
    \A i, j \in DOMAIN sent :
        i < j /\ sent[i].op = "data" /\ sent[j].op = "data" => sent[i].of < sent[j].of

=============================================================================
