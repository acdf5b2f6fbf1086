--------------------------- MODULE InboundParsing ---------------------------
(***************************************************************************)
(* How the bytes of a socket become HOOK_MESSAGE_INBOUND calls             *)
(* (src/lib/comm/inbound.cpp, telnet.cpp, input_mode.cpp and the loop of   *)
(* src/src/mudmux.cpp): reads of any size, the telnet parser, the one      *)
(* inbound buffer, line and one-shot character framing, deferral while a   *)
(* hook of the slot is in flight, resumption, and the idle prompt.         *)
(*                                                                         *)
(* One plain socket slot whose HOOK_CONNECT has returned.  The loop holds  *)
(* comm_slots_mtx from a read event to the end of comm_process_input;      *)
(* hooks on workers need it for every comm call and for their completion,  *)
(* but not to leave or to enter the gate of the slot.                      *)
(***************************************************************************)
EXTENDS TelnetParser, InputFraming

CONSTANTS
    Sessions,       \* [stream, telnet, ansi, calls]: what the peer sends, the
                    \* slot's options, a bound on input mode calls by hooks
    BufCap,         \* sizeof(inbound_buffer_t::buffer)
    Backlog,        \* continuation queue of the slot
    MaxSends        \* bound: returns of and messages from hooks of other slots

ASSUME InboundAssumption ==
    /\ BufCap \in Nat \ {0} /\ Backlog \in Nat
    /\ MaxSends \in Nat
    /\ \A s \in Sessions : /\ s.stream \in Seq(STRING)
                           /\ s.telnet \in BOOLEAN /\ s.ansi \in BOOLEAN
                           /\ s.calls \in Nat

VARIABLES
    session,        \* the member of Sessions that is played
    strict,         \* hooks run on the loop (MUDMUX_DETERMINISM_STRICT)
    unread,         \* bytes the loop has not read from the socket
    src,            \* bytes read, not yet in the buffer
    buf,            \* [start, data]: the inbound buffer from start to end
    tstate,         \* M_TELNET_STATE of the flags
    comm,           \* [flags, caps, told], see Comm below
    has_deferred,   \* has_deferred_input
    other,          \* some other slot has C_DEFERRED_INBOUND
    gate,           \* executions of the slot: the active one, then its queue
    loop,           \* where the event loop is
    paused,         \* telnet_parsing_paused of this refill
    any,            \* any_deferred of this scan
    woken,          \* async_runtime_wakeup since the last wait
    calls, sends,    \* bounds still to be used
    taken,          \* history: payload bytes that left the buffer
    log,            \* history: what hooks were called with
    refused,        \* history: a subnegotiation met a busy slot
    dropped,        \* history: input kept back with no flag to resume it
    overwritten     \* history: a scan replaced a newer has_deferred_input

readVars == <<unread, src, paused>>
histVars == <<taken, log, refused, dropped, overwritten>>
vars == <<session, strict, readVars, buf, tstate, comm, has_deferred, other,
          gate, loop, any, woken, calls, sends, histVars>>

-----------------------------------------------------------------------------
(* The slot: its flags, what it knows of the client (caps) and the last    *)
(* LINEMODE and ECHO commands it sent (told).                              *)

Flags == {"LINE_INPUT", "CLIENT_ECHO", "DEFERRED_INBOUND", "AWAITING_HOOK",
          "ENABLE_PROMPT", "INVOKED_PROMPT"}
Caps  == {"telnet_linemode", "telnet_echo"}
Told  == [mode : {"none", "edit", "char"}, echo : {"none", "will", "wont"}]

Line(c) == "LINE_INPUT" \in c.flags
Deferred == "DEFERRED_INBOUND" \in comm.flags
Awaiting == "AWAITING_HOOK" \in comm.flags

Raise(c, f) == [c EXCEPT !.flags = @ \cup f]
Clear(c, f) == [c EXCEPT !.flags = @ \ f]

\* comm_set_echo; a TELNET slot negotiates with WILL and WONT ECHO.
SetEcho(c, echo) ==
    LET s == IF echo THEN Raise(c, {"CLIENT_ECHO"}) ELSE Clear(c, {"CLIENT_ECHO"}) IN
    CASE session.telnet /\ echo /\ "telnet_echo" \in c.caps ->
            [s EXCEPT !.told.echo = "wont"]
      [] session.telnet /\ ~echo /\ "telnet_echo" \notin c.caps ->
            [s EXCEPT !.told.echo = "will"]
      [] OTHER -> s

\* _negotiate_telnet_line_input
NegotiateLineInput(c, enable) ==
    LET linemode == "telnet_linemode" \in c.caps
        m == IF linemode THEN [c EXCEPT !.told.mode = IF enable THEN "edit" ELSE "char"]
                         ELSE c IN
    IF ~enable /\ "telnet_echo" \notin c.caps THEN [m EXCEPT !.told.echo = "will"] ELSE m

\* Mutant: the client is not told that it may edit lines again.
SetLineInputSilent(c, echo) == SetEcho(Raise(c, {"LINE_INPUT"}), echo)

\* comm_set_line_input
SetLineInput(c, echo) ==
    LET n == IF session.telnet /\ ~Line(c) THEN NegotiateLineInput(c, TRUE) ELSE c
    IN  SetEcho(Raise(n, {"LINE_INPUT"}), echo)

\* comm_set_char_input
SetCharInput(c) ==
    CASE ~Line(c) -> SetEcho(c, FALSE)
      [] Line(c) /\ session.telnet ->
            Clear(NegotiateLineInput(c, FALSE), {"LINE_INPUT", "CLIENT_ECHO"})
      [] OTHER -> SetEcho(Clear(c, {"LINE_INPUT"}), FALSE)

\* comm_process_telnet_options, with what one call of the parser saw.
TelnetOptions(c, p) ==
    LET lm == CASE p.LINEMODE = "WILL" ->
                      [c EXCEPT !.caps = @ \cup {"telnet_linemode"},
                                !.told.mode = IF Line(c) THEN "edit" ELSE @]
                [] p.LINEMODE = "WONT" ->
                      [c EXCEPT !.caps = @ \ {"telnet_linemode"}, !.told.mode = "none"]
                [] OTHER -> c IN
    CASE p.ECHO = "DO"   -> [lm EXCEPT !.caps = @ \cup {"telnet_echo"}]
      [] p.ECHO = "DONT" -> [lm EXCEPT !.caps = @ \ {"telnet_echo"}]
      [] OTHER -> lm

-----------------------------------------------------------------------------
(* The gate of the slot (modelled in full in SlotExecution).               *)

Busy == gate # <<>>
HookRunning(kinds) == gate # <<>> /\ gate[1] \in kinds

\* comm_slots_mtx is free: the loop is neither reading nor parsing.
LoopStates == {"wait", "refill", "lines", "char", "resume", "reprocess",
               "relines", "rechar", "store", "prompt", "prompting", "closed"}
MutexFree == loop \in {"wait", "resume", "store", "closed"}

\* comm_defer_input: the flag of the slot and the hint for the loop.
Defer(c) == Raise(c, {"DEFERRED_INBOUND"})

Init ==
    /\ session \in Sessions
    /\ strict \in BOOLEAN
    /\ unread = session.stream /\ src = <<>> /\ paused = FALSE
    /\ buf = [start |-> 0, data |-> <<>>]
    /\ tstate = "DATA"
    /\ comm = [flags |-> {"LINE_INPUT", "CLIENT_ECHO", "ENABLE_PROMPT"} \cup
                         (IF strict THEN {} ELSE {"AWAITING_HOOK"}),
               caps |-> {},
               told |-> [mode |-> "none",
                         echo |-> IF session.telnet THEN "wont" ELSE "none"]]
    /\ has_deferred = FALSE /\ other = FALSE /\ any = FALSE
    /\ gate = IF strict THEN <<>> ELSE <<"ready">>
    /\ loop = "wait" /\ woken = FALSE
    /\ calls = session.calls /\ sends = MaxSends
    /\ taken = 0 /\ log = <<>>
    /\ refused = FALSE /\ dropped = FALSE /\ overwritten = FALSE

-----------------------------------------------------------------------------
(* Reading.                                                                *)

\* async_runtime_wait returns with EVENT_READ for the slot; the peer's bytes
\* arrive in pieces of any size.
ReadEvent ==
    /\ loop = "wait" /\ ~Busy /\ ~Awaiting
    /\ \E n \in 1..Min({BufCap, Len(unread)}) :
          /\ src' = SubSeq(unread, 1, n)
          /\ unread' = SubSeq(unread, n + 1, Len(unread))
    /\ paused' = FALSE /\ loop' = "refill" /\ woken' = FALSE
    /\ UNCHANGED <<session, strict, buf, tstate, comm, has_deferred, other,
                   gate, any, calls, sends, histVars>>

\* It returns for a wake-up or another slot, or this slot is busy and its
\* readiness will be reported again.
NoRead ==
    /\ loop = "wait"
    /\ loop' = "resume" /\ woken' = FALSE
    /\ UNCHANGED <<session, strict, readVars, buf, tstate, comm, has_deferred,
                   other, gate, any, calls, sends, histVars>>

\* Where the next chunk goes: an empty buffer starts over, a full one is
\* shifted down when some of it has been consumed.
MadeRoom(b) ==
    IF b.data = <<>> \/ b.start + Len(b.data) = BufCap
    THEN [b EXCEPT !.start = 0] ELSE b

\* Mutant: the room of a buffer that starts at 0.
RoomFromStart(b) == BufCap - Len(b.data)

Room(b) == BufCap - (b.start + Len(b.data))

\* One turn of the loop of _refill_inbound_buffers_from_src: a chunk goes
\* through the telnet parser into the buffer.  Subnegotiation data in it, the
\* end of which may be in the next read, is dispatched at once; since
\* HOOK_TELNET_SUBNEG is never queued, a busy slot refuses it and the rest of
\* this read is copied as it is.
RefillChunk ==
    /\ loop = "refill" /\ src # <<>> /\ Room(MadeRoom(buf)) > 0
    /\ LET b == MadeRoom(buf)
           chunk == SubSeq(src, 1, Min({Len(src), Room(b)})) IN
       \E p \in {IF session.telnet /\ ~paused THEN ProcessInbound(tstate, chunk)
                                              ELSE Copied(tstate, chunk)} :
          LET subneg == p.sb # <<>>
              full == subneg /\ ~strict /\ Busy IN
          /\ buf' = [b EXCEPT !.data = @ \o p.dest]
          /\ src' = SubSeq(src, p.used + 1, Len(src))
          /\ tstate' = p.state
          /\ comm' = IF full THEN Defer(TelnetOptions(comm, p))
                               ELSE TelnetOptions(comm, p)
          /\ has_deferred' = (has_deferred \/ full)
          /\ paused' = (paused \/ full) /\ refused' = (refused \/ full)
          /\ gate' = IF subneg /\ ~strict /\ ~Busy THEN <<"subneg">> ELSE gate
    /\ UNCHANGED <<session, strict, unread, other, loop, any, woken, calls, sends,
                   taken, log, dropped, overwritten>>

\* Everything is stored, or no room is left.
RefillDone == loop = "refill" /\ (src = <<>> \/ Room(MadeRoom(buf)) = 0)

-----------------------------------------------------------------------------
(* comm_process_input, called after a read ("refill", "lines", "char") and *)
(* by the resumption of deferred input ("reprocess", "relines", "rechar"). *)

InScan == loop \in {"reprocess", "relines", "rechar"}

\* Where the loop goes when comm_process_input returns.  Bytes that did not
\* fit close the slot; a scan goes on with the next slot.
Returned == IF InScan THEN "store" ELSE IF src # <<>> THEN "closed" ELSE "resume"

\* The early return: the slot waits for a hook or has one in flight.
ProcessKeptBack ==
    /\ (RefillDone \/ loop = "reprocess") /\ (Awaiting \/ Busy)
    /\ dropped' = (dropped \/ (HasLine(buf.data) /\ ~Deferred))
    /\ any' = (Deferred /\ InScan)
    /\ loop' = Returned
    /\ UNCHANGED <<session, strict, readVars, buf, tstate, comm, has_deferred,
                   other, gate, woken, calls, sends, taken, log, refused,
                   overwritten>>

ProcessBegins ==
    /\ (RefillDone \/ loop = "reprocess") /\ ~Awaiting /\ ~Busy
    /\ comm' = Clear(comm, {"DEFERRED_INBOUND"})
    /\ loop' = CASE Line(comm) -> IF InScan THEN "relines" ELSE "lines"
                 [] OTHER -> IF InScan THEN "rechar" ELSE "char"
    /\ UNCHANGED <<session, strict, readVars, buf, tstate, has_deferred, other,
                   gate, any, woken, calls, sends, histVars>>

\* What a hook may do to the slot before it returns: choose an input mode.
ModeChoices(c) ==
    {c} \cup IF calls = 0 THEN {}
            ELSE {SetCharInput(c)} \cup {SetLineInput(c, e) : e \in BOOLEAN}

CallsAfter(c, d) == IF c = d THEN calls ELSE calls - 1

Message(kind, at, body) == [kind |-> kind, at |-> at, body |-> body]

\* comm_invoke_inbound_message accepted: on a worker, or inline with the mode
\* the hook chose.  again: the flag _invoke_char_input_message sets after an
\* inline hook.
Accepted(c, again, m) ==
    /\ log' = Append(log, m)
    /\ IF strict
       THEN \E d \in ModeChoices(c) :
              /\ comm' = IF again THEN Defer(d) ELSE d
              /\ calls' = CallsAfter(c, d)
              /\ has_deferred' = (has_deferred \/ again)
              /\ gate' = gate
       ELSE /\ comm' = Defer(c) /\ has_deferred' = TRUE
            /\ gate' = <<"inbound">> /\ calls' = calls

\* QUEUE_FULL: the slot became busy after the check; parse again later.
QueueFull(c) ==
    /\ comm' = Defer(c) /\ has_deferred' = TRUE
    /\ UNCHANGED <<gate, calls, log>>

\* Line input, a line is there.  The search edits the buffer before the
\* dispatch; a refused line stays in it, stripped.
TakeLine ==
    LET f == FindNewlineAndStrip(buf.data)
        c == Clear(comm, {"INVOKED_PROMPT"})
        full == ~strict /\ Busy IN
    /\ buf' = IF full
              THEN [start |-> buf.start + f.skip, data |-> f.edited]
              ELSE [start |-> buf.start + f.next - 1,
                    data |-> SubSeq(buf.data, f.next, Len(buf.data))]
    /\ taken' = taken + (IF full THEN f.skip ELSE f.next - 1)
    /\ IF full THEN QueueFull(c)
               ELSE Accepted(c, FALSE, Message("line", taken + f.skip, f.body))

\* Mutant: character input stays armed.
TakeCharForever ==
    LET f == FindCharInputSequence(buf.data, session.ansi)
        c == Clear(comm, {"INVOKED_PROMPT"})
        full == ~strict /\ Busy
        body == SubSeq(buf.data, 1, f.len)
        left == IF full THEN 0 ELSE f.len IN
    /\ buf' = [start |-> buf.start + left,
               data |-> SubSeq(buf.data, left + 1, Len(buf.data))]
    /\ taken' = taken + left
    /\ IF full THEN QueueFull(c) ELSE Accepted(c, strict, Message("char", taken, body))

\* Character input, a sequence is there: back to line input, then dispatch.
TakeChar ==
    LET f == FindCharInputSequence(buf.data, session.ansi)
        c == SetLineInput(Clear(comm, {"INVOKED_PROMPT"}), TRUE)
        full == ~strict /\ Busy
        body == SubSeq(buf.data, 1, f.len)
        left == IF full THEN 0 ELSE f.len IN
    /\ buf' = [start |-> buf.start + left,
               data |-> SubSeq(buf.data, left + 1, Len(buf.data))]
    /\ taken' = taken + left
    /\ IF full THEN QueueFull(c) ELSE Accepted(c, strict, Message("char", taken, body))

\* The loop over the lines of the buffer.  A hook that ran inline returns to
\* it, whatever input mode it chose; a hook on a worker ends it.
FrameLine ==
    /\ loop \in {"lines", "relines"} /\ HasLine(buf.data) /\ TakeLine
    /\ loop' = IF strict THEN loop ELSE Returned
    /\ any' = (InScan /\ "DEFERRED_INBOUND" \in comm'.flags)
    /\ UNCHANGED <<session, strict, readVars, tstate, other, woken, sends,
                   refused, dropped, overwritten>>

FrameChar ==
    /\ loop \in {"char", "rechar"}
    /\ FindCharInputSequence(buf.data, session.ansi).found /\ TakeChar
    /\ loop' = Returned
    /\ any' = (InScan /\ "DEFERRED_INBOUND" \in comm'.flags)
    /\ UNCHANGED <<session, strict, readVars, tstate, other, woken, sends,
                   refused, dropped, overwritten>>

FrameNothing ==
    /\ \/ loop \in {"lines", "relines"} /\ ~HasLine(buf.data)
       \/ loop \in {"char", "rechar"}
          /\ ~FindCharInputSequence(buf.data, session.ansi).found
    /\ any' = (InScan /\ Deferred)
    /\ loop' = Returned
    /\ UNCHANGED <<session, strict, readVars, buf, tstate, comm, has_deferred,
                   other, gate, woken, calls, sends, histVars>>

-----------------------------------------------------------------------------
(* comm_resume_deferred_input and comm_invoke_prompt.                      *)

\* The scan meets this slot.
ResumeScan ==
    /\ loop = "resume" /\ has_deferred
    /\ LET ready == Deferred /\ ~Busy IN
       /\ comm' = IF ready THEN Clear(comm, {"DEFERRED_INBOUND"}) ELSE comm
       /\ loop' = IF ready THEN "reprocess" ELSE "store"
    /\ any' = Deferred
    /\ UNCHANGED <<session, strict, readVars, buf, tstate, has_deferred, other,
                   gate, woken, calls, sends, histVars>>

\* The end of the scan: what it found replaces has_deferred_input.  Another
\* slot was resumed, or was still busy.
ResumeStore ==
    /\ loop = "store"
    /\ \E o \in {FALSE, other} :
          /\ other' = o
          /\ has_deferred' = (any \/ o)
          /\ overwritten' = (overwritten \/ (Deferred /\ ~any /\ ~o))
    /\ loop' = "prompt"
    /\ UNCHANGED <<session, strict, readVars, buf, tstate, comm, gate, any,
                   woken, calls, sends, taken, log, refused, dropped>>

NothingDeferred ==
    /\ loop = "resume" /\ ~has_deferred
    /\ loop' = "prompt"
    /\ UNCHANGED <<session, strict, readVars, buf, tstate, comm, has_deferred,
                   other, gate, any, woken, calls, sends, histVars>>

\* Mutant: C_INVOKED_PROMPT is not tested.
PromptDueAgain ==
    /\ "ENABLE_PROMPT" \in comm.flags
    /\ ~Awaiting /\ ~Deferred /\ buf.data = <<>> /\ ~Busy

\* The tests of comm_invoke_prompt.
PromptDue ==
    /\ "ENABLE_PROMPT" \in comm.flags /\ "INVOKED_PROMPT" \notin comm.flags
    /\ ~Awaiting /\ ~Deferred /\ buf.data = <<>> /\ ~Busy

\* The slot is not idle, or its output has not drained.
NoPrompt ==
    /\ loop = "prompt"
    /\ loop' = "wait"
    /\ UNCHANGED <<session, strict, readVars, buf, tstate, comm, has_deferred,
                   other, gate, any, woken, calls, sends, histVars>>

PromptChecked ==
    /\ loop = "prompt" /\ PromptDue
    /\ loop' = "prompting"
    /\ UNCHANGED <<session, strict, readVars, buf, tstate, comm, has_deferred,
                   other, gate, any, woken, calls, sends, histVars>>

\* HOOK_PROMPT runs inline, or goes to a worker, or into the queue of a slot
\* that became busy in between.
Prompt ==
    /\ loop = "prompting"
    /\ LET fits == Len(gate) <= Backlog IN
       IF strict
       THEN \E d \in ModeChoices(comm) :
              /\ comm' = Raise(d, {"INVOKED_PROMPT"})
              /\ calls' = CallsAfter(comm, d)
              /\ log' = Append(log, Message("prompt", 0, <<>>))
              /\ gate' = gate
       ELSE /\ comm' = IF fits THEN Raise(comm, {"INVOKED_PROMPT"}) ELSE comm
            /\ gate' = IF fits THEN Append(gate, "prompt") ELSE gate
            /\ log' = IF fits THEN Append(log, Message("prompt", 0, <<>>)) ELSE log
            /\ calls' = calls
    /\ loop' = "wait"
    /\ UNCHANGED <<session, strict, readVars, buf, tstate, has_deferred, other,
                   any, woken, sends, taken, refused, dropped, overwritten>>

-----------------------------------------------------------------------------
(* Hooks of the slot on workers, and hooks of other slots.                 *)

\* The running hook chooses an input mode.
HookChoosesMode ==
    /\ HookRunning({"ready", "inbound", "subneg", "prompt", "outbound"}) /\ MutexFree
    /\ \E d \in ModeChoices(comm) \ {comm} :
          comm' = d /\ calls' = CallsAfter(comm, d)
    /\ UNCHANGED <<session, strict, readVars, buf, tstate, has_deferred, other,
                   gate, loop, any, woken, sends, histVars>>

\* Output displaces the prompt of a slot in character mode.
Displaced(c) == IF Line(c) THEN c ELSE Clear(c, {"INVOKED_PROMPT"})
OutputLogged(c) == IF Displaced(c) = c THEN log
                                       ELSE Append(log, Message("output", 0, <<>>))

\* HOOK_MESSAGE_OUTBOUND writes its message.
OutboundWrites ==
    /\ HookRunning({"outbound"}) /\ MutexFree /\ Displaced(comm) # comm
    /\ comm' = Displaced(comm) /\ log' = OutputLogged(comm)
    /\ UNCHANGED <<session, strict, readVars, buf, tstate, has_deferred, other,
                   gate, loop, any, woken, calls, sends, taken, refused, dropped,
                   overwritten>>

\* Mutant: the completion of an inbound hook tells only the slot.
CompletedUnpublished(kind) ==
    /\ comm' = CASE kind = "inbound" -> Defer(comm)
                 [] kind = "ready" -> Defer(Clear(comm, {"AWAITING_HOOK"}))
                 [] OTHER -> comm
    /\ UNCHANGED has_deferred

\* The completion callbacks _resume_input_after_inbound_hook and
\* _resume_input_after_transport_ready_hook; other hooks have none.
Completed(kind) ==
    /\ comm' = CASE kind = "inbound" -> Defer(comm)
                 [] kind = "ready" -> Defer(Clear(comm, {"AWAITING_HOOK"}))
                 [] OTHER -> comm
    /\ has_deferred' = (has_deferred \/ kind \in {"inbound", "ready"})

HookCompletes ==
    /\ HookRunning({"ready", "inbound", "subneg", "prompt", "outbound"}) /\ MutexFree
    /\ Completed(gate[1])
    /\ gate' = <<"done">> \o Tail(gate)
    /\ UNCHANGED <<session, strict, readVars, buf, tstate, other, loop, any,
                   woken, calls, sends, histVars>>

\* Mutant: the loop is not woken.
HookLeavesQuietly ==
    /\ HookRunning({"done"})
    /\ gate' = Tail(gate)
    /\ UNCHANGED <<session, strict, readVars, buf, tstate, comm, has_deferred,
                   other, loop, any, woken, calls, sends, histVars>>

\* finish_slot_execution: the next execution or an open gate, and a wake-up.
HookLeaves ==
    /\ HookRunning({"done"})
    /\ gate' = Tail(gate) /\ woken' = TRUE
    /\ UNCHANGED <<session, strict, readVars, buf, tstate, comm, has_deferred,
                   other, loop, any, calls, sends, histVars>>

\* comm_add_message from a hook of another slot.  Inline it runs while the
\* loop serves that slot, before it looks at this one; a worker may enter the
\* gate at any time.
Send ==
    /\ sends > 0 /\ sends' = sends - 1
    /\ IF strict
       THEN /\ loop = "wait"
            /\ comm' = Displaced(comm) /\ log' = OutputLogged(comm)
            /\ gate' = gate
       ELSE /\ gate' = IF Len(gate) <= Backlog THEN Append(gate, "outbound") ELSE gate
            /\ UNCHANGED <<comm, log>>
    /\ UNCHANGED <<session, strict, readVars, buf, tstate, has_deferred, other,
                   loop, any, woken, calls, taken, refused, dropped, overwritten>>

\* A hook of another slot returns; the input of that slot is deferred.
OtherDefers ==
    /\ ~strict /\ MutexFree /\ sends > 0
    /\ other' = TRUE /\ has_deferred' = TRUE /\ woken' = TRUE
    /\ sends' = sends - 1
    /\ UNCHANGED <<session, strict, readVars, buf, tstate, comm, gate, loop, any,
                   calls, histVars>>

-----------------------------------------------------------------------------
LoopStep ==
    \/ RefillChunk
    \/ ProcessKeptBack \/ ProcessBegins \/ FrameLine \/ FrameChar \/ FrameNothing
    \/ ResumeScan \/ ResumeStore \/ NothingDeferred
    \/ NoPrompt \/ PromptChecked \/ Prompt

HookStep == HookCompletes \/ HookLeaves

Next ==
    \/ ReadEvent \/ NoRead \/ LoopStep
    \/ HookChoosesMode \/ OutboundWrites \/ HookStep
    \/ Send \/ OtherDefers

Spec == Init /\ [][Next]_vars

\* The loop runs on after a wake-up, unless it sleeps in the wait; hooks
\* return.  Nothing is assumed of the peer, of hooks of other slots or of
\* the idle prompt.
FairSpec ==
    /\ Spec
    /\ WF_vars(NoRead /\ woken) /\ WF_vars(LoopStep)
    /\ SF_vars(HookCompletes) /\ WF_vars(HookLeaves)

-----------------------------------------------------------------------------
(* Properties.                                                             *)

\* Values of the state; the buffer is within inbound_buffer_t::buffer.
TypeOK ==
    /\ session \in Sessions /\ strict \in BOOLEAN
    /\ buf.start \in 0..BufCap /\ buf.start + Len(buf.data) <= BufCap
    /\ tstate \in TelnetStates
    /\ comm.flags \subseteq Flags /\ comm.caps \subseteq Caps /\ comm.told \in Told
    /\ loop \in LoopStates
    /\ Len(gate) <= Backlog + 1 /\ (strict => ~Busy)
    /\ calls \in 0..session.calls /\ sends \in 0..MaxSends

\* The application payload of the whole stream.
SentPayload ==
    IF session.telnet THEN Payload("DATA", session.stream) ELSE session.stream

Blank == EndOfLine \cup {"sp"}

\* An entry of the log that is a message, and whether it holds byte k of the
\* payload.
IsMessage(m) == m.kind \in {"line", "char"}
EndOf(m) == m.at + Len(m.body)
Holds(m, k) == IsMessage(m) /\ k \in m.at + 1..EndOf(m)

\* A message m that starts where text does.
Framed(m, text, ansi) ==
    IF m.kind = "line" THEN m.body = FindNewlineAndStrip(text).body
    ELSE IF m.body = <<>> THEN text[1] \in Blank
    ELSE /\ m.body = SubSeq(text, 1, Len(m.body))
         /\ Len(m.body) = FindCharInputSequence(text, ansi).len

\* Whatever the reads, the chunks and the refusals, the messages are the
\* payload cut in order: a line is the stripped text up to the next line end,
\* a character message is one whole sequence, messages do not overlap, and
\* only line ends and white space are left out before a message (and may cost
\* an empty message).  Not after a refused subnegotiation, whose bytes arrive
\* raw.
MessagesFramed ==
    LET sent == SentPayload IN
    refused \/
    \A j \in DOMAIN log : IsMessage(log[j]) =>
        /\ Framed(log[j], SubSeq(sent, log[j].at + 1, Len(sent)), session.ansi)
        /\ \A i \in 1..j - 1 : IsMessage(log[i]) => EndOf(log[i]) <= log[j].at
        /\ \A k \in 1..log[j].at :
              sent[k] \in Blank \/ \E i \in 1..j - 1 : Holds(log[i], k)

\* Character input is one-shot: never more character messages than calls of
\* hooks that may have armed it.
OneShotChar ==
    Cardinality({i \in DOMAIN log : log[i].kind = "char"}) <= session.calls - calls

\* C_INVOKED_PROMPT: a second prompt follows only input, or output that
\* displaced the first in character mode.
PromptOnce ==
    \A i, j \in DOMAIN log :
        i < j /\ log[i].kind = "prompt" /\ log[j].kind = "prompt" =>
            \E k \in i + 1..j - 1 : log[k].kind # "prompt"

\* A client in LINEMODE was last told the mode the slot is in, through any
\* order of its own answers, one-shot switches and hooks.
EditModeTold ==
    comm.told.mode # "none" => (comm.told.mode = "edit") = Line(comm)

\* C_DEFERRED_INBOUND is never left without has_deferred_input when the loop
\* goes to sleep, but for the scan that stores over a newer value.
DeferredPublished ==
    loop = "wait" /\ Deferred => has_deferred \/ overwritten

\* Relaxed mode: a line that waits for its slot is parsed again without new
\* input, for the hook in the way wakes the loop when it leaves; unless
\* comm_process_input returned early with C_DEFERRED_INBOUND clear.
LineWaits == ~strict /\ Deferred /\ Line(comm) /\ HasLine(buf.data)
DeferredLineParsed ==
    (LineWaits /\ ~dropped /\ ~overwritten) ~>
        (~LineWaits \/ dropped \/ overwritten \/ loop = "closed")
=============================================================================
