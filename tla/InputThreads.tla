---------------------------- MODULE InputThreads ----------------------------
(***************************************************************************)
(* Input that is read by a thread of its own: the console worker of        *)
(* src/lib/async/console_worker.cpp with src/lib/comm/console.cpp, and the *)
(* reader of src/lib/comm/file_input.cpp, against the event loop of        *)
(* src/src/mudmux.cpp, which they wake through the eventfd of              *)
(* async_runtime_epoll.cpp, and the hooks of the slot on pool workers.     *)
(* The two mutexes are explicit: comm_slots_mtx, and the mutex of the      *)
(* input module (console_mutex or file_input_mutex).  A thread that takes  *)
(* the second while it holds the first is between two actions.             *)
(*                                                                         *)
(* What is read is a sequence of numbered lines, each read at once; 0 is   *)
(* Ctrl+D on a terminal.  The writer of a pipe closes it behind the last   *)
(* line.  HOOK_CONNECT and HOOK_TRANSPORT_READY are one hook "connect":    *)
(* the slot is not free in between.                                        *)
(***************************************************************************)
EXTENDS Naturals, Sequences, SequencesExt, FiniteSets

CONSTANTS
    Inputs,         \* [mode, device, lines]: what is there to read, and where
    QueueCap,       \* capacity of the console or file input queue
    BufferCap,      \* lines the slot's inbound buffers hold
    Backlog,        \* continuation queue of the slot
    MaxCloses       \* bound: comm_close calls by hooks

\* mudmux_enable_console, mudmux_enable_standard_input, or a file on slot 0;
\* and what is behind it (console_detect_type).
Modes   == {"console", "stdin", "file"}
Devices == {"tty", "pipe", "regular"}

\* The lines of an input are told apart by rising numbers.
Numbered(q) ==
    \A i, j \in DOMAIN q : i < j /\ q[i] # 0 /\ q[j] # 0 => q[i] < q[j]

ASSUME InputThreadsAssumption ==
    /\ \A i \in Inputs :
          /\ i.mode \in Modes /\ i.device \in Devices
          /\ i.mode = "file" => i.device = "regular"
          /\ i.lines \in Seq(Nat) /\ Numbered(i.lines)
          /\ i.device # "tty" => 0 \notin Range(i.lines)
    /\ QueueCap \in Nat \ {0} /\ BufferCap \in Nat \ {0}
    /\ Backlog \in Nat \ {0} /\ MaxCloses \in Nat

VARIABLES
    mode,           \* how the input was enabled
    device,         \* what it is read from
    strict,         \* hooks run on the loop (MUDMUX_DETERMINISM_STRICT)
    prompting,      \* the connect hook enables the prompt
    source,         \* history: all there is to read
    unread,         \* what the reader has not read
    slotsMutex,     \* holder of comm_slots_mtx between two actions
    inputMutex,     \* holder of console_mutex or file_input_mutex
    queue,          \* console_queue or file_input_queue
    reader,         \* the thread and its console_worker_context_s
    slot,           \* slot 0 and its gate
    loop,           \* where the event loop is
    wakeup,         \* the eventfd counter is not zero
    disconnecting,  \* console_disconnect_pending
    shutting,       \* is_shutting_down
    delivered,      \* history: lines HOOK_MESSAGE_INBOUND was called with
    lost,           \* history: lines dropped by a full queue or buffer
    closes          \* calls of comm_close by hooks

vars == <<mode, device, strict, prompting, source, unread, slotsMutex, inputMutex,
          queue, reader, slot, loop, wakeup, disconnecting, shutting,
          delivered, lost, closes>>

setup == <<mode, device, strict, prompting, source>>
history == <<delivered, lost, closes>>

-----------------------------------------------------------------------------
(* The slot.                                                               *)

Flags == {"AWAITING_HOOK", "DEFERRED_INBOUND", "CLOSING",
          "DISCONNECT_PENDING", "ENABLE_PROMPT", "INVOKED_PROMPT"}
Hooks == {"connect", "inbound", "prompt", "disconnect", "leaving"}

Has(s, f) == f \in s.flags
Raise(s, f) == [s EXCEPT !.flags = @ \cup {f}]
Clear(s, f) == [s EXCEPT !.flags = @ \ {f}]
Busy(s) == s.gate # <<>>
Enqueue(s, hook) == [s EXCEPT !.gate = Append(@, hook)]
Removed(s) == [s EXCEPT !.live = FALSE, !.flags = {}, !.buffer = <<>>]

\* What HOOK_CONNECT does when it has run.
Connected(s) == IF prompting THEN Raise(s, "ENABLE_PROMPT") ELSE s

\* comm_invoke_connect for a slot that has just been added.
Connect(s) ==
    IF strict THEN Connected(s) ELSE Raise(Enqueue(s, "connect"), "AWAITING_HOOK")

\* comm_close_impl for slot 0: the slot, whether EOF is to be signalled to the
\* console worker, whether the server is to be shut down.
Close(s, signal) ==
    LET begins == ~Has(s, "CLOSING") \/ Has(s, "DISCONNECT_PENDING")
        c == Clear(Clear(Raise(s, "CLOSING"), "DISCONNECT_PENDING"), "AWAITING_HOOK")
        still(t) == [slot |-> t, signal |-> FALSE, shut |-> FALSE]
        ends(t) == IF mode = "file"
                   THEN [slot |-> Removed(t), signal |-> FALSE, shut |-> TRUE]
                   ELSE [slot |-> t, signal |-> signal, shut |-> FALSE] IN
    CASE ~s.live -> still(s)
      [] s.live /\ begins /\ strict -> ends(Clear(c, "ENABLE_PROMPT"))
      [] s.live /\ begins /\ ~strict /\ Len(s.gate) > Backlog ->
            still(Raise(c, "DISCONNECT_PENDING"))
      [] s.live /\ begins /\ ~strict /\ Len(s.gate) <= Backlog ->
            still(Raise(Clear(Enqueue(c, "disconnect"), "ENABLE_PROMPT"),
                        "AWAITING_HOOK"))
      [] OTHER -> IF Has(s, "AWAITING_HOOK") THEN still(s) ELSE ends(s)

\* comm_process_input in line mode: the lines that are dispatched, and the slot
\* after it.  Inline all of them, to a worker one.
Accepts(s) == s.live /\ ~Has(s, "AWAITING_HOOK") /\ ~Busy(s)
Taken(s) ==
    IF ~Accepts(s) \/ s.buffer = <<>> THEN <<>>
    ELSE IF strict THEN s.buffer ELSE <<Head(s.buffer)>>
Processed(s) ==
    LET c == Clear(s, "DEFERRED_INBOUND")
        t == Clear([c EXCEPT !.buffer = SubSeq(@, Len(Taken(s)) + 1, Len(@))],
                   "INVOKED_PROMPT") IN
    CASE ~Accepts(s) -> s
      [] Accepts(s) /\ s.buffer = <<>> -> c
      [] OTHER -> IF strict THEN t ELSE Raise(Enqueue(t, "inbound"), "DEFERRED_INBOUND")

-----------------------------------------------------------------------------
(* The context of the console worker, or the reader thread and its flag.   *)

NoReader == [at |-> "none", stop |-> FALSE, eof |-> FALSE, line |-> 0]
NewReader == [NoReader EXCEPT !.at = "read"]
HasContext == reader.at # "none"

\* console_worker_set_eof if there is a context, and mudmux_shutdown: both wake
\* the loop.
Posts(signal, shut) ==
    /\ reader' = IF signal /\ HasContext THEN [reader EXCEPT !.eof = TRUE] ELSE reader
    /\ shutting' = (shutting \/ shut)
    /\ wakeup' = (wakeup \/ shut \/ (signal /\ HasContext))

Init ==
    /\ \E i \in Inputs : mode = i.mode /\ device = i.device /\ source = i.lines
    /\ unread = source /\ strict \in BOOLEAN /\ prompting \in BOOLEAN
    /\ slotsMutex = "none" /\ inputMutex = "none"
    /\ queue = <<>> /\ reader = NoReader
    /\ slot = [live |-> TRUE, flags |-> {}, buffer |-> <<>>, gate |-> <<>>]
    /\ loop = "start" /\ wakeup = FALSE
    /\ disconnecting = FALSE /\ shutting = FALSE
    /\ delivered = <<>> /\ lost = {} /\ closes = 0

-----------------------------------------------------------------------------
(* The reader.                                                             *)

ReaderOnly == UNCHANGED <<setup, inputMutex, slot, loop, disconnecting, shutting,
                          delivered, closes>>

\* poll reports POLLIN for standard input.  At its end a regular file is
\* readable still; a pipe has POLLHUP only, and the worker polls again.
Readable == unread # <<>> \/ device = "regular"

\* console_worker_proc_posix: a line, or the end of file.
WorkerReads ==
    /\ mode # "file" /\ reader.at = "read" /\ Readable
    /\ LET line == IF unread = <<>> THEN 0 ELSE Head(unread) IN
       IF line = 0
       THEN /\ reader' = [reader EXCEPT !.eof = TRUE, !.at = "done"]
            /\ wakeup' = TRUE
       ELSE /\ reader' = [reader EXCEPT !.line = line, !.at = "enqueue"]
            /\ UNCHANGED wakeup
    /\ unread' = IF unread = <<>> THEN <<>> ELSE Tail(unread)
    /\ ReaderOnly /\ UNCHANGED <<slotsMutex, queue, lost>>

WorkerStops ==
    /\ mode # "file" /\ reader.at = "read" /\ reader.stop
    /\ reader' = [reader EXCEPT !.at = "done"]
    /\ ReaderOnly /\ UNCHANGED <<unread, slotsMutex, queue, wakeup, lost>>

\* file_input_reader_thread: the read is under comm_slots_mtx, which is kept
\* at the end of the file.
FileReads ==
    /\ mode = "file" /\ reader.at = "read" /\ slotsMutex = "none"
    /\ IF ~slot.live
       THEN /\ reader' = [reader EXCEPT !.at = "done"]
            /\ UNCHANGED <<unread, slotsMutex>>
       ELSE IF unread = <<>>
       THEN /\ reader' = [reader EXCEPT !.at = "eof"] /\ slotsMutex' = "reader"
            /\ UNCHANGED unread
       ELSE /\ reader' = [reader EXCEPT !.line = Head(unread), !.at = "enqueue"]
            /\ unread' = Tail(unread) /\ UNCHANGED slotsMutex
    /\ ReaderOnly /\ UNCHANGED <<queue, wakeup, lost>>

\* poll or read fails, in either thread: it ends, and the loop is not told.
ReaderFails ==
    /\ reader.at = "read" /\ (mode = "file" => slotsMutex = "none" /\ slot.live)
    /\ reader' = [reader EXCEPT !.at = "failed"]
    /\ ReaderOnly /\ UNCHANGED <<unread, slotsMutex, queue, wakeup, lost>>

FileReportsEof ==
    /\ reader.at = "eof" /\ inputMutex = "none"
    /\ reader' = [reader EXCEPT !.eof = TRUE, !.at = "done"]
    /\ wakeup' = TRUE /\ slotsMutex' = "none"
    /\ ReaderOnly /\ UNCHANGED <<unread, queue, lost>>

\* Mutant: the queue has no limit.
EnqueueUnbounded(q, line) == Append(q, line)

\* async_queue_enqueue with ASYNC_QUEUE_DROP_OLDEST
EnqueueLine(q, line) ==
    Append(IF Len(q) = QueueCap THEN Tail(q) ELSE q, line)

ReaderEnqueues ==
    /\ reader.at = "enqueue"
    /\ queue' = EnqueueLine(queue, reader.line)
    /\ lost' = lost \cup (Range(queue) \ Range(queue'))
    /\ reader' = [reader EXCEPT !.at = "post"]
    /\ ReaderOnly /\ UNCHANGED <<unread, slotsMutex, wakeup>>

\* async_runtime_post_completion
ReaderPosts ==
    /\ reader.at = "post"
    /\ wakeup' = TRUE
    /\ reader' = [reader EXCEPT !.at = "read"]
    /\ ReaderOnly /\ UNCHANGED <<unread, slotsMutex, queue, lost>>

-----------------------------------------------------------------------------
(* mudmux_run up to the loop.                                              *)

\* comm_init_console or comm_init_async_file_input: the thread is started and
\* the mutex of the module stays taken for the connect hook.
StartReader ==
    /\ loop = "start" /\ inputMutex = "none"
    /\ inputMutex' = "loop" /\ reader' = NewReader /\ loop' = "connect"
    /\ UNCHANGED <<setup, unread, slotsMutex, queue, slot, wakeup, disconnecting,
                   shutting, history>>

\* comm_invoke_connect, at the start or for the next session on a terminal.
MayConnect ==
    \/ loop = "connect" /\ slotsMutex = "none"
    \/ loop = "reconnect"

InvokeConnect ==
    /\ MayConnect
    /\ slot' = Connect(slot)
    /\ inputMutex' = "none" /\ slotsMutex' = "none"
    /\ loop' = IF loop = "connect" THEN "top" ELSE "resume"
    /\ UNCHANGED <<setup, unread, queue, reader, wakeup, disconnecting, shutting,
                   history>>

\* HOOK_CONNECT runs inline and closes the slot: comm_close wants the mutex the
\* loop holds, and there is no next step.
ConnectCloses ==
    /\ MayConnect /\ strict /\ closes < MaxCloses
    /\ slot' = Raise(slot, "CLOSING")
    /\ slotsMutex' = "loop" /\ loop' = "relock" /\ closes' = closes + 1
    /\ UNCHANGED <<setup, unread, inputMutex, queue, reader, wakeup,
                   disconnecting, shutting, delivered, lost>>

-----------------------------------------------------------------------------
(* The loop.                                                               *)

Top ==
    /\ loop = "top"
    /\ loop' = IF shutting THEN "closing" ELSE "wait"
    /\ UNCHANGED <<setup, unread, slotsMutex, inputMutex, queue, reader, slot,
                   wakeup, disconnecting, shutting, history>>

\* async_runtime_wait without a timeout: the whole counter is read at once.
Wait ==
    /\ loop = "wait" /\ wakeup
    /\ wakeup' = FALSE
    /\ loop' = IF mode = "file" THEN "drain" ELSE "console"
    /\ UNCHANGED <<setup, unread, slotsMutex, inputMutex, queue, reader, slot,
                   disconnecting, shutting, history>>

\* comm_process_console_input takes console_mutex and the EOF flag.
TakeEof ==
    /\ loop = "console" /\ inputMutex = "none"
    /\ inputMutex' = "loop"
    /\ IF HasContext /\ reader.eof
       THEN /\ reader' = [reader EXCEPT !.eof = FALSE, !.stop = TRUE]
            /\ loop' = "join"
       ELSE loop' = "lookup" /\ UNCHANGED reader
    /\ UNCHANGED <<setup, unread, slotsMutex, queue, slot, wakeup, disconnecting,
                   shutting, history>>

\* console_worker_shutdown gives up after a while, console_worker_destroy does
\* not: the thread is joined.
JoinWorker ==
    /\ loop = "join" /\ reader.at \in {"done", "failed"}
    /\ reader' = NoReader /\ loop' = "rearm"
    /\ UNCHANGED <<setup, unread, slotsMutex, inputMutex, queue, slot, wakeup,
                   disconnecting, shutting, history>>

\* comm_set_line_input takes comm_slots_mtx; the console gets a new worker if it
\* is a terminal.
Rearm ==
    /\ loop = "rearm" /\ slotsMutex = "none"
    /\ reader' = IF mode = "console" /\ device = "tty" THEN NewReader ELSE NoReader
    /\ disconnecting' = TRUE /\ loop' = "lookup"
    /\ UNCHANGED <<setup, unread, slotsMutex, inputMutex, queue, slot, wakeup,
                   shutting, history>>

\* A line on a console without a slot opens the next session, and is dropped.
Lookup ==
    /\ loop = "lookup" /\ slotsMutex = "none"
    /\ IF ~slot.live /\ mode = "console" /\ HasContext /\ queue # <<>>
       THEN /\ slot' = [slot EXCEPT !.live = TRUE]
            /\ queue' = <<>> /\ lost' = lost \cup Range(queue)
            /\ slotsMutex' = "loop" /\ loop' = "reconnect"
            /\ UNCHANGED inputMutex
       ELSE /\ inputMutex' = "none" /\ loop' = "drain"
            /\ UNCHANGED <<slot, queue, lost, slotsMutex>>
    /\ UNCHANGED <<setup, unread, reader, wakeup, disconnecting, shutting,
                   delivered, closes>>

\* Everything queued goes to the slot's buffers.  A line that does not fit is
\* lost; the console worker is then told to stop.
Drain ==
    /\ loop = "drain" /\ slotsMutex = "none" /\ inputMutex = "none"
    /\ LET room == IF slot.live THEN BufferCap - Len(slot.buffer) ELSE 0
           n == IF room < Len(queue) THEN room ELSE Len(queue)
           overflow == n < Len(queue) IN
       /\ slot' = [slot EXCEPT !.buffer = @ \o SubSeq(queue, 1, n)]
       /\ queue' = SubSeq(queue, n + 2, Len(queue))
       /\ lost' = IF overflow THEN lost \cup {queue[n + 1]} ELSE lost
       /\ Posts(overflow /\ mode # "file", FALSE)
    /\ slotsMutex' = "loop" /\ loop' = "process"
    /\ UNCHANGED <<setup, unread, inputMutex, disconnecting, delivered, closes>>

\* The hooks run inline, or one of them is queued.
Process ==
    /\ loop = "process"
    /\ slot' = Processed(slot)
    /\ delivered' = delivered \o Taken(slot)
    /\ loop' = "eof"
    /\ UNCHANGED <<setup, unread, slotsMutex, inputMutex, queue, reader, wakeup,
                   disconnecting, shutting, lost, closes>>

\* A hook that runs inline closes the slot.
ProcessCloses ==
    /\ loop = "process" /\ strict /\ closes < MaxCloses
    /\ \E k \in 1..Len(Taken(slot)) :
          LET c == Close(Processed(slot), TRUE) IN
          /\ slot' = c.slot
          /\ Posts(c.signal, c.shut)
          /\ delivered' = delivered \o IF c.slot.live THEN Taken(slot)
                                       ELSE SubSeq(Taken(slot), 1, k)
    /\ closes' = closes + 1
    /\ loop' = "eof"
    /\ UNCHANGED <<setup, unread, slotsMutex, inputMutex, queue, disconnecting,
                   lost>>

\* Mutant: the end of standard input does not wait for what is before it.
EofWaitsNever(s) == FALSE

\* The end of standard input waits for the slot to be idle.
EofWaits(s) ==
    /\ mode = "stdin" /\ s.live
    /\ \/ Busy(s) \/ Has(s, "DEFERRED_INBOUND")
       \/ Has(s, "ENABLE_PROMPT") /\ ~Has(s, "INVOKED_PROMPT")

Leave == slotsMutex' = "none" /\ loop' = "resume"

\* comm_process_console_input with the EOF it has taken, now or earlier.
ConsoleEof ==
    /\ loop = "eof" /\ mode # "file" /\ disconnecting /\ ~EofWaits(slot)
    /\ LET begins == ~Has(slot, "CLOSING") \/ Has(slot, "DISCONNECT_PENDING")
           s == IF begins THEN Close(slot, FALSE).slot ELSE slot IN
       IF s.live /\ (Busy(s) \/ Has(s, "AWAITING_HOOK") \/ Has(s, "DISCONNECT_PENDING"))
       THEN /\ slot' = s
            /\ UNCHANGED <<queue, lost, disconnecting, reader, shutting, wakeup>>
       ELSE /\ slot' = Removed(s)
            /\ queue' = <<>> /\ lost' = lost \cup Range(queue)
            /\ disconnecting' = FALSE
            /\ Posts(FALSE, mode = "stdin")
    /\ Leave
    /\ UNCHANGED <<setup, unread, inputMutex, delivered, closes>>

NoConsoleEof ==
    /\ loop = "eof" /\ mode # "file" /\ (~disconnecting \/ EofWaits(slot))
    /\ Leave
    /\ UNCHANGED <<setup, unread, inputMutex, queue, reader, slot, wakeup,
                   disconnecting, shutting, history>>

\* comm_process_file_input: the server is shut down, whatever is left.
FileEof ==
    /\ loop = "eof" /\ mode = "file" /\ inputMutex = "none"
    /\ Posts(FALSE, reader.eof)
    /\ Leave
    /\ UNCHANGED <<setup, unread, inputMutex, queue, slot, disconnecting, history>>

\* comm_resume_deferred_input
Resume ==
    /\ loop = "resume" /\ slotsMutex = "none"
    /\ LET s == Clear(slot, "DEFERRED_INBOUND") IN
       IF slot.live /\ Has(slot, "DEFERRED_INBOUND") /\ ~Busy(slot)
       THEN slot' = Processed(s) /\ delivered' = delivered \o Taken(s)
       ELSE UNCHANGED <<slot, delivered>>
    /\ loop' = "progress"
    /\ UNCHANGED <<setup, unread, slotsMutex, inputMutex, queue, reader, wakeup,
                   disconnecting, shutting, lost, closes>>

\* comm_flush_all: comm_close of a slot that is closing.
Progress ==
    /\ loop = "progress" /\ slotsMutex = "none" /\ inputMutex = "none"
    /\ LET c == Close(slot, TRUE) IN
       IF slot.live /\ Has(slot, "CLOSING") /\ ~Has(slot, "AWAITING_HOOK")
       THEN slot' = c.slot /\ Posts(c.signal, c.shut)
       ELSE UNCHANGED <<slot, reader, wakeup, shutting>>
    /\ loop' = "prompt"
    /\ UNCHANGED <<setup, unread, slotsMutex, inputMutex, queue, disconnecting,
                   history>>

\* comm_invoke_prompt
Prompt ==
    /\ loop = "prompt" /\ slotsMutex = "none"
    /\ IF /\ slot.live /\ Has(slot, "ENABLE_PROMPT") /\ ~Has(slot, "INVOKED_PROMPT")
          /\ ~Has(slot, "AWAITING_HOOK") /\ ~Has(slot, "DEFERRED_INBOUND")
          /\ slot.buffer = <<>> /\ ~Busy(slot)
       THEN slot' = Raise(IF strict THEN slot ELSE Enqueue(slot, "prompt"),
                          "INVOKED_PROMPT")
       ELSE UNCHANGED slot
    /\ loop' = "top"
    /\ UNCHANGED <<setup, unread, slotsMutex, inputMutex, queue, reader, wakeup,
                   disconnecting, shutting, history>>

-----------------------------------------------------------------------------
(* After the loop.                                                         *)

\* Every slot is closed, then comm_close is repeated until its disconnect hook
\* is over; in between the loop waits.
CloseSlots ==
    /\ loop = "closing" /\ slotsMutex = "none" /\ inputMutex = "none"
    /\ LET c == Close(slot, TRUE) IN slot' = c.slot /\ Posts(c.signal, c.shut)
    /\ loop' = "await"
    /\ UNCHANGED <<setup, unread, slotsMutex, inputMutex, queue, disconnecting,
                   history>>

AwaitDisconnect ==
    /\ loop = "await" /\ slotsMutex = "none" /\ inputMutex = "none"
    /\ LET c == Close(slot, TRUE)
           again == Has(slot, "DISCONNECT_PENDING") /\ ~Busy(slot)
           s == IF again THEN c.slot ELSE slot IN
       /\ slot' = s
       /\ Posts(again /\ c.signal, again /\ c.shut)
       /\ loop' = IF s.live /\ ( \/ Has(s, "AWAITING_HOOK") \/ Busy(s)
                                 \/ Has(s, "DISCONNECT_PENDING") )
                  THEN "pending" ELSE "stop"
    /\ UNCHANGED <<setup, unread, slotsMutex, inputMutex, queue, disconnecting,
                   history>>

WaitForHook ==
    /\ loop = "pending" /\ wakeup
    /\ wakeup' = FALSE /\ loop' = "await"
    /\ UNCHANGED <<setup, unread, slotsMutex, inputMutex, queue, reader, slot,
                   disconnecting, shutting, history>>

\* mudmux_workers_stop joins the workers; comm_flush_all.
StopWorkers ==
    /\ loop = "stop" /\ slot.gate = <<>> /\ slotsMutex = "none" /\ inputMutex = "none"
    /\ LET c == Close(slot, TRUE) IN
       IF slot.live /\ Has(slot, "CLOSING")
       THEN slot' = c.slot /\ Posts(c.signal, c.shut)
       ELSE UNCHANGED <<slot, reader, wakeup, shutting>>
    /\ loop' = "release"
    /\ UNCHANGED <<setup, unread, slotsMutex, inputMutex, queue, disconnecting,
                   history>>

\* comm_shutdown_async_file_input and comm_shutdown_console: the thread is
\* joined under the mutex of the module; only the console's is told to stop.
ReleaseInput ==
    /\ loop = "release" /\ inputMutex = "none"
    /\ inputMutex' = "loop" /\ loop' = "joinlast"
    /\ reader' = [reader EXCEPT !.stop = mode # "file"]
    /\ UNCHANGED <<setup, unread, slotsMutex, queue, slot, wakeup, disconnecting,
                   shutting, history>>

JoinReader ==
    /\ loop = "joinlast" /\ reader.at \in {"none", "done", "failed"} /\ slotsMutex = "none"
    /\ reader' = NoReader /\ queue' = <<>> /\ lost' = lost \cup Range(queue)
    /\ slot' = Removed(slot)
    /\ inputMutex' = "none" /\ loop' = "done"
    /\ UNCHANGED <<setup, unread, slotsMutex, wakeup, disconnecting, shutting,
                   delivered, closes>>

-----------------------------------------------------------------------------
(* Hooks on workers.                                                       *)

Hooking == UNCHANGED <<setup, unread, inputMutex, queue, loop, disconnecting,
                       delivered, lost>>

\* The completion of the hook that is running.
HookCompletes ==
    /\ Busy(slot) /\ slot.gate[1] # "leaving" /\ slotsMutex = "none"
    /\ LET hook == slot.gate[1]
           s == [slot EXCEPT !.gate[1] = "leaving"]
           free(t) == IF Has(t, "CLOSING") THEN t ELSE Clear(t, "AWAITING_HOOK") IN
       slot' = IF ~s.live THEN s ELSE
               CASE hook = "connect" ->
                       Raise(free(Connected(s)), "DEFERRED_INBOUND")
                 [] hook = "inbound" -> Raise(s, "DEFERRED_INBOUND")
                 [] hook = "disconnect" -> Clear(s, "AWAITING_HOOK")
                 [] OTHER -> s
    /\ Hooking /\ UNCHANGED <<slotsMutex, reader, wakeup, shutting, closes>>

\* Mutant: the loop is not woken when the slot is free.
HookLeavesQuietly ==
    /\ Busy(slot) /\ slot.gate[1] = "leaving"
    /\ slot' = [slot EXCEPT !.gate = Tail(@)]
    /\ Hooking /\ UNCHANGED <<slotsMutex, reader, wakeup, shutting, closes>>

\* finish_slot_execution
HookLeaves ==
    /\ Busy(slot) /\ slot.gate[1] = "leaving"
    /\ slot' = [slot EXCEPT !.gate = Tail(@)] /\ wakeup' = TRUE
    /\ Hooking /\ UNCHANGED <<slotsMutex, reader, shutting, closes>>

\* A hook on a worker, of this slot or another, calls comm_close; to signal
\* the EOF it takes console_mutex and keeps comm_slots_mtx.
HookCloses ==
    /\ ~strict /\ closes < MaxCloses /\ slotsMutex = "none"
    /\ loop \notin {"start", "connect", "release", "joinlast", "done"}
    /\ inputMutex = "none" \/ mode # "file"
    /\ LET c == Close(slot, TRUE) IN
       /\ slot' = c.slot
       /\ slotsMutex' = IF c.signal THEN "hook" ELSE "none"
       /\ Posts(FALSE, c.shut)
    /\ closes' = closes + 1
    /\ Hooking

HookSignals ==
    /\ slotsMutex = "hook" /\ inputMutex = "none"
    /\ Posts(TRUE, FALSE) /\ slotsMutex' = "none"
    /\ Hooking /\ UNCHANGED <<slot, closes>>

ReaderSteps ==
    \/ WorkerReads \/ WorkerStops \/ FileReads \/ FileReportsEof
    \/ ReaderEnqueues \/ ReaderPosts \/ ReaderFails

LoopSteps ==
    \/ StartReader \/ InvokeConnect \/ ConnectCloses
    \/ Top \/ Wait \/ TakeEof \/ JoinWorker \/ Rearm \/ Lookup \/ Drain
    \/ Process \/ ProcessCloses \/ ConsoleEof \/ NoConsoleEof \/ FileEof
    \/ Resume \/ Progress \/ Prompt
    \/ CloseSlots \/ AwaitDisconnect \/ WaitForHook \/ StopWorkers
    \/ ReleaseInput \/ JoinReader

Next ==
    \/ ReaderSteps \/ LoopSteps
    \/ HookCompletes \/ HookLeaves \/ HookCloses \/ HookSignals

Spec == Init /\ [][Next]_vars

\* Threads run, the mutexes are granted in the end (strong fairness: others may
\* take them in between), and hooks return.  Reading need not fail.
FairSpec ==
    /\ Spec
    /\ SF_vars(LoopSteps) /\ SF_vars(ReaderSteps /\ reader'.at # "failed")
    /\ SF_vars(HookCompletes) /\ WF_vars(HookLeaves) /\ SF_vars(HookSignals)

-----------------------------------------------------------------------------
(* Properties.                                                             *)

\* Values of the state; the line queue and the inbound buffer of the slot stay
\* within their capacities whatever the threads do.
TypeOK ==
    /\ mode \in Modes /\ device \in Devices
    /\ strict \in BOOLEAN /\ prompting \in BOOLEAN
    /\ slotsMutex \in {"none", "loop", "reader", "hook"}
    /\ inputMutex \in {"none", "loop"}
    /\ Len(queue) <= QueueCap /\ Len(slot.buffer) <= BufferCap
    /\ reader.at \in {"none", "read", "enqueue", "post", "eof", "done",
                     "failed"}
    /\ slot.live \in BOOLEAN /\ slot.flags \subseteq Flags
    /\ slot.gate \in BoundedSeq(Hooks, Backlog + 1)
    /\ wakeup \in BOOLEAN /\ disconnecting \in BOOLEAN /\ shutting \in BOOLEAN
    /\ closes \in 0..MaxCloses

\* A server that stops for the end of its standard input has passed all of it
\* to HOOK_MESSAGE_INBOUND, in order, unless the queue or the buffers were full:
\* the EOF the worker reports overtakes neither what is queued nor what waits
\* for a hook to return.  (Without prompts: see the README.)
InputComplete ==
    /\ \A i, j \in DOMAIN delivered : i < j => delivered[i] < delivered[j]
    /\ /\ loop = "done" /\ mode = "stdin" /\ device # "tty"
       /\ ~prompting /\ closes = 0 /\ lost = {}
       => delivered = source

\* The end of standard input is there for the worker to read: a file, or a
\* terminal where Ctrl+D is typed.
EofReadable == device = "regular" \/ 0 \in Range(source)

\* Unless reading fails or the hook asks for prompts:
\* - the end of standard input stops the server, and what the console reads is
\*   taken from its queue, across any number of Ctrl+D and reconnections, if no
\*   hook closes the console;
\* - the end of an input file stops the server, and so does a hook that closes
\*   its slot, if the connect hook is not met by the end of the file (see
\*   EofStopsServer) and does not close the slot inline.  The reader, which
\*   takes file_input_mutex, is joined with that mutex held.
\* No wakeup is lost between the threads, and none waits for another for ever.
InputServed ==
    ~prompting /\ [](reader.at # "failed") =>
        /\ mode # "file" /\ [](closes = 0) =>
              /\ mode = "stdin" /\ EofReadable => <>(loop = "done")
              /\ [](queue # <<>> => <>(queue = <<>>))
        /\ mode = "file" /\ [](loop # "relock" /\ ~(loop = "connect" /\ reader.at = "eof")) =>
              <>(loop = "done")

\* What the comment at file_input.cpp:43 says: "Treat EOF as graceful completion
\* so main loop can shut down in non-console mode": at the end of an input file
\* the server stops.
EofStopsServer == mode = "file" /\ [](reader.at # "failed") => <>(loop = "done")

\* What the comment at console.cpp:225 says: "stdin is either a pipe or a file,
\* so EOF means the end of input; shut down the server": when a pipe on standard
\* input is closed by its writer and all of it was read, the server stops.
PipeEofStopsServer ==
    mode = "stdin" /\ device = "pipe" /\ ~prompting /\ [](reader.at # "failed")
        => <>(loop = "done")

=============================================================================
