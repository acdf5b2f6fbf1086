# mudmux: TLA+ models and proofs

mudmux is an event-loop library for multi-user text servers. One thread runs
`mudmux_run()`: it accepts connections into numbered *slots*, parses their
input and calls application *hooks*. In *relaxed* mode (a worker pool of more
than one thread) hooks run on workers, at most one per slot at a time; in
*strict* mode they run on the loop. This directory holds the specifications of
the parts of the library whose correctness depends on the interleaving of the
loop, the workers and application threads.

## Inventory

| part (source) | state | operations | what makes it correct |
|---|---|---|---|
| slot execution scheduler (`src/execution.cpp`) | per slot: `active`, continuation queue, one await | dispatch, enqueue, run, finish, await, finalize, cancel, discard | one hook of a slot at a time; the gate is never orphaned or released twice; queue bounded |
| connection life cycle (`lib/comm/outbound.cpp`, `inbound.cpp`, `abstract.cpp`, `accept.cpp`) | slot table with generations, `C_CLOSING`, `C_DISCONNECT_PENDING`, `C_AWAITING_HOOK`, `C_TRANSPORT_READY` | accept, connect, transport ready, inbound dispatch, close, teardown | one disconnect hook per connection; slot not reused under it; a close completes |
| worker pool (`lib/async/thread_pool.cpp`) | task queue, threads, `stopping_` | start, submit, worker loop, stop | accepted tasks run before stop returns; no lost wake-up |
| detached work (`src/execution.cpp`) | completion lane | `mudmux_workers_submit`, schedule, run, next | completions one at a time, in order, exactly once |
| registered events and timer (`src/mudmux.cpp`, `src/execution.cpp`, `lib/async/async_event.cpp`) | signals, flag mask, retained notifications, `event_in_flight` | trigger, set, acknowledge, dispatch, release | no signal or flag lost; one execution per registration |
| event loop and library life cycle (`src/mudmux.cpp`) | running and shutdown flags | run, shutdown | shutdown runs the disconnect hooks, joins, returns |
| async runtime (`lib/async/async_runtime_*.cpp`) | eventfd, registered descriptors | wait, wake up, post completion | no wake-up lost between a thread and the sleeping loop |
| async queue (`lib/async/async_queue.cpp`) | circular buffer | enqueue (drop, block, fail), dequeue, clear | bounded FIFO |
| inbound parsing (`lib/comm/inbound.cpp`, `input_mode.cpp`) | one inbound buffer per slot, input mode, `C_DEFERRED_INBOUND` and `has_deferred_input` | refill, line and one-shot character framing, mode changes, defer, resume, prompt | every line dispatched once, in order, however it arrives; deferred input is resumed |
| telnet (`lib/comm/telnet.cpp`) | parser state, client capabilities | decode, negotiate, dispatch subnegotiation | same result however the bytes are split; client told the mode it is in |
| outbound buffering (`lib/comm/outbound.cpp`) | queue of at most 16 buffers, upgrade barrier | write, flush, release barrier, close when drained | bounded; order kept; a close drains |
| WebSocket, TLS (`lib/comm/websocket.cpp`, `ssl.cpp`) | handshake and close states, undecoded wire, fragments | upgrade, decode, encode, close handshake, TLS handshake step | HTTP answer first, one Close, messages whole and in order, a lost peer is removed |
| console and file input (`lib/comm/console.cpp`, `file_input.cpp`, `lib/async/console_worker.cpp`) | reader thread, line queue, EOF flags, two mutexes | init, read, post, process, reconnect, shutdown | no deadlock; all input delivered before its end is acted upon |
| hooks, scopes, listeners, examples | small tables | registration | not concurrent at run time |

How they interact: the loop calls the parser and `comm_close` under
`comm_slots_mtx`; those call the scheduler, which submits to the pool; workers
run hooks (which call back into comm and the scheduler), then the completion
callbacks that change slot flags, then hand on the gate and wake the loop. The
hard behaviours are the races between these, slot reuse (generations), full
queues, hooks that throw, awaits cancelled by a close, and shutdown; bytes and
frames cut anywhere by reads, a peer that leaves in the middle of a handshake,
and reader threads that share two mutexes with the loop.

## Modules

* **SlotExecution** - the gate of one slot in relaxed mode and the connection
  life cycle that drives it. Every critical section of the slot state is one
  action. `comm_slots_mtx`, which `comm_close` and the parser hold across
  several sections, is the variable `op`: while it is not idle every action that
  needs the mutex waits. `jobs` are the tasks in the pool, with their position
  in `run_slot_execution`, `run_slot_await_work` and `run_slot_await_resume`.
  `Outside` stands for the loop, application threads and hooks of other slots.
* **MCSlotExecution** - its symmetry set for TLC.
* **SlotExecutionProofs** - its theorems: about the gate, and, built on those,
  about the hooks of a connection and the await closures.
* **DetachedWork** - what `mudmux_workers_submit` promises.
* **WorkerPool** - the thread pool with its condition variable, start and stop,
  and the completion lane. Implements DetachedWork with
  `lane <- the completion in progress, then the queue`.
* **WorkerPoolProofs** - its theorems, the refinement included.
* **RegisteredEvents** - producers, the loop's two passes over registrations,
  admission, worker or inline execution, shutdown; strict and relaxed mode are
  the two initial states of `strict`.
* **RegisteredEventsProofs** - its theorems.
* **BoundedFifo** - what `async_queue.h` promises.
* **AsyncQueue** - the circular buffer (`slots`, `head`, `tail`, `count`), its
  three answers to a full buffer (the flags are chosen in `Init`), statistics,
  and the condition variable of blocked writers with spurious wake-ups.
  Implements BoundedFifo with `items <- Contents`, the slots from `tail` on.
  A message is represented by its size.
* **AsyncQueueProofs** - its theorems.
* **TelnetParser** - `comm_telnet_process_inbound` as a fold over the bytes of
  one call. A byte is a name; the parser state is kept between calls, the
  collected subnegotiation is not, as in the code.
* **InputFraming** - `_find_newline_and_strip` and `_find_char_input_sequence`
  as functions of the buffered bytes.
* **InboundParsing** - extends both: one telnet or plain slot, its inbound
  buffer (`buf`, with the offset that compaction removes), the loop from a read
  event through refill, parsing, resumption of deferred input and the prompt
  (`loop`), the slot's gate and hooks on workers, which change the input mode.
  `comm` holds the flags, the client's capabilities and the last LINEMODE and
  ECHO commands the client was sent. Strict and relaxed mode.
* **WebSocketSession** - one slot with WebSocket enabled, with or without TLS,
  from the handshakes to its removal. The peer's bytes are units, of which any
  number may arrive with a read, and a frame may be cut in two. `slot.out` and
  `slot.barrier` are the outbound queue and the upgrade barrier, `slot.wire`,
  `slot.decoded` and `slot.fragment` the stages of the decoder. Writes may be
  partial or fail; the peer may answer, close or leave at any time.
* **InputThreads** - the console worker or the file reader, the line queue, the
  eventfd, the console or file slot and the loop from start to the end of
  shutdown. The two mutexes are variables; an action stands for the code between
  two acquisitions, so lock orders are visible. `mode` is how the input was
  enabled (`mudmux_enable_console`, `mudmux_enable_standard_input`, a file on
  slot 0), `device` what is behind it, a terminal, a pipe or a regular file;
  `Init` chooses an input. The worker reads when `poll` reports `POLLIN`
  (`Readable`), which the end of a pipe is not. Reading may fail, which ends
  the thread without a word to the loop (`ReaderFails`).
* **MCInboundParsing, MCWebSocketSession, MCInputThreads** - the sessions and
  inputs TLC plays.
* **FoldTheorems** - induction up to a bound, and what a left fold of a sequence
  computes, for the proofs about the parsers.
* **InboundParsingProofs, WebSocketSessionProofs, InputThreadsProofs** - the
  theorems of these three components.

InboundParsing and WebSocketSession carry the gate of SlotExecution in reduced
form, a queue whose head is the hook in flight: that hooks of a slot exclude
each other is what SlotExecution establishes.

Operators introduced by a comment "Mutant" are deliberate bugs: each replaces
one definition of the model to show that a property notices.

## Runs

| run | bounds | checks |
|---|---|---|
| `slot_safety` | 3 tasks, 2 workers, backlog 1, 2 connections on the slot, 1 line each, 2 sends, 2 awaits, hooks may throw | all safety properties of SlotExecution and the inductive invariant |
| `slot_liveness` | 2 tasks, 1 connection, 1 line, 1 send, 1 await | `CloseCompletes`, `GateOpens` |
| `worker_pool` | 2 threads, 3 pairs, any number of starts and stops | refinement of DetachedWork, single ownership, stop, liveness |
| `registered_events` | timer (a manual-reset event) and one auto-reset event, 2 flags, 3 signals | serialization, conservation and delivery of flags and signals, shutdown |
| `async_queue` | capacity 3, 3 writers, 2 message sizes, 7 messages | refinement of BoundedFifo, index, wake-ups, statistics |
| `inbound_parsing` | five byte streams of 6 to 8 bytes, buffer of 6, subnegotiation buffer of 2, backlog 1, up to 2 mode changes, 1 send | `MessagesFramed` (the messages are the payload cut in order by the reference framing: none overlaps another, only white space and line ends are left out), `OneShotChar`, `PromptOnce`, `EditModeTold`, `DeferredPublished`, `DeferredLineParsed` |
| `websocket_session` | five sessions (fragments, peer's Close over TLS, a ping between fragments, telnet with a refused frame, refused upgrade), queue of 2, backlog 1, 1 write, 1 send | `UpgradeFirst`, `CloseOnce`, `MessagesInOrder`, `EofRemoves` |
| `input_threads` | eight inputs (console on a terminal and on a file; standard input on a terminal, a pipe, a file and an empty file; input file and empty input file) of up to 4 lines, queue of 2, buffer of 2, backlog 1, 2 closes by hooks | `InputComplete`, `InputServed` |
| `await_after_cancel` | as `slot_safety` | violated: see Findings |
| `output_order` | one session, 2 writes | violated: see Findings |
| `file_eof` | an empty input file | violated: see Findings |
| `pipe_eof` | a pipe with one line, closed by its writer | violated: see Findings |

Two connections are what a stale generation needs; a backlog of one is full
after one continuation; the owner of a gate and two pieces of stale work are
three tasks; two awaits are one cancelled and one newer. Seven messages take
the indices of a three-slot buffer round twice; three writers are one woken,
one still asleep and one newcomer. Three pairs make the
lane hold one completion in progress and two waiting. Three signals are one in
flight, one retained and one that coalesces. Eight bytes overflow a buffer of
six after a line has been taken from its front, so that compaction, overlong
lines and the refusal of a full buffer all happen; the subnegotiation of one
stream can be cut at every byte. A queue of two outbound elements is filled by
the upgrade answer and one frame, so a Close meets a full queue; with a backlog
of one, the smallest `mudmux.cpp:288` accepts, the disconnect hook finds the gate
free, waits behind a hook that runs, or is refused. Three lines do
not fit a line queue of two, and the terminal's input has a Ctrl+D, the line
that reconnects and a line of the next session.

Deadlock checking is off in `slot_safety` (the bounds on connections, and a
hook that threw, really stop the slot), in `registered_events` and
`input_threads` (`mudmux_run` returns; the file reader's deadlock is the
subject of `file_eof`; a server whose reader failed, or whose standard input is
a pipe, waits; and a hook's second close of the console may deadlock, see
Observations), and in `inbound_parsing` and `websocket_session`, whose
sessions end and whose slot is removed.

### Fairness

*SlotExecution*: strong fairness of every task, because it may need
`comm_slots_mtx` and other threads take that mutex in between; the loop sleeps
in `async_runtime_wait` between its own uses. Strong fairness of `Teardown` and
`RetryClose`: each finished execution calls `async_runtime_wakeup`, and every
pass of the loop ends in `comm_flush_all`, which drives closing slots.
Hooks and closures are assumed to return. Input need not arrive, but fairness of
`Teardown` assumes peers that take the output left for them and, on a WebSocket,
answer the Close or leave: `comm_close_impl` waits for both without a timeout
(`outbound.cpp:624` and `:642`), so a peer that does neither keeps its slot for as
long as it stays connected. *WorkerPool*: weak fairness of each thread, of a stop
that began and of the stop that undoes a failed start; no spurious wake-up is counted on. *RegisteredEvents*: weak fairness of
the loop, of the workers, of a trigger call that began, and of the wait only
when a signal or a wake-up is there. *InboundParsing*: weak fairness of the
loop's steps and, once it has been woken, of its return from the wait; strong
fairness of the completion of a hook, which needs `comm_slots_mtx`, and weak
fairness of its leaving the gate. Nothing is assumed of the peer. *WebSocketSession*: weak
fairness of the loop; once the peer's socket is closed, of reads, which then
report it (strong, as the slot may be busy in between); strong fairness of a
flush that empties the queue or fails, since a closed socket does not stay
unwritable; strong fairness of hooks. *InputThreads*: strong fairness of each
step of loop, reader and hooks, because each may wait for a mutex that is free
again and again; that reading fails is possible and never required, and the
liveness properties are stated for inputs where it does not.

## Findings

Statements of the documentation and of comments that the code does not keep;
each is a run that TLC refutes, with the quotations in `PROJECT.json`.

1. `await_after_cancel` - awaits are identified by slot generation only. Work
   of a cancelled await settles a newer await of the same connection, the gate
   opens under its holder and two hooks of one slot run together. The other
   runs and the theorems assume `~AwaitAfterCancel`: the application does not
   await again on a connection whose await `comm_close` cancelled.
2. `output_order` - framing begins when the 101 response is queued, the
   barrier is released when it has drained: what a hook writes in between
   overtakes what `HOOK_CONNECT` wrote.
3. `file_eof` - `comm_init_async_file_input` holds `file_input_mutex` while it
   takes `comm_slots_mtx` to invoke `HOOK_CONNECT`; the reader reports the end
   of the file with the two locks in the other order.
4. `pipe_eof` - the console worker reads only when `poll` reports `POLLIN`. At the
   end of a pipe Linux reports `POLLHUP` alone: the worker polls again and again,
   the end is never read and the server does not stop (`console_worker.cpp:367`;
   `console.cpp:225` expects it to). `InputServed` is stated for the other ends.

### Observations

Behaviour met while modelling that no run of its own states.

*Slots.* Input buffered before a close reaches `HOOK_MESSAGE_INBOUND` after
`HOOK_DISCONNECT`, for the parser does not test `C_CLOSING`
(`inbound.cpp:764`). `HOOK_TRANSPORT_READY` refused by a full queue is never
retried (`inbound.cpp:276`). A final message the disconnect hook queued is
dropped if the loop removes the slot before the outbound continuation runs
(`outbound.cpp:589`). An exception from a slot hook skips
`finish_slot_execution`: the slot stays busy and its close never completes
(`execution.cpp:348`).

*Input.* `comm_resume_deferred_input` may store over a `true` that a worker
published after its slot was scanned (`inbound.cpp:236`); the line then waits
for further input. `DeferredPublished` and `DeferredLineParsed` show that this,
and an early return of the parser that finds the deferral already cleared
(`inbound.cpp:764-767`: a subnegotiation hook, or an OUTBOUND continuation that
another slot's hook sends, has taken the gate between the two), are the only ways a
deferred line is left. In strict mode a second character, armed again by the
hook, waits for the next read. A subnegotiation refused by a busy slot is
dropped and the rest of the chunk is not passed through the telnet parser. NUL
in character mode is an empty message; after a refused dispatch the stripped
line leaves NUL bytes in the buffer, which count as line ends.

*WebSocket.* Output is discarded after the server's own Close, not after its reply
to the peer's (`outbound.cpp:222` tests `WS_CLOSE_SENT` only): what
`HOOK_DISCONNECT` writes when the peer closed first is framed behind the Close
reply, which `outbound.cpp:219` says RFC 6455 forbids. A Close frame that meets a
full outbound queue is dropped while the state becomes `WS_CLOSE_SENT`
(`outbound.cpp:156`); the connection then ends when the peer leaves. A refused frame, and the peer's Close, are not erased from the
undecoded wire. A rejected upgrade is followed by raw output of the disconnect
hook. The branch for an overlong request is not reachable, the buffer being
smaller. A write that fails goes on as if the queue had drained. The test
for a slot removed by its inline hook (`websocket.cpp:653`) never succeeds: the
Close handshake or queued output keeps the slot. A client that
sends with its request has messages delivered before transport ready. A telnet
subnegotiation in a frame that meets a busy slot loses the message.

*Console and file.* A connect hook that closes the console inline locks
`console_mutex` again. A hook's close of a console that is closing takes
`comm_slots_mtx` and `console_mutex` in the order opposite to
`comm_process_console_input` (`console.cpp:147`, `outbound.cpp:609`). Shutdown
joins the file reader with `file_input_mutex` held (`file_input.cpp:133`); as
`InputServed` shows, the reader never needs that mutex by then. A `poll` or read
that fails ends the reader without the end of input being reported
(`console_worker.cpp:360`, `:378`, `file_input.cpp:57`): the server goes on without
input. With
a prompt hook, the end of standard input may overtake a line, and in strict
mode the loop sleeps with the end pending (`console.cpp:203`): the properties
of `input_threads` are stated without prompts. The end of an input file stops
the server with lines still buffered in relaxed mode. The eventfd adds up what
is written to it: several posts before one read may decode as a completion for
another slot (`async_runtime_epoll.cpp:216`).

## Proofs

SlotExecutionProofs proves, for every number of tasks, closures, workers,
connections and every backlog capacity:

* `TypeCorrect`: `Spec => []TypeOK`, which includes the backlog bound.
* `GateDiscipline`: `Spec => []GateInvariant` when `~AwaitAfterCancel`.
* `HooksExclude` and `GateNeverOrphaned`: `MutualExclusion` and `GateHeld`
  follow from it.

Mutual exclusion is not inductive: a step of `FinishExecution` or
`DiscardAwait` preserves it only if the task that takes it owns the gate.
`GateInvariant` adds who owns it: a hook, its resume, a task that finishes, or
the work of the await that is pending (`OwnerUnique`, `GateHeld`); that a
pending await has its work among the tasks, under a closure no other work
carries (`AwaitRecorded`); and that work whose await is gone belongs to a
generation in which `comm_close` cancelled one, which records no further await
(`StaleWorkCancelled`). The last part is where the assumption is needed, and is
what finding 1 breaks. The step lemma has one case per action; actions that
leave the gate alone share `GateUntouched`, those that only move a task between
phases share `PhaseMove`.

These proofs use `ConstantAssumption` only.

AsyncQueueProofs proves, for every capacity, message size and finite set of
writers (`QueueAssumption`):

* `QueueCorrect`: the inductive invariant `QueueInvariant` of AsyncQueue, that is types,
  `HeadFollowsTail`, `NoLostWakeup` and `Accounted`. Its parts need each other:
  the index needs `count <= Capacity`, the wake-ups that only a queue that
  blocks has sleepers.
* `WakeupsSuffice`: `NoLostWakeup`. `notify_one` is enough because for every
  free slot a woken writer is on its way; a newcomer that takes the slot also
  takes it from the count.
* `QueueIsFifo`: the queue implements BoundedFifo. The lemmas about `Window`
  (consecutive slots of the ring) do the work: writing behind a window appends
  to it, advancing its start takes its head off, and positions less than one
  turn apart differ. `%` is eliminated once, in `Position`.

SlotExecutionProofs further proves, again when `~AwaitAfterCancel`:

* `AwaitingHookAlwaysCleared`, `CompletionsOwnSlot`, `DisconnectPinsSlotAlways`
  and `OneDisconnect`, from `LifecycleInvariant`. The property that a connection
  ends with one disconnect hook needs where that hook is: `ConnectionFlags` are
  the combinations of `C_CLOSING`, `C_DISCONNECT_PENDING` and `C_AWAITING_HOOK`
  that the holder of `comm_slots_mtx` and the pool allow; `HookOrder` says that
  a hook not yet completed belongs to the connection in the slot, that nothing
  of the life cycle is queued behind the disconnect hook, that this hook keeps
  `C_AWAITING_HOOK` set, and that `disconnects` is one exactly from its begin.
  Every action moves live hooks in one of five ways (`HooksKept`, `Enters`,
  `Advances`, `Ends`, `Begins`), and the invariant is shown once for each.
* `ResumeFollowsWork` and `StopLeavesNoAwait`, from `TaskInvariant`: a closure is
  carried by one task (`ClosuresApart`), that of an await only recorded by none
  (`RequestFresh`), and only hooks of the life cycle have a completion
  (`OnlyHooksComplete`).

WorkerPoolProofs proves, for every set of threads and of pairs of work and
completion:

* `SingleOwnerAlways` and `StopRunsEverythingAlways`, from `PoolInvariant`: no
  pair is in two places (`Distinct`), the place of a pair tells its stage
  (`StageOf`), one task or thread is responsible for an active lane
  (`LaneOwned`), and threads leave only a drained queue (`PoolPhases`).
* `PoolIsDetachedWork`: WorkerPool implements DetachedWork. Submitting,
  scheduling, starting and ending a completion are steps of the abstract
  specification, everything else leaves `lane` alone.

RegisteredEventsProofs proves, for every set of registrations and flags:

* `RegistrationSerialAlways`: one execution per registration. The inductive
  `EventInvariant` adds that `event_in_flight` counts that execution
  (`InFlightCounts`) and is zero from the loop's test to its admission.
* `FlagsConservedAlways`: while the workers run, a published timer flag that no
  hook has been given is in the mask, with the loop or in a task. Needed
  besides: only a queued task carries flags (`FlagsOfTasks`), and the loop only
  between the exchange and the hook (`BatchShape`).

InboundParsingProofs proves, for every byte stream, buffer and backlog:

* `ParserBounded`: `comm_telnet_process_inbound`, on a chunk of any length from
  any state, consumes what it is given at most, writes no more than it consumed
  and stays inside the subnegotiation buffer.
* `InboundTypeCorrect`, `OneShotAlways`, `PromptOnceAlways`, `EditModeToldAlways`
  and `DeferredPublishedAlways`, from `InboundInvariant`. Its parts say what the
  client was told in each input mode (`ModeTold`), that each character message
  and an armed character mode stand for one call of a hook (`OneShotInvariant`),
  that the last prompt stands until input or output (`PromptInvariant`), and
  that a deferral is published or was overwritten (`DeferredKnown`).
* `MessagesFramedAlways`: `MessagesFramed`, from `InboundInvariant` and `Framing`.
  `Framing` ties four places together, as long as no subnegotiation was refused:
  a number c of bytes of the stream has gone through the parser, `src` and
  `unread` are the rest (`Remains`); the state kept between reads is that of the
  reference after c bytes, and its payload of them ends where the buffer ends
  (`ReadTo`); the buffer shows the payload behind what has left it (`Shows`); and
  the messages hold what has left it but white space and line ends (`Delivered`).
  The link from `src` to the buffer is `ChunkParsed`: a call on any chunk, which
  stops early at the end of a subnegotiation, takes the reference exactly as far
  as it has consumed. The link from the buffer to a message is `LineMatches` and
  `CharMatches`. They are not about equal texts: `_find_newline_and_strip` edits
  the buffer before the dispatch, and after QUEUE_FULL the line is searched again
  among zeros. `Shows` therefore allows a zero where the payload has white space
  up to a line end; the second search finds the same line (`ShowsEdited`), and
  character input that meets such a zero instead delivers an empty message.

WebSocketSessionProofs proves, for every set of sessions, queue capacity and
number of writes (`WebSocketAssumption`):

* `WebSocketTypeCorrect`: the outbound queue, the barrier and the gate stay within
  their bounds.
* `UpgradeFirstAlways` and `CloseOnceAlways`, from `SessionInvariant`. Neither is
  inductive as a statement about what was *sent*: the invariant is about all
  output since the connection began, what was sent followed by what is queued
  (`All`). It holds one Close at most, and none before `slot.ws` says that the
  Close handshake began; its first element is the HTTP answer. `Linked` ties the
  phase of the upgrade to that first element. A failed write drops queued output
  and goes on as if it had drained; afterwards nothing more is sent, so that the
  order is claimed of connections without a failed write (`~broken`) and of
  `sent` always. One lemma per operation on the slot (`RawWriteOK`, `WriteOK`,
  `QueueCloseOK`, `TeardownOK`, `CloseOK`, `TryUpgradeOK`, `ProcessInboundOK`,
  `FlushOK`, ...) carries the invariant, and one per group of actions uses them.
* `MessagesInOrderAlways`, from `SessionInvariant` and `Order`. `Order` follows the
  input from the socket to the application. Until the upgrade nothing was decoded,
  and what is buffered and unread is the TLS handshake, the request and the frames
  (`Opening`). Behind it, what was delivered, the message that is decoded and the
  fragments are, together, the text of the first p frames (`TextOf`), and the wire,
  the inbound buffer and the socket, one behind the other (`Stream`), go on with
  frame p + 1, unit by unit (`Chain`). Decoding moves p (`DecodeFlows`), every other
  stage of the input only moves bytes along the stream. A Close or a frame that is
  refused consumes nothing: the decoder meets it again on every later call
  (`Stuck`, `DecodeStuck`), and that is why nothing behind it is delivered.
  Everything that leaves the input alone (writes, flushes, hooks, closing) is one
  relation between two slots (`Carries`).

InputThreadsProofs proves, for every input of a terminal, a pipe or a file, every
capacity of queue, buffer and backlog and every number of closes
(`InputThreadsAssumption`; lines are numbered in the order of the input and 0,
which stands for Ctrl+D, occurs on a terminal only):

* `InputTypeCorrect`: types and capacities. A connect hook is queued without a
  look at the backlog; `Gated` says that the gate is empty where this is done.
* `InputCompleteAlways`: `InputComplete`. Its first half, the order of the lines,
  follows from `Lines`: what was delivered, is buffered, is queued, is carried by
  the reader and is still unread lie one above the other (`Rungs`); every step
  moves lines from one rung to the next or drops some. Its second half, for standard
  input that is not a terminal, needs what
  holds on the way to the end of standard input, as long as nothing was closed by
  the application and nothing dropped (`Complete`): the five rungs together are
  still the whole input (`Whole`); the worker is joined only after the last line
  was queued, and the queue is empty once its end was taken note of
  (`ReaderDone`); the slot is closed, and the server told to stop, only when
  nothing is left anywhere (`Ended`); and a line that stays in the buffer has a
  hook in the gate or `C_DEFERRED_INBOUND` to bring the loop back to it
  (`SlotWaits`). The last part is why the test of `comm_process_console_input`
  (slot busy or `C_DEFERRED_INBOUND`) suffices for the end of input not to
  overtake a buffered line. `Prompted` says that only the connect hook enables
  the prompt, for which the second half is not claimed.

The parsers and the flush are folds over a sequence. The induction theorems of
the library cannot be instantiated here, but that a set of numbers has a least
element can be cited; FoldTheorems derives from it induction up to a bound, with
a set in place of a predicate (`SetInduction`), and with that, that the function a
fold is defined by exists (`FoldExists`) and what invariants its values keep
(`FoldRun`). Nothing but the named assumptions about the constants is used.

Model-checked only: every liveness property (`CloseCompletes`, `GateOpens`,
`DeferredLineParsed`, `EofRemoves`, `InputServed` and those of WorkerPool and
RegisteredEvents), which need fairness. Every invariant, action property and
refinement that a passing run checks is also a theorem.

## Abstractions

* One slot is modelled; slots share no gate state. Messages sent to an empty
  slot become tasks of generation 0, as in the code.
* A submission that the pool refuses, with the `finish_slot_execution` after it,
  is one step; so is the pop and re-submission in `finish_slot_execution`. The
  pool refuses only once `mudmux_workers_stop` is in progress.
* `HOOK_PROMPT` (queued like an OUTBOUND from outside) and `HOOK_TELNET_SUBNEG`
  (dispatched like INBOUND) have no kind of their own.
* In SlotExecution undrained output, the WebSocket close handshake and TLS only
  delay `Teardown`; WebSocketSession models them.
* `mudmux_workers_stop` is called by `mudmux_run` as it returns; an application
  that calls it with live slots, and an `async_runtime_wait` that fails
  (`mudmux.cpp:539` and `:709`, which leave the loop), are not modelled.
* Payloads, messages of closures (OK, FAILED) and logging are left out.
* In SlotExecution resuming buffered input is possible, not guaranteed
  (`ParseInput` has no fairness): the flag that drives it is in InboundParsing.
* InboundParsing: output is abstracted to the commands in `told`; the slots
  beside the modelled one are a single possible deferral (`OtherDefers`); a
  byte class has one or two members, multi-byte characters two bytes. A
  subnegotiation hook that runs inline in strict mode does not change the input
  mode; a dispatch is accepted or refused for a full queue, not for workers that
  have stopped.
* WebSocketSession: headers, masks and payload bytes become units with a
  verdict; a message is one line; the 16 outbound buffers are `OutCap`
  elements; pongs are not recorded; a rejected request is followed by no frame. The
  shutdown of the write side after a closing slot has drained
  (`outbound.cpp:510`) is left out: the peer may close at any time anyway.
  Hooks and the peer act at the places of the loop where the difference can be
  seen.
* InputThreads: a line is read whole; a chunk that does not fit the buffer is
  lost as a whole; the eventfd is one flag; no garbage-collection hook is
  registered, so the wait has no timeout; HOOK_CONNECT and
  HOOK_TRANSPORT_READY are one hook.
* In AsyncQueue calls that return false change nothing and are not steps; the
  queue is not destroyed while in use. `ASYNC_QUEUE_SIGNAL_ON_DATA` is tested
  nowhere in the code.
* In RegisteredEvents the QUEUE_FULL answer is left out; `RegistrationSerial`
  shows that the loop never meets it. Every registration has a hook. `running` is
  tested once, at admission; the second test (`execution.cpp:575`) leads to the
  same release as the pool's refusal.

## Not modelled

The poll and IOCP back ends (other platforms; the Linux one is modelled),
OpenSSL, listener set-up and configuration parsing (sequential, before the loop
runs), the hook registry and the current-slot scopes (a table written at start,
thread-local save and restore), newline normalisation of output and the pool of
outbound buffers, logging and the examples. `components` in `PROJECT.json`
says so for each.

## Plan

1. The decoding of the eventfd, and the poll back end, as a module that
   implements the wake-ups the other modules assume.
2. Several slots in InboundParsing, in place of `OtherDefers`.
