# TLA+ verification of tiny_rpc

tiny_rpc is a reactor-style RPC framework in C++: event loops over epoll, a
timerfd-based timer, TCP connections with growing buffers, a binary framing for protobuf
messages, a client-side RPC channel and a server that spreads connections over I/O
threads. This directory holds TLA+ modules translated from that code, TLC configurations
that check them on small instances, and TLAPS proofs of their safety properties for
every value of the constants. `PROJECT.json` lists, by definition, the source lines each
definition models, the runs, the mutants that show each property can fail, the hazards
and the theorems. Paths below are relative to the repository.

## 1. The system

| Component | State | Operations | Interacts with |
|---|---|---|---|
| `EventLoop`, `FdEvent`, `WakeUpFdEvent` (`src/net/eventloop.cc`, `fd_event/fd_event.cc`) | queue `m_pending_tasks` under `m_mtx`, `m_listen_fds`, `m_stop_flag`, `m_is_looping`, the epoll instance, an eventfd | `loop`, `add_task`, `add_epoll_event`, `delete_epoll_event`, `stop`, `FdEvent::listen/cancel` | everything: handlers are tasks of a loop |
| `Timer`, `TimerEvent` (`src/net/time/`) | multimap `m_pending_events` under `m_mtx`, one timerfd, `m_is_cancel` in each event | `add_time_event`, `delete_time_event`, `reset_arrive_time`, `on_timer`, `set_cancel` | is an `FdEvent` of a loop; the channel's timeouts are its events |
| `TcpBuffer` (`src/net/tcp/tcp_buffer.cc`) | byte vector, read and write index | `write_to_buffer`, `read_from_buffer`, `adjust_read_index`, `adjust_write_index`, resizing and compaction | one for input and one for output in each connection |
| `TcpConnection` (`src/net/tcp/tcp_connection.cc`) | `m_state`, two buffers, `m_write_dones`, `m_read_dones` | `on_read`, `excute`, `on_write`, `clear`, `listen_read/write`, `push_*_message` | handlers of a loop; the coder; the dispatcher |
| `TcpClient` (`src/net/tcp/tcp_client.cc`) | socket, `m_connect_error_code` | `connect`, `write_message`, `read_message`, `stop` | drives a client connection |
| `RpcChannel`, `RpcController`, `RpcClosure` (`src/net/rpc/`) | the current call's timer, controller and closure | `init`, `CallMethod` and its nested callbacks | `TcpClient`, `Timer` |
| `TcpServer`, `TcpAcceptor`, `IOThread`, `IOThreadGroup` | listening socket, threads with two semaphores each, set of connections `m_client` | `start`, `on_accept`, `get_io_thread` | hands connections to I/O loops |
| `FdEventGroup` (`src/net/fd_event/fd_event_group.cc`) | table of `FdEvent`s by descriptor | `get_fd_event` | every connection takes its `FdEvent` from it |
| `ProtobufCoder`, `StringCoder` | none (works on a `TcpBuffer`) | `encode`, `decode` | connections |
| `RpcDispatcher` | table of services by name | `dispatcher`, `register_service`, `parse_service_full_name` | server connections |
| `Logger`, `AsyncLogger` (`src/common/log.cc`) | `m_buffer`, a queue of batches with a mutex and a condition variable, a consumer thread, files | `push_log`, `sync_loop`, `log`, `push_log_buffer`, `Loop`, `stop` | everybody logs |
| `MsgIdUtils`, `Config`, addresses | a counter per thread; parsed values | | |

What is hard here. Threads that post to a loop while its thread swaps the queue
and drains the eventfd; handlers that run one iteration after epoll reported
them; a timerfd set outside the lock that protects the events it stands for; an
answer that races with its timeout; callbacks that capture the channel while the
channel's fields belong to the latest call; partial writes and short reads; a
connection handed from the accepting thread to an I/O thread in two steps; a client
that goes away while its reply is being written; a log filled under one lock and
emptied under another, and a mutex that is unlocked twice.
The complete list is `hazards` in `PROJECT.json`.

What makes each part correct: posted work runs once, in order, and eventually (loop); no
event is forgotten, run twice or run after its cancellation (timer); no byte is lost or
invented until a read fills the vector (buffer); messages are first executed in order,
each reply finds its callback, and a closed connection stays quiet (connection); a call
ends once and its closure is told the truth (channel); every client gets a connection
with a descriptor and an `FdEvent` of its own, and a request reaches no method but the
one it names (server, dispatcher); no message is lost and batches are written in order
(logger).

## 2. Modules

| Module | Models | Granularity |
|---|---|---|
| `TaskExecutor` | abstract: tasks are accepted in an order and run in that order, once each; a stopped executor may leave tasks | one step per task |
| `EventLoop` | `EventLoop`, `FdEvent`, the eventfd, epoll | one step per locked section, task or system call |
| `EventLoopProofs` | theorems about `EventLoop` | |
| `Timer` | `Timer`, `TimerEvent`, the timerfd, the clock | one step per locked section |
| `TimerProofs` | theorems about `Timer` | |
| `CallContract` | abstract: the outcomes of a call and how they may change | one step per outcome |
| `RpcCall` | `RpcChannel`, `RpcController`, `TcpClient::connect` and the client's connection, against a server that answers, repeats, fails or closes | one step per handler |
| `RpcCallProofs` | theorems about `RpcCall` and its contract | |
| `TcpBuffer` | `TcpBuffer` and the use `on_read` makes of it | bytes, one step per operation |
| `TcpBufferProofs` | theorems about `TcpBuffer` | |
| `ProtobufCoder` | the framing: `encode`, a stream cut by `::read`, the input buffer (`TcpBuffer`, instantiated) and `decode` | bytes, one step per read and per turn of `decode` |
| `ProtobufCoderProofs` | theorems about `ProtobufCoder`, with those of `TcpBufferProofs` for its buffer | |
| `TcpConnection` | both ends of a connection, with the second half of `TcpServer::on_accept` and `TcpClient` | halves of a message, one step per `::read`, turn of `decode` and `::write` |
| `TcpConnectionProofs` | theorems about `TcpConnection` | |
| `RpcDispatcher` | `register_service`, `parse_service_full_name`, `dispatcher` as operators | |
| `TcpServer` | `TcpServer`, `TcpAcceptor`, `IOThread`, `IOThreadGroup`, `FdEventGroup`, and `RpcDispatcher` at work | one step per system call, semaphore operation or task |
| `TcpServerProofs` | theorems about `TcpServer` and `RpcDispatcher` | |
| `Logger` | `Logger`, `AsyncLogger`, `ScopeMutex`, `SpinLock`, the log files | one step per access to something shared |
| `LoggerProofs` | theorems about `Logger` | |

`MC*` modules only give constants their values. `EventLoop` instantiates
`TaskExecutor`, and `RpcCall` instantiates `CallContract`; the abstract
specifications are checked as properties. `TcpServer` extends `RpcDispatcher` and
takes of an I/O loop what `TaskExecutor` promises. `ProtobufCoder` composes the framing with
`TcpBuffer`: its reads and its moves of the read index are that module's.

**EventLoop.** `pc` follows `loop()`: `check` is the `while` condition, `swap`
the locked swap, `run` the batch in `temp_tasks`, `wait` epoll_wait, `dispatch`
the loop over `result_event`. `add_task` is private and has two kinds of callers,
so a task is either a registration change (`add`, `del`) or a handler (`io`). The
eventfd counter is abstracted to readable or not: epoll looks at nothing else, and
`while (read(...) != -1 && errno != EAGAIN)` empties it with its first read in
either case. `registered` and `interest` are the kernel's side, so that
`epoll_ctl` succeeds or fails as it would; the code only logs the failure. A
handler (`RunHandler`) does to the loop what handlers of this repository do:
nothing, register its `FdEvent` again with some mask, remove it, reopen its
descriptor after a refused connect, or stop the loop. No code installs an error
callback, so only the removal of the descriptor on EPOLLERR is modelled.
`posted`, `ran` and `idle` are ghosts.

**Timer.** `due[e]` is the number of ticks until `e` arrives (the code compares
arrive times only with each other and with now). `reset_arrive_time` is two steps,
the copy under the lock (`ResetSnapshot`) and `timerfd_settime` (`SetTime`), which
also forgets an unread expiration, as the system call does. `Grace` stands for the
100 ms used when the first event is overdue. `delete_time_event` ends the process
(see section 5). The wall clock of `get_now_ms` and the monotonic clock of the
timerfd are taken to advance together; a jump of the wall clock is not modelled.
`runs`, `revoked` and `stale` are ghosts.

**RpcCall.** One channel and a set of calls on it. `CallMethod` is one action for
each of its ends: not initialised, serialisation failure, and the three outcomes of
`connect`. It succeeds at once on a fresh or blocking socket, and also on one whose
handshake, begun for an earlier call, has just ended (`CallConnectsNow`): the earlier
call's handler may already be queued then, and both calls are written. It is in progress
on a fresh socket, and it fails with any other errno: EISCONN on a connected one,
EALREADY or the error of the handshake on a connecting one. Like the code, the model does
not look at why a `connect` failed, so `CallConnectFails` is possible in any state of the
socket. `batch` is what the loop has queued from one epoll_wait: each
handler runs as it was when it was queued, whatever the ones before it did. `on_write`
writes the out buffer from its beginning each time: a part of it, then the whole or
EAGAIN (`PartSent`, of which the peer finds the whole messages). The server answers each
request as it likes, and may send an answer again (`ServerRepeats`), as the repository's
own server does. `spent` marks a read callback that has reset its copy of the channel;
`crashed` is a use of it afterwards. `m_connect_error_code` is never cleared, as in the
code. Serialisation and the server's replies are data: an answer is `ok`, `error` or
`garbled`. A timer is `robbed` when the answer of another call cancels it, `cancelled`
when its own call's does. `answered` is what the server may repeat; `served` and
`repeated` are ghosts. A batch reads one message at a time, and a client that writes
after the server has closed gets no SIGPIPE (section 6). The ownership of the raw
controller pointer, which the code wraps in a second `shared_ptr`, is not modelled.

**TcpBuffer.** The vector is a sequence of bytes; `expected` is the ghost queue of
bytes put in and not yet taken out. An output buffer is used through
`write_to_buffer` and `read_from_buffer`, an input buffer through `on_read` and
`adjust_read_index`; `role` tells which. `refused` records that a `::read` has filled
the vector to its last byte, which `adjust_write_index` refuses.

**ProtobufCoder.** Frames are sequences of bytes (0 to 255) with the fields of
`encode_protubuf`, numbers in two's complement, most significant byte first, in `Width`
bytes (4 in the code). A turn of
`decode` is one step: `Frames` are the positions its search would accept, the first
is taken, the read index moves by the frame's length from where it was, and `Parse`
reads the fields from the copy of the vector as it was before. A length that has not
arrived reads what the vector holds there, zeros; `outside` is what a byte outside the
vector holds, which the code reads when a length of 0 makes the end of the frame fall
at index -1: either 0 or the end byte. `msg_id`, `method_name` and `error_info` are
copied into arrays of 100, 512 and 512 bytes and read from there up to a zero byte
(`CString`). Where the code's next step is not defined (`Defined`: a length that is
negative or does not fit in its array) a behaviour of the model ends, and
`DecodeIsDefined` is the property that none does. The overflow of
`i + pk_len - 1` for lengths near 2^31 is not modelled. A message without an id gets
one (`DefaultId`, one byte instead of nine).

**TcpConnection.** The unit is half a message: the head has the start byte, the length
and the id, the tail the rest up to the end byte, and all halves count as equally long.
`::read` and `::write` cut the stream after any half, and `::read` also within the
length of a head (`pc` is `cut`). `on_read` is one step per `::read`: one that leaves
room in `m_in_buffer` (`OnReadSome`), one that fills it, whose count
`adjust_write_index` refuses, so that the next read overwrites its halves (`OnReadFull`;
`lost` names the requests concerned), EAGAIN and the peer's close. `DecodeFrame` takes
the first head with a tail behind it, consumes two halves at the front even if the frame
was not there, and lets `adjust_buffer` move the data; where a lost half or a repeated
beginning has broken the framing, a message is made of the head of one and the tail of
another and is not `Intact`. `DecodeTurns` is the `decode` that never returns.
`ServerExcute` registers for OUT after every read, also when no message was whole.
`Report` is epoll_wait, after which the queued handlers run in order even if one of them
has closed the connection. `on_write` is a sequence of `::write` steps, each of which
takes everything, a part or nothing, so that the peer may execute and answer a request
while `on_write` is still in its loop. `on_write` never advances the read index of the
output buffer; the model keeps that. `clear()` does not close the descriptor, so a
client never sees the server close. Done callbacks are the repository's: they call
`read_message`. A client that closes with data unread, and data that reaches a closed
socket, lead to a reset (`reset`): epoll then reports EPOLLERR, for which the loop
deletes the descriptor from epoll (`eventloop.cc:162`) until the next registration, and
a `::write` ends the server (`killed`): nothing ignores SIGPIPE, and after an ECONNRESET
`on_write` writes again.

**Logger.** Application threads log, call `sync_loop`, `log` and `stop` at any time;
`Loop` is the consumer. `push_log` holds the spin lock and `sync_loop` holds
`Logger::m_mutex`, so nothing keeps them from using `m_buffer` together: such a state
(`BufferRaced`) is undefined behaviour and is where a behaviour of the model ends, as
for the queue of batches (`QueueRaced`). `sync_loop` copies `m_buffer` and swaps it with
the copy, which leaves it as it was; the model keeps that, so a message can be in many
batches. `Unlock` does what `pthread_mutex_unlock` of a normal mutex does for a thread
that does not hold it: it releases it (`stolen`). A vector of messages is the set of
them; a file becomes too large at some batch. `Restart` ends the process at any step;
the files stay. Spurious wakeups are left out: the `while` around the wait makes them
look like a wait that has not begun. `accepted`, `delivered`, `unwritten`, `past` and
`stolen` are ghosts.

**TcpServer.** `main` follows the constructor, `start` and `on_accept` of the main
thread; `thread` and `started` are the two semaphores. Clients can connect from the
beginning, since the acceptor listens before the threads are created. Sizes read by
`get_io_thread` are those of a queue that another thread changes: the posted
registrations, and up to two handlers for each connection the loop serves; a better
thread's is read twice (`ScanThreads`, `TakeThread`). The kernel gives the lowest free
descriptor from `work.first_fd` on; `clear()` does not close one (`ClientGone`), so
descriptors run out. `accept` exits for that and for any other error. `event` is the
descriptor of the `FdEvent` that the table returned, -1 beyond its end, where the code
uses what lies there or ends the process. The process also ends by the `::write` of a
reply to a client that has gone (`Sigpipe`), and by a loop that is asked for its size
before its thread has made it, a null pointer (`Ends`). A decoder that does not come
back keeps its thread (`Turn`). Services and the names in requests are sequences of the
parts between dots; `registered` is a ghost.

## 3. Runs

| Run | Expectation | What it shows |
|---|---|---|
| `eventloop` | pass | `BacklogInOrder`, `HandlerQueuedOnce`, `ListenFdsMatchEpoll`, `IdleWakeupNotLost`, refinement of `TaskExecutor` |
| `eventloop_live` | pass | `EveryPostedTaskRuns`, `StopEndsLoop` under fairness |
| `eventloop_wakeup` | violation | a wakeup can be swallowed (finding 1) |
| `timer` | pass | `NoEventForgotten`, `ArmedForEarliestOfCopy`, `OneShotRunsOnce`, `CancelIsFinal`, and under fairness `EveryEventRuns` |
| `rpc_call` | pass | `ClosureAtMostOnce`, `ClosureToldTruth`, `NoUseAfterReset` for calls made one after the other, with batches, partial writes and repeated answers; refinement of `CallContract`; `EveryCallSettles` |
| `rpc_call_shared` | violation | calls that overlap run a closure twice (finding 2) |
| `buffer` | pass | `IndicesInBounds`, and `ContentIsExpected` until a read fills the buffer |
| `coder` | pass | `DecodedAsSent`, `DecodeIsDefined`, and under fairness `EveryMessageDecoded`, for messages that hold neither a frame nor an end byte with a start byte behind it |
| `connection` | pass | `NoReplyDropped`, `FirstExecutedInOrder`, `ClosedIsQuiet`, and under fairness `EveryMessageAnswered` |
| `connection_resend` | violation | a second message sends the first again (finding 3) |
| `logger` | pass | `RaceOnlyAfterTheft`, `NoMessageLost`, `BatchesInOrder`, `OneBatchPastLimit`, and under fairness `EveryBatchWritten` |
| `server` | pass | `OwnEvent`, `RequestReachesMethod`, and under fairness `EveryClientServed` |

### Bounds

- `eventloop`: two callers (interchangeable, so symmetric), one descriptor beside
  the eventfd, two epoll events at once, three posted tasks. Three are needed: one
  whose wakeup is being handled, one whose wakeup that drain swallows, and one
  posted to the sleeping loop behind it. `MaxPosts` bounds the only counter; the
  theorems cover any number. `eventloop_live`: one caller, two tasks, no symmetry.
- `timer`: two events (one tick and three ticks, the second repeating), the loop
  thread and one other thread, `Grace` of two ticks. Overtaking needs two setters
  and two events with different arrive times. Callback runs are counted up to
  `RunsBound` = 2, enough to see a second run.
- `rpc_call`: two calls, so that a call can follow one that failed or timed out, or
  connect while the handshake of the first still goes on. `MaxWire` is three messages in
  each direction, so that a beginning of the buffer can go ahead of both calls. Closure
  runs are counted up to 2. `rpc_call_shared`: two calls, two messages.
- `buffer`: two byte values, pieces of up to three bytes, an initial vector of six
  and `MaxSize` 18: several growths and compactions follow each other. The
  fractions 1/3 and 3/2 of the code already round at these sizes.
- `coder`: three messages of two kinds: one with every kind of field that a request
  has and with start and end bytes in its data, one with empty fields and without an
  id. Numbers have two bytes instead of four, which keeps frames at 16 to 18 bytes;
  a number that arrives in part, the case that matters, exists with two. The buffer
  has 64 bytes: `adjust_buffer` compacts it after the second frame, and no read
  fills it (that is the subject of `buffer` and `connection`). The messages are
  `Decodable`, as the theorems of section 4 ask, and hold no end byte with a start byte
  behind it, as `EveryMessageDecoded` asks: TLC evaluates `InstancesDiffer`, which also
  has messages that lack one or the other.
- `connection`: one of two links (`Links`), chosen at the start. Three messages over
  send buffers of six halves into input buffers of four, of which a read may use three:
  here reads fill the buffer and lose their halves, writes end within a message, EAGAIN
  and repetition occur, framing breaks and mends, `decode` turns on both sides, and the
  server dies by SIGPIPE; no `::write` begins once six halves were sent. Two messages
  over buffers that no exchange can fill: the client sends at most six halves (the first
  message again with the second), the server answers after every read with all its
  replies, at most 36. `EveryMessageAnswered` is about this one (`Roomy`), and its bound
  of 50 is never reached. `connection_resend`: two messages, 12 halves.
- `logger`: two workloads (`Loads`), chosen at the start. Two threads, one day, no
  restart, for what the locks do: a second unlock releases another thread's mutex with
  two. One thread, two days, one restart, for the files. Two batches in a run show
  their order and the first roll-over and the batch after it; one message is logged, and
  the consumer's own makes the second.
- `server`: three I/O threads, so that a choice is made among more than two sizes, a
  table of four entries (128 in the code) and descriptors below 8, in three workloads.
  Five clients that come and go with four descriptors from 4 on, so that `accept` fails
  and the table grows (4, 6, 9). Two clients with two requests, names with no, one and
  two dots, services with and without a package registered or not. Three clients whose
  first descriptor, 6, the first growth of the table does not reach, until it has grown
  for the second one.

Deadlock is checked except for the connection and the coder, where an exchange
simply ends, the logger, where a behaviour ends with undefined behaviour or a stopped
consumer, and the server, which exits or waits for clients.

### Fairness

- `EventLoop`: weak fairness of the loop thread. It is a running thread, and its
  only blocking call, epoll_wait, returns after 10 s. Nothing is assumed of the
  callers, nor that anybody calls `loop()`.
- `Timer`: time passes, the loop thread runs, a thread inside `reset_arrive_time`
  leaves it.
- `RpcCall`: time passes, and the loop takes what epoll reports and runs what it has
  queued. Nothing is assumed of the server, the socket or the program.
- `ProtobufCoder`: the receiver's loop reads what has arrived and decodes it. Nothing
  is assumed of the sender.
- `TcpConnection`: the accepting thread and the two loops run, unless one turns in
  `decode`. Nothing is assumed of the user who writes messages or closes.
- `Logger`: the consumer runs, and a thread that has called the logger leaves it; both
  are running threads that block only on locks held for a few statements and on the
  condition variable. Nobody has to log, and time need not pass.
- `TcpServer`: the main thread (which calls `start`) and the I/O threads run. Nothing is
  assumed of the clients.

## 4. Proofs

TLC checks the instances of section 3; the theorems below hold for every value of the
constants that satisfies the named `ASSUME`s of the module, which TLC evaluates on each
run. Every property has the same shape of proof: an inductive invariant that implies
it, one lemma that a step keeps the invariant with a case per action, and a temporal
step. TLC has checked each inductive invariant on the module's run, too.
Assumptions about finite sets, distinct names and non-empty sizes only say what the
code's types say; the ones that say more are explained with their module.

`EventLoopProofs`, for any set of callers, any finite set of descriptors, any
`MaxEvents` > 0 and any `MaxPosts`:

- `TypeCorrect`: `Spec => []TypeOK`.
- `PostedTasksInOrder`: `Spec => []BacklogInOrder`. The sequence
  `temp_tasks \o m_pending_tasks` holds exactly the posted tasks `ran + 1 .. posted`,
  in order, among any number of handlers. By itself this is not inductive: `swap`
  keeps it only because `temp_tasks` is empty then, and popping keeps it only for a
  well-typed queue. `OrderInv`, inductive relative to `TypeOK`, adds
  that `temp_tasks` is empty whenever `pc` is not `run` (`TempInv`) and
  `ran <= posted`. Lemmas about `InOrder` say what appending a posted
  task, appending handlers and removing the head do.
- `LoopImplementsExecutor`: `Spec => Executor!Spec`. Every step of the loop is a
  step of `TaskExecutor` or leaves its variables alone; running a posted task is
  the abstract run because `OrderInv` makes the head of the queue task `ran + 1`.
- `EpollRecordIsRight`: `ListenFdsMatchEpoll`, inductive relative to `TypeOK` without
  a strengthening.
- `WakeupReachesWait`: `IdleWakeupNotLost`. `WakeInv` says what a wakeup rests on: the
  eventfd stays registered for input, no error is reported for it, no posted task is
  about it, and a task posted to a sleeping loop is out of `m_pending_tasks` before
  `run`, and comes with a readable eventfd as long as the loop waits.
- `NoHandlerTwice`: `HandlerQueuedOnce`. `QueueInv`: besides the handlers being distinct,
  only posted tasks are in `m_pending_tasks` when the loop waits or runs a batch, and the
  events not yet dispatched have distinct descriptors, none with a handler in the backlog.

`TimerProofs`, for any threads, events, intervals > 0 and `Grace` > 0:

- `TimerTypes` (`TypeOK`, with `TimerInv`: a thread on its way to `timerfd_settime` has
  an event to set it for) and `WaitingEventIsWatched` (`NoEventForgotten`, inductive
  relative to `TimerInv`: every thread that leaves an event unwatched is still inside).
- `CancelledIsNotCollected`: `CancelIsFinal`. `CancelInv` adds that a revoked event has
  `m_is_cancel` set.
- `OneShotsRunOnce`: `OneShotRunsOnce`. `OnceInv`: an event that does not repeat is in one
  place at most, in the multimap or among the callbacks to run, and then has not run.
- `DeadlineIsFirst`: `ArmedForEarliestOfCopy`. It needs that only added events wait
  (`AddedInv`), so that `add_time_event` never changes the arrive time of an event that
  waits already, and that the multimap has a first event: the least element of a set of
  numbers, from the well-founded order of finite sets (`LeastNumber`).

  `Timer` filters with its own `Kept`, because `SelectSeq` is defined by recursion and
  nothing can be proved about it; lemmas say what `Kept` keeps and how often.

`TcpBufferProofs`, for any bytes, initial size > 0, pieces and bound: `BufferTypes`,
`NoIndexOutside` (`IndicesInBounds`) and `ContentKept` (`ContentIsExpected`). The three
together are inductive once `BufferInv` adds that an input buffer is never full
(`adjust_write_index` refuses the index equal to the size, so `on_read`'s doubling is
unreachable), and, for the coder, that what lies behind the write index is zero until a
read is refused (`Blank`). Lemmas say that copying a piece of any length, compacting and
resizing keep what is between the indices and what is behind them.

`ProtobufCoderProofs`, for any messages, numbers of 1 to 4 bytes, any size of the
buffer and any number of messages sent. `MessagesAssumption` says that the length of each
frame and each error code is an `int32_t`, as the code's types do.

- `CoderTypes`: `Spec => []TypeOK`, whatever the messages; no run checks it. The
  buffer's part of `TypeInv` is `BufferInv` of `TcpBufferProofs`, taken as an instance:
  each step of the coder is a `Fill`, an `AdjustReadIndex` or a stutter of that buffer.
- `DecodedInOrder` (`DecodedAsSent`) and `DecodeDefined` (`DecodeIsDefined`), under the
  hypothesis that every message is `Decodable`. Its parts are what the code relies on:
  the text fields fit in their arrays and hold no zero byte, which would end the C
  string early; and no start byte inside the encoded frame is followed by a number that
  puts an end byte in front of the frame's end (`HoldsNoFrame`). The hypothesis is
  necessary: with `MCNested` of `MCProtobufCoder` for `Messages`, whose data holds a
  small frame, TLC finds `DecodedAsSent` violated (section 5). `StreamInv`: there are
  remainders `rest[0], rest[1], ..` of everything sent, each the next frame followed by
  the next remainder and the last one empty, and what the buffer holds followed by what
  is on the wire is the remainder behind the messages delivered. `Turn` is the lemma
  about `decode`: in such a state the first position that its search accepts is either
  the beginning of a whole frame, which `Parse` gives back field by field, or the read
  index or a later one with a length of 0, and then nothing is consumed and nothing
  delivered. Below it, in order: a number survives `Int32` and `GetInt32`
  (`NumberOfInt32`); one of which a byte has not arrived is 0 or at least 256
  (`LargeNumber`), so that its frame would end behind what has arrived; the fields lie
  where `Layout` looks for them (`EncodeIs`, `LayoutIs`, `ParseIs`); a whole frame is
  found (`WholeFrameFound`), and in an incomplete one nothing but a length of 0 is
  (`NoOtherFrame`).

  `Number` and `Shifted` are recursive functions over the digits; `StepByStep` and
  `Upwards` replace induction, with the least element of a set of numbers.

`RpcCallProofs`, for any set of calls:

- `CallTypesHold`, `ClosuresToldTruth` (`ClosureToldTruth`) and `ResetChannelIsNotUsed`
  (`NoUseAfterReset`), also when calls overlap and several of them connect. `CallInv`
  joins them with four parts. `BatchInv`: a batch holds at most one handler of the OUT
  event, the one of when it was queued, and `on_write` only once the socket is
  connected. `WireInv`: a call waits for its connect, or is written, and only then sent,
  answered and read. `SentOnce`, which is what keeps the released channel from being
  used: unless something was sent again (`repeated`), either nothing has been sent yet
  (`Unsent`), or `on_write` has run, all at once, and never runs again (`Sent`), since
  every later `connect` of a connected socket fails and the error code which that leaves
  is never cleared. `CallTimerInv`: how timer, controller and closure of a call go
  together. The lemma `CallSteps` reduces every action to a few effects on the calls.
- `ClosureRunsOnce` (`ClosureAtMostOnce`) and `ChannelImplementsContract`
  (`ImplementsContract`: every step is a step of `CallContract` or a stutter), under
  `Overlap = FALSE`, calls made one after the other. `OnceInv`: a pending timer
  is the one in `m_timer_event`, and its closure has not run. The hypothesis is necessary:
  `rpc_call_shared` violates the property without it (finding 2).

`TcpConnectionProofs`, for any number of messages, any capacity and input buffer
greater than 0, any bound of the links, closing clients or not:

- `ConnectionTypes`: `TypeOK`, which includes that consumed and unconsumed halves leave
  room in the input buffer, so that `on_read`'s doubling is unreachable here too.
- `ClosedServerIsQuiet`: the action property `ClosedIsQuiet`. `QuietInv`: before its
  registration has run the server's end listens to nothing and has no handler queued, a
  closed end has been registered, and only a connected end is inside a handler.
- `FirstExecutedKeepsOrder`: `FirstExecutedInOrder`. The client's out buffer is `1, 2,
  ...` (`NumberInv`), since nothing is taken out of it, and every `::write` sends a
  prefix of it, in halves. `OrderInv` looks at what the server may still decode, its
  input buffer followed by what is on the way: before the head of a message
  (`HeadsInOrder`) every smaller message is there as a whole, or was decoded intact, or
  has lost a half; what was executed or decoded is in that order too (`DecodedInOrder`).
  Taking the first frame keeps this even where the length consumed is not that of the
  frame found: all heads in front of it are without a tail then (`DecodeInOrder`). A
  read that fills the buffer keeps it because `lost` grows by every message of which it
  takes a half (`FullReadInOrder`).
- `EveryReplyFindsItsCallback`: `NoReplyDropped`. `CallbackInv` is the way back from a
  reply: whatever is under way, on either side, is of a message in the client's out
  buffer (`Within`, `Known`), and from there it is a step to a registered callback or to
  the `on_write` that registers it before it returns.

`TcpServerProofs`, for any number of threads, clients, descriptors and first descriptor, a
table of any size from two on (a table of one would not grow), any services and requests:

- `ServerTypes` and `EventsAreOwn` (`OwnEvent`). `FdInv`: the descriptors of `m_client`
  are the lowest ones, in that order, so that the next is the lowest free one.
  `TableInv`: the table is the `FdEvent`s of 0 to `m_size - 1`, and holds all
  descriptors given out or has missed every one so far, which happens only where the
  first one lies behind one growth (`Overshoot`): once the table holds a client's
  descriptor, growth by half is always enough for the next.
- `RequestsReachMethods`: `RequestReachesMethod`, that a request reaches no wrong method
  for any services, and that it reaches the right one for services without a package.
  `ReachInv`: the map holds of each name the service registered last, and each reply is
  `dispatcher`'s for its request; the lemma `DispatchIsRight` says of the operators of
  `RpcDispatcher` what this reply is, for names of any number of parts.

`LoggerProofs`, for any finite set of threads, workloads of at least one day, level and
number of messages. The proofs rest on the types and on where a thread has a batch at
hand (`LoggerInv`).

- `BatchesKeepOrder`: `BatchesInOrder`, inductive relative to `LoggerInv`.
- `QueueRaceNeedsTheft`: `RaceOnlyAfterTheft`. `MutexInv`: as long as nothing is `stolen`,
  whoever is between `lock` and its first `unlock` owns the mutex.
- `MessagesKept`: `NoMessageLost`. `SpinInv`: a thread inside `push_log` owns the spin
  lock, so that only the last message can be on its way (`NoLoss`).
- `OneBatchPast`: `OneBatchPastLimit`. `PastInv`: the files of today that `m_number` has not
  left behind, and those of later days, got nothing while too large.
  `WritesAreCounted` shows that the count misses no write.

What is only model-checked, and why:

- all liveness (`EveryPostedTaskRuns`, `StopEndsLoop`, `EveryEventRuns`, `EveryCallSettles`,
  `EveryMessageDecoded`, `EveryMessageAnswered`, `EveryBatchWritten`, `EveryClientServed`):
  fairness and ENABLED are beyond TLAPS;
- the three findings, which are counterexamples.

## 5. Findings

1. `eventloop.h:136` says a posted task wakes epoll_wait quickly. The eventfd's
   handler runs an iteration later and drains wakeups that came after it was
   queued: the loop can sleep in epoll_wait with a posted task for up to 10 s.
   A task posted while the loop is already in epoll_wait is never affected
   (`IdleWakeupNotLost`), and the timeout repairs the rest (`EveryPostedTaskRuns`).
2. `rpc_channel.cc:141`: the read callback cancels the channel's current timer,
   which belongs to the latest call; the timeout of an earlier call then runs its
   closure a second time.
3. `tcp_connection.cc:288`: `on_write` never consumes the output buffer, so each
   message sends all earlier ones again and the server executes them again; after
   a partial `::write` the same code sends the beginning again instead of the rest.

Seen while translating, and part of the models without a run of their own:

- `timer.cc:131` calls `timerfd_settime` without the lock, on a copy of the multimap;
  a thread with an older copy can set it last, for a later event than the first one
  (`timer.cc:150` says the timer has to be changed for an earlier event).
  `ArmedForEarliestOfCopy` holds because it excepts exactly that case (`stale`), and
  `EveryEventRuns` shows that no event is lost by it: one can run late.
- `tcp_buffer.cc:81`: `adjust_write_index` refuses an index equal to the size of the
  vector, so a `::read` that fills the buffer is not recorded and its bytes are
  overwritten; the branch of `on_read` that doubles the buffer is never reached,
  although `tcp_connection.h:84` says everything is read. `ContentIsExpected` excepts
  exactly that case (`refused`), and `IndicesInBounds` holds in it. Between two ends of
  a connection it means that requests are lost: a server reads into 128 bytes
  (`tcp_server.cc:73`), and three requests of 66 bytes make it execute the first, then
  the third, and never the second, since the second `::write` carries 132 bytes.
  `FirstExecutedInOrder` excepts the requests that lost a half so (`lost`), and
  `EveryMessageAnswered` is about links where no read can fill the buffer (`Roomy`).
- `protobuf_coder.cc:62` reads the four bytes of a length as soon as one of them has
  arrived. Zero bytes give length 0, the end byte is then looked for in front of the
  frame, where the previous frame's end byte is, and `decode` turns for ever without
  consuming anything: `EveryMessageDecoded` excepts this as `Looping`, and
  `EveryMessageAnswered` and `EveryClientServed` except an end or a thread that turns.
  The same happens inside the data of a single message where it has an end byte and a
  start byte right behind it, and the read ends inside the four bytes behind those, when
  the ones that have arrived are 0: `decode` turns in the middle of a frame that would
  be decoded if it waited. The comment on line 45 has exactly such data in mind.
  `Looping` does not excuse this: with `MCPair`, whose `pb_data` is `<<3, 2>>`, TLC
  finds `EveryMessageDecoded` violated, and the property is about messages without such
  a pair (`HoldsNoPair`).
- `protobuf_coder.cc:88` moves the read index by the length of the frame found, from
  the old read index, not from where the frame was found. The comment on line 45 has
  start and end bytes inside the data in mind, and relies on the length. If the data of a
  message holds the bytes of a small frame and a read ends between it and the end
  of its own frame, the inner one is taken, the outer frame loses its beginning and its
  message is never delivered: with `MCNested`, whose `pb_data` is `<<2, 0, 4, 3>>`, TLC
  finds `DecodedAsSent` violated within 13 steps. Without such data all is well
  (`DecodedInOrder`), and the run `coder` sends none.
- After a partial `::write` the rest is not sent, but the whole again: if the part ended
  within a message, its head is followed by the head of the first, and the peer makes
  messages of pieces. `TcpConnection` has such messages (those that are not `Intact`); what
  they hold is not specified.
- The read callback of a call stays registered after it has reset its channel
  (`rpc_channel.cc:163`): an answer that comes twice, as the repository's own server sends
  it when it is asked a second time on a connection or when it was interrupted by EAGAIN,
  dereferences a null pointer. `NoUseAfterReset` says that only such an answer, or a
  request of which a part went ahead, leads to it.
- Calls that overlap on one channel: the answer of one cancels the timer of the other
  (finding 2), whose own answer may never come; `EveryCallSettles` excepts the call whose
  timer was `robbed`. A call that fails because an earlier `connect` was refused
  (`tcp_client.cc:87`, never cleared) counts as settled.
- A failed `::accept` ends the server whatever the error (`tcp_acceptor.cc:66`), for
  example when a client has left the queue already, and a SIGPIPE does, too.
  `EveryClientServed` excepts the end of the process for these reasons.
- `is_looping()` stays true after `loop()` has returned (`eventloop.cc:102`), so
  `TcpClient::connect` never runs a stopped loop again.
- `delete_time_event` locks a `unique_lock` that already owns its mutex
  (`timer.cc:185`), which throws.
- An answer with an error code, or one that cannot be parsed, cancels the timer of the
  call and returns without running the closure (`rpc_channel.cc:151`): a caller learns
  of it from the controller only, which is what `EveryCallSettles` and `CallContract`
  say.
- `mutex.h:41`: `unlock()` does not clear `m_is_lock`, so `~ScopeMutex` unlocks a second
  time. Between the two another thread may have locked: its critical section is then
  open. `RaceOnlyAfterTheft` shows that this is the only way to a race for the queue,
  `EveryBatchWritten` excepts it.
- `log.cc:84` gives the timer of `sync_loop` to the temporary `EventLoop` that
  `Get_Current_Eventloop()` returns, and nothing calls `log()`: no batch is made and
  `m_buffer` only grows. `log.cc:41` copies where the comment of `sync_loop`
  (`log.h:196`) has the buffer moved. `stop()` (`log.cc:320`) does not wake the consumer.
- `log.cc:280` forms the name of the next file with `m_number++`: the first roll-over
  opens the file that is too large again and appends one more batch
  (`OneBatchPastLimit`), where `log.h:95` has files roll from one number to the next.
- `rpc_dispatchor.cc:188` splits a name at its first dot, `register_service` uses the
  full name: a service in a package cannot be called. `RequestReachesMethod` does not
  ask that it can; it asks that nothing else is called in its place. A reply that cannot
  be serialized is reported as `ERROR_SERVICE_NOT_FOUND` (`rpc_dispatchor.cc:132`)
  although `ERROR_FAILED_SERIALIZE` exists.
- `io_thread_group.cc:24` says the loop with the fewest descriptors is chosen; what is
  compared is the number of pending tasks. `m_client_counts` (`tcp_server.h:61`, the
  number of current connections) is never decremented and not read.
- `fd_event_group.cc:27` grows the table once per lookup. That is enough if the first
  descriptor of a client is below 192, since descriptors are given out in order. A
  server with so many I/O threads that their loops use more (three descriptors each)
  indexes the table beyond its end with its first client, and with each following one
  until the table has caught up. `OwnEvent` excepts these connections (`Overshoot`) and
  no other.

## 6. Not modelled, and the plan

Out of scope: the vendored XML parser, generated protobuf code, configuration and
address parsing, which keep no changing state. `StringCoder`, an echo coder of an
earlier stage. `MsgIdUtils`, a decimal counter private to its thread: only the
wrap-around after about 10^20 ids is doubtful (`msg_id_utils.cc:37`). Destructors,
`join`, `shutdown` and `RpcController::Reset`, which no path of the library or its
programs reaches while the system works. Failing system calls other than `connect`,
`accept`, `write` and `epoll_ctl` (a failing `fopen` in `log.cc:273` is followed by
`ftell` of a null pointer). In `RpcCall`, the SIGPIPE of a client that writes after the
server has closed, which ends the client's process (`TcpConnection` has that of the
server). The lazy creation of `RpcDispatcher` and `FdEventGroup` without a lock: a
server that registers a service creates the first before its threads serve, and only one
thread looks up `FdEvent`s. The second `shared_ptr` that `IOThread::Main` makes of its
object (`io_thread.cc:56`): `Main` does not return while the server runs. A jump of the
wall clock.

Every component with changing state has a module. What would come next, were the code to
change or the model to grow: done callbacks that write, in `TcpConnection` (the
repository has none), and the loop of `decode` with lengths near 2^31.
