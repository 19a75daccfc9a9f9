# TLA+ verification of myproj

This directory holds TLA+ models of the C++ library in `src/Base` and `src/net`
and of the programs built on it, the TLC configurations that check them on small
instances, and proofs, checked by TLAPS, of their most important properties for
every size. Line numbers below are those of the files in the repository;
`PROJECT.json` maps every definition of the models to its lines.

## 1. The system

The repository is a toolbox for a game-style server: worker threads, queues
between threads, pooled database connections, TCP sessions over boost::asio, and
some programs that try them out.

| Component | Files | State | Operations | Interacts with |
|---|---|---|---|---|
| task pool | `Base/ThreadPool.{h,cpp}` | `thread_vec_`, the atomic `cur_thread_idx_`, a queue per thread, the queue of finished tasks | `init`, `startAll`, `addNewTask`, `runInMain`, `joinAll`; `TaskThread::run` | SyncQueue, Thread; tasks call back in `work()` (worker) and `done()` (main thread) |
| thread loop | `Base/Thread.{h,cpp}` | `stopped_`, `thrd_ptr_` | `start`, `stop`, `join`, `thrdloop` | calls the virtual `run()` |
| queues with a stop flag | `Base/SyncQueue.h` | list, `need_stop_`, mutex (and two condition variables) | `put`, `take`, `stop` | used by the task pool |
| lock-free queue | `Base/MPSCQueue.h` | linked nodes, `_head`, `_tail` | `Enqueue`, `Dequeue`, destructor | TcpSession: strand to application thread |
| mutex queues | `Base/LockedQueue.h`, `Base/ProducerConsumerQueue.h` | deque, cancel flag, mutex | `add`, `readd`, `next`, `peek`; `Push`, `Pop`, `WaitAndPop`, `Cancel` | nobody yet |
| connection pool | `Base/ConnectionPool.h` | `pool_` of (`conn`, `in_use`, `last_used`) under one mutex | `grab`, `safe_grab`, `exchange`, `release`, `remove`, `shrink`, `clear`; `MyScopedConn` | RedisConn, MysqlConn; any thread |
| Redis connection | `Base/RedisConn.{h,cpp}` | `context_`, `config_` | connect, commands, `select`, moves, `isConnected` | hiredis |
| MySQL connection | `Base/MySqlconn.{h,cpp}` | `m_conn`, `m_inTransaction` | queries, `replaceAll`, `deleteWhereByKeys`, transactions | mysql++ |
| receive buffers | `net/Buffer.h` | list of buffers with read and write offsets, a pool of spare buffers | `emplace_back`, `read`, `write…`, `getBuffer`, `putBuffer` | TcpSession |
| TCP session | `net/TcpSession.{h,cpp}` | ring buffer, `parse_head_ok_`, `cur_header_`, message queue | `start`, `onReceive`, `parseToMessage`, `processReceivedMsg`, `sendMsg` | asio strand, application thread |
| accepting and connecting | `net/Accepter.cpp`, `IoContextPool.cpp`, `TcpClient.cpp`, `AsioTimer.h` | acceptor, `next_io_context_` | `startAccept`, `stopAccept`, `get_io_context`, `connect`, timer `start` | asio, `Chat/server1` |
| log file | `Base/Log.h`, `Base/TimeUtils.h` | open file, `current_hour_` | `sink_it_`, `open_file` | spdlog |
| server | `Chat/server1` | the acceptor, the timer | `init`, `run` | io_contexts |
| Redis programs | `my_hiredis/main.cpp`, `cppredis/main.cpp` | a connection | `ns_async` on the task pool; the others by themselves | hiredis, cpp_redis |
| stock program | `mysqlppexe` | `stock_vec` | read a file, empty a table, fill it, load it | MysqlConn, connection pool |
| compression | `Demos/compress.cpp` | a `z_stream` per call | `compress`, `decompress` | zlib, zstd |
| the rest | `Shared/protos`, `Demos/siphash.cpp`, `Demos/Encrypt.cpp`, `boost_redis`, `Base/Singleton.h`, `Misc.h` and other helpers | | | not modelled, see section 6 |

What is hard about it:

* *Interleaving.* `addNewTask` draws a thread and puts the task in two steps;
  `Enqueue` publishes a node in two atomic accesses; `safe_grab` and `exchange`
  give the pool's lock up between their calls.
* *Batches.* A task goes through the queue of its thread, a private list, the
  queue of finished tasks and another private list. Whatever is dropped,
  duplicated or reordered on the way is invisible to a test that runs one task.
* *Memory.* Queue nodes and connections are deleted while others still hold
  their address, and addresses come back.
* *Failure.* `work()` and `done()` may fail or throw (RedisConn throws on every
  failed command), the constructor of a connection may throw under the pool's
  lock, connections break while they are idle.
* *Numbers.* The thread index starts uninitialised and wraps at 2^32; the index of the
  io_contexts starts uninitialised and is never brought back into range; lengths are
  narrowed to 16 and 32 bits.
* *Ending.* `joinAll` waits for threads that nobody stops; `start` after `stop` may start
  nothing; `SyncQueueBlocking` lets nobody through before `stop`.
* *Moving and copying.* Moves of a RedisConn leave its configuration behind; copies of a
  Message carry a length without the memory.

What makes each component correct:

* task pool: a submitted task is worked on once, on one thread, in the order of
  its thread, and gets its `done()` once, in that order; tasks are spread evenly;
  none is forgotten;
* lock-free queue: one order of items that respects every producer, no item
  lost or repeated, no access to freed memory, no leak;
* connection pool: a connection has one holder; none in use is closed; none is
  lost; the number of connections is bounded by the number of holders; expired
  ones are never handed out;
* buffers and session: the bytes come out in the order they came in, a message is
  handed over exactly when its header and body are complete;
* MySQL connection: every row is in exactly one statement and every statement fits
  in a packet; a transaction does not outlive its holder;
* waiting queue: nobody sleeps while there is an item for it; `Cancel` ends every wait;
* log file: a line is in the file of its hour, or of that hour of an earlier day;
* thread: `stop` ends the loop, and `join` after it returns;
* stopped queues: nobody stays blocked, and what is let in late is bounded;
* Redis connection: every context has one owner, and a configured object talks to its
  database, also after it connected again;
* Message: the body that was written is the body that is read;
* server: until `stop` it goes on accepting, whatever fails;
* programs: what they read back is what they wrote, or an error is reported.

## 2. Modules

| Module | What it is |
|---|---|
| `TaskLanes` | abstract: FIFO lanes of tasks with callbacks |
| `TaskPool` | TaskPool, TaskThread, the loop of Thread and SyncQueue as the pool uses it |
| `TaskPoolProofs` | theorems about `TaskPool` |
| `MessageQueue` | abstract: a queue with one order, in which an item may still be on its way |
| `MessageFifo` | abstract: the queue as a sequence, for one sender at a time |
| `MPSCQueue` | MPSCQueueNonIntrusive, access by access |
| `MPSCQueueIntrusive` | MPSCQueueIntrusive, access by access, shown to implement `MessageQueue` but for its empty answers |
| `MPSCQueueProofs` | theorems about both lock-free queues |
| `ConnLease` | abstract: connections lent to one holder at a time |
| `ConnPool` | MyConnPool and MyScopedConn over connections that break |
| `RedisConn` | RedisConn objects over contexts: connecting, failing, moving, selecting |
| `ConnPoolProofs` | theorems about `ConnPool` and `RedisConn` |
| `RingBuffer` | RingBuffer, BaseBuffer and BufferPool, loop turn by loop turn |
| `MessageBuffer` | Message: constructors, copies, moves, writing and reading of the body |
| `MessageStream` | abstract: messages handled in order, none before its last byte arrived |
| `TcpSession` | the receiving side of TcpSession, on top of `RingBuffer` |
| `RedisTasks` | the program `ns_async`: `TaskPool` and `ConnPool` together, over Redis |
| `RedisTasksProofs` | theorems about `RedisTasks` and `RedisPrograms` |
| `RedisPrograms` | the other programs that use hiredis, RedisConn and cpp_redis |
| `MysqlBatch` | `replaceAll()` of MysqlConn |
| `MysqlTransactions` | transactions of MysqlConn over pooled connections |
| `StockProgram` | the program `mysqlppexe` |
| `MysqlBatchProofs` | theorems about `MysqlBatch`, `MysqlTransactions` and `StockProgram` |
| `ProducerConsumerQueue` | the queue of that name with its waiting consumers |
| `SyncQueue`, `SyncQueueBlocking`, `LockedQueue` | the other queues with a mutex |
| `ProducerConsumerQueueProofs` | theorems about the queues with a mutex and `ThreadLifecycle` |
| `ThreadLifecycle` | Thread: start, stop, join and the loop |
| `Server` | server1 with IoConnectPool, TcpAccepter, AsioTimer and AsyncClient |
| `NetProofs` | theorems about `MessageBuffer`, `RingBuffer`, `TcpSession` and `Server` |
| `TimeUtils` | the calendar arithmetic of TimeUtils.h, in 32 bits where the code is |
| `HourlySink` | MyHourlyFileSink on top of `TimeUtils` |
| `Compression` | the compression programs, buffer turn by buffer turn |
| `HourlySinkProofs` | theorems about `HourlySink`, `TimeUtils` and `Compression` |
| `MC…` | small instances for TLC, with one `.cfg` per run |

An `MC` module that instantiates several modules has a variable `part`: it names the one
that a behaviour is about, and the variables of the others rest in their initial states.
The state space is the sum of theirs, not the product, every property is checked on its
own part, and what is fair is either never enabled in a part that rests or names `part`.
What a theorem is about are the instances in an `MC` module before any constant has a value:
their sets and bounds (`Sender`, `Node`, `Dummy`, `Msg`, `Conn`, …) are CONSTANTS of the
`MC` module, with the assumptions that the code justifies, and get small values in the `.cfg`.

### TaskPool

`task_queue`, `task_list`, `working`, `task_done` and `main_list` are the five
places a submitted task passes through: the thread's SyncQueue, the local list of
`run()`, the task whose `work()` is running, the queue of finished tasks and the
local list of `runInMain()`. `Draw` is `getThread()`, `Put` is `addTask()`; `Take`,
`Work`, `AddDone`, `WorkFails`, `WorkThrows` are the turns of the loop in `run()`;
`TakeDone`, `Done`, `DoneThrows` those of `runInMain()`; `StartAll`/`StartThread`
and `JoinAll` the rest. `put` and `take` are single steps because SyncQueue does
them under its mutex. A null task is allowed, as in the code: `addNewTask` returns
true and queues nothing. An exception out of `work()` ends the process (`alive`);
one out of `done()` unwinds `runInMain()`, whose remaining batch is released
(`dropped`). `called`, `assigned`, `draws` and `wraps` are history variables for
the properties; no guard but the bound `MaxDraws` reads them. `cur_thread_idx`
starts anywhere, because nothing initialises it, and wraps at `IdxModulus`, which
stands for 2^32.

`Lanes` maps it to `TaskLanes`: the lane of a thread is its local list followed by
its queue, the finished tasks are the main thread's list followed by `task_done`,
and a task that has drawn its thread but was not put yet is still fresh.

### MPSCQueue

One action per access to shared memory: `NewNode`, `Exchange`, `Link` of
`Enqueue`; `LoadNext`, `ReadData`, `DeleteTail` of `Dequeue`; `Close` and
`DeleteFront` of the destructor. (`result = next->Data` and the store of `_tail`
are one step, as no other thread reads either.) Nodes are addresses; `new` takes
any address that is not live, `delete` makes it available again, and what was at
an address stays there. The interleaving semantics is that of the code because
the exchange is acq_rel and the link is stored with release and loaded with
acquire. As in TcpSession, one thread dequeues. The destructor runs when no
`Enqueue` is under way; that is the caller's duty in C++.

`chain`, `sent`, `place` and `taken` are history variables. `Queue` maps to
`MessageQueue`: an item is *sent* at the exchange and *on its way* until its link
is stored; an empty answer is right only if nothing is left or the oldest item is
on its way.

### ConnPool

Every member function of the pool keeps the mutex from its first to its last look
at `pool_`, so it is one action: `Grab` (remove the expired, hand out the one used
last, or create one, or let the constructor's exception through), `Release`,
`Shrink`, `Clear`. `safe_grab` is the loop `SafeGrab`, `Check`, `Discard`, and
`exchange` is `ExchangeRemove` followed by `ExchangeGrab`; other threads come in
between. `Break` is a failed command, after which hiredis has `err` set;
`Reconnect` is `checkConnection()` of `command_v` and `command_argv`. Connections
are addresses that may come back. The pool's list is a set, as its order only
decides between entries of equal age. `torn` records that `clear()` destroyed a
connection in use; the singleton's destructor is the only caller in the
repository. From then on a stale pointer may equal the address of another holder's
connection, and `Exclusive` promises nothing any more, while `PoolAccounted` still
holds.

For MysqlConn the same module applies with `MaxBreaks = 0`: its `isConnected()` is
always true.

### RedisConn

`ConnPool` sees a connection break and connected again; this module follows the contexts.
`Construct`, `Destroy`, `Command`, `CheckedCommand` (a `command_v` or `command_argv`
that has to connect), `Select`, `MoveConstruct` and `MoveAssign` are the member functions;
a context is `good`, `bad` (its `err` is set) or `free`. `connect()` does not free what it
replaces, so a bad context may stay behind without an owner, and it ignores the answer to
SELECT, so the object may be on database 0: `strayed` remembers that, as well as what the
holder selected. `config_` does not move with the object. A command on a moved-from object
uses a null pointer (`crashed`).

### RingBuffer

Byte number k of the stream is the number k, so order and loss can be read off the
values. `buffers` and `buffer_pool` are the two lists, `data` and `rd` the contents
up to `wr_offset_` and `rd_offset_` of each buffer, `lent` the buffers that a
receive writes into. `Read` and `WriteData` begin a call; `ReadFront`,
`RecycleFront`, `AppendToLast` and `AppendNew` are the turns of their loops, one per
step, with `left` and `todo` for what the loop still has to do. All calls come from
one strand, so no second call begins before the first has ended (`Between`).
A drained buffer stays at the front until the next read, may be appended to in that
time, and goes back to the pool only if the pool is not full.

### MessageBuffer

A Message is a record of its memory (`data`), `len_`, and the two offsets, with what its
user knows of it: the text he wrote, the length he wrote into the header (`stamp`), and
whether it was moved from. `data_` is reserved, not resized, so what does not fit is written
elsewhere (`overrun`). `loose` marks a Message whose `len_` came from another without the
memory: such a one may write beyond its block, which `BodyRoundTrip` excludes for all
others. The length has the width of its field (`Width` for 2^16).

### TcpSession

`TcpSession` extends `RingBuffer` with the parser (`pc`, `parse_head_ok`,
`cur_header`), the queue to the application (a sequence: `MessageFifo`, which is proved of `MPSCQueue`
when its producers do not overlap, as those that run on the strand do not) and the application (`msg_callback`,
`handled`). A callback of the strand runs from `Receive` through the loop of
`parseToMessage()` (`ParseHead`, `HeadRead`, `ParseBody`, `BodyRead`) to `Break`, from
where the next receive is begun. `Lengths` fixes the messages the peer sends; how the
network cuts them is open. Buffers may be cut anywhere, headers and bodies included.

Three places of the code have undefined behaviour, and each may end the process
(`alive`) or go on in the model: the receive callback captures the local variable
`buffer_ptr` of `start()` by reference (`ReceiveDangling`); the body is read over the
Message object (`BodyCrash`, `processCrash`; see Findings); `doMsg(const Message&)`
calls itself for ever when no callback is set (`processCrash`). The properties say
what holds as long as the process goes on. `Stream` maps to `MessageStream`.

### RedisTasks

`ns_async::main()` puts a SET for every key and then a GET for every key on a pool of
threads, and polls for callbacks. The module instantiates `TaskPool`, with the main
thread as the only submitter, and `ConnPool`, with the worker threads as the holders,
and conjoins their actions: a task that takes a connection is `Tasks!Work` followed by
`GrabConn` (`Conns!Grab`), `Command`, `Leave` (`Conns!Release`) and `Finish`
(`Tasks!AddDone`). Redis is one value per database and key, the value of an earlier run
possibly among them. A connection that cannot be made and a command without a reply both
throw out of `work()`, which ends the process; the command may have had its effect by then.
An error that Redis replies is a reply like any other: `command()` returns it and `work()`
returns true (`SetReply`, `GetReply`). The constructor of a connection selects database 1 and
does not look at the answer either, so that each connection ends up on one of the databases
in `Landing` (`Select`, `selected`); a SET on one and a GET on another do not meet. `asked`
remembers on which one a GET was answered. The two properties about a GET are therefore about
its place in the order (`GetsStayBehind`: whatever keys, it never overtakes a SET that was put
on its thread, which is `Behind`) and about its value (`GetSeesSet`: behind its own SET it
finds the new value, unless one of the commands or a SELECT was refused).

### RedisPrograms

Each program is a sequence of `Command`s with what it does with the reply: use it unseen,
free it, look first, throw, catch. `Ask` and `Use` are a command of the blocking programs;
`Connected`, `Answer` and `Lose` what the event loop or the cpp_redis client reports. The
server may refuse any command, and the connection may be lost at any time, before or after
the server has done what it was told. A context with an error stays so, and that is why a
list whose DEL or LPUSH was lost is never printed.

### MysqlBatch

Of a row only the length of its `value_list()` is kept. `Begin` asks for
`max_allowed_packet`, a query of its own that may throw out of the call
(`BeginThrows`); `AddRow` is a turn of the loop, which leads to `execute` when the
statement has grown past the safe size; `EndOfRows` leads to the last statement.
`Stores`, `Fails` and `Throws` are what `execute()` may do. The server refuses what is
longer than the packet, so `Stores` has that as a guard, and REPLACE counts a row once
or twice. `sent` and `stored` are history variables; after an exception nobody knows
whether the rows of that statement were stored, so `stored` counts those that are
certain.

### MysqlTransactions and StockProgram

The pool of `MysqlTransactions` is that of `ConnLease`: `Lend`, `Open`, `Release` and
`CloseSpare`. `beginTransaction`, `commit`, `rollback` and `Execute` are those of MysqlConn;
the server ends an open transaction when another begins, rolls it back when the connection
is lost (`Lose`), may roll it back or commit it at any statement without telling
`m_inTransaction` (a deadlock, an implicit commit), and `permanent` records whose statements became permanent at whose word.
`StockProgram` goes through the calls of `main()`, each of which may fail: nobody looks at
the results, and the property says what is nevertheless in the table at the end.

### ProducerConsumerQueue

Every member function but `WaitAndPop()` is one action, as it holds the mutex
throughout. `WaitAndPop` and `Resume` are the stretches of `WaitAndPop()` between two
waits: the thread looks at the queue and goes to sleep or returns. A consumer that was
notified is in `woken` until it has the mutex again, and others may come before it;
`Spurious` is a wake-up without notification. `pushed`, `taken` and `deleted` are
history variables. Nothing in the repository uses the class, so the model allows every
caller everything at any time, a `Push()` after `Cancel()` included: the code accepts
that item and hands it to nobody.

### SyncQueue, SyncQueueBlocking, LockedQueue, ThreadLifecycle

`SyncQueue` splits `add()` where it reads `need_stop_` before the mutex (`Put`, `Add`); a
consumer may `TakeOne` only after `empty()` said no. In `SyncQueueBlocking` a call is a
stretch up to the next wait (`Call`, `Resume`); `add()` waits for `need_stop_` alone, so
nothing is ever added and the property is that `Stop` and `NotifyAll` release everybody.
`LockedQueue` follows a consumer that takes, peeks, refuses and gives back; after a `peek()`
without unlocking the mutex stays `held`. In `ThreadLifecycle` an owner calls `start`, `stop`,
`join` and the destructor one after the other; the loop is in `test` or `run`. A restart may
find the loop still running, or gone for good (`restarted`).

### Server

`ServerInit` and `Run` are `init()` and `run()` of server1 with those of the pool; `init()`
throws for an empty pool, and when the acceptor cannot bind or listen (`ended`). The
contexts are numbered, `alive` are those whose `run()` has not returned. asio is external: an
operation completes some time (`Complete`, `Expire`) and its handler is then executed by its
context (`AcceptHandler`, `TimerHandler`, `ConnectHandler`). The handler calls
`startAccept()` whatever happened, also with a closed acceptor, where `async_accept` fails at
once and the handler runs again and again. `next_io_context_` starts anywhere; out of range
it is undefined behaviour at the first use (`undefined`).

### Compression

Byte number k of the data is k; the compressed stream has some size of zlib's choice and
yields its bytes again, unless it was damaged. `CompressTurn` and `DecompressTurn` are turns
of the loops through the buffer, and `Returns` says what `inflate` may return at the end of
the data. `avail_in` counts modulo `Width` (2^32). Damage to a stream of zlib is found by its
checksum at the latest; `ZSTD_compress()` as it is called here writes none, so a frame with a
changed byte is refused or comes out with wrong bytes (`Altered`), which `main()` reports as
a mismatch.

### TimeUtils and HourlySink

A time is a number of seconds; `gmtime_r` is a division (external). `SinkIt`, `Check`,
`Open`/`OpenFails` and `Write` are a call of `sink_it_()`, with `Tick` in between. The
two clocks differ in the code: `time(NULL)` may still be in the second before
(`Time`). `file` is the hour since the epoch that the open file is named after. If an
open fails, `current_hour_` keeps its value, and lines are lost until an hour of the day
comes that differs from it; if the constructor's open fails, `current_hour_` is 0, so
that during hour 0 no other attempt is made.

## 3. Runs

| Run | Instance | Shows |
|---|---|---|
| `taskpool` | 2 submitters, 3 tasks and a null one, 2 threads, index modulo 4, 4 draws | every task is in exactly one place at any time and callbacks keep the order of each thread (`EachOnceInOrder`); the pool implements `TaskLanes` |
| `taskpool_live` | 1 submitter, 2 tasks, 3 threads, index modulo 4, 7 draws, fair | the draws of two threads differ by at most one, and by one more per wrap; a submitted task settles, and the workers drain even if the main thread is in `joinAll` (`TasksMoveOn`) |
| `mpsc` | 3 producers, 3 items, 4 addresses; 2 senders, 2 items and a dummy, 4 calls, fair | no access to a deleted node and no leak (`NodesOwned`), and `MessageQueue`; every item comes out; the intrusive queue likewise, where an empty answer may also come from an overlapping `Enqueue` |
| `connpool` | 2 holders, 3 addresses, idle time 2, clock up to 3, 2 breaks, fair; 2 RedisConn objects, 3 contexts, 2 databases | one holder per connection, none lost and the number bounded (`PoolAccounted`), freshest first, and `ConnLease`; `safe_grab` returns; contexts have one owner; objects talk to their database |
| `net` | 4 buffers of 3 bytes, pool of 2, 7 bytes, fair; 2 Messages of up to 3 bytes; pools of 0, 2 and 3 contexts, an index of 5 values, fair | bytes in order, none lost, a buffer in one place only (`StreamIntact`); what is written to a Message is read from it; contexts are given out evenly (`EvenSpread`), or the program is undefined from the start; until `stop()` timer and acceptor always have something to come (`NothingForgotten`) and go on, after it `run()` returns (`ServesUntilStopped`) |
| `tcpsession` | bodies of 0, 3 and 0 bytes, headers and buffers of 2 bytes, 4 buffers, pool of 1, fair | `MessageStream`; no complete message waits for later bytes (`SessionOK`); a message that has arrived is handled, unless the process crashes |
| `tcpsession_body` | bodies of 1 and 0 bytes | *fails*: a message with a body is handed over without it (see Findings) |
| `redistasks` | 2 keys, 2 threads, 2 addresses, no expiry, both databases, fair; the eight other programs with lists of 3 | a GET behind its SET sees the new value unless something was refused (`GetSeesSet`), and no program prints a part of what it stored for the whole (`PrintsWhole`); every task gets its callback or the process ends, and every program ends (`EverythingEnds`) |
| `redistasks_odd` | 3 keys, 2 threads, 2 addresses, idle time 1, clock up to 1, one database | a GET never overtakes a SET on its thread, also where that is the SET of another key (`GetsStayBehind`) |
| `mysqlbatch` | up to 5 rows of length 1, 3 or 7, surplus 6, packets of 0 to 24; 2 holders and 2 connections; files of 3 lines and 2 keys | every row in one statement, every statement within its packet if the rows are within the surplus, the count tells what was stored; what a holder makes permanent is its own; the table ends with the last good row of each key |
| `pcqueue` | 3 consumers, 4 items, fair; 2 producers with 2 items; 2 putters and 2 takers; 2 adders, 4 items; one owner and thread | no wake-up and no item is lost; `Cancel()` ends the waits, and an item that somebody waits for is taken; what `stop()` lets through; whom it releases; the order of items given back; which calls end a thread |
| `hourlysink` | days of 3 hours of 2 seconds, 128 values of a `uint32_t`, 9 seconds from each of 114 starts; up to 10 bytes through a buffer of 3 | a line is in the file of its hour, or of that hour of an earlier day; the two ways of telling weeks apart agree; decompressed is what was compressed, or an error, but for a changed byte in a frame of zstd and what `avail_in` cannot count |

Bounds. `MaxDraws` bounds the calls of `getThread`: seven draws go round three
threads twice and wrap a modulus of four, which three does not divide, so every start
value and an uneven wrap occur; null tasks, which are drawn for and not queued, make up
what exceeds the tasks. Three tasks on two threads give two tasks on one thread, hence
batches of two, with a third task between them in the shared queue. The addresses of the
queue and of the pool are one more than the nodes or connections needed at once, so both
fresh and reused addresses occur. A clock of `MaxIdle + 1` lets one connection expire
while another, used later, does not. Two breaks let `safe_grab` go round twice. Seven
bytes in buffers of three give a full buffer behind a partly read one and a third, and,
with a pool of two, a recycled buffer used again while the pool is full. A body of three
bytes is longer than a buffer, so a message can lie across three of them, and the empty
bodies before and after it make messages that end with their header. With two keys and
two threads a GET goes to the thread of its SET; with three keys, as with the five of the
program, it goes to the other thread, behind the SETs of the keys next to its own, and
nothing is promised about its value. Two addresses are one for each thread; they are alike,
and the run without liveness uses that as a symmetry. In these runs the index starts just
before its wrap, and every key has an old value. Five rows fill a packet twice and
leave a rest, and row lengths on both sides of the surplus and packets on both sides of
the surplus and of the head occur. Three consumers are one that was notified, one that
takes its item, and one asleep. Nine seconds are a day and a half, so a file can grow
older than a day and be kept for its hour of the day, and the starts cover three weeks and the end of the range.
Two objects are enough for every move, and three contexts for one that is replaced while two
are in use. Four calls of `Enqueue` with two items enqueue an item again while the dummy is
in, behind or before it. A Message made for one byte grows once and is copied into memory of
two; a text of three is longer than its length field can say. Ten bytes are three buffers and
a rest, and more than `avail_in` counts. An index of five values is in range or beyond it
for both pool sizes. Three lines with two keys have a key twice, with a bad line before, between or
behind.

Deadlock is checked for the runs `connpool`, `pcqueue` and `net`, where some holder or the
pool, any caller of a queue, or a receive, a user of a Message or an operation of the server
can always move (`Over` in `Server`, `Undefined` in `MCNet` and the last disjunct of
`RedisConn!Next` are the ends that are meant).
The others may stop: when every task is settled and the draws are used up, after
`std::terminate`, in `joinAll`, when the queue has been destroyed, when the peer sends
nothing more, when `replaceAll` has returned, when a program has ended, or when the seconds
to be explored are over.

Fairness. `TaskPool`: a thread that runs keeps running, so a submitter that drew
its index puts its task, each worker goes on polling (`thrdloop` has no other exit
than `stop()`, which nobody calls) and `work()` returns or throws; the main thread
calls `startAll` once and then loops over `runInMain`, as `ns_async::main` does. No
submitter is forced to submit, and `JoinAll` may come at any time. `MPSCQueue`: an
`Enqueue` that has begun ends, and the consumer polls; no fairness for new items.
`ConnPool`: a thread inside `safe_grab` goes on; nothing is assumed of the other
holders. `TcpSession`: a callback on the
strand runs to its end and the application goes on calling `processReceivedMsg`, as the
loops of the chat programs do; nothing is assumed of the peer. `RedisTasks`: the main
thread and the workers go on; a reply or an error comes for every command.
`ProducerConsumerQueue` and `SyncQueueBlocking`: a thread that was notified gets the mutex
some time, and a `stop()` goes on to its notifications; nobody has to call anything.
`MPSCQueueIntrusive`: as for the other queue. `ThreadLifecycle`: the loop goes on and `run()`
returns. `Server`: a context executes the handlers that are ready, time passes, and a
`stop()` that has begun reaches all contexts; no client has to come. `RedisPrograms`: a program goes
on, and a reply or an error comes for every command.

Every property has at least one mutant of a modelled definition, a plausible slip
in the code, that makes its run fail (`PROJECT.json`, "mutants").

### Findings

`tcpsession_body`. `TcpSession.cpp:127` announces "// read body", and line 133 calls
`recieved_buffer_.read(msg, len)` with a `Message*`. Of the two overloads,
`read(void*, uint32_t)` (`Buffer.h:415`) is chosen, not `read(BaseBuffer&, …)`
(`Buffer.h:444`): the bytes of the body are copied over the Message object, its vector
and offsets included. The message that is handed over never has its body, and what
follows is undefined. The run shows the shortest way there: one message with a body of
one byte.

### What the code lets happen

Some of the hazards in `PROJECT.json` no property excludes, or not in full, because the code lets
them happen and nothing in the repository says that it should not. The models have the step,
and the properties say what holds otherwise:

* a Thread that is started again after `stop()` may stay without a loop (`restarted`);
* a `put()` of SyncQueueBlocking waits for `stop()` and then drops its item;
* a refused SELECT leaves a connection on database 0 (`strayed` in `RedisConn`, `Landing` in
  `RedisTasks`), and an error reply is a result like any other;
* the dangling reference in the receive callback, and a session without a callback, end the
  process in the model (`alive`) if they do anything at all;
* a copied or moved-from Message may write beyond its memory (`overrun`);
* a MySQL connection that is released inside a transaction hands it on (`left`);
* after a silence of a whole number of days the log goes on in the old file;
* a changed byte of a zstd frame may be unpacked without an error;
* the first io_context may be drawn from beyond the pool, as nothing initialises the index
  (`undefined` in `Server`).

## 4. Proofs

All theorems hold for every value of the constants that satisfies the named
assumptions.

* `TaskPoolProofs`. `TypeCorrect` and `Implements` (`Spec => LanesSpec`). The
  inductive invariant `IInv` adds to `TypeOK` that a task held by a submitter is
  held by no other and not fresh any more (`HeldOnce`), without which a `Put` would
  not map to `Accept`, and that `startAll` in progress has a thread left to start
  (`StartBound`). Each action maps to an action of `TaskLanes` or to a stutter, because
  moving a whole queue to an empty list changes no lane.
  `FairShare` (`RoundRobin`): that two threads differ by one draw is not inductive, as the
  one that is ahead might be drawn again; `DrawsEven` adds that the threads whose turn comes
  first (`Turn`) are not ahead. Where N does not divide the width of the index, each wrap
  (`Slack`) may add one.
  `NothingLostOrReordered` (`EachOnceInOrder`) is proved of the lanes: every action is a step
  of `TaskLanes` together with what it does to the history (`LaneStep`), and `OInv` says of
  those that a task is assigned once, that a lane is the end of what was assigned to its
  thread (`LaneIsSuffix`), that what a thread is through with is either dropped or finished
  and nothing else is (`WorkSettles`), and that tasks of a thread finish in their order
  (`FinishOrder`). `OnePlace` carries that back from the lanes to the queues and lists.
* `MPSCQueueProofs`. `MemorySafe` (`NodesOwned`, that is `NoUseAfterFree` and
  `NoLeak`), `Implements` (`QueueSpec`), `TypeCorrect`. The invariant describes the memory by
  `chain`, the sequence of values `_head` has had: `_tail` is its entry
  `taken + 1`, `_head` its last (`EndsOK`); the entries from the tail on are
  distinct (`DistinctNodes`); each points to its successor unless the producer of
  the successor is between its exchange and its link, and the last one points
  nowhere (`LinksOK`); the node after position i carries item i (`DataOK`); each
  producer's local variables agree with that (`ProducersOK`), no two producers
  share a node or a place (`ProducersApart`), and the consumer's agree as well
  (`ConsumerOK`). `NoLeak` is itself one conjunct. That a link is missing exactly
  when its producer is under way is what makes a premature empty answer legal and
  the deletion of the old tail safe.
  `FifoForOneSender` (`Spec /\ []OneSender => Fifo!Spec`): where no two producers are between
  their exchange and their link at the same time (`OneSender`, which the strand of a session
  grants and the model leaves open), the queue is a sequence, namely the items from the last one
  taken to the last one linked (`Visible`): the exchange changes nothing, the link is the `Put`,
  and an empty answer is true. It assumes nothing of the number of producers.
  `IntrusiveImplements` (`IntrusiveSpec`): here no history describes the memory, as items
  come back; `IntrusiveInv` says instead that there is a sequence of distinct nodes
  `f[lo] .. f[hi]` from `first` to `newest`, of which each is linked to the next unless
  somebody is between its exchange and its link (`Open`), and that without the dummy it is
  the items that were sent and not received (`Chained`). `Polling` follows the consumer: when
  it puts the dummy back no other copy of it is in the queue, and an answer "empty" that is
  on its way was either overlapped by an `Enqueue` or will be true.
* `ConnPoolProofs`. `OneHolder` (`Exclusive`), `NoneLost` (`PoolAccounted`, that is
  `InUseIsHeld` and `Bounded`), `Freshest` (`FreshestFirst`), `Implements`
  (`LeaseSpec`). `Bounded` needs more than the invariants the runs check: a
  connection is created only when none is idle, so the pool is bounded by the
  connections in use at that moment, each of which has a holder of its own.
  `NoContextLost` (`ContextsAccounted`) and `KeepsDatabase` (`RightDatabase`) of RedisConn:
  each step touches one context (`Only`), objects that do not exist have none, so that no
  constructor drops one, and with these types the two are inductive together.
* `NetProofs`. `BodySurvives` (`BodyRoundTrip`): a Message that was not moved from has
  its header and text in its memory, and unless `len_` came from elsewhere the memory is as
  long as it says (`BlockOK`). `NoByteLost` (`StreamIntact`): what lies between the offsets
  of the buffers, one after the other, are the bytes of the stream from the last one read to
  the last one written (`Flow`), by a function that says for each buffer where in the stream
  it ends. `HandedOverPromptly` (`SessionOK`) and `InOrderAndOnce` (`StreamSpec`): `Position`
  says for each state of the parser which message it is in and how far it has read, `Waits`
  that what it waits for has not come in, `Calls` that nobody else reads.
  `SocketsSpread` (`EvenSpread`): the contexts that were given out once more than the others
  are an interval of the circle, from where the index once was to where it is
  (`PassedSince`). It needs that the size of the pool fits the type of the index, which
  holds because both are `uint16_t`.
  `QueueIsFifo`: of its queue the session uses what `MessageFifo` has and no more. With
  `FifoForOneSender` that is the interface at which the session and the lock-free queue meet.
  `LoopsRunOut`: while a read or a write is under way each step is a turn of its loop
  (`LoopStep`) and lowers left + 2 * todo + the number of buffers (`Work`), which is never
  negative, and a read that has not ended has a buffer to look at; so none goes on for ever.
  `ServerForgetsNothing` (`NothingForgotten`) is the safety part of `ServesUntilStopped`: a
  context with its work guard leaves `run()` only when it was stopped.
* `RedisTasksProofs`. `GetsKeepBehind` (`GetsStayBehind`) and `ReadsItsWrites` (`GetSeesSet`),
  properties of `TaskPool`, `ConnPool` and the commands together, from one invariant (`IInv`).
  If the number of threads divides the width of the index (`Divides`), the task drawn as number
  n is put on thread i + n modulo the number of threads, where i is what the index started from
  (`LaneOf`, `Drawn`, `Calling`), and so a SET and a GET for which `Behind` holds share a
  thread. A SET that was put there is waiting or answered (`SetKept`), and where such a GET is
  ahead of it in the lane or being worked on, it was answered (`GetsBehind`); and what a SET and
  a GET were answered says what is in the database (`Replied`). The connections matter
  only in that a thread without a task has none (`Busy`). Neither theorem asks for a number of
  keys that the threads divide: for the 5 keys and 2 threads of the program the first one is
  about the SETs of the neighbouring keys. The proof uses the actions of
  `TaskPool` as the module instantiates them, not the theorems of `TaskPoolProofs`.
  `UsesThePools` is the composition by specifications: `Spec => Tasks!Spec /\ Conns!Spec`, as
  every step of `ns_async` is a step of each pool or leaves it alone. `PoolsKeepPromises` takes
  from there `Exclusive`, `PoolAccounted`, `EachOnceInOrder` and `RoundRobin`, by citing the
  theorems of `TaskPoolProofs` and `ConnPoolProofs` for instances with the main thread as
  the only submitter and the workers as the holders (`SameTasks`, `SameConns`). For that the
  assumption on the constants of `RedisTasks` has what those of the two pools have.
  `PrintsOwn` (`PrintsWhole`) is about `RedisPrograms`, for any number of elements that
  `example` pushes (`Pushes`). `ProgramInv` says: unless a command was refused, what was printed is
  whole (`Whole`), and as long as the context lasts (`Lasts`) the database holds what the commands
  carried out so far have written (`Written`, `Carried`). Once a context has an error nothing
  more is claimed of the database and nothing more is printed, which is why
  replies to DEL and LPUSH may be freed unseen.
* `MysqlBatchProofs`. `EveryRowOnce` (`RowsOnce`), `NeverTooLong` (`FitsPacket`),
  `CountIsRight` (`ResultTells`). `SizeOK` says how long the statement is at each point:
  at most the safe size while rows are added and before the last statement, at most the
  surplus more where it is executed inside the loop. `RowsOK` says that what was sent
  are the first rows but those of the statement under construction.
  `NobodyElsesWork` (`OwnTransactions`): whose statements are in an open transaction still
  holds the connection or released it inside (`TransactionsOK`), and a connection has one
  holder. `StoredAtTheEnd` (`FileIsStored`): the rows are the lines of the file in their
  order (`RowsOfFile`); from the first write on the table holds lines of this file
  (`TableOfLines`); the rows that are written one by one after a failed `replaceAll` leave
  none older than themselves (`RewrittenInOrder`), and so the last one of each item stays
  (`Complete`).
* `ProducerConsumerQueueProofs`. `WakeupsSuffice` (`NoLostWakeup`) is inductive as it
  stands: while somebody sleeps, the items are at most as many as the woken consumers,
  of which a push adds one to both and a woken consumer that takes an item one less to
  both. `ItemsConserved` (`NothingLost`) needs that nothing has been deleted before
  `Cancel()`. `StopBounded` (`StopLetsOneIn`): a producer whose item came late is out of
  `put()`, which lets it in no more (`SyncInv`). `ReaddSafe` (`ReaddKeepsOrder`) is
  inductive with its types; that what is given back goes to the front is associativity.
  The safety parts of `StopTakesEffect` are `BlockingGivesNothing` (`NothingPassedOn`: the list of
  a SyncQueueBlocking is always empty) and `ThreadRunsUntilStopped` (`RunsUntilStopped`).
* `HourlySinkProofs`. `LinesInTheirHour` (`RightFile`) rests on two facts about
  division: a later time is not in an earlier hour, and an hour of the day is that of the hour.
  What is written to was opened in an hour of the call, or is an old file whose hour of the day
  is that of such an hour (`Right`). `CalendarAgrees` (`WeeksAgree`) holds for every
  length of hours and days and every number of values of a `uint32_t`, from the first
  Monday on, for time zones of less than a day east. `ComesBackWhole` (`RoundTrip`): at each
  stage what is out and what is pending make up what went in (`ZipInv`, `Inflating`), and
  a stream of zlib whose end is reached was whole; what a frame of zstd with a changed byte
  yields is left open (`Unnoticed`), and nothing else ends in a mismatch.

Where a proof needs induction over numbers, it takes the least counterexample (`LeastNat`,
from the well-foundedness of the numbers) or a set that contains 0 and all successors
(`NatSetInduction`). Two definitions of the models were found too wide by the proofs and are
now as narrow as the code: the empty answers of `inflate` in `Compression` and the copied
ranges in `MessageBuffer`; both had cases that overlapped, which no run could tell apart.

Every invariant and every refinement that a passing run checks is proved. Model-checked only
are the eight properties that say what must happen: `TasksMoveOn`, `EverythingComesOut`,
`SafeGrabReturns`, `ServesUntilStopped`, `EveryMessageHandled`, `EverythingEnds`,
`WaitsEnd` and `StopTakesEffect`, of some of which the safety part is proved, see above:
reasoning about fairness and ENABLED is beyond the prover. The run that fails shows its
counterexample, and nothing is proved about it. None of the modules declares a RECURSIVE
operator.

## 5. Plan

Every component that keeps state of its own has its module, every refinement its proof and
every invariant its theorem. What is left:

1. The rest of the composition of session and queue: both meet at `MessageFifo`, but a module
   in which `TcpSession` runs on `MPSCQueue` itself, access by access, does not exist.
2. The conversion of rows and times to text, of which the models keep lengths only.
3. Liveness of the two pools inside `ns_async` from that of the pools alone, once a prover
   for fairness is at hand; today TLC checks it directly (`EverythingEnds`).

## 6. Not modelled

* `Shared/protos`: generated by protoc, a third of all lines of the repository.
* `Demos/siphash.cpp` (a copy of the reference implementation), `Demos/Encrypt.cpp` (empty),
  `Demos/main.cpp` (calls the compression programs), `boost_redis` (switched off by `#if 0`).
* `Singleton`: `std::call_once` around a constructor. `Misc.h`, `Configs.h`, `CallBacks.h`,
  `BoostThreadPool.h`: no state of their own.
* `TcpSession::sendMsg`: one `async_send` without state in the session; what happens to a
  message that is sent in part, or freed before, is asio's (it is listed as a hazard).
* `RingBuffer::writeMessage`, `read(BaseBuffer&, …)` and `readAsString`: not reached by the
  session (see Findings for why `read(BaseBuffer&, …)` is not).
* `MysqlConn::deleteWhereByKeys`: a template that nobody instantiates and that does not
  compile (`keyname.empty` without a call); the trials of `ApiTest.cpp` that `main()` does
  not call; the part of `cppredis` behind `ENABLE_SESSION`.
* Functions of `TimeUtils.h` that compare or print fields of a `struct tm`; logging text;
  the winsock set-up.

hiredis, cpp_redis, mysql++, zlib, zstd and asio appear only through what the code can see of
them: a connection that is made, refused or lost, a command that succeeds or fails, an
operation that completes.
