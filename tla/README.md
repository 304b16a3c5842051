# A TLA+ model of arale

arale is a C++11 network library in the reactor style: one `EventLoop` per
thread, channels over epoll or poll, timers over a timerfd, TCP connections,
servers and clients, and a small HTTP server on top. It has no documentation of
its own beyond comments, asserts and a few test programs; those are what the
properties here are held against. `build.sh` builds with asserts by default, so
a failed assert is modelled as the end of the program.

Paths below are relative to `src/arale/`.

## Inventory

| Component | State | Operations | Interaction | What is hard | What makes it correct |
|---|---|---|---|---|---|
| `net/EventLoop` | `quit_`, `islooping_`, `isHandlingPendingFunctors_`, `pendingFunctors_`, `activeChannels_`, eventfd | `loop`, `runInLoop`, `postFuntor`, `quitLoop`, `doPendingFunctors`, `weakup`, `handleWakeup` | every other component posts functors to it and is called by it | wake-ups racing with the swap and the poll; `quit_` without a lock | functors run once and in order; no lost wake-up; a quit ends the loop |
| `net/EventLoopThread` | `loop_`, `start_`, two condition variables | constructor, `startLoop`, `threadFunc`, destructor | owns the thread that runs an EventLoop | notifications in both directions; a destructor that reads `loop_` without a lock | `startLoop` returns once the loop is published; the destructor stops it |
| `net/EventLoopThreadPool` | `loops_`, `next_` | `start`, `getNextLoop`, `getAllLoops` | hands loops to TcpServer | destroyed thread by thread while the loops post to each other | round robin over the loops started; the destructor returns |
| `net/TimerQueue`, `Timer`, `TimerID` | `timers_`, `activeTimers_`, `cancelledTimers_`, `isHandlingTimeout_`, the timerfd, the heap | `addTimer`, `cancelTimer`, their `InLoop` halves, `handleTimeout`, `resetTimers` | a channel of the loop; functors from other threads | cancelling from a callback, address reuse, re-arming | the two sets agree; each timer has one owner; the timerfd covers the earliest |
| `net/Channel`, `Poller`, `EPollPoller`, `PollPoller` | `events_`, `index_`, `isInLoop_`; `channels_`, `pollfds_`, the epoll set | `enable*`, `disable*`, `update`, `remove`, `poll` | between the loop and every descriptor | updating a disabled channel; removal by swap | the kernel watches exactly what the channels ask for |
| `net/TcpConnection` | `state_`, `reading_`, buffers, its channel | `send` (three), `shutdown`, `forceClose`, `forceCloseWithDelay`, `startRead`, `stopRead`, the handlers, `connectionEstablished`, `connectionDestroyed` | called from any thread, by its channel and by its owner | test-then-set of `state_` from other threads, stale events, functors after the close | bytes in order, flushed, FIN after them; closed once |
| `net/Buffer` | `buffer_`, `readIndex_`, `writeIndex_` | `append`, `readFd`, `prepend`, `retrieve`, `makeSpace` | both directions of a connection | moving and growing at the boundary | reads back what was written |
| `net/Connector`, `TcpClient` | `state_`, `connected_`, `connectChannel_`, back-off; `connection_`, `retry_` | `start`, `stop`, `restart`, `retry`; `connect`, `disconnect`, `stop`, destructor | timers and functors of the loop, TcpConnection | stop racing with a retry timer; destruction with functors pending | one attempt at a time; a stop is obeyed; a wanted connection is tried until it is there |
| `net/Acceptor`, `TcpServer` | `connections_`, `nextConnId_`, `backupFd_` | `startListening`, `handleNewConnection`, `newConncetion`, `removeConnection`, destructor | the pool's loops, TcpConnection | removal across two loops; running out of descriptors | every connection is established and destroyed once, in its loop |
| `net/http` | `parseState_`, the request | `parseRequest`, `onMessage`, `onRequest`, the callbacks | a TcpConnection's message callback | requests cut at any byte, or several in one piece; messages after the close | what is parsed does not depend on the cuts; answers in order, none after the one that closes |
| `net/Socket*`, `InetAddress`, `Endian` | - | system calls | - | their failures | - |
| `base/Date`, `TimeZone` | transitions and types of a zone | conversions, reading of zone files | the logger | times before 1970, the hour that comes twice, files that end early | agreement with the calendar; inverse of each other |
| `base/Logging`, `LogStream` | level, zone; per thread the text of the last second; a buffer of fixed size | log statements, insertions, `setLogLevel`, `setTimeZone` | used by everything | stale text in the cache; the end of the buffer; negative numbers | a line shows its time and its numbers; nothing is written past the buffer |
| `base/` atomics, thread locals, `WeakCallback` | - | wrappers | - | - | - |
| `examples/`, `net/tests` | - | programs that use the library; `maxconnection` and `shorturl` are the users of the servers here | - | - | - |

`PROJECT.json` lists the hazards of this code line by line, with the properties
that would notice them.

## Modules

| Module | Models | Runs |
|---|---|---|
| `SerialExecutor` | what an EventLoop promises to those who post to it | (refined by `EventLoop`) |
| `EventLoop` | `EventLoop` and its posters | within the next |
| `EventLoopThread`, `MCEventLoopThread` | `EventLoopThread`, extending `EventLoop` | `EventLoopThread.cfg` |
| `TimerQueue`, `MCTimerQueue` | `TimerQueue`, `Timer`, `TimerID` | `TimerQueueSafety.cfg`, `TimerQueueLive.cfg` |
| `TcpConnection`, `MCTcpConnection` | `TcpConnection` with its `Channel` and that channel's place in `EPollPoller` | `TcpConnectionSafety.cfg`, `TcpConnectionLive.cfg`, `TcpConnectionShutdown.cfg` |
| `Poller`, `MCPoller` | `Channel`s over `EPollPoller` or `PollPoller` | `Poller.cfg` |
| `Buffer` | `Buffer` | `Buffer.cfg` |
| `Connector` | `Connector`, up to what its owner does with it | within the next |
| `TcpClient`, `MCTcpClient` | `TcpClient`, extending `Connector`, and its connections | `TcpClient.cfg` |
| `TcpServer` | `TcpServer`, `Acceptor`, `EventLoopThreadPool`; `examples/maxconnection` as their user | `TcpServer.cfg` |
| `HttpContext` | the parser as operators, and what a stream says as a whole | within the next |
| `HttpServer`, `MCHttpServer` | `HttpServer` and `HttpResponse`, with the default callback or that of `examples/shorturl` | `HttpServer.cfg` |
| `Date`, `TimeZone`, `LogStream` | their conversions as operators; `CppDivision` is the division they use | within the next |
| `Logger`, `MCLogger` | `Logging`: the log statements of several threads | `Logger.cfg` |
| `TimerQueueProofs`, `TcpConnectionProofs`, `PollerProofs`, `TcpClientProofs`, `TcpServerProofs` | theorems about the modules they are named after | tlapm |
| `EventLoopThreadProofs` | theorems about `EventLoop` and `EventLoopThread` | tlapm |
| `InputProofs` | theorems about `Buffer` and `HttpServer` | tlapm |
| `LoggerProofs` | theorems about `Logger`, with `LogStream`, `TimeZone` and `Date` | tlapm |

Modules build on each other along the calls of the code. `EventLoopThread` and
`TcpClient` extend the module of the object they own and add its user; the
functor queues of `TimerQueue`, `TcpConnection`, `TcpClient` and `TcpServer` are
the queue of `SerialExecutor`, which `EventLoop` is shown to implement; and
`TcpClient` and `TcpServer` keep of a connection what its owner sees of it, while
its races are those of `TcpConnection`.

A variable has the name of the member it models; a variable without the trailing
underscore is a local of the code (`functors`, `expired`), the kernel's or the
peer's state (`ready`, `timerfd`, `peer`), a thread's place (`pc`, `loopPc`), or
a history that properties need (`posted`, `executed`, `content`, `cancelled`).
An operator with a lower-case name is the C++ function of that name, executed
within a step; an action has an upper-case name. In `Buffer` the operations are
the actions and keep the source's names. Operators marked "Mutant of ..." are
plausible mistakes in the definition that follows them, and each breaks the
property named with it in `PROJECT.json`; nothing else uses them.

### EventLoop

The loop thread takes a step for each access to shared state: the test of
`quit_`, the poll, each callback, the swap under `pendingMutex_`, each functor.
Another thread that posts takes two, the push and the write to the eventfd,
since the loop can run between them; so does `quitLoop`. `runInLoop` in another
thread is `postFuntor`; in the loop thread it calls its argument, which is part
of the caller's step. The eventfd is a flag: only whether it is zero matters.
The poll may return any non-empty part of what is ready (the event list is
finite), or nothing (time-out, signal).

`quit_` and `isHandlingPendingFunctors_` are plain `bool`s. The second is
written and read by the loop thread only when the answer matters (for another
thread `!isInLoopThread()` decides). `quit_` is a data race; the model lets the
loop read the value last written, and the mutant `CheckQuitHoisted` shows what
follows if the compiler hoists the load. The calls in the loop make it reload.

A functor posted by the loop thread itself before `loop()` is marked `early`: no
wake-up is written for it, so it waits for the first event or the poll's
time-out of 10 seconds. The wake-up properties leave these functors out.

### EventLoopThread

Extends `EventLoop`: its loop thread is the thread of `threadFunc`, the owner is
one of its posters. Testing a predicate and starting to wait is one step, as the
mutex makes it; setting it and notifying is another. Spurious wake-ups happen.
The destructor reads `loop_` without the mutex and goes on in separate steps. So does
`startLoop`: its wait tests `loop_` under the mutex, and `return loop_`
(`EventLoopThread.cc:50`) reads it once more without it (`ReturnLoop`). If a functor
or another thread has quit the loop in between, `threadFunc` has set `loop_ = NULL`
and `startLoop` returns NULL. `OwnerSeesThread` says what an owner may rely on: the
loop had been published with its `initCallback_` done, and NULL is returned
only if that loop has ended since.

### TimerQueue

Addresses are model values that an allocator hands out again once freed; what a
freed address held stays readable, as it does with the allocators the build
uses. That is what `addTimer` reads in another thread, and also why
`cancelTimerInLoop` deletes the right timer through the iterator it has just
invalidated (`delete it->first` after `erase`: the node's value is past the
words that `free` overwrites). `isHandlingTimeout_`, which the constructor does
not initialise, is any Boolean in `Init`. A run of `handleTimeout` is
`HandleTimeout` (up to the first callback), one `RunTimer` per timer and
`ResetTimers`; callbacks may add and cancel timers between them (`LoopAdd`,
`LoopCancel`). Functors of other threads arrive in the order of their posts,
which is what `SerialExecutor` promises. Cancelling a timer that is in the batch
and has not run yet does not stop this run of it; `CancelHolds` says what does
hold, that it is never scheduled again. The test `newExpiration.valid()`
(`TimerQueue.cc:212`) is left out of `RearmTimerfd`: every expiration is after the
epoch, so it never fails.

### TcpConnection

Bytes are numbered by `sendInLoop` in the order it takes them; `sent` is what the
kernel took. Handlers and functors are steps of the loop thread; the events that one
poll collected are handled in the order of `handleEventWithGuard`, with steps of
other callbacks in between (`LoopSend`, `LoopForceClose`, ...), which is how events
become stale. A call in another thread reads `state_`, assigns it and posts in
separate steps. `LoopCalls` are the calls that callbacks in the loop thread make,
`RemoteCalls` those of other threads. `updateChannel` is
`EPollPoller::updateChannel` for this channel with its assert, `connectionDestroyed`
includes `removeChannel` with its assert. `OwnerReleases` is `TcpServer`: asked by
`closeCallback_`, or in its destructor; `LastReference` is the end of the connection
itself, when neither its owner nor a functor, a call or a handler has a pointer to
it, with the asserts of `~TcpConnection` and `~Channel`. `readv` returning -1
becomes a large `size_t`, so an error is a message with no data (`HandleRead`,
second disjunct).

Callbacks for write completion and high water are taken to be set. The memory
passed to `send(const void*)` from another thread is assumed to stay until sent.

### Poller

Several channels over one poller; `Init` chooses which of the two `setDefaultPoller`
makes. Everything is a step of the loop thread: a poll, the end of a handler, a call
of a channel. Calls may come in any order, also while reported channels wait for
their handlers. What the users of a channel promise is in four guards: a channel is
updated only while no other channel is in the loop with its descriptor
(`MayUpdate`), a channel is removed only when it is in the loop (`remove`), a
descriptor belongs to a new channel only when no other channel in the loop has it
(`NewChannel`, so it may be handed on, as `Connector` does), and a channel is
destroyed by a functor, not while reported channels wait (`DestroyChannel`, as the
comment in `TcpServer.cc` demands). Every failed assert ends the program. The
kernel's epoll set keeps, for each descriptor, the channel in `data.ptr` and the
events; the model does not let the kernel forget closed descriptors, so the
properties do not rest on that. `FdOf` reads an entry of `pollfds_` whether or not
it is hidden: `PollPoller.cc:82-92` sets its events again when a disabled channel is
enabled, but leaves its descriptor negative, so poll goes on ignoring it.
`NoDangling` holds although `epoll_wait` returns raw pointers.

### Buffer

The vector with its bytes and both indexes; `append` and what ends in it may
stop the program at the assert in `ensureWritableBytes`, or, when `prepend` has
put bytes below `kCheapPrependSize`, by a move that runs past the end of the
vector (recorded as `"overflow"`). `swap` and `unwrite` are not modelled: nothing
calls `unwrite` (which adds where it should subtract).

### Connector and TcpClient

`connected_` is assigned by any thread (`start`, `stop`) and read by the loop
thread, so each read of it is a step: `startInLoop` reads it, then `connecting`
asserts it. A failed `connect(2)` is refused and retried, or given up for good
(the third group of errors closes the socket and does nothing more), or the
connect proceeds and `connectChannel_` waits; poll reports it, and it is handled
in a later step, when a callback of the same poll may have stopped the
Connector. The channel leaves the poller at once and is destroyed by a posted
functor (`"removed"`). A retry timer holds a `shared_ptr`, the posted functors a
raw pointer.

`TcpClient` adds the user: `connect`, `stop`, `disconnect`, `enableRetry` and the
destructor, from the loop thread (`Loop...`) or another one (`Call`, `Destroy`,
...), whose steps interleave with the loop's. `removeConnection` reads `connect_`
and `restart` assigns `connected_` afterwards. A connection has, beside `state_`, a
phase, the place of the loop thread in its life (`none`, `up`, `closing` before
`removeConnection`, `closed`, `destroyed`), since another thread may assign `state_` at
any time: `disconnect` tests it (`ShutdownTests`) and assigns it (`SetState`) under
`mutex_`, which the loop does not hold while it closes; the `forceClose` in the
destructor tests, assigns and posts in three steps. `Fail` is a failed assert, or the
use of an object that is gone (`"dangling"`).

### TcpServer

Connections are accepted in the base loop (0) and given to the loops of the pool in
turn; each loop has a queue of functors, `connectionEstablished`,
`connectionDestroyed` or `removeConnectionInLoop` with the connection it is bound
to. The destructor runs in the base loop's thread: it destroys the connections, then
quits and joins the threads of the pool one by one. While it runs the base loop
takes no step. A thread of the pool publishes its loop before it enters `loop()`,
which begins with `quit_ = false` (`LoopBegins`, `EventLoop.cc:87`): `told` are the
loops on which `quitLoop` was called, `quit_` those that have not lost it. A loop
that was told to quit may return before it has run what was posted after its last
swap. `sockets::accept` ends the program on every error (`LOG_SYSFATAL` before
`errno` is looked at), `listenOrDie` and `createNonblockingOrDie` likewise.

The user is `EchoServer` of `examples/maxconnection`: it counts connections, and
shuts down the one that is too many and has a timer close it. Its counter is a plain
`int`; with a pool several loops change it at once, and any connection may be found
to be too many (`UpStates`). `~TcpServer` that meets a connection in
`kDisconnecting` removes an enabled channel, which fails an assert (`Destroyed`).

### HttpContext and HttpServer

A stream is a sequence of tokens in which every character that the parser looks
for (space, colon, question mark, CR, LF) is one token and a word is another.
Pieces of any length arrive; `Round` is one round of the loop of `parseRequest`,
from context and buffer to context, buffer and what the loop does next, and
`parseRequest` is what as many rounds as the buffer has tokens lead to: each but
the last takes a line. The reference knows a line by the place in the whole stream
where it begins (`LineAt`), a request by that of its first line (`IsRequestAt`,
`RequestAt`: for each header name the value of its last line), and `RequestStarts`
gives the places one after the other. One call of
`onMessage` handles at most one request. `Trim` drops what `isspace` does of the
tokens: space, CR and LF (tabs are part of words). A reply is its status and the names of
its headers; `send` after a `shutdown` does nothing, as in `TcpConnection`.

### Date, TimeZone, LogStream and Logger

`getJulianDayNumber` and `getYearMonthDay` are the source's formulas; the reference
is a calendar that counts day by day (`NextDay`, `DaysBeforeYear`). Division and
remainder truncate, as in C++. A zone file is a sequence of fields and may end after
any of them: `readTimeZoneFile` catches the exception and keeps what it has read. A
`struct tm` of local time is the number of seconds it spells; `gmtime_r` and
`timegm` are inverse to each other and are left out. `WellFormed` says what the
files of the zones are: transitions in order and of types that exist.
`OnlyDstFallsBack` is a zone whose transitions are hours apart and whose offset
falls back only from daylight saving time and by an hour; only `LocalRoundTrip` is
about such zones. `Shows` is what a `tm` may show: the local time, or zeros when the
zone has no type.

A stream of the logger is the list of pieces in it, with `cur_` and the highest
place written to; a number has its characters, made by the loop of `convert` (`Left`
is what each round leaves) with its table of digits, a text has only its length.
`Fits` is what `staticCheck` asserts of the types of numbers. `kSmallBuffer` is 150
instead of 4000. `Begin` is the constructor of a `Logger` (the time and its cache
`t_time`, `t_lastSecond`), `End` its destructor; what is between, insertions into a
stream that no other thread sees, is the operator `Line`.

## What the runs show

Passing runs. The type invariant of each module is the first conjunct of the
invariant that needs it (`OwnerSeesThread`, `SameTimers`, `InOrder`, `NoDangling`,
`ReadsBack`, `OneAttempt`, `OneDestroyer`, `CutsDoNotMatter`, `LineIsTrue`); that of
`EventLoop`, about which a theorem is proved, is checked by itself.

- **loop** (`MCEventLoopThread`: owner and two more threads, one descriptor, two
  posts; 83 thousand states): functors are neither lost, repeated nor reordered; a
  pending functor or a quit always has its wake-up, and is acted on without the
  poll's time-out. The loop implements `SerialExecutor`. `startLoop` returns when
  the loop's `initCallback_` is done, with NULL only if that loop has ended since,
  and the join returns if `loop()` had begun. Two posts give two posters, or a
  functor that posts while its batch is run and the next collects.
- **timer_safety** (two addresses, three timers created, clock 0..1, two
  functors pending, symmetric in the addresses; 3 million states): three timers
  over two addresses is the least that reuses one while a stale `TimerID` is
  around.
- **timer_live** (clock 0..2): due timers are taken out.
- **conn_safety** (all seven calls, one thread beside the loop, two bytes, one
  functor posted at a time; 4.9 million states): bytes in order, buffered bytes
  watched, FIN after them.
- **conn_live** (in the loop thread every call but `forceClose` and
  `forceCloseWithDelay`, in another thread `send(Buffer*)` and `shutdown`; two functors
  pending; 406 thousand states): buffered bytes leave, a peer that is gone is noticed,
  and the connection is closed once. With `forceClose` among the calls, of either
  thread, the last does not hold, see below.
- **poller** (three channels over three descriptors, symmetric in the channels;
  342 thousand states): `channels_`, the epoll set and `pollfds_` with its indexes
  agree with the channels, and poll reports no channel that is gone. Three
  channels give a removal from the middle of `pollfds_`, a descriptor marked
  negative among others, and a descriptor with two channels one after the other.
- **buffer** (prepend room 2, initial size 3, operations of up to 4 bytes,
  vector up to 8, two byte values): the room in front, the boundary at
  `writable + kCheapPrependSize` and two growths all occur.
- **client** (one thread beside the loop, two connections, four calls, back-off 1,
  2, 3; 204 thousand states): one attempt at a time and no socket leaked; a stop is
  obeyed once its functor has run; a wanted connection always has an attempt ahead
  of it and comes about; each close of a connection is followed by one
  `connectionDestroyed`. (That there is one close is not so when the destructor
  races with it, see below.) Four calls give connect, stop, connect and the
  destructor; the limit 3 cuts the doubling off.
- **server** (no, one or two pool threads, four connections, limit 1; 169 thousand
  states): each connection is established before it is destroyed, both in its loop,
  and is destroyed by the map's owner or by the removal, never both; none is left
  open when the server is gone; a closed one is destroyed in the end, and the
  destructor returns unless a thread of the pool has lost its quit. Four connections
  go round the loops twice.
- **http** (streams of one to three requests with good, bad, repeated, padded and
  half lines, cut anywhere, under both callbacks): the requests handled are those
  of the uncut stream; a message that handles none leaves none complete; every
  request is answered in order up to the answer that is the last.
- **logging** (two threads, two zones with daylight saving time and one whose plain
  offset falls back, with all their truncated files, five moments at and around the
  transitions and at second 0, two settings, symmetric in the threads; 982 thousand
  states): no write past the buffer; numbers read back; nothing is left out of a
  line that fits with `kMaxNumericSize` (32) places to spare. Without these places a
  number is left out even if it would fit (`LogStream.cc:101` asks for 32 places
  whatever the number): a statement of the run that needs 136 of 150 places loses
  its line number. A line shows the local time of its second, or zeros for a zone
  without types; local and universal time convert back in the zones that fall back
  by daylight saving time only; dates agree with the calendar on every day from 1902
  to 2036. These years have no century that is not a leap year: 1900 and 2100 are
  beyond TLC's 32-bit numbers of seconds, and covered by the theorem.

Deadlock is not checked: a behaviour may end when the thread has exited, the
connection or the server is gone, a bound is reached or an assert has failed.
That nothing stops early is what the liveness properties say.

One run shows a disagreement of the code with its own comment (`PROJECT.json`,
findings): in **conn_shutdown** `disableWrite` (`Channel.h:44`) does not disable
writing, so a shutdown that waits for buffered data never happens.

Other states that the models reach. Most end in a failed assert, which is
modelled as the end of the program; none has a run of its own:

- EventLoop: a `quitLoop` before `loop()` is forgotten, since `loop()` assigns
  `quit_ = false` (`EventLoop.cc:87`), and `~EventLoopThread` then waits for ever. The
  destructor of a server whose pool has just been started meets this too (`told \ quit_`
  in `TcpServer`). `startLoop` may return NULL (`EventLoopThread.cc:50`).
- TimerQueue: `addTimer` in another thread builds the `TimerID` from a timer that
  may be deleted already (`TimerQueue.cc:92`); a timer of the batch that is
  cancelled twice fails an assert (`:139`, `aborted`).
- Channel and pollers: a channel whose events were all disabled is updated again
  under `EPollPoller`, for instance by `startRead` after `stopRead`
  (`EPollPoller.cc:85` asserts that a `kDeleted` channel is not in `channels_`,
  where the comment at `:17` says it is; `aborted` in `Poller`, `index_ =
  "abort"` in `TcpConnection`; `disableAll` in `connectionDestroyed` is another such
  update). Under `PollPoller` a channel that was disabled and is enabled again is not
  watched, since its entry keeps the negative descriptor (`PollPoller.cc:82-92`).
- TcpConnection: `failed = "handleClose"` (events collected before a `forceClose`
  in the loop thread are handled after it, `TcpConnection.cc:141`);
  `"forceClose"` (a posted `forceCloseInLoop` finds the connection closed, `:254`);
  `"~TcpConnection"` (a `shutdown` or `forceClose` in another thread tests `state_`, the
  loop closes the connection, and `kDisconnecting` is assigned after it, which the last
  reference finds, `:55`);
  `"remove"` (`connectionDestroyed` in `kDisconnecting` removes an enabled
  channel, `EPollPoller.cc:114`; `~TcpServer` does this too); a destroyed
  connection with `isInLoop_` (a late `sendInLoop`, `Channel.cc:32`). A
  `send(Buffer*)` posted from another thread is given up if a shutdown comes
  before it runs; the order properties are about what `sendInLoop` took.
- Buffer: `makeSpace` (`Buffer.h:249`) moves bytes although that does not make
  room, and the assert at `:176` fails; after a `prepend` below
  `kCheapPrependSize` a move runs past the vector (`"overflow"`).
- Connector: `startInLoop` asserts `kDisconnected`, and a retry timer left over
  from before a stop, or a second `connect`, finds it otherwise; `connecting`
  asserts `connected_`, which a stop may have cleared since `startInLoop` read it,
  and `!connectChannel_`, which an earlier attempt's functor has not reset yet.
- TcpClient: a `stop` between the read of `connect_` in `removeConnection` and
  `restart` is overwritten; functors bound to a raw pointer run after the
  destructor; a Connector that a timer keeps calls a client that is gone; a connect
  in progress fails the assert of `~Channel`; the `forceClose` of the destructor
  (`TcpClient.cc:59`) tests `state_`, the loop closes and destroys the connection,
  and after the assignment the functor closes and destroys it again, or fails an
  assert if it is closed and not yet destroyed (`EPollPoller.cc:85`).
- TcpServer: a removal posted before the destructor runs after it; a loop of the
  pool that ends with functors left drops their connections
  (`~TcpConnection` asserts).
- HTTP: the question mark is looked for after the second space
  (`HttpContext.cc:55`), so a query stays in the path, and a question mark in the
  version makes `setQuery` throw, which ends the program; a header line without a
  colon ends the headers; a bad request line stays in the buffer and is parsed
  again with every message; a request behind another of the same piece waits for
  the next piece.
- Logger: the first line of a thread in second 0 fails the assert of `T`; within
  a second a thread shows the zone of its first line, also after `setTimeZone`; a
  zone whose file is missing is valid and shows a `tm` of zeros, and `fromLocalTime`
  dereferences a null `local` in it (`TimeZone.cc:300`, `:309`). A zone that falls back
  otherwise than by an hour of daylight saving time does not convert back
  (`TimeZone.cc:306`), as Moscow did in 2014.

## Fairness

- `EventLoop`: the loop thread is scheduled while it is not blocked and
  callbacks return (`WF` of its steps), and a thread that has pushed reaches its
  write to the eventfd. Nothing forces a post, a call of `loop()`, or the poll's
  time-out, so liveness does not rest on the 10 seconds.
- `EventLoopThread`: the same for both threads; whether the owner starts or
  destroys is its choice.
- `TimerQueue`: the clock advances to its bound, the kernel reports an expired
  timerfd, the loop does not stay in a callback.
- `TcpConnection`: the loop polls again and again, and a peer that is there
  makes room in the send buffer infinitely often (`SF` of a poll that reports it);
  functors are not put off for ever; a thread finishes a call it has begun.
- `TcpClient`: the loop thread goes on and a thread finishes a call it has begun.
  That a server which is tried again and again is reached in the end is an
  assumption about the network (`SF` of `ConnectProceeds` and `NewConnection`);
  without it `Connects` is false of every program. Nothing makes the user call.
- `TcpServer`: each thread of the pool enters its loop, each loop runs its functors and
  ends once it finds `quit_` set, the destructor
  goes on, and the timer of `forceCloseWithDelay` fires. Nothing makes a peer
  close, or the user start, quit or destroy.

`HttpServer` and `Logger` have no liveness property: what they promise is about
calls that return.

## Proofs

Every safety invariant that the runs check is proved for all values of the
constants: any threads, channels, descriptors, addresses, connections, streams,
statements, zones and bounds. Each proof has an inductive invariant, a lemma per
action that keeps it (per conjunct where the action disturbs several), and theorems
that read the checked property off it. TLC checked the invariants on the instances
of the runs before they were proved.

**EventLoopThreadProofs**, of the loop by itself:

- `TypeCorrect`: `TypeOK`, with `FlagsTellWhere`, is inductive by itself. It says
  that `isHandlingPendingFunctors_` is set exactly in `doPendingFunctors`, on
  which the wake-up policy rests.
- `ExactlyOnce`: `ExactlyOnceInOrder` is inductive given `TypeOK`; the lemma
  `MoveHead` is the step of a functor from the batch to the history.
- `WakeupNotLost`: `NoLostWakeup` is inductive given `TypeOK`: the only action
  that clears the eventfd is in a dispatch, which `doPendingFunctors` follows.
- `QuitWakesLoop`: `QuitNotLost`, from `TypeOK` in the same way.
- `Refinement`: every step is a `Post`, an `Execute` or a stutter of
  `SerialExecutor`; `NextInOrder` uses `ExactlyOnceInOrder` to show that the
  functor executed is the next one posted.

and of the thread that owns it: `ThreadRunsEventLoop` shows step by step that what the
owner and `threadFunc` do to their loop is a step or a stutter of `EventLoop`, so
the five theorems above hold of that loop too (`ThreadLoopIsSafe`,
`ThreadLoopRefinement`). `OwnerMayRely` is `OwnerSeesThread`, with the NULL that
`startLoop` may return when the loop has ended; it needs `Handshake`,
which says what `start_` and `loop_` are at each place of the two threads: that the
owner waits only after it has set `start_`, and that a thread past `init` has
published its loop.

**TimerQueueProofs.** The inductive invariant of `OneTimerOnePlace` is `SameTimers`,
`Ownership` and `SequencesOK`. The last is what makes the first two inductive when
addresses are used again: every timer on the heap has a sequence number of its own,
so a `TimerID` that outlives its timer matches nothing. `TimersAreArmed` proves
`TimerfdCovers` on top of it. `CancelledStaysOut` needs `CancelInv`: a timer
cancelled while in the batch is in `cancelledTimers_` until `resetTimers`, and no
timer outside the batch has a cancelled number.

**TcpConnectionProofs.** `BytesInOrder`: what was sent, followed by what is
buffered, is the run of numbers from 1 to `accepted`; the lemmas about runs
(`RunConcat`, `RunSplit`, `RunSubSeq`) are the writes that take a part of a buffer.
`ChannelOK` adds that `index_` and `isInLoop_` agree. `Watched` and `FinLast` are
inductive together: a shutdown happens only when the channel is not enabled for
writing, and then nothing is buffered. `ClosesOnce` has the hypotheses of the run
`conn_live`: the loop thread calls neither `forceClose` nor `forceCloseWithDelay`, and
other threads call `send(Buffer*)` and `shutdown` only. With `forceClose` in either
thread the property is false of the code (see above). Its `CloseInv` relates
the events that were collected to the close: none that closes is left after it.

**PollerProofs.** `PollerInv` has for each poller what `index_` means: under epoll,
whether the kernel has the descriptor; under poll, the place of the entry in
`pollfds_`, and that every entry belongs to one channel. The step that needs it is
`PollRemove`, where the last entry is moved into the gap and, if its descriptor is
hidden as `-fd - 1`, found again through `FdOf`. `EPollCorrect`, `PollfdsCorrect` and
`NothingDangles` follow from it.

**InputProofs.** `BufferReadsBack`: `BufferInv` says that the bytes between the two
indexes are the history `content`; `makeSpace` is shown to keep them, whether it
moves or grows, for every size of the room in front.

The theorems about `HttpServer` hold for any set of streams and any way to cut them.
`ServerInv` relates what the parser has (its context, what is left in the buffer) to
a place in the stream: the buffer is the window from there to the last token that
came, and the context is that of the complete lines before it, from the start of the
request on. `RoundKeeps` shows this for one round of `parseRequest` (`RoundWaits`,
`RoundRequestLine`, `RoundHeader`), and `ParseFinishes`, by induction over the rounds,
that the loop ends in no more rounds than there are tokens. `GotIffRequest` is the
heart of it: a message ends with a request exactly if the stream so far has one at
that place, which a cut cannot change, since lines that are complete stay what they
are when more tokens come (`Window`, `LineSeen`, `LinesUpTo`). `CutsDoNotMatterHolds`
and `NoRequestWaitsHolds` follow; for `AnsweredInOrderHolds` the conjunct `Answered`
says which reply is the last one, and that the connection is not `kConnected` after it.

**LoggerProofs.**

- `ShownInZoneHolds`: `LogInv` has, beside the types, that the text a thread caches
  is that of its last second in a zone of that second, or zeros if that zone has no
  types. It holds of every file that is `WellFormed`. What toLocalTime computes is
  in the lemmas about zones: a zone is viewed as the transition times with the
  offsets between them (`ZoneViewed`), `lower_bound`'s result is the place of the
  time among them (`PlaceExists`, `Finds`), and the zone of a truncated file
  has all transitions or none (`ZonesOK`).
- `LocalRoundTripHolds`: `FoundAgain` looks a local time up again. The search by local
  time ends at the same transition, or at the next one when the time is in the hour
  that comes twice, and then `tm_isdst` tells which of the two it is. This is where
  `OnlyDstFallsBack` is needed; it is a hypothesis of `LocalRoundTrip` on each zone, and
  without it the conclusion is false.
- `CalendarAgreesHolds`: both Julian day conversions count years from March
  (`FromMarch`, `Cycles`: 400, 100, 4 years and one), which gives that they are inverse
  (`DateInverse`) and that the next day has the next number (`NextDate`); that the
  years before are counted as the calendar counts them is an induction over the
  years, in both directions from 1970 (`YearsCounted`).
- `LineIsTrueHolds`: `DigitsAre` says what the loop of `convert` leaves after each
  round and where it ends, `InOrderDigits` that the digits read from the other end
  give the number back, `NumberReadsBack` and `PointerReadsBack` add the sign, the
  prefix and the room for the terminating zero. A stream is in `TrueStreams` if it
  is as `LineIsTrue` says; every insertion keeps it there (`WrittenIsTrue` and
  `LeftOutIsTrue`, for a piece that fits and one that does not), so a line is, by
  induction over the pieces of its statement (`PutAllIsTrue`). The places to spare are
  part of the statement, as in the run: the code does leave out numbers that would fit.

**TcpClientProofs.** `ClientInv` is the conjunction of what an attempt is
(`Attempt`: socket, channel, `state_` and the posted reset agree), of `StopSeen` and
`Tries`, of `OneOpen` (an open connection is `connection_`, and no restart runs
beside it) and of `Closing` (identifiers are fresh, one
`connectionDestroyed` for each connection in the phase `closed`, whatever another
thread has assigned to `state_` meanwhile, and the destructor's steps have not begun while
the client is alive). It claims nothing that rests on a test and an assignment of
`state_` being one step; that a connection is closed once does, and is false.
None of the four checked properties is inductive alone: a restart is harmless only
because the lost connection left `state_ = "kConnected"`, which `Attempt` says of
`loopPc = "restart"`. Functors are counted (`Post`, `Take`), since a second one is
what would go wrong.

**TcpServerProofs.** `ServerInv` says of each connection where its functors are
(`Placed`), that `established` and `destroyed` are posted once, in this order, in
its own loop (`InLoop`), and that the removal is in the base loop exactly while the
closed connection is in the map (`Removal`); and of the destructor that a loop of
the pool ends only with its `quit_` still set and an empty queue, and is then not
`looping` (`EndOK`). With it,
`numConnection_` of the example is the number of connections that are up.
`DestroyedByOne` and `EstablishedBeforeDestroyed` follow. That the destructor posts
for each connection once is `AllOnce`, whatever the order of the map.

The assumptions on the constants are named and evaluated by TLC: `LoopAssumption`,
`BoundAssumption`, `WakeupAssumption` (`EventLoop`), `OwnerAssumption`
(`EventLoopThread`), `DelaysAssumption`, `IntervalsAssumption`, `BoundsAssumption`
(`TimerQueue`), `CallsAssumption`, `OwnerAssumption`, `BoundsAssumption`
(`TcpConnection`), `FdsAssumption`, `NullAssumption` (`Poller`), `ByteAssumption`,
`SizesAssumption` (`Buffer`), `DelayAssumption` (`Connector`), `ClientBounds`
(`TcpClient`), `ServerBounds` (`TcpServer`), `StreamsAssumption` (`HttpServer`),
`BufferAssumption` (`LogStream`), `LoggerAssumption`, `TimesAssumption`,
`ZonesAssumption`, `YearsAssumption`, `StatementsAssumption` (`Logger`). They give
the constants their types; beyond that they say that the back-off starts at or below
its limit, that descriptors are not negative, that zero is a byte, that `NULL` is no
channel, that the loop thread is not one of its posters, which the owner is, and
that the eventfd is none of the other descriptors. Those of the logger say more:
zone files are `WellFormed`, as the TZif format has them; numbers that are logged
have no more digits than `staticCheck` (`LogStream.cc:90`) asserts of their types,
and the text of a double, which `snprintf` writes into `kMaxNumericSize` places, is
not cut off; years start where the numbers that Date divides are not negative, since
its divisions truncate.

Induction over numbers is taken from the well-foundedness of `<` (`LeastNat`,
`Induction`, in the form of a set of numbers), and that a recursive function exists
from it (`IterationExists`, `RecursionExists`). For this the models write loops as
recursive functions or as rounds, not as recursive operators.

Only model-checked: liveness (`PostedRuns`, `StartReturns`, `JoinReturns`, `Expires`,
`Flushes`, `PeerCloseSeen`, `Connects`, `ClosedIsDestroyed`, `DestructorReturns`), which
the prover does not reach.

## Plan

Done: all modules above; the proofs of every safety invariant that the runs check.

Left, in this order:

1. both pollers as implementations of an abstract interest set, as a property of
   the run and as a theorem of `PollerProofs`;
2. action properties of the modules that have proofs (what a step may never do to a
   destroyed connection, or to a byte that was sent);
3. a second clock for `TimerQueue`, which the wall clock may leave.

## Not modelled

- `Socket`, `SocketsOps`, `InetAddress`, `Endian`: wrappers of system calls. What
  can fail in them is a choice of the module that calls them; addresses, byte
  order and socket options have no state to explore. `isSelfConnect` is one of the
  failures of `HandleFailure`.
- `Buffer::swap` and `unwrite`: nothing calls `unwrite` (which adds where it
  should subtract); `swap` exchanges two buffers.
- `setOutput` and `setFlush` of the logger, the text of doubles (`snprintf`),
  abbreviations of zones, `Timestamp`'s formatting.
- Atomics, thread locals, `StringPiece`, `CurrentThread`, `WeakCallback`: wrappers
  of the language. `WeakCallback` is the timer of `forceCloseWithDelay`, which does
  nothing once its connection is gone.
- The other examples (`multiplexer`, `socks4a`, `idleconnection`, ...) and the
  tests: programs that use the library.
