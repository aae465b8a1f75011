# Verification of torchServer

TLA+ models of torchServer, an HTTP server in C++ that classifies posted images
with a torch model: an epoll event loop, a thread pool, a heap of timers, a
pool of MySQL connections and an asynchronous log. `code/...` below is
`src/code/...` of the repository.

## 1. The system

| component | state | operations | called by |
|---|---|---|---|
| `server` (`code/server/server.cpp`) | `users_` (fd to `http_conn`), the listening socket, the modes | `start`, `deal_listen_`, `deal_read_`, `deal_write_`, `on_read_`, `on_write_`, `close_conn_`, `add_client_`, `extent_time_` | `main`; `on_read_` and `on_write_` run as tasks of the pool, `close_conn_` also as callback of a timer |
| `epoller` (`code/server/epoller.cpp`) | the kernel's registrations | `add_fd`, `mod_fd`, `del_fd`, `wait` | event loop (`add_fd`, `wait`), every thread (`mod_fd`, `del_fd`) |
| `timer_heap` (`code/timer/timer_heap.cpp`) | `heap_`, `ref_` | `add_timer`, `adjust`, `rm_timer`, `tick`, `pop`, `clear`, `get_next_tick` | event loop |
| `thread_pool` (`code/pool/thread_pool.h`) | queue of tasks, `is_closed` | constructor, `add_task`, destructor | event loop; detached workers |
| `http_conn` (`code/http/http_conn.cpp`) | `fd_`, `is_closed_`, two buffers, two iovecs; the static `user_cnt` | `init`, `reset`, `read`, `write`, `process`, `close_conn` | event loop and workers, without a lock |
| `http_request`, `http_response` (`code/http`) | state of the parser; file to send | `parse`, `verify_user_`, `make_response`, ... | `http_conn` |
| `buffer` (`code/buffer/buffer.cpp`) | bytes, read and write position | `append`, `retrieve`, `read_fd`, ... | `http_conn`, `Log` |
| `sql_conn_pool`, `sql_conn_RAII` (`code/pool`) | queue of connections | `init`, `get_conn`, `free_conn`, `close_pool` | `verify_user_` in workers |
| `Log`, `block_deque` (`code/log`) | queue of lines, file | `init`, `write`, `flush`, `async_write_`, `~Log` | every thread; one logger thread |
| `torch_model`, `main`, client, webbench | | | |

The main thread waits in `epoll_wait`, closes idle connections (timers), accepts
connections and hands each readable or writable connection to the pool. A worker
reads and answers (`on_read_`), or sends (`on_write_`), and then arms the
connection again for one event, or closes it. `EPOLLONESHOT` is what keeps two
threads from the same `http_conn`, which has no lock; the timer callback goes
around it.

What makes each part correct:

* event loop: a connection is in one place at a time, what acts on a descriptor
  acts on the connection it was meant for, `close` happens once, `user_cnt`
  counts the open connections, no connection and no arrival is forgotten, every
  waiting client is answered for;
* timers: heap and index agree, the earliest deadline fires first, every timer
  fires unless it is moved, the wait of the loop is limited while one is pending;
* thread pool: no task lost, repeated or reordered, no lost wake-up, the queue is
  drained before the threads end;
* SQL pool: no connection lost, waiting threads are served, one user for each
  connection (which fails, see section 7);
* log: each line written once, bounded reordering, no deadlock of the two mutexes;
* one connection: what the client gets is its answer, from the first byte to the
  last through every partial write; a body that comes in parts is put together in
  order; nothing of one request or client leaks into the answer to another; a
  request that has arrived is answered;
* forms and images arrive as they were encoded.

Hard to test: the interleavings of timer callback, tasks and loop over one
descriptor number; edge-triggered arrivals; wake-ups against closing; swaps in
the middle of a sift; a clock that moves between two readings or is set back;
requests cut anywhere by the network, answers cut anywhere by a full socket; an
object used by one client after the other; errors at start-up. `PROJECT.json`
lists each hazard at its line.

## 2. Modules

| module | models | state and actions |
|---|---|---|
| `Server` | event loop, `epoller`, life cycle of `http_conn` | `conn`, `interest`, `backlog`, `listen_edge` are the kernel's; `is_closed`, `user_cnt`, `timer`, `tasks` the program's; `events`, `listen_event` the rest of the `epoll_wait` result; `pc` and `job` where each thread is. One action per access to shared state: `close_conn_` is `Del`, `CheckClosed`, `SetClosed`, `CountDown`, `CloseFd`. `abandoned`, `outlived` (the descriptors that a timer closed while a task for them was queued or running) and the field `conn` of a job are history |
| `TimerHeap` | `timer_heap`, clock | one action per loop turn: `SiftUp`, `SiftDown`, `Erase`; one per operation: `AddTimer`, `Adjust`, `RmTimer`, `Clear`, `NextTick`, `TickFire`, `TickEnd`, `NextRes` |
| `TimerMap` | what `timer_heap` promises: a map of deadlines | refined by `TimerHeap` |
| `ThreadPool` | `thread_pool` | one action per critical section, notifications apart |
| `TaskPool` | what `thread_pool` promises: each task started once, in order, and all before the end | refined by `ThreadPool`; its queue is the `tasks` of `Server` |
| `SqlConnPool` | `sql_conn_pool`, `sql_conn_RAII`, `verify_user_` | one action per critical section and per step of `verify_user_` |
| `AsyncLog` | `Log`, `block_deque` | one action per access under the queue's mutex; `log_lock` is `Log::mtx_` |
| `Buffer` | `buffer` as a value: size, read position, readable bytes | one operator per operation: `AppendTo`, `Retrieve`, `MakeSpace`, `ReadFd`, ... |
| `HttpRequest` | `http_request`: the parser | `read_buff`, `request`, `cls_probs`, `parse` (where `parse` is, or what it returned); one action per turn of its loop: `ParseRequestLine`, `ParseHeader`, `ParseBody` |
| `HttpResponse` | `http_response` | `write_buff`, `response`; `MakeResponse` chooses code and file and fills the write buffer |
| `HttpConn` | one `http_conn` with `on_read_` and `on_write_`, composed of the three above; its clients, one after the other, and the socket | `pc` where the connection is, `iov`, `iov_cnt`; one action per system call (`Read`, `Write`), per turn of the parser (`Parse`) and per answer (`Respond`); `ReadEnds`, `NeedMore`, `OnWriteEnds` are the branches of `on_read_` and `on_write_`. `answer`, `sent`, `dropped` and `owed` are history |
| `FormBody` | `parse_from_url_encoded_` and `base64_decode` | one action per kind of character of a body |
| `MC...` | instances for TLC | |
| `ThreadPoolProofs`, `ServerProofs`, `TimerHeapProofs`, `SqlConnPoolProofs`, `AsyncLogProofs`, `HttpConnProofs`, `FormBodyProofs` | theorems | |
| `NumberLemmas` | the least number principle | cited where an induction over data is replaced by a least counterexample |

Operators called a *faulty variant* next to an action are what that action would
be with a plausible mistake; the specifications do not use them, PROJECT.json
pairs each property with one that breaks it.

### What the models abstract

* `Server`. The content of requests: `on_read_` and `on_write_` may end in any way
  the code has for them. Time: a timer expires at any moment, also while a task
  of its descriptor is queued or running, as `tick` looks at nothing but the
  clock. A dispatch moves the timer `timeout_ms_` (5 s in `main.cpp`) into the
  future, but nothing bounds the time a task waits in the queue, for a database
  connection or for the model. `epoll_wait` may report any armed connection. A
  descriptor number stands for a connection only: that a closed one may be given
  to a file or to the database client is left out. A full descriptor table
  (`accept` fails) is part of the model. A `SetClosed`, `CountDown` or
  `CheckClosed` by two threads at once is an interleaving of whole accesses;
  `is_closed_` is a plain `bool`.
* `TimerHeap`. One timeout for all timers, as the server uses it. A deadline is a
  whole number of milliseconds. The callback is recorded in `called` and does not
  touch the heap, as `close_conn_` does not. `rm_timer` and `clear` have no
  caller in the loop and are modelled as further operations.
* `SqlConnPool`. A query succeeds or fails. With the assertion of `verify_user_`
  failed the process stops (the build is a debug build without `NDEBUG`).
* `AsyncLog`. The name of the file and its rotation. `~Log` runs in the main
  thread after `main`, which returns only if the construction of the server
  failed: no worker has a task then, and nobody logs.
* `Buffer`. The content is a sequence of units; a unit of `HttpRequest` is a token
  (method, target with version, header field, CRLF) or a byte of a body.
* `HttpRequest`. The two regular expressions are what they accept. The network
  cuts a request between two tokens, not inside one: a cut inside a token ends a
  line early as a cut behind the method or before a CRLF does. Headers other than
  the three the code reads behave as those do. `verify_user_` and the model have
  every outcome they can have: a user is accepted or not, an image is classified
  or the decoder throws. A classification is named by the body it was made from.
* `HttpResponse`. The header is two units, so that a partial write can end inside
  it. A file is what `stat` says at start: files do not change.
* `HttpConn`. `ET` is chosen at the beginning, as `init_event_mode_` does. The
  client acts while the connection is idle or read from; what it sends at other
  times waits in the socket until the next read and makes no difference. It may
  leave at any system call. That two threads never have the connection at once is
  what `Server` shows, for a connection that no timer closes under a task. Where
  the program ends by the assertion of `http_response::init` that there is a path
  (a request line with an empty target fails it), by an exception
  (`string::erase` of an empty classification, OpenCV), by SIGPIPE, which it does not ignore, or by undefined behaviour, `pc` is
  `"crashed"`. The wrapped length in `read_fd` is undefined behaviour: the copy
  ends the process (`ReadCrash`), or `resize` cuts the buffer and nothing is
  copied (`Shrunk`). The second iovec of a new object is uninitialised: 0 or 1.
* `FormBody`. Characters are codes, as the decoders compute with them. The client
  encodes as a browser does for the forms of `resources/login.html` and
  `resources/register.html`: a space is sent as `+`, which the decoder leaves as
  it is. A `%` has two characters behind it, as in whatever a client encodes.
  Names differ and have no space, and every field has a `=`.

## 3. Runs

| run | instance | shows |
|---|---|---|
| `MCThreadPool` | 3 workers, 4 tasks | order, exactly once, no lost wake-up, every task runs, every worker ends, refinement of `TaskPool` |
| `MCServer` | 3 descriptors, 2 workers, 3 connections, 2 users, ET listener, timers that expire at any moment | for each descriptor no timer closes under a task: one handler, right connection, closed once; for all of them: nothing forgotten, the assertion of `adjust`, timers cover; a count never too high, and exact until a timer closes under a task |
| `MCServerLive` | 2 descriptors, 1 worker, 3 connections, 1 user, LT listener, timers | each reported connection is watched again or closed; whenever a descriptor is free, the first of the backlog is accepted or refused, and the next after it |
| `MCTimerHeap` | 4 timers, deadlines 1 to 3, a clock up to 2 that may be set back once | index and bounds, no timer keeps its deadline for ever; with a steady clock also order and refinement of `TimerMap` |
| `MCTimerHeapWait` | 2 timers | *violation* of `LimitedWait` |
| `MCSqlConnPool` | 3 workers, 2 connections, 4 calls, failures at start-up | no lost connection, calls end |
| `MCSqlConnPoolSize` | 2 workers, 2 connections | *violation* of `PoolBounded` |
| `MCAsyncLog` | 3 writers, queue of 2, 5 lines | each line once, bounded overtaking, no wait with the log locked, every line written |
| `MCHttpConn` | 2 clients one after the other, 2 requests out of 7 kinds, buffers of 12 units | answers in order and whole, from a buffer that agrees with the iovecs; bodies in order; results of the right image; requests answered; buffer positions inside |
| `MCHttpConnParse` | 1 request | *violation* of `ParseComplete` |
| `MCHttpConnRead` | 1 request, buffer of 6 units | *violation* of `ReadTakesAll` |
| `MCFormBody` | 2 fields of up to 2 characters, space, `+`, `=`, `&` and `%` among them, images of up to 4 bytes | fields arrive, spaces as `+`, and images |

Why these bounds. The shared object in `Server` is a descriptor: reuse needs one
more connection than descriptors in use, a double close two threads and one
descriptor, refusal more descriptors than users; each occurs in `MCServer`, as do
timers that expire under a task on one descriptor while the others are in time.
In `MCServerLive` a connection can be counted out and not yet closed while
another has the second descriptor and a third one waits: `accept` fails with a
backlog, and the level-triggered loop turns until the worker has closed. Four
timers are a heap of three levels, in which the node that replaces a deleted one
can move down, or up in the other branch. `MaxClock` bounds the time, not the
deadlines: timers are added and renewed to later than the last moment of the
model, so `TimersFire` is not a consequence of everything coming to rest, and
speaks of the deadlines that are reached. In `MCHttpConn` a buffer of 12 units takes one
request whole but not two, so that reads fit, spill and move data; two clients
on one object find what a former one left; the seven kinds are a file that is
kept alive, a request with an empty target, an image with announced length, one announced as empty, a login, a
file nobody may read, and what the client of the repository sends, whose body has
no announced length.
Images of one to four bytes are every length modulo three with a full group
before it. Two connections or a queue of two lines with three threads make
waiting, barging and overtaking happen. The counters of calls, tasks,
connections and lines (`MaxTasks`, `MaxConn`, `MaxCalls`, `MaxLines`,
`MaxClock`, `MaxAsked`) are bounds of the model, not of the code. Deadlock is
not checked where the bounds end the behaviour or the program may stop;
`TimerHeap` never stops.

## 4. Fairness

Threads that can run do run: weak fairness of each worker, of the main loop and
of the logger, and of the destructors once they have started. A mutex is not fair to
a particular thread: taking a task or a connection is weakly fair for the
workers together, not for each. Tasks and queries end. Nothing forces a client
to connect, send or leave, a caller to call, or a timer to be renewed.
`epoll_wait` is required to return for a ready listener only. In `HttpConn` a task
that has started runs, input and the end of a client are reported, and a client
that does not read its answer is either reported as writable some time or closed
by its timer, which is why `Answered` needs no patience of the client. One
condition on `Serve` says all of this, since no two of its parts compete but the
last two. In `TimerHeap` time
goes on, and `NextTick` has strong fairness, as calls of other operations come
between two turns of the loop but do not replace them; `TimersFire` is claimed
while the loop turns (`[]<>(pc # "wait")`), because the loop may sleep without
limit (section 7).

## 5. Proofs

Proved by TLAPS for every value of the constants, from the named assumption of
each module:

* `ThreadPoolProofs`: `TypeCorrect`, `QueueOrder`, `AtMostOnce`, `WakeupNotLost`,
  `ExitAfterDrain`, and `RefinesTaskPool` (initial states and steps; not the
  fairness). The inductive invariant adds to the properties that `is_closed` is
  set exactly while and after the destructor runs (`Phase`), without which
  `add_task` could follow it, and that a worker has a task exactly while it runs
  one (`TaskSet`), which the refinement needs.
* `ServerProofs`: `TypeCorrect`, `AdjustSafe`, `TimersCover`, `EdgeNotLost`, in
  every configuration. The inductive invariant `LoopInv`
  says what the main thread is doing with which job (`MainJob`, `WorkerJob`),
  that the batch is empty between two waits (`BatchScope`), that what is watched
  or reported has a timer (`TimerKept`), and why a descriptor is open without
  one (`OpenExplained`).
* `ServerProofs` as well, with no assumption on how long tasks take: `OneAtATime`,
  `NoReuse`, `NoDoubleClose`, `NoneLost`, `UsersCounted`. The first three are about
  the descriptors that are in time, and so is their invariant: `HandlerInv` is
  `Safe(fd)` for each of them, by which one place holds it (`OneHolds`, `Lone`),
  for the connection it has (`Owns`, `TasksOwn`), an armed one has no handler
  (`OneShot`), a handled one is disarmed and open (`Disarmed`, `RealConn`), and
  the flag `is_closed_` agrees with the progress of a close (`FlagSet`). That
  this is inductive says that a timer that expires under a task does no harm to
  any other descriptor, even one accepted meanwhile. Each step has one
  case for each action. `NoneLost` holds for every descriptor: `LostInv` says
  that a disarmed one is in the batch, in the queue or with a thread that will
  watch or close it (`Held`), and that an open one out of epoll is with a thread
  that is registering or closing it (`Passes`). For `UsersCounted`, `CountInv`
  adds that the connection being accepted was admitted below `MAX_FD`. A close
  that finds its connection gone counts down all the same, which makes the count
  too low. Exactness, while nothing is outlived, needs `NoDoubleClose`.
* `TimerHeapProofs`: `TypeCorrect`, `IndexAgrees`, `AssertionsHold`,
  `HeapOrdered`, `RefinesTimerMap`, for any ids, timeout and clock. `Swap` says what
  `swap_node_` of two nodes keeps: everything but the places. The inductive invariant
  adds where a sift is (`Inside`: the node to be dropped stays at the end, out of
  its reach), where order may be disturbed meanwhile (`Sorted`: at the moving node
  only, whose children are not before its parent), and that no deadline is later
  than `clock + Timeout` while the clock is steady (`Newest`), which is why `adjust`
  needs no sift upwards. `RootFirst`, that the root of a heap is its minimum, takes
  the place of an induction along a path to the root by a least counterexample
  (`LeastNatural`).
* `SqlConnPoolProofs`: `TypeCorrect`, `NothingLost`. `NoneLost` is inductive
  together with the types: a connection leaves the queue only into the hand of the
  thread that takes it (`GetConnTakes`), and the hand of a thread only into the
  queue (`FreeConnGives`).
* `AsyncLogProofs`: `TypeCorrect`, `NoWaitWithLock`, `LinesOnce`, `FewOvertaken`. The inductive
  invariant adds that a thread inside `Log::write` holds `mtx_` (`HoldsLock`) and has
  a line (`HasLine`): between the test of `full()` and `push_back` nobody else can
  push, and the logger only takes away. For `LinesOnce` it is strengthened: whoever
  is not at a line has none (`HandFree`), no line is ahead of the count (`Known`), and
  the destructor runs alone and closes an empty queue (`Alone`), as `Close` throws
  away what is in it. That a line has one place is carried as `Places(x) = {p}`,
  and each step moves `p` or leaves it. For `FewOvertaken` the queue is in the order
  of the lines and the logger is behind all of it (`Ordered`), and `Behind` puts the
  lines that overtook the k-th line of the file together with those that still
  can, in the queue or in the logger's hand. This set never grows: a line that is
  pushed is the newest. When line k is written it is at most the whole queue and
  one line more; as no line is in the file twice, it bounds the positions too.
* `HttpConnProofs`: `Typing`, `SendsInOrder`, `BufferAgrees`, `AnswersThisImage`,
  `SendsAll` (an action property), `BodiesInOrder`, for any requests, files, initial size of
  a buffer and size of the array on the stack of `read_fd`. The first lemmas
  say what each operation of `buffer` does to its data and that its positions
  stay inside (`IsBuffer`). `IInv` has four parts: the types; `Phase`, by which an answer is
  always what was sent, then the rest of the first iovec, which the write buffer
  holds as well, then the rest of the second; `Shape`, what the request can have in
  each state of the parser, so that `BODY` means that something is missing; and
  `Classified`, that `cls_probs_` is of the present body as soon as this is whole, and
  is what the answer carries. `BodiesInOrder` needs more, as it follows from what
  the client sends: `BInv` adds `Stream`, which says of the bytes read, in the socket
  and still to come, put together, that behind each length header come as many
  bytes of one request (`Announced`), and that what the parser waits for comes next
  (`AwaitsBody`, `AwaitsRest`). It is not inductive with what the client has
  still to send alone: a client may leave in the middle, and then `Stream` speaks
  of what it would have sent.

* `FormBodyProofs`: `FormsArrive`, for forms of any number of fields, of any length and of any
  characters, with a `+` for each space of a value, and for images of any content. It compares decoders with encoders,
  which are concatenations over the text, and `FlattenSeq` is recursive. The recursion is
  unfolded by a least counterexample (`FlatExists`, `AllLaid`), which gives the
  place of each part in the concatenation (`Layout`) and from there the place of each
  character in the body (`Reads`). The invariant `FormInv` says that the loop stands behind
  such a character, has the part of the name or value before it in `cur` and the
  fields before it in `post_`; what it finds there (`Ahead`) decides which action
  there is. `Base64Arrives` takes a byte, by the remainder of its position by 3, from
  the bits of two characters (`SixIs`, `BitsOfByte`), and finds the number of
  characters before the padding (`SignificantIs`, `Lengths`).

`FormAssumption` says that no name is twice in a form; a form that repeats one
is decoded differently in the middle and at the end (section 7). It also says
that no name has a space: `post_` would have it under another name.
`ConnAssumption` is about the requests: a client announces no more bytes than it
sends. This is what HTTP asks of a client; a client that sends less than announced
and then goes on with another request has its requests mixed, and no server could
tell them apart. `BufferAssumption` and `AsyncLog`'s `LogAssumption` only say that sizes are
numbers and names differ.

Proving `ResultOfImage` failed at first, and for a reason: a body announced with
length 0. `parse` leaves its loop with the header when nothing is behind it, so
that `parse_post_` never runs, and the answer has the classification of an earlier
image. TLC confirmed it with a request of that kind (`Empty` in `MCHttpConn`); the property now
says what it means, a body with something in it, and the request stays in the
instance.

Only model-checked: liveness, and the fairness part of the refinements, which are out
of reach of the prover.

## 6. What is not modelled

`torch_model` is numerical library code; `main` is one call, whose arguments are
the constants here; of the client only the request is modelled, what it does with
the answer is printing; webbench is vendored. The rotation of the log's file is
left out: `fp_` is exchanged with `mtx_` held. The test before it is not
protected, so that around midnight, or at a multiple of `MAX_LINES`, threads can
rotate twice, back to the file of yesterday, or not at all; what a file contains
is promised nowhere. The text of headers, status lines and log lines is
formatting. The operations of `block_deque` and the accessors that nobody calls are left out.

## 7. Findings

* `get_next_tick` (`code/timer/timer_heap.cpp:126`) keeps the remaining time in an
  unsigned variable. The correction at line 129 never applies, and a timer that
  runs out between two readings of the clock makes `epoll_wait` block without
  limit, which `code/server/server.cpp:78` means for an empty heap.
* `verify_user_` (`code/http/http_request.cpp:168` and `207`) frees its connection
  twice: the pool outgrows its configured size and shares connections.
* `parse` returns 0 for a request of which only a part has arrived
  (`code/http/http_request.cpp:65`), against its comment: the part is answered, and
  the body that follows is read as the next request, or dropped by `reset`.
* `read_fd` (`code/buffer/buffer.cpp:100`) takes the wrong number of bytes from its
  second array when the buffer was not empty, against the comment at line 85.

Seen as well, without a run of their own: a connection that cannot be made is
queued as `nullptr` (`code/pool/sql_conn_pool.cpp:27`), and the `assert(sql)` of
`verify_user_` ends the process (`AssertSql`); `Log::init` does not pass the size of
its queue on (`code/log/log.cpp:47`), so that `Capacity` and `QueueCap` are two
constants; level-triggered, `http_conn::write` stops with at most 10240 bytes left
and `on_write_` closes the connection (`code/server/server.cpp:206`), so that
`SentWhole` is stated for the edge-triggered mode; a malformed request is answered
with `404.html` and the status 200 (`code/http/http_response.cpp:88`); a request sent
before the former is answered is dropped (`code/http/http_conn.cpp:28`), which
`Answered` excepts; a `POST /result` without a length, as the client of the
repository sends it, or with length 0, is not always parsed as an image: its answer is the classification
the object has from an earlier request, or an exception
(`code/http/http_response.cpp:76`); an answer without a file counts the stale second
iovec and closes a connection to be kept (`code/http/http_conn.cpp:118`); a form
that repeats a name or has a field without `=` is decoded differently in the
middle and at the end (`code/http/http_request.cpp:245`), and `+` stays `+`
(`code/http/http_request.cpp:240`), although browsers send the spaces of the
repository's own forms (`resources/login.html`, `resources/register.html`) so;
a request line with an empty target passes the parser, and the assertion at
`code/http/http_response.cpp:52` ends the process.

Not counted as findings either, since no text of the repository is contradicted:
when a task waits and runs for longer than the timeout, `tick` closes its
connection under it, and then `close_conn_` in the loop and in a worker can close
a descriptor twice and count it down twice, and a task can act on another
client's connection. The model does all of this; the properties say that it stays
with the descriptors in `outlived`, that no connection is forgotten even then, and
that the count is then too low, never too high;
`~Log` never returns (`code/log/log.cpp:23` locks `mtx_` twice, and
`code/log/block_deque.h:143` can miss the close); an edge-triggered listener
that refuses a client leaves the rest of its backlog until the next arrival.

## 8. Plan

Order of work: the loop and the pool first, as everything runs through them, then
timers, then the two blocking queues, then one connection with its parser, its
answers and its buffers, then the decoders; all of this is done, and every
invariant and action property of the passing runs is proved. Left: the rotation
of the log's file (section 6), and descriptor numbers that the connections share
with files and the database.
