# TLA+ models of Unix-Network-Programming-Practice

The repository is a set of network programs written along two books. Most of its
own logic is in `youshuang/`: event loops over epoll and poll, a thread pool with
a small web server, a process pool with a CGI server, a timer list, and two chat
rooms. `unpv1e3/` is the code of the other book; of it the parts with a protocol
or concurrency are modelled: ten server designs, six echo clients, a reliable UDP
client and a signal-driven UDP server. This directory models those programs in TLA+, checks
the models with TLC on small instances, and proves with TLAPS, for every instance,
all but one of the safety properties that the passing runs check.

Run a check with `tlc -config X.cfg MCmodule`, a proof with `tlapm Module.tla`.

## 1. Inventory

| component | source (under `src/youshuang` unless it says `unpv1e3`) | state | operations |
|---|---|---|---|
| thread pool | `ch15_pool/thread_pool/threadpool.h`, `locker.h` | list of requests, mutex, semaphore, `m_stop` | constructor, destructor, `append`, `run` |
| HTTP parser | `thread_pool/http_conn.cpp` | read buffer, three saved indices, check state, content length | `read`, `parse_line`, `parse_*`, `process_read` |
| HTTP writer | `thread_pool/http_conn.cpp` | write buffer, iovec, file mapping | `do_request`, `process_write`, `write`, `unmap` |
| web server | `thread_pool/web_server.cpp` | `users[]`, user count, epoll registrations | event loop, `init`, `close_conn`, `process` |
| process pool, CGI server | `ch15_pool/process_pool/*` | pids, round-robin index, signal pipes, notification pipes | constructor, `run_parent`, `run_child`, `sig_handler`, `cgi_conn::process` |
| timer list | `ch11_timer/lst_timer.h` | doubly linked list, `head`, `tail` | `add_timer`, `adjust_timer`, `del_timer`, `tick`, destructor |
| inactive-connection server | `ch11_timer/code_11_3.cpp` | alarm, `users[]`, a timer per connection | event loop, `timer_handler`, `cb_func` |
| shared-memory chat room | `ch13_process/code_13_4.cpp` | `users[]`, `sub_process[]`, shared buffers | event loop, `run_child` |
| poll chat room | `ch9_IO_multiplexing/code_9_7.cpp` | `fds[]`, `users[]`, counter | event loop |
| one-shot worker threads | `ch9_IO_multiplexing/code_9_4.cpp` | epoll registrations | event loop, `worker` |
| chapter 8 parser | `ch8_Framwork/code_8_3.cpp` | as the HTTP parser | `parse_line`, `parse_content` |
| samples | `ch5`, `ch6`, `ch10`, `ch12`, `ch14`, `ch16`, other `ch9`, `mini_httpd`, `echo_server` | none that lasts | one system call each |
| server designs | `unpv1e3/server/serv00.c` to `serv09.c`, `child0*.c`, `pthread0*.c`, locks, clients | processes or threads, accept lock, ring `clifd[]`, pipes, `child_status`, `navail` | accept, serve, pass a descriptor, signal handlers |
| echo clients | `unpv1e3`: `lib/str_cli.c`, `select/strcliselect0*.c`, `nonblock/strcli*.c`, `threads/strclithread.c`, `lib/str_echo.c`, `readline.c`, `writen.c` | two buffers with pointers, `stdineof`, read-ahead buffers | `str_cli`, `str_echo`, `readline`, `writen` |
| UDP client with retransmission | `unpv1e3/rtt/*`, `lib/rtt.c` | sequence number, RTO, `nrexmt`, `jmpbuf`, alarm | `dg_cli`, `dg_send_recv`, `sig_alrm`, `rtt_*` |
| SIGIO server | `unpv1e3/sigio/dgecho01.c` | ring `dg[]`, `iget`, `iput`, `nqueue`, signal mask | `dg_echo`, `sig_io` |
| rest of `unpv1e3` | one call or option per program; `ping`, `traceroute` and a resolver | | |

How they interact. Inside the web server the main thread owns the descriptors:
it accepts, reads and writes, and hands an `http_conn` to the pool, whose workers
parse and prepare the answer and hand the object back by arming its
`EPOLLONESHOT` registration. In the process pool the parent only watches the
listening socket and writes a notification into a child's pipe; the child
accepts. Children report by `SIGCHLD`, the parent by `SIGTERM`; each process has
a pipe between its signal handler and its loop.

What is hard in them:

* concurrency: the pool's queue and semaphore, objects handed over through
  epoll, processes that signal each other, data shared without a lock;
* edge-triggered events that are reported once for several arrivals;
* partial reads and writes, requests cut anywhere;
* failures: `sem_wait`, `fork`, `pthread_create`, a child that dies, a client
  that hangs up in any state;
* remembered values: pids, descriptors and array positions that have been given
  to somebody else.

`PROJECT.json` lists these hazards at their lines with the properties that would
notice them.

What makes a component correct:

* thread pool: mutual exclusion, a bounded FIFO, no lost wakeup, every accepted
  request is taken;
* parser: the verdict does not depend on how the request was cut;
* writer: the client receives the response, once, the file stays mapped as long as
  it is read, and the mapping is given back;
* web server: one owner per connection, nothing of a client in the object of
  another, every connection has somebody who goes on with it;
* process pool: no end of a child goes unnoticed, a termination request ends
  everybody, no signal goes to a pid that was given up, connections are accepted;
* timer list: doubly linked, sorted, and `tick` fires exactly what is due;
* inactive-connection server: one timer per connection, silent ones closed in
  time, active ones kept;
* chat rooms: tables of users that stay exact while entries move, no message to
  its sender, and only the connection of the client that left is closed;
* server designs: each connection with exactly one process, every client that
  asks answered, children waited for;
* echo clients: nothing of the input or its echo lost, an end when the input or
  the server ends;
* UDP client and server: the answer of a call belongs to its line, every call
  ends, the ring between handler and loop is a queue.

## 2. Modules

```
RequestQueue  (abstract FIFO) <--- ThreadPool
                                       ^
                                       | the atomic queue stands for the pool in
HttpParser    HttpWrite            WebServer
ProcessPool
TimerQueue    (abstract timers) <--- TimerList
     ^ extended by
InactiveServer
ShmChat       PollChat
ServerDesigns EchoClients
UdpNetwork <- RttClient  ---+
     ^                      +--> UdpEcho
     +------- SigioServer --+
                  |
                  v implements
              DatagramFifo
```

Each has a module `MC...` with the sets its configurations use. Eight modules
`...Proofs` hold the theorems (section 4); three of them are about two components
each, which is why some of those give their specification, types and variables a
name with a prefix (`ListSpec`, `EchoSpec`, `WriteSpec`). Definitions
called "mutant" in a comment are plausible bugs, used to see that a property
fails when the code is wrong; no specification uses them. `PROJECT.json` maps
every definition to source lines.

### ThreadPool

`m_workqueue`, `m_queuelocker` (its owner), `m_queuestat` and `m_stop` are the
members; `pc` and `request` are the threads. Each access to shared state is a
step: `AppendLock`, `AppendSize`, `AppendRejected`, `AppendPush`,
`AppendUnlock`, `AppendPost` for `append`, `RunTest` to `RunProcess` for `run`.
The mutex is therefore the only thing that makes `size()`/`push_back` and
`front()`/`pop_front` atomic. `RunWaitFails` is a `sem_wait` that returns with
an error, which the code ignores. `CreateFails` and `Destroy` free the object;
what a worker then does with it is undefined behaviour, modelled as the choice
between reading the old `m_stop` and a state `undefined`. `taken` is a history
variable for the refinement.

`RequestQueue` is what the pool promises: an atomic bounded FIFO.

### HttpParser

The buffer and the indices are those of the code. Text without line ends is one
symbol (a valid request line, a Content-Length header, the keep-alive header,
other text), because the state machines only look at line ends and at which kind
of line it is. What `atoi` makes of a Content-Length header is any `int`, negative
ones included, and the sum in `parse_content` wraps as an `int` does. The client
sends any concatenation of the given segments and `read` returns any non-empty
piece. A `'\0'` written outside `m_read_buf` is undefined behaviour: the model ends
in `pc = "undefined"`. `Verdict` is the reference: a definition on the whole buffer,
without state, of what the answer should be. A bad request line and a stray `\r` or
`\n` before the end of the headers are syntax errors in it, `BAD_REQUEST`.

### HttpWrite

A response is a header length and a file length. The socket's buffer has a
capacity and drains at any time; `writev` takes what fits or fails with `EAGAIN`.
`wire` says whether what was sent is a prefix of the response. The object serves one
connection after the other (`Reconnect`), as `users[connfd]` does: neither
`close_conn` nor `init` looks at `m_file_address`, so a connection whose predecessor
hung up in the middle of a response starts with that one's pointer. A new file
replaces it; after an error response `unmap` calls `munmap` with it and with the size
of whatever file was looked at last, which may release any part of what is mapped.
`mapped` are the mappings of this object that exist, `abandoned` (a ghost) those of
responses cut short by a hang-up. The first `m_file_address` is null because
`new http_conn[MAX_FD]` gets fresh, zeroed pages.

### WebServer

Clients connect, send and hang up at any time. `epoll_wait` returns the set of
ready descriptors and the loop handles them in any order; while it does, the
workers and the clients go on. `users[fd]` is reused by the next client that
gets the descriptor. The pool is its abstract queue. A request is a number of
bytes: a worker answers when enough have been read. Ghost fields record whose
bytes an object holds and whether `append` has refused it.

### ProcessPool

The parent forks the children one by one (they run at once), sets up its
handlers and loops; each child does the same. Signals are pending, then in the
signal pipe, then handled. Both are sets: the kernel merges pending signals of
the same number, `recv` takes the whole pipe, and handling the same byte twice
does what handling it once does. The `waitpid` loop with the test after it is
one step, which is no restriction: a child that ends meanwhile is reaped by it
or leaves a `SIGCHLD`. All registrations are edge-triggered, so `listenEdge` and
`pipeEdge` say whether an arrival has not been reported yet.

A `fork` that returns -1 takes the branch of the child (`ForkFails`): the parent
goes on as a child and nobody watches the listening socket. The properties are
stated for a parent in its own loop. `deaf` is a ghost: the children that ended
before the parent's handlers were set, whose `SIGCHLD` is ignored.

### TimerList

`head`, `tail` and the fields `next`, `prev` and `expire` of every timer are
those of `lst_timer.h`. A timer is an address; `live` are the allocated ones, the
others keep their fields and may be allocated again, as freed memory does. A
call is one action per case of the code (`AddFirst`, `AddFront`, `AddBehind`,
`AdjustStays`, ...); the loops of the private `add_timer`, of `tick` and of the
destructor take one step per iteration, so that nothing is assumed of how long
the list is or where a walk ends. The caller is `code_11_3.cpp`: a timer is added
once, its time is only put off (`PutOff`), and it is not used after it was deleted.

`TimerQueue` is what the list promises: timers with times, of which a tick fires
those that are due, the earliest first, and does not end before.

### InactiveServer

The loop of `code_11_3.cpp` over the abstract `TimerQueue`, which `TimerList` is
shown to implement. `client_timer` is `users[fd].timer`, which the code never clears;
`user_data` the back pointer; an address is used again after `delete`. Edges,
the signal pipe and the alarm are explicit. Time passes while the loop waits
with nothing to do. `heard` is a ghost: when the connection last had data.

### ShmChat

`code_13_4.cpp`: the parent's table `users[]` and its inverse `sub_process[]`,
the children from `fork` over `addsig` to their end, the pipes in both directions
and the signal pipe. A pid stands for a child, its pipe and its client, and is used
again once it was waited for. The contents of the shared buffers are left out.
`quiet` is a ghost: a termination request that found every child waiting.

### PollChat

`code_9_7.cpp`: `fds[]` with `revents`, the scan over it with the compaction, and
`users[].write_buf`. Clients talk, close or reset between any two steps, so what
`poll` reported may be out of date when the scan gets there. Descriptors are
given out lowest first, as the kernel does.

### ServerDesigns

One module for the ten programs of `unpv1e3/server`: they share the clients, the
listening socket, `accept` and `web_child`, and differ in who accepts, under which
lock, and how a connection gets to its server. `design` is chosen in `Init` and
each design is a small table of which steps its processes take. `err_quit` ends a
process, or all threads; in `serv05` its message goes into the pipe of the ready
bytes, since that is the child's standard error.

### EchoClients

One module for six versions of `str_cli` with the echo server. Data is counted in
lines. Network, buffers and standard output are finite, so each of them can
block; what `Fgets` and `Readline` read ahead is explicit, as `select` does not
see it. The server's process may die, with a FIN or a RST.

### UdpEcho

`RttClient` (`dg_cli`, `dg_send_recv`, `rtt.c`) and `SigioServer` (`dg_echo`,
`sig_io`) over `UdpNetwork`, a set of datagrams that are delivered never, late,
in any order or twice. The port numbers of the two programs differ in the book's
files; here one talks to the other. `SIGALRM` may come at any step between
`alarm` and `alarm(0)`, and `jmpbuf` says whether the frame it jumps to is there.
`SIGIO` runs on top of the loop unless it is blocked; `handler = "quit"` is an
`err_quit` or `err_sys` in `sig_io`, which ends the process wherever the loop is. The RTO is any estimate put
through `rtt_minmax`: the floating point arithmetic is left out. `DatagramFifo` is
what the ring promises.

## 3. Runs

| run | configuration | bounds |
|---|---|---|
| `threadpool` | `ThreadPool.cfg` | 2 producers, 2 workers, capacity 1 (+1), 4 appends, 1 failing wait |
| `threadpool_bound` | `ThreadPoolBound.cfg` | the same |
| `http_conn` | `HttpConn.cfg` | parser: buffer 13, requests of at most 12 symbols, Content-Length 3, -9 or `INT_MAX`; writer: send buffer 4, headers 1-2, files 1, 2, 4, 3 responses |
| `web_server` | `WebServer.cfg` | queue 1 (+1), 2 workers, 1 `EAGAIN`; 2 clients with 3 and 2 bytes, or 3 clients with 2, 1 and 1 |
| `web_server_full_queue` | `WebServerFull.cfg` | the same |
| `process_pool` | `ProcessPool.cfg` | 2 children, 2 clients, both children may crash, 1 termination |
| `timer_list` | `TimerList.cfg` | 3 timers, times 0..2 |
| `inactive_server` | `InactiveServer.cfg` | 3 clients on 2 descriptors, 2 timers, slots of 2, 8 instants |
| `shm_chat` | `ShmChat.cfg` | 2 pids, room for 2, 3 connections, 1 message |
| `poll_chat` | `PollChat.cfg` | room for 2, 3 descriptors, 4 connections |
| `tcp` | `Tcp.cfg` | servers: 10 designs, 2 workers, 3 connections, ring of 2, 1 failing `accept`; clients: 6, 4 lines, buffers of 2, a network of 1 each way |
| `udp_echo` | `UdpEcho.cfg` | 2 lines, 1 retransmission, ring of 3, 4 arrivals, 2 estimates outside the limits |

`http_conn` and `tcp` check two components that do not interact in one run: the
variable `half` of `MCHttpConn` and `MCTcp`, chosen at the start, says whose steps
are taken. The other component rests in a state in which none of its fair steps is
enabled, so its fairness excludes nothing.

Why the bounds are enough for the cases the properties are about: with four
appends and room for two requests the queue becomes full, empty and full again under
two competing threads on each side. Twelve symbols hold a request line, one or two
Content-Length headers, an empty line and a body of three, with a split at every
place: a body arrives in pieces and with line ends in it, so the loop looks for lines
inside it, and -9 and `INT_MAX` put the `'\0'` on either side of the buffer. A file as
large as the send buffer does not fit together with its header; three responses are
enough for a hang-up, an error response with the stale pointer and another file.
Two clients on two descriptors let a descriptor be reused while the other connection
is in any state; three clients and a queue of two with its workers busy make
`append` refuse one. Two children are
the least for which `SIGCHLD`s merge and the round robin has somebody to skip,
two clients the least for which two arrivals merge. Three timers give a list
with a head, an inside and a tail, three times an order with and without ties.
Eight instants are four slots, one more than a silent connection may last. Three
connections for two pids or descriptors make one be used again; two entries are
the least of which one can move. Three connections overflow a ring of two. Four
lines are the least that fill client, network and server in both directions, the
state in which everyone waits for everyone. Two lines with one retransmission
give late answers to the line before and to the transmission before. A ring of three
holds two datagrams before `sig_io` quits, so one signal may stand for two and a
datagram read while the loop is sending waits behind another.

Deadlock checking is off: the systems may stop, a pool whose bounded appends are used
up, a process whose next step is undefined, a server without clients, a list that was
destroyed, a client that has ended.

Several runs check one conjunction of related invariants (`QueueInv`, `ParserInv`,
`ListInv`, ...), whose parts are defined and explained one by one in the module.

### What the passing runs show

* `threadpool`: the mutex protects its sections, and what a thread has found out
  under it still holds when it acts on it (`QueueInv`); no wakeup is lost
  (`NoLostWakeup`), and the semaphore is ahead of the queue only by the waits that
  failed (`WakeupsJustified`). The pool implements the FIFO (`ImplementsQueue`) and
  takes every accepted request (`EveryRequestTaken`).
* `http_conn`, reading: whatever `process_read` returns other than `NO_REQUEST` is the
  verdict on the bytes read, and without a body and a stray line end the converse holds
  too (`VerdictRight`); the loop ends, also when it looks for lines in a body
  (`ParseReturns`). The indices stay in the buffer, and so does the `'\0'` of
  `parse_content` for every length from 0 to `INT_MAX - READ_BUFFER_SIZE`
  (`ParserInv`). The code tests no range: with a negative length, or one for which the
  sum in line 216 overflows, the run does reach the write outside `m_read_buf`.
* `http_conn`, writing: a response for which the socket has room arrives intact
  (`IntactWithRoom`). A file is mapped at every `writev` that reads it, also in an
  object that started with a stale pointer, and every exit of `write` gives the mapping
  back; what stays mapped are the files of clients that hung up in the middle of a
  response (`WriterInv`), for which nobody calls `unmap`.
* `web_server`: one owner per object and an exact user count (`ConnInv`), nothing
  of another client in it (`OwnBytes`); complete requests are answered (`Answered`)
  and a hang-up is noticed (`HangUpNoticed`) in every state but one, a connection
  that `append` has refused: the run reaches it, and `web_server_full_queue` is
  about it.
* `process_pool`: the parent never has a pid it has reaped and leaves last
  (`PoolInv`), leaves when all children have ended (`EndsWithChildren`), and a
  termination request ends everybody (`TermEndsAll`). Every arrival the parent
  has not seen yet makes some child accept (`ArrivalServed`), and no CGI process
  stays a zombie (`CgiReaped`).
* `timer_list`: the pointers always describe one sorted chain of allocated timers
  with `tail` at its end, and the destructor reaches every timer (`ListInv`); the
  list implements the timer queue (`ImplementsTimerQueue`); no call loops for
  ever (`LoopsEnd`).
* `inactive_server`: timers and open connections correspond one to one, and an
  event in hand never finds its connection or timer gone, although the pointers
  are not cleared (`TimerInv`): a turn handles its events before it runs the
  timers. A connection is closed after three silent slots (`ActiveKept`) and
  before four (`SilentClosedInTime`), although every turn puts the alarm off.
* `shm_chat`: the table and its inverse stay exact and nobody is told of its own
  message (`TableInv`), every child that ends is waited for (`LeaversReaped`),
  and a termination that finds the children waiting ends the server unless a
  client comes in after it (`QuietTermEnds`). Without that condition it may not:
  a child between `fork` and `addsig` can lose the signal.
* `tcp`, servers: in all ten a connection that was accepted is in one place
  only, and `serv05` counts its idle children exactly while none has died
  (`ServerInv`); a client that asks is answered as long as the server is in
  service (`AskedIsAnswered`: a child of `serv04` that dies with the mutex takes
  it out of service, one of `serv03` does not, since the file lock goes with it);
  orphans of `serv05` leave one after the other (`OrphansLeave`) and `serv01`
  waits for every child (`ZombiesReaped`).
* `tcp`, clients: buffer pointers never cross, the FIN never overtakes data, and
  a normal end has printed everything that was typed (`NothingLost`; not
  `strcliselect01`, which leaves with echoes under way, and not what `strclinonb`
  still holds when standard output would have blocked). The end of input ends the
  client (`InputEndIsEnd`) but for the two designs with `select` and blocking
  writes, which can come to a standstill with the server. The death of the server
  is noticed (`DeathNoticed`) by all but `str_cli` and, after a RST,
  `strclifork`, whose child then leaves without a signal to its parent.
* `udp_echo`: a call returns only with an answer to its own line
  (`AnswerOfThisCall`) and gives up only after the last retransmission; a
  `SIGALRM` before `sigsetjmp` jumps to a dead frame only at the first
  transmission of a line (`CallInv`). Every call ends, after timeouts that double
  with each retransmission (`CallEnds`). The ring
  is a queue although the handler interrupts the loop anywhere (`RingIsFifo`), and
  what `SIGIO` announces is read and echoed (`DatagramsServed`), unless a datagram
  comes between `FIOASYNC` and `FIONBIO` and the handler blocks in `recvfrom`.

### What the violated ones show

* `threadpool_bound`: "the maximum number of requests in the request queue"
  (threadpool.h:25, of `m_max_requests`). `append` refuses when the size is greater
  (line 69), so one more gets in (`QueueBounded`). That it is never more than one more
  is `AtMostOneOver`, which is proved.
* `web_server_full_queue`: "decide by the result of the read whether to add the
  task to the thread pool or to close the connection" (web_server.cpp:117). The result of `append` is
  ignored; with a full queue the connection is neither queued nor closed, and its
  one-shot event stays off, so no further event reports its bytes or its end
  (`ReadIsQueuedOrClosed`).
* `poll_chat`: "if the client closes the connection, the server also closes the
  corresponding connection" (code_9_7.cpp:117). The entry is overwritten by the
  last one before `close(fds[i].fd)`, so unless the client that leaves is the last
  in the table another client is cut off, its entry stays with a closed
  descriptor, and the connection of the one that left stays open for ever. The
  branch for a failing `recv` (line 131) has the right order.

Other places where the models show that the code does not do what a comment says
(no run is kept for them):

* threadpool.h:30 says `m_stop` ends the threads; a worker blocked in `sem_wait`
  when the destructor runs never looks at it again (`Destroy`, `RunWait`).
* http_conn.cpp:214 says `parse_content` decides whether the body was read; a body
  that arrives in two pieces is never complete, because `parse_line` moves
  `m_checked_idx` over its first part (`Content`, `NoLine`).
* http_conn.cpp:330 says the response was sent; `bytes_to_send` counts the header
  only and `m_iv` is never advanced, so a response larger than the room in the
  socket is cut or repeated (`Writev`).
* http_conn.cpp:103 calls a stray `\r` a syntax error, and http_conn.h:42 has
  `BAD_REQUEST` for those, as code_8_3.cpp:172 returns it; here `process_read` ends its
  loop on `LINE_BAD` with `NO_REQUEST` and waits for more of a request it will never
  get past (`NoLine`). `VerdictRight` asks for an answer to every other request only.
* unprtt.h:16 calls `RTT_RXTMAX` the "max retransmit timeout value"; `rtt_timeout`
  doubles `rtt_rto` without `rtt_minmax`, so a retransmission may wait longer
  (`rtt_timeout`). `BacksOff` states the lower limit only.
* processpool.h:272 says a new connection is given to a child; two that arrive
  together are one event, one notification and one `accept` (`Notify`).
* child.h:4 of the server designs says a status of 0 is "ready"; a child of
  `serv05` that quits writes its message into the pipe of the ready bytes
  (`err_doit`, `Collect`).

### Fairness

Weak fairness of the steps of each thread or process: the operating system runs
a thread that can run, and `process()` and the CGI program (which prints a line)
return. Weak fairness of the delivery of a pending signal. Nothing is assumed of
clients, crashes, termination requests, failing system calls or destruction.
In `ServerDesigns` a client that has connected asks and then closes, as `client.c`
does; in `EchoClients` standard output is read by somebody and the user need not
type; in `UdpEcho` the alarm goes off if no answer comes, the network need not
deliver anything. `InactiveServer` states its time limits as safety: time cannot
pass an alarm that is due. Weak fairness of a thread's steps together, rather than strong fairness of
`lock`, is enough for the properties stated, because a worker that is denied the
mutex is denied it by threads that themselves make progress.

## 4. Proofs

All theorems are about specifications without fairness and hold for every value of the
constants that satisfies the assumptions of the component's module.

| module | theorem | says |
|---|---|---|
| `ThreadPoolProofs` | `TypeCorrect` | `Spec => []TypeOK` |
| | `MutexCorrect` | `Spec => []MutexHeld` |
| | `AtMostOneOverCorrect` | `Spec => []AtMostOneOver` |
| | `QueueImplemented` | `Spec => ImplementsQueue` |
| | `NoLostWakeupCorrect` | `Spec => []NoLostWakeup` |
| | `WakeupsJustifiedCorrect` | `Spec => []WakeupsJustified` |
| | `QueueInvCorrect` | `Spec => []QueueInv`, the first two with `LocalFacts` |
| `HttpConnProofs` | `ParserInvCorrect` | `Spec => []ParserInv` |
| | `VerdictRightCorrect` | `Spec => []VerdictRight` |
| | `WriterInvCorrect` | `WriteSpec => []WriterInv` |
| | `IntactWithRoomCorrect` | `WriteSpec => []IntactWithRoom` |
| `WebServerProofs` | `ConnInvCorrect` | `Spec => []ConnInv` |
| | `OwnBytesCorrect` | `Spec => []OwnBytes` |
| `ProcessPoolProofs` | `PoolInvCorrect` | `Spec => []PoolInv` |
| `TimerProofs` | `ListInvCorrect` | `ListSpec => []ListInv` |
| | `ListIsQueue` | `ListSpec => ImplementsTimerQueue`, the refinement to `TimerQueue` |
| | `TimerInvCorrect` | `Spec => []TimerInv` |
| | `SilentClosedInTimeCorrect` | `Spec => []SilentClosedInTime` |
| | `ActiveKeptCorrect` | `Spec => ActiveKept`, an action property |
| `ShmChatProofs` | `TableInvCorrect` | `Spec => []TableInv` |
| `TcpProofs` | `ServerInvCorrect` | `Spec => []ServerInv` |
| | `NothingLostCorrect` | `EchoSpec => []NothingLost` |
| `UdpEchoProofs` | `CallInvCorrect` | `Spec => []CallInv` |
| | `AnswerOfThisCallCorrect` | `Spec => AnswerOfThisCall`, an action property |
| | `RingIsFifoCorrect` | `Spec => RingIsFifo`, the refinement to `DatagramFifo` |

Each component has an inductive invariant (`IInv`, `WriteIInv`, `ListIInv`,
`EchoIInv`), found with TLC on the component's run
before it was proved, one lemma per action or group of actions that keeps it, and the
theorems as consequences.

**Assumptions.** Bounds on the environment are natural numbers; sizes the code takes
for positive are positive (`m_max_requests > 0` is tested by the constructor,
`1..16` children by that of the process pool). Marks such as `NULL`, `None` and
`Never` are not values of what they mark; the names of special descriptors
(`"listen"`, `"pipe"`, `"sig"`) are not descriptors of connections. Threads and pids
are finitely many. The message of `err_quit` in `serv05` has at least one byte: it is
a format with a newline. In `UdpEcho` the ring's datagrams are the requests
(`DatagramAssumption`): only the client sends to the server. Every assumption is
evaluated by TLC in the component's run.

**Thread pool.** The types alone are not inductive: `Head` and `Tail` have a type
only if the queue is not empty, which a worker knows from a test made two steps
earlier and which still holds because nobody else is in the critical section. So the
invariant is `IInv == TypeOK /\ NoAppendUnlessReady /\ MutexHeld /\ LocalFacts`,
where `LocalFacts` says that what a thread has found out under the mutex still
holds. `AtMostOneOver` and the refinement follow from `IInv` and the lemma
`OnlyPushAndPop`: the queue changes in two actions only, and there by one
`Append` or one `Tail` of the request that was read. For the wakeups the
invariant is an equation between the queue, the semaphore and the cardinalities
of two sets of threads up to the failed waits (`Wakeups`); the lemmas
`WorkerMoves` and `ProducerMoves` say how one thread's step changes those
cardinalities.

**Parser.** `Verdict` looks at the whole buffer, the parser at one line at a time.
`LinesParsed` says, in terms of the buffer, what each check state has established of
the bytes before `m_start_line` (whole lines, no stray line end, no empty line, and
`m_content_length` what the last Content-Length header says) and of those between it and `m_checked_idx` (no line end).
Where a line ends the two readings meet; the empty line that `Verdict` chooses is the
first, because no header line before it is empty. For the `'\0'` the argument is about
numbers: `READ_BUFFER_SIZE` is at most half of `INT_MAX`, so a sum that wraps has a
length larger than the buffer, and one that does not leaves the `'\0'` at or before
`m_read_idx`, which `read` keeps below the size.

**Writer.** An `unmap` with a stale pointer is harmless to a file being sent only
because the two never meet: a pointer is that of the current response or of one that
was abandoned (`Pointer`), and `do_request` replaces it before a file is sent. A header's length is a header's only because the buffer is empty when a
request is read (`Prepared`); a `writev` that has room is the first of its response
and the room is still there (`FirstHasRoom`).

**Web server.** `OneOwner` counts claims on a descriptor, and counting is not
convenient to keep; `Exclusive` says that whoever has a claim is alone, and
`OneOwnerIsExclusive` gets the count from it. A claim never outlives the connection
(`ClaimsAreOpen`), an object knows its descriptor exactly while the connection is
open (`Objects`), and a byte is received only after it was sent (`BytesSent`).

**Process pool.** What `m_sub_process[]` says of a child depends on the phase of the
parent (`Phases`): before its loop a pid for each child that was forked, in the loop
for each that was not waited for, nothing after a failed `fork`. `Stopped` is
`ParentLeavesLast` with the phase, and `PipeFull` (a pipe is reported only with a
notification in it) keeps the number of notifications from going below zero.

**Timer list.** The local facts, that `next` and `prev` are inverse to each other and
times ascend, are not inductive: they do not exclude a ring of timers beside the
chain, from which a timer could become the head. `Acyclic` adds that the timers can
be numbered so that `next` increases the number, and `OnlyOne` gets from it that
every timer is reached from `head`. All the pointer surgery of `add_timer`,
`adjust_timer`, `del_timer` and `tick` is putting a timer between two neighbours or
taking one out: `PutIn` and `TakeOut` are proved once for any pointers, with the cases
of an empty list and of either end, and each action is shown to be one of the two.
`Remaining` is what holds of the list while the destructor eats it. The refinement
maps a timer that is allocated to its time; that `tick` fires the earliest timer is
`HeadIsDueFirst`, a consequence of the chain being sorted and the only one.

**Server designs.** `HeldOnce` counts places, so as for the web server an exclusive
form is kept (`Once`, in terms of `OnePlace`) and `OnceIsHeldOnce` gets the count from
it. The lemmas `Place...` say what taking, handing over, passing, receiving, queueing
and closing a connection does to `OnePlace` for any hands, pipes and ring; `Ring...`
what `iput` and `iget` do to the slots in use, wrapped around or not. `Where` says
which statement belongs to which of the ten designs and to which process: without it a
process of one design could hold a connection at a statement of another. `Queued` is
why an accepted connection is new, `Children` why a child of `serv05` that reports
itself was not taken for idle already, and `Counted` is the number itself. The eleven
ways in which a process ends are one lemma, `DieStep`.

**Echo clients.** The heart is an equation (`Conserved`): lines not typed, waiting, in
either read-ahead buffer, in either buffer of the client, on the network in either
direction, held by the server and printed add up to the input, with "at most" once
the server has died. `Buffers` says which client may have something in which buffer,
`Lockstep` that `str_cli` has one line under way, `ServerEnd` that a server that left
has echoed everything; so whoever reads the server's FIN after its own has nothing left
anywhere (`Finished`), and the equation gives `AllPrinted`. `Writes` and `Prints` are
the effects of `writen` and `fputs` for any amount that fits. The attempt to prove
`Readline` found two cases with overlapping guards in the model, which TLC resolves in
favour of the first; they are now an explicit choice, since after a RST `Readline`
fails in every client and none of them gets to its normal end.

**Inactive connections.** `TimerPerClient` is the correspondence with the due time, three
slots after the last data; `Clock` relates the alarm to every timer: it is due
within a slot and before any timer is a slot late, and one that has gone off has
left its byte in the pipe, so the loop does not wait. `SilentClosedInTime` is the
sum of the two. `Turns` says that events in hand belong to open connections, and
`Waiting` that every edge of the listening socket stands for a connection.

**Shared-memory chat.** `Table` says that `users[]` and `sub_process[]` are inverse
to each other on the children that were not waited for. `ForkTable` and `ReapTable`
are the two steps that change it; the second has the case in which the child that
ended is the last entry itself. `Notices` bounds sockets and pipes by the messages
sent, which the types need.

**UDP.** `CallFacts` counts the transmissions of the current line and says that a
timestamp is new, and that `jmpbuf` names the current frame from the first
`sigsetjmp` on. `Answers`, a request on the network for every answer, is what makes
an answer with the right number one to this call. `Ring` relates `iput`, `iget` and
`nqueue` modulo `QSIZE`, also in the middle of the loop's update; the lemmas
`Window...` say how the sequence of occupied slots changes, which is the refinement.

Model-checked only:

* all liveness (`EveryRequestTaken`, `ParseReturns`, `Answered`, `HangUpNoticed`,
  `EndsWithChildren`, `TermEndsAll`, `ArrivalServed`, `CgiReaped`, `LoopsEnd`,
  `CallEnds`, `DatagramsServed`, `AskedIsAnswered`, `OrphansLeave`, `ZombiesReaped`,
  `LeaversReaped`, `QuietTermEnds`, `InputEndIsEnd`, `DeathNoticed`): the prover has
  no rules for fairness;
* `BacksOff`, the safety part of `CallEnds`: its limit is a power of two, which the
  solvers do not know.

## 5. Not modelled

* The way out of the web server's loop, and the destruction of its objects.
* The text of requests and responses; `stat` and permissions beyond success or failure
  of `do_request`; `open` and `mmap` failing for a file that is there and not empty.
* What a `munmap` with a stale pointer does to the mappings of other connections:
  `HttpWrite` has one object, and with the size of a larger file it may also take
  pages that follow the stale mapping.
* A connection refused because `m_user_count` has reached `MAX_FD` is in
  `WebServer` (its runs have fewer descriptors and do not get there), descriptors
  beyond the size of `users[]` are not.
* Timers that are brought forward: `adjust_timer` looks at the successor only and
  would leave the list unsorted. The only caller puts timers off, as long as
  `time()` does not go back.
* Signal pipes that are full (a byte is a few hundred bytes of socket buffer; the
  model's pipes hold one signal of each kind), `SIGTERM` before the parent's
  handlers are set (it ends the parent alone), a failing `epoll_wait`.
* The CRLF scan of `cgi_conn::process`: `ProcessPool` has its outcomes.
* The contents of the buffers of both chat rooms: in `code_13_4.cpp` a child that
  was moved shares its buffer with the next client (line 127) and a buffer may be
  sent after it was filled again (line 149); in `code_9_7.cpp` `write_buf` points
  into a buffer that the sender's next message overwrites (line 146).
* Results of `accept` that `code_11_3.cpp` (line 131) does not test.
* Lines longer than `MAXLINE` and partial lines in `EchoClients`; the `select`
  variant `serv02m` and the meters of `ServerDesigns`; the estimators of `rtt.c`.
* `code_9_4.cpp`: a thread per event whose argument is a variable of main's loop
  (line 136), a data race without further state; the parser of chapter 8, an
  earlier version of the one modelled; the samples, which keep no state.
* The rest of `unpv1e3`, by far the largest part of the repository: some five
  hundred programs of one page that show one call or option each, several copies
  of the same headers and wrappers, and ping, traceroute and a resolver that are
  third-party. They are straight-line code; a model would repeat the code and have
  no property to state. The models therefore stand for a small share of the lines
  of the repository and for most of its concurrency.

## 6. Plan

1. The safety part of the liveness properties: ranking functions for `LoopsEnd` (the
   timers not yet passed) and `EveryRequestTaken`, as invariants and action
   properties within the prover's reach.
2. `PollChat` with `close` before the entry is overwritten, and its table proved exact
   as that of `ShmChat` is.
3. Two objects in `HttpWrite`, to see what a stale `munmap` of one does to the other.
