------------------------------ MODULE WebServer -----------------------------
(***************************************************************************)
(* ch15_pool/thread_pool: the event loop of web_server.cpp, the life of an *)
(* http_conn (one object per descriptor, reused by the clients that get    *)
(* the descriptor), the pool's queue and its workers, around one epoll     *)
(* instance with edge-triggered, one-shot registrations.                   *)
(*                                                                         *)
(* The queue is the atomic one that ThreadPool is shown to implement; how  *)
(* a request is parsed and a response sent is in HttpParser and HttpWrite: *)
(* here a request is REQUEST bytes.  Ghost fields record whose bytes an    *)
(* object holds and whether append() has refused it.                       *)
(***************************************************************************)
EXTENDS Integers, Sequences, FiniteSets, FiniteSetsExt

CONSTANTS
    Clients, Workers,
    FirstFd, OpenMax,  \* descriptors for connections are FirstFd..(OpenMax - 1)
    MAX_FD,            \* size of users[]
    MaxRequests,       \* the pool's m_max_requests
    REQUEST,           \* bytes of a request
    READ_BUFFER_SIZE,
    MaxBytes,          \* bound: bytes a client sends
    MaxAgain,          \* bound: writev() calls that fail with EAGAIN
    None               \* no client, no descriptor

Fds == FirstFd..(OpenMax - 1)
ListenFd == FirstFd - 1

ASSUME ServerAssumption ==
    /\ FirstFd \in Nat \ {0} /\ OpenMax \in Nat /\ MAX_FD \in Nat
    /\ MaxRequests \in Nat \ {0} /\ MaxBytes \in Nat /\ MaxAgain \in Nat
    /\ REQUEST \in Nat \ {0} /\ READ_BUFFER_SIZE \in Nat \ {0}
    /\ None \notin Clients \cup Fds

VARIABLES
    \* the clients and the kernel's end of their connections
    link,          \* "new", "backlog", "open" or "closed" (by the server)
    sent,          \* bytes the client has sent
    rcv,           \* those of them still in the socket's receive buffer
    hup,           \* the client has closed its end
    got,           \* responses the client has received
    \* descriptors and epoll
    conn,          \* the client a descriptor is connected to
    interest,      \* "none", "in" or "out", or "off" once the one shot is fired
    edge,          \* listenfd is in the ready list
    \* the server
    users,         \* users[fd]: the http_conn objects
    m_user_count,
    m_workqueue,   \* the pool's queue of http_conn pointers
    job,           \* the object a worker works on
    stage,         \* "idle", "process", or the event process() will ask for
    events,        \* what epoll_wait returned and is not handled yet
    main,          \* the descriptor main is between read() and append() with
    agains

client == <<link, sent, rcv, hup, got>>
epoll == <<conn, interest, edge>>
loop == <<events, main, agains>>
pool == <<m_workqueue, job, stage>>
vars == <<client, epoll, users, m_user_count, pool, loop>>

\* a new http_conn, and what init() makes of an old one
Fresh == [m_sockfd |-> None, m_read_idx |-> 0, m_linger |-> FALSE,
          readFrom |-> {}, answerTo |-> {}, refused |-> FALSE]

TypeOK ==
    /\ link \in [Clients -> {"new", "backlog", "open", "closed"}]
    /\ sent \in [Clients -> 0..MaxBytes] /\ rcv \in [Clients -> 0..MaxBytes]
    /\ hup \in [Clients -> BOOLEAN] /\ got \in [Clients -> Nat]
    /\ conn \in [Fds -> Clients \cup {None}]
    /\ interest \in [Fds -> {"none", "off", "in", "out"}]
    /\ edge \in BOOLEAN
    /\ users \in [Fds -> [m_sockfd : Fds \cup {None}, m_read_idx : 0..READ_BUFFER_SIZE,
                          m_linger : BOOLEAN, readFrom : SUBSET Clients,
                          answerTo : SUBSET Clients, refused : BOOLEAN]]
    /\ m_user_count \in Nat
    /\ m_workqueue \in Seq(Fds)
    /\ job \in [Workers -> Fds \cup {None}]
    /\ stage \in [Workers -> {"idle", "process", "in", "out"}]
    /\ \A e \in events : e.fd \in Fds \cup {ListenFd} /\ e.ev \subseteq {"in", "out", "rdhup"}
    /\ main \in Fds \cup {None} /\ agains \in 0..MaxAgain

Init ==
    /\ link = [c \in Clients |-> "new"]
    /\ sent = [c \in Clients |-> 0] /\ rcv = [c \in Clients |-> 0]
    /\ hup = [c \in Clients |-> FALSE] /\ got = [c \in Clients |-> 0]
    /\ conn = [fd \in Fds |-> None] /\ interest = [fd \in Fds |-> "none"] /\ edge = FALSE
    /\ users = [fd \in Fds |-> Fresh] /\ m_user_count = 0
    /\ m_workqueue = <<>>
    /\ job = [w \in Workers |-> None] /\ stage = [w \in Workers |-> "idle"]
    /\ events = {} /\ main = None /\ agains = 0

-----------------------------------------------------------------------------
(* The clients *)

Connect(c) ==
    /\ link[c] = "new"
    /\ link' = [link EXCEPT ![c] = "backlog"] /\ edge' = TRUE
    /\ UNCHANGED <<sent, rcv, hup, got, conn, interest, users, m_user_count, pool, loop>>

Send(c) ==
    /\ link[c] \in {"backlog", "open"} /\ ~hup[c] /\ sent[c] < MaxBytes
    /\ sent' = [sent EXCEPT ![c] = @ + 1] /\ rcv' = [rcv EXCEPT ![c] = @ + 1]
    /\ UNCHANGED <<link, hup, got, epoll, users, m_user_count, pool, loop>>

Close(c) ==
    /\ link[c] \in {"backlog", "open"} /\ ~hup[c]
    /\ hup' = [hup EXCEPT ![c] = TRUE]
    /\ UNCHANGED <<link, sent, rcv, got, epoll, users, m_user_count, pool, loop>>

-----------------------------------------------------------------------------
(* epoll *)

\* what epoll reports for a registered descriptor.  epoll_ctl(MOD) looks at the
\* socket again, so with one-shot registrations no edge is missed.
Ready(fd) ==
    LET c == conn[fd]
    IN IF interest[fd] \notin {"in", "out"} THEN {}
       ELSE (IF hup[c] THEN {"rdhup"} ELSE {})
            \cup (IF interest[fd] = "in" /\ (rcv[c] > 0 \/ hup[c]) THEN {"in"} ELSE {})
            \cup (IF interest[fd] = "out" THEN {"out"} ELSE {})

\* mutant: the registrations are not EPOLLONESHOT
epoll_wait_repeats ==
    /\ events = {} /\ main = None
    /\ LET ready == {fd \in Fds : Ready(fd) # {}}
       IN /\ edge \/ ready # {}
          /\ events' = {[fd |-> fd, ev |-> Ready(fd)] : fd \in ready}
                         \cup (IF edge THEN {[fd |-> ListenFd, ev |-> {"in"}]} ELSE {})
    /\ edge' = FALSE
    /\ UNCHANGED <<client, conn, interest, users, m_user_count, pool, main, agains>>

epoll_wait ==
    /\ events = {} /\ main = None
    /\ LET ready == {fd \in Fds : Ready(fd) # {}}
       IN /\ edge \/ ready # {}
          /\ events' = {[fd |-> fd, ev |-> Ready(fd)] : fd \in ready}
                         \cup (IF edge THEN {[fd |-> ListenFd, ev |-> {"in"}]} ELSE {})
          /\ interest' = [fd \in Fds |-> IF fd \in ready THEN "off" ELSE interest[fd]]
    /\ edge' = FALSE
    /\ UNCHANGED <<client, conn, users, m_user_count, pool, main, agains>>

modfd(fd, ev) == interest' = [interest EXCEPT ![fd] = IF @ = "none" THEN @ ELSE ev]

-----------------------------------------------------------------------------
(* http_conn::close_conn() *)

\* mutant: closed by write() and by its caller, m_sockfd is not tested
close_conn_twice(fd) ==
    /\ interest' = [interest EXCEPT ![fd] = "none"]
    /\ conn' = [conn EXCEPT ![fd] = None]
    /\ link' = [link EXCEPT ![conn[fd]] = "closed"]
    /\ users' = [users EXCEPT ![fd].m_sockfd = None]
    /\ m_user_count' = m_user_count - 2

close_conn(fd) ==
    IF users[fd].m_sockfd = None
      THEN UNCHANGED <<interest, conn, link, users, m_user_count>>
      ELSE /\ interest' = [interest EXCEPT ![fd] = "none"]
           /\ conn' = [conn EXCEPT ![fd] = None]
           /\ link' = [link EXCEPT ![conn[fd]] = "closed"]
           /\ users' = [users EXCEPT ![fd].m_sockfd = None]
           /\ m_user_count' = m_user_count - 1

-----------------------------------------------------------------------------
(* The body of main's loop: one event, in any order *)

Handled(e) == main = None /\ e \in events /\ events' = events \ {e}

\* mutant: init() keeps m_read_idx and the buffer
AcceptKeepsBuffer(e, c) ==
    /\ Handled(e) /\ e.fd = ListenFd /\ link[c] = "backlog"
    /\ \E fd \in Fds :
         /\ conn[fd] = None /\ \A f \in Fds : f < fd => conn[f] # None
         /\ link' = [link EXCEPT ![c] = "open"]
         /\ conn' = [conn EXCEPT ![fd] = c]
         /\ interest' = [interest EXCEPT ![fd] = "in"]
         /\ users' = [users EXCEPT ![fd].m_sockfd = fd]
         /\ m_user_count' = m_user_count + 1
    /\ UNCHANGED <<sent, rcv, hup, got, edge, pool, main, agains>>

\* accept() one connection, the lowest free descriptor, and init() its object
Accept(e, c) ==
    /\ Handled(e) /\ e.fd = ListenFd /\ link[c] = "backlog"
    /\ \E fd \in Fds :
         /\ conn[fd] = None /\ \A f \in Fds : f < fd => conn[f] # None
         /\ IF m_user_count >= MAX_FD
              THEN /\ link' = [link EXCEPT ![c] = "closed"]    \* show_error()
                   /\ UNCHANGED <<conn, interest, users, m_user_count>>
              ELSE /\ link' = [link EXCEPT ![c] = "open"]
                   /\ conn' = [conn EXCEPT ![fd] = c]
                   /\ interest' = [interest EXCEPT ![fd] = "in"]
                   /\ users' = [users EXCEPT ![fd] = [Fresh EXCEPT !.m_sockfd = fd]]
                   /\ m_user_count' = m_user_count + 1
    /\ UNCHANGED <<sent, rcv, hup, got, edge, pool, main, agains>>

\* nobody is waiting any more, or there is no descriptor left
AcceptFails(e) ==
    /\ Handled(e) /\ e.fd = ListenFd
    /\ (\A c \in Clients : link[c] # "backlog") \/ (\A fd \in Fds : conn[fd] # None)
    /\ UNCHANGED <<client, epoll, users, m_user_count, pool, main, agains>>

HandleHup(e) ==
    /\ Handled(e) /\ e.fd # ListenFd /\ "rdhup" \in e.ev
    /\ close_conn(e.fd)
    /\ UNCHANGED <<sent, rcv, hup, got, edge, pool, main, agains>>

\* read() takes all there is; a full buffer or the end of the stream closes
HandleRead(e) ==
    /\ Handled(e) /\ e.fd # ListenFd /\ "rdhup" \notin e.ev /\ "in" \in e.ev
    /\ LET fd == e.fd
           c == conn[fd]
           n == Min({rcv[c], READ_BUFFER_SIZE - users[fd].m_read_idx})
       IN /\ rcv' = [rcv EXCEPT ![c] = @ - n]
          /\ IF users[fd].m_read_idx + n = READ_BUFFER_SIZE \/ hup[c]
               THEN close_conn(fd) /\ UNCHANGED main
               ELSE /\ users' = [users EXCEPT ![fd].m_read_idx = @ + n,
                                              ![fd].readFrom = @ \cup {c}]
                    /\ main' = fd
                    /\ UNCHANGED <<link, conn, interest, m_user_count>>
    /\ UNCHANGED <<sent, hup, got, edge, pool, agains>>

\* pool->append(users + sockfd); when the queue is full it returns false, and
\* main goes on to the next event without a look at the result
append ==
    /\ main # None /\ main' = None
    /\ IF Len(m_workqueue) > MaxRequests
         THEN users' = [users EXCEPT ![main].refused = TRUE] /\ UNCHANGED m_workqueue
         ELSE m_workqueue' = Append(m_workqueue, main) /\ UNCHANGED users
    /\ UNCHANGED <<client, epoll, m_user_count, job, stage, events, agains>>

\* write() has sent the response: init() and modfd(EPOLLIN), or close
HandleWrite(e) ==
    /\ Handled(e) /\ e.fd # ListenFd /\ e.ev = {"out"}
    /\ got' = [got EXCEPT ![conn[e.fd]] = @ + 1]
    /\ IF users[e.fd].m_linger
         THEN /\ users' = [users EXCEPT ![e.fd] = [Fresh EXCEPT !.m_sockfd = e.fd]]
              /\ modfd(e.fd, "in")
              /\ UNCHANGED <<link, conn, m_user_count>>
         ELSE close_conn(e.fd)
    /\ UNCHANGED <<sent, rcv, hup, edge, pool, main, agains>>

\* mutant: EPOLLOUT is not asked for again after EAGAIN
HandleWriteAgainNoMod(e) ==
    /\ Handled(e) /\ e.fd # ListenFd /\ e.ev = {"out"} /\ agains < MaxAgain
    /\ agains' = agains + 1
    /\ UNCHANGED <<client, epoll, users, m_user_count, pool, main>>

\* write() returns with EAGAIN, or fails because the client is gone
HandleWriteAgain(e) ==
    /\ Handled(e) /\ e.fd # ListenFd /\ e.ev = {"out"} /\ agains < MaxAgain
    /\ agains' = agains + 1
    /\ modfd(e.fd, "out")
    /\ UNCHANGED <<client, conn, edge, users, m_user_count, pool, main>>

HandleWriteFails(e) ==
    /\ Handled(e) /\ e.fd # ListenFd /\ e.ev = {"out"} /\ hup[conn[e.fd]]
    /\ close_conn(e.fd)
    /\ UNCHANGED <<sent, rcv, hup, got, edge, pool, main, agains>>

-----------------------------------------------------------------------------
(* A worker: run() and http_conn::process() *)

Take(w) ==
    /\ stage[w] = "idle" /\ m_workqueue # <<>>
    /\ job' = [job EXCEPT ![w] = Head(m_workqueue)]
    /\ stage' = [stage EXCEPT ![w] = "process"]
    /\ m_workqueue' = Tail(m_workqueue)
    /\ UNCHANGED <<client, epoll, users, m_user_count, loop>>

\* process_read() and process_write()
process(w) ==
    /\ stage[w] = "process"
    /\ LET fd == job[w]
       IN \/ /\ users[fd].m_read_idx < REQUEST
             /\ stage' = [stage EXCEPT ![w] = "in"]
             /\ UNCHANGED users
          \/ /\ users[fd].m_read_idx >= REQUEST
             /\ stage' = [stage EXCEPT ![w] = "out"]
             /\ \E keep \in BOOLEAN :
                  users' = [users EXCEPT ![fd].m_linger = keep,
                                         ![fd].answerTo = users[fd].readFrom]
    /\ UNCHANGED <<client, epoll, m_user_count, m_workqueue, job, loop>>

\* mutant: process() returns without modfd() when the request is incomplete
RearmOutOnly(w) ==
    /\ stage[w] \in {"in", "out"}
    /\ IF stage[w] = "out" THEN modfd(job[w], "out") ELSE UNCHANGED interest
    /\ job' = [job EXCEPT ![w] = None] /\ stage' = [stage EXCEPT ![w] = "idle"]
    /\ UNCHANGED <<client, conn, edge, users, m_user_count, m_workqueue, loop>>

\* the modfd() at the end of process(): from here on main may use the object
Rearm(w) ==
    /\ stage[w] \in {"in", "out"}
    /\ modfd(job[w], stage[w])
    /\ job' = [job EXCEPT ![w] = None] /\ stage' = [stage EXCEPT ![w] = "idle"]
    /\ UNCHANGED <<client, conn, edge, users, m_user_count, m_workqueue, loop>>

-----------------------------------------------------------------------------
MainStep ==
    \/ epoll_wait \/ append
    \/ \E e \in events :
         \/ AcceptFails(e) \/ HandleHup(e) \/ HandleRead(e)
         \/ HandleWrite(e) \/ HandleWriteAgain(e) \/ HandleWriteFails(e)
         \/ \E c \in Clients : Accept(e, c)

WorkerStep(w) == Take(w) \/ process(w) \/ Rearm(w)

Next ==
    \/ MainStep
    \/ \E w \in Workers : WorkerStep(w)
    \/ \E c \in Clients : Connect(c) \/ Send(c) \/ Close(c)

Spec == Init /\ [][Next]_vars

\* main and the workers are scheduled; clients do what they like
FairSpec == Spec /\ WF_vars(MainStep) /\ \A w \in Workers : WF_vars(WorkerStep(w))

-----------------------------------------------------------------------------
(* Properties *)

Open == {fd \in Fds : conn[fd] # None}

\* The ways in which some thread will come to use users[fd]: an armed event, an
\* event main has not handled or is handling, an entry of the queue, a worker.
Claims(fd) ==
    Cardinality({x \in {interest[fd]} : x \in {"in", "out"}})
      + Cardinality({x \in {main} : x = fd})
      + Cardinality({e \in events : e.fd = fd})
      + Cardinality({i \in DOMAIN m_workqueue : m_workqueue[i] = fd})
      + Cardinality({w \in Workers : job[w] = fd})

\* The one-shot registrations hand an object from thread to thread: at any time
\* at most one of them has a claim on it, and none on a closed connection, so
\* main and a worker never use an http_conn at the same time.
OneOwner == \A fd \in Fds : Claims(fd) <= IF fd \in Open THEN 1 ELSE 0

\* A descriptor that is closed and given to another client takes nothing with
\* it: the object only ever holds bytes of, and answers to, its own client.
OwnBytes ==
    \A fd \in Open : users[fd].readFrom \cup users[fd].answerTo \subseteq {conn[fd]}

\* m_user_count, compared with MAX_FD before a connection is accepted, is the
\* number of open connections, through every way a connection can end.
UserCountExact == m_user_count = Cardinality(Open)

\* What main says of a read that succeeds: the task is added to the pool, or the
\* connection closed.  Then no open connection is ever without a next user.  A
\* refused append() leaves it without one.
ReadIsQueuedOrClosed == \A fd \in Open : Claims(fd) >= 1

\* append() has refused the connection of c: it is open and nobody will ever use
\* it again, whatever the client does.
Refused(c) == \E fd \in Open : conn[fd] = c /\ users[fd].refused

\* A complete request is answered, or its connection closed, or append() has
\* refused the connection.
Answered ==
    \A c \in Clients : (link[c] = "open" /\ sent[c] >= REQUEST)
                          ~> (got[c] >= 1 \/ link[c] = "closed" \/ Refused(c))

\* The descriptor of a client that hangs up is released, wherever its connection
\* is: armed, queued, in a worker or about to be answered.  Only a connection
\* that append() has refused keeps it.
HangUpNoticed ==
    \A c \in Clients : (link[c] = "open" /\ hup[c]) ~> (link[c] = "closed" \/ Refused(c))

\* Types, one owner for each http_conn, and an exact m_user_count.
ConnInv == TypeOK /\ OneOwner /\ UserCountExact
=============================================================================
