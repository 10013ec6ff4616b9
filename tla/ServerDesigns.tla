--------------------------- MODULE ServerDesigns ---------------------------
(***************************************************************************)
(* unpv1e3/server: one service, ten server designs.  serv00 is iterative,  *)
(* serv01 forks and serv06 creates a thread per client, serv02 to serv05   *)
(* prefork children that accept by themselves (02), under a file lock      *)
(* (03), under a mutex in shared memory (04) or are passed descriptors     *)
(* (05), serv07 to serv09 create threads beforehand that accept under a    *)
(* mutex (07), take descriptors from a ring (08) or just accept (09).      *)
(* The variable design says which program runs.                            *)
(*                                                                         *)
(* Process 0 is the parent or the main thread.  Clients are those of       *)
(* client.c and clientrst.c, and one that asks for an amount the server    *)
(* refuses; Init is after the children or threads were created.            *)
(***************************************************************************)
EXTENDS Integers, Sequences, FiniteSets, FiniteSetsExt

CONSTANTS
    NConns,    \* bound: the connections clients make, numbered as they come
    N,         \* nchildren, nthreads; for serv01 and serv06 a bound on them
    MAXNCLI,   \* size of clifd[]
    MsgBytes,  \* bound: bytes of a message of err_quit()
    MaxFails   \* bound: accept() calls that fail for want of a resource

ASSUME DesignsAssumption ==
    /\ N \in Nat \ {0} /\ MAXNCLI \in Nat \ {0} /\ MsgBytes \in Nat \ {0}
    /\ MaxFails \in Nat /\ NConns \in Nat

Workers == 1..N
Procs   == 0..N
Conns   == 1..NConns
NoConn  == 0

VARIABLES
    design,
    pc, hand,           \* of each process or thread; the connection it holds
    lock,               \* holder of the accept lock, or 0
    backlog, peer,      \* the listening socket's queue, and the clients
    taken,              \* connections that were accepted and not closed
    clifd, iget, iput,  \* serv08
    status, navail, rset05, down, up,  \* serv05, and its stream pipes
    sigchld,            \* serv01: SIGCHLD is pending
    fails

kernel == <<backlog, peer>>
ring   == <<clifd, iget, iput>>
pipes  == <<status, navail, rset05, down, up>>
rest   == <<design, sigchld, fails>>
vars   == <<rest, pc, hand, lock, kernel, taken, ring, pipes>>

-----------------------------------------------------------------------------
(* The programs: where a process or thread starts, what follows accept()   *)
(* ("-" if it does not accept) and what the end of web_child().             *)

loop(start, accepted, served) == [start |-> start, accepted |-> accepted, served |-> served]

serv00 == loop("accept", "serve", "accept")
serv01 == loop("accept", "fork", "-")
serv02 == loop("pause", "-", "-")
serv03 == loop("pause", "-", "-")
serv04 == loop("pause", "-", "-")
serv05 == loop("select", "pass", "-")
serv06 == loop("accept", "create", "-")
serv07 == loop("pause", "-", "-")
serv08 == loop("accept", "put", "-")
serv09 == loop("pause", "-", "-")

noWorker == loop("none", "-", "-")
child01  == loop("none", "-", "zombie")
child02  == loop("accept", "serve", "accept")
child03  == loop("lock", "unlock", "lock")
child04  == loop("lock", "unlock", "lock")
child05  == loop("read", "-", "notify")
doit06   == loop("none", "-", "none")
thread07 == loop("lock", "unlock", "lock")
thread08 == loop("get", "-", "get")
thread09 == loop("accept", "serve", "accept")

Programs ==
    [serv00 |-> <<serv00, noWorker>>, serv01 |-> <<serv01, child01>>,
     serv02 |-> <<serv02, child02>>,  serv03 |-> <<serv03, child03>>,
     serv04 |-> <<serv04, child04>>,  serv05 |-> <<serv05, child05>>,
     serv06 |-> <<serv06, doit06>>,   serv07 |-> <<serv07, thread07>>,
     serv08 |-> <<serv08, thread08>>, serv09 |-> <<serv09, thread09>>]
program(p) == Programs[design][IF p = 0 THEN 1 ELSE 2]
Prefork   == {"serv02", "serv03", "serv04", "serv05"}
OneProcess == DOMAIN Programs \ (Prefork \cup {"serv01"})

Init ==
    /\ design \in DOMAIN Programs
    /\ pc = [p \in Procs |-> program(p).start]
    /\ hand = [p \in Procs |-> NoConn] /\ taken = {} /\ lock = 0
    /\ backlog = <<>> /\ peer = [c \in Conns |-> "new"]
    /\ clifd = [i \in 0..(MAXNCLI - 1) |-> NoConn] /\ iget = 0 /\ iput = 0
    /\ status = [w \in Workers |-> 0] /\ navail = N /\ rset05 = {}
    /\ down = [w \in Workers |-> NoConn] /\ up = [w \in Workers |-> 0]
    /\ sigchld = FALSE /\ fails = 0

\* where a process or thread stands, and what is left of it
Statements ==
    {"accept", "fork", "create", "put", "select", "pass", "collect", "pause", "wait", "none",
     "lock", "unlock", "serve", "zombie", "read", "notify", "get", "waiting", "dead"}

ClientStates == {"new", "connected", "asked", "bad", "answered", "closed", "reset"}

TypeOK ==
    /\ design \in DOMAIN Programs
    /\ pc \in [Procs -> Statements]
    /\ hand \in [Procs -> Conns \cup {NoConn}] /\ taken \subseteq Conns /\ lock \in Procs
    /\ backlog \in Seq(Conns)
    /\ peer \in [Conns -> ClientStates]
    /\ clifd \in [0..(MAXNCLI - 1) -> Conns \cup {NoConn}]
    /\ iget \in 0..(MAXNCLI - 1) /\ iput \in 0..(MAXNCLI - 1)
    /\ status \in [Workers -> 0..1] /\ navail \in Nat /\ rset05 \subseteq Procs
    /\ down \in [Workers -> Conns \cup {NoConn}] /\ up \in [Workers -> 0..MsgBytes]
    /\ sigchld \in BOOLEAN /\ fails \in 0..MaxFails

-----------------------------------------------------------------------------
(* exit(), err_quit(), err_sys() and the death by a signal *)

alive(p) == pc[p] \notin {"dead", "zombie", "none"}

lockAfterStays(p) == lock

\* The kernel takes a file lock from a process that dies; a mutex in shared
\* memory stays locked.
lockAfter(p) == IF lock = p /\ design = "serv03" THEN 0 ELSE lock

\* A thread takes its whole process with it.
Die(p) ==
    LET gone == IF design \in OneProcess THEN Procs ELSE {p} IN
    /\ pc' = [q \in Procs |-> IF q \notin gone THEN pc[q]
                              ELSE IF design = "serv01" /\ q # 0 THEN "zombie" ELSE "dead"]
    /\ hand' = [q \in Procs |-> IF q \in gone THEN NoConn ELSE hand[q]]
    /\ taken' = IF design \in OneProcess THEN {} ELSE taken \ {hand[p]}
    /\ lock' = lockAfter(p)
    /\ sigchld' = (sigchld \/ (design = "serv01" /\ p # 0))
    /\ UNCHANGED design

holdersAndSelf(w) == {0} \cup {v \in Workers : v >= w}

\* The parent's end of a child's pipe is also open in the children forked later.
holders(w) == {0} \cup {v \in Workers : v > w}

hungUp(w) == \A p \in holders(w) : ~alive(p)

\* err_quit() writes to standard error, which for a child of serv05 is its pipe
\* to the parent.
err_doit(p) ==
    IF design = "serv05" /\ p # 0 /\ ~hungUp(p) THEN [up EXCEPT ![p] = @ + MsgBytes] ELSE up

Move(p, to) == pc' = [pc EXCEPT ![p] = to]

-----------------------------------------------------------------------------
(* The clients *)

Connect(c) ==
    /\ peer[c] = "new" /\ (\A d \in 1..(c - 1) : peer[d] # "new")
    /\ peer' = [peer EXCEPT ![c] = "connected"]
    /\ backlog' = Append(backlog, c)
    /\ UNCHANGED <<rest, pc, hand, lock, taken, ring, pipes>>

\* the request: an amount the server accepts, or one it refuses
Ask(c, what) ==
    /\ peer[c] = "connected" /\ peer' = [peer EXCEPT ![c] = what]
    /\ UNCHANGED <<rest, pc, hand, lock, backlog, taken, ring, pipes>>

\* clientrst.c may close instead, with a linger time of zero
Reset(c) ==
    /\ peer[c] = "connected" /\ peer' = [peer EXCEPT ![c] = "reset"]
    /\ UNCHANGED <<rest, pc, hand, lock, backlog, taken, ring, pipes>>

Close(c) ==
    /\ peer[c] = "answered" /\ peer' = [peer EXCEPT ![c] = "closed"]
    /\ UNCHANGED <<rest, pc, hand, lock, backlog, taken, ring, pipes>>

-----------------------------------------------------------------------------
(* accept(), with or without a lock around it *)

\* my_lock_wait() of the children, Pthread_mutex_lock() of the threads of serv07
my_lock_wait(p) ==
    /\ pc[p] = "lock" /\ lock = 0
    /\ lock' = p /\ Move(p, "accept")
    /\ UNCHANGED <<rest, hand, kernel, taken, ring, pipes>>

my_lock_release(p) ==
    /\ pc[p] = "unlock"
    /\ lock' = 0 /\ Move(p, "serve")
    /\ UNCHANGED <<rest, hand, kernel, taken, ring, pipes>>

Accept(p) ==
    /\ pc[p] = "accept" /\ backlog # <<>>
    /\ backlog' = Tail(backlog)
    /\ hand' = [hand EXCEPT ![p] = Head(backlog)] /\ taken' = taken \cup {Head(backlog)}
    /\ Move(p, program(p).accepted)
    /\ UNCHANGED <<rest, lock, peer, ring, pipes>>

\* A connection that was reset may be gone: ECONNABORTED.  Accept() calls
\* accept() again; serv01 has its own call of accept() and exits.
AcceptAborted(p) ==
    /\ pc[p] = "accept" /\ backlog # <<>> /\ peer[Head(backlog)] = "reset"
    /\ backlog' = Tail(backlog)
    /\ IF design = "serv01" THEN Die(p)
                            ELSE UNCHANGED <<pc, hand, taken, lock, sigchld, design>>
    /\ UNCHANGED <<fails, peer, ring, pipes>>

\* Any other error, such as EMFILE, is the end of the process.
AcceptFails(p) ==
    /\ pc[p] = "accept" /\ backlog # <<>> /\ fails < MaxFails
    /\ fails' = fails + 1 /\ Die(p)
    /\ UNCHANGED <<kernel, ring, pipes>>

-----------------------------------------------------------------------------
(* web_child() *)

WebChildWrites(p) ==
    /\ pc[p] = "serve" /\ peer[hand[p]] = "asked"
    /\ peer' = [peer EXCEPT ![hand[p]] = "answered"]
    /\ UNCHANGED <<rest, pc, hand, lock, backlog, taken, ring, pipes>>

\* The client has closed: web_child() returns and the connection is closed.
WebChildReturns(p) ==
    /\ pc[p] = "serve" /\ peer[hand[p]] = "closed"
    /\ Move(p, program(p).served)
    /\ hand' = [hand EXCEPT ![p] = NoConn] /\ taken' = taken \ {hand[p]}
    /\ sigchld' = (sigchld \/ program(p).served = "zombie")
    /\ UNCHANGED <<design, fails, lock, kernel, ring, pipes>>

\* A refused request, or a connection that was reset: err_quit(), err_sys()
WebChildQuits(p) ==
    /\ pc[p] = "serve" /\ peer[hand[p]] \in {"bad", "reset"}
    /\ Die(p) /\ up' = err_doit(p)
    /\ UNCHANGED <<fails, kernel, ring, status, navail, rset05, down>>

-----------------------------------------------------------------------------
(* serv01 and serv06: a process or a thread for each connection *)

Spawn(at) ==
    /\ pc[0] = at
    /\ \E w \in Workers :
         /\ pc[w] = "none"
         /\ pc' = [pc EXCEPT ![0] = "accept", ![w] = "serve"]
         /\ hand' = [hand EXCEPT ![0] = NoConn, ![w] = hand[0]]
    /\ UNCHANGED <<rest, lock, kernel, taken, ring, pipes>>

Fork          == Spawn("fork")
PthreadCreate == Spawn("create")

zombies == {w \in Workers : pc[w] = "zombie"}

reapOne(w) == w = Min(zombies)

reap(w) == w \in zombies

sig_chld ==
    /\ sigchld /\ alive(0) /\ sigchld' = FALSE
    /\ pc' = [w \in Procs |-> IF reap(w) THEN "none" ELSE pc[w]]
    /\ UNCHANGED <<design, fails, hand, lock, kernel, taken, ring, pipes>>

-----------------------------------------------------------------------------
(* serv05: the parent accepts and passes descriptors to idle children *)

idle == {w \in Workers : status[w] = 0}

\* Calls of select() do not look for connections while no child is available.
readable ==
    (IF backlog # <<>> /\ navail > 0 THEN {0} ELSE {})
        \cup {w \in Workers : up[w] > 0 \/ pc[w] = "dead"}

afterReady(r) == IF 0 \in r THEN "accept" ELSE IF r = {} THEN "select" ELSE "collect"

Select05 ==
    /\ pc[0] = "select" /\ readable # {}
    /\ rset05' = readable /\ Move(0, afterReady(readable))
    /\ UNCHANGED <<rest, hand, lock, kernel, taken, ring, status, navail, down, up>>

Write_fd(w, c) == down' = [down EXCEPT ![w] = c]

takeAvailNot == navail

takeAvail == navail - 1

\* The first idle child gets the connection, and the parent's own copy is closed.
\* If none is idle the parent quits ("no available children"); if that child is gone
\* SIGPIPE ends the parent.
PassFd ==
    /\ pc[0] = "pass"
    /\ IF idle = {} \/ ~alive(Min(idle)) THEN Die(0) /\ UNCHANGED <<fails, pipes>> ELSE
         /\ status' = [status EXCEPT ![Min(idle)] = 1] /\ Write_fd(Min(idle), hand[0])
         /\ navail' = takeAvail
         /\ hand' = [hand EXCEPT ![0] = NoConn]
         /\ rset05' = rset05 \ {0} /\ Move(0, afterReady(rset05 \ {0}))
         /\ UNCHANGED <<rest, lock, taken, up>>
    /\ UNCHANGED <<kernel, ring>>

Collect ==
    /\ pc[0] = "collect"
    /\ LET w == Min(rset05) IN
         /\ up[w] > 0
         /\ up' = [up EXCEPT ![w] = @ - 1] /\ status' = [status EXCEPT ![w] = 0]
         /\ rset05' = rset05 \ {w} /\ Move(0, afterReady(rset05 \ {w}))
    /\ navail' = navail + 1
    /\ UNCHANGED <<rest, hand, lock, kernel, taken, ring, down>>

ChildTerminated ==
    /\ pc[0] = "collect" /\ up[Min(rset05)] = 0 /\ Die(0)
    /\ UNCHANGED <<fails, kernel, ring, pipes>>

Read_fd(w) ==
    hand' = [hand EXCEPT ![w] = down[w]] /\ down' = [down EXCEPT ![w] = NoConn]

ReadFd(w) ==
    /\ pc[w] = "read" /\ down[w] # NoConn
    /\ Read_fd(w) /\ Move(w, "serve")
    /\ UNCHANGED <<rest, lock, kernel, taken, ring, status, navail, rset05, up>>

ReadFdEof(w) ==
    /\ pc[w] = "read" /\ down[w] = NoConn /\ hungUp(w) /\ Die(w)
    /\ UNCHANGED <<fails, kernel, ring, pipes>>

\* Write() of the byte that says the child is ready, or SIGPIPE
Notify(w) ==
    /\ pc[w] = "notify"
    /\ IF hungUp(w)
          THEN Die(w) /\ UNCHANGED up
          ELSE /\ up' = [up EXCEPT ![w] = @ + 1] /\ Move(w, "read")
               /\ UNCHANGED <<design, sigchld, hand, lock, taken>>
    /\ UNCHANGED <<fails, kernel, ring, status, navail, rset05, down>>

-----------------------------------------------------------------------------
(* serv08: the main thread puts descriptors into a ring *)

nextLate(i) == IF i = MAXNCLI THEN 0 ELSE i + 1

next(i) == IF i + 1 = MAXNCLI THEN 0 ELSE i + 1

\* the slots between iget and iput
queue == {k \in DOMAIN clifd : IF iget <= iput THEN iget <= k /\ k < iput
                                              ELSE iget <= k \/ k < iput}

overflowNever == FALSE

overflow == next(iput) = iget

\* Under clifd_mutex: the descriptor goes in, and one waiting thread is woken.
Put ==
    /\ pc[0] = "put" /\ ~overflow
    /\ clifd' = [clifd EXCEPT ![iput] = hand[0]] /\ iput' = next(iput)
    /\ hand' = [hand EXCEPT ![0] = NoConn]
    /\ LET waiting == {w \in Workers : pc[w] = "waiting"} IN
         \/ \E w \in waiting : pc' = [pc EXCEPT ![0] = "accept", ![w] = "get"]
         \/ waiting = {} /\ Move(0, "accept")
    /\ UNCHANGED <<rest, lock, kernel, taken, iget, pipes>>

PutOverflows ==
    /\ pc[0] = "put" /\ overflow /\ Die(0)
    /\ UNCHANGED <<fails, kernel, ring, pipes>>

\* Under clifd_mutex: take a descriptor, or wait on clifd_cond and look again.
Get(w) ==
    /\ pc[w] = "get" /\ iget # iput
    /\ hand' = [hand EXCEPT ![w] = clifd[iget]] /\ iget' = next(iget)
    /\ Move(w, "serve")
    /\ UNCHANGED <<rest, lock, kernel, taken, clifd, iput, pipes>>

CondWait(w) ==
    /\ pc[w] = "get" /\ iget = iput /\ Move(w, "waiting")
    /\ UNCHANGED <<rest, hand, lock, kernel, taken, ring, pipes>>

-----------------------------------------------------------------------------
(* sig_int() *)

\* A preforking parent sends SIGTERM to its children and waits for them all.
sig_int_prefork ==
    /\ design \in Prefork /\ alive(0) /\ pc[0] # "wait" /\ Move(0, "wait")
    /\ UNCHANGED <<rest, hand, lock, kernel, taken, ring, pipes>>

sig_int ==
    /\ design \notin Prefork /\ alive(0) /\ Die(0)
    /\ UNCHANGED <<fails, kernel, ring, pipes>>

Sigterm(w) ==
    /\ pc[0] = "wait" /\ alive(w) /\ Die(w)
    /\ UNCHANGED <<fails, kernel, ring, pipes>>

ParentExits ==
    /\ pc[0] = "wait" /\ (\A w \in Workers : ~alive(w)) /\ Die(0)
    /\ UNCHANGED <<fails, kernel, ring, pipes>>

-----------------------------------------------------------------------------

ClientStep(c) == Ask(c, "asked") \/ Ask(c, "bad") \/ Reset(c) \/ Close(c)

MainStep ==
    Fork \/ PthreadCreate \/ sig_chld \/ Select05 \/ PassFd
    \/ Collect \/ ChildTerminated \/ Put \/ PutOverflows \/ ParentExits

WorkerStep(w) == ReadFd(w) \/ ReadFdEof(w) \/ Notify(w) \/ Get(w) \/ CondWait(w) \/ Sigterm(w)

CommonStep(p) ==
    my_lock_wait(p) \/ my_lock_release(p) \/ Accept(p) \/ AcceptAborted(p)
    \/ WebChildWrites(p) \/ WebChildReturns(p) \/ WebChildQuits(p)

Next ==
    \/ \E c \in Conns : Connect(c) \/ ClientStep(c)
    \/ MainStep \/ sig_int \/ sig_int_prefork
    \/ \E w \in Workers : WorkerStep(w)
    \/ \E p \in Procs : CommonStep(p) \/ AcceptFails(p)

Spec == Init /\ [][Next]_vars

\* Every process and thread that can run does, and a client that has connected
\* asks and then closes, as client.c does.
FairSpec ==
    /\ Spec
    /\ \A c \in Conns : WF_vars(ClientStep(c))
    /\ WF_vars(MainStep) /\ \A w \in Workers : WF_vars(WorkerStep(w))
    /\ \A p \in Procs : WF_vars(CommonStep(p))

-----------------------------------------------------------------------------

places(c) ==
    Cardinality({p \in Procs : hand[p] = c}) + Cardinality({w \in Workers : down[w] = c})
        + Cardinality({k \in queue : clifd[k] = c})

\* Every connection the server has accepted and not closed is in exactly one place,
\* a process, a pipe or the ring: no two serve it, and none is forgotten.
HeldOnce ==
    ~(design = "serv08" /\ pc[0] = "dead") =>
        \A c \in Conns : places(c) = IF c \in taken THEN 1 ELSE 0

\* serv05: as long as no child has ended, a child the parent takes for available
\* waits in read_fd() with nothing on its way to it, and navail counts those
\* children: the parent never accepts what it cannot pass on.
AvailableIsIdle ==
    design = "serv05" /\ pc[0] \notin {"dead", "wait"} /\ (\A w \in Workers : alive(w)) =>
        /\ navail = Cardinality(idle)
        /\ \A w \in idle : pc[w] = "read" /\ down[w] = NoConn /\ up[w] = 0

\* The server is out of service: it was interrupted, the process that accepts is
\* gone, all children are, or one died with the mutex locked.
OutOfService ==
    \/ pc[0] \in {"dead", "wait"}
    \/ design \in Prefork /\ \A w \in Workers : ~alive(w)
    \/ design = "serv04" /\ lock # 0 /\ ~alive(lock)

\* In all designs a client that asks is answered as long as the server is in
\* service: there is no lost wakeup, and no lock or idle child is forgotten.
AskedIsAnswered ==
    \A c \in Conns : peer[c] = "asked" ~> peer[c] \in {"answered", "closed"} \/ OutOfService

\* serv05: when the parent is gone every child leaves, the last one first, since
\* a child sees the end of its pipe only when those forked after it have left.
OrphansLeave ==
    design = "serv05" /\ pc[0] = "dead" ~> \A w \in Workers : pc[w] = "dead"

\* serv01: every child that ends is waited for while the parent runs, although
\* several of them may share one SIGCHLD.
ZombiesReaped == \A w \in Workers : pc[w] = "zombie" ~> pc[w] # "zombie" \/ ~alive(0)

\* Types, every connection in one place, and an exact count of idle children.
ServerInv == TypeOK /\ HeldOnce /\ AvailableIsIdle
=============================================================================
