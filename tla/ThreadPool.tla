----------------------------- MODULE ThreadPool -----------------------------
(***************************************************************************)
(* youshuang/ch15_pool/thread_pool/threadpool.h with the sem and locker    *)
(* wrappers of locker.h: a list of request pointers, a mutex around it, a  *)
(* semaphore that counts the requests, and detached worker threads.        *)
(*                                                                         *)
(* Every access of a thread to shared state is a step of its own, so       *)
(* size()/push_back and front()/pop_front are protected by the mutex only. *)
(***************************************************************************)
EXTENDS Naturals, Sequences, FiniteSets

CONSTANTS
    Producers,    \* threads that call append()
    Workers,      \* the m_thread_number threads the constructor creates
    Requests,     \* the non-null T* that callers pass
    NULL,         \* the null T*, which run() skips
    Nobody,       \* owner of a free mutex
    MaxRequests,  \* m_max_requests
    MaxAppends,   \* bound: calls of append()
    MaxIntr       \* bound: sem_wait() calls that fail (EINTR)

Threads == Producers \cup Workers
Pointers == Requests \cup {NULL}

ASSUME ThreadsAssumption ==
    /\ IsFiniteSet(Producers) /\ IsFiniteSet(Workers)
    /\ Producers \cap Workers = {}
    /\ Nobody \notin Threads

ASSUME BoundsAssumption ==
    /\ MaxRequests \in Nat \ {0}
    /\ MaxAppends \in Nat /\ MaxIntr \in Nat

VARIABLES
    m_workqueue,    \* std::list<T*>
    m_queuelocker,  \* the thread that holds the mutex, or Nobody
    m_queuestat,    \* value of the semaphore
    m_stop,
    pool,           \* "constructing", "ready", or "freed" once the object is gone
    pc,             \* where each thread is
    request,        \* the local variable / parameter `request' of each thread
    taken,          \* history: every request popped, in order
    appends, intrs  \* how much of the two bounds is used

queue == <<m_workqueue, m_queuelocker, m_queuestat>>
object == <<m_stop, pool>>
bounds == <<appends, intrs>>
vars == <<queue, object, pc, request, taken, bounds>>

ProducerLocked == {"size", "push", "unlock", "full"}
WorkerLocked   == {"empty", "front", "pop", "release"}
ProducerPC == {"idle", "post"} \cup ProducerLocked
WorkerPC   == {"none", "run", "wait", "lock", "process", "exit", "undefined"}
                \cup WorkerLocked

TypeOK ==
    /\ m_workqueue \in Seq(Pointers)
    /\ m_queuelocker \in Threads \cup {Nobody}
    /\ m_queuestat \in Nat
    /\ m_stop \in BOOLEAN
    /\ pool \in {"constructing", "ready", "freed"}
    /\ pc \in [Threads -> ProducerPC \cup WorkerPC]
    /\ \A p \in Producers : pc[p] \in ProducerPC
    /\ \A w \in Workers : pc[w] \in WorkerPC
    /\ request \in [Threads -> Pointers]
    /\ taken \in Seq(Pointers)
    /\ appends \in 0..MaxAppends /\ intrs \in 0..MaxIntr

Init ==
    /\ m_workqueue = <<>> /\ m_queuelocker = Nobody /\ m_queuestat = 0
    /\ m_stop = FALSE /\ pool = "constructing"
    /\ pc = [t \in Threads |-> IF t \in Producers THEN "idle" ELSE "none"]
    /\ request = [t \in Threads |-> NULL]
    /\ taken = <<>> /\ appends = 0 /\ intrs = 0

Alive == pool # "freed"

Goto(t, label) == pc' = [pc EXCEPT ![t] = label]

-----------------------------------------------------------------------------
(* Construction and destruction.  A worker runs as soon as it is created.  *)

\* pthread_create and pthread_detach of one thread; the object is ready for
\* its user once the last one is created
CreateThread(w) ==
    /\ pool = "constructing" /\ pc[w] = "none"
    /\ Goto(w, "run")
    /\ pool' = IF \A v \in Workers \ {w} : pc[v] # "none" THEN "ready" ELSE pool
    /\ UNCHANGED <<queue, m_stop, request, taken, bounds>>

\* pthread_create or pthread_detach fails and the constructor throws: the
\* object is gone, the threads already created are not
CreateFails ==
    /\ pool = "constructing"
    /\ pool' = "freed"
    /\ UNCHANGED <<queue, m_stop, pc, request, taken, bounds>>

\* ~threadpool(): called when no append() is in progress
Destroy ==
    /\ pool = "ready"
    /\ \A p \in Producers : pc[p] = "idle"
    /\ m_stop' = TRUE /\ pool' = "freed"
    /\ UNCHANGED <<queue, pc, request, taken, bounds>>

-----------------------------------------------------------------------------
(* locker and sem *)

lock(t)   == m_queuelocker = Nobody /\ m_queuelocker' = t
unlock(t) == m_queuelocker' = Nobody
post      == m_queuestat' = m_queuestat + 1
\* mutant: sem_trywait that ignores its result
waitNot   == m_queuestat' = m_queuestat - 1
wait      == m_queuestat > 0 /\ m_queuestat' = m_queuestat - 1

-----------------------------------------------------------------------------
(* bool append(T* request) *)

\* mutant: append() does not take the mutex
AppendNoLock(p, r) ==
    /\ pool = "ready" /\ pc[p] = "idle" /\ appends < MaxAppends
    /\ Goto(p, "size")
    /\ request' = [request EXCEPT ![p] = r]
    /\ appends' = appends + 1
    /\ UNCHANGED <<queue, object, taken, intrs>>

AppendLock(p, r) ==
    /\ pool = "ready" /\ pc[p] = "idle" /\ appends < MaxAppends
    /\ lock(p)
    /\ Goto(p, "size")
    /\ request' = [request EXCEPT ![p] = r]
    /\ appends' = appends + 1
    /\ UNCHANGED <<m_workqueue, m_queuestat, object, taken, intrs>>

\* if(m_workqueue.size() > m_max_requests)
AppendSize(p) ==
    /\ pc[p] = "size"
    /\ Goto(p, IF Len(m_workqueue) > MaxRequests THEN "full" ELSE "push")
    /\ UNCHANGED <<queue, object, request, taken, bounds>>

\* mutant: a rejected request is posted too
AppendRejectedPosts(p) ==
    /\ pc[p] = "full"
    /\ unlock(p)
    /\ Goto(p, "post")
    /\ UNCHANGED <<m_workqueue, m_queuestat, object, request, taken, bounds>>

\* unlock and return false
AppendRejected(p) ==
    /\ pc[p] = "full"
    /\ unlock(p)
    /\ Goto(p, "idle")
    /\ UNCHANGED <<m_workqueue, m_queuestat, object, request, taken, bounds>>

AppendPush(p) ==
    /\ pc[p] = "push"
    /\ m_workqueue' = Append(m_workqueue, request[p])
    /\ Goto(p, "unlock")
    /\ UNCHANGED <<m_queuelocker, m_queuestat, object, request, taken, bounds>>

\* mutant: append() returns without m_queuestat.post()
AppendUnlockReturns(p) ==
    /\ pc[p] = "unlock"
    /\ unlock(p)
    /\ Goto(p, "idle")
    /\ UNCHANGED <<m_workqueue, m_queuestat, object, request, taken, bounds>>

AppendUnlock(p) ==
    /\ pc[p] = "unlock"
    /\ unlock(p)
    /\ Goto(p, "post")
    /\ UNCHANGED <<m_workqueue, m_queuestat, object, request, taken, bounds>>

AppendPost(p) ==
    /\ pc[p] = "post"
    /\ post
    /\ Goto(p, "idle")
    /\ UNCHANGED <<m_workqueue, m_queuelocker, object, request, taken, bounds>>

AppendStep(p) ==
    AppendSize(p) \/ AppendRejected(p) \/ AppendPush(p) \/ AppendUnlock(p) \/ AppendPost(p)

-----------------------------------------------------------------------------
(* void run(), in a worker, while the object exists *)

\* while(!m_stop)
RunTest(w) ==
    /\ Alive /\ pc[w] = "run"
    /\ Goto(w, IF m_stop THEN "exit" ELSE "wait")
    /\ UNCHANGED <<queue, object, request, taken, bounds>>

RunWait(w) ==
    /\ Alive /\ pc[w] = "wait"
    /\ wait
    /\ Goto(w, "lock")
    /\ UNCHANGED <<m_workqueue, m_queuelocker, object, request, taken, bounds>>

\* sem_wait returns -1 and run() does not look at the result
RunWaitFails(w) ==
    /\ Alive /\ pc[w] = "wait" /\ intrs < MaxIntr
    /\ intrs' = intrs + 1
    /\ Goto(w, "lock")
    /\ UNCHANGED <<queue, object, request, taken, appends>>

\* mutant: run() does not take the mutex
RunNoLock(w) ==
    /\ Alive /\ pc[w] = "lock"
    /\ Goto(w, "empty")
    /\ UNCHANGED <<queue, object, request, taken, bounds>>

RunLock(w) ==
    /\ Alive /\ pc[w] = "lock"
    /\ lock(w)
    /\ Goto(w, "empty")
    /\ UNCHANGED <<m_workqueue, m_queuestat, object, request, taken, bounds>>

\* if(m_workqueue.empty()): unlock and go round the loop again
RunEmpty(w) ==
    /\ Alive /\ pc[w] = "empty" /\ m_workqueue = <<>>
    /\ unlock(w)
    /\ Goto(w, "run")
    /\ UNCHANGED <<m_workqueue, m_queuestat, object, request, taken, bounds>>

RunNotEmpty(w) ==
    /\ Alive /\ pc[w] = "empty" /\ m_workqueue # <<>>
    /\ Goto(w, "front")
    /\ UNCHANGED <<queue, object, request, taken, bounds>>

RunFront(w) ==
    /\ Alive /\ pc[w] = "front"
    /\ request' = [request EXCEPT ![w] = Head(m_workqueue)]
    /\ Goto(w, "pop")
    /\ UNCHANGED <<queue, object, taken, bounds>>

RunPop(w) ==
    /\ Alive /\ pc[w] = "pop"
    /\ m_workqueue' = Tail(m_workqueue)
    /\ taken' = Append(taken, request[w])
    /\ Goto(w, "release")
    /\ UNCHANGED <<m_queuelocker, m_queuestat, object, request, bounds>>

\* mutant: the null test comes before the unlock
RunUnlockUnlessNull(w) ==
    /\ Alive /\ pc[w] = "release"
    /\ IF request[w] = NULL
         THEN Goto(w, "run") /\ UNCHANGED m_queuelocker
         ELSE Goto(w, "process") /\ unlock(w)
    /\ UNCHANGED <<m_workqueue, m_queuestat, object, request, taken, bounds>>

\* unlock, then either process the request or skip a null one
RunUnlock(w) ==
    /\ Alive /\ pc[w] = "release"
    /\ unlock(w)
    /\ Goto(w, IF request[w] = NULL THEN "run" ELSE "process")
    /\ UNCHANGED <<m_workqueue, m_queuestat, object, request, taken, bounds>>

\* request->process() returns; it does not use the pool
RunProcess(w) ==
    /\ pc[w] = "process"
    /\ Goto(w, "run")
    /\ UNCHANGED <<queue, object, request, taken, bounds>>

\* The object is gone.  The thread reads m_stop where it used to be: it finds
\* TRUE and ends, or goes on and touches freed memory.  Any other access is to
\* freed memory too.  A thread blocked in sem_wait stays there.
RunFreed(w) ==
    /\ ~Alive
    /\ \/ pc[w] \in {"lock"} \cup WorkerLocked /\ Goto(w, "undefined")
       \/ pc[w] = "wait" /\ m_queuestat > 0 /\ Goto(w, "undefined")
       \/ pc[w] = "run" /\ m_stop /\ Goto(w, "exit")
       \/ pc[w] = "run" /\ Goto(w, "undefined")
    /\ UNCHANGED <<queue, object, request, taken, bounds>>

RunStep(w) ==
    \/ RunTest(w) \/ RunWait(w) \/ RunLock(w) \/ RunEmpty(w) \/ RunNotEmpty(w)
    \/ RunFront(w) \/ RunPop(w) \/ RunUnlock(w) \/ RunProcess(w) \/ RunFreed(w)

-----------------------------------------------------------------------------
Next ==
    \/ CreateFails \/ Destroy
    \/ \E w \in Workers : CreateThread(w) \/ RunWaitFails(w) \/ RunStep(w)
    \/ \E p \in Producers : AppendStep(p) \/ \E r \in Pointers : AppendLock(p, r)

Spec == Init /\ [][Next]_vars

\* A thread that can run is scheduled, and process() returns.
FairSpec ==
    /\ Spec
    /\ \A w \in Workers : WF_vars(CreateThread(w)) /\ WF_vars(RunStep(w))
    /\ \A p \in Producers : WF_vars(AppendStep(p))

-----------------------------------------------------------------------------
(* Properties *)

\* Producers between push_back and post, and workers between wait and pop_front.
Posting == {p \in Producers : pc[p] \in {"unlock", "post"}}
Woken   == {w \in Workers : pc[w] \in {"lock", "empty", "front", "pop"}}

\* The mutex is held by exactly the thread that is between lock and unlock:
\* no two threads are ever inside m_queuelocker's critical sections.
MutexHeld ==
    Alive => \A t \in Threads :
        (m_queuelocker = t) <=> (pc[t] \in ProducerLocked \cup WorkerLocked)

\* append() is called on a finished object only.
NoAppendUnlessReady == pool # "ready" => \A p \in Producers : pc[p] = "idle"

\* What the thread inside the critical section has just found out still holds
\* when it acts on it: the queue is not empty and its front is the request
\* read (run), or it has room for one more (append).
LocalFacts ==
    /\ Alive => \A w \in Workers :
          /\ pc[w] \in {"front", "pop"} => m_workqueue # <<>>
          /\ pc[w] = "pop" => request[w] = Head(m_workqueue)
    /\ \A p \in Producers : pc[p] = "push" => Len(m_workqueue) <= MaxRequests

\* What threadpool.h says of m_max_requests: the largest number of requests in
\* the queue.  append() compares with `>', so one more gets in.
QueueBounded == Len(m_workqueue) <= MaxRequests

\* The excess is one request, however many threads append at once.
AtMostOneOver == Len(m_workqueue) <= MaxRequests + 1

\* No lost wakeup: for every request in the queue there is a unit of the
\* semaphore, a producer about to post one, or a worker on its way to the
\* queue.  Workers never all sleep in sem_wait while a request waits.
NoLostWakeup ==
    Alive => Len(m_workqueue) <= m_queuestat + Cardinality(Posting) + Cardinality(Woken)

\* The semaphore runs ahead of the queue by at most the number of sem_wait
\* calls that failed: without failures every wakeup finds a request, and the
\* `empty' branch of run() is what absorbs the others.
WakeupsJustified ==
    Alive => m_queuestat + Cardinality(Posting) + Cardinality(Woken)
                <= Len(m_workqueue) + intrs

Queue == INSTANCE RequestQueue
    WITH Items <- Pointers, Capacity <- MaxRequests + 1,
         pending <- m_workqueue, delivered <- taken

\* threadpool implements the atomic queue: each request that append() accepts
\* is handed to one worker, once, in the order of acceptance.
ImplementsQueue == Queue!QSpec

\* Every accepted request is eventually taken by a worker, unless the pool is
\* destroyed first (the destructor drops what is in the queue).
EveryRequestTaken ==
    \A n \in 1..MaxAppends :
        (Len(taken) + Len(m_workqueue) >= n) ~> (Len(taken) >= n \/ ~Alive)

\* What the mutex guards: types, mutual exclusion, and that what a thread finds out
\* in its critical section of append() or run() is still true when it acts on it.
QueueInv == TypeOK /\ MutexHeld /\ LocalFacts
=============================================================================
