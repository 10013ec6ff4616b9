-------------------------- MODULE ThreadPoolProofs --------------------------
(***************************************************************************)
(* Theorems about ThreadPool for any set of producers, workers and         *)
(* requests and any bounds.                                                *)
(***************************************************************************)
EXTENDS ThreadPool, FiniteSetTheorems, SequenceTheorems, TLAPS

USE DEF Goto, lock, unlock, post, wait

-----------------------------------------------------------------------------
(* The first inductive invariant: types and what the mutex protects.  The  *)
(* types alone are not inductive, Head and Tail need a non-empty queue.    *)

IInv == TypeOK /\ NoAppendUnlessReady /\ MutexHeld /\ LocalFacts

\* Every step keeps the types, the mutex discipline and what the thread inside
\* the critical section knows of the queue.
LEMMA IInvStep == IInv /\ [Next]_vars => IInv'
<1> SUFFICES ASSUME IInv, [Next]_vars PROVE IInv'
  OBVIOUS
<1> USE ThreadsAssumption, BoundsAssumption
<1> USE DEF IInv, TypeOK, Threads, Pointers, ProducerPC, WorkerPC, ProducerLocked,
        WorkerLocked, queue, object, bounds, NoAppendUnlessReady, MutexHeld,
        LocalFacts, Alive
<1>1. CASE CreateFails \/ Destroy
  BY <1>1 DEF CreateFails, Destroy
<1>2. ASSUME NEW w \in Workers, CreateThread(w) PROVE IInv'
  BY <1>2 DEF CreateThread
<1>3. ASSUME NEW w \in Workers, RunWaitFails(w) PROVE IInv'
  BY <1>3 DEF RunWaitFails
<1>4. ASSUME NEW w \in Workers, RunStep(w) PROVE IInv'
  <2>1. CASE RunTest(w) BY <2>1 DEF RunTest
  <2>2. CASE RunWait(w) BY <2>2 DEF RunWait
  <2>3. CASE RunLock(w) BY <2>3 DEF RunLock
  <2>4. CASE RunEmpty(w) BY <2>4 DEF RunEmpty
  <2>5. CASE RunNotEmpty(w) BY <2>5 DEF RunNotEmpty
  <2>6. CASE RunFront(w)
    <3>1. Head(m_workqueue) \in Pointers
      BY <2>6, HeadTailProperties DEF RunFront
    <3>. QED BY <2>6, <3>1 DEF RunFront
  <2>7. CASE RunPop(w)
    <3>1. Tail(m_workqueue) \in Seq(Pointers) /\ Append(taken, request[w]) \in Seq(Pointers)
      BY <2>7, HeadTailProperties, AppendProperties DEF RunPop
    <3>. QED BY <2>7, <3>1 DEF RunPop
  <2>8. CASE RunUnlock(w) BY <2>8 DEF RunUnlock
  <2>9. CASE RunProcess(w) BY <2>9 DEF RunProcess
  <2>10. CASE RunFreed(w) BY <2>10 DEF RunFreed
  <2>. QED BY <1>4, <2>1, <2>2, <2>3, <2>4, <2>5, <2>6, <2>7, <2>8, <2>9, <2>10 DEF RunStep
<1>5. ASSUME NEW p \in Producers, NEW r \in Pointers, AppendLock(p, r) PROVE IInv'
  BY <1>5 DEF AppendLock
<1>6. ASSUME NEW p \in Producers, AppendStep(p) PROVE IInv'
  <2>1. CASE AppendSize(p) BY <2>1 DEF AppendSize
  <2>2. CASE AppendRejected(p) BY <2>2 DEF AppendRejected
  <2>3. CASE AppendPush(p) BY <2>3 DEF AppendPush
  <2>4. CASE AppendUnlock(p) BY <2>4 DEF AppendUnlock
  <2>5. CASE AppendPost(p) BY <2>5 DEF AppendPost
  <2>. QED BY <1>6, <2>1, <2>2, <2>3, <2>4, <2>5 DEF AppendStep
<1>7. CASE UNCHANGED vars
  BY <1>7 DEF vars
<1>. QED BY <1>1, <1>2, <1>3, <1>4, <1>5, <1>6, <1>7 DEF Next

\* Every reachable state satisfies the inductive invariant.
THEOREM IInvCorrect == Spec => []IInv
<1>1. ASSUME Init PROVE IInv
  <2> USE <1>1, ThreadsAssumption, BoundsAssumption DEF Init, Threads
  <2>1. /\ \A p \in Producers : pc[p] = "idle"
        /\ \A w \in Workers : pc[w] = "none"
    OBVIOUS
  <2>2. TypeOK
    <3>1. pc \in [Threads -> ProducerPC \cup WorkerPC]
      BY DEF ProducerPC, WorkerPC
    <3>2. m_workqueue \in Seq(Pointers) /\ taken \in Seq(Pointers)
      BY EmptySeq
    <3>3. request \in [Threads -> Pointers]
      BY DEF Pointers
    <3>4. appends \in 0..MaxAppends /\ intrs \in 0..MaxIntr /\ m_queuestat \in Nat
      OBVIOUS
    <3>5. m_stop \in BOOLEAN /\ pool \in {"constructing", "ready", "freed"}
      OBVIOUS
    <3>6. m_queuelocker \in Threads \cup {Nobody}
      OBVIOUS
    <3>7. \A p \in Producers : pc[p] \in ProducerPC
      BY <2>1 DEF ProducerPC
    <3>8. \A w \in Workers : pc[w] \in WorkerPC
      BY <2>1 DEF WorkerPC
    <3>. QED BY <3>1, <3>2, <3>3, <3>4, <3>5, <3>6, <3>7, <3>8 DEF TypeOK
  <2>3. NoAppendUnlessReady /\ LocalFacts
    BY <2>1 DEF NoAppendUnlessReady, LocalFacts
  <2>4. MutexHeld
    BY <2>1 DEF MutexHeld, ProducerLocked, WorkerLocked
  <2>. QED BY <2>2, <2>3, <2>4 DEF IInv
<1>. QED BY <1>1, IInvStep, PTL DEF Spec

\* Every variable of the pool keeps its type; the semaphore is never negative
\* and front() is never called on an empty list.
THEOREM TypeCorrect == Spec => []TypeOK
<1>1. IInv => TypeOK
  BY DEF IInv
<1>. QED BY <1>1, IInvCorrect, PTL

\* The mutex of threadpool.h excludes: no two threads are between lock() and
\* unlock(), for any number of threads.
THEOREM MutexCorrect == Spec => []MutexHeld
<1>1. IInv => MutexHeld
  BY DEF IInv
<1>. QED BY <1>1, IInvCorrect, PTL

-----------------------------------------------------------------------------
(* The capacity of the queue *)

\* Only push_back and pop_front change the queue, and only pop_front changes
\* what has been taken.
LEMMA OnlyPushAndPop ==
  ASSUME [Next]_vars
  PROVE  \/ \E w \in Workers : RunPop(w)
         \/ \E p \in Producers : AppendPush(p)
         \/ UNCHANGED <<m_workqueue, taken>>
<1> USE DEF queue
<1>1. CASE CreateFails \/ Destroy
  BY <1>1 DEF CreateFails, Destroy
<1>2. ASSUME NEW w \in Workers, CreateThread(w) \/ RunWaitFails(w) \/ RunStep(w)
      PROVE  RunPop(w) \/ UNCHANGED <<m_workqueue, taken>>
  BY <1>2 DEF CreateThread, RunWaitFails, RunStep, RunTest, RunWait, RunLock, RunEmpty,
     RunNotEmpty, RunFront, RunUnlock, RunProcess, RunFreed
<1>3. ASSUME NEW p \in Producers, AppendStep(p) \/ \E r \in Pointers : AppendLock(p, r)
      PROVE  AppendPush(p) \/ UNCHANGED <<m_workqueue, taken>>
  BY <1>3 DEF AppendLock, AppendStep, AppendSize, AppendRejected, AppendUnlock, AppendPost
<1>4. CASE UNCHANGED vars
  BY <1>4 DEF vars
<1>. QED BY <1>1, <1>2, <1>3, <1>4 DEF Next

\* The `>' of append() costs one request and no more: the queue never holds more
\* than m_max_requests + 1, for any number of threads in append().
THEOREM AtMostOneOverCorrect == Spec => []AtMostOneOver
<1>1. Init => AtMostOneOver
  BY BoundsAssumption, EmptySeq DEF Init, AtMostOneOver
<1>2. ASSUME IInv, AtMostOneOver, [Next]_vars PROVE AtMostOneOver'
  <2> USE <1>2, BoundsAssumption DEF IInv, TypeOK, AtMostOneOver, queue
  <2>1. ASSUME NEW w \in Workers, RunPop(w) PROVE AtMostOneOver'
    <3>1. Len(Tail(m_workqueue)) = Len(m_workqueue) - 1 /\ Len(m_workqueue) \in Nat
      BY <2>1, HeadTailProperties, LenProperties DEF RunPop, LocalFacts
    <3>. QED BY <2>1, <3>1 DEF RunPop
  <2>2. ASSUME NEW p \in Producers, AppendPush(p) PROVE AtMostOneOver'
    <3>1. Len(Append(m_workqueue, request[p])) = Len(m_workqueue) + 1
      BY AppendProperties DEF Threads
    <3>. QED BY <2>2, <3>1 DEF AppendPush, LocalFacts
  <2>3. CASE UNCHANGED m_workqueue
    BY <2>3
  <2>. QED BY <2>1, <2>2, <2>3, OnlyPushAndPop
<1>. QED BY <1>1, <1>2, IInvCorrect, PTL DEF Spec

-----------------------------------------------------------------------------
(* Refinement of the atomic queue *)

\* threadpool implements the atomic queue RequestQueue: a push_back is a Put, a
\* pop_front is a Get of the oldest request, every other step is a stutter.
THEOREM QueueImplemented == Spec => ImplementsQueue
<1>1. Init => Queue!QInit
  BY DEF Init, Queue!QInit
<1>2. ASSUME IInv, AtMostOneOver, [Next]_vars
      PROVE  [Queue!QNext]_(Queue!qvars)
  <2> USE <1>2, BoundsAssumption DEF IInv, TypeOK
  <2>1. ASSUME NEW w \in Workers, RunPop(w) PROVE Queue!Get
    BY <2>1 DEF RunPop, LocalFacts, Queue!Get
  <2>2. ASSUME NEW p \in Producers, AppendPush(p)
        PROVE  request[p] \in Pointers /\ Queue!Put(request[p])
    <3>1. Len(m_workqueue) < MaxRequests + 1
      BY <2>2, LenProperties DEF AppendPush, LocalFacts
    <3>. QED BY <2>2, <3>1 DEF AppendPush, Queue!Put, Threads
  <2>. QED BY <2>1, <2>2, OnlyPushAndPop DEF Queue!QNext, Queue!qvars
<1>. QED BY <1>1, <1>2, IInvCorrect, AtMostOneOverCorrect, PTL
     DEF Spec, ImplementsQueue, Queue!QSpec

-----------------------------------------------------------------------------
(* The semaphore and the queue *)

\* A step of a worker leaves the producers' counts alone and the other way
\* round, because no thread is both.
LEMMA WorkerMoves ==
  ASSUME NEW w \in Workers, \A t \in Threads \ {w} : pc'[t] = pc[t]
  PROVE  /\ Cardinality(Posting) \in Nat /\ Cardinality(Woken) \in Nat
         /\ Posting' = Posting
         /\ LET A == {"lock", "empty", "front", "pop"}
            IN /\ (pc[w] \in A <=> pc'[w] \in A) => Cardinality(Woken') = Cardinality(Woken)
               /\ pc[w] \notin A /\ pc'[w] \in A => Cardinality(Woken') = Cardinality(Woken) + 1
               /\ pc[w] \in A /\ pc'[w] \notin A => Cardinality(Woken') = Cardinality(Woken) - 1
<1> DEFINE A == {"lock", "empty", "front", "pop"}
<1> USE ThreadsAssumption DEF Threads
<1>1. \A t \in Threads : t # w => pc'[t] = pc[t]
  OBVIOUS
<1>2. Posting' = Posting
  BY <1>1 DEF Posting
<1>3. IsFiniteSet(Posting) /\ IsFiniteSet(Woken)
  BY FS_Subset DEF Posting, Woken
<1>4. Cardinality(Posting) \in Nat /\ Cardinality(Woken) \in Nat
  BY <1>3, FS_CardinalityType
<1>5. ASSUME pc[w] \in A <=> pc'[w] \in A PROVE Woken' = Woken
  BY <1>1, <1>5 DEF Woken
<1>6. ASSUME pc[w] \notin A, pc'[w] \in A PROVE Cardinality(Woken') = Cardinality(Woken) + 1
  <2>1. Woken' = Woken \cup {w} /\ w \notin Woken
    BY <1>1, <1>6 DEF Woken
  <2>. QED BY <2>1, <1>3, FS_AddElement
<1>7. ASSUME pc[w] \in A, pc'[w] \notin A PROVE Cardinality(Woken') = Cardinality(Woken) - 1
  <2>1. Woken' = Woken \ {w} /\ w \in Woken
    BY <1>1, <1>7 DEF Woken
  <2>. QED BY <2>1, <1>3, FS_RemoveElement
<1>. QED BY <1>2, <1>4, <1>5, <1>6, <1>7

\* The same for a step of a producer.
LEMMA ProducerMoves ==
  ASSUME NEW p \in Producers, \A t \in Threads \ {p} : pc'[t] = pc[t]
  PROVE  /\ Cardinality(Posting) \in Nat /\ Cardinality(Woken) \in Nat
         /\ Woken' = Woken
         /\ LET A == {"unlock", "post"}
            IN /\ (pc[p] \in A <=> pc'[p] \in A) => Cardinality(Posting') = Cardinality(Posting)
               /\ pc[p] \notin A /\ pc'[p] \in A => Cardinality(Posting') = Cardinality(Posting) + 1
               /\ pc[p] \in A /\ pc'[p] \notin A => Cardinality(Posting') = Cardinality(Posting) - 1
<1> DEFINE A == {"unlock", "post"}
<1> USE ThreadsAssumption DEF Threads
<1>1. \A t \in Threads : t # p => pc'[t] = pc[t]
  OBVIOUS
<1>2. Woken' = Woken
  BY <1>1 DEF Woken
<1>3. IsFiniteSet(Posting) /\ IsFiniteSet(Woken)
  BY FS_Subset DEF Posting, Woken
<1>4. Cardinality(Posting) \in Nat /\ Cardinality(Woken) \in Nat
  BY <1>3, FS_CardinalityType
<1>5. ASSUME pc[p] \in A <=> pc'[p] \in A PROVE Posting' = Posting
  BY <1>1, <1>5 DEF Posting
<1>6. ASSUME pc[p] \notin A, pc'[p] \in A PROVE Cardinality(Posting') = Cardinality(Posting) + 1
  <2>1. Posting' = Posting \cup {p} /\ p \notin Posting
    BY <1>1, <1>6 DEF Posting
  <2>. QED BY <2>1, <1>3, FS_AddElement
<1>7. ASSUME pc[p] \in A, pc'[p] \notin A PROVE Cardinality(Posting') = Cardinality(Posting) - 1
  <2>1. Posting' = Posting \ {p} /\ p \in Posting
    BY <1>1, <1>7 DEF Posting
  <2>. QED BY <2>1, <1>3, FS_RemoveElement
<1>. QED BY <1>2, <1>4, <1>5, <1>6, <1>7

\* The two bounds on the semaphore together are kept by every step.
Wakeups == NoLostWakeup /\ WakeupsJustified

\* Every step keeps the equation between the queue, the semaphore and the threads.
LEMMA WakeupsStep == IInv /\ Wakeups /\ [Next]_vars => Wakeups'
<1> SUFFICES ASSUME IInv, Wakeups, [Next]_vars PROVE Wakeups'
  OBVIOUS
<1> TypeOK /\ LocalFacts
  BY DEF IInv
<1> Len(m_workqueue) \in Nat /\ m_queuestat \in Nat /\ intrs \in Nat
  BY LenProperties, BoundsAssumption DEF TypeOK
<1> USE DEF Wakeups, NoLostWakeup, WakeupsJustified, Alive, queue, object, bounds
<1>1. CASE CreateFails \/ Destroy
  BY <1>1 DEF CreateFails, Destroy
<1>2. ASSUME NEW w \in Workers, CreateThread(w) \/ RunWaitFails(w) \/ RunStep(w)
      PROVE  Wakeups'
  <2> \A t \in Threads \ {w} : pc'[t] = pc[t]
    BY <1>2 DEF TypeOK, Threads, CreateThread, RunWaitFails, RunStep, RunTest, RunWait,
       RunLock, RunEmpty, RunNotEmpty, RunFront, RunPop, RunUnlock, RunProcess, RunFreed
  <2>0. w \in DOMAIN pc
    BY DEF TypeOK, Threads
  <2> USE <2>0
  <2>1. CASE CreateThread(w)
    BY <2>1, WorkerMoves DEF CreateThread
  <2>2. CASE RunWaitFails(w)
    BY <2>2, WorkerMoves DEF RunWaitFails
  <2>3. CASE RunTest(w) \/ RunProcess(w)
    BY <2>3, WorkerMoves DEF RunTest, RunProcess
  <2>4. CASE RunWait(w)
    BY <2>4, WorkerMoves DEF RunWait
  <2>5. CASE RunLock(w) \/ RunNotEmpty(w) \/ RunFront(w)
    BY <2>5, WorkerMoves DEF RunLock, RunNotEmpty, RunFront
  <2>6. CASE RunEmpty(w)
    <3>1. Len(m_workqueue) = 0
      BY <2>6, EmptySeq DEF RunEmpty
    <3>2. Cardinality(Woken') \in Nat
      BY FS_Subset, FS_CardinalityType, ThreadsAssumption DEF Woken
    <3>. QED BY <2>6, <3>1, <3>2, WorkerMoves DEF RunEmpty
  <2>7. CASE RunPop(w)
    <3>1. Len(Tail(m_workqueue)) = Len(m_workqueue) - 1
      BY <2>7, HeadTailProperties DEF RunPop, LocalFacts, TypeOK
    <3>2. pc[w] = "pop" /\ pc'[w] = "release"
      BY <2>7 DEF RunPop
    <3>3. Posting' = Posting /\ Cardinality(Woken') = Cardinality(Woken) - 1
      BY <3>2, WorkerMoves
    <3>4. Cardinality(Posting) \in Nat /\ Cardinality(Woken) \in Nat
      BY WorkerMoves
    <3>5. Len(m_workqueue') = Len(m_workqueue) - 1 /\ UNCHANGED <<m_queuestat, intrs, pool>>
      BY <2>7, <3>1 DEF RunPop
    <3>. QED BY <3>3, <3>4, <3>5
  <2>8. CASE RunUnlock(w)
    BY <2>8, WorkerMoves DEF RunUnlock
  <2>9. CASE RunFreed(w)
    BY <2>9 DEF RunFreed
  <2>. QED BY <1>2, <2>1, <2>2, <2>3, <2>4, <2>5, <2>6, <2>7, <2>8, <2>9 DEF RunStep
<1>3. ASSUME NEW p \in Producers, AppendStep(p) \/ \E r \in Pointers : AppendLock(p, r)
      PROVE  Wakeups'
  <2> \A t \in Threads \ {p} : pc'[t] = pc[t]
    BY <1>3 DEF TypeOK, Threads, AppendLock, AppendStep, AppendSize, AppendRejected,
       AppendPush, AppendUnlock, AppendPost
  <2>0. p \in DOMAIN pc
    BY DEF TypeOK, Threads
  <2> USE <2>0
  <2>1. CASE \E r \in Pointers : AppendLock(p, r)
    BY <2>1, ProducerMoves DEF AppendLock
  <2>2. CASE AppendSize(p) \/ AppendRejected(p)
    BY <2>2, ProducerMoves DEF AppendSize, AppendRejected
  <2>3. CASE AppendPush(p)
    <3>1. Len(Append(m_workqueue, request[p])) = Len(m_workqueue) + 1
      BY AppendProperties DEF TypeOK, Threads
    <3>. QED BY <2>3, <3>1, ProducerMoves DEF AppendPush
  <2>4. CASE AppendUnlock(p)
    BY <2>4, ProducerMoves DEF AppendUnlock
  <2>5. CASE AppendPost(p)
    BY <2>5, ProducerMoves DEF AppendPost
  <2>. QED BY <1>3, <2>1, <2>2, <2>3, <2>4, <2>5 DEF AppendStep
<1>4. CASE UNCHANGED vars
  BY <1>4 DEF vars, Posting, Woken
<1>. QED BY <1>1, <1>2, <1>3, <1>4 DEF Next

\* Both bounds on the semaphore hold for any number of producers and workers.
THEOREM WakeupsCorrect == Spec => []Wakeups
<1>1. ASSUME Init PROVE Wakeups
  <2>1. Posting = {} /\ Woken = {}
    BY <1>1, ThreadsAssumption DEF Init, Posting, Woken, Threads
  <2>2. Cardinality(Posting) = 0 /\ Cardinality(Woken) = 0
    BY <2>1, FS_EmptySet
  <2>. QED BY <1>1, <2>2, EmptySeq DEF Init, Wakeups, NoLostWakeup, WakeupsJustified
<1>. QED BY <1>1, WakeupsStep, IInvCorrect, PTL DEF Spec

\* No wakeup is lost: while a request is in the queue some worker is on its way
\* to it or will be let through by the semaphore.
THEOREM NoLostWakeupCorrect == Spec => []NoLostWakeup
<1>1. Wakeups => NoLostWakeup
  BY DEF Wakeups
<1>. QED BY <1>1, WakeupsCorrect, PTL

\* Useless wakeups are bounded by the number of failed sem_wait calls.
THEOREM WakeupsJustifiedCorrect == Spec => []WakeupsJustified
<1>1. Wakeups => WakeupsJustified
  BY DEF Wakeups
<1>. QED BY <1>1, WakeupsCorrect, PTL

\* What the mutex of the pool guards holds in every reachable state, for any number
\* of producers and workers.
THEOREM QueueInvCorrect == Spec => []QueueInv
<1>1. IInv => QueueInv
  BY DEF IInv, QueueInv
<1>. QED BY <1>1, IInvCorrect, PTL
=============================================================================
