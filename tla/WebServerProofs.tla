-------------------------- MODULE WebServerProofs ---------------------------
(***************************************************************************)
(* Theorems about WebServer for any number of clients, workers and         *)
(* descriptors and any length of the queue, the buffer and the request.    *)
(***************************************************************************)
EXTENDS WebServer, FiniteSetTheorems, SequenceTheorems, TLAPS

-----------------------------------------------------------------------------
(* The inductive invariant.                                                 *)

Armed(fd)  == interest[fd] \in {"in", "out"}
Queued(fd) == \E i \in 1..Len(m_workqueue) : m_workqueue[i] = fd
Worked(fd) == \E w \in Workers : job[w] = fd

\* OneOwner without counting: whoever has a claim on a descriptor is alone.
Exclusive ==
    /\ \A e \in events : e.fd \in Fds =>
         /\ ~Armed(e.fd) /\ main # e.fd /\ ~Queued(e.fd) /\ ~Worked(e.fd)
         /\ \A f \in events : f.fd = e.fd => f = e
    /\ main \in Fds => ~Armed(main) /\ ~Queued(main) /\ ~Worked(main)
    /\ \A i \in 1..Len(m_workqueue) :
         /\ ~Armed(m_workqueue[i]) /\ ~Worked(m_workqueue[i])
         /\ \A j \in 1..Len(m_workqueue) : m_workqueue[i] = m_workqueue[j] => i = j
    /\ \A w \in Workers : job[w] \in Fds =>
         /\ ~Armed(job[w])
         /\ \A v \in Workers : job[v] = job[w] => v = w

\* no claim outlives the connection
ClaimsAreOpen ==
    \A fd \in Fds :
        Armed(fd) \/ main = fd \/ Queued(fd) \/ Worked(fd) \/ (\E e \in events : e.fd = fd)
          => conn[fd] # None

\* an object knows its descriptor exactly while the connection is open
Objects ==
    /\ \A fd \in Fds : users[fd].m_sockfd = IF conn[fd] = None THEN None ELSE fd
    /\ \A w \in Workers : stage[w] = "idle" \/ job[w] \in Fds

\* the types alone are not inductive: a byte enters the socket only when it is sent
BytesSent == \A c \in Clients : rcv[c] <= sent[c]

IInv == TypeOK /\ Exclusive /\ ClaimsAreOpen /\ Objects /\ OwnBytes /\ UserCountExact

-----------------------------------------------------------------------------
(* Counting *)

\* A set with no two elements has one or none.
LEMMA AtMostOne ==
  ASSUME NEW S, \A x, y \in S : x = y
  PROVE  IsFiniteSet(S) /\ Cardinality(S) = IF S = {} THEN 0 ELSE 1
<1>1. CASE S = {}
  BY <1>1, FS_EmptySet
<1>2. CASE S # {}
  <2>1. PICK x \in S : S = {x}
    BY <1>2
  <2>2. IsFiniteSet({x}) /\ Cardinality({x}) = 1
    BY FS_Singleton
  <2>. QED BY <1>2, <2>1, <2>2
<1>. QED BY <1>1, <1>2

\* Claims counts to one.
LEMMA OneOwnerIsExclusive ==
  ASSUME TypeOK, Exclusive, ClaimsAreOpen
  PROVE  OneOwner
<1> SUFFICES ASSUME NEW fd \in Fds
             PROVE  Claims(fd) <= IF fd \in Open THEN 1 ELSE 0
  BY DEF OneOwner
<1> DEFINE A == {x \in {interest[fd]} : x \in {"in", "out"}}
           M == {x \in {main} : x = fd}
           E == {e \in events : e.fd = fd}
           Q == {i \in DOMAIN m_workqueue : m_workqueue[i] = fd}
           W == {w \in Workers : job[w] = fd}
<1>1. DOMAIN m_workqueue = 1..Len(m_workqueue)
  BY DEF TypeOK
<1>2. Cardinality(A) = IF A = {} THEN 0 ELSE 1
  BY AtMostOne
<1>3. Cardinality(M) = IF M = {} THEN 0 ELSE 1
  BY AtMostOne
<1>4. Cardinality(E) = IF E = {} THEN 0 ELSE 1
  <2>1. \A x, y \in E : x = y
    BY DEF Exclusive
  <2>. QED BY <2>1, AtMostOne
<1>5. Cardinality(Q) = IF Q = {} THEN 0 ELSE 1
  <2>1. \A x, y \in Q : x = y
    BY <1>1 DEF Exclusive
  <2>. QED BY <2>1, AtMostOne
<1>6. Cardinality(W) = IF W = {} THEN 0 ELSE 1
  <2>1. \A x, y \in W : x = y
    BY DEF Exclusive
  <2>. QED BY <2>1, AtMostOne
<1>7. (A # {} <=> Armed(fd)) /\ (M # {} <=> main = fd) /\ (Q # {} <=> Queued(fd))
      /\ (W # {} <=> Worked(fd)) /\ (E # {} <=> \E e \in events : e.fd = fd)
  BY <1>1 DEF Armed, Queued, Worked
<1>8. fd \notin Open => A = {} /\ M = {} /\ E = {} /\ Q = {} /\ W = {}
  BY <1>7 DEF ClaimsAreOpen, Open
<1>9. /\ A # {} => M = {} /\ E = {} /\ Q = {} /\ W = {}
      /\ M # {} => E = {} /\ Q = {} /\ W = {}
      /\ E # {} => Q = {} /\ W = {}
      /\ Q # {} => W = {}
  <2>1. E # {} => ~Armed(fd) /\ main # fd /\ ~Queued(fd) /\ ~Worked(fd)
    BY DEF Exclusive
  <2>2. main = fd => ~Armed(fd) /\ ~Queued(fd) /\ ~Worked(fd)
    BY DEF Exclusive
  <2>3. Queued(fd) => ~Armed(fd) /\ ~Worked(fd)
    BY DEF Exclusive, Queued
  <2>4. Worked(fd) => ~Armed(fd)
    BY DEF Exclusive, Worked
  <2>. QED BY <1>7, <2>1, <2>2, <2>3, <2>4
<1>10. Claims(fd) = Cardinality(A) + Cardinality(M) + Cardinality(E) + Cardinality(Q)
                      + Cardinality(W)
  BY DEF Claims
<1> HIDE DEF A, M, E, Q, W
<1>. QED BY <1>2, <1>3, <1>4, <1>5, <1>6, <1>8, <1>9, <1>10

\* There are finitely many descriptors.
LEMMA OpenFinite == IsFiniteSet(Open) /\ Cardinality(Open) \in Nat
<1>1. IsFiniteSet(Fds)
  BY ServerAssumption, FS_Interval DEF Fds
<1>2. Open \in SUBSET Fds
  BY DEF Open
<1>3. IsFiniteSet(Open)
  BY <1>1, <1>2, FS_Subset
<1>. QED BY <1>3, FS_CardinalityType

\* read() takes what there is or what fits.
LEMMA TakenByRead ==
  ASSUME NEW a \in Nat, NEW b \in Nat
  PROVE  Min({a, b}) = IF a <= b THEN a ELSE b
<1>1. \A x \in {a, b} : (\A y \in {a, b} : x <= y) => x = (IF a <= b THEN a ELSE b)
  OBVIOUS
<1>2. \E x \in {a, b} : \A y \in {a, b} : x <= y
  OBVIOUS
<1>. QED BY <1>1, <1>2 DEF Min

-----------------------------------------------------------------------------
(* The steps *)

Object == [m_sockfd : Fds \cup {None}, m_read_idx : 0..READ_BUFFER_SIZE,
           m_linger : BOOLEAN, readFrom : SUBSET Clients, answerTo : SUBSET Clients,
           refused : BOOLEAN]

\* what main knows when it handles an event of a connection
LEMMA EventInHand ==
  ASSUME IInv, NEW e, Handled(e), e.fd # ListenFd
  PROVE  /\ e \in events /\ e.fd \in Fds /\ conn[e.fd] \in Clients
         /\ users[e.fd].m_sockfd = e.fd /\ e.fd \in Open /\ None \notin Fds
         /\ ~Armed(e.fd) /\ main # e.fd /\ ~Queued(e.fd) /\ ~Worked(e.fd)
         /\ events' = events \ {e} /\ \A f \in events' : f.fd # e.fd
<1>1. e \in events /\ e.fd \in Fds /\ events' = events \ {e} /\ None \notin Fds
  BY ServerAssumption DEF IInv, TypeOK, Handled
<1>2. conn[e.fd] \in Clients /\ conn[e.fd] # None
  BY <1>1 DEF IInv, TypeOK, ClaimsAreOpen
<1>3. users[e.fd].m_sockfd = e.fd /\ e.fd \in Open
  BY <1>1, <1>2 DEF IInv, Objects, Open
<1>4. /\ ~Armed(e.fd) /\ main # e.fd /\ ~Queued(e.fd) /\ ~Worked(e.fd)
      /\ \A f \in events' : f.fd # e.fd
  BY <1>1 DEF IInv, Exclusive
<1>. QED BY <1>1, <1>2, <1>3, <1>4

\* Nobody gets a claim: the claims there are stay exclusive.
LEMMA FewerClaims ==
  ASSUME TypeOK, Exclusive, UNCHANGED <<m_workqueue, job, main>>, events' \subseteq events,
         \A f \in Fds : Armed(f)' => Armed(f)
  PROVE  Exclusive'
<1>1. \A f : (Queued(f)' <=> Queued(f)) /\ (Worked(f)' <=> Worked(f))
  BY DEF Queued, Worked
<1>2. \A i \in 1..Len(m_workqueue) : m_workqueue[i] \in Fds
  BY DEF TypeOK
<1>3. \A x \in events' : x.fd \in Fds =>
        /\ ~Armed(x.fd)' /\ main # x.fd /\ ~Queued(x.fd) /\ ~Worked(x.fd)
        /\ \A f \in events' : f.fd = x.fd => f = x
  BY DEF Exclusive
<1>4. main \in Fds => ~Armed(main)' /\ ~Queued(main) /\ ~Worked(main)
  BY DEF Exclusive
<1>5. \A i \in 1..Len(m_workqueue) :
        /\ ~Armed(m_workqueue[i])' /\ ~Worked(m_workqueue[i])
        /\ \A j \in 1..Len(m_workqueue) : m_workqueue[i] = m_workqueue[j] => i = j
  BY <1>2 DEF Exclusive
<1>6. \A w \in Workers : job[w] \in Fds =>
        ~Armed(job[w])' /\ \A v \in Workers : job[v] = job[w] => v = w
  BY DEF Exclusive
<1>. QED BY <1>1, <1>3, <1>4, <1>5, <1>6 DEF Exclusive

\* Every way to close a connection: the claim that main holds with the event goes
\* with it, and m_user_count follows.
LEMMA CloseStep ==
  ASSUME IInv, NEW e, Handled(e), e.fd # ListenFd, close_conn(e.fd), UNCHANGED <<pool, main>>
  PROVE  /\ Exclusive' /\ ClaimsAreOpen' /\ Objects' /\ OwnBytes' /\ UserCountExact'
         /\ link' \in [Clients -> {"new", "backlog", "open", "closed"}]
         /\ conn' \in [Fds -> Clients \cup {None}]
         /\ interest' \in [Fds -> {"none", "off", "in", "out"}]
         /\ users' \in [Fds -> Object] /\ m_user_count' \in Nat
         /\ events' \subseteq events
<1> DEFINE fd == e.fd
<1>1. /\ e \in events /\ fd \in Fds /\ conn[fd] \in Clients
      /\ users[fd].m_sockfd = fd /\ fd \in Open /\ None \notin Fds
      /\ ~Armed(fd) /\ main # fd /\ ~Queued(fd) /\ ~Worked(fd)
      /\ events' = events \ {e} /\ \A f \in events' : f.fd # fd
  BY EventInHand
<1> HIDE DEF fd
<1>2. /\ interest' = [interest EXCEPT ![fd] = "none"] /\ conn' = [conn EXCEPT ![fd] = None]
      /\ link' = [link EXCEPT ![conn[fd]] = "closed"]
      /\ users' = [users EXCEPT ![fd].m_sockfd = None] /\ m_user_count' = m_user_count - 1
  BY <1>1 DEF close_conn, fd
<1>3. /\ TypeOK /\ Exclusive /\ ClaimsAreOpen /\ Objects /\ OwnBytes /\ UserCountExact
  BY DEF IInv
<1>4. /\ link' \in [Clients -> {"new", "backlog", "open", "closed"}]
      /\ conn' \in [Fds -> Clients \cup {None}]
      /\ interest' \in [Fds -> {"none", "off", "in", "out"}]
  BY <1>1, <1>2, <1>3 DEF TypeOK
<1>5. users \in [Fds -> Object] /\ users' = [users EXCEPT ![fd] = [users[fd] EXCEPT !.m_sockfd = None]]
  BY <1>1, <1>2, <1>3 DEF TypeOK, Object
<1>6. [users[fd] EXCEPT !.m_sockfd = None] \in Object
  BY <1>1, <1>5 DEF Object
<1>7. users' \in [Fds -> Object]
  BY <1>5, <1>6
<1>8. Open' = Open \ {fd}
  BY <1>1, <1>2, <1>3 DEF Open, TypeOK
<1>9. UserCountExact' /\ m_user_count' \in Nat
  <2>1. Cardinality(Open \ {fd}) = Cardinality(Open) - 1 /\ IsFiniteSet(Open \ {fd})
    BY <1>1, OpenFinite, FS_RemoveElement
  <2>2. Cardinality(Open \ {fd}) \in Nat
    BY <2>1, FS_CardinalityType
  <2>. QED BY <1>2, <1>3, <1>8, <2>1, <2>2 DEF UserCountExact
<1>10. \A f \in Fds : Armed(f)' => f # fd /\ Armed(f)
  BY <1>1, <1>2, <1>3 DEF Armed, TypeOK
<1>11. \A f : (Queued(f)' <=> Queued(f)) /\ (Worked(f)' <=> Worked(f))
  BY DEF Queued, Worked, pool
<1>12. UNCHANGED <<m_workqueue, job, stage, main>>
  BY DEF pool
<1>13. \A i \in 1..Len(m_workqueue) : m_workqueue[i] \in Fds
  BY <1>3 DEF TypeOK
<1>14. Exclusive'
  BY <1>1, <1>3, <1>10, <1>12, FewerClaims
<1>15. ClaimsAreOpen'
  <2> SUFFICES ASSUME NEW f \in Fds,
                      Armed(f)' \/ main = f \/ Queued(f) \/ Worked(f) \/ (\E x \in events' : x.fd = f)
               PROVE  conn'[f] # None
    BY <1>11, <1>12 DEF ClaimsAreOpen
  <2>1. f # fd
    BY <1>1, <1>10
  <2>2. Armed(f) \/ main = f \/ Queued(f) \/ Worked(f) \/ (\E x \in events : x.fd = f)
    BY <1>1, <1>10
  <2>. QED BY <1>2, <1>3, <2>1, <2>2 DEF ClaimsAreOpen, TypeOK
<1>16. Objects'
  BY <1>1, <1>2, <1>3, <1>5, <1>12 DEF Objects, TypeOK, Object
<1>17. OwnBytes'
  BY <1>1, <1>2, <1>3, <1>5, <1>8 DEF OwnBytes, TypeOK, Object, Open
<1>. QED BY <1>1, <1>4, <1>7, <1>9, <1>14, <1>15, <1>16, <1>17

\* A step that leaves the descriptors, the queue, the workers and the objects alone.
LEMMA SameClaims ==
  ASSUME IInv, UNCHANGED <<m_workqueue, job, stage, main, interest, conn, users, m_user_count>>,
         events' \subseteq events
  PROVE  Exclusive' /\ ClaimsAreOpen' /\ Objects' /\ OwnBytes' /\ UserCountExact'
<1>1. Exclusive'
  BY FewerClaims DEF IInv, Armed
<1>2. \A f : /\ (Queued(f)' <=> Queued(f)) /\ (Worked(f)' <=> Worked(f))
             /\ (Armed(f)' <=> Armed(f))
  BY DEF Queued, Worked, Armed
<1>3. ClaimsAreOpen'
  <2> SUFFICES ASSUME NEW f \in Fds,
                      Armed(f)' \/ main = f \/ Queued(f) \/ Worked(f) \/ (\E x \in events' : x.fd = f)
               PROVE  conn[f] # None
    BY <1>2 DEF ClaimsAreOpen
  <2>1. Armed(f) \/ main = f \/ Queued(f) \/ Worked(f) \/ (\E x \in events : x.fd = f)
    BY <1>2
  <2>. QED BY <2>1 DEF IInv, ClaimsAreOpen
<1>4. Open' = Open
  BY DEF Open
<1>. QED BY <1>1, <1>3, <1>4 DEF IInv, Objects, OwnBytes, UserCountExact

\* main hands the descriptor of the event it handles back to epoll.
LEMMA RearmStep ==
  ASSUME IInv, NEW e, Handled(e), e.fd # ListenFd, UNCHANGED <<pool, main, conn, m_user_count>>,
         NEW ev \in {"in", "out"}, modfd(e.fd, ev)
  PROVE  /\ Exclusive' /\ ClaimsAreOpen' /\ UserCountExact' /\ Open' = Open
         /\ interest' \in [Fds -> {"none", "off", "in", "out"}] /\ events' \subseteq events
<1> DEFINE fd == e.fd
<1>1. /\ e \in events /\ fd \in Fds /\ conn[fd] \in Clients /\ fd \in Open
      /\ ~Armed(fd) /\ main # fd /\ ~Queued(fd) /\ ~Worked(fd)
      /\ events' = events \ {e} /\ \A f \in events' : f.fd # fd
  BY EventInHand
<1>2. interest' = [interest EXCEPT ![fd] = IF @ = "none" THEN @ ELSE ev]
  BY DEF modfd
<1> HIDE DEF fd
<1>3. interest' \in [Fds -> {"none", "off", "in", "out"}]
  BY <1>1, <1>2 DEF IInv, TypeOK
<1>4. \A f \in Fds : Armed(f)' => f = fd \/ Armed(f)
  BY <1>1, <1>2 DEF Armed, IInv, TypeOK
<1>5. \A f : (Queued(f)' <=> Queued(f)) /\ (Worked(f)' <=> Worked(f))
  BY DEF Queued, Worked, pool
<1>6. UNCHANGED <<m_workqueue, job, stage, main>>
  BY DEF pool
<1>7. \A i \in 1..Len(m_workqueue) : m_workqueue[i] \in Fds /\ m_workqueue[i] # fd
  BY <1>1 DEF IInv, TypeOK, Queued
<1>8. \A w \in Workers : job[w] # fd
  BY <1>1 DEF Worked
<1>9. Exclusive'
  <2>1. \A x \in events' : x.fd \in Fds =>
          /\ ~Armed(x.fd)' /\ main # x.fd /\ ~Queued(x.fd) /\ ~Worked(x.fd)
          /\ \A f \in events' : f.fd = x.fd => f = x
    BY <1>1, <1>4 DEF IInv, Exclusive
  <2>2. main \in Fds => ~Armed(main)' /\ ~Queued(main) /\ ~Worked(main)
    BY <1>1, <1>4, <1>6 DEF IInv, Exclusive
  <2>3. \A i \in 1..Len(m_workqueue) :
          /\ ~Armed(m_workqueue[i])' /\ ~Worked(m_workqueue[i])
          /\ \A j \in 1..Len(m_workqueue) : m_workqueue[i] = m_workqueue[j] => i = j
    BY <1>4, <1>6, <1>7 DEF IInv, Exclusive
  <2>4. \A w \in Workers : job[w] \in Fds =>
          ~Armed(job[w])' /\ \A v \in Workers : job[v] = job[w] => v = w
    BY <1>4, <1>6, <1>8 DEF IInv, Exclusive
  <2>. QED BY <1>5, <1>6, <2>1, <2>2, <2>3, <2>4 DEF Exclusive
<1>10. ClaimsAreOpen'
  <2> SUFFICES ASSUME NEW f \in Fds,
                      Armed(f)' \/ main = f \/ Queued(f) \/ Worked(f) \/ (\E x \in events' : x.fd = f)
               PROVE  conn[f] # None
    BY <1>5, <1>6 DEF ClaimsAreOpen
  <2>1. CASE f = fd
    BY <1>1, <2>1 DEF Open
  <2>2. CASE f # fd
    <3>1. Armed(f) \/ main = f \/ Queued(f) \/ Worked(f) \/ (\E x \in events : x.fd = f)
      BY <1>1, <1>4, <2>2
    <3>. QED BY <3>1 DEF IInv, ClaimsAreOpen
  <2>. QED BY <2>1, <2>2
<1>11. Open' = Open
  BY DEF Open
<1>. QED BY <1>1, <1>3, <1>9, <1>10, <1>11 DEF IInv, UserCountExact

\* A new object, and what init() makes of an old one, belongs to nobody.
LEMMA FreshObject ==
  ASSUME NEW fd \in Fds
  PROVE  /\ [Fresh EXCEPT !.m_sockfd = fd] \in Object
         /\ [Fresh EXCEPT !.m_sockfd = fd].m_sockfd = fd
         /\ [Fresh EXCEPT !.m_sockfd = fd].readFrom = {}
         /\ [Fresh EXCEPT !.m_sockfd = fd].answerTo = {}
<1>1. PICK no \in BOOLEAN : Fresh = [m_sockfd |-> None, m_read_idx |-> 0, m_linger |-> no,
                                     readFrom |-> {}, answerTo |-> {}, refused |-> no]
  <2>. WITNESS FALSE \in BOOLEAN
  <2>. QED BY DEF Fresh
<1>2. [Fresh EXCEPT !.m_sockfd = fd]
        = [m_sockfd |-> fd, m_read_idx |-> 0, m_linger |-> no, readFrom |-> {}, answerTo |-> {},
           refused |-> no]
  BY <1>1
<1>3. 0 \in 0..READ_BUFFER_SIZE
  BY ServerAssumption
<1>. QED BY <1>2, <1>3 DEF Object

\* read() leaves in the socket what it does not take, and never overfills the buffer.
LEMMA ReadTakes ==
  ASSUME IInv, NEW e, HandleRead(e)
  PROVE  LET fd == e.fd
             n == Min({rcv[conn[fd]], READ_BUFFER_SIZE - users[fd].m_read_idx})
         IN  /\ n \in Nat /\ users[fd].m_read_idx + n \in 0..READ_BUFFER_SIZE
             /\ rcv' \in [Clients -> 0..MaxBytes] /\ UNCHANGED sent
             /\ \A c \in Clients : rcv'[c] <= rcv[c]
<1> DEFINE fd == e.fd
           c == conn[fd]
           n == Min({rcv[c], READ_BUFFER_SIZE - users[fd].m_read_idx})
<1>1. rcv' = [rcv EXCEPT ![c] = @ - n] /\ UNCHANGED sent
  BY DEF HandleRead
<1>2. fd \in Fds /\ c \in Clients
  BY EventInHand DEF HandleRead
<1>3. PICK a \in Nat, b \in Nat, m \in Nat :
        /\ a = rcv[c] /\ m = users[fd].m_read_idx /\ b = READ_BUFFER_SIZE - m
        /\ a <= MaxBytes /\ m <= READ_BUFFER_SIZE
  <2>1. rcv[c] \in 0..MaxBytes
    BY <1>2 DEF IInv, TypeOK
  <2>2. users[fd].m_read_idx \in 0..READ_BUFFER_SIZE
    BY <1>2 DEF IInv, TypeOK
  <2> HIDE DEF fd, c
  <2>. QED BY <2>1, <2>2, ServerAssumption
<1>4. n = IF a <= b THEN a ELSE b
  <2>1. n = Min({a, b})
    BY <1>3
  <2>. QED BY <2>1, TakenByRead
<1> HIDE DEF n, c
<1>5. n \in Nat /\ m + n \in 0..READ_BUFFER_SIZE /\ a - n \in 0..MaxBytes /\ a - n <= a
  BY <1>3, <1>4, ServerAssumption
<1>6. rcv \in [Clients -> 0..MaxBytes]
  BY DEF IInv, TypeOK
<1>7. rcv' = [rcv EXCEPT ![c] = a - n]
  BY <1>1, <1>3
<1>8. rcv' \in [Clients -> 0..MaxBytes]
  BY <1>2, <1>5, <1>6, <1>7
<1>9. \A x \in Clients : rcv'[x] <= rcv[x]
  BY <1>2, <1>3, <1>5, <1>6, <1>7, ServerAssumption
<1>. QED BY <1>1, <1>3, <1>5, <1>8, <1>9 DEF n, c

\* Every step of main's loop keeps the inductive invariant.
LEMMA MainInv ==
  ASSUME IInv, MainStep
  PROVE  IInv'
<1>1. /\ TypeOK /\ Exclusive /\ ClaimsAreOpen /\ Objects /\ OwnBytes /\ UserCountExact
  BY DEF IInv
<1>2. /\ None \notin Fds /\ None \notin Clients /\ ListenFd \notin Fds
  BY ServerAssumption DEF Fds, ListenFd
<1>3. users \in [Fds -> Object]
  BY <1>1 DEF TypeOK, Object
<1>4. CASE epoll_wait
  <2> DEFINE ready == {fd \in Fds : Ready(fd) # {}}
  <2>1. /\ events = {} /\ main = None
        /\ events' = {[fd |-> fd, ev |-> Ready(fd)] : fd \in ready}
                       \cup (IF edge THEN {[fd |-> ListenFd, ev |-> {"in"}]} ELSE {})
        /\ interest' = [fd \in Fds |-> IF fd \in ready THEN "off" ELSE interest[fd]]
        /\ edge' = FALSE
        /\ UNCHANGED <<client, conn, users, m_user_count, pool, main, agains>>
    BY <1>4 DEF epoll_wait
  <2>2. ready \subseteq {fd \in Fds : Armed(fd)}
    BY DEF Ready, Armed
  <2>3. \A x \in events' : x.fd \in ready \/ x.fd = ListenFd
    BY <2>1
  <2>4. \A x, y \in events' : x.fd = y.fd => x = y
    <3> SUFFICES ASSUME NEW x \in events', NEW y \in events', x.fd = y.fd PROVE x = y
      OBVIOUS
    <3>1. \A z \in events' : \/ z.fd \in ready /\ z = [fd |-> z.fd, ev |-> Ready(z.fd)]
                             \/ z.fd = ListenFd /\ z = [fd |-> ListenFd, ev |-> {"in"}]
      BY <2>1
    <3>2. ListenFd \notin ready
      BY <1>2
    <3>. QED BY <3>1, <3>2
  <2>5. \A x \in events' : x.fd \in Fds \cup {ListenFd} /\ x.ev \subseteq {"in", "out", "rdhup"}
    <3> SUFFICES ASSUME NEW x \in events'
                 PROVE  x.fd \in Fds \cup {ListenFd} /\ x.ev \subseteq {"in", "out", "rdhup"}
      OBVIOUS
    <3>1. x = [fd |-> ListenFd, ev |-> {"in"}] \/ \E fd \in ready : x = [fd |-> fd, ev |-> Ready(fd)]
      BY <2>1
    <3>2. \A fd \in ready : Ready(fd) \subseteq {"in", "out", "rdhup"}
      BY DEF Ready
    <3>. QED BY <3>1, <3>2
  <2> HIDE DEF ready
  <2>6. \A f \in Fds : Armed(f)' <=> f \notin ready /\ Armed(f)
    BY <1>1, <2>1 DEF Armed, TypeOK
  <2>7. \A f : (Queued(f)' <=> Queued(f)) /\ (Worked(f)' <=> Worked(f))
    BY <2>1 DEF Queued, Worked, pool
  <2>8. UNCHANGED <<m_workqueue, job, stage, main>>
    BY <2>1 DEF pool
  <2>9. Exclusive'
    <3>1. \A f \in ready : f \in Fds /\ ~Queued(f) /\ ~Worked(f)
      BY <1>1, <2>2 DEF Exclusive, Queued, Worked
    <3>2. \A x \in events' : x.fd \in Fds =>
            /\ ~Armed(x.fd)' /\ main # x.fd /\ ~Queued(x.fd) /\ ~Worked(x.fd)
            /\ \A f \in events' : f.fd = x.fd => f = x
      BY <1>2, <2>1, <2>3, <2>4, <2>6, <3>1
    <3>3. \A i \in 1..Len(m_workqueue) : m_workqueue[i] \in Fds
      BY <1>1 DEF TypeOK
    <3>4. \A i \in 1..Len(m_workqueue) :
            /\ ~Armed(m_workqueue[i])' /\ ~Worked(m_workqueue[i])
            /\ \A j \in 1..Len(m_workqueue) : m_workqueue[i] = m_workqueue[j] => i = j
      BY <1>1, <2>6, <2>8, <3>3 DEF Exclusive
    <3>5. \A w \in Workers : job[w] \in Fds =>
            ~Armed(job[w])' /\ \A v \in Workers : job[v] = job[w] => v = w
      BY <1>1, <2>6, <2>8 DEF Exclusive
    <3>. QED BY <1>2, <2>1, <2>7, <2>8, <3>2, <3>4, <3>5 DEF Exclusive
  <2>10. ClaimsAreOpen'
    <3> SUFFICES ASSUME NEW f \in Fds,
                        Armed(f)' \/ main = f \/ Queued(f) \/ Worked(f) \/ (\E x \in events' : x.fd = f)
                 PROVE  conn[f] # None
      BY <2>1, <2>7, <2>8 DEF ClaimsAreOpen
    <3>1. Armed(f) \/ main = f \/ Queued(f) \/ Worked(f)
      BY <1>2, <2>2, <2>3, <2>6
    <3>. QED BY <1>1, <3>1 DEF ClaimsAreOpen
  <2>11. Objects' /\ OwnBytes' /\ UserCountExact'
    BY <1>1, <2>1, <2>8 DEF Objects, OwnBytes, UserCountExact, Open
  <2>12. TypeOK'
    <3>1. interest' \in [Fds -> {"none", "off", "in", "out"}]
      BY <1>1, <2>1 DEF TypeOK
    <3>2. edge' \in BOOLEAN
      BY <2>1
    <3>. QED BY <1>1, <2>1, <2>5, <2>8, <3>1, <3>2 DEF TypeOK, client, pool
  <2>. QED BY <2>9, <2>10, <2>11, <2>12 DEF IInv
<1>5. CASE append
  <2>1. /\ main # None /\ main' = None
        /\ m_workqueue' = IF Len(m_workqueue) > MaxRequests THEN m_workqueue
                          ELSE Append(m_workqueue, main)
        /\ UNCHANGED <<client, epoll, m_user_count, job, stage, events, agains>>
        /\ UNCHANGED users \/ users' = [users EXCEPT ![main].refused = TRUE]
    BY <1>5 DEF append
  <2>2. main \in Fds /\ conn[main] # None
    BY <1>1, <2>1 DEF TypeOK, ClaimsAreOpen
  <2>3. m_workqueue \in Seq(Fds) /\ Len(m_workqueue) \in Nat
    BY <1>1 DEF TypeOK
  <2>4. /\ m_workqueue' \in Seq(Fds) /\ Len(m_workqueue') \in Nat
        /\ \/ m_workqueue' = m_workqueue
           \/ /\ Len(m_workqueue') = Len(m_workqueue) + 1
              /\ \A i \in 1..Len(m_workqueue) : m_workqueue'[i] = m_workqueue[i]
              /\ m_workqueue'[Len(m_workqueue) + 1] = main
    BY <2>1, <2>2, <2>3, AppendProperties
  <2>5. \A i \in 1..Len(m_workqueue') :
          \/ i \in 1..Len(m_workqueue) /\ m_workqueue'[i] = m_workqueue[i]
          \/ i = Len(m_workqueue) + 1 /\ m_workqueue'[i] = main
    BY <2>3, <2>4
  <2>6. UNCHANGED <<interest, conn, job, stage, events, m_user_count>>
    BY <2>1 DEF epoll
  <2>7. \A f : /\ Queued(f)' => Queued(f) \/ f = main
               /\ (Worked(f)' <=> Worked(f)) /\ (Armed(f)' <=> Armed(f))
    BY <2>5, <2>6 DEF Queued, Worked, Armed
  <2>8. Exclusive'
    <3>1. \A x \in events : x.fd \in Fds =>
            /\ ~Armed(x.fd)' /\ main' # x.fd /\ ~Queued(x.fd)' /\ ~Worked(x.fd)'
            /\ \A f \in events : f.fd = x.fd => f = x
      BY <1>1, <1>2, <2>1, <2>7 DEF Exclusive
    <3>2. \A i \in 1..Len(m_workqueue') : ~Armed(m_workqueue'[i]) /\ ~Worked(m_workqueue'[i])
      BY <1>1, <2>2, <2>5 DEF Exclusive
    <3>3. ASSUME NEW i \in 1..Len(m_workqueue'), NEW j \in 1..Len(m_workqueue'),
                 m_workqueue'[i] = m_workqueue'[j]
          PROVE  i = j
      <4>1. \A k \in 1..Len(m_workqueue) : m_workqueue[k] # main
        BY <1>1, <2>2 DEF Exclusive, Queued
      <4>2. CASE i \in 1..Len(m_workqueue) /\ m_workqueue'[i] = m_workqueue[i]
        BY <1>1, <2>5, <3>3, <4>1, <4>2 DEF Exclusive
      <4>3. CASE i = Len(m_workqueue) + 1 /\ m_workqueue'[i] = main
        BY <2>5, <3>3, <4>1, <4>3
      <4>. QED BY <2>5, <4>2, <4>3
    <3>4. \A f : (Armed(f)' <=> Armed(f)) /\ (Worked(f)' <=> Worked(f))
      BY <2>7
    <3>5. \A i \in 1..Len(m_workqueue') :
            /\ ~Armed(m_workqueue[i])' /\ ~Worked(m_workqueue[i])'
            /\ \A j \in 1..Len(m_workqueue') : m_workqueue'[i] = m_workqueue'[j] => i = j
      BY <2>6, <3>2, <3>3 DEF Armed, Worked
    <3>6. \A w \in Workers : job[w] \in Fds =>
            ~Armed(job[w])' /\ \A v \in Workers : job[v] = job[w] => v = w
      BY <1>1, <2>6 DEF Exclusive, Armed
    <3>. QED BY <1>2, <2>1, <2>6, <3>1, <3>5, <3>6 DEF Exclusive
  <2>9. ClaimsAreOpen'
    <3> SUFFICES ASSUME NEW f \in Fds, Armed(f) \/ Queued(f)' \/ Worked(f) \/ (\E x \in events : x.fd = f)
                 PROVE  conn[f] # None
      BY <1>2, <2>1, <2>6, <2>7 DEF ClaimsAreOpen
    <3>. QED BY <1>1, <2>2, <2>7 DEF ClaimsAreOpen
  <2>10. /\ users' \in [Fds -> Object]
         /\ \A f \in Fds : /\ users'[f].m_sockfd = users[f].m_sockfd
                           /\ users'[f].readFrom = users[f].readFrom
                           /\ users'[f].answerTo = users[f].answerTo
    <3>1. CASE UNCHANGED users
      BY <1>3, <3>1
    <3>2. CASE users' = [users EXCEPT ![main].refused = TRUE]
      <4> DEFINE o == [users[main] EXCEPT !.refused = TRUE]
      <4>1. PICK yes \in BOOLEAN : yes = TRUE
        OBVIOUS
      <4>2. users[main] \in Object /\ o = [users[main] EXCEPT !.refused = yes]
        BY <1>3, <2>2, <4>1
      <4>3. /\ o \in Object /\ o.m_sockfd = users[main].m_sockfd
            /\ o.readFrom = users[main].readFrom /\ o.answerTo = users[main].answerTo
        BY <4>2 DEF Object
      <4>4. users' = [users EXCEPT ![main] = o]
        BY <1>3, <2>2, <3>2
      <4> HIDE DEF o
      <4>. QED BY <1>3, <2>2, <4>3, <4>4
    <3>. QED BY <2>1, <3>1, <3>2
  <2>11. Objects' /\ OwnBytes' /\ UserCountExact'
    BY <1>1, <2>6, <2>10 DEF Objects, OwnBytes, UserCountExact, Open
  <2>12. TypeOK'
    BY <1>1, <2>1, <2>4, <2>10 DEF TypeOK, client, epoll, Object
  <2>. QED BY <2>8, <2>9, <2>11, <2>12 DEF IInv
<1>6. ASSUME NEW e \in events, AcceptFails(e) PROVE IInv'
  <2>1. events' \subseteq events /\ UNCHANGED <<client, epoll, users, m_user_count, pool, main, agains>>
    BY <1>6 DEF AcceptFails, Handled
  <2>2. Exclusive' /\ ClaimsAreOpen' /\ Objects' /\ OwnBytes' /\ UserCountExact'
    BY <2>1, SameClaims DEF epoll, pool
  <2>3. TypeOK'
    BY <1>1, <2>1 DEF TypeOK, client, epoll, pool
  <2>. QED BY <2>2, <2>3 DEF IInv
<1>7. ASSUME NEW e \in events, Handled(e), e.fd # ListenFd, close_conn(e.fd),
             UNCHANGED <<sent, hup, edge, pool, main, agains>>,
             rcv' \in [Clients -> 0..MaxBytes], got' \in [Clients -> Nat]
      PROVE  IInv'
  <2>1. /\ Exclusive' /\ ClaimsAreOpen' /\ Objects' /\ OwnBytes' /\ UserCountExact'
        /\ link' \in [Clients -> {"new", "backlog", "open", "closed"}]
        /\ conn' \in [Fds -> Clients \cup {None}]
        /\ interest' \in [Fds -> {"none", "off", "in", "out"}]
        /\ users' \in [Fds -> Object] /\ m_user_count' \in Nat
        /\ events' \subseteq events
    BY <1>7, CloseStep
  <2>2. TypeOK'
    BY <1>1, <1>7, <2>1 DEF TypeOK, pool, Object
  <2>. QED BY <2>1, <2>2 DEF IInv
<1>8. ASSUME NEW e \in events, HandleHup(e) PROVE IInv'
  BY <1>1, <1>7, <1>8 DEF HandleHup, TypeOK
<1>9. ASSUME NEW e \in events, HandleWriteFails(e) PROVE IInv'
  BY <1>1, <1>7, <1>9 DEF HandleWriteFails, TypeOK
<1>10. ASSUME NEW e \in events, HandleWriteAgain(e) PROVE IInv'
  <2>1. /\ Handled(e) /\ e.fd # ListenFd /\ modfd(e.fd, "out") /\ agains < MaxAgain
        /\ agains' = agains + 1 /\ UNCHANGED <<client, conn, edge, users, m_user_count, pool, main>>
    BY <1>10 DEF HandleWriteAgain
  <2>2. /\ Exclusive' /\ ClaimsAreOpen' /\ UserCountExact' /\ Open' = Open
        /\ interest' \in [Fds -> {"none", "off", "in", "out"}] /\ events' \subseteq events
    BY <2>1, RearmStep
  <2>3. Objects' /\ OwnBytes'
    BY <1>1, <2>1, <2>2 DEF Objects, OwnBytes, pool
  <2>4. agains' \in 0..MaxAgain
    BY <1>1, <2>1, ServerAssumption DEF TypeOK
  <2>5. TypeOK'
    BY <1>1, <2>1, <2>2, <2>4 DEF TypeOK, client, pool
  <2>. QED BY <2>2, <2>3, <2>5 DEF IInv
<1>11. ASSUME NEW e \in events, HandleWrite(e) PROVE IInv'
  <2>1. /\ Handled(e) /\ e.fd # ListenFd /\ got' = [got EXCEPT ![conn[e.fd]] = @ + 1]
        /\ UNCHANGED <<sent, rcv, hup, edge, pool, main, agains>>
    BY <1>11 DEF HandleWrite
  <2>2. e.fd \in Fds /\ conn[e.fd] \in Clients /\ e.fd \in Open
    BY <2>1, EventInHand
  <2>3. got' \in [Clients -> Nat]
    BY <1>1, <2>1, <2>2 DEF TypeOK
  <2>4. CASE ~users[e.fd].m_linger
    <3>1. close_conn(e.fd)
      BY <1>11, <2>4 DEF HandleWrite
    <3>. QED BY <1>1, <1>7, <2>1, <2>3, <3>1 DEF TypeOK
  <2>5. CASE users[e.fd].m_linger
    <3>1. /\ users' = [users EXCEPT ![e.fd] = [Fresh EXCEPT !.m_sockfd = e.fd]]
          /\ modfd(e.fd, "in") /\ UNCHANGED <<link, conn, m_user_count>>
      BY <1>11, <2>5 DEF HandleWrite
    <3>2. /\ Exclusive' /\ ClaimsAreOpen' /\ UserCountExact' /\ Open' = Open
          /\ interest' \in [Fds -> {"none", "off", "in", "out"}] /\ events' \subseteq events
      BY <2>1, <3>1, RearmStep
    <3>3. PICK o \in Object : /\ users' = [users EXCEPT ![e.fd] = o]
                              /\ o.m_sockfd = e.fd /\ o.readFrom = {} /\ o.answerTo = {}
      BY <2>2, <3>1, FreshObject
    <3>4. users' \in [Fds -> Object]
      BY <1>3, <3>3
    <3>5. Objects'
      BY <1>1, <1>3, <2>1, <2>2, <3>1, <3>3 DEF Objects, pool, Open
    <3>6. OwnBytes'
      BY <1>1, <1>3, <2>2, <3>1, <3>2, <3>3 DEF OwnBytes, Open
    <3>7. TypeOK'
      BY <1>1, <2>1, <2>3, <3>1, <3>2, <3>4 DEF TypeOK, pool, Object
    <3>. QED BY <3>2, <3>5, <3>6, <3>7 DEF IInv
  <2>. QED BY <2>4, <2>5
<1>12. ASSUME NEW e \in events, HandleRead(e) PROVE IInv'
  <2> DEFINE fd == e.fd
             c == conn[fd]
             n == Min({rcv[c], READ_BUFFER_SIZE - users[fd].m_read_idx})
  <2>1. Handled(e) /\ fd # ListenFd
    BY <1>12 DEF HandleRead
  <2>2. /\ fd \in Fds /\ c \in Clients /\ fd \in Open /\ users[fd].m_sockfd = fd
        /\ ~Armed(fd) /\ main # fd /\ ~Queued(fd) /\ ~Worked(fd)
        /\ events' = events \ {e} /\ \A f \in events' : f.fd # fd
    BY <2>1, EventInHand
  <2>3. /\ rcv' = [rcv EXCEPT ![c] = @ - n]
        /\ UNCHANGED <<sent, hup, got, edge, pool, agains>>
        /\ IF users[fd].m_read_idx + n = READ_BUFFER_SIZE \/ hup[c]
             THEN close_conn(fd) /\ UNCHANGED main
             ELSE /\ users' = [users EXCEPT ![fd].m_read_idx = @ + n,
                                            ![fd].readFrom = @ \cup {c}]
                  /\ main' = fd
                  /\ UNCHANGED <<link, conn, interest, m_user_count>>
    BY <1>12 DEF HandleRead
  <2>4. users[fd] \in Object
    BY <1>3, <2>2
  <2>5. /\ n \in Nat /\ users[fd].m_read_idx + n \in 0..READ_BUFFER_SIZE
        /\ rcv' \in [Clients -> 0..MaxBytes]
    BY <1>12, ReadTakes
  <2> HIDE DEF n
  <2>6. CASE users[fd].m_read_idx + n = READ_BUFFER_SIZE \/ hup[c]
    BY <1>1, <1>7, <2>1, <2>3, <2>5, <2>6 DEF TypeOK
  <2>7. CASE ~(users[fd].m_read_idx + n = READ_BUFFER_SIZE \/ hup[c])
    <3> DEFINE o == [users[fd] EXCEPT !.m_read_idx = @ + n, !.readFrom = @ \cup {c}]
    <3>1. users' = [users EXCEPT ![fd] = o] /\ main' = fd /\ UNCHANGED <<link, conn, interest, m_user_count>>
      BY <1>3, <2>2, <2>3, <2>7
    <3>2. /\ o \in Object /\ o.m_sockfd = fd /\ o.readFrom = users[fd].readFrom \cup {c}
          /\ o.answerTo = users[fd].answerTo
      BY <2>2, <2>4, <2>5 DEF Object
    <3> HIDE DEF o, fd, c
    <3>3. users' \in [Fds -> Object]
      BY <1>3, <3>1, <3>2
    <3>4. UNCHANGED <<m_workqueue, job, stage, interest, conn>>
      BY <2>3, <3>1 DEF pool
    <3>5. \A f : (Queued(f)' <=> Queued(f)) /\ (Worked(f)' <=> Worked(f)) /\ (Armed(f)' <=> Armed(f))
      BY <3>4 DEF Queued, Worked, Armed
    <3>6. Exclusive'
      <4>1. \A x \in events' : x.fd \in Fds =>
              /\ ~Armed(x.fd)' /\ main' # x.fd /\ ~Queued(x.fd)' /\ ~Worked(x.fd)'
              /\ \A f \in events' : f.fd = x.fd => f = x
        BY <1>1, <2>2, <3>1, <3>5 DEF Exclusive
      <4>2. ~Armed(fd)' /\ ~Queued(fd)' /\ ~Worked(fd)'
        BY <2>2, <3>5
      <4>3. main' \in Fds => ~Armed(main)' /\ ~Queued(main)' /\ ~Worked(main)'
        BY <3>1, <4>2 DEF Armed, Queued, Worked
      <4>4. \A i \in 1..Len(m_workqueue) :
              /\ ~Armed(m_workqueue[i])' /\ ~Worked(m_workqueue[i])'
              /\ \A j \in 1..Len(m_workqueue) : m_workqueue[i] = m_workqueue[j] => i = j
        BY <1>1, <3>4 DEF Exclusive, Armed, Worked
      <4>5. \A w \in Workers : job[w] \in Fds =>
              ~Armed(job[w])' /\ \A v \in Workers : job[v] = job[w] => v = w
        BY <1>1, <3>4 DEF Exclusive, Armed
      <4>. QED BY <3>4, <4>1, <4>3, <4>4, <4>5 DEF Exclusive
    <3>7. ClaimsAreOpen'
      <4> SUFFICES ASSUME NEW f \in Fds,
                          Armed(f) \/ fd = f \/ Queued(f) \/ Worked(f) \/ (\E x \in events' : x.fd = f)
                   PROVE  conn[f] # None
        BY <3>1, <3>5 DEF ClaimsAreOpen
      <4>1. CASE f = fd
        BY <2>2, <4>1 DEF Open
      <4>2. CASE f # fd
        BY <1>1, <2>2, <4>2 DEF ClaimsAreOpen
      <4>. QED BY <4>1, <4>2
    <3>8. Objects' /\ UserCountExact'
      BY <1>1, <1>3, <2>2, <3>1, <3>2, <3>4 DEF Objects, UserCountExact, Open
    <3>9. OwnBytes'
      <4>1. c = conn[fd]
        BY DEF c
      <4>. QED BY <1>1, <1>3, <2>2, <3>1, <3>2, <4>1 DEF OwnBytes, Open
    <3>10. TypeOK'
      BY <1>1, <2>2, <2>3, <2>5, <3>1, <3>3 DEF TypeOK, pool, Object
    <3>. QED BY <3>6, <3>7, <3>8, <3>9, <3>10 DEF IInv
  <2>. QED BY <2>6, <2>7
<1>13. ASSUME NEW e \in events, NEW c \in Clients, Accept(e, c) PROVE IInv'
  <2>1. /\ events' \subseteq events /\ UNCHANGED <<sent, rcv, hup, got, edge, pool, main, agains>>
    BY <1>13 DEF Accept, Handled
  <2>2. PICK fd \in Fds :
          /\ conn[fd] = None
          /\ IF m_user_count >= MAX_FD
               THEN /\ link' = [link EXCEPT ![c] = "closed"]
                    /\ UNCHANGED <<conn, interest, users, m_user_count>>
               ELSE /\ link' = [link EXCEPT ![c] = "open"]
                    /\ conn' = [conn EXCEPT ![fd] = c]
                    /\ interest' = [interest EXCEPT ![fd] = "in"]
                    /\ users' = [users EXCEPT ![fd] = [Fresh EXCEPT !.m_sockfd = fd]]
                    /\ m_user_count' = m_user_count + 1
    BY <1>13 DEF Accept
  <2>3. link' \in [Clients -> {"new", "backlog", "open", "closed"}]
    BY <1>1, <2>2 DEF TypeOK
  <2>4. CASE m_user_count >= MAX_FD
    <3>1. UNCHANGED <<conn, interest, users, m_user_count>>
      BY <2>2, <2>4
    <3>2. Exclusive' /\ ClaimsAreOpen' /\ Objects' /\ OwnBytes' /\ UserCountExact'
      BY <2>1, <3>1, SameClaims DEF pool
    <3>3. TypeOK'
      BY <1>1, <2>1, <2>3, <3>1 DEF TypeOK, pool
    <3>. QED BY <3>2, <3>3 DEF IInv
  <2>5. CASE ~(m_user_count >= MAX_FD)
    <3>1. /\ conn' = [conn EXCEPT ![fd] = c] /\ interest' = [interest EXCEPT ![fd] = "in"]
          /\ m_user_count' = m_user_count + 1
      BY <2>2, <2>5
    <3>2. PICK o \in Object : /\ users' = [users EXCEPT ![fd] = o]
                              /\ o.m_sockfd = fd /\ o.readFrom = {} /\ o.answerTo = {}
      BY <2>2, <2>5, FreshObject
    <3>3. UNCHANGED <<m_workqueue, job, stage, main>>
      BY <2>1 DEF pool
    <3>4. /\ users' \in [Fds -> Object] /\ conn' \in [Fds -> Clients \cup {None}]
          /\ interest' \in [Fds -> {"none", "off", "in", "out"}]
      BY <1>1, <1>3, <3>1, <3>2 DEF TypeOK
    <3>5. Open' = Open \cup {fd} /\ fd \notin Open
      BY <1>1, <1>2, <2>2, <3>1 DEF Open, TypeOK
    <3>6. UserCountExact' /\ m_user_count' \in Nat
      <4>1. Cardinality(Open \cup {fd}) = Cardinality(Open) + 1
        BY <3>5, OpenFinite, FS_AddElement
      <4>. QED BY <1>1, <3>1, <3>5, <4>1, OpenFinite DEF UserCountExact
    \* nobody had a claim on the descriptor
    <3>7. ~Armed(fd) /\ main # fd /\ ~Queued(fd) /\ ~Worked(fd) /\ \A x \in events : x.fd # fd
      BY <1>1, <2>2 DEF ClaimsAreOpen
    <3>8. \A f \in Fds : Armed(f)' => f = fd \/ Armed(f)
      BY <1>1, <3>1 DEF Armed, TypeOK
    <3>9. \A f : (Queued(f)' <=> Queued(f)) /\ (Worked(f)' <=> Worked(f))
      BY <3>3 DEF Queued, Worked
    <3>10. Exclusive'
      <4>1. \A x \in events' : x.fd \in Fds =>
              /\ ~Armed(x.fd)' /\ main # x.fd /\ ~Queued(x.fd) /\ ~Worked(x.fd)
              /\ \A f \in events' : f.fd = x.fd => f = x
        BY <1>1, <2>1, <3>7, <3>8 DEF Exclusive
      <4>2. main \in Fds => ~Armed(main)' /\ ~Queued(main) /\ ~Worked(main)
        BY <1>1, <3>3, <3>7, <3>8 DEF Exclusive
      <4>3. \A i \in 1..Len(m_workqueue) : m_workqueue[i] \in Fds /\ m_workqueue[i] # fd
        BY <1>1, <3>7 DEF TypeOK, Queued
      <4>4. \A i \in 1..Len(m_workqueue) :
              /\ ~Armed(m_workqueue[i])' /\ ~Worked(m_workqueue[i])
              /\ \A j \in 1..Len(m_workqueue) : m_workqueue[i] = m_workqueue[j] => i = j
        BY <1>1, <3>3, <3>8, <4>3 DEF Exclusive
      <4>5. \A w \in Workers : job[w] # fd
        BY <3>7 DEF Worked
      <4>6. \A w \in Workers : job[w] \in Fds =>
              ~Armed(job[w])' /\ \A v \in Workers : job[v] = job[w] => v = w
        BY <1>1, <3>3, <3>8, <4>5 DEF Exclusive
      <4>. QED BY <3>3, <3>9, <4>1, <4>2, <4>4, <4>6 DEF Exclusive
    <3>11. ClaimsAreOpen'
      <4> SUFFICES ASSUME NEW f \in Fds,
                          Armed(f)' \/ main = f \/ Queued(f) \/ Worked(f) \/ (\E x \in events' : x.fd = f)
                   PROVE  conn'[f] # None
        BY <3>3, <3>9 DEF ClaimsAreOpen
      <4>1. CASE f = fd
        BY <1>1, <1>2, <3>1, <4>1 DEF TypeOK
      <4>2. CASE f # fd
        <5>1. Armed(f) \/ main = f \/ Queued(f) \/ Worked(f) \/ (\E x \in events : x.fd = f)
          BY <2>1, <3>8, <4>2
        <5>. QED BY <1>1, <3>1, <4>2, <5>1 DEF ClaimsAreOpen, TypeOK
      <4>. QED BY <4>1, <4>2
    <3>12. Objects'
      BY <1>1, <1>2, <1>3, <3>1, <3>2, <3>3 DEF Objects, TypeOK
    <3>13. OwnBytes'
      BY <1>1, <1>3, <3>1, <3>2, <3>5 DEF OwnBytes, Open, TypeOK
    <3>14. TypeOK'
      BY <1>1, <2>1, <2>3, <3>3, <3>4, <3>6 DEF TypeOK, pool, Object
    <3>. QED BY <3>6, <3>10, <3>11, <3>12, <3>13, <3>14 DEF IInv
  <2>. QED BY <2>4, <2>5
<1>. QED BY <1>4, <1>5, <1>6, <1>8, <1>9, <1>10, <1>11, <1>12, <1>13 DEF MainStep

\* Every step of a worker keeps the inductive invariant.
LEMMA WorkerInv ==
  ASSUME IInv, NEW w \in Workers, WorkerStep(w)
  PROVE  IInv'
<1>1. /\ TypeOK /\ Exclusive /\ ClaimsAreOpen /\ Objects /\ OwnBytes /\ UserCountExact
  BY DEF IInv
<1>2. /\ None \notin Fds /\ users \in [Fds -> Object]
  BY <1>1, ServerAssumption DEF TypeOK, Object
<1>3. CASE Take(w)
  <2>1. /\ stage[w] = "idle" /\ m_workqueue # <<>> /\ m_workqueue' = Tail(m_workqueue)
        /\ job' = [job EXCEPT ![w] = Head(m_workqueue)]
        /\ stage' = [stage EXCEPT ![w] = "process"]
        /\ UNCHANGED <<client, epoll, users, m_user_count, loop>>
    BY <1>3 DEF Take
  <2>2. /\ Tail(m_workqueue) \in Seq(Fds) /\ Len(m_workqueue') = Len(m_workqueue) - 1
        /\ (\A i \in 1..Len(m_workqueue') : m_workqueue'[i] = m_workqueue[i + 1])
        /\ Head(m_workqueue) \in Fds /\ Head(m_workqueue) = m_workqueue[1]
        /\ Len(m_workqueue) \in Nat \ {0}
    BY <1>1, <2>1, HeadTailProperties, EmptySeq, LenProperties DEF TypeOK
  <2> DEFINE fd == Head(m_workqueue)
  <2>3. \A i \in 1..Len(m_workqueue') :
           i + 1 \in 1..Len(m_workqueue) /\ i + 1 # 1 /\ m_workqueue'[i] = m_workqueue[i + 1]
    BY <2>2
  <2>4. 1 \in 1..Len(m_workqueue)
    BY <2>2
  <2>5. fd \in Fds /\ Queued(fd) /\ ~Armed(fd) /\ ~Worked(fd) /\ main # fd
    BY <1>1, <2>2, <2>4 DEF Exclusive, Queued
  <2>6. \A i \in 1..Len(m_workqueue') : m_workqueue'[i] # fd
    BY <1>1, <2>2, <2>3, <2>4 DEF Exclusive
  <2>7. \A x \in events : x.fd # fd
    BY <1>1, <2>5 DEF Exclusive
  <2> HIDE DEF fd
  <2>8. job' = [job EXCEPT ![w] = fd] /\ UNCHANGED <<interest, conn, events, main, users, m_user_count>>
    BY <2>1 DEF fd, epoll, loop
  <2>9. \A f : /\ Queued(f)' => Queued(f) /\ f # fd
               /\ Worked(f)' => Worked(f) \/ f = fd
               /\ (Armed(f)' <=> Armed(f))
    BY <1>1, <2>3, <2>6, <2>8 DEF Queued, Worked, Armed, TypeOK
  <2>10. Exclusive'
    <3>1. \A x \in events' : x.fd \in Fds =>
            /\ ~Armed(x.fd)' /\ main' # x.fd /\ ~Queued(x.fd)' /\ ~Worked(x.fd)'
            /\ \A f \in events' : f.fd = x.fd => f = x
      BY <1>1, <2>7, <2>8, <2>9 DEF Exclusive
    <3>2. main \in Fds => ~Armed(main)' /\ ~Queued(main)' /\ ~Worked(main)'
      <4>1. main \in Fds => ~Armed(main) /\ ~Queued(main) /\ ~Worked(main)
        BY <1>1 DEF Exclusive
      <4>. QED BY <2>5, <2>8, <2>9, <4>1 DEF Armed, Queued, Worked
    <3>3. ASSUME NEW i \in 1..Len(m_workqueue')
          PROVE  /\ ~Armed(m_workqueue'[i]) /\ (\A v \in Workers : job'[v] # m_workqueue'[i])
                 /\ \A j \in 1..Len(m_workqueue') : m_workqueue'[i] = m_workqueue'[j] => i = j
      <4>1. ~Armed(m_workqueue'[i]) /\ ~Worked(m_workqueue'[i])
        BY <1>1, <2>3 DEF Exclusive
      <4>2. \A v \in Workers : job'[v] # m_workqueue'[i]
        BY <1>1, <2>6, <2>8, <4>1 DEF Worked, TypeOK
      <4>3. ASSUME NEW j \in 1..Len(m_workqueue'), m_workqueue'[i] = m_workqueue'[j] PROVE i = j
        <5>1. m_workqueue[i + 1] = m_workqueue[j + 1]
          BY <2>3, <4>3
        <5>2. i + 1 = j + 1
          BY <1>1, <2>3, <5>1 DEF Exclusive
        <5>. QED BY <2>2, <5>2
      <4>. QED BY <4>1, <4>2, <4>3
    <3>4. ASSUME NEW v \in Workers, job'[v] \in Fds
          PROVE  ~Armed(job'[v]) /\ \A u \in Workers : job'[u] = job'[v] => u = v
      <4>1. \A u \in Workers : job'[u] = IF u = w THEN fd ELSE job[u]
        BY <1>1, <2>8 DEF TypeOK
      <4>2. \A u \in Workers : job[u] # fd
        BY <2>5 DEF Worked
      <4>. QED BY <1>1, <2>5, <3>4, <4>1, <4>2 DEF Exclusive
    <3>. QED BY <2>8, <3>1, <3>2, <3>3, <3>4 DEF Exclusive, Armed, Worked
  <2>11. ClaimsAreOpen'
    <3> SUFFICES ASSUME NEW f \in Fds,
                        Armed(f)' \/ main = f \/ Queued(f)' \/ Worked(f)' \/ (\E x \in events : x.fd = f)
                 PROVE  conn[f] # None
      BY <2>8 DEF ClaimsAreOpen
    <3>. QED BY <1>1, <2>5, <2>9 DEF ClaimsAreOpen
  <2>12. Objects'
    <3>1. \A v \in Workers : stage'[v] = "idle" \/ job'[v] \in Fds
      BY <1>1, <2>1, <2>5, <2>8 DEF Objects, TypeOK
    <3>. QED BY <1>1, <2>8, <3>1 DEF Objects
  <2>13. OwnBytes' /\ UserCountExact'
    BY <1>1, <2>8 DEF OwnBytes, UserCountExact, Open
  <2>14. TypeOK'
    <3>1. stage' \in [Workers -> {"idle", "process", "in", "out"}] /\ job' \in [Workers -> Fds \cup {None}]
      BY <1>1, <2>1, <2>5, <2>8 DEF TypeOK
    <3>. QED BY <1>1, <2>1, <2>2, <3>1 DEF TypeOK, client, epoll, loop
  <2>. QED BY <2>10, <2>11, <2>12, <2>13, <2>14 DEF IInv
<1>4. CASE process(w)
  <2> DEFINE fd == job[w]
  <2>1. stage[w] = "process" /\ UNCHANGED <<client, epoll, m_user_count, m_workqueue, job, loop>>
    BY <1>4 DEF process
  <2>2. fd \in Fds /\ users[fd] \in Object
    BY <1>1, <1>2, <2>1 DEF Objects
  <2>3. /\ stage' \in [Workers -> {"idle", "process", "in", "out"}]
        /\ \A v \in Workers : v = w \/ stage'[v] = stage[v]
    BY <1>1, <1>4 DEF process, TypeOK
  <2>4. /\ users' \in [Fds -> Object]
        /\ \A f \in Fds : /\ users'[f].m_sockfd = users[f].m_sockfd
                          /\ users'[f].readFrom = users[f].readFrom
                          /\ users'[f].answerTo \in {users[f].answerTo, users[f].readFrom}
    <3>1. CASE UNCHANGED users
      BY <1>2, <3>1
    <3>2. CASE \E keep \in BOOLEAN : users' = [users EXCEPT ![fd].m_linger = keep,
                                                            ![fd].answerTo = users[fd].readFrom]
      <4>1. PICK keep \in BOOLEAN : users' = [users EXCEPT ![fd].m_linger = keep,
                                                           ![fd].answerTo = users[fd].readFrom]
        BY <3>2
      <4> DEFINE o == [users[fd] EXCEPT !.m_linger = keep, !.answerTo = users[fd].readFrom]
      <4>2. users' = [users EXCEPT ![fd] = o]
        BY <1>2, <2>2, <4>1
      <4>3. /\ o \in Object /\ o.m_sockfd = users[fd].m_sockfd
            /\ o.readFrom = users[fd].readFrom /\ o.answerTo = users[fd].readFrom
        BY <2>2 DEF Object
      <4> HIDE DEF o, fd
      <4>. QED BY <1>2, <2>2, <4>2, <4>3
    <3>. QED BY <1>4, <3>1, <3>2 DEF process
  <2>5. UNCHANGED <<interest, conn, events, main, job, m_workqueue, m_user_count>>
    BY <2>1 DEF epoll, loop
  <2>6. \A f : (Queued(f)' <=> Queued(f)) /\ (Worked(f)' <=> Worked(f)) /\ (Armed(f)' <=> Armed(f))
    BY <2>5 DEF Queued, Worked, Armed
  <2>7. Exclusive'
    BY <1>1, <2>5, <2>6, FewerClaims
  <2>8. ClaimsAreOpen'
    BY <1>1, <2>5, <2>6 DEF ClaimsAreOpen
  <2>9. Objects'
    BY <1>1, <2>2, <2>3, <2>4, <2>5 DEF Objects
  <2>10. OwnBytes' /\ UserCountExact'
    BY <1>1, <2>4, <2>5 DEF OwnBytes, UserCountExact, Open
  <2>11. TypeOK'
    BY <1>1, <2>1, <2>3, <2>4 DEF TypeOK, client, epoll, loop, Object
  <2>. QED BY <2>7, <2>8, <2>9, <2>10, <2>11 DEF IInv
<1>5. CASE Rearm(w)
  <2> DEFINE fd == job[w]
  <2>1. /\ stage[w] \in {"in", "out"} /\ modfd(fd, stage[w])
        /\ job' = [job EXCEPT ![w] = None] /\ stage' = [stage EXCEPT ![w] = "idle"]
        /\ UNCHANGED <<client, conn, edge, users, m_user_count, m_workqueue, loop>>
    BY <1>5 DEF Rearm
  <2>2. fd \in Fds /\ Worked(fd) /\ ~Armed(fd) /\ ~Queued(fd) /\ main # fd
        /\ (\A x \in events : x.fd # fd) /\ (\A v \in Workers : job[v] = fd => v = w)
    <3>1. fd \in Fds /\ Worked(fd)
      BY <1>1, <2>1 DEF Objects, Worked
    <3>. QED BY <1>1, <3>1 DEF Exclusive, Queued
  <2>3. interest' = [interest EXCEPT ![fd] = IF @ = "none" THEN @ ELSE stage[w]]
    BY <2>1 DEF modfd
  <2> HIDE DEF fd
  <2>4. interest' \in [Fds -> {"none", "off", "in", "out"}]
    BY <1>1, <2>1, <2>2, <2>3 DEF TypeOK
  <2>5. \A f \in Fds : Armed(f)' => f = fd \/ Armed(f)
    BY <1>1, <2>2, <2>3 DEF Armed, TypeOK
  <2>6. UNCHANGED <<conn, events, main, users, m_user_count, m_workqueue>>
    BY <2>1 DEF loop
  <2>7. \A v \in Workers : job'[v] = IF v = w THEN None ELSE job[v]
    BY <1>1, <2>1 DEF TypeOK
  <2>8. \A f \in Fds : (Queued(f)' <=> Queued(f)) /\ (Worked(f)' => Worked(f) /\ f # fd)
    BY <1>2, <2>2, <2>6, <2>7 DEF Queued, Worked
  <2>9. Exclusive'
    <3>1. \A x \in events' : x.fd \in Fds =>
            /\ ~Armed(x.fd)' /\ main' # x.fd /\ ~Queued(x.fd)' /\ ~Worked(x.fd)'
            /\ \A f \in events' : f.fd = x.fd => f = x
      BY <1>1, <2>2, <2>5, <2>6, <2>8 DEF Exclusive
    <3>2. main \in Fds => ~Armed(main)' /\ ~Queued(main)' /\ ~Worked(main)'
      BY <1>1, <2>2, <2>5, <2>6, <2>8 DEF Exclusive
    <3>3. \A i \in 1..Len(m_workqueue) : m_workqueue[i] \in Fds /\ m_workqueue[i] # fd
      BY <1>1, <2>2 DEF TypeOK, Queued
    <3>4. \A i \in 1..Len(m_workqueue) :
            /\ ~Armed(m_workqueue[i])' /\ ~Worked(m_workqueue[i])'
            /\ \A j \in 1..Len(m_workqueue) : m_workqueue[i] = m_workqueue[j] => i = j
      BY <1>1, <2>5, <2>6, <2>8, <3>3 DEF Exclusive
    <3>5. ASSUME NEW v \in Workers, job'[v] \in Fds
          PROVE  ~(interest'[job'[v]] \in {"in", "out"}) /\ \A u \in Workers : job'[u] = job'[v] => u = v
      <4>1. v # w /\ job'[v] = job[v] /\ job[v] # fd
        BY <1>2, <2>2, <2>7, <3>5
      <4>2. ~Armed(job[v]) /\ \A u \in Workers : job[u] = job[v] => u = v
        BY <1>1, <3>5, <4>1 DEF Exclusive
      <4>3. interest'[job[v]] = interest[job[v]]
        BY <1>1, <2>3, <3>5, <4>1 DEF TypeOK
      <4>. QED BY <1>2, <2>7, <3>5, <4>1, <4>2, <4>3 DEF Armed
    <3>. QED BY <2>6, <3>1, <3>2, <3>4, <3>5 DEF Exclusive, Armed
  <2>10. ClaimsAreOpen'
    <3> SUFFICES ASSUME NEW f \in Fds,
                        Armed(f)' \/ main = f \/ Queued(f)' \/ Worked(f)' \/ (\E x \in events : x.fd = f)
                 PROVE  conn[f] # None
      BY <2>6 DEF ClaimsAreOpen
    <3>. QED BY <1>1, <2>2, <2>5, <2>8 DEF ClaimsAreOpen
  <2>11. stage' \in [Workers -> {"idle", "process", "in", "out"}] /\ job' \in [Workers -> Fds \cup {None}]
    BY <1>1, <2>1 DEF TypeOK
  <2>12. Objects'
    <3>1. \A v \in Workers : stage'[v] = "idle" \/ job'[v] \in Fds
      BY <1>1, <2>1, <2>7 DEF Objects, TypeOK
    <3>. QED BY <1>1, <2>6, <3>1 DEF Objects
  <2>13. OwnBytes' /\ UserCountExact'
    BY <1>1, <2>6 DEF OwnBytes, UserCountExact, Open
  <2>14. TypeOK'
    BY <1>1, <2>1, <2>4, <2>11 DEF TypeOK, client, loop
  <2>. QED BY <2>9, <2>10, <2>12, <2>13, <2>14 DEF IInv
<1>. QED BY <1>3, <1>4, <1>5 DEF WorkerStep

-----------------------------------------------------------------------------
(* The theorems *)

\* The inductive invariant holds in every state of the server.
LEMMA IInvCorrect == Spec => [](IInv /\ BytesSent)
<1>1. Init => IInv /\ BytesSent
  <2> SUFFICES ASSUME Init PROVE IInv /\ BytesSent
    OBVIOUS
  <2> USE ServerAssumption
  <2>1. Len(m_workqueue) = 0 /\ m_workqueue \in Seq(Fds) /\ None \notin Fds
    BY EmptySeq DEF Init
  <2>2. TypeOK
    <3>1. hup \in [Clients -> BOOLEAN] /\ edge \in BOOLEAN
      BY DEF Init
    <3>2. PICK no \in BOOLEAN : Fresh = [m_sockfd |-> None, m_read_idx |-> 0, m_linger |-> no,
                                         readFrom |-> {}, answerTo |-> {}, refused |-> no]
      <4>. WITNESS FALSE \in BOOLEAN
      <4>. QED BY DEF Fresh
    <3>3. 0 \in 0..READ_BUFFER_SIZE
      OBVIOUS
    <3>4. Fresh \in Object
      BY <3>2, <3>3 DEF Object
    <3>5. users \in [Fds -> Object]
      BY <3>4 DEF Init
    <3>6. sent \in [Clients -> 0..MaxBytes] /\ rcv \in [Clients -> 0..MaxBytes]
          /\ got \in [Clients -> Nat] /\ agains \in 0..MaxAgain /\ m_user_count \in Nat
      BY DEF Init
    <3>. QED BY <2>1, <3>1, <3>5, <3>6 DEF Init, TypeOK, Object
  <2>3. \A fd \in Fds : ~Armed(fd) /\ main # fd /\ ~Queued(fd) /\ ~Worked(fd) /\ conn[fd] = None
    BY <2>1 DEF Init, Armed, Queued, Worked
  <2>4. Exclusive /\ ClaimsAreOpen
    BY <2>1, <2>3 DEF Init, Exclusive, ClaimsAreOpen
  <2>5. Objects
    BY DEF Init, Objects, Fresh
  <2>6. Open = {}
    BY <2>3 DEF Open
  <2>7. OwnBytes /\ UserCountExact
    BY <2>6, FS_EmptySet DEF Init, OwnBytes, UserCountExact
  <2>8. BytesSent
    BY DEF Init, BytesSent
  <2>. QED BY <2>2, <2>4, <2>5, <2>7, <2>8 DEF IInv
<1>2. IInv /\ BytesSent /\ [Next]_vars => IInv'
  <2> SUFFICES ASSUME IInv, BytesSent, [Next]_vars PROVE IInv'
    OBVIOUS
  <2>1. TypeOK
    BY DEF IInv
  <2>2. ASSUME UNCHANGED <<pool, main, interest, conn, users, m_user_count, events>>, TypeOK'
        PROVE  IInv'
    BY <2>2, SameClaims DEF IInv, pool
  <2>3. ASSUME NEW c \in Clients, Connect(c) PROVE IInv'
    <3>1. edge' \in BOOLEAN
      BY <2>3 DEF Connect
    <3>2. TypeOK'
      BY <2>1, <2>3, <3>1 DEF Connect, TypeOK, pool, loop
    <3>. QED BY <2>2, <2>3, <3>2 DEF Connect, loop
  <2>4. ASSUME NEW c \in Clients, Send(c) PROVE IInv'
    <3>1. PICK s \in 0..MaxBytes, r \in 0..MaxBytes : s = sent[c] /\ r = rcv[c]
      BY <2>1 DEF TypeOK
    <3>2. sent' = [sent EXCEPT ![c] = s + 1] /\ s + 1 \in 0..MaxBytes
          /\ rcv' = [rcv EXCEPT ![c] = r + 1] /\ r + 1 \in 0..MaxBytes /\ r <= s
      BY <2>1, <2>4, <3>1, ServerAssumption DEF Send, TypeOK, BytesSent
    <3>3. sent' \in [Clients -> 0..MaxBytes] /\ rcv' \in [Clients -> 0..MaxBytes]
      BY <2>1, <3>2 DEF TypeOK
    <3>4. TypeOK'
      BY <2>1, <2>4, <3>3 DEF Send, TypeOK, epoll, pool, loop
    <3>. QED BY <2>2, <2>4, <3>4 DEF Send, epoll, loop
  <2>5. ASSUME NEW c \in Clients, Close(c) PROVE IInv'
    <3>1. hup' \in [Clients -> BOOLEAN]
      BY <2>1, <2>5 DEF Close, TypeOK
    <3>2. TypeOK'
      BY <2>1, <2>5, <3>1 DEF Close, TypeOK, epoll, pool, loop
    <3>. QED BY <2>2, <2>5, <3>2 DEF Close, epoll, loop
  <2>6. CASE UNCHANGED vars
    <3>1. TypeOK'
      BY <2>1, <2>6 DEF vars, client, epoll, pool, loop, TypeOK
    <3>. QED BY <2>2, <2>6, <3>1 DEF vars, epoll, loop
  <2>. QED BY <2>3, <2>4, <2>5, <2>6, MainInv, WorkerInv DEF Next
<1>3. IInv /\ BytesSent /\ [Next]_vars => BytesSent'
  <2> SUFFICES ASSUME IInv, BytesSent, [Next]_vars PROVE BytesSent'
    OBVIOUS
  <2>1. sent \in [Clients -> 0..MaxBytes] /\ rcv \in [Clients -> 0..MaxBytes]
    BY DEF IInv, TypeOK
  <2>2. ASSUME NEW e \in events, HandleRead(e) PROVE BytesSent'
    <3>1. /\ UNCHANGED sent /\ rcv' \in [Clients -> 0..MaxBytes]
          /\ \A c \in Clients : rcv'[c] <= rcv[c]
      BY <2>2, ReadTakes
    <3>2. ASSUME NEW c \in Clients PROVE rcv'[c] <= sent[c]
      <4>1. PICK a \in Nat, b \in Nat, d \in Nat : a = rcv'[c] /\ b = rcv[c] /\ d = sent[c]
        BY <2>1, <3>1
      <4>. QED BY <3>1, <4>1 DEF BytesSent
    <3>. QED BY <3>1, <3>2 DEF BytesSent
  <2>3. ASSUME NEW c \in Clients, Send(c) PROVE BytesSent'
    BY <2>1, <2>3, ServerAssumption DEF Send, BytesSent
  <2>4. CASE UNCHANGED <<sent, rcv>>
    BY <2>4 DEF BytesSent
  <2>5. ASSUME NEW c \in Clients, Connect(c) \/ Close(c) PROVE BytesSent'
    BY <2>4, <2>5 DEF Connect, Close
  <2>6. ASSUME NEW w \in Workers, WorkerStep(w) PROVE BytesSent'
    BY <2>4, <2>6 DEF WorkerStep, Take, process, Rearm, client
  <2>7. CASE MainStep
    <3>1. CASE epoll_wait \/ append
      BY <2>4, <3>1 DEF epoll_wait, append, client
    <3>2. ASSUME NEW e \in events,
                 \/ AcceptFails(e) \/ HandleHup(e) \/ HandleWrite(e) \/ HandleWriteAgain(e)
                 \/ HandleWriteFails(e) \/ \E c \in Clients : Accept(e, c)
          PROVE  BytesSent'
      BY <2>4, <3>2 DEF AcceptFails, HandleHup, HandleWrite, HandleWriteAgain, HandleWriteFails,
                        Accept, client
    <3>. QED BY <2>2, <2>7, <3>1, <3>2 DEF MainStep
  <2>8. CASE UNCHANGED vars
    BY <2>4, <2>8 DEF vars, client
  <2>. QED BY <2>3, <2>5, <2>6, <2>7, <2>8 DEF Next
<1>. QED BY <1>1, <1>2, <1>3, PTL DEF Spec

\* At any time at most one of epoll, main, the queue and the workers has a claim on
\* an http_conn, and none on a closed connection; and m_user_count is the number of
\* open connections.
THEOREM ConnInvCorrect == Spec => []ConnInv
<1>1. IInv => ConnInv
  BY OneOwnerIsExclusive DEF IInv, ConnInv
<1>. QED BY <1>1, IInvCorrect, PTL

\* An http_conn only ever holds bytes of, and answers to, the client that has its
\* descriptor, however often the descriptor is closed and given away.
THEOREM OwnBytesCorrect == Spec => []OwnBytes
<1>1. IInv => OwnBytes
  BY DEF IInv
<1>. QED BY <1>1, IInvCorrect, PTL
=============================================================================
