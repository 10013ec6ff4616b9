----------------------------- MODULE TcpProofs ------------------------------
(***************************************************************************)
(* Theorems about the TCP programs of unpv1e3: ServerDesigns for any number *)
(* of workers, connections, slots of the ring and bytes of a message, and  *)
(* EchoClients for any number of lines and any buffer sizes.               *)
(***************************************************************************)
EXTENDS ServerDesigns, EchoClients, FiniteSetTheorems, WellFoundedInduction, TLAPS

-----------------------------------------------------------------------------
(* ServerDesigns                                                           *)

-----------------------------------------------------------------------------
(* The inductive invariant.                                                *)

\* the designs in which process p may be at the statement `stmt'
Belongs(d, p, stmt) ==
    /\ stmt = "accept" => IF p = 0 THEN d \in {"serv00", "serv01", "serv05", "serv06", "serv08"}
                                 ELSE d \in {"serv02", "serv03", "serv04", "serv07", "serv09"}
    /\ stmt = "serve" => (p = 0 <=> d = "serv00")
    /\ stmt \in {"lock", "unlock"} => p # 0 /\ d \in {"serv03", "serv04", "serv07"}
    /\ stmt = "fork" => p = 0 /\ d = "serv01"
    /\ stmt = "create" => p = 0 /\ d = "serv06"
    /\ stmt = "put" => p = 0 /\ d = "serv08"
    /\ stmt \in {"select", "pass", "collect"} => p = 0 /\ d = "serv05"
    /\ stmt = "wait" => p = 0 /\ d \in Prefork
    /\ stmt = "pause" => p = 0 /\ d \in {"serv02", "serv03", "serv04", "serv07", "serv09"}
    /\ stmt \in {"read", "notify"} => p # 0 /\ d = "serv05"
    /\ stmt \in {"get", "waiting"} => p # 0 /\ d = "serv08"
    /\ stmt = "none" => p # 0 /\ d \in {"serv00", "serv01", "serv06"}
    /\ stmt = "zombie" => p # 0 /\ d = "serv01"
    /\ stmt = "dead" => p = 0 \/ d # "serv01"

Where == \A p \in Procs : Belongs(design, p, pc[p])

\* where a process holds a connection
Holding == {"serve", "unlock", "fork", "create", "put", "pass"}

HandOK(stmt, h) ==
    /\ stmt \in Holding => h \in Conns
    /\ stmt \notin Holding \cup {"wait"} => h = NoConn

Hands == \A p \in Procs : HandOK(pc[p], hand[p])

\* Hands h, pipes d and the slots Q of the ring r hold the connections of T, each of
\* them in one place.
OnePlace(h, d, Q, r, T) ==
    /\ \A p, q \in Procs : h[p] = h[q] /\ h[p] # NoConn => p = q
    /\ \A v, w \in Workers : d[v] = d[w] /\ d[v] # NoConn => v = w
    /\ \A j, k \in Q : r[j] = r[k] => j = k
    /\ \A p \in Procs, w \in Workers : h[p] = d[w] => h[p] = NoConn
    /\ \A k \in Q : r[k] # NoConn
    /\ \A p \in Procs, k \in Q : h[p] # r[k]
    /\ \A w \in Workers, k \in Q : d[w] # r[k]
    /\ \A c \in Conns : c \in T <=> \/ \E p \in Procs : h[p] = c
                                    \/ \E w \in Workers : d[w] = c
                                    \/ \E k \in Q : r[k] = c

Once == ~(design = "serv08" /\ pc[0] = "dead") => OnePlace(hand, down, queue, clifd, taken)

\* A connection in the queue b is there once, was not accepted before and its client
\* exists, as does the client of one that was accepted.
Fresh(b, pe, T) ==
    /\ \A i \in 1..Len(b) : b[i] \notin T /\ pe[b[i]] # "new"
    /\ \A i, j \in 1..Len(b) : b[i] = b[j] => i = j
    /\ \A c \in T : pe[c] # "new"

Queued == Fresh(backlog, peer, taken)

\* serv05: a child the parent takes for idle is, a child that serves has no message
\* under way, and one byte says that it is ready.
ChildOK(stmt, st, dn, u) ==
    stmt # "dead" =>
        /\ st = 0 => stmt = "read" /\ dn = NoConn /\ u = 0
        /\ stmt # "read" => dn = NoConn /\ u = 0
        /\ dn # NoConn => u = 0
        /\ u <= 1

Children == design = "serv05" => \A w \in Workers : ChildOK(pc[w], status[w], down[w], up[w])

Parent ==
    /\ design = "serv05" /\ pc[0] \in {"accept", "pass"} => navail > 0
    /\ pc[0] = "collect" => rset05 # {} /\ 0 \notin rset05

Counted ==
    design = "serv05" /\ pc[0] \notin {"dead", "wait"} /\ (\A w \in Workers : pc[w] # "dead") =>
        navail = Cardinality(idle)

\* Only serv05 has pipes, only serv08 a ring, whose slots in use hold connections.
Unused ==
    /\ design # "serv05" => \A w \in Workers : down[w] = NoConn
    /\ design # "serv08" => iget = iput
    /\ \A k \in queue : clifd[k] # NoConn

IInv == TypeOK /\ Where /\ Hands /\ Once /\ Queued /\ Children /\ Parent /\ Counted /\ Unused

-----------------------------------------------------------------------------
(* Connections and their places *)

\* Min picks the least element of any non-empty set of naturals.
LEMMA MinNat ==
  ASSUME NEW S \in SUBSET Nat, S # {}
  PROVE  Min(S) \in S /\ \A y \in S : Min(S) <= y
<1> DEFINE less == {ss \in Nat \X Nat : ss[1] < ss[2]}
<1>1. IsWellFoundedOn(less, Nat)
  BY NatLessThanWellFounded, Zenon DEF OpToRel
<1>2. PICK x \in S : \A y \in S : ~ (<<y, x>> \in less)
  BY <1>1, WFMin
<1>3. \A y \in S : x <= y
  <2> SUFFICES ASSUME NEW y \in S PROVE x <= y
    OBVIOUS
  <2>1. ~ (<<y, x>> \in less)
    BY <1>2
  <2>. QED BY <2>1
<1>. QED BY <1>3 DEF Min

\* accept() puts a new connection into an empty hand.
LEMMA PlaceNew ==
  ASSUME NEW h \in [Procs -> Conns \cup {NoConn}], NEW d, NEW Q, NEW r, NEW T \in SUBSET Conns,
         OnePlace(h, d, Q, r, T),
         NEW p \in Procs, h[p] = NoConn, NEW c \in Conns, c \notin T
  PROVE  OnePlace([h EXCEPT ![p] = c], d, Q, r, T \cup {c})
<1> DEFINE h2 == [h EXCEPT ![p] = c]
<1>1. /\ \A q \in Procs : h2[q] = IF q = p THEN c ELSE h[q]
      /\ \A q \in Procs : h[q] # c
      /\ \A w \in Workers : d[w] # c
      /\ \A k \in Q : r[k] # c
      /\ c # NoConn
  BY DEF OnePlace, Conns, NoConn
<1>2. \A e \in Conns : e \in T \cup {c} <=> \/ \E q \in Procs : h2[q] = e
                                            \/ \E w \in Workers : d[w] = e
                                            \/ \E k \in Q : r[k] = e
  <2> SUFFICES ASSUME NEW e \in Conns
               PROVE  e \in T \cup {c} <=> \/ \E q \in Procs : h2[q] = e
                                           \/ \E w \in Workers : d[w] = e
                                           \/ \E k \in Q : r[k] = e
    OBVIOUS
  <2>1. e \in T <=> \/ \E q \in Procs : h[q] = e
                    \/ \E w \in Workers : d[w] = e
                    \/ \E k \in Q : r[k] = e
    BY DEF OnePlace
  <2>2. CASE e = c
    BY <1>1, <2>2
  <2>3. CASE e # c
    <3>1. (\E q \in Procs : h2[q] = e) <=> (\E q \in Procs : h[q] = e)
      BY <1>1, <2>3 DEF Conns, NoConn
    <3>. QED BY <2>1, <2>3, <3>1
  <2>. QED BY <2>2, <2>3
<1> HIDE DEF h2
<1>3. OnePlace(h2, d, Q, r, T \cup {c})
  BY <1>1, <1>2 DEF OnePlace
<1>. QED BY <1>3 DEF h2

\* A hand is emptied when its connection is closed.
LEMMA PlaceClosed ==
  ASSUME NEW h \in [Procs -> Conns \cup {NoConn}], NEW d, NEW Q, NEW r, NEW T \in SUBSET Conns,
         OnePlace(h, d, Q, r, T), NEW p \in Procs
  PROVE  OnePlace([h EXCEPT ![p] = NoConn], d, Q, r, T \ {h[p]})
<1> DEFINE h2 == [h EXCEPT ![p] = NoConn]
<1>1. \A q \in Procs : h2[q] = IF q = p THEN NoConn ELSE h[q]
  OBVIOUS
<1>2. \A e \in Conns : e \in T \ {h[p]} <=> \/ \E q \in Procs : h2[q] = e
                                            \/ \E w \in Workers : d[w] = e
                                            \/ \E k \in Q : r[k] = e
  <2> SUFFICES ASSUME NEW e \in Conns
               PROVE  e \in T \ {h[p]} <=> \/ \E q \in Procs : h2[q] = e
                                           \/ \E w \in Workers : d[w] = e
                                           \/ \E k \in Q : r[k] = e
    OBVIOUS
  <2>1. e # NoConn
    BY DEF Conns, NoConn
  <2>2. CASE e = h[p]
    BY <1>1, <2>1, <2>2 DEF OnePlace
  <2>3. CASE e # h[p]
    <3>1. (\E q \in Procs : h2[q] = e) <=> (\E q \in Procs : h[q] = e)
      BY <1>1, <2>1, <2>3
    <3>. QED BY <2>3, <3>1 DEF OnePlace
  <2>. QED BY <2>2, <2>3
<1>3. \A k \in Q : r[k] # NoConn
  BY DEF OnePlace
<1> HIDE DEF h2
<1>4. OnePlace(h2, d, Q, r, T \ {h[p]})
  BY <1>1, <1>2, <1>3 DEF OnePlace
<1>. QED BY <1>4 DEF h2

\* fork() and pthread_create(): the parent's connection goes to a worker.
LEMMA PlaceHanded ==
  ASSUME NEW h \in [Procs -> Conns \cup {NoConn}], NEW d, NEW Q, NEW r, NEW T \in SUBSET Conns,
         OnePlace(h, d, Q, r, T), NEW w \in Workers, h[w] = NoConn
  PROVE  OnePlace([h EXCEPT ![0] = NoConn, ![w] = h[0]], d, Q, r, T)
<1> DEFINE h2 == [h EXCEPT ![0] = NoConn, ![w] = h[0]]
<1>1. 0 \in Procs /\ w \in Procs /\ w # 0
  BY DesignsAssumption DEF Procs, Workers
<1>2. \A q \in Procs : h2[q] = IF q = w THEN h[0] ELSE IF q = 0 THEN NoConn ELSE h[q]
  BY <1>1
<1>3. \A e \in Conns : (\E q \in Procs : h2[q] = e) <=> (\E q \in Procs : h[q] = e)
  <2> SUFFICES ASSUME NEW e \in Conns
               PROVE  (\E q \in Procs : h2[q] = e) <=> (\E q \in Procs : h[q] = e)
    OBVIOUS
  <2>1. e # NoConn
    BY DEF Conns, NoConn
  <2>2. ASSUME NEW q \in Procs, h2[q] = e PROVE \E x \in Procs : h[x] = e
    BY <1>1, <1>2, <2>1, <2>2
  <2>3. ASSUME NEW q \in Procs, h[q] = e PROVE \E x \in Procs : h2[x] = e
    <3>1. CASE q = 0
      BY <1>1, <1>2, <2>3, <3>1
    <3>2. CASE q # 0
      BY <1>1, <1>2, <2>1, <2>3, <3>2
    <3>. QED BY <3>1, <3>2
  <2>. QED BY <2>2, <2>3
<1>4. \A k \in Q : r[k] # NoConn
  BY DEF OnePlace
<1> HIDE DEF h2
<1>5. OnePlace(h2, d, Q, r, T)
  BY <1>1, <1>2, <1>3, <1>4 DEF OnePlace
<1>. QED BY <1>5 DEF h2

\* write_fd(): the parent's connection goes into the pipe to a child.
LEMMA PlacePassed ==
  ASSUME NEW h \in [Procs -> Conns \cup {NoConn}], NEW d \in [Workers -> Conns \cup {NoConn}],
         NEW Q, NEW r, NEW T \in SUBSET Conns,
         OnePlace(h, d, Q, r, T), NEW w \in Workers, d[w] = NoConn
  PROVE  OnePlace([h EXCEPT ![0] = NoConn], [d EXCEPT ![w] = h[0]], Q, r, T)
<1> DEFINE h2 == [h EXCEPT ![0] = NoConn]
           d2 == [d EXCEPT ![w] = h[0]]
<1>1. 0 \in Procs
  BY DesignsAssumption DEF Procs
<1>2. /\ \A q \in Procs : h2[q] = IF q = 0 THEN NoConn ELSE h[q]
      /\ \A v \in Workers : d2[v] = IF v = w THEN h[0] ELSE d[v]
  BY <1>1
<1>3. \A e \in Conns : ((\E q \in Procs : h2[q] = e) \/ (\E v \in Workers : d2[v] = e))
                       <=> ((\E q \in Procs : h[q] = e) \/ (\E v \in Workers : d[v] = e))
  <2> SUFFICES ASSUME NEW e \in Conns
               PROVE  ((\E q \in Procs : h2[q] = e) \/ (\E v \in Workers : d2[v] = e))
                       <=> ((\E q \in Procs : h[q] = e) \/ (\E v \in Workers : d[v] = e))
    OBVIOUS
  <2>1. e # NoConn
    BY DEF Conns, NoConn
  <2>2. ASSUME NEW q \in Procs, h2[q] = e PROVE \E x \in Procs : h[x] = e
    BY <1>1, <1>2, <2>1, <2>2
  <2>3. ASSUME NEW v \in Workers, d2[v] = e
        PROVE  (\E q \in Procs : h[q] = e) \/ (\E x \in Workers : d[x] = e)
    BY <1>1, <1>2, <2>1, <2>3
  <2>4. ASSUME NEW q \in Procs, h[q] = e
        PROVE  (\E x \in Procs : h2[x] = e) \/ (\E v \in Workers : d2[v] = e)
    <3>1. CASE q = 0
      BY <1>2, <2>4, <3>1
    <3>2. CASE q # 0
      BY <1>2, <2>4, <3>2
    <3>. QED BY <3>1, <3>2
  <2>5. ASSUME NEW v \in Workers, d[v] = e PROVE \E x \in Workers : d2[x] = e
    BY <1>2, <2>1, <2>5
  <2>. QED BY <2>2, <2>3, <2>4, <2>5
<1>4. \A k \in Q : r[k] # NoConn
  BY DEF OnePlace
<1> HIDE DEF h2, d2
<1>5. OnePlace(h2, d2, Q, r, T)
  BY <1>1, <1>2, <1>3, <1>4 DEF OnePlace
<1>. QED BY <1>5 DEF h2, d2

\* read_fd(): the child takes the connection out of its pipe.
LEMMA PlaceReceived ==
  ASSUME NEW h \in [Procs -> Conns \cup {NoConn}], NEW d \in [Workers -> Conns \cup {NoConn}],
         NEW Q, NEW r, NEW T \in SUBSET Conns,
         OnePlace(h, d, Q, r, T), NEW w \in Workers, h[w] = NoConn
  PROVE  OnePlace([h EXCEPT ![w] = d[w]], [d EXCEPT ![w] = NoConn], Q, r, T)
<1> DEFINE h2 == [h EXCEPT ![w] = d[w]]
           d2 == [d EXCEPT ![w] = NoConn]
<1>1. w \in Procs
  BY DesignsAssumption DEF Procs, Workers
<1>2. /\ \A q \in Procs : h2[q] = IF q = w THEN d[w] ELSE h[q]
      /\ \A v \in Workers : d2[v] = IF v = w THEN NoConn ELSE d[v]
  BY <1>1
<1>3. \A e \in Conns : ((\E q \in Procs : h2[q] = e) \/ (\E v \in Workers : d2[v] = e))
                       <=> ((\E q \in Procs : h[q] = e) \/ (\E v \in Workers : d[v] = e))
  <2> SUFFICES ASSUME NEW e \in Conns
               PROVE  ((\E q \in Procs : h2[q] = e) \/ (\E v \in Workers : d2[v] = e))
                       <=> ((\E q \in Procs : h[q] = e) \/ (\E v \in Workers : d[v] = e))
    OBVIOUS
  <2>1. e # NoConn
    BY DEF Conns, NoConn
  <2>2. ASSUME NEW q \in Procs, h2[q] = e
        PROVE  (\E x \in Procs : h[x] = e) \/ (\E v \in Workers : d[v] = e)
    BY <1>1, <1>2, <2>1, <2>2
  <2>3. ASSUME NEW v \in Workers, d2[v] = e PROVE \E x \in Workers : d[x] = e
    BY <1>1, <1>2, <2>1, <2>3
  <2>4. ASSUME NEW q \in Procs, h[q] = e PROVE \E x \in Procs : h2[x] = e
    BY <1>2, <2>1, <2>4
  <2>5. ASSUME NEW v \in Workers, d[v] = e
        PROVE  (\E x \in Procs : h2[x] = e) \/ (\E x \in Workers : d2[x] = e)
    <3>1. CASE v = w
      BY <1>1, <1>2, <2>5, <3>1
    <3>2. CASE v # w
      BY <1>2, <2>5, <3>2
    <3>. QED BY <3>1, <3>2
  <2>. QED BY <2>2, <2>3, <2>4, <2>5
<1>4. \A k \in Q : r[k] # NoConn
  BY DEF OnePlace
<1> HIDE DEF h2, d2
<1>5. OnePlace(h2, d2, Q, r, T)
  BY <1>1, <1>2, <1>3, <1>4 DEF OnePlace
<1>. QED BY <1>5 DEF h2, d2

-----------------------------------------------------------------------------
(* The ring of serv08 *)

Slots == 0..(MAXNCLI - 1)

\* the slots from g up to p
Between(g, p) == {k \in Slots : IF g <= p THEN g <= k /\ k < p ELSE g <= k \/ k < p}

\* The slot at iput is free, and becomes the last of the queue unless the ring is full.
LEMMA RingPut ==
  ASSUME NEW g \in Slots, NEW p \in Slots, next(p) # g
  PROVE  p \notin Between(g, p) /\ next(p) \in Slots /\ Between(g, next(p)) = Between(g, p) \cup {p}
<1> USE DesignsAssumption DEF Slots, Between, next
<1>1. p \notin Between(g, p) /\ next(p) \in Slots
  OBVIOUS
<1>2. CASE p + 1 = MAXNCLI
  OBVIOUS
<1>3. CASE p + 1 # MAXNCLI
  OBVIOUS
<1>. QED BY <1>1, <1>2, <1>3

\* The slot at iget is the first of a queue that is not empty.
LEMMA RingGet ==
  ASSUME NEW g \in Slots, NEW p \in Slots, g # p
  PROVE  g \in Between(g, p) /\ next(g) \in Slots /\ Between(next(g), p) = Between(g, p) \ {g}
<1> USE DesignsAssumption DEF Slots, Between, next
<1>1. g \in Between(g, p) /\ next(g) \in Slots
  OBVIOUS
<1>2. CASE g + 1 = MAXNCLI
  OBVIOUS
<1>3. CASE g + 1 # MAXNCLI
  OBVIOUS
<1>. QED BY <1>1, <1>2, <1>3

\* When iget = iput nothing is queued.
LEMMA RingEmpty ==
  ASSUME NEW g \in Slots PROVE Between(g, g) = {}
  BY DesignsAssumption DEF Between, Slots

\* The main thread puts its connection into the slot at iput.
LEMMA PlacePut ==
  ASSUME NEW h \in [Procs -> Conns \cup {NoConn}], NEW d \in [Workers -> Conns \cup {NoConn}],
         NEW g \in Slots, NEW p \in Slots, NEW r \in [Slots -> Conns \cup {NoConn}],
         NEW T \in SUBSET Conns, OnePlace(h, d, Between(g, p), r, T), h[0] \in Conns, next(p) # g
  PROVE  OnePlace([h EXCEPT ![0] = NoConn], d, Between(g, next(p)), [r EXCEPT ![p] = h[0]], T)
<1> DEFINE h2 == [h EXCEPT ![0] = NoConn]
           r2 == [r EXCEPT ![p] = h[0]]
           Q  == Between(g, p)
           Q2 == Between(g, next(p))
<1>1. 0 \in Procs /\ h[0] # NoConn
  BY DesignsAssumption DEF Procs, Conns, NoConn
<1>2. Q2 = Q \cup {p} /\ p \notin Q /\ Q \subseteq Slots
  BY RingPut DEF Between
<1>3. /\ \A q \in Procs : h2[q] = IF q = 0 THEN NoConn ELSE h[q]
      /\ \A k \in Q : r2[k] = r[k]
      /\ r2[p] = h[0]
  BY <1>1, <1>2
<1>4. OnePlace(h, d, Q, r, T)
  OBVIOUS
<1> HIDE DEF h2, r2, Q, Q2
<1>5. \A e \in Conns : ((\E q \in Procs : h2[q] = e) \/ (\E k \in Q2 : r2[k] = e))
                       <=> ((\E q \in Procs : h[q] = e) \/ (\E k \in Q : r[k] = e))
  <2> SUFFICES ASSUME NEW e \in Conns
               PROVE  ((\E q \in Procs : h2[q] = e) \/ (\E k \in Q2 : r2[k] = e))
                       <=> ((\E q \in Procs : h[q] = e) \/ (\E k \in Q : r[k] = e))
    OBVIOUS
  <2>1. e # NoConn
    BY DEF Conns, NoConn
  <2>2. ASSUME NEW q \in Procs, h2[q] = e PROVE \E x \in Procs : h[x] = e
    BY <1>3, <2>1, <2>2
  <2>3. ASSUME NEW k \in Q2, r2[k] = e
        PROVE  (\E q \in Procs : h[q] = e) \/ (\E x \in Q : r[x] = e)
    BY <1>1, <1>2, <1>3, <2>3
  <2>4. ASSUME NEW q \in Procs, h[q] = e
        PROVE  (\E x \in Procs : h2[x] = e) \/ (\E k \in Q2 : r2[k] = e)
    <3>1. CASE q = 0
      BY <1>2, <1>3, <2>4, <3>1
    <3>2. CASE q # 0
      BY <1>3, <2>4, <3>2
    <3>. QED BY <3>1, <3>2
  <2>5. ASSUME NEW k \in Q, r[k] = e PROVE \E x \in Q2 : r2[x] = e
    BY <1>2, <1>3, <2>5
  <2>. QED BY <2>2, <2>3, <2>4, <2>5
<1>6. OnePlace(h2, d, Q2, r2, T)
  <2>1. \A j, k \in Q2 : r2[j] = r2[k] => j = k
    BY <1>1, <1>2, <1>3, <1>4 DEF OnePlace
  <2>2. \A q \in Procs, k \in Q2 : h2[q] # r2[k]
    BY <1>1, <1>2, <1>3, <1>4 DEF OnePlace
  <2>3. \A w \in Workers, k \in Q2 : d[w] # r2[k]
    BY <1>1, <1>2, <1>3, <1>4 DEF OnePlace
  <2>4. \A k \in Q2 : r2[k] # NoConn
    BY <1>1, <1>2, <1>3, <1>4 DEF OnePlace
  <2>5. \A q, v \in Procs : h2[q] = h2[v] /\ h2[q] # NoConn => q = v
    BY <1>3, <1>4 DEF OnePlace
  <2>6. \A q \in Procs, w \in Workers : h2[q] = d[w] => h2[q] = NoConn
    BY <1>3, <1>4 DEF OnePlace
  <2>7. /\ \A v, w \in Workers : d[v] = d[w] /\ d[v] # NoConn => v = w
        /\ \A e \in Conns : e \in T <=> \/ \E q \in Procs : h2[q] = e
                                        \/ \E w \in Workers : d[w] = e
                                        \/ \E k \in Q2 : r2[k] = e
    BY <1>4, <1>5 DEF OnePlace
  <2>. QED BY <2>1, <2>2, <2>3, <2>4, <2>5, <2>6, <2>7 DEF OnePlace
<1>. QED BY <1>6 DEF h2, r2, Q2

\* A thread takes the connection in the slot at iget.
LEMMA PlaceGot ==
  ASSUME NEW h \in [Procs -> Conns \cup {NoConn}], NEW d \in [Workers -> Conns \cup {NoConn}],
         NEW g \in Slots, NEW p \in Slots, NEW r \in [Slots -> Conns \cup {NoConn}],
         NEW T \in SUBSET Conns, OnePlace(h, d, Between(g, p), r, T), g # p,
         NEW w \in Workers, h[w] = NoConn
  PROVE  OnePlace([h EXCEPT ![w] = r[g]], d, Between(next(g), p), r, T) /\ r[g] \in Conns
<1> DEFINE h2 == [h EXCEPT ![w] = r[g]]
           Q  == Between(g, p)
           Q2 == Between(next(g), p)
<1>1. w \in Procs
  BY DesignsAssumption DEF Procs, Workers
<1>2. Q2 = Q \ {g} /\ g \in Q /\ Q \subseteq Slots
  BY RingGet DEF Between
<1>3. \A q \in Procs : h2[q] = IF q = w THEN r[g] ELSE h[q]
  BY <1>1
<1>4. OnePlace(h, d, Q, r, T)
  OBVIOUS
<1>5. r[g] # NoConn /\ r[g] \in Conns
  BY <1>2, <1>4 DEF OnePlace
<1> HIDE DEF h2, Q, Q2
<1>6. \A e \in Conns : ((\E q \in Procs : h2[q] = e) \/ (\E k \in Q2 : r[k] = e))
                       <=> ((\E q \in Procs : h[q] = e) \/ (\E k \in Q : r[k] = e))
  <2> SUFFICES ASSUME NEW e \in Conns
               PROVE  ((\E q \in Procs : h2[q] = e) \/ (\E k \in Q2 : r[k] = e))
                       <=> ((\E q \in Procs : h[q] = e) \/ (\E k \in Q : r[k] = e))
    OBVIOUS
  <2>1. e # NoConn
    BY DEF Conns, NoConn
  <2>2. ASSUME NEW q \in Procs, h2[q] = e
        PROVE  (\E x \in Procs : h[x] = e) \/ (\E k \in Q : r[k] = e)
    BY <1>2, <1>3, <2>2
  <2>3. ASSUME NEW k \in Q2, r[k] = e PROVE \E x \in Q : r[x] = e
    BY <1>2, <2>3
  <2>4. ASSUME NEW q \in Procs, h[q] = e PROVE \E x \in Procs : h2[x] = e
    BY <1>3, <2>1, <2>4
  <2>5. ASSUME NEW k \in Q, r[k] = e
        PROVE  (\E x \in Procs : h2[x] = e) \/ (\E x \in Q2 : r[x] = e)
    <3>1. CASE k = g
      BY <1>1, <1>3, <2>5, <3>1
    <3>2. CASE k # g
      BY <1>2, <2>5, <3>2
    <3>. QED BY <3>1, <3>2
  <2>. QED BY <2>2, <2>3, <2>4, <2>5
<1>7. OnePlace(h2, d, Q2, r, T)
  <2>1. /\ \A j, k \in Q2 : r[j] = r[k] => j = k
        /\ \A k \in Q2 : r[k] # NoConn
        /\ \A v \in Workers, k \in Q2 : d[v] # r[k]
    BY <1>2, <1>4 DEF OnePlace
  <2>2. \A q \in Procs, k \in Q2 : h2[q] # r[k]
    BY <1>2, <1>3, <1>4 DEF OnePlace
  <2>3. \A q, v \in Procs : h2[q] = h2[v] /\ h2[q] # NoConn => q = v
    BY <1>2, <1>3, <1>4 DEF OnePlace
  <2>4. \A q \in Procs, v \in Workers : h2[q] = d[v] => h2[q] = NoConn
    BY <1>2, <1>3, <1>4 DEF OnePlace
  <2>5. /\ \A u, v \in Workers : d[u] = d[v] /\ d[u] # NoConn => u = v
        /\ \A e \in Conns : e \in T <=> \/ \E q \in Procs : h2[q] = e
                                        \/ \E v \in Workers : d[v] = e
                                        \/ \E k \in Q2 : r[k] = e
    BY <1>4, <1>6 DEF OnePlace
  <2>. QED BY <2>1, <2>2, <2>3, <2>4, <2>5 DEF OnePlace
<1>. QED BY <1>5, <1>7 DEF h2, Q2

-----------------------------------------------------------------------------
(* The backlog *)

\* A client connects: its connection is new.
LEMMA FreshConnect ==
  ASSUME NEW b \in Seq(Conns), NEW pe \in [Conns -> ClientStates], NEW T \in SUBSET Conns,
         Fresh(b, pe, T),
         NEW c \in Conns, pe[c] = "new"
  PROVE  Fresh(Append(b, c), [pe EXCEPT ![c] = "connected"], T)
<1> DEFINE b2 == Append(b, c)
           pe2 == [pe EXCEPT ![c] = "connected"]
<1>1. /\ Len(b) \in Nat /\ Len(b2) = Len(b) + 1 /\ b2[Len(b) + 1] = c
      /\ \A i \in 1..Len(b) : b2[i] = b[i] /\ b[i] \in Conns
  OBVIOUS
<1>2. \A e \in Conns : pe2[e] = IF e = c THEN "connected" ELSE pe[e]
  OBVIOUS
<1>3. c \notin T /\ \A i \in 1..Len(b) : b[i] # c
  BY DEF Fresh
<1> HIDE DEF b2, pe2
<1>4. \A i \in 1..Len(b2) : i \in 1..Len(b) \/ i = Len(b) + 1
  BY <1>1
<1>5. \A i \in 1..Len(b2) : b2[i] \notin T /\ pe2[b2[i]] # "new"
  BY <1>1, <1>2, <1>3, <1>4 DEF Fresh
<1>6. \A i, j \in 1..Len(b2) : b2[i] = b2[j] => i = j
  BY <1>1, <1>3, <1>4 DEF Fresh
<1>7. \A e \in T : pe2[e] # "new"
  BY <1>2 DEF Fresh
<1>8. Fresh(b2, pe2, T)
  BY <1>5, <1>6, <1>7 DEF Fresh
<1>. QED BY <1>8 DEF b2, pe2

\* A client goes on: it does not become new again.
LEMMA FreshClient ==
  ASSUME NEW b \in Seq(Conns), NEW pe \in [Conns -> ClientStates], NEW T \in SUBSET Conns,
         Fresh(b, pe, T),
         NEW c \in Conns, NEW dest, dest # "new"
  PROVE  Fresh(b, [pe EXCEPT ![c] = dest], T)
<1> DEFINE pe2 == [pe EXCEPT ![c] = dest]
<1>1. \A e \in Conns : pe2[e] = IF e = c THEN dest ELSE pe[e]
  OBVIOUS
<1>2. \A i \in 1..Len(b) : b[i] \in Conns
  OBVIOUS
<1> HIDE DEF pe2
<1>3. Fresh(b, pe2, T)
  BY <1>1, <1>2 DEF Fresh
<1>. QED BY <1>3 DEF pe2

\* accept(): the head of the backlog was not accepted before, nor is the rest after it.
LEMMA FreshAccept ==
  ASSUME NEW b \in Seq(Conns), NEW pe \in [Conns -> ClientStates], NEW T \in SUBSET Conns,
         Fresh(b, pe, T),
         b # <<>>
  PROVE  /\ Head(b) \in Conns /\ Head(b) \notin T /\ Tail(b) \in Seq(Conns)
         /\ Fresh(Tail(b), pe, T \cup {Head(b)}) /\ Fresh(Tail(b), pe, T)
<1> DEFINE b2 == Tail(b)
           c == Head(b)
<1>1. /\ Len(b) \in Nat \ {0} /\ b2 \in Seq(Conns) /\ Len(b2) = Len(b) - 1 /\ c = b[1]
      /\ \A i \in 1..Len(b2) : b2[i] = b[i + 1]
      /\ c \in Conns
  OBVIOUS
<1> HIDE DEF b2, c
<1>2. \A i \in 1..Len(b2) : i + 1 \in 1..Len(b) /\ i + 1 # 1
  BY <1>1
<1>3. c \notin T /\ pe[c] # "new"
  BY <1>1 DEF Fresh
<1>4. \A i \in 1..Len(b2) : b2[i] # c /\ b2[i] \notin T /\ pe[b2[i]] # "new"
  BY <1>1, <1>2 DEF Fresh
<1>5. \A i, j \in 1..Len(b2) : b2[i] = b2[j] => i = j
  <2> SUFFICES ASSUME NEW i \in 1..Len(b2), NEW j \in 1..Len(b2), b2[i] = b2[j] PROVE i = j
    OBVIOUS
  <2>1. b[i + 1] = b[j + 1]
    BY <1>1
  <2>2. i + 1 = j + 1
    BY <1>2, <2>1 DEF Fresh
  <2>. QED BY <2>2
<1>6. Fresh(b2, pe, T \cup {c}) /\ Fresh(b2, pe, T)
  BY <1>3, <1>4, <1>5 DEF Fresh
<1>. QED BY <1>1, <1>3, <1>6 DEF b2, c

\* Connections that are closed leave the backlog as it is.
LEMMA FreshClosed ==
  ASSUME NEW b, NEW pe, NEW T, NEW T2 \in SUBSET T, Fresh(b, pe, T)
  PROVE  Fresh(b, pe, T2)
  BY DEF Fresh

-----------------------------------------------------------------------------
(* What the inductive invariant gives *)

\* The process numbers, and NoConn is no connection.
LEMMA Numbers ==
  /\ 0 \in Procs /\ Workers \subseteq Procs /\ 0 \notin Workers /\ NoConn \notin Conns
  /\ \A p \in Procs : p = 0 \/ p \in Workers
  BY DesignsAssumption DEF Procs, Workers, Conns, NoConn

\* The slots in use lie between iget and iput.
LEMMA QueueIs == TypeOK => queue = Between(iget, iput)
  BY DEF TypeOK, queue, Between, Slots

\* A set whose elements are all the same has one element or none.
LEMMA SameElements ==
  ASSUME NEW S, \A x, y \in S : x = y
  PROVE  IsFiniteSet(S) /\ Cardinality(S) = IF S = {} THEN 0 ELSE 1
<1>1. CASE S = {}
  BY <1>1, FS_EmptySet
<1>2. CASE S # {}
  <2>1. PICK x : x \in S
    BY <1>2
  <2>2. S = {x}
    BY <2>1
  <2>. QED BY <1>2, <2>2, FS_Singleton
<1>. QED BY <1>1, <1>2

\* In one place means counted once.
LEMMA OnceIsHeldOnce == TypeOK /\ Once => HeldOnce
<1> SUFFICES ASSUME TypeOK, OnePlace(hand, down, queue, clifd, taken), NEW c \in Conns
             PROVE  places(c) = IF c \in taken THEN 1 ELSE 0
  BY DEF Once, HeldOnce
<1> DEFINE A == {p \in Procs : hand[p] = c}
           B == {w \in Workers : down[w] = c}
           C == {k \in queue : clifd[k] = c}
<1>1. c # NoConn
  BY Numbers
<1>2. \A x, y \in A : x = y
  BY <1>1 DEF OnePlace
<1>3. \A x, y \in B : x = y
  BY <1>1 DEF OnePlace
<1>4. \A x, y \in C : x = y
  BY DEF OnePlace
<1>5. (A # {} => B = {} /\ C = {}) /\ (B # {} => C = {})
  BY <1>1 DEF OnePlace
<1>6. c \in taken <=> A # {} \/ B # {} \/ C # {}
  BY DEF OnePlace
<1>7. places(c) = Cardinality(A) + Cardinality(B) + Cardinality(C)
  BY DEF places
<1> HIDE DEF A, B, C
<1>8. /\ Cardinality(A) = IF A = {} THEN 0 ELSE 1
      /\ Cardinality(B) = IF B = {} THEN 0 ELSE 1
      /\ Cardinality(C) = IF C = {} THEN 0 ELSE 1
  BY <1>2, <1>3, <1>4, SameElements
<1>. QED BY <1>5, <1>6, <1>7, <1>8

\* The inductive invariant implies the one that is checked.
LEMMA IInvImplies == IInv => ServerInv
<1> SUFFICES ASSUME IInv PROVE ServerInv
  OBVIOUS
<1>1. TypeOK /\ HeldOnce
  BY OnceIsHeldOnce DEF IInv
<1>2. AvailableIsIdle
  <2> SUFFICES ASSUME design = "serv05", pc[0] \notin {"dead", "wait"}, \A w \in Workers : alive(w)
               PROVE  /\ navail = Cardinality(idle)
                      /\ \A w \in idle : pc[w] = "read" /\ down[w] = NoConn /\ up[w] = 0
    BY DEF AvailableIsIdle
  <2>1. \A w \in Workers : pc[w] # "dead"
    BY DEF alive
  <2>2. navail = Cardinality(idle)
    BY <2>1 DEF IInv, Counted
  <2>3. \A w \in idle : pc[w] = "read" /\ down[w] = NoConn /\ up[w] = 0
    BY <2>1 DEF IInv, Children, ChildOK, idle
  <2>. QED BY <2>2, <2>3
<1>. QED BY <1>1, <1>2 DEF ServerInv

-----------------------------------------------------------------------------
(* What an action leaves alone *)

\* One process moves on to a statement of its own program.
LEMMA Moved ==
  ASSUME TypeOK, Where, design' = design, NEW p \in Procs, NEW dest \in Statements, Move(p, dest),
         Belongs(design, p, dest)
  PROVE  /\ pc' \in [Procs -> Statements] /\ Where' /\ pc'[p] = dest
         /\ \A q \in Procs : q # p => pc'[q] = pc[q]
<1>1. /\ pc' \in [Procs -> Statements] /\ pc'[p] = dest
      /\ \A q \in Procs : q # p => pc'[q] = pc[q]
  BY DEF TypeOK, Move
<1>2. \A q \in Procs : Belongs(design', q, pc'[q])
  BY <1>1 DEF Where
<1>. QED BY <1>1, <1>2 DEF Where

\* One process moves on with what it now has in its hand.
LEMMA HandsMoved ==
  ASSUME Hands, NEW p \in Procs, HandOK(pc'[p], hand'[p]),
         \A q \in Procs : q # p => pc'[q] = pc[q] /\ hand'[q] = hand[q]
  PROVE  Hands'
<1>1. \A q \in Procs : HandOK(pc'[q], hand'[q])
  BY DEF Hands
<1>. QED BY <1>1 DEF Hands

\* Connections stay where they are.
LEMMA OnceKept ==
  ASSUME Once, UNCHANGED <<design, hand, down, ring, taken>>, pc[0] = "dead" => pc'[0] = "dead"
  PROVE  Once'
<1>1. queue' = queue
  BY DEF queue, ring
<1>. QED BY <1>1 DEF Once, ring

\* The children of serv05 stay as they are, or die.
LEMMA ChildrenKept ==
  ASSUME Children, UNCHANGED <<design, status, down, up>>,
         design = "serv05" => \A w \in Workers : pc'[w] # "dead" => pc'[w] = pc[w]
  PROVE  Children'
  BY DEF Children, ChildOK

\* The parent of serv05 stays where it is, or leaves its loop.
LEMMA ParentKept ==
  ASSUME Parent, UNCHANGED <<design, navail, rset05>>,
         design = "serv05" /\ pc'[0] \in {"accept", "pass"} => pc[0] \in {"accept", "pass"},
         pc'[0] = "collect" => pc[0] = "collect"
  PROVE  Parent'
  BY DEF Parent

\* The parent's count stays right when nobody comes back to life.
LEMMA CountedKept ==
  ASSUME Counted, UNCHANGED <<design, navail, status>>,
         pc[0] \in {"dead", "wait"} => pc'[0] \in {"dead", "wait"},
         \A w \in Workers : pc[w] = "dead" => pc'[w] = "dead"
  PROVE  Counted'
<1>1. idle' = idle
  BY DEF idle
<1>. QED BY <1>1 DEF Counted

\* Pipes and ring stay unused.
LEMMA UnusedKept ==
  ASSUME Unused, UNCHANGED <<design, down, clifd, iget, iput>>
  PROVE  Unused'
<1>1. queue' = queue
  BY DEF queue
<1>. QED BY <1>1 DEF Unused

\* The backlog stays as it is.
LEMMA QueuedKept ==
  ASSUME Queued, UNCHANGED <<backlog, peer>>, taken' \subseteq taken
  PROVE  Queued'
<1>1. Fresh(backlog, peer, taken')
  BY FreshClosed DEF Queued
<1>. QED BY <1>1 DEF Queued

-----------------------------------------------------------------------------
(* Initially *)

\* Init establishes the inductive invariant.
LEMMA IInvInit == Init => IInv
<1> SUFFICES ASSUME Init PROVE IInv
  OBVIOUS
<1> USE DesignsAssumption, Numbers
<1>1. \A p \in Procs : /\ program(p).start \in Statements \ (Holding \cup {"wait", "collect", "dead"})
                       /\ Belongs(design, p, program(p).start)
                       /\ design = "serv05" => program(p).start = IF p = 0 THEN "select" ELSE "read"
  <2> SUFFICES ASSUME NEW p \in Procs
               PROVE  /\ program(p).start \in Statements \ (Holding \cup {"wait", "collect", "dead"})
                      /\ Belongs(design, p, program(p).start)
                      /\ design = "serv05" => program(p).start = IF p = 0 THEN "select" ELSE "read"
    OBVIOUS
  <2>1. design \in DOMAIN Programs
    BY DEF Init
  <2> USE DEF program, Programs, loop, noWorker, Holding, Statements, Belongs
  <2>2. CASE design = "serv00" BY <2>2 DEF serv00
  <2>3. CASE design = "serv01" BY <2>3 DEF serv01, child01
  <2>4. CASE design = "serv02" BY <2>4 DEF serv02, child02
  <2>5. CASE design = "serv03" BY <2>5 DEF serv03, child03
  <2>6. CASE design = "serv04" BY <2>6 DEF serv04, child04
  <2>7. CASE design = "serv05" BY <2>7 DEF serv05, child05
  <2>8. CASE design = "serv06" BY <2>8 DEF serv06, doit06
  <2>9. CASE design = "serv07" BY <2>9 DEF serv07, thread07
  <2>10. CASE design = "serv08" BY <2>10 DEF serv08, thread08
  <2>11. CASE design = "serv09" BY <2>11 DEF serv09, thread09
  <2>. QED BY <2>1, <2>2, <2>3, <2>4, <2>5, <2>6, <2>7, <2>8, <2>9, <2>10, <2>11
<1>2. \A p \in Procs : pc[p] = program(p).start /\ hand[p] = NoConn
  BY DEF Init
<1>3. TypeOK
  <2>1. pc \in [Procs -> Statements]
    BY <1>1 DEF Init
  <2>2. /\ hand \in [Procs -> Conns \cup {NoConn}]
        /\ taken \subseteq Conns /\ lock \in Procs /\ backlog \in Seq(Conns)
        /\ rset05 \subseteq Procs
    BY DEF Init
  <2>3. design \in DOMAIN Programs /\ sigchld \in BOOLEAN
    BY DEF Init
  <2>4. peer \in [Conns -> ClientStates]
    BY DEF Init, ClientStates
  <2>5. /\ clifd \in [0..(MAXNCLI - 1) -> Conns \cup {NoConn}]
        /\ iget \in 0..(MAXNCLI - 1) /\ iput \in 0..(MAXNCLI - 1)
    BY DEF Init
  <2>6. /\ status \in [Workers -> 0..1] /\ navail \in Nat
        /\ down \in [Workers -> Conns \cup {NoConn}] /\ up \in [Workers -> 0..MsgBytes]
        /\ fails \in 0..MaxFails
    BY DEF Init
  <2>. QED BY <2>1, <2>2, <2>4, <2>5, <2>6, <2>3 DEF TypeOK
<1>4. Where
  BY <1>1, <1>2 DEF Where
<1>5. Hands
  BY <1>1, <1>2 DEF Hands, HandOK
<1>6. Once /\ Unused
  <2>1. queue = {} /\ taken = {} /\ \A w \in Workers : down[w] = NoConn
    BY <1>3, QueueIs, RingEmpty DEF Init, Slots
  <2>2. \A c \in Conns : c # NoConn
    OBVIOUS
  <2>3. OnePlace(hand, down, queue, clifd, taken)
    BY <1>2, <2>1, <2>2 DEF OnePlace
  <2>. QED BY <2>1, <2>3 DEF Once, Unused, Init
<1>7. Queued
  BY DEF Queued, Fresh, Init
<1>8. Children
  <2> SUFFICES ASSUME design = "serv05", NEW w \in Workers
               PROVE  ChildOK(pc[w], status[w], down[w], up[w])
    BY DEF Children
  <2>1. pc[w] = "read"
    BY <1>1, <1>2
  <2>2. down[w] = NoConn /\ up[w] = 0
    BY DEF Init
  <2>. QED BY <2>1, <2>2 DEF ChildOK
<1>9. Parent
  <2>1. design = "serv05" => pc[0] = "select"
    BY <1>1, <1>2
  <2>2. pc[0] # "collect"
    BY <1>1, <1>2
  <2>. QED BY <2>1, <2>2 DEF Parent
<1>10. Counted
  <2>1. idle = 1..N
    BY DEF Init, idle, Workers
  <2>2. Cardinality(1..N) = N
    BY FS_Interval
  <2>. QED BY <2>1, <2>2 DEF Counted, Init
<1>. QED BY <1>3, <1>4, <1>5, <1>6, <1>7, <1>8, <1>9, <1>10 DEF IInv

-----------------------------------------------------------------------------
(* Every step keeps it *)

\* A step of a client, or of web_child() on its connection.
LEMMA KernelStep ==
  ASSUME IInv, UNCHANGED <<rest, pc, hand, lock, taken, ring, pipes>>,
         NEW b \in Seq(Conns), backlog' = b,
         NEW pe \in [Conns -> ClientStates],
         peer' = pe, Fresh(b, pe, taken)
  PROVE  IInv'
<1> USE DEF rest, ring, pipes
<1>1. TypeOK'
  BY DEF IInv, TypeOK
<1>2. Where' /\ Hands'
  BY DEF IInv, Where, Hands
<1>3. Once'
  BY OnceKept DEF IInv
<1>4. Queued'
  BY DEF Queued
<1>5. Children' /\ Parent'
  BY ChildrenKept, ParentKept DEF IInv
<1>6. Counted' /\ Unused'
  BY CountedKept, UnusedKept DEF IInv
<1>. QED BY <1>1, <1>2, <1>3, <1>4, <1>5, <1>6 DEF IInv

\* Connect, Ask, Reset and Close.
LEMMA ClientSteps ==
  ASSUME IInv, NEW c \in Conns, Connect(c) \/ ClientStep(c)
  PROVE  IInv'
<1>1. /\ peer \in [Conns -> ClientStates] /\ backlog \in Seq(Conns) /\ taken \in SUBSET Conns
      /\ Fresh(backlog, peer, taken)
  BY DEF IInv, TypeOK, Queued
<1>2. CASE Connect(c)
  <2>1. Fresh(Append(backlog, c), [peer EXCEPT ![c] = "connected"], taken)
    BY <1>1, <1>2, FreshConnect DEF Connect
  <2>2. /\ Append(backlog, c) \in Seq(Conns)
        /\ [peer EXCEPT ![c] = "connected"] \in [Conns -> ClientStates]
    BY <1>1 DEF ClientStates
  <2>. QED BY <1>2, <2>1, <2>2, KernelStep DEF Connect
<1>3. CASE ClientStep(c)
  <2>1. PICK dest \in {"asked", "bad", "reset", "closed"} : peer' = [peer EXCEPT ![c] = dest]
    BY <1>3 DEF ClientStep, Ask, Reset, Close
  <2>2. Fresh(backlog, [peer EXCEPT ![c] = dest], taken)
    BY <1>1, FreshClient
  <2>3. [peer EXCEPT ![c] = dest] \in [Conns -> ClientStates]
    BY <1>1 DEF ClientStates
  <2>4. UNCHANGED <<rest, pc, hand, lock, taken, ring, pipes>> /\ backlog' = backlog
    BY <1>3 DEF ClientStep, Ask, Reset, Close
  <2>. QED BY <1>1, <2>1, <2>2, <2>3, <2>4, KernelStep
<1>. QED BY <1>2, <1>3

\* web_child() answers.
LEMMA WebChildWritesStep ==
  ASSUME IInv, NEW p \in Procs, WebChildWrites(p)
  PROVE  IInv'
<1>1. /\ peer \in [Conns -> ClientStates] /\ backlog \in Seq(Conns) /\ taken \in SUBSET Conns
      /\ Fresh(backlog, peer, taken)
  BY DEF IInv, TypeOK, Queued
<1>2. hand[p] \in Conns
  BY DEF IInv, Hands, HandOK, WebChildWrites, Holding
<1>3. Fresh(backlog, [peer EXCEPT ![hand[p]] = "answered"], taken)
  BY <1>1, <1>2, FreshClient
<1>4. [peer EXCEPT ![hand[p]] = "answered"] \in [Conns -> ClientStates]
  BY <1>1 DEF ClientStates
<1>5. /\ UNCHANGED <<rest, pc, hand, lock, taken, ring, pipes>> /\ backlog' = backlog
      /\ peer' = [peer EXCEPT ![hand[p]] = "answered"]
  BY DEF WebChildWrites
<1>. QED BY <1>1, <1>3, <1>4, <1>5, KernelStep

\* A process dies: of a thread, the whole program; what it held is closed, and
\* what it may still have written to its pipe has no bearing on the living.
LEMMA DieStep ==
  ASSUME IInv, NEW p \in Procs, alive(p), Die(p),
         UNCHANGED <<peer, clifd, iget, iput, status, navail, rset05, down>>,
         NEW b \in Seq(Conns), backlog' = b, Fresh(b, peer, taken),
         NEW n \in 0..MaxFails, fails' = n,
         NEW u \in [Workers -> 0..MsgBytes], up' = u, \A w \in Workers : w # p => u[w] = up[w]
  PROVE  IInv'
<1> DEFINE gone == IF design \in OneProcess THEN Procs ELSE {p}
<1> USE Numbers
<1>1. TypeOK /\ Where /\ Hands /\ Once /\ Queued /\ Children /\ Parent /\ Counted /\ Unused
  BY DEF IInv
<1>2. /\ design' = design /\ p \in gone /\ gone \subseteq Procs
      /\ pc' = [q \in Procs |-> IF q \notin gone THEN pc[q]
                                ELSE IF design = "serv01" /\ q # 0 THEN "zombie" ELSE "dead"]
      /\ hand' = [q \in Procs |-> IF q \in gone THEN NoConn ELSE hand[q]]
      /\ taken' = IF design \in OneProcess THEN {} ELSE taken \ {hand[p]}
  BY DEF Die
<1>3. design = "serv01" => design \notin OneProcess
  BY DEF OneProcess
<1> HIDE DEF gone
<1>4. /\ pc' \in [Procs -> Statements]
      /\ \A q \in Procs : q \notin gone => pc'[q] = pc[q] /\ hand'[q] = hand[q]
      /\ \A q \in gone : /\ pc'[q] = IF design = "serv01" /\ q # 0 THEN "zombie" ELSE "dead"
                         /\ hand'[q] = NoConn
  BY <1>1, <1>2 DEF TypeOK, Statements
<1>5. hand' \in [Procs -> Conns \cup {NoConn}] /\ taken' \subseteq taken
  BY <1>1, <1>2 DEF TypeOK
<1>6. TypeOK'
  <2>1. lock' \in Procs
    BY <1>1 DEF Die, lockAfter, TypeOK
  <2>2. sigchld' \in BOOLEAN
    BY DEF Die
  <2>3. /\ backlog' \in Seq(Conns) /\ fails' \in 0..MaxFails /\ up' \in [Workers -> 0..MsgBytes]
        /\ taken' \subseteq Conns
    BY <1>1, <1>5 DEF TypeOK
  <2>4. /\ design' \in DOMAIN Programs
        /\ peer' \in [Conns -> ClientStates]
    BY <1>1, <1>2 DEF TypeOK
  <2>5. /\ clifd' \in [0..(MAXNCLI - 1) -> Conns \cup {NoConn}]
        /\ iget' \in 0..(MAXNCLI - 1) /\ iput' \in 0..(MAXNCLI - 1)
        /\ status' \in [Workers -> 0..1] /\ navail' \in Nat /\ rset05' \subseteq Procs
        /\ down' \in [Workers -> Conns \cup {NoConn}]
    BY <1>1 DEF TypeOK
  <2>. QED BY <1>4, <1>5, <2>1, <2>2, <2>3, <2>4, <2>5 DEF TypeOK
<1>7. Where'
  <2>1. \A q \in Procs : Belongs(design, q, pc'[q])
    <3> SUFFICES ASSUME NEW q \in Procs PROVE Belongs(design, q, pc'[q])
      OBVIOUS
    <3>1. CASE q \notin gone
      BY <1>1, <1>4, <3>1 DEF Where
    <3>2. CASE q \in gone
      BY <1>4, <3>2 DEF Belongs
    <3>. QED BY <3>1, <3>2
  <2>. QED BY <1>2, <2>1 DEF Where
<1>8. Hands'
  <2>1. \A q \in Procs : HandOK(pc'[q], hand'[q])
    <3> SUFFICES ASSUME NEW q \in Procs PROVE HandOK(pc'[q], hand'[q])
      OBVIOUS
    <3>1. CASE q \notin gone
      BY <1>1, <1>4, <3>1 DEF Hands
    <3>2. CASE q \in gone
      BY <1>4, <3>2 DEF HandOK, Holding
    <3>. QED BY <3>1, <3>2
  <2>. QED BY <2>1 DEF Hands
<1>9. Once'
  <2> SUFFICES ASSUME ~(design' = "serv08" /\ pc'[0] = "dead")
               PROVE  OnePlace(hand', down', queue', clifd', taken')
    BY DEF Once
  <2>1. queue' = queue
    BY DEF queue
  <2>2. CASE design \in OneProcess
    <3>1. gone = Procs /\ \A q \in Procs : hand'[q] = NoConn
      BY <1>4, <2>2 DEF gone
    <3>2. pc'[0] = "dead"
      BY <1>3, <1>4, <2>2, <3>1
    <3>3. design # "serv08" /\ design # "serv05"
      BY <1>2, <2>2, <3>2 DEF OneProcess, Prefork
    <3>4. queue = {} /\ \A w \in Workers : down[w] = NoConn
      BY <1>1, <3>3, QueueIs, RingEmpty DEF Unused, TypeOK, Slots
    <3>5. taken' = {}
      BY <1>2, <2>2
    <3>. QED BY <2>1, <3>1, <3>4, <3>5 DEF OnePlace
  <2>3. CASE design \notin OneProcess
    <3>1. gone = {p}
      BY <2>3 DEF gone
    <3>2. hand' = [hand EXCEPT ![p] = NoConn] /\ taken' = taken \ {hand[p]}
      <4>1. hand' = [q \in Procs |-> IF q = p THEN NoConn ELSE hand[q]]
        BY <1>2, <3>1
      <4>. QED BY <1>1, <1>2, <2>3, <4>1 DEF TypeOK
    <3>3. design # "serv08"
      BY <2>3 DEF OneProcess, Prefork, Programs
    <3>4. OnePlace(hand, down, queue, clifd, taken)
      BY <1>1, <3>3 DEF Once
    <3>5. OnePlace([hand EXCEPT ![p] = NoConn], down, queue, clifd, taken \ {hand[p]})
      BY <1>1, <3>4, PlaceClosed DEF TypeOK
    <3>. QED BY <2>1, <3>2, <3>5
  <2>. QED BY <2>2, <2>3
<1>10. Queued'
  <2>1. Fresh(b, peer, taken')
    BY <1>5, FreshClosed
  <2>. QED BY <2>1 DEF Queued
<1>11. design = "serv05" => gone = {p} /\ pc'[p] = "dead"
  <2>1. design = "serv05" => gone = {p}
    BY DEF gone, OneProcess, Prefork
  <2>. QED BY <1>4, <2>1
<1>12. Children'
  <2> SUFFICES ASSUME design = "serv05", NEW w \in Workers
               PROVE  ChildOK(pc'[w], status[w], down[w], up'[w])
    BY <1>2 DEF Children
  <2>1. CASE w = p
    BY <1>11, <2>1 DEF ChildOK
  <2>2. CASE w # p
    BY <1>1, <1>4, <1>11, <2>2 DEF Children
  <2>. QED BY <2>1, <2>2
<1>13. pc'[0] = pc[0] \/ pc'[0] = "dead"
  BY <1>4
<1>14. Parent'
  BY <1>1, <1>2, <1>13, ParentKept
<1>15. Counted'
  BY <1>2, <1>11 DEF Counted
<1>16. Unused'
  BY <1>1, <1>2, UnusedKept
<1>. QED BY <1>6, <1>7, <1>8, <1>9, <1>10, <1>12, <1>14, <1>15, <1>16 DEF IInv

\* A process dies, and that is all.
LEMMA DieAlone ==
  ASSUME IInv, NEW p \in Procs, alive(p), Die(p), UNCHANGED <<fails, kernel, ring, pipes>>
  PROVE  IInv'
<1>1. /\ backlog \in Seq(Conns) /\ fails \in 0..MaxFails /\ up \in [Workers -> 0..MsgBytes]
      /\ Fresh(backlog, peer, taken)
  BY DEF IInv, TypeOK, Queued
<1>2. backlog' = backlog /\ fails' = fails /\ up' = up
  BY DEF kernel, pipes
<1>3. UNCHANGED <<peer, clifd, iget, iput, status, navail, rset05, down>>
  BY DEF kernel, ring, pipes
<1>. QED BY <1>1, <1>2, <1>3, DieStep

\* The ends that only one design knows, and those by a signal.
LEMMA EndSteps ==
  ASSUME IInv,
         \/ ChildTerminated \/ PutOverflows \/ ParentExits \/ sig_int
         \/ \E w \in Workers : ReadFdEof(w) \/ Sigterm(w)
  PROVE  IInv'
<1> USE Numbers
<1>1. CASE ChildTerminated \/ PutOverflows \/ ParentExits \/ sig_int
  <2>1. alive(0) /\ Die(0) /\ UNCHANGED <<fails, kernel, ring, pipes>>
    BY <1>1 DEF ChildTerminated, PutOverflows, ParentExits, sig_int, alive
  <2>. QED BY <2>1, DieAlone
<1>2. ASSUME NEW w \in Workers, ReadFdEof(w) \/ Sigterm(w) PROVE IInv'
  <2>1. alive(w) /\ Die(w) /\ UNCHANGED <<fails, kernel, ring, pipes>>
    BY <1>2 DEF ReadFdEof, Sigterm, alive
  <2>. QED BY <2>1, DieAlone
<1>. QED BY <1>1, <1>2

\* accept() fails for want of a resource.
LEMMA AcceptFailsStep ==
  ASSUME IInv, NEW p \in Procs, AcceptFails(p)
  PROVE  IInv'
<1>1. /\ backlog \in Seq(Conns) /\ fails \in 0..MaxFails /\ up \in [Workers -> 0..MsgBytes]
      /\ Fresh(backlog, peer, taken)
  BY DEF IInv, TypeOK, Queued
<1>2. fails' = fails + 1 /\ fails + 1 \in 0..MaxFails
  BY <1>1, DesignsAssumption DEF AcceptFails
<1>3. /\ UNCHANGED <<peer, clifd, iget, iput, status, navail, rset05, down>>
      /\ backlog' = backlog /\ up' = up /\ alive(p) /\ Die(p)
  BY DEF AcceptFails, kernel, ring, pipes, alive
<1>. QED BY <1>1, <1>2, <1>3, DieStep

\* accept() meets a connection that was reset: only serv01 ends.
LEMMA AcceptAbortedStep ==
  ASSUME IInv, NEW p \in Procs, AcceptAborted(p)
  PROVE  IInv'
<1>1. /\ backlog \in Seq(Conns) /\ fails \in 0..MaxFails /\ up \in [Workers -> 0..MsgBytes]
      /\ Fresh(backlog, peer, taken) /\ peer \in [Conns -> ClientStates] /\ taken \in SUBSET Conns
  BY DEF IInv, TypeOK, Queued
<1>2. backlog # <<>> /\ backlog' = Tail(backlog) /\ peer' = peer /\ fails' = fails /\ alive(p)
  BY DEF AcceptAborted, alive
<1>3. Tail(backlog) \in Seq(Conns) /\ Fresh(Tail(backlog), peer, taken)
  BY <1>1, <1>2, FreshAccept
<1>4. CASE design = "serv01"
  <2>1. /\ UNCHANGED <<peer, clifd, iget, iput, status, navail, rset05, down>>
        /\ up' = up /\ Die(p)
    BY <1>4 DEF AcceptAborted, ring, pipes
  <2>. QED BY <1>1, <1>2, <1>3, <2>1, DieStep
<1>5. CASE design # "serv01"
  <2>1. UNCHANGED <<rest, pc, hand, lock, taken, ring, pipes>>
    BY <1>5 DEF AcceptAborted, rest
  <2>. QED BY <1>1, <1>2, <1>3, <2>1, KernelStep
<1>. QED BY <1>4, <1>5

\* web_child() quits, and a child of serv05 says so in its pipe.
LEMMA WebChildQuitsStep ==
  ASSUME IInv, NEW p \in Procs, WebChildQuits(p)
  PROVE  IInv'
<1>1. /\ backlog \in Seq(Conns) /\ fails \in 0..MaxFails /\ up \in [Workers -> 0..MsgBytes]
      /\ Fresh(backlog, peer, taken)
  BY DEF IInv, TypeOK, Queued
<1>2. /\ UNCHANGED <<peer, clifd, iget, iput, status, navail, rset05, down>>
      /\ backlog' = backlog /\ fails' = fails /\ alive(p) /\ Die(p) /\ up' = err_doit(p)
      /\ pc[p] = "serve"
  BY DEF WebChildQuits, kernel, ring, alive
<1>3. err_doit(p) \in [Workers -> 0..MsgBytes] /\ \A w \in Workers : w # p => err_doit(p)[w] = up[w]
  <2>1. CASE design = "serv05" /\ p # 0 /\ ~hungUp(p)
    <3>1. p \in Workers
      BY <2>1, Numbers
    <3>2. up[p] = 0
      BY <1>2, <2>1, <3>1 DEF IInv, Children, ChildOK
    <3>3. up[p] + MsgBytes \in 0..MsgBytes
      BY <3>2, DesignsAssumption
    <3>4. err_doit(p) = [up EXCEPT ![p] = up[p] + MsgBytes]
      BY <2>1 DEF err_doit
    <3>. QED BY <1>1, <3>1, <3>3, <3>4
  <2>2. CASE ~(design = "serv05" /\ p # 0 /\ ~hungUp(p))
    BY <1>1, <2>2 DEF err_doit
  <2>. QED BY <2>1, <2>2
<1>. QED BY <1>1, <1>2, <1>3, DieStep

-----------------------------------------------------------------------------
(* Steps that end nobody *)

\* What follows accept() holds the connection, and what follows web_child() does not.
LEMMA ProgramOf ==
  ASSUME design \in DOMAIN Programs, NEW p \in Procs
  PROVE  /\ Belongs(design, p, "accept") =>
              /\ program(p).accepted \in Statements \cap Holding
              /\ Belongs(design, p, program(p).accepted)
              /\ program(p).accepted = "pass" => p = 0
              /\ program(p).accepted \notin {"accept", "collect"}
              /\ design = "serv05" => p = 0 /\ program(p).accepted = "pass"
         /\ Belongs(design, p, "serve") =>
              /\ program(p).served \in Statements \ (Holding \cup {"wait", "dead", "collect"})
              /\ Belongs(design, p, program(p).served)
              /\ design = "serv05" => p # 0 /\ program(p).served = "notify"
<1> USE DEF program, Programs, loop, noWorker, Holding, Statements, Belongs, Prefork
<1>1. CASE design = "serv00" BY <1>1 DEF serv00
<1>2. CASE design = "serv01" BY <1>2 DEF serv01, child01
<1>3. CASE design = "serv02" BY <1>3 DEF serv02, child02
<1>4. CASE design = "serv03" BY <1>4 DEF serv03, child03
<1>5. CASE design = "serv04" BY <1>5 DEF serv04, child04
<1>6. CASE design = "serv05" BY <1>6 DEF serv05, child05
<1>7. CASE design = "serv06" BY <1>7 DEF serv06, doit06
<1>8. CASE design = "serv07" BY <1>8 DEF serv07, thread07
<1>9. CASE design = "serv08" BY <1>9 DEF serv08, thread08
<1>10. CASE design = "serv09" BY <1>10 DEF serv09, thread09
<1>. QED BY <1>1, <1>2, <1>3, <1>4, <1>5, <1>6, <1>7, <1>8, <1>9, <1>10

\* accept() returns a connection.
LEMMA AcceptStep ==
  ASSUME IInv, NEW p \in Procs, Accept(p)
  PROVE  IInv'
<1> DEFINE c == Head(backlog)
           dest == program(p).accepted
<1> USE Numbers
<1>1. TypeOK /\ Where /\ Hands /\ Once /\ Queued /\ Children /\ Parent /\ Counted /\ Unused
  BY DEF IInv
<1>2. /\ pc[p] = "accept" /\ backlog # <<>> /\ backlog' = Tail(backlog)
      /\ hand' = [hand EXCEPT ![p] = c] /\ taken' = taken \cup {c} /\ Move(p, dest)
      /\ UNCHANGED <<design, sigchld, fails, lock, peer, ring, pipes>>
  BY DEF Accept, rest
<1>3. /\ c \in Conns /\ c \notin taken /\ Tail(backlog) \in Seq(Conns)
      /\ Fresh(Tail(backlog), peer, taken \cup {c})
  BY <1>1, <1>2, FreshAccept DEF TypeOK, Queued
<1>4. Belongs(design, p, "accept")
  BY <1>1, <1>2 DEF Where
<1>5. /\ dest \in Statements \cap Holding /\ Belongs(design, p, dest) /\ dest \notin {"accept", "collect"}
      /\ design = "serv05" => p = 0 /\ dest = "pass"
  BY <1>1, <1>4, ProgramOf DEF TypeOK
<1>6. hand[p] = NoConn
  BY <1>1, <1>2 DEF Hands, HandOK, Holding
<1> HIDE DEF c, dest
<1>7. /\ pc' \in [Procs -> Statements] /\ Where' /\ pc'[p] = dest
      /\ \A q \in Procs : q # p => pc'[q] = pc[q]
  BY <1>1, <1>2, <1>5, Moved
<1>8. TypeOK'
  <2>1. hand' \in [Procs -> Conns \cup {NoConn}] /\ taken' \subseteq Conns /\ backlog' \in Seq(Conns)
    BY <1>1, <1>2, <1>3 DEF TypeOK
  <2>. QED BY <1>1, <1>2, <1>7, <2>1 DEF TypeOK, ring, pipes
<1>9. Hands'
  <2>1. hand'[p] = c /\ \A q \in Procs : q # p => hand'[q] = hand[q]
    BY <1>1, <1>2 DEF TypeOK
  <2>2. HandOK(pc'[p], hand'[p])
    BY <1>3, <1>5, <1>7, <2>1 DEF HandOK
  <2>. QED BY <1>1, <1>7, <2>1, <2>2, HandsMoved
<1>10. Once'
  <2> SUFFICES ASSUME ~(design' = "serv08" /\ pc'[0] = "dead")
               PROVE  OnePlace(hand', down', queue', clifd', taken')
    BY DEF Once
  <2>1. queue' = queue
    BY <1>2 DEF queue, ring
  <2>2. OnePlace(hand, down, queue, clifd, taken)
    BY <1>1, <1>2, <1>7 DEF Once
  <2>3. OnePlace([hand EXCEPT ![p] = c], down, queue, clifd, taken \cup {c})
    BY <1>1, <1>3, <1>6, <2>2, PlaceNew DEF TypeOK
  <2>. QED BY <1>2, <2>1, <2>3 DEF ring, pipes
<1>11. Queued'
  BY <1>2, <1>3 DEF Queued
<1>12. Children'
  BY <1>1, <1>2, <1>5, <1>7, ChildrenKept DEF pipes
<1>13. Parent'
  <2>1. design = "serv05" => pc[0] \in {"accept", "pass"}
    BY <1>2, <1>5
  <2>2. pc'[0] = "collect" => pc[0] = "collect"
    BY <1>5, <1>7
  <2>. QED BY <1>1, <1>2, <2>1, <2>2, ParentKept DEF pipes
<1>14. Counted'
  <2>1. pc[0] \in {"dead", "wait"} => pc'[0] \in {"dead", "wait"}
    BY <1>2, <1>7
  <2>2. \A w \in Workers : pc[w] = "dead" => pc'[w] = "dead"
    BY <1>2, <1>7
  <2>. QED BY <1>1, <1>2, <2>1, <2>2, CountedKept DEF pipes
<1>15. Unused'
  BY <1>1, <1>2, UnusedKept DEF pipes, ring
<1>. QED BY <1>7, <1>8, <1>9, <1>10, <1>11, <1>12, <1>13, <1>14, <1>15 DEF IInv

\* web_child() returns and the connection is closed.
LEMMA WebChildReturnsStep ==
  ASSUME IInv, NEW p \in Procs, WebChildReturns(p)
  PROVE  IInv'
<1> DEFINE dest == program(p).served
<1> USE Numbers
<1>1. TypeOK /\ Where /\ Hands /\ Once /\ Queued /\ Children /\ Parent /\ Counted /\ Unused
  BY DEF IInv
<1>2. /\ pc[p] = "serve" /\ hand' = [hand EXCEPT ![p] = NoConn] /\ taken' = taken \ {hand[p]}
      /\ Move(p, dest) /\ UNCHANGED <<design, fails, lock, kernel, ring, pipes>>
  BY DEF WebChildReturns
<1>3. sigchld' \in BOOLEAN
  BY DEF WebChildReturns
<1>4. Belongs(design, p, "serve")
  BY <1>1, <1>2 DEF Where
<1>5. /\ dest \in Statements \ (Holding \cup {"wait", "dead", "collect"}) /\ Belongs(design, p, dest)
      /\ design = "serv05" => p # 0 /\ dest = "notify"
  BY <1>1, <1>4, ProgramOf DEF TypeOK
<1> HIDE DEF dest
<1>6. /\ pc' \in [Procs -> Statements] /\ Where' /\ pc'[p] = dest
      /\ \A q \in Procs : q # p => pc'[q] = pc[q]
  BY <1>1, <1>2, <1>5, Moved
<1>7. TypeOK'
  <2>1. hand' \in [Procs -> Conns \cup {NoConn}] /\ taken' \subseteq Conns
    BY <1>1, <1>2 DEF TypeOK
  <2>. QED BY <1>1, <1>2, <1>3, <1>6, <2>1 DEF TypeOK, ring, pipes, kernel
<1>8. Hands'
  <2>1. hand'[p] = NoConn /\ \A q \in Procs : q # p => hand'[q] = hand[q]
    BY <1>1, <1>2 DEF TypeOK
  <2>2. HandOK(pc'[p], hand'[p])
    BY <1>5, <1>6, <2>1 DEF HandOK
  <2>. QED BY <1>1, <1>6, <2>1, <2>2, HandsMoved
<1>9. Once'
  <2> SUFFICES ASSUME ~(design' = "serv08" /\ pc'[0] = "dead")
               PROVE  OnePlace(hand', down', queue', clifd', taken')
    BY DEF Once
  <2>1. queue' = queue
    BY <1>2 DEF queue, ring
  <2>2. OnePlace(hand, down, queue, clifd, taken)
    BY <1>1, <1>2, <1>6 DEF Once
  <2>3. OnePlace([hand EXCEPT ![p] = NoConn], down, queue, clifd, taken \ {hand[p]})
    BY <1>1, <2>2, PlaceClosed DEF TypeOK
  <2>. QED BY <1>2, <2>1, <2>3 DEF ring, pipes
<1>10. Queued'
  BY <1>1, <1>2, QueuedKept DEF kernel
<1>11. Children'
  <2> SUFFICES ASSUME design = "serv05", NEW w \in Workers
               PROVE  ChildOK(pc'[w], status[w], down[w], up[w])
    BY <1>2 DEF Children, pipes
  <2>1. ChildOK(pc[w], status[w], down[w], up[w])
    BY <1>1 DEF Children
  <2>2. CASE w = p
    BY <1>2, <1>5, <1>6, <2>1, <2>2 DEF ChildOK
  <2>3. CASE w # p
    BY <1>6, <2>1, <2>3
  <2>. QED BY <2>2, <2>3
<1>12. Parent'
  <2>1. design = "serv05" => pc'[0] = pc[0]
    BY <1>5, <1>6
  <2>2. pc'[0] = "collect" => pc[0] = "collect"
    BY <1>5, <1>6
  <2>. QED BY <1>1, <1>2, <2>1, <2>2, ParentKept DEF pipes
<1>13. Counted'
  <2>1. pc[0] \in {"dead", "wait"} => pc'[0] \in {"dead", "wait"}
    BY <1>2, <1>6
  <2>2. \A w \in Workers : pc[w] = "dead" => pc'[w] = "dead"
    BY <1>2, <1>6
  <2>. QED BY <1>1, <1>2, <2>1, <2>2, CountedKept DEF pipes
<1>14. Unused'
  BY <1>1, <1>2, UnusedKept DEF pipes, ring
<1>. QED BY <1>6, <1>7, <1>8, <1>9, <1>10, <1>11, <1>12, <1>13, <1>14 DEF IInv

\* A process moves on, its hand, the pipes and the ring as they were: taking and
\* giving back the lock, waiting for work, and the signal that ends serv02 to serv05.
LEMMA MoveStep ==
  ASSUME IInv, NEW p \in Procs, NEW dest \in Statements, Move(p, dest), Belongs(design, p, dest),
         UNCHANGED <<rest, hand, kernel, taken, ring, pipes>>, lock' \in Procs,
         HandOK(dest, hand[p]), pc[p] # "dead", pc[p] = "wait" => dest = "wait",
         p = 0 => dest = "wait",
         p # 0 => design # "serv05" /\ pc[p] # "wait"
  PROVE  IInv'
<1> USE Numbers
<1>1. TypeOK /\ Where /\ Hands /\ Once /\ Queued /\ Children /\ Parent /\ Counted /\ Unused
  BY DEF IInv
<1>2. /\ pc' \in [Procs -> Statements] /\ Where' /\ pc'[p] = dest
      /\ \A q \in Procs : q # p => pc'[q] = pc[q]
  BY <1>1, Moved DEF rest
<1>3. TypeOK'
  BY <1>1, <1>2 DEF TypeOK, rest, ring, pipes, kernel
<1>4. Hands'
  BY <1>1, <1>2, HandsMoved
<1>5. Once'
  BY <1>1, <1>2, OnceKept DEF rest, pipes
<1>6. Queued'
  BY <1>1, QueuedKept DEF kernel
<1>7. Children'
  BY <1>1, <1>2, ChildrenKept DEF rest, pipes
<1>8. Parent'
  BY <1>1, <1>2, ParentKept DEF rest, pipes
<1>9. Counted'
  <2>1. pc[0] \in {"dead", "wait"} => pc'[0] \in {"dead", "wait"}
    BY <1>2
  <2>2. \A w \in Workers : pc[w] = "dead" => pc'[w] = "dead"
    BY <1>2
  <2>. QED BY <1>1, <2>1, <2>2, CountedKept DEF rest, pipes
<1>10. Unused'
  BY <1>1, UnusedKept DEF rest, pipes, ring
<1>. QED BY <1>2, <1>3, <1>4, <1>5, <1>6, <1>7, <1>8, <1>9, <1>10 DEF IInv

\* The lock around accept(), pthread_cond_wait() and SIGINT of a preforking parent.
LEMMA MoveSteps ==
  ASSUME IInv,
         \/ sig_int_prefork
         \/ \E p \in Procs : my_lock_wait(p) \/ my_lock_release(p)
         \/ \E w \in Workers : CondWait(w)
  PROVE  IInv'
<1> USE Numbers
<1>1. TypeOK /\ Where /\ Hands
  BY DEF IInv
<1>2. CASE sig_int_prefork
  <2>1. /\ Move(0, "wait") /\ UNCHANGED <<rest, hand, kernel, taken, ring, pipes>> /\ lock' = lock
        /\ pc[0] # "dead" /\ pc[0] # "wait" /\ design \in Prefork
    BY <1>2 DEF sig_int_prefork, alive
  <2>2. Belongs(design, 0, "wait") /\ "wait" \in Statements
    BY <2>1 DEF Belongs, Statements
  <2>3. HandOK("wait", hand[0])
    BY DEF HandOK, Holding
  <2>4. lock' \in Procs
    BY <1>1, <2>1 DEF TypeOK
  <2>. QED BY <2>1, <2>2, <2>3, <2>4, MoveStep
<1>3. ASSUME NEW p \in Procs, my_lock_wait(p) PROVE IInv'
  <2>1. /\ Move(p, "accept") /\ UNCHANGED <<rest, hand, kernel, taken, ring, pipes>> /\ lock' = p
        /\ pc[p] = "lock"
    BY <1>3 DEF my_lock_wait
  <2>2. p # 0 /\ design \in {"serv03", "serv04", "serv07"}
    BY <1>1, <2>1 DEF Where, Belongs
  <2>3. Belongs(design, p, "accept") /\ "accept" \in Statements
    BY <2>2 DEF Belongs, Statements
  <2>4. HandOK("accept", hand[p])
    BY <1>1, <2>1 DEF Hands, HandOK, Holding
  <2>. QED BY <2>1, <2>2, <2>3, <2>4, MoveStep
<1>4. ASSUME NEW p \in Procs, my_lock_release(p) PROVE IInv'
  <2>1. /\ Move(p, "serve") /\ UNCHANGED <<rest, hand, kernel, taken, ring, pipes>> /\ lock' = 0
        /\ pc[p] = "unlock"
    BY <1>4 DEF my_lock_release
  <2>2. p # 0 /\ design \in {"serv03", "serv04", "serv07"}
    BY <1>1, <2>1 DEF Where, Belongs
  <2>3. Belongs(design, p, "serve") /\ "serve" \in Statements
    BY <2>2 DEF Belongs, Statements
  <2>4. HandOK("serve", hand[p])
    BY <1>1, <2>1 DEF Hands, HandOK, Holding
  <2>. QED BY <2>1, <2>2, <2>3, <2>4, MoveStep
<1>5. ASSUME NEW w \in Workers, CondWait(w) PROVE IInv'
  <2>1. /\ Move(w, "waiting") /\ UNCHANGED <<rest, hand, kernel, taken, ring, pipes>> /\ lock' = lock
        /\ pc[w] = "get"
    BY <1>5 DEF CondWait
  <2>2. w # 0 /\ design = "serv08"
    BY <1>1, <2>1 DEF Where, Belongs
  <2>3. Belongs(design, w, "waiting") /\ "waiting" \in Statements
    BY <2>2 DEF Belongs, Statements
  <2>4. HandOK("waiting", hand[w])
    BY <1>1, <2>1 DEF Hands, HandOK, Holding
  <2>5. lock' \in Procs
    BY <1>1, <2>1 DEF TypeOK
  <2>. QED BY <2>1, <2>2, <2>3, <2>4, <2>5, MoveStep
<1>. QED BY <1>2, <1>3, <1>4, <1>5

\* fork() or pthread_create() of a worker for the connection.
LEMMA SpawnStep ==
  ASSUME IInv, NEW stmt \in {"fork", "create"}, Spawn(stmt)
  PROVE  IInv'
<1> USE Numbers
<1>1. TypeOK /\ Where /\ Hands /\ Once /\ Queued /\ Children /\ Parent /\ Counted /\ Unused
  BY DEF IInv
<1>2. PICK w \in Workers : /\ pc[w] = "none" /\ pc' = [pc EXCEPT ![0] = "accept", ![w] = "serve"]
                           /\ hand' = [hand EXCEPT ![0] = NoConn, ![w] = hand[0]]
  BY DEF Spawn
<1>3. pc[0] = stmt /\ UNCHANGED <<design, sigchld, fails, lock, kernel, taken, ring, pipes>>
  BY DEF Spawn, rest
<1>4. design \in {"serv01", "serv06"} /\ w # 0 /\ w \in Procs
  BY <1>1, <1>3 DEF Where, Belongs
<1>5. /\ pc' \in [Procs -> Statements] /\ pc'[0] = "accept" /\ pc'[w] = "serve"
      /\ \A q \in Procs : q # 0 /\ q # w => pc'[q] = pc[q]
  BY <1>1, <1>2, <1>4 DEF TypeOK, Statements
<1>6. hand[w] = NoConn /\ hand[0] \in Conns
  BY <1>1, <1>2, <1>3, <1>4 DEF Hands, HandOK, Holding
<1>7. /\ hand' \in [Procs -> Conns \cup {NoConn}] /\ hand'[0] = NoConn /\ hand'[w] = hand[0]
      /\ \A q \in Procs : q # 0 /\ q # w => hand'[q] = hand[q]
  BY <1>1, <1>2, <1>4, <1>6 DEF TypeOK
<1>8. TypeOK'
  BY <1>1, <1>3, <1>5, <1>7 DEF TypeOK, ring, pipes, kernel
<1>9. Where'
  <2>1. Belongs(design, 0, "accept") /\ Belongs(design, w, "serve")
    BY <1>4 DEF Belongs
  <2>2. \A q \in Procs : Belongs(design, q, pc'[q])
    BY <1>1, <1>5, <2>1 DEF Where
  <2>. QED BY <1>3, <2>2 DEF Where
<1>10. Hands'
  <2>1. HandOK(pc'[0], hand'[0]) /\ HandOK(pc'[w], hand'[w])
    BY <1>5, <1>6, <1>7 DEF HandOK, Holding
  <2>2. \A q \in Procs : HandOK(pc'[q], hand'[q])
    BY <1>1, <1>5, <1>7, <2>1 DEF Hands
  <2>. QED BY <2>2 DEF Hands
<1>11. Once'
  <2>1. queue' = queue
    BY <1>3 DEF queue, ring
  <2>2. OnePlace(hand, down, queue, clifd, taken)
    BY <1>1, <1>4 DEF Once
  <2>3. OnePlace([hand EXCEPT ![0] = NoConn, ![w] = hand[0]], down, queue, clifd, taken)
    BY <1>1, <1>6, <2>2, PlaceHanded DEF TypeOK
  <2>. QED BY <1>2, <1>3, <2>1, <2>3 DEF Once, ring, pipes
<1>12. Queued'
  BY <1>1, <1>3, QueuedKept DEF kernel
<1>13. Children' /\ Parent' /\ Counted'
  BY <1>3, <1>4, <1>5 DEF Children, Parent, Counted
<1>14. Unused'
  BY <1>1, <1>3, UnusedKept DEF pipes, ring
<1>. QED BY <1>8, <1>9, <1>10, <1>11, <1>12, <1>13, <1>14 DEF IInv

\* sig_chld() waits for every child that has ended.
LEMMA SigChldStep == IInv /\ sig_chld => IInv'
<1> SUFFICES ASSUME IInv, sig_chld PROVE IInv'
  OBVIOUS
<1> USE Numbers
<1>1. TypeOK /\ Where /\ Hands /\ Once /\ Queued /\ Children /\ Parent /\ Counted /\ Unused
  BY DEF IInv
<1>2. /\ pc' = [w \in Procs |-> IF reap(w) THEN "none" ELSE pc[w]] /\ sigchld' = FALSE
      /\ UNCHANGED <<design, fails, hand, lock, kernel, taken, ring, pipes>>
  BY DEF sig_chld
<1>3. \A q \in Procs : pc'[q] = IF q \in Workers /\ pc[q] = "zombie" THEN "none" ELSE pc[q]
  BY <1>2 DEF reap, zombies
<1>4. pc' \in [Procs -> Statements]
  <2>1. \A q \in Procs : pc'[q] \in Statements
    BY <1>1, <1>3 DEF TypeOK, Statements
  <2>. QED BY <1>2, <2>1
<1>5. TypeOK'
  <2>1. sigchld' \in BOOLEAN
    BY <1>2
  <2>. QED BY <1>1, <1>2, <1>4, <2>1 DEF TypeOK, ring, pipes, kernel
<1>6. Where'
  <2>1. \A q \in Procs : Belongs(design, q, pc'[q])
    <3> SUFFICES ASSUME NEW q \in Procs PROVE Belongs(design, q, pc'[q])
      OBVIOUS
    <3>1. CASE q \in Workers /\ pc[q] = "zombie"
      <4>1. design = "serv01" /\ q # 0 /\ pc'[q] = "none"
        BY <1>1, <1>3, <3>1 DEF Where, Belongs
      <4>. QED BY <4>1 DEF Belongs
    <3>2. CASE ~(q \in Workers /\ pc[q] = "zombie")
      BY <1>1, <1>3, <3>2 DEF Where
    <3>. QED BY <3>1, <3>2
  <2>. QED BY <1>2, <2>1 DEF Where
<1>7. Hands'
  <2>1. \A q \in Procs : HandOK(pc'[q], hand[q])
    BY <1>1, <1>3 DEF Hands, HandOK, Holding
  <2>. QED BY <1>2, <2>1 DEF Hands
<1>8. Once'
  BY <1>1, <1>2, <1>3, OnceKept DEF pipes
<1>9. Queued'
  BY <1>1, <1>2, QueuedKept DEF kernel
<1>10. Children'
  <2>1. design = "serv05" => \A w \in Workers : pc[w] # "zombie"
    BY <1>1 DEF Where, Belongs
  <2>. QED BY <1>1, <1>2, <1>3, <2>1, ChildrenKept DEF pipes
<1>11. Parent'
  BY <1>1, <1>2, <1>3, ParentKept DEF pipes
<1>12. Counted'
  BY <1>1, <1>2, <1>3, CountedKept DEF pipes
<1>13. Unused'
  BY <1>1, <1>2, UnusedKept DEF pipes, ring
<1>. QED BY <1>5, <1>6, <1>7, <1>8, <1>9, <1>10, <1>11, <1>12, <1>13 DEF IInv

-----------------------------------------------------------------------------
(* serv05 *)

\* select() reports connections only while a child is available.
LEMMA SelectStep == IInv /\ Select05 => IInv'
<1> SUFFICES ASSUME IInv, Select05 PROVE IInv'
  OBVIOUS
<1> USE Numbers
<1>1. TypeOK /\ Where /\ Hands /\ Once /\ Queued /\ Children /\ Parent /\ Counted /\ Unused
  BY DEF IInv
<1>2. /\ pc[0] = "select" /\ readable # {} /\ rset05' = readable /\ Move(0, afterReady(readable))
      /\ UNCHANGED <<rest, hand, lock, kernel, taken, ring, status, navail, down, up>>
  BY DEF Select05
<1>3. readable \subseteq Procs /\ (0 \in readable => navail > 0)
  BY <1>1 DEF readable
<1>4. /\ afterReady(readable) = IF 0 \in readable THEN "accept" ELSE "collect"
      /\ afterReady(readable) \in Statements
  BY <1>2 DEF afterReady, Statements
<1>5. design = "serv05"
  BY <1>1, <1>2 DEF Where, Belongs
<1>6. Belongs(design, 0, afterReady(readable))
  BY <1>4, <1>5 DEF Belongs
<1>7. /\ pc' \in [Procs -> Statements] /\ Where' /\ pc'[0] = afterReady(readable)
      /\ \A q \in Procs : q # 0 => pc'[q] = pc[q]
  BY <1>1, <1>2, <1>4, <1>6, Moved DEF rest
<1>8. TypeOK'
  BY <1>1, <1>2, <1>3, <1>7 DEF TypeOK, rest, ring, kernel
<1>9. Hands'
  <2>1. HandOK(pc'[0], hand'[0])
    BY <1>1, <1>2, <1>4, <1>7 DEF Hands, HandOK, Holding
  <2>. QED BY <1>1, <1>2, <1>7, <2>1, HandsMoved
<1>10. Once'
  BY <1>1, <1>2, OnceKept DEF rest
<1>11. Queued'
  BY <1>1, <1>2, QueuedKept DEF kernel
<1>12. Children'
  BY <1>1, <1>2, <1>7, ChildrenKept DEF rest
<1>13. Parent'
  BY <1>2, <1>3, <1>4, <1>7 DEF Parent
<1>14. Counted'
  BY <1>1, <1>2, <1>7, CountedKept DEF rest
<1>15. Unused'
  BY <1>1, <1>2, UnusedKept DEF rest, ring
<1>. QED BY <1>7, <1>8, <1>9, <1>10, <1>11, <1>12, <1>13, <1>14, <1>15 DEF IInv

\* The parent passes its connection on, or ends.
LEMMA PassFdStep == IInv /\ PassFd => IInv'
<1> SUFFICES ASSUME IInv, PassFd PROVE IInv'
  OBVIOUS
<1> USE Numbers
<1>1. TypeOK /\ Where /\ Hands /\ Once /\ Queued /\ Children /\ Parent /\ Counted /\ Unused
  BY DEF IInv
<1>2. pc[0] = "pass" /\ design = "serv05"
  BY <1>1 DEF PassFd, Where, Belongs
<1>3. CASE idle = {} \/ ~alive(Min(idle))
  <2>1. alive(0) /\ Die(0) /\ UNCHANGED <<fails, kernel, ring, pipes>>
    BY <1>2, <1>3 DEF PassFd, alive
  <2>. QED BY <2>1, DieAlone
<1>4. CASE idle # {} /\ alive(Min(idle))
  <2> DEFINE w == Min(idle)
             dest == afterReady(rset05 \ {0})
  <2>1. w \in idle
    <3>1. idle \in SUBSET Nat
      BY DesignsAssumption DEF idle, Workers
    <3>. QED BY <1>4, <3>1, MinNat
  <2>2. /\ status' = [status EXCEPT ![w] = 1] /\ down' = [down EXCEPT ![w] = hand[0]]
        /\ navail' = navail - 1 /\ hand' = [hand EXCEPT ![0] = NoConn]
        /\ rset05' = rset05 \ {0} /\ Move(0, dest)
        /\ UNCHANGED <<design, sigchld, fails, lock, taken, up, kernel, ring>>
    BY <1>4 DEF PassFd, Write_fd, takeAvail, rest
  <2>3. w \in Workers /\ w \in Procs /\ status[w] = 0 /\ pc[w] # "dead"
    BY <1>4, <2>1 DEF idle, alive
  <2> HIDE DEF w
  <2>4. pc[w] = "read" /\ down[w] = NoConn /\ up[w] = 0
    BY <1>1, <1>2, <2>3 DEF Children, ChildOK
  <2>5. navail > 0 /\ navail \in Nat /\ hand[0] \in Conns
    BY <1>1, <1>2 DEF Parent, TypeOK, Hands, HandOK, Holding
  <2>6. dest = (IF rset05 \ {0} = {} THEN "select" ELSE "collect") /\ dest \in Statements
    BY DEF afterReady, Statements
  <2> HIDE DEF dest
  <2>7. Belongs(design, 0, dest)
    BY <1>2, <2>6 DEF Belongs
  <2>8. /\ pc' \in [Procs -> Statements] /\ Where' /\ pc'[0] = dest
        /\ \A q \in Procs : q # 0 => pc'[q] = pc[q]
    BY <1>1, <2>2, <2>6, <2>7, Moved
  <2>9. /\ hand' \in [Procs -> Conns \cup {NoConn}] /\ hand'[0] = NoConn
        /\ \A q \in Procs : q # 0 => hand'[q] = hand[q]
    BY <1>1, <2>2 DEF TypeOK
  <2>10. /\ status' \in [Workers -> 0..1] /\ down' \in [Workers -> Conns \cup {NoConn}]
         /\ \A v \in Workers : /\ status'[v] = IF v = w THEN 1 ELSE status[v]
                               /\ down'[v] = IF v = w THEN hand[0] ELSE down[v]
    BY <1>1, <2>2, <2>3, <2>5 DEF TypeOK
  <2>11. navail' \in Nat
    BY <2>2, <2>5
  <2>12. TypeOK'
    <3>1. rset05' \subseteq Procs
      BY <1>1, <2>2 DEF TypeOK
    <3>. QED BY <1>1, <2>2, <2>8, <2>9, <2>10, <2>11, <3>1 DEF TypeOK, ring, kernel
  <2>13. Hands'
    <3>1. HandOK(pc'[0], hand'[0])
      BY <2>6, <2>8, <2>9 DEF HandOK, Holding
    <3>. QED BY <1>1, <2>8, <2>9, <3>1, HandsMoved
  <2>14. Once'
    <3>1. queue' = queue
      BY <2>2 DEF queue, ring
    <3>2. OnePlace(hand, down, queue, clifd, taken)
      BY <1>1, <1>2 DEF Once
    <3>3. OnePlace([hand EXCEPT ![0] = NoConn], [down EXCEPT ![w] = hand[0]], queue, clifd, taken)
      BY <1>1, <2>3, <2>4, <3>2, PlacePassed DEF TypeOK
    <3>. QED BY <2>2, <3>1, <3>3 DEF Once, ring
  <2>15. Queued'
    BY <1>1, <2>2, QueuedKept DEF kernel
  <2>16. Children'
    <3> SUFFICES ASSUME NEW v \in Workers PROVE ChildOK(pc'[v], status'[v], down'[v], up[v])
      BY <2>2 DEF Children
    <3>1. CASE v = w
      BY <2>3, <2>4, <2>8, <2>10, <3>1 DEF ChildOK
    <3>2. CASE v # w
      BY <1>1, <1>2, <2>8, <2>10, <3>2 DEF Children
    <3>. QED BY <3>1, <3>2
  <2>17. Parent'
    BY <2>2, <2>6, <2>8 DEF Parent
  <2>18. Counted'
    <3> SUFFICES ASSUME \A v \in Workers : pc'[v] # "dead" PROVE navail' = Cardinality(idle')
      BY DEF Counted
    <3>1. \A v \in Workers : pc[v] # "dead"
      BY <2>8
    <3>2. navail = Cardinality(idle)
      BY <1>1, <1>2, <3>1 DEF Counted
    <3>3. idle' = idle \ {w}
      BY <2>10 DEF idle
    <3>4. IsFiniteSet(idle)
      <4>1. IsFiniteSet(1..N)
        BY DesignsAssumption, FS_Interval
      <4>2. idle \subseteq 1..N
        BY DEF idle, Workers
      <4>. QED BY <4>1, <4>2, FS_Subset
    <3>5. Cardinality(idle \ {w}) = Cardinality(idle) - 1
      BY <2>1, <3>4, FS_RemoveElement DEF w
    <3>. QED BY <2>2, <3>2, <3>3, <3>5
  <2>19. Unused'
    <3>1. queue' = queue
      BY <2>2 DEF queue, ring
    <3>. QED BY <1>1, <1>2, <2>2, <3>1 DEF Unused, ring
  <2>. QED BY <2>8, <2>12, <2>13, <2>14, <2>15, <2>16, <2>17, <2>18, <2>19 DEF IInv
<1>. QED BY <1>3, <1>4

\* The parent reads one byte of a child: it takes the child for available.
LEMMA CollectStep == IInv /\ Collect => IInv'
<1> SUFFICES ASSUME IInv, Collect PROVE IInv'
  OBVIOUS
<1> DEFINE w == Min(rset05)
           dest == afterReady(rset05 \ {w})
<1> USE Numbers
<1>1. TypeOK /\ Where /\ Hands /\ Once /\ Queued /\ Children /\ Parent /\ Counted /\ Unused
  BY DEF IInv
<1>2. /\ pc[0] = "collect" /\ up[w] > 0 /\ up' = [up EXCEPT ![w] = @ - 1]
      /\ status' = [status EXCEPT ![w] = 0] /\ rset05' = rset05 \ {w} /\ Move(0, dest)
      /\ navail' = navail + 1
      /\ UNCHANGED <<design, sigchld, fails, hand, lock, kernel, taken, ring, down>>
  BY DEF Collect, rest
<1>3. design = "serv05"
  BY <1>1, <1>2 DEF Where, Belongs
<1>4. rset05 \subseteq Procs /\ rset05 # {} /\ 0 \notin rset05
  BY <1>1, <1>2 DEF Parent, TypeOK
<1>5. w \in Workers
  <2>1. rset05 \in SUBSET Nat
    BY <1>4, DesignsAssumption DEF Procs
  <2>2. w \in rset05
    BY <1>4, <2>1, MinNat
  <2>. QED BY <1>4, <2>2
<1>6. dest = (IF rset05 \ {w} = {} THEN "select" ELSE "collect") /\ dest \in Statements
  BY <1>4 DEF afterReady, Statements
<1>7. Belongs(design, 0, dest)
  BY <1>3, <1>6 DEF Belongs
<1> HIDE DEF w, dest
<1>8. /\ pc' \in [Procs -> Statements] /\ Where' /\ pc'[0] = dest
      /\ \A q \in Procs : q # 0 => pc'[q] = pc[q]
  BY <1>1, <1>2, <1>6, <1>7, Moved
<1>9. up[w] \in 0..MsgBytes /\ up[w] - 1 \in 0..MsgBytes
  BY <1>1, <1>2, <1>5, DesignsAssumption DEF TypeOK
<1>10. /\ status' \in [Workers -> 0..1] /\ up' \in [Workers -> 0..MsgBytes]
       /\ status'[w] = 0 /\ up'[w] = up[w] - 1
       /\ \A v \in Workers : v # w => status'[v] = status[v] /\ up'[v] = up[v]
  BY <1>1, <1>2, <1>5, <1>9 DEF TypeOK
<1>11. TypeOK'
  <2>1. rset05' \subseteq Procs
    BY <1>2, <1>4
  <2>2. navail' \in Nat
    BY <1>1, <1>2 DEF TypeOK
  <2>. QED BY <1>1, <1>2, <1>8, <1>10, <2>1, <2>2 DEF TypeOK, ring, kernel
<1>12. Hands'
  <2>1. HandOK(pc'[0], hand'[0])
    BY <1>1, <1>2, <1>6, <1>8 DEF Hands, HandOK, Holding
  <2>. QED BY <1>1, <1>2, <1>8, <2>1, HandsMoved
<1>13. Once'
  BY <1>1, <1>2, OnceKept
<1>14. Queued'
  BY <1>1, <1>2, QueuedKept DEF kernel
<1>15. pc[w] # "dead" => pc[w] = "read" /\ down[w] = NoConn /\ up[w] = 1 /\ status[w] # 0
  <2>1. ChildOK(pc[w], status[w], down[w], up[w])
    BY <1>1, <1>3, <1>5 DEF Children
  <2>2. up[w] # 0
    BY <1>2
  <2>3. pc[w] # "dead" => up[w] = 1
    BY <1>2, <1>9, <2>1, DesignsAssumption DEF ChildOK
  <2>. QED BY <2>1, <2>2, <2>3 DEF ChildOK
<1>16. Children'
  <2> SUFFICES ASSUME NEW v \in Workers PROVE ChildOK(pc'[v], status'[v], down[v], up'[v])
    BY <1>2 DEF Children
  <2>1. CASE v = w
    BY <1>5, <1>8, <1>10, <1>15, <2>1 DEF ChildOK
  <2>2. CASE v # w
    BY <1>1, <1>3, <1>8, <1>10, <2>2 DEF Children
  <2>. QED BY <2>1, <2>2
<1>17. Parent'
  BY <1>2, <1>4, <1>6, <1>8 DEF Parent
<1>18. Counted'
  <2> SUFFICES ASSUME \A v \in Workers : pc'[v] # "dead" PROVE navail' = Cardinality(idle')
    BY DEF Counted
  <2>1. \A v \in Workers : pc[v] # "dead"
    BY <1>8
  <2>2. navail = Cardinality(idle)
    BY <1>1, <1>2, <1>3, <2>1 DEF Counted
  <2>3. idle' = idle \cup {w} /\ w \notin idle
    BY <1>5, <1>10, <1>15, <2>1 DEF idle
  <2>4. IsFiniteSet(idle)
    <3>1. IsFiniteSet(1..N)
      BY DesignsAssumption, FS_Interval
    <3>2. idle \subseteq 1..N
      BY DEF idle, Workers
    <3>. QED BY <3>1, <3>2, FS_Subset
  <2>5. Cardinality(idle \cup {w}) = Cardinality(idle) + 1
    BY <2>3, <2>4, FS_AddElement
  <2>. QED BY <1>2, <2>2, <2>3, <2>5
<1>19. Unused'
  BY <1>1, <1>2, UnusedKept DEF ring
<1>. QED BY <1>8, <1>11, <1>12, <1>13, <1>14, <1>16, <1>17, <1>18, <1>19 DEF IInv

\* A child receives a connection.
LEMMA ReadFdStep ==
  ASSUME IInv, NEW w \in Workers, ReadFd(w)
  PROVE  IInv'
<1> USE Numbers
<1>1. TypeOK /\ Where /\ Hands /\ Once /\ Queued /\ Children /\ Parent /\ Counted /\ Unused
  BY DEF IInv
<1>2. /\ pc[w] = "read" /\ down[w] # NoConn /\ Move(w, "serve")
      /\ hand' = [hand EXCEPT ![w] = down[w]] /\ down' = [down EXCEPT ![w] = NoConn]
      /\ UNCHANGED <<design, sigchld, fails, lock, kernel, taken, ring, status, navail, rset05, up>>
  BY DEF ReadFd, Read_fd, rest
<1>3. design = "serv05" /\ w # 0 /\ w \in Procs
  BY <1>1, <1>2 DEF Where, Belongs
<1>4. Belongs(design, w, "serve") /\ "serve" \in Statements
  BY <1>3 DEF Belongs, Statements
<1>5. /\ pc' \in [Procs -> Statements] /\ Where' /\ pc'[w] = "serve"
      /\ \A q \in Procs : q # w => pc'[q] = pc[q]
  BY <1>1, <1>2, <1>4, Moved
<1>6. hand[w] = NoConn /\ down[w] \in Conns
  BY <1>1, <1>2 DEF Hands, HandOK, Holding, TypeOK
<1>7. /\ hand' \in [Procs -> Conns \cup {NoConn}] /\ hand'[w] = down[w]
      /\ \A q \in Procs : q # w => hand'[q] = hand[q]
  BY <1>1, <1>2, <1>6 DEF TypeOK
<1>8. /\ down' \in [Workers -> Conns \cup {NoConn}] /\ down'[w] = NoConn
      /\ \A v \in Workers : v # w => down'[v] = down[v]
  BY <1>1, <1>2 DEF TypeOK
<1>9. TypeOK'
  BY <1>1, <1>2, <1>5, <1>7, <1>8 DEF TypeOK, ring, kernel
<1>10. Hands'
  <2>1. HandOK(pc'[w], hand'[w])
    BY <1>5, <1>6, <1>7 DEF HandOK, Holding
  <2>. QED BY <1>1, <1>5, <1>7, <2>1, HandsMoved
<1>11. Once'
  <2>1. queue' = queue
    BY <1>2 DEF queue, ring
  <2>2. OnePlace(hand, down, queue, clifd, taken)
    BY <1>1, <1>3 DEF Once
  <2>3. OnePlace([hand EXCEPT ![w] = down[w]], [down EXCEPT ![w] = NoConn], queue, clifd, taken)
    BY <1>1, <1>6, <2>2, PlaceReceived DEF TypeOK
  <2>. QED BY <1>2, <2>1, <2>3 DEF Once, ring
<1>12. Queued'
  BY <1>1, <1>2, QueuedKept DEF kernel
<1>13. Children'
  <2> SUFFICES ASSUME NEW v \in Workers PROVE ChildOK(pc'[v], status[v], down'[v], up[v])
    BY <1>2 DEF Children
  <2>1. ChildOK(pc[v], status[v], down[v], up[v])
    BY <1>1, <1>3 DEF Children
  <2>2. CASE v = w
    BY <1>2, <1>5, <1>8, <2>1, <2>2 DEF ChildOK
  <2>3. CASE v # w
    BY <1>5, <1>8, <2>1, <2>3
  <2>. QED BY <2>2, <2>3
<1>14. Parent'
  BY <1>1, <1>2, <1>3, <1>5, ParentKept
<1>15. Counted'
  BY <1>1, <1>2, <1>3, <1>5, CountedKept
<1>16. Unused'
  <2>1. queue' = queue
    BY <1>2 DEF queue, ring
  <2>. QED BY <1>1, <1>2, <1>3, <2>1 DEF Unused, ring
<1>. QED BY <1>5, <1>9, <1>10, <1>11, <1>12, <1>13, <1>14, <1>15, <1>16 DEF IInv

\* A child says that it is ready, or finds nobody left to say it to.
LEMMA NotifyStep ==
  ASSUME IInv, NEW w \in Workers, Notify(w)
  PROVE  IInv'
<1> USE Numbers
<1>1. TypeOK /\ Where /\ Hands /\ Once /\ Queued /\ Children /\ Parent /\ Counted /\ Unused
  BY DEF IInv
<1>2. CASE hungUp(w)
  <2>1. alive(w) /\ Die(w) /\ UNCHANGED <<fails, kernel, ring, pipes>>
    BY <1>2 DEF Notify, alive, pipes
  <2>. QED BY <2>1, DieAlone
<1>3. CASE ~hungUp(w)
  <2>1. /\ pc[w] = "notify" /\ up' = [up EXCEPT ![w] = @ + 1] /\ Move(w, "read")
        /\ UNCHANGED <<design, sigchld, hand, lock, taken, fails, kernel, ring, status, navail,
                       rset05, down>>
    BY <1>3 DEF Notify
  <2>2. design = "serv05" /\ w # 0 /\ w \in Procs
    BY <1>1, <2>1 DEF Where, Belongs
  <2>3. Belongs(design, w, "read") /\ "read" \in Statements
    BY <2>2 DEF Belongs, Statements
  <2>4. /\ pc' \in [Procs -> Statements] /\ Where' /\ pc'[w] = "read"
        /\ \A q \in Procs : q # w => pc'[q] = pc[q]
    BY <1>1, <2>1, <2>2, <2>3, Moved
  <2>5. up[w] = 0 /\ down[w] = NoConn /\ status[w] # 0
    BY <1>1, <2>1, <2>2 DEF Children, ChildOK
  <2>6. /\ up' \in [Workers -> 0..MsgBytes] /\ up'[w] = 1
        /\ \A v \in Workers : v # w => up'[v] = up[v]
    <3>1. up[w] + 1 = 1 /\ 1 \in 0..MsgBytes
      BY <2>5, DesignsAssumption
    <3>. QED BY <1>1, <2>1, <3>1 DEF TypeOK
  <2>7. TypeOK'
    BY <1>1, <2>1, <2>4, <2>6 DEF TypeOK, ring, kernel
  <2>8. Hands'
    <3>1. HandOK(pc'[w], hand'[w])
      BY <1>1, <2>1, <2>2, <2>4 DEF Hands, HandOK, Holding
    <3>. QED BY <1>1, <2>1, <2>2, <2>4, <3>1, HandsMoved
  <2>9. Once'
    BY <1>1, <2>1, <2>2, <2>4, OnceKept
  <2>10. Queued'
    BY <1>1, <2>1, QueuedKept DEF kernel
  <2>11. Children'
    <3> SUFFICES ASSUME NEW v \in Workers PROVE ChildOK(pc'[v], status[v], down[v], up'[v])
      BY <2>1 DEF Children
    <3>1. CASE v = w
      BY <2>4, <2>5, <2>6, <3>1 DEF ChildOK
    <3>2. CASE v # w
      BY <1>1, <2>2, <2>4, <2>6, <3>2 DEF Children
    <3>. QED BY <3>1, <3>2
  <2>12. Parent'
    BY <1>1, <2>1, <2>2, <2>4, ParentKept
  <2>13. Counted'
    BY <1>1, <2>1, <2>2, <2>4, CountedKept
  <2>14. Unused'
    BY <1>1, <2>1, UnusedKept DEF ring
  <2>. QED BY <2>4, <2>7, <2>8, <2>9, <2>10, <2>11, <2>12, <2>13, <2>14 DEF IInv
<1>. QED BY <1>2, <1>3

-----------------------------------------------------------------------------
(* serv08 *)

\* The main thread puts its connection into the ring and wakes a thread.
LEMMA PutStep == IInv /\ Put => IInv'
<1> SUFFICES ASSUME IInv, Put PROVE IInv'
  OBVIOUS
<1> USE Numbers
<1>1. TypeOK /\ Where /\ Hands /\ Once /\ Queued /\ Children /\ Parent /\ Counted /\ Unused
  BY DEF IInv
<1>2. /\ pc[0] = "put" /\ next(iput) # iget /\ clifd' = [clifd EXCEPT ![iput] = hand[0]]
      /\ iput' = next(iput) /\ hand' = [hand EXCEPT ![0] = NoConn]
      /\ UNCHANGED <<design, sigchld, fails, lock, kernel, taken, iget, pipes>>
  BY DEF Put, overflow, rest
<1>3. design = "serv08" /\ hand[0] \in Conns
  BY <1>1, <1>2 DEF Where, Belongs, Hands, HandOK, Holding
<1>4. /\ pc' \in [Procs -> Statements] /\ pc'[0] = "accept"
      /\ \A q \in Procs : q # 0 => \/ pc'[q] = pc[q]
                                   \/ pc[q] = "waiting" /\ pc'[q] = "get"
  <2>1. CASE Move(0, "accept")
    BY <1>1, <2>1 DEF Move, TypeOK, Statements
  <2>2. ASSUME NEW w \in Workers, pc[w] = "waiting", pc' = [pc EXCEPT ![0] = "accept", ![w] = "get"]
        PROVE  /\ pc' \in [Procs -> Statements] /\ pc'[0] = "accept"
               /\ \A q \in Procs : q # 0 => \/ pc'[q] = pc[q]
                                            \/ pc[q] = "waiting" /\ pc'[q] = "get"
    <3>1. w # 0 /\ w \in Procs
      OBVIOUS
    <3>. QED BY <1>1, <2>2, <3>1 DEF TypeOK, Statements
  <2>3. Move(0, "accept") \/ \E w \in Workers : /\ pc[w] = "waiting"
                                                /\ pc' = [pc EXCEPT ![0] = "accept", ![w] = "get"]
    BY DEF Put
  <2>. QED BY <2>1, <2>2, <2>3
<1>5. /\ iget \in Slots /\ iput \in Slots /\ clifd \in [Slots -> Conns \cup {NoConn}]
      /\ queue = Between(iget, iput)
  BY <1>1, QueueIs DEF TypeOK, Slots
<1>6. next(iput) \in Slots
  BY <1>2, <1>5, RingPut
<1>7. clifd' \in [Slots -> Conns \cup {NoConn}]
  BY <1>2, <1>3, <1>5
<1>8. /\ hand' \in [Procs -> Conns \cup {NoConn}] /\ hand'[0] = NoConn
      /\ \A q \in Procs : q # 0 => hand'[q] = hand[q]
  BY <1>1, <1>2 DEF TypeOK
<1>9. TypeOK'
  <2>1. iput' \in Slots /\ iget' \in Slots
    BY <1>2, <1>5, <1>6
  <2>. QED BY <1>1, <1>2, <1>4, <1>7, <1>8, <2>1 DEF TypeOK, Slots, kernel, pipes
<1>10. Where'
  <2>1. \A q \in Procs : Belongs(design, q, pc'[q])
    <3> SUFFICES ASSUME NEW q \in Procs PROVE Belongs(design, q, pc'[q])
      OBVIOUS
    <3>1. CASE q = 0
      BY <1>3, <1>4, <3>1 DEF Belongs
    <3>2. CASE q # 0 /\ pc'[q] = pc[q]
      BY <1>1, <3>2 DEF Where
    <3>3. CASE q # 0 /\ pc'[q] = "get"
      BY <1>3, <3>3 DEF Belongs
    <3>. QED BY <1>4, <3>1, <3>2, <3>3
  <2>. QED BY <1>2, <2>1 DEF Where
<1>11. Hands'
  <2>1. \A q \in Procs : HandOK(pc'[q], hand'[q])
    BY <1>1, <1>4, <1>8 DEF Hands, HandOK, Holding
  <2>. QED BY <2>1 DEF Hands
<1>12. queue' = Between(iget, next(iput))
  BY <1>2, <1>7 DEF queue, Between
<1>13. Once'
  <2>1. OnePlace(hand, down, Between(iget, iput), clifd, taken)
    BY <1>1, <1>2, <1>5 DEF Once
  <2>2. OnePlace([hand EXCEPT ![0] = NoConn], down, Between(iget, next(iput)),
                 [clifd EXCEPT ![iput] = hand[0]], taken)
    BY <1>1, <1>2, <1>3, <1>5, <2>1, PlacePut DEF TypeOK
  <2>. QED BY <1>2, <1>12, <2>2 DEF Once, pipes
<1>14. Queued'
  BY <1>1, <1>2, QueuedKept DEF kernel
<1>15. Children' /\ Parent' /\ Counted'
  BY <1>2, <1>3, <1>4 DEF Children, Parent, Counted
<1>16. Unused'
  <2>1. queue' = queue \cup {iput} /\ iput \notin queue /\ queue \subseteq Slots
    BY <1>2, <1>5, <1>12, RingPut DEF Between
  <2>2. \A k \in queue' : clifd'[k] # NoConn
    BY <1>1, <1>2, <1>3, <1>5, <2>1 DEF Unused
  <2>. QED BY <1>1, <1>2, <1>3, <2>2 DEF Unused, pipes
<1>. QED BY <1>9, <1>10, <1>11, <1>13, <1>14, <1>15, <1>16 DEF IInv

\* A thread takes a connection out of the ring.
LEMMA GetStep ==
  ASSUME IInv, NEW w \in Workers, Get(w)
  PROVE  IInv'
<1> USE Numbers
<1>1. TypeOK /\ Where /\ Hands /\ Once /\ Queued /\ Children /\ Parent /\ Counted /\ Unused
  BY DEF IInv
<1>2. /\ pc[w] = "get" /\ iget # iput /\ hand' = [hand EXCEPT ![w] = clifd[iget]]
      /\ iget' = next(iget) /\ Move(w, "serve")
      /\ UNCHANGED <<design, sigchld, fails, lock, kernel, taken, clifd, iput, pipes>>
  BY DEF Get, rest
<1>3. design = "serv08" /\ w # 0 /\ w \in Procs /\ hand[w] = NoConn
  BY <1>1, <1>2 DEF Where, Belongs, Hands, HandOK, Holding
<1>4. Belongs(design, w, "serve") /\ "serve" \in Statements
  BY <1>3 DEF Belongs, Statements
<1>5. /\ pc' \in [Procs -> Statements] /\ Where' /\ pc'[w] = "serve"
      /\ \A q \in Procs : q # w => pc'[q] = pc[q]
  BY <1>1, <1>2, <1>3, <1>4, Moved
<1>6. /\ iget \in Slots /\ iput \in Slots /\ clifd \in [Slots -> Conns \cup {NoConn}]
      /\ queue = Between(iget, iput)
  BY <1>1, QueueIs DEF TypeOK, Slots
<1>7. next(iget) \in Slots
  BY <1>2, <1>6, RingGet
<1>8. hand' \in [Procs -> Conns \cup {NoConn}] /\ hand'[w] = clifd[iget]
      /\ \A q \in Procs : q # w => hand'[q] = hand[q]
  BY <1>1, <1>2, <1>3, <1>6 DEF TypeOK
<1>9. TypeOK'
  <2>1. iput' \in Slots /\ iget' \in Slots
    BY <1>2, <1>6, <1>7
  <2>. QED BY <1>1, <1>2, <1>5, <1>8, <2>1 DEF TypeOK, Slots, kernel, pipes
<1>10. /\ queue' = Between(next(iget), iput)
       /\ Between(next(iget), iput) = queue \ {iget} /\ iget \in queue
  <2>1. queue' = Between(next(iget), iput)
    BY <1>2, <1>6 DEF queue, Between
  <2>. QED BY <1>2, <1>6, <2>1, RingGet
<1>11. clifd[iget] \in Conns
  BY <1>1, <1>6, <1>10 DEF Unused
<1>12. Hands'
  <2>1. HandOK(pc'[w], hand'[w])
    BY <1>5, <1>8, <1>11 DEF HandOK, Holding
  <2>. QED BY <1>1, <1>3, <1>5, <1>8, <2>1, HandsMoved
<1>13. Once'
  <2> SUFFICES ASSUME pc[0] # "dead" PROVE OnePlace(hand', down', queue', clifd', taken')
    BY <1>2, <1>3, <1>5 DEF Once
  <2>1. OnePlace(hand, down, Between(iget, iput), clifd, taken)
    BY <1>1, <1>6 DEF Once
  <2>2. OnePlace([hand EXCEPT ![w] = clifd[iget]], down, Between(next(iget), iput), clifd, taken)
    BY <1>1, <1>2, <1>3, <1>6, <2>1, PlaceGot DEF TypeOK
  <2>. QED BY <1>2, <1>10, <2>2 DEF pipes
<1>14. Queued'
  BY <1>1, <1>2, QueuedKept DEF kernel
<1>15. Children' /\ Parent' /\ Counted'
  <2>1. Parent'
    BY <1>1, <1>2, <1>3, <1>5, ParentKept DEF pipes
  <2>. QED BY <1>2, <1>3, <2>1 DEF Children, Counted
<1>16. Unused'
  <2>1. \A k \in queue' : clifd'[k] # NoConn
    BY <1>1, <1>2, <1>10 DEF Unused
  <2>. QED BY <1>1, <1>2, <1>3, <2>1 DEF Unused, pipes
<1>. QED BY <1>5, <1>9, <1>12, <1>13, <1>14, <1>15, <1>16 DEF IInv

-----------------------------------------------------------------------------

\* Every step keeps the inductive invariant.
LEMMA IInvStep == IInv /\ [Next]_vars => IInv'
<1> SUFFICES ASSUME IInv, [Next]_vars PROVE IInv'
  OBVIOUS
<1>1. CASE UNCHANGED vars
  <2>1. backlog \in Seq(Conns) /\ peer \in [Conns -> ClientStates] /\ Fresh(backlog, peer, taken)
    BY DEF IInv, TypeOK, Queued
  <2>2. UNCHANGED <<rest, pc, hand, lock, taken, ring, pipes>> /\ backlog' = backlog /\ peer' = peer
    BY <1>1 DEF vars, kernel
  <2>. QED BY <2>1, <2>2, KernelStep
<1>2. ASSUME NEW c \in Conns, Connect(c) \/ ClientStep(c) PROVE IInv'
  BY <1>2, ClientSteps
<1>3. CASE MainStep \/ sig_int \/ sig_int_prefork
  <2>1. CASE Fork \/ PthreadCreate
    BY <2>1, SpawnStep DEF Fork, PthreadCreate
  <2>2. CASE ChildTerminated \/ PutOverflows \/ ParentExits \/ sig_int
    BY <2>2, EndSteps
  <2>3. CASE sig_chld \/ Select05 \/ PassFd \/ Collect \/ Put
    BY <2>3, SigChldStep, SelectStep, PassFdStep, CollectStep, PutStep
  <2>4. CASE sig_int_prefork
    BY <2>4, MoveSteps
  <2>. QED BY <1>3, <2>1, <2>2, <2>3, <2>4 DEF MainStep
<1>4. ASSUME NEW w \in Workers, WorkerStep(w) PROVE IInv'
  <2>1. CASE ReadFdEof(w) \/ Sigterm(w)
    BY <2>1, EndSteps
  <2>2. CASE CondWait(w)
    BY <2>2, MoveSteps
  <2>3. CASE ReadFd(w) \/ Notify(w) \/ Get(w)
    BY <2>3, ReadFdStep, NotifyStep, GetStep
  <2>. QED BY <1>4, <2>1, <2>2, <2>3 DEF WorkerStep
<1>5. ASSUME NEW p \in Procs, CommonStep(p) \/ AcceptFails(p) PROVE IInv'
  <2>1. CASE my_lock_wait(p) \/ my_lock_release(p)
    BY <2>1, MoveSteps
  <2>2. CASE Accept(p) \/ AcceptAborted(p) \/ AcceptFails(p)
    BY <2>2, AcceptStep, AcceptAbortedStep, AcceptFailsStep
  <2>3. CASE WebChildWrites(p) \/ WebChildReturns(p) \/ WebChildQuits(p)
    BY <2>3, WebChildWritesStep, WebChildReturnsStep, WebChildQuitsStep
  <2>. QED BY <1>5, <2>1, <2>2, <2>3 DEF CommonStep
<1>. QED BY <1>1, <1>2, <1>3, <1>4, <1>5 DEF Next

\* In all ten designs every connection that was accepted and not closed is in exactly
\* one place, and the parent of serv05 counts its idle children exactly as long as
\* none has ended.
THEOREM ServerInvCorrect == Spec => []ServerInv
<1>1. Init => IInv
  BY IInvInit
<1>2. IInv /\ [Next]_vars => IInv'
  BY IInvStep
<1>3. IInv => ServerInv
  BY IInvImplies
<1>. QED BY <1>1, <1>2, <1>3, PTL DEF Spec

-----------------------------------------------------------------------------
(* EchoClients                                                             *)

-----------------------------------------------------------------------------
(* The inductive invariant *)

inFlight == (toiptr - tooptr) + c2s + hold + s2c + read_cnt + (friptr - froptr)

\* Every line the user typed is in one place, unless the server died with it.
Conserved ==
    /\ left + avail + stdio + inFlight + printed <= NLines
    /\ srv # "dead" => left + avail + stdio + inFlight + printed = NLines

\* Where each client can be.
Places ==
    /\ client = "str_cli" => mpc \in {"fgets", "writen", "readline", "fputs", "done"}
    /\ client = "select01" => mpc \in {"select", "readline", "fputs", "fgets", "writen", "done"}
    /\ client = "select02" => mpc \in {"select", "sock", "fputs", "input", "writen"}
    /\ client = "nonb" => mpc \in {"select", "in", "sock", "out", "net"}
    /\ client \in TwoLoops => mpc \in {"fgets", "writen", "pause"}
    /\ client \in TwoLoops <=> rpc # "none"

\* Only strclinonb keeps data in its buffers from one step to the next; only those who
\* use stdio and Readline() have data hidden in theirs.
Buffers ==
    /\ client # "nonb" /\ mpc # "writen" => toiptr = 0 /\ tooptr = 0
    /\ client # "nonb" /\ mpc # "fputs" /\ rpc # "fputs" => friptr = 0 /\ froptr = 0
    /\ client \in {"select02", "nonb"} => stdio = 0 /\ read_cnt = 0

\* str_cli() has at most one line under way, and none when it waits for the user.
Lockstep ==
    client = "str_cli" => inFlight <= 1 /\ (mpc = "fgets" => inFlight = 0)

\* The end of input is noticed once it is there.
InputEnd ==
    /\ stdineof => eof /\ avail = 0 /\ stdio = 0
    /\ client = "nonb" /\ mpc = "in" /\ "in" \in rset => avail > 0 \/ eof

\* The server ends the connection after the client has, or dies.
ServerEnd ==
    /\ sfin # "no" => srv # "run"
    /\ srv = "gone" => fin /\ c2s = 0 /\ hold = 0

\* A client that ended without a complaint has left nothing behind.
Finished ==
    ended \in {"return", "killed"} /\ srv # "dead" /\ client # "select01" =>
        /\ avail = 0 /\ stdio = 0 /\ toiptr = tooptr
        /\ c2s = 0 /\ hold = 0 /\ s2c = 0 /\ read_cnt = 0

Kinds ==
    /\ client \in Designs /\ mpc \in {"fgets", "writen", "readline", "fputs", "select", "input",
                                      "in", "sock", "out", "net", "pause", "done"}
    /\ rpc \in {"none", "readline", "fputs", "done"}
    /\ srv \in {"run", "gone", "dead"} /\ sfin \in {"no", "fin", "rst"}
    /\ ended \in {"no", "return", "killed", "abort"}

Flags == eof \in BOOLEAN /\ stdineof \in BOOLEAN /\ fin \in BOOLEAN

\* The pointers of a buffer never cross, and nothing is larger than its buffer.
Sizes ==
    /\ left \in Nat /\ avail \in Nat /\ stdio \in Nat /\ printed \in Nat
    /\ read_cnt \in Nat /\ read_cnt <= MAXLINE
    /\ tooptr \in Nat /\ toiptr \in Nat /\ tooptr <= toiptr /\ toiptr <= MAXLINE
    /\ froptr \in Nat /\ friptr \in Nat /\ froptr <= friptr /\ friptr <= MAXLINE
    /\ c2s \in Nat /\ c2s <= Cap /\ s2c \in Nat /\ s2c <= Cap /\ hold \in Nat /\ hold <= MAXLINE
    /\ out \in Nat /\ out <= OutCap

EchoIInv ==
    /\ Kinds /\ Flags /\ Sizes /\ Conserved /\ Places /\ Buffers /\ Lockstep
    /\ InputEnd /\ ServerEnd /\ FinLast /\ Finished

-----------------------------------------------------------------------------
(* What the operators of the model compute *)

\* Numbers of lines that can be moved: at least one, and no more than there are on
\* one side and there is room for on the other.
LEMMA UpTo ==
  ASSUME NEW a \in Nat, NEW b \in Nat
  PROVE  \A k : k \in 1..Min({a, b}) <=> k \in Nat /\ 1 <= k /\ k <= a /\ k <= b
<1>1. Min({a, b}) = IF a <= b THEN a ELSE b
  <2>1. \E x \in {a, b} : \A y \in {a, b} : x <= y
    OBVIOUS
  <2>. QED BY <2>1 DEF Min
<1>. QED BY <1>1

\* Rewinding a buffer keeps what is in it.
LEMMA Rewound ==
  ASSUME NEW o \in Nat, NEW i \in Nat, o <= i
  PROVE  /\ rewound(o, i)[1] \in Nat /\ rewound(o, i)[2] \in Nat
         /\ rewound(o, i)[1] <= rewound(o, i)[2] /\ rewound(o, i)[2] <= i
         /\ rewound(o, i)[2] = rewound(o, i)[1] + (i - o)
         /\ o = i => rewound(o, i)[1] = 0 /\ rewound(o, i)[2] = 0
BY DEF rewound

\* What is known before a step: the client has not ended.
LEMMA StillOn ==
  ASSUME EchoIInv, ended = "no", ended' = "no"
  PROVE  Finished'
BY DEF Finished

\* A write to the socket takes k lines out of to[]; none are lost while the server
\* lives, for there is nothing to write when it is gone.
LEMMA Writes ==
  ASSUME EchoIInv, NEW k \in sendable, writes(k)
  PROVE  /\ k \in Nat /\ k <= toiptr - tooptr
         /\ \E o2, i2 \in Nat :
              /\ tooptr' = o2 /\ toiptr' = i2 /\ o2 <= i2 /\ i2 <= toiptr
              /\ i2 - o2 = (toiptr - tooptr) - k
              /\ tooptr + k = toiptr => o2 = 0 /\ i2 = 0
         /\ c2s' \in Nat /\ c2s' <= Cap
         /\ srv = "run" => c2s' = c2s + k
         /\ srv # "run" => c2s' = c2s
         /\ srv = "gone" => k = 0
         /\ sfin' \in {"no", "fin", "rst"} /\ (srv = "run" => sfin' = sfin)
<1>1. /\ tooptr \in Nat /\ toiptr \in Nat /\ tooptr <= toiptr /\ c2s \in Nat /\ c2s <= Cap
      /\ Cap \in Nat /\ toiptr - tooptr \in Nat /\ Cap - c2s \in Nat
  BY EchoAssumption DEF EchoIInv, Sizes
<1>2. k \in Nat /\ k <= toiptr - tooptr /\ (srv = "run" => k <= Cap - c2s)
  <2>1. CASE srv = "run"
    <3>1. k \in 1..Min({toiptr - tooptr, Cap - c2s})
      BY <2>1 DEF sendable
    <3>. QED BY <1>1, <3>1, UpTo
  <2>2. CASE srv # "run"
    BY <1>1, <2>2 DEF sendable
  <2>. QED BY <2>1, <2>2
<1>3. /\ tooptr' = rewound(tooptr + k, toiptr)[1] /\ toiptr' = rewound(tooptr + k, toiptr)[2]
      /\ c2s' = IF srv = "run" THEN c2s + k ELSE c2s
      /\ sfin' \in IF srv = "run" THEN {sfin} ELSE {sfin, "rst"}
  BY DEF writes
<1>4. tooptr + k \in Nat /\ tooptr + k <= toiptr
  BY <1>1, <1>2
<1>5. PICK o2, i2 : /\ o2 = rewound(tooptr + k, toiptr)[1] /\ i2 = rewound(tooptr + k, toiptr)[2]
                    /\ tooptr' = o2 /\ toiptr' = i2
  BY <1>3
<1>6. /\ o2 \in Nat /\ i2 \in Nat /\ o2 <= i2 /\ i2 <= toiptr /\ i2 = o2 + (toiptr - (tooptr + k))
      /\ tooptr + k = toiptr => o2 = 0 /\ i2 = 0
  BY <1>1, <1>4, <1>5, Rewound
<1>7. i2 - o2 = (toiptr - tooptr) - k
  BY <1>1, <1>2, <1>6
<1>8. srv = "gone" => k = 0
  BY <1>1, <1>2 DEF EchoIInv, ServerEnd, FinLast
<1>9. sfin' \in {"no", "fin", "rst"} /\ (srv = "run" => sfin' = sfin)
  BY <1>3 DEF EchoIInv, Kinds
<1>10. c2s' \in Nat /\ c2s' <= Cap /\ (srv = "run" => c2s' = c2s + k) /\ (srv # "run" => c2s' = c2s)
  BY <1>1, <1>2, <1>3
<1>. QED BY <1>2, <1>5, <1>6, <1>7, <1>8, <1>9, <1>10

\* A write to standard output takes k lines out of fr[].
LEMMA Prints ==
  ASSUME EchoIInv, NEW k \in printable, prints(k)
  PROVE  /\ k \in Nat /\ 1 <= k /\ k <= friptr - froptr
         /\ \E o2, i2 \in Nat :
              /\ froptr' = o2 /\ friptr' = i2 /\ o2 <= i2 /\ i2 <= friptr
              /\ i2 - o2 = (friptr - froptr) - k
              /\ froptr + k = friptr => o2 = 0 /\ i2 = 0
         /\ out' \in Nat /\ out' <= OutCap /\ printed' = printed + k
<1>1. /\ froptr \in Nat /\ friptr \in Nat /\ froptr <= friptr /\ out \in Nat /\ out <= OutCap
      /\ OutCap \in Nat /\ friptr - froptr \in Nat /\ OutCap - out \in Nat
  BY EchoAssumption DEF EchoIInv, Sizes
<1>2. k \in Nat /\ 1 <= k /\ k <= friptr - froptr /\ k <= OutCap - out
  BY <1>1, UpTo DEF printable
<1>3. /\ froptr' = rewound(froptr + k, friptr)[1] /\ friptr' = rewound(froptr + k, friptr)[2]
      /\ out' = out + k /\ printed' = printed + k
  BY DEF prints
<1>4. froptr + k \in Nat /\ froptr + k <= friptr
  BY <1>1, <1>2
<1>5. PICK o2, i2 : /\ o2 = rewound(froptr + k, friptr)[1] /\ i2 = rewound(froptr + k, friptr)[2]
                    /\ froptr' = o2 /\ friptr' = i2
  BY <1>3
<1>6. /\ o2 \in Nat /\ i2 \in Nat /\ o2 <= i2 /\ i2 <= friptr /\ i2 = o2 + (friptr - (froptr + k))
      /\ froptr + k = friptr => o2 = 0 /\ i2 = 0
  BY <1>1, <1>4, <1>5, Rewound
<1>7. i2 - o2 = (friptr - froptr) - k
  BY <1>1, <1>2, <1>6
<1>8. out' \in Nat /\ out' <= OutCap
  BY <1>1, <1>2, <1>3
<1>. QED BY <1>2, <1>3, <1>5, <1>6, <1>7, <1>8
-----------------------------------------------------------------------------
(* The steps of the user, the terminal and the server *)

\* The user types a line.
LEMMA TypeStep == EchoIInv /\ Type => EchoIInv'
<1> SUFFICES ASSUME EchoIInv, Type PROVE EchoIInv'
  OBVIOUS
<1>1. /\ ended = "no" /\ left > 0 /\ ~eof /\ left' = left - 1 /\ avail' = avail + 1
      /\ UNCHANGED <<client, eof, stdio, read_cnt, mpc, rpc, rset, wset, stdineof, toiptr, tooptr,
                      friptr, froptr, fin, c2s, hold, s2c, srv, sfin, out, printed, ended>>
  BY DEF Type, hidden, sel, to, fr, net, term
<1>2. Kinds'
  BY <1>1 DEF EchoIInv, Kinds
<1>3. Flags'
  BY <1>1 DEF EchoIInv, Flags
<1>4. Sizes'
  BY <1>1, EchoAssumption DEF EchoIInv, Sizes
<1>5. Conserved'
  BY <1>1 DEF EchoIInv, Sizes, Conserved, inFlight
<1>6. Places'
  BY <1>1 DEF EchoIInv, Kinds, Places, TwoLoops
<1>7. Buffers'
  BY <1>1 DEF EchoIInv, Kinds, Places, Buffers, TwoLoops
<1>8. Lockstep'
  BY <1>1 DEF EchoIInv, Sizes, Places, Lockstep, inFlight
<1>9. InputEnd'
  BY <1>1 DEF EchoIInv, Sizes, Places, InputEnd
<1>10. ServerEnd'
  BY <1>1 DEF EchoIInv, ServerEnd
<1>11. FinLast'
  BY <1>1 DEF EchoIInv, FinLast
<1>12. Finished'
  BY <1>1, StillOn
<1>. QED BY <1>2, <1>3, <1>4, <1>5, <1>6, <1>7, <1>8, <1>9, <1>10, <1>11, <1>12 DEF EchoIInv

\* The user ends the input.
LEMMA TypeEofStep == EchoIInv /\ TypeEof => EchoIInv'
<1> SUFFICES ASSUME EchoIInv, TypeEof PROVE EchoIInv'
  OBVIOUS
<1>1. /\ ended = "no" /\ eof' = TRUE
      /\ UNCHANGED <<client, left, avail, stdio, read_cnt, mpc, rpc, rset, wset, stdineof, toiptr,
                      tooptr, friptr, froptr, fin, c2s, hold, s2c, srv, sfin, out, printed, ended>>
  BY DEF TypeEof, hidden, sel, to, fr, net, term
<1>2. Kinds'
  BY <1>1 DEF EchoIInv, Kinds
<1>3. Flags'
  BY <1>1 DEF EchoIInv, Flags
<1>4. Sizes'
  BY <1>1, EchoAssumption DEF EchoIInv, Sizes
<1>5. Conserved'
  BY <1>1 DEF EchoIInv, Sizes, Conserved, inFlight
<1>6. Places'
  BY <1>1 DEF EchoIInv, Kinds, Places, TwoLoops
<1>7. Buffers'
  BY <1>1 DEF EchoIInv, Kinds, Places, Buffers, TwoLoops
<1>8. Lockstep'
  BY <1>1 DEF EchoIInv, Sizes, Places, Lockstep, inFlight
<1>9. InputEnd'
  BY <1>1 DEF EchoIInv, Sizes, Places, InputEnd
<1>10. ServerEnd'
  BY <1>1 DEF EchoIInv, ServerEnd
<1>11. FinLast'
  BY <1>1 DEF EchoIInv, FinLast
<1>12. Finished'
  BY <1>1, StillOn
<1>. QED BY <1>2, <1>3, <1>4, <1>5, <1>6, <1>7, <1>8, <1>9, <1>10, <1>11, <1>12 DEF EchoIInv

\* The terminal takes a line.
LEMMA DrainStep == EchoIInv /\ Drain => EchoIInv'
<1> SUFFICES ASSUME EchoIInv, Drain PROVE EchoIInv'
  OBVIOUS
<1>1. /\ ended = "no" /\ out > 0 /\ out' = out - 1
      /\ UNCHANGED <<client, left, avail, eof, stdio, read_cnt, mpc, rpc, rset, wset, stdineof, toiptr,
                      tooptr, friptr, froptr, fin, c2s, hold, s2c, srv, sfin, printed, ended>>
  BY DEF Drain, user, hidden, sel, to, fr, net
<1>2. Kinds'
  BY <1>1 DEF EchoIInv, Kinds
<1>3. Flags'
  BY <1>1 DEF EchoIInv, Flags
<1>4. Sizes'
  BY <1>1, EchoAssumption DEF EchoIInv, Sizes
<1>5. Conserved'
  BY <1>1 DEF EchoIInv, Sizes, Conserved, inFlight
<1>6. Places'
  BY <1>1 DEF EchoIInv, Kinds, Places, TwoLoops
<1>7. Buffers'
  BY <1>1 DEF EchoIInv, Kinds, Places, Buffers, TwoLoops
<1>8. Lockstep'
  BY <1>1 DEF EchoIInv, Sizes, Places, Lockstep, inFlight
<1>9. InputEnd'
  BY <1>1 DEF EchoIInv, Sizes, Places, InputEnd
<1>10. ServerEnd'
  BY <1>1 DEF EchoIInv, ServerEnd
<1>11. FinLast'
  BY <1>1 DEF EchoIInv, FinLast
<1>12. Finished'
  BY <1>1, StillOn
<1>. QED BY <1>2, <1>3, <1>4, <1>5, <1>6, <1>7, <1>8, <1>9, <1>10, <1>11, <1>12 DEF EchoIInv

\* The server dies: what it held is lost.
LEMMA ServerDiesStep == EchoIInv /\ ServerDies => EchoIInv'
<1> SUFFICES ASSUME EchoIInv, ServerDies PROVE EchoIInv'
  OBVIOUS
<1>1. /\ ended = "no" /\ srv = "run" /\ srv' = "dead" /\ hold' = 0 /\ c2s' = 0
      /\ sfin' \in {"fin", "rst"}
      /\ UNCHANGED <<client, left, avail, eof, stdio, read_cnt, mpc, rpc, rset, wset, stdineof, toiptr,
                      tooptr, friptr, froptr, fin, s2c, out, printed, ended>>
  BY DEF ServerDies, user, hidden, sel, to, fr, term
<1>2. Kinds'
  BY <1>1 DEF EchoIInv, Kinds
<1>3. Flags'
  BY <1>1 DEF EchoIInv, Flags
<1>4. Sizes'
  BY <1>1, EchoAssumption DEF EchoIInv, Sizes
<1>5. Conserved'
  BY <1>1 DEF EchoIInv, Sizes, Conserved, inFlight
<1>6. Places'
  BY <1>1 DEF EchoIInv, Kinds, Places, TwoLoops
<1>7. Buffers'
  BY <1>1 DEF EchoIInv, Kinds, Places, Buffers, TwoLoops
<1>8. Lockstep'
  BY <1>1 DEF EchoIInv, Sizes, Places, Lockstep, inFlight
<1>9. InputEnd'
  BY <1>1 DEF EchoIInv, Sizes, Places, InputEnd
<1>10. ServerEnd'
  BY <1>1 DEF EchoIInv, ServerEnd
<1>11. FinLast'
  BY <1>1 DEF EchoIInv, FinLast
<1>12. Finished'
  BY <1>1, StillOn
<1>. QED BY <1>2, <1>3, <1>4, <1>5, <1>6, <1>7, <1>8, <1>9, <1>10, <1>11, <1>12 DEF EchoIInv

\* str_echo() moves lines from one place to the next, or returns when all is sent back.
LEMMA str_echoStep == EchoIInv /\ str_echo => EchoIInv'
<1> SUFFICES ASSUME EchoIInv, str_echo PROVE EchoIInv'
  OBVIOUS
<1>1. /\ ended = "no" /\ srv = "run"
      /\ UNCHANGED <<client, left, avail, eof, stdio, read_cnt, mpc, rpc, rset, wset, stdineof, toiptr,
                      tooptr, friptr, froptr, out, printed, ended>>
  BY DEF str_echo, user, hidden, sel, to, fr, term
<1>2. /\ c2s \in Nat /\ hold \in Nat /\ s2c \in Nat /\ c2s <= Cap /\ s2c <= Cap /\ hold <= MAXLINE
      /\ MAXLINE \in Nat /\ Cap \in Nat /\ Cap - s2c \in Nat
  BY EchoAssumption DEF EchoIInv, Sizes
<1>3. \/ /\ hold = 0 /\ UNCHANGED <<fin, s2c, srv, sfin>>
         /\ \E k \in 1..Min({c2s, MAXLINE}) : c2s' = c2s - k /\ hold' = k
      \/ /\ UNCHANGED <<fin, c2s, srv, sfin>>
         /\ \E k \in 1..Min({hold, Cap - s2c}) : hold' = hold - k /\ s2c' = s2c + k
      \/ /\ hold = 0 /\ c2s = 0 /\ fin /\ srv' = "gone" /\ sfin' = "fin"
         /\ UNCHANGED <<fin, c2s, hold, s2c>>
  BY DEF str_echo, upTo
<1>4. PICK c \in Nat, h \in Nat, r \in Nat :
        /\ c2s' = c /\ hold' = h /\ s2c' = r /\ c + h + r = c2s + hold + s2c
        /\ c <= Cap /\ h <= MAXLINE /\ r <= Cap
  <2>1. CASE hold = 0 /\ UNCHANGED s2c /\ \E k \in 1..Min({c2s, MAXLINE}) : c2s' = c2s - k /\ hold' = k
    <3>1. PICK k \in Nat : k <= c2s /\ k <= MAXLINE /\ c2s' = c2s - k /\ hold' = k
      BY <1>2, <2>1, UpTo
    <3>. QED BY <1>2, <2>1, <3>1
  <2>2. CASE UNCHANGED c2s /\ \E k \in 1..Min({hold, Cap - s2c}) : hold' = hold - k /\ s2c' = s2c + k
    <3>1. PICK k \in Nat : k <= hold /\ k <= Cap - s2c /\ hold' = hold - k /\ s2c' = s2c + k
      BY <1>2, <2>2, UpTo
    <3>. QED BY <1>2, <2>2, <3>1
  <2>3. CASE UNCHANGED <<c2s, hold, s2c>>
    BY <1>2, <2>3
  <2>. QED BY <1>3, <2>1, <2>2, <2>3
<1>5. \/ UNCHANGED <<srv, sfin>>
      \/ srv' = "gone" /\ sfin' = "fin" /\ fin /\ c2s' = 0 /\ hold' = 0
  BY <1>3
<1>6. UNCHANGED fin
  BY <1>3
<1>7. Kinds'
  BY <1>1, <1>5 DEF EchoIInv, Kinds
<1>8. Flags'
  BY <1>1, <1>4, <1>6 DEF EchoIInv, Flags
<1>9. Sizes'
  BY <1>1, <1>4, <1>6, EchoAssumption DEF EchoIInv, Sizes
<1>10. Conserved'
  BY <1>1, <1>2, <1>4, <1>5 DEF EchoIInv, Sizes, Conserved, inFlight
<1>11. Places'
  BY <1>1, <1>4, <1>6 DEF EchoIInv, Kinds, Places, TwoLoops
<1>12. Buffers'
  BY <1>1, <1>4, <1>6 DEF EchoIInv, Kinds, Places, Buffers, TwoLoops
<1>13. Lockstep'
  BY <1>1, <1>2, <1>4 DEF EchoIInv, Sizes, Lockstep, inFlight
<1>14. InputEnd'
  BY <1>1, <1>4, <1>6 DEF EchoIInv, Sizes, Places, InputEnd
<1>15. ServerEnd'
  BY <1>1, <1>5, <1>6 DEF EchoIInv, ServerEnd
<1>16. FinLast'
  BY <1>1, <1>4, <1>6 DEF EchoIInv, FinLast
<1>17. Finished'
  BY <1>1, <1>4, <1>6, StillOn
<1>. QED BY <1>7, <1>8, <1>9, <1>10, <1>11, <1>12, <1>13, <1>14, <1>15, <1>16, <1>17 DEF EchoIInv

-----------------------------------------------------------------------------
(* The steps of Fgets(), Writen(), Readline() and Fputs() *)

\* Fgets() takes a line from standard input, and perhaps more into its buffer.
LEMMA FgetsLineStep == EchoIInv /\ FgetsLine => EchoIInv'
<1> SUFFICES ASSUME EchoIInv, FgetsLine PROVE EchoIInv'
  OBVIOUS
<1>1. /\ ended = "no" /\ mpc = "fgets" /\ toiptr' = 1 /\ tooptr' = 0 /\ mpc' = "writen"
      /\ UNCHANGED <<client, left, eof, read_cnt, rpc, rset, wset, stdineof, friptr, froptr, fin, c2s,
                      hold, s2c, srv, sfin, out, printed, ended>>
  BY DEF FgetsLine, afterLine, sel, fr, net, term
<1>2. client # "nonb" /\ client # "select02" /\ toiptr = 0 /\ tooptr = 0
  BY <1>1 DEF EchoIInv, Places, Buffers
<1>3. PICK a \in Nat, b \in Nat : avail' = a /\ stdio' = b /\ a + b + 1 = avail + stdio
  <2>1. avail \in Nat /\ stdio \in Nat
    BY DEF EchoIInv, Sizes
  <2>2. CASE stdio > 0 /\ stdio' = stdio - 1 /\ UNCHANGED avail
    BY <2>1, <2>2
  <2>3. CASE stdio = 0 /\ \E k \in 1..avail : avail' = avail - k /\ stdio' = k - 1
    BY <2>1, <2>3
  <2>. QED BY <2>2, <2>3 DEF FgetsLine
<1>4. avail + stdio # 0 /\ avail \in Nat /\ stdio \in Nat
  BY <1>3 DEF EchoIInv, Sizes
<1>5. ~fin /\ ~stdineof
  <2>1. ~ (avail = 0 /\ stdio = 0)
    BY <1>4
  <2>. QED BY <2>1 DEF EchoIInv, FinLast, InputEnd
<1>6. Kinds'
  BY <1>1, <1>2, <1>3 DEF EchoIInv, Kinds
<1>7. Flags'
  BY <1>1, <1>2, <1>3 DEF EchoIInv, Flags
<1>8. Sizes'
  BY <1>1, <1>2, <1>3, EchoAssumption DEF EchoIInv, Sizes
<1>9. Conserved'
  BY <1>1, <1>2, <1>3 DEF EchoIInv, Sizes, Conserved, inFlight
<1>10. Places'
  BY <1>1, <1>2, <1>3 DEF EchoIInv, Kinds, Places, TwoLoops
<1>11. Buffers'
  BY <1>1, <1>2, <1>3 DEF EchoIInv, Kinds, Places, Buffers, TwoLoops
<1>12. Lockstep'
  BY <1>1, <1>2, <1>3 DEF EchoIInv, Sizes, Places, Lockstep, inFlight
<1>13. InputEnd'
  BY <1>1, <1>2, <1>5 DEF InputEnd
<1>14. ServerEnd'
  BY <1>1, <1>2, <1>3 DEF EchoIInv, ServerEnd
<1>15. FinLast'
  BY <1>1, <1>5 DEF FinLast
<1>16. Finished'
  BY <1>1, <1>2, <1>3, StillOn
<1>. QED BY <1>6, <1>7, <1>8, <1>9, <1>10, <1>11, <1>12, <1>13, <1>14, <1>15, <1>16 DEF EchoIInv

\* Fgets() finds the end of the input.
LEMMA FgetsEofStep == EchoIInv /\ FgetsEof => EchoIInv'
<1> SUFFICES ASSUME EchoIInv, FgetsEof PROVE EchoIInv'
  OBVIOUS
<1>1. /\ ended = "no" /\ mpc = "fgets" /\ stdio = 0 /\ avail = 0 /\ eof
      /\ UNCHANGED <<client, left, avail, eof, stdio, read_cnt, rpc, rset, wset, stdineof, toiptr,
                      tooptr, friptr, froptr, c2s, hold, s2c, srv, sfin, out, printed>>
  BY DEF FgetsEof, user, hidden, sel, to, fr, term
<1>2. client # "nonb" /\ client # "select02" /\ toiptr = 0 /\ tooptr = 0
  BY <1>1 DEF EchoIInv, Places, Buffers
<1>3. \/ client \in TwoLoops /\ fin' = TRUE /\ mpc' = "pause" /\ UNCHANGED ended
      \/ client \notin TwoLoops /\ ended' = "return" /\ UNCHANGED <<fin, mpc>>
  BY DEF FgetsEof, End
<1>4. client = "str_cli" => c2s = 0 /\ hold = 0 /\ s2c = 0 /\ read_cnt = 0
  BY <1>1, <1>2 DEF EchoIInv, Sizes, Lockstep, inFlight
<1>5. Kinds'
  BY <1>1, <1>2, <1>3 DEF EchoIInv, Kinds
<1>6. Flags'
  BY <1>1, <1>2, <1>3 DEF EchoIInv, Flags
<1>7. Sizes'
  BY <1>1, <1>2, <1>3, EchoAssumption DEF EchoIInv, Sizes
<1>8. Conserved'
  BY <1>1, <1>2, <1>3 DEF EchoIInv, Sizes, Conserved, inFlight
<1>9. Places'
  BY <1>1, <1>2, <1>3 DEF EchoIInv, Kinds, Places, TwoLoops
<1>10. Buffers'
  BY <1>1, <1>2, <1>3 DEF EchoIInv, Kinds, Places, Buffers, TwoLoops
<1>11. Lockstep'
  BY <1>1, <1>2, <1>3 DEF EchoIInv, Lockstep, inFlight, TwoLoops
<1>12. InputEnd'
  BY <1>1, <1>2 DEF EchoIInv, InputEnd
<1>13. ServerEnd'
  BY <1>1, <1>2, <1>3 DEF EchoIInv, ServerEnd
<1>14. FinLast'
  BY <1>1, <1>2, <1>3 DEF EchoIInv, FinLast
<1>15. Finished'
  BY <1>1, <1>2, <1>3, <1>4 DEF EchoIInv, Kinds, Designs, TwoLoops, Finished
<1>. QED BY <1>5, <1>6, <1>7, <1>8, <1>9, <1>10, <1>11, <1>12, <1>13, <1>14, <1>15 DEF EchoIInv

\* Writen() sends a part of the line or buffer, or all of it.
LEMMA WritenStep == EchoIInv /\ Writen => EchoIInv'
<1> SUFFICES ASSUME EchoIInv, Writen PROVE EchoIInv'
  OBVIOUS
<1>1. /\ ended = "no" /\ mpc = "writen"
      /\ UNCHANGED <<client, left, avail, eof, stdio, read_cnt, rpc, rset, wset, stdineof, friptr,
                      froptr, fin, hold, s2c, srv, out, printed, ended>>
  BY DEF Writen, user, hidden, sel, fr, term
<1>2. PICK k \in sendable :
        writes(k) /\ mpc' = IF tooptr + k = toiptr THEN afterWrite[client] ELSE "writen"
  BY DEF Writen
<1>3. PICK o2 \in Nat, i2 \in Nat :
        /\ tooptr' = o2 /\ toiptr' = i2 /\ o2 <= i2 /\ i2 <= toiptr
        /\ i2 - o2 = (toiptr - tooptr) - k
        /\ tooptr + k = toiptr => o2 = 0 /\ i2 = 0
  BY <1>2, Writes
<1>4. /\ k \in Nat /\ k <= toiptr - tooptr /\ c2s' \in Nat /\ c2s' <= Cap
      /\ (srv = "run" => c2s' = c2s + k) /\ (srv # "run" => c2s' = c2s) /\ (srv = "gone" => k = 0)
  BY <1>2, Writes
<1>5. sfin' \in {"no", "fin", "rst"} /\ (srv = "run" => sfin' = sfin)
  BY <1>2, Writes
<1>6. client # "nonb" /\ client \in Designs
  BY <1>1 DEF EchoIInv, Kinds, Places
<1>7. afterWrite[client] = IF client = "str_cli" THEN "readline"
                           ELSE IF client \in {"select01", "select02"} THEN "select" ELSE "fgets"
  BY <1>6 DEF Designs, afterWrite
<1>8. mpc' = "writen" \/ (toiptr' = 0 /\ tooptr' = 0 /\ mpc' = afterWrite[client])
  BY <1>2, <1>3
<1>9. PICK c \in Nat : c2s' = c /\ c <= Cap /\ c <= c2s + k /\ (srv # "dead" => c = c2s + k)
  BY <1>4 DEF EchoIInv, Sizes, Kinds
<1>10. k \in Nat
  BY <1>4
<1>11. Kinds'
  BY <1>1, <1>5, <1>7, <1>8 DEF EchoIInv, Kinds
<1>12. Flags'
  BY <1>1 DEF EchoIInv, Flags
<1>13. Sizes'
  BY <1>1, <1>3, <1>9, EchoAssumption DEF EchoIInv, Sizes
<1>14. Conserved'
  <2>1. CASE srv = "dead"
    BY <1>1, <1>3, <1>9, <1>10, <2>1, EchoAssumption DEF EchoIInv, Sizes, Conserved, inFlight
  <2>2. CASE srv # "dead"
    BY <1>1, <1>3, <1>9, <1>10, <2>2 DEF EchoIInv, Sizes, Conserved, inFlight
  <2>. QED BY <2>1, <2>2
<1>15. Places'
  BY <1>1, <1>7, <1>8 DEF EchoIInv, Places, TwoLoops
<1>16. Buffers'
  BY <1>1, <1>8 DEF EchoIInv, Buffers
<1>17. Lockstep'
  <2>1. client = "str_cli" => mpc' # "fgets"
    BY <1>7, <1>8
  <2>2. client = "str_cli" => inFlight <= 1
    BY DEF EchoIInv, Lockstep
  <2>3. client = "str_cli" => inFlight' <= 1
    BY <1>1, <1>3, <1>9, <1>10, <2>2 DEF EchoIInv, Sizes, inFlight
  <2>. QED BY <1>1, <2>1, <2>3 DEF Lockstep
<1>18. InputEnd'
  BY <1>1, <1>6 DEF EchoIInv, InputEnd
<1>19. ServerEnd'
  BY <1>1, <1>4, <1>5 DEF EchoIInv, Kinds, ServerEnd
<1>20. FinLast'
  <2>1. toiptr = tooptr => toiptr' = tooptr'
    BY <1>3, <1>4 DEF EchoIInv, Sizes
  <2>. QED BY <1>1, <2>1 DEF EchoIInv, FinLast
<1>21. Finished'
  BY <1>1, StillOn
<1>. QED BY <1>11, <1>12, <1>13, <1>14, <1>15, <1>16, <1>17, <1>18, <1>19, <1>20, <1>21 DEF EchoIInv

\* A write fails, and the client complains.
LEMMA WriteFailsStep == EchoIInv /\ WriteFails => EchoIInv'
<1> SUFFICES ASSUME EchoIInv, WriteFails PROVE EchoIInv'
  OBVIOUS
<1>1. /\ ended' = "abort"
      /\ UNCHANGED <<client, left, avail, eof, stdio, read_cnt, mpc, rpc, rset, wset, stdineof, toiptr,
                      tooptr, friptr, froptr, fin, c2s, hold, s2c, srv, sfin, out, printed>>
  BY DEF WriteFails, End, user, hidden, sel, to, fr, net, term
<1>2. Kinds'
  BY <1>1 DEF EchoIInv, Kinds
<1>3. Flags'
  BY <1>1 DEF EchoIInv, Flags
<1>4. Sizes'
  BY <1>1, EchoAssumption DEF EchoIInv, Sizes
<1>5. Conserved'
  BY <1>1 DEF EchoIInv, Sizes, Conserved, inFlight
<1>6. Places'
  BY <1>1 DEF EchoIInv, Kinds, Places, TwoLoops
<1>7. Buffers'
  BY <1>1 DEF EchoIInv, Kinds, Places, Buffers, TwoLoops
<1>8. Lockstep'
  BY <1>1 DEF EchoIInv, Sizes, Places, Lockstep, inFlight
<1>9. InputEnd'
  BY <1>1 DEF EchoIInv, Sizes, Places, InputEnd
<1>10. ServerEnd'
  BY <1>1 DEF EchoIInv, ServerEnd
<1>11. FinLast'
  BY <1>1 DEF EchoIInv, FinLast
<1>12. Finished'
  BY <1>1 DEF EchoIInv, Finished
<1>. QED BY <1>2, <1>3, <1>4, <1>5, <1>6, <1>7, <1>8, <1>9, <1>10, <1>11, <1>12 DEF EchoIInv

\* Whoever is in Readline() is a client, or a receiver, that uses it, with nothing in fr[].
LEMMA ReaderPlace ==
  ASSUME EchoIInv, NEW who \in {"main", "receiver"}, Readline(who)
  PROVE  /\ friptr = 0 /\ froptr = 0 /\ client \notin {"nonb", "select02"}
         /\ \/ /\ mpc = "readline" /\ client \in {"str_cli", "select01"} /\ rpc = "none" /\ rpc' = rpc
               /\ mpc' \in {"fputs", "done"}
            \/ /\ rpc = "readline" /\ client \in TwoLoops /\ mpc' = mpc
               /\ mpc \in {"fgets", "writen", "pause"} /\ rpc' \in {"fputs", "done"}
<1>1. CASE who = "main"
  <2>1. mpc = "readline" /\ rpc' = rpc /\ mpc' \in {"fputs", "done"}
    BY <1>1 DEF Readline, at, goto
  <2>2. client \in {"str_cli", "select01"} /\ rpc = "none"
    BY <2>1 DEF EchoIInv, Kinds, Designs, Places, TwoLoops
  <2>. QED BY <2>1, <2>2 DEF EchoIInv, Buffers
<1>2. CASE who = "receiver"
  <2>1. rpc = "readline" /\ mpc' = mpc /\ rpc' \in {"fputs", "done"}
    BY <1>2 DEF Readline, at, goto
  <2>2. client \in TwoLoops /\ mpc \in {"fgets", "writen", "pause"}
    BY <2>1 DEF EchoIInv, Places
  <2>. QED BY <2>1, <2>2 DEF EchoIInv, Buffers, TwoLoops
<1>. QED BY <1>1, <1>2

\* Readline() takes a line from the socket, and perhaps more into its buffer.
LEMMA ReadlineGets ==
  ASSUME EchoIInv, NEW who \in {"main", "receiver"}, Readline(who), UNCHANGED ended,
         friptr' = 1, goto(who, "fputs"),
         read_cnt > 0 \/ s2c > 0
  PROVE  EchoIInv'
<1>1. /\ ended = "no" /\ ended' = "no" /\ friptr' = 1
      /\ UNCHANGED <<client, left, avail, eof, stdio, rset, wset, stdineof, toiptr, tooptr, froptr, fin,
                      c2s, hold, srv, sfin, out, printed>>
  BY DEF Readline, user, sel, to, term
<1>2. /\ friptr = 0 /\ froptr = 0 /\ client \notin {"nonb", "select02"}
      /\ \/ /\ mpc = "readline" /\ client \in {"str_cli", "select01"} /\ rpc = "none" /\ rpc' = rpc
            /\ mpc' = "fputs"
         \/ /\ rpc = "readline" /\ client \in TwoLoops /\ mpc' = mpc
            /\ mpc \in {"fgets", "writen", "pause"} /\ rpc' = "fputs"
  <2>1. at(who, "readline") /\ goto(who, "fputs")
    BY DEF Readline
  <2>. QED BY <2>1, ReaderPlace DEF goto, at
<1>3. PICK r \in Nat, c \in Nat :
        /\ s2c' = r /\ read_cnt' = c /\ r + c + 1 = s2c + read_cnt /\ r <= Cap /\ c <= MAXLINE
  <2>1. /\ s2c \in Nat /\ read_cnt \in Nat /\ s2c <= Cap /\ read_cnt <= MAXLINE
        /\ MAXLINE \in Nat /\ Cap \in Nat
    BY EchoAssumption DEF EchoIInv, Sizes
  <2>2. CASE read_cnt > 0 /\ read_cnt' = read_cnt - 1 /\ UNCHANGED s2c
    BY <2>1, <2>2
  <2>3. CASE read_cnt = 0 /\ \E k \in upTo({s2c, MAXLINE}) : s2c' = s2c - k /\ read_cnt' = k - 1
    <3>1. PICK k \in Nat : 1 <= k /\ k <= s2c /\ k <= MAXLINE /\ s2c' = s2c - k /\ read_cnt' = k - 1
      BY <2>1, <2>3, UpTo DEF upTo
    <3>. QED BY <2>1, <2>3, <3>1
  <2>. QED BY <2>2, <2>3 DEF Readline
<1>4. Kinds'
  BY <1>1, <1>2, <1>3 DEF EchoIInv, Kinds
<1>5. Flags'
  BY <1>1, <1>2, <1>3 DEF EchoIInv, Flags
<1>6. Sizes'
  BY <1>1, <1>2, <1>3, EchoAssumption DEF EchoIInv, Sizes
<1>7. Conserved'
  BY <1>1, <1>2, <1>3 DEF EchoIInv, Sizes, Conserved, inFlight
<1>8. Places'
  BY <1>1, <1>2, <1>3 DEF EchoIInv, Kinds, Places, TwoLoops
<1>9. Buffers'
  BY <1>1, <1>2, <1>3 DEF EchoIInv, Kinds, Places, Buffers, TwoLoops
<1>10. Lockstep'
  BY <1>1, <1>2, <1>3 DEF EchoIInv, Sizes, Places, Lockstep, inFlight
<1>11. InputEnd'
  BY <1>1, <1>2, <1>3 DEF EchoIInv, Sizes, Places, InputEnd
<1>12. ServerEnd'
  BY <1>1, <1>2, <1>3 DEF EchoIInv, ServerEnd
<1>13. FinLast'
  BY <1>1, <1>2, <1>3 DEF EchoIInv, FinLast
<1>14. Finished'
  BY <1>1, <1>2, <1>3, StillOn
<1>. QED BY <1>4, <1>5, <1>6, <1>7, <1>8, <1>9, <1>10, <1>11, <1>12, <1>13, <1>14 DEF EchoIInv

\* Readline() finds the end of the connection.
LEMMA ReadlineFinds ==
  ASSUME EchoIInv, NEW who \in {"main", "receiver"}, Readline(who), read_cnt = 0,
         s2c = 0, sfin # "no", ReadlineEnds,
         goto(who, "done"), UNCHANGED <<read_cnt, s2c, friptr>>
  PROVE  EchoIInv'
<1>1. /\ ended = "no"
      /\ UNCHANGED <<client, left, avail, eof, stdio, read_cnt, rset, wset, stdineof, toiptr,
                     tooptr, friptr, froptr, fin, c2s, hold, s2c, srv, sfin, out, printed>>
  BY DEF Readline, user, sel, to, term
<1>2. /\ friptr = 0 /\ froptr = 0 /\ client \notin {"nonb", "select02"}
      /\ \/ /\ mpc = "readline" /\ client \in {"str_cli", "select01"} /\ rpc = "none" /\ rpc' = rpc
            /\ mpc' = "done"
         \/ /\ rpc = "readline" /\ client \in TwoLoops /\ mpc' = mpc
            /\ mpc \in {"fgets", "writen", "pause"} /\ rpc' = "done"
  <2>1. at(who, "readline")
    BY DEF Readline
  <2>. QED BY <2>1, ReaderPlace DEF goto, at
<1>3. /\ ended' \in {"no", "abort", "killed", "return"}
      /\ ended' \in {"killed", "return"} => sfin = "fin" /\ client \in TwoLoops
  BY DEF ReadlineEnds, End, TwoLoops, EchoIInv, Kinds
<1>4. Kinds'
  BY <1>1, <1>2, <1>3 DEF EchoIInv, Kinds
<1>5. Flags'
  BY <1>1, <1>2, <1>3 DEF EchoIInv, Flags
<1>6. Sizes'
  BY <1>1, <1>2, <1>3, EchoAssumption DEF EchoIInv, Sizes
<1>7. Conserved'
  BY <1>1, <1>2, <1>3 DEF EchoIInv, Sizes, Conserved, inFlight
<1>8. Places'
  BY <1>1, <1>2, <1>3 DEF EchoIInv, Kinds, Places, TwoLoops
<1>9. Buffers'
  BY <1>1, <1>2, <1>3 DEF EchoIInv, Kinds, Places, Buffers, TwoLoops
<1>10. Lockstep'
  BY <1>1, <1>2, <1>3 DEF EchoIInv, Sizes, Places, Lockstep, inFlight
<1>11. InputEnd'
  BY <1>1, <1>2, <1>3 DEF EchoIInv, Sizes, Places, InputEnd
<1>12. ServerEnd'
  BY <1>1, <1>2, <1>3 DEF EchoIInv, ServerEnd
<1>13. FinLast'
  BY <1>1, <1>2, <1>3 DEF EchoIInv, FinLast
<1>14. Finished'
  <2>1. CASE srv = "gone" /\ sfin = "fin"
    BY <1>1, <2>1 DEF EchoIInv, ServerEnd, FinLast, Finished
  <2>. QED BY <1>1, <1>3, <2>1 DEF EchoIInv, Kinds, ServerEnd, Finished
<1>. QED BY <1>4, <1>5, <1>6, <1>7, <1>8, <1>9, <1>10, <1>11, <1>12, <1>13, <1>14 DEF EchoIInv

\* Readline().
LEMMA ReadlineStep ==
  ASSUME EchoIInv, NEW who \in {"main", "receiver"}, Readline(who)
  PROVE  EchoIInv'
BY ReadlineGets, ReadlineFinds DEF Readline

\* The client writes to standard output.
LEMMA FputsMainStep ==
  EchoIInv /\ Fputs("main", IF client = "str_cli" THEN "fgets" ELSE afterSock) => EchoIInv'
<1> SUFFICES ASSUME EchoIInv, Fputs("main", IF client = "str_cli" THEN "fgets" ELSE afterSock)
             PROVE  EchoIInv'
  OBVIOUS
<1>1. /\ ended = "no"
      /\ UNCHANGED <<client, left, avail, eof, stdio, read_cnt, rset, wset, stdineof, toiptr, tooptr,
                      fin, c2s, hold, s2c, srv, sfin, ended>>
  BY DEF Fputs, user, hidden, sel, to, net
<1>2. PICK k \in printable :
        /\ prints(k) /\ mpc = "fputs" /\ UNCHANGED rpc
        /\ mpc' = IF froptr + k = friptr THEN (IF client = "str_cli" THEN "fgets" ELSE afterSock)
                                         ELSE "fputs"
  BY DEF Fputs, at, goto
<1>3. PICK o2 \in Nat, i2 \in Nat :
        /\ froptr' = o2 /\ friptr' = i2 /\ o2 <= i2 /\ i2 <= friptr
        /\ i2 - o2 = (friptr - froptr) - k
        /\ froptr + k = friptr => o2 = 0 /\ i2 = 0
  BY <1>2, Prints
<1>4. k \in Nat /\ 1 <= k /\ k <= friptr - froptr /\ printed' = printed + k
  BY <1>2, Prints
<1>5. PICK o \in Nat : out' = o /\ o <= OutCap
  BY <1>2, Prints
<1>6. /\ client \in {"str_cli", "select01", "select02"} /\ rpc' = "none"
      /\ \/ mpc' = "fputs"
         \/ /\ friptr' = 0 /\ froptr' = 0
            /\ client = "str_cli" => mpc' = "fgets"
            /\ client = "select01" => mpc' \in {"fgets", "select"}
            /\ client = "select02" => mpc' \in {"input", "select"}
  <2>1. client \in {"str_cli", "select01", "select02"} /\ rpc' = "none"
    BY <1>2 DEF EchoIInv, Kinds, Designs, Places, TwoLoops
  <2>. QED BY <1>2, <1>3, <2>1 DEF afterSock
<1>7. Kinds'
  BY <1>1, <1>3, <1>4, <1>5, <1>6 DEF EchoIInv, Kinds
<1>8. Flags'
  BY <1>1, <1>3, <1>4, <1>5, <1>6 DEF EchoIInv, Flags
<1>9. Sizes'
  BY <1>1, <1>3, <1>4, <1>5, <1>6, EchoAssumption DEF EchoIInv, Sizes
<1>10. Conserved'
  BY <1>1, <1>3, <1>4, <1>5, <1>6 DEF EchoIInv, Sizes, Conserved, inFlight
<1>11. Places'
  BY <1>1, <1>6 DEF EchoIInv, Places, TwoLoops
<1>12. Buffers'
  BY <1>1, <1>2, <1>6 DEF EchoIInv, Buffers, Places, TwoLoops
<1>13. Lockstep'
  <2>1. client = "str_cli" => inFlight <= 1
    BY DEF EchoIInv, Lockstep
  <2>2. client = "str_cli" => inFlight' = 0
    BY <1>1, <1>3, <1>4, <2>1 DEF EchoIInv, Sizes, inFlight
  <2>. QED BY <1>1, <2>2 DEF Lockstep
<1>14. InputEnd'
  BY <1>1, <1>3, <1>4, <1>5, <1>6 DEF EchoIInv, Sizes, Places, InputEnd
<1>15. ServerEnd'
  BY <1>1, <1>3, <1>4, <1>5, <1>6 DEF EchoIInv, ServerEnd
<1>16. FinLast'
  BY <1>1, <1>3, <1>4, <1>5, <1>6 DEF EchoIInv, FinLast
<1>17. Finished'
  BY <1>1, <1>3, <1>4, <1>5, <1>6, StillOn
<1>. QED BY <1>7, <1>8, <1>9, <1>10, <1>11, <1>12, <1>13, <1>14, <1>15, <1>16, <1>17 DEF EchoIInv

\* The receiving process or thread writes to standard output.
LEMMA FputsReceiverStep == EchoIInv /\ Fputs("receiver", "readline") => EchoIInv'
<1> SUFFICES ASSUME EchoIInv, Fputs("receiver", "readline") PROVE EchoIInv'
  OBVIOUS
<1>1. /\ ended = "no"
      /\ UNCHANGED <<client, left, avail, eof, stdio, read_cnt, rset, wset, stdineof, toiptr, tooptr,
                      fin, c2s, hold, s2c, srv, sfin, ended>>
  BY DEF Fputs, user, hidden, sel, to, net
<1>2. PICK k \in printable :
        /\ prints(k) /\ rpc = "fputs" /\ UNCHANGED mpc
        /\ rpc' = IF froptr + k = friptr THEN "readline" ELSE "fputs"
  BY DEF Fputs, at, goto
<1>3. PICK o2 \in Nat, i2 \in Nat :
        /\ froptr' = o2 /\ friptr' = i2 /\ o2 <= i2 /\ i2 <= friptr
        /\ i2 - o2 = (friptr - froptr) - k
        /\ froptr + k = friptr => o2 = 0 /\ i2 = 0
  BY <1>2, Prints
<1>4. k \in Nat /\ 1 <= k /\ k <= friptr - froptr /\ printed' = printed + k
  BY <1>2, Prints
<1>5. PICK o \in Nat : out' = o /\ o <= OutCap
  BY <1>2, Prints
<1>6. /\ client \in TwoLoops /\ UNCHANGED mpc /\ mpc \in {"fgets", "writen", "pause"}
      /\ rpc' = "fputs" \/ (friptr' = 0 /\ froptr' = 0 /\ rpc' = "readline")
  BY <1>2, <1>3 DEF EchoIInv, Places
<1>7. Kinds'
  BY <1>1, <1>3, <1>4, <1>5, <1>6 DEF EchoIInv, Kinds
<1>8. Flags'
  BY <1>1, <1>3, <1>4, <1>5, <1>6 DEF EchoIInv, Flags
<1>9. Sizes'
  BY <1>1, <1>3, <1>4, <1>5, <1>6, EchoAssumption DEF EchoIInv, Sizes
<1>10. Conserved'
  BY <1>1, <1>3, <1>4, <1>5, <1>6 DEF EchoIInv, Sizes, Conserved, inFlight
<1>11. Places'
  BY <1>1, <1>6 DEF EchoIInv, Places, TwoLoops
<1>12. Buffers'
  BY <1>1, <1>2, <1>6 DEF EchoIInv, Buffers, Places, TwoLoops
<1>13. Lockstep'
  <2>1. client = "str_cli" => inFlight <= 1
    BY DEF EchoIInv, Lockstep
  <2>2. client = "str_cli" => inFlight' = 0
    BY <1>1, <1>3, <1>4, <2>1 DEF EchoIInv, Sizes, inFlight
  <2>. QED BY <1>1, <2>2 DEF Lockstep
<1>14. InputEnd'
  BY <1>1, <1>3, <1>4, <1>5, <1>6 DEF EchoIInv, Sizes, Places, InputEnd
<1>15. ServerEnd'
  BY <1>1, <1>3, <1>4, <1>5, <1>6 DEF EchoIInv, ServerEnd
<1>16. FinLast'
  BY <1>1, <1>3, <1>4, <1>5, <1>6 DEF EchoIInv, FinLast
<1>17. Finished'
  BY <1>1, <1>3, <1>4, <1>5, <1>6, StillOn
<1>. QED BY <1>7, <1>8, <1>9, <1>10, <1>11, <1>12, <1>13, <1>14, <1>15, <1>16, <1>17 DEF EchoIInv

-----------------------------------------------------------------------------
(* The steps of strcliselect01, strcliselect02 and strclinonb *)

\* select() returns to strcliselect01 or strcliselect02.
LEMMA EchoSelectStep == EchoIInv /\ Select => EchoIInv'
<1> SUFFICES ASSUME EchoIInv, Select PROVE EchoIInv'
  OBVIOUS
<1>1. /\ ended = "no" /\ mpc = "select"
      /\ UNCHANGED <<client, left, avail, eof, stdio, read_cnt, rpc, wset, stdineof, toiptr, tooptr,
                      friptr, froptr, fin, c2s, hold, s2c, srv, sfin, out, printed, ended>>
  BY DEF Select, user, hidden, to, fr, net, term
<1>2. \/ client = "select01" /\ mpc' \in {"readline", "fgets"}
      \/ client = "select02" /\ mpc' \in {"sock", "input"}
  BY DEF Select
<1>3. client \notin TwoLoops /\ rpc = "none"
  BY <1>2 DEF EchoIInv, Places, TwoLoops
<1>4. Kinds'
  BY <1>1, <1>2, <1>3 DEF EchoIInv, Kinds
<1>5. Flags'
  BY <1>1, <1>2, <1>3 DEF EchoIInv, Flags
<1>6. Sizes'
  BY <1>1, <1>2, <1>3, EchoAssumption DEF EchoIInv, Sizes
<1>7. Conserved'
  BY <1>1, <1>2, <1>3 DEF EchoIInv, Sizes, Conserved, inFlight
<1>8. Places'
  BY <1>1, <1>2, <1>3 DEF EchoIInv, Kinds, Places, TwoLoops
<1>9. Buffers'
  BY <1>1, <1>2, <1>3 DEF EchoIInv, Kinds, Places, Buffers, TwoLoops
<1>10. Lockstep'
  BY <1>1, <1>2, <1>3 DEF EchoIInv, Sizes, Places, Lockstep, inFlight
<1>11. InputEnd'
  BY <1>1, <1>2, <1>3 DEF EchoIInv, Sizes, Places, InputEnd
<1>12. ServerEnd'
  BY <1>1, <1>2, <1>3 DEF EchoIInv, ServerEnd
<1>13. FinLast'
  BY <1>1, <1>2, <1>3 DEF EchoIInv, FinLast
<1>14. Finished'
  BY <1>1, <1>2, <1>3, StillOn
<1>. QED BY <1>4, <1>5, <1>6, <1>7, <1>8, <1>9, <1>10, <1>11, <1>12, <1>13, <1>14 DEF EchoIInv

\* strcliselect02 reads from the socket.
LEMMA ReadSockGets ==
  ASSUME EchoIInv, ReadSock, mpc' = "fputs", UNCHANGED ended,
         \E k \in upTo({s2c, MAXLINE}) : s2c' = s2c - k /\ friptr' = k
  PROVE  EchoIInv'
<1>1. /\ ended = "no" /\ ended' = "no" /\ mpc = "sock" /\ client = "select02" /\ mpc' = "fputs"
      /\ UNCHANGED <<client, left, avail, eof, stdio, read_cnt, rpc, rset, wset, stdineof, toiptr,
                      tooptr, froptr, fin, c2s, hold, srv, sfin, out, printed>>
  BY DEF ReadSock, user, hidden, sel, to, term
<1>2. friptr = 0 /\ froptr = 0 /\ rpc = "none"
  BY <1>1 DEF EchoIInv, Places, Buffers, TwoLoops
<1>3. PICK r \in Nat, i \in Nat : s2c' = r /\ friptr' = i /\ r + i = s2c /\ i <= MAXLINE /\ r <= Cap
  <2>1. s2c \in Nat /\ s2c <= Cap /\ MAXLINE \in Nat /\ Cap \in Nat
    BY EchoAssumption DEF EchoIInv, Sizes
  <2>2. PICK k \in Nat : k <= s2c /\ k <= MAXLINE /\ s2c' = s2c - k /\ friptr' = k
    BY <2>1, UpTo DEF upTo
  <2>. QED BY <2>1, <2>2
<1>4. Kinds'
  BY <1>1, <1>2, <1>3 DEF EchoIInv, Kinds
<1>5. Flags'
  BY <1>1, <1>2, <1>3 DEF EchoIInv, Flags
<1>6. Sizes'
  BY <1>1, <1>2, <1>3, EchoAssumption DEF EchoIInv, Sizes
<1>7. Conserved'
  BY <1>1, <1>2, <1>3 DEF EchoIInv, Sizes, Conserved, inFlight
<1>8. Places'
  BY <1>1, <1>2, <1>3 DEF EchoIInv, Kinds, Places, TwoLoops
<1>9. Buffers'
  BY <1>1, <1>2, <1>3 DEF EchoIInv, Kinds, Places, Buffers, TwoLoops
<1>10. Lockstep'
  BY <1>1, <1>2, <1>3 DEF EchoIInv, Sizes, Places, Lockstep, inFlight
<1>11. InputEnd'
  BY <1>1, <1>2, <1>3 DEF EchoIInv, Sizes, Places, InputEnd
<1>12. ServerEnd'
  BY <1>1, <1>2, <1>3 DEF EchoIInv, ServerEnd
<1>13. FinLast'
  BY <1>1, <1>2, <1>3 DEF EchoIInv, FinLast
<1>14. Finished'
  BY <1>1, <1>2, <1>3, StillOn
<1>. QED BY <1>4, <1>5, <1>6, <1>7, <1>8, <1>9, <1>10, <1>11, <1>12, <1>13, <1>14 DEF EchoIInv

\* strcliselect02 or strclinonb finds the end of the connection.
LEMMA SockFindsEnd ==
  ASSUME EchoIInv, SockEnds, client \in {"select02", "nonb"}, s2c = 0,
         UNCHANGED mpc \/ (client = "nonb" /\ mpc = "sock" /\ mpc' = "out"),
         UNCHANGED <<client, left, avail, eof, stdio, read_cnt, rpc, rset, wset, stdineof, toiptr,
                      tooptr, friptr, froptr, fin, c2s, hold, s2c, srv, sfin, out, printed>>
  PROVE  EchoIInv'
<1>1. client \in {"select02", "nonb"} /\ s2c = 0
  OBVIOUS
<1>2. ended' \in {"return", "abort"} /\ (ended' = "return" => sfin = "fin")
  BY DEF SockEnds, End
<1>3. stdio = 0 /\ read_cnt = 0
  BY <1>1 DEF EchoIInv, Buffers
<1>4. \/ UNCHANGED mpc
      \/ client = "nonb" /\ mpc = "sock" /\ mpc' = "out"
  OBVIOUS
<1>5. UNCHANGED <<client, left, avail, eof, stdio, read_cnt, rpc, rset, wset, stdineof, toiptr,
                 tooptr, friptr, froptr, fin, c2s, hold, s2c, srv, sfin, out, printed>>
  OBVIOUS
<1>6. Kinds'
  BY <1>2, <1>4, <1>5 DEF EchoIInv, Kinds
<1>7. Flags'
  BY <1>4, <1>5 DEF EchoIInv, Flags
<1>8. Sizes'
  BY <1>4, <1>5, EchoAssumption DEF EchoIInv, Sizes
<1>9. Conserved'
  BY <1>4, <1>5 DEF EchoIInv, Sizes, Conserved, inFlight
<1>10. Places'
  BY <1>4, <1>5 DEF EchoIInv, Kinds, Places, TwoLoops
<1>11. Buffers'
  BY <1>4, <1>5 DEF EchoIInv, Kinds, Places, Buffers, TwoLoops
<1>12. Lockstep'
  BY <1>4, <1>5 DEF EchoIInv, Sizes, Places, Lockstep, inFlight
<1>13. InputEnd'
  BY <1>4, <1>5 DEF EchoIInv, Sizes, Places, InputEnd
<1>14. ServerEnd'
  BY <1>4, <1>5 DEF EchoIInv, ServerEnd
<1>15. FinLast'
  BY <1>4, <1>5 DEF EchoIInv, FinLast
<1>16. Finished'
  <2>1. CASE srv = "gone"
    BY <1>1, <1>3, <1>5, <2>1 DEF EchoIInv, ServerEnd, FinLast, Finished
  <2>2. CASE srv = "run"
    BY <1>2, <1>5, <2>2 DEF EchoIInv, ServerEnd, Finished
  <2>. QED BY <1>5, <2>1, <2>2 DEF EchoIInv, Kinds, Finished
<1>. QED BY <1>6, <1>7, <1>8, <1>9, <1>10, <1>11, <1>12, <1>13, <1>14, <1>15, <1>16 DEF EchoIInv

\* strcliselect02 handles a readable socket.
LEMMA ReadSockStep == EchoIInv /\ ReadSock => EchoIInv'
<1> SUFFICES ASSUME EchoIInv, ReadSock PROVE EchoIInv'
  OBVIOUS
<1>1. CASE /\ mpc' = "fputs" /\ UNCHANGED ended
           /\ \E k \in upTo({s2c, MAXLINE}) : s2c' = s2c - k /\ friptr' = k
  BY <1>1, ReadSockGets
<1>2. CASE s2c = 0 /\ SockEnds /\ UNCHANGED <<s2c, friptr, mpc>>
  <2>1. client = "select02"
    BY DEF ReadSock
  <2>2. UNCHANGED <<client, left, avail, eof, stdio, read_cnt, rpc, rset, wset, stdineof, toiptr,
                      tooptr, friptr, froptr, fin, c2s, hold, s2c, srv, sfin, out, printed>>
    BY <1>2 DEF ReadSock, user, hidden, sel, to, term
  <2>. QED BY <1>2, <2>1, <2>2, SockFindsEnd
<1>. QED BY <1>1, <1>2 DEF ReadSock

\* strcliselect02 reads from standard input.
LEMMA ReadInputGets ==
  ASSUME EchoIInv, ReadInput, mpc' = "writen", UNCHANGED <<fin, stdineof>>,
         \E k \in upTo({avail, MAXLINE}) : avail' = avail - k /\ toiptr' = k
  PROVE  EchoIInv'
<1>1. /\ ended = "no" /\ mpc = "input" /\ mpc' = "writen" /\ client = "select02"
      /\ UNCHANGED <<client, left, eof, stdio, read_cnt, rpc, rset, wset, stdineof, tooptr, friptr,
                      froptr, fin, c2s, hold, s2c, srv, sfin, out, printed, ended>>
  BY DEF ReadInput, EchoIInv, Kinds, Designs, Places, TwoLoops, hidden, fr, term
<1>2. toiptr = 0 /\ tooptr = 0
  BY <1>1 DEF EchoIInv, Buffers
<1>3. PICK a \in Nat, i \in Nat : avail' = a /\ toiptr' = i /\ a + i = avail /\ 1 <= i /\ i <= MAXLINE
  <2>1. avail \in Nat /\ MAXLINE \in Nat
    BY EchoAssumption DEF EchoIInv, Sizes
  <2>2. PICK k \in Nat : 1 <= k /\ k <= avail /\ k <= MAXLINE /\ avail' = avail - k /\ toiptr' = k
    BY <2>1, UpTo DEF upTo
  <2>. QED BY <2>1, <2>2
<1>4. ~fin /\ ~stdineof
  <2>1. avail # 0
    BY <1>3 DEF EchoIInv, Sizes
  <2>. QED BY <2>1 DEF EchoIInv, FinLast, InputEnd
<1>5. Kinds'
  BY <1>1, <1>2, <1>3 DEF EchoIInv, Kinds
<1>6. Flags'
  BY <1>1, <1>2, <1>3 DEF EchoIInv, Flags
<1>7. Sizes'
  BY <1>1, <1>2, <1>3, EchoAssumption DEF EchoIInv, Sizes
<1>8. Conserved'
  BY <1>1, <1>2, <1>3 DEF EchoIInv, Sizes, Conserved, inFlight
<1>9. Places'
  BY <1>1, <1>2, <1>3 DEF EchoIInv, Kinds, Places, TwoLoops
<1>10. Buffers'
  BY <1>1, <1>2, <1>3 DEF EchoIInv, Kinds, Places, Buffers, TwoLoops
<1>11. Lockstep'
  BY <1>1, <1>2, <1>3 DEF EchoIInv, Sizes, Places, Lockstep, inFlight
<1>12. InputEnd'
  BY <1>1, <1>4 DEF InputEnd
<1>13. ServerEnd'
  BY <1>1, <1>2, <1>3 DEF EchoIInv, ServerEnd
<1>14. FinLast'
  BY <1>1, <1>4 DEF FinLast
<1>15. Finished'
  BY <1>1, <1>2, <1>3, StillOn
<1>. QED BY <1>5, <1>6, <1>7, <1>8, <1>9, <1>10, <1>11, <1>12, <1>13, <1>14, <1>15 DEF EchoIInv

\* strcliselect02 finds the end of the input and sends a FIN.
LEMMA ReadInputEnds ==
  ASSUME EchoIInv, ReadInput, avail = 0, eof, stdineof' = TRUE, fin' = TRUE, mpc' = "select",
         UNCHANGED <<avail, toiptr>>
  PROVE  EchoIInv'
<1>1. /\ ended = "no" /\ mpc = "input" /\ client = "select02" /\ rpc = "none"
      /\ UNCHANGED <<client, left, avail, eof, stdio, read_cnt, rpc, rset, wset, toiptr, tooptr, friptr,
                      froptr, c2s, hold, s2c, srv, sfin, out, printed, ended>>
  BY DEF ReadInput, EchoIInv, Kinds, Designs, Places, TwoLoops, hidden, fr, term
<1>2. toiptr = 0 /\ tooptr = 0 /\ stdio = 0
  BY <1>1 DEF EchoIInv, Buffers
<1>3. Kinds'
  BY <1>1, <1>2 DEF EchoIInv, Kinds
<1>4. Flags'
  BY <1>1, <1>2 DEF EchoIInv, Flags
<1>5. Sizes'
  BY <1>1, <1>2, EchoAssumption DEF EchoIInv, Sizes
<1>6. Conserved'
  BY <1>1, <1>2 DEF EchoIInv, Sizes, Conserved, inFlight
<1>7. Places'
  BY <1>1, <1>2 DEF EchoIInv, Kinds, Places, TwoLoops
<1>8. Buffers'
  BY <1>1, <1>2 DEF EchoIInv, Kinds, Places, Buffers, TwoLoops
<1>9. Lockstep'
  BY <1>1, <1>2 DEF EchoIInv, Sizes, Places, Lockstep, inFlight
<1>10. InputEnd'
  BY <1>1, <1>2 DEF InputEnd
<1>11. ServerEnd'
  BY <1>1, <1>2 DEF EchoIInv, ServerEnd
<1>12. FinLast'
  BY <1>1, <1>2 DEF EchoIInv, FinLast
<1>13. Finished'
  BY <1>1, <1>2, StillOn
<1>. QED BY <1>3, <1>4, <1>5, <1>6, <1>7, <1>8, <1>9, <1>10, <1>11, <1>12, <1>13 DEF EchoIInv

\* strcliselect02 handles readable input.
LEMMA ReadInputStep == EchoIInv /\ ReadInput => EchoIInv'
BY ReadInputGets, ReadInputEnds DEF ReadInput

\* select() returns to strclinonb.
LEMMA SelectNonbStep == EchoIInv /\ SelectNonb => EchoIInv'
<1> SUFFICES ASSUME EchoIInv, SelectNonb PROVE EchoIInv'
  OBVIOUS
<1>1. /\ ended = "no" /\ mpc = "select" /\ mpc' = "in" /\ client = "nonb"
      /\ UNCHANGED <<client, left, avail, eof, stdio, read_cnt, rpc, stdineof, toiptr, tooptr, friptr,
                      froptr, fin, c2s, hold, s2c, srv, sfin, out, printed, ended>>
  BY DEF SelectNonb, user, hidden, to, fr, net, term
<1>2. "in" \in rset' => avail > 0 \/ eof
  BY DEF SelectNonb, inReadable
<1>3. Kinds'
  BY <1>1 DEF EchoIInv, Kinds
<1>4. Flags'
  BY <1>1 DEF EchoIInv, Flags
<1>5. Sizes'
  BY <1>1, EchoAssumption DEF EchoIInv, Sizes
<1>6. Conserved'
  BY <1>1 DEF EchoIInv, Sizes, Conserved, inFlight
<1>7. Places'
  BY <1>1 DEF EchoIInv, Kinds, Places, TwoLoops
<1>8. Buffers'
  BY <1>1 DEF EchoIInv, Kinds, Places, Buffers, TwoLoops
<1>9. Lockstep'
  BY <1>1 DEF EchoIInv, Sizes, Places, Lockstep, inFlight
<1>10. InputEnd'
  BY <1>1, <1>2 DEF EchoIInv, InputEnd
<1>11. ServerEnd'
  BY <1>1 DEF EchoIInv, ServerEnd
<1>12. FinLast'
  BY <1>1 DEF EchoIInv, FinLast
<1>13. Finished'
  BY <1>1, StillOn
<1>. QED BY <1>3, <1>4, <1>5, <1>6, <1>7, <1>8, <1>9, <1>10, <1>11, <1>12, <1>13 DEF EchoIInv

\* strclinonb reads from standard input into what is free in to[].
LEMMA NonbInGets ==
  ASSUME EchoIInv, NonbIn, avail > 0, UNCHANGED <<fin, stdineof>>,
         NEW k \in Nat, k <= avail, k <= MAXLINE - toiptr,
         avail' = avail - k, toiptr' = toiptr + k
  PROVE  EchoIInv'
<1>1. /\ ended = "no" /\ mpc = "in" /\ mpc' = "sock" /\ client = "nonb"
      /\ UNCHANGED <<client, left, eof, stdio, read_cnt, rpc, rset, stdineof, tooptr, friptr, froptr,
                      fin, c2s, hold, s2c, srv, sfin, out, printed, ended>>
  BY DEF NonbIn, EchoIInv, Kinds, Designs, Places, TwoLoops, hidden, fr, term
<1>2. k \in Nat /\ k <= avail /\ k <= MAXLINE - toiptr /\ avail' = avail - k /\ toiptr' = toiptr + k
  OBVIOUS
<1>3. ~fin /\ ~stdineof
  <2>1. avail # 0
    BY DEF EchoIInv, Sizes
  <2>. QED BY <2>1 DEF EchoIInv, FinLast, InputEnd
<1>4. Kinds'
  BY <1>1, <1>2 DEF EchoIInv, Kinds
<1>5. Flags'
  BY <1>1, <1>2 DEF EchoIInv, Flags
<1>6. Sizes'
  BY <1>1, <1>2, EchoAssumption DEF EchoIInv, Sizes
<1>7. Conserved'
  <2>1. CASE srv = "dead"
    BY <1>1, <1>2, <2>1, EchoAssumption DEF EchoIInv, Sizes, Conserved, inFlight
  <2>2. CASE srv # "dead"
    BY <1>1, <1>2, <2>2 DEF EchoIInv, Sizes, Conserved, inFlight
  <2>. QED BY <2>1, <2>2
<1>8. Places'
  BY <1>1, <1>2 DEF EchoIInv, Kinds, Places, TwoLoops
<1>9. Buffers'
  BY <1>1, <1>2 DEF EchoIInv, Kinds, Places, Buffers, TwoLoops
<1>10. Lockstep'
  BY <1>1, <1>2 DEF EchoIInv, Sizes, Places, Lockstep, inFlight
<1>11. InputEnd'
  BY <1>1, <1>3 DEF InputEnd
<1>12. ServerEnd'
  BY <1>1, <1>2 DEF EchoIInv, ServerEnd
<1>13. FinLast'
  BY <1>1, <1>3 DEF FinLast
<1>14. Finished'
  BY <1>1, <1>2, StillOn
<1>. QED BY <1>4, <1>5, <1>6, <1>7, <1>8, <1>9, <1>10, <1>11, <1>12, <1>13, <1>14 DEF EchoIInv

\* strclinonb finds the end of the input; the FIN must wait if there is data in to[].
LEMMA NonbInEnds ==
  ASSUME EchoIInv, NonbIn, "in" \in rset, avail = 0, stdineof' = TRUE, fin' = finNow,
         UNCHANGED <<avail, toiptr, wset>>
  PROVE  EchoIInv'
<1>1. /\ ended = "no" /\ mpc = "in" /\ mpc' = "sock" /\ client = "nonb"
      /\ UNCHANGED <<client, left, avail, eof, stdio, read_cnt, rpc, rset, wset, toiptr, tooptr, friptr,
                      froptr, c2s, hold, s2c, srv, sfin, out, printed, ended>>
  BY DEF NonbIn, EchoIInv, Kinds, Designs, Places, TwoLoops, hidden, fr, term
<1>2. stdio = 0 /\ eof
  <2>1. ~ (avail > 0)
    OBVIOUS
  <2>. QED BY <1>1, <2>1 DEF EchoIInv, Buffers, InputEnd
<1>3. fin' = (tooptr = toiptr)
  BY DEF finNow
<1>4. Kinds'
  BY <1>1 DEF EchoIInv, Kinds
<1>5. Flags'
  BY <1>1, <1>3 DEF EchoIInv, Flags
<1>6. Sizes'
  BY <1>1, EchoAssumption DEF EchoIInv, Sizes
<1>7. Conserved'
  BY <1>1 DEF EchoIInv, Sizes, Conserved, inFlight
<1>8. Places'
  BY <1>1 DEF EchoIInv, Kinds, Places, TwoLoops
<1>9. Buffers'
  BY <1>1 DEF EchoIInv, Kinds, Places, Buffers, TwoLoops
<1>10. Lockstep'
  BY <1>1 DEF EchoIInv, Sizes, Places, Lockstep, inFlight
<1>11. InputEnd'
  BY <1>1, <1>2 DEF InputEnd
<1>12. ServerEnd'
  BY <1>1, <1>3 DEF EchoIInv, ServerEnd, FinLast
<1>13. FinLast'
  BY <1>1, <1>2, <1>3 DEF FinLast
<1>14. Finished'
  BY <1>1, StillOn
<1>. QED BY <1>4, <1>5, <1>6, <1>7, <1>8, <1>9, <1>10, <1>11, <1>12, <1>13, <1>14 DEF EchoIInv

\* strclinonb has no input to read.
LEMMA NonbInNot ==
  ASSUME EchoIInv, NonbIn, UNCHANGED <<avail, toiptr, wset, stdineof, fin>>
  PROVE  EchoIInv'
<1>1. /\ ended = "no" /\ mpc = "in" /\ mpc' = "sock" /\ client = "nonb"
      /\ UNCHANGED <<client, left, avail, eof, stdio, read_cnt, rpc, rset, wset, stdineof, toiptr,
                      tooptr, friptr, froptr, fin, c2s, hold, s2c, srv, sfin, out, printed, ended>>
  BY DEF NonbIn, EchoIInv, Kinds, Designs, Places, TwoLoops, hidden, fr, term
<1>2. Kinds'
  BY <1>1 DEF EchoIInv, Kinds
<1>3. Flags'
  BY <1>1 DEF EchoIInv, Flags
<1>4. Sizes'
  BY <1>1, EchoAssumption DEF EchoIInv, Sizes
<1>5. Conserved'
  BY <1>1 DEF EchoIInv, Sizes, Conserved, inFlight
<1>6. Places'
  BY <1>1 DEF EchoIInv, Kinds, Places, TwoLoops
<1>7. Buffers'
  BY <1>1 DEF EchoIInv, Kinds, Places, Buffers, TwoLoops
<1>8. Lockstep'
  BY <1>1 DEF EchoIInv, Sizes, Places, Lockstep, inFlight
<1>9. InputEnd'
  BY <1>1 DEF EchoIInv, Sizes, Places, InputEnd
<1>10. ServerEnd'
  BY <1>1 DEF EchoIInv, ServerEnd
<1>11. FinLast'
  BY <1>1 DEF EchoIInv, FinLast
<1>12. Finished'
  BY <1>1, StillOn
<1>. QED BY <1>2, <1>3, <1>4, <1>5, <1>6, <1>7, <1>8, <1>9, <1>10, <1>11, <1>12 DEF EchoIInv

\* strclinonb handles standard input.
LEMMA NonbInStep == EchoIInv /\ NonbIn => EchoIInv'
<1> SUFFICES ASSUME EchoIInv, NonbIn PROVE EchoIInv'
  OBVIOUS
<1>1. CASE /\ avail > 0 /\ UNCHANGED <<stdineof, fin>>
           /\ \E k \in upTo({avail, room}) : avail' = avail - k /\ toiptr' = toiptr + k
  <2>1. avail \in Nat /\ MAXLINE - toiptr \in Nat
    BY EchoAssumption DEF EchoIInv, Sizes
  <2>2. PICK k \in Nat : /\ k <= avail /\ k <= MAXLINE - toiptr
                         /\ avail' = avail - k /\ toiptr' = toiptr + k
    BY <1>1, <2>1, UpTo DEF upTo, room
  <2>. QED BY <1>1, <2>2, NonbInGets
<1>. QED BY <1>1, NonbInEnds, NonbInNot DEF NonbIn

\* strclinonb reads from the socket into what is free in fr[], or does not read.
LEMMA NonbSockGets ==
  ASSUME EchoIInv, NonbSock, UNCHANGED ended,
         \/ \E k \in upTo({s2c, MAXLINE - friptr}) : s2c' = s2c - k /\ friptr' = friptr + k
         \/ UNCHANGED <<s2c, friptr>>
  PROVE  EchoIInv'
<1>1. /\ ended = "no" /\ ended' = "no" /\ mpc = "sock" /\ mpc' = "out" /\ client = "nonb"
      /\ UNCHANGED <<client, left, avail, eof, stdio, read_cnt, rpc, rset, stdineof, toiptr, tooptr,
                      froptr, fin, c2s, hold, srv, sfin, out, printed>>
  BY DEF NonbSock, user, hidden, to, term
<1>2. PICK r \in Nat, i \in Nat : /\ s2c' = r /\ friptr' = i /\ r + i = s2c + friptr
                                 /\ froptr <= i /\ i <= MAXLINE /\ r <= Cap
  <2>1. /\ s2c \in Nat /\ s2c <= Cap /\ MAXLINE \in Nat /\ Cap \in Nat /\ friptr \in Nat /\ froptr \in Nat
        /\ froptr <= friptr /\ friptr <= MAXLINE /\ MAXLINE - friptr \in Nat
    BY EchoAssumption DEF EchoIInv, Sizes
  <2>2. CASE \E k \in upTo({s2c, MAXLINE - friptr}) : s2c' = s2c - k /\ friptr' = friptr + k
    <3>1. PICK k \in Nat : k <= s2c /\ k <= MAXLINE - friptr /\ s2c' = s2c - k /\ friptr' = friptr + k
      BY <2>1, <2>2, UpTo DEF upTo
    <3>. QED BY <2>1, <3>1
  <2>3. CASE UNCHANGED <<s2c, friptr>>
    BY <2>1, <2>3
  <2>. QED BY <2>2, <2>3
<1>3. Kinds'
  BY <1>1, <1>2 DEF EchoIInv, Kinds
<1>4. Flags'
  BY <1>1, <1>2 DEF EchoIInv, Flags
<1>5. Sizes'
  BY <1>1, <1>2, EchoAssumption DEF EchoIInv, Sizes
<1>6. Conserved'
  BY <1>1, <1>2 DEF EchoIInv, Sizes, Conserved, inFlight
<1>7. Places'
  BY <1>1, <1>2 DEF EchoIInv, Kinds, Places, TwoLoops
<1>8. Buffers'
  BY <1>1, <1>2 DEF EchoIInv, Kinds, Places, Buffers, TwoLoops
<1>9. Lockstep'
  BY <1>1, <1>2 DEF EchoIInv, Sizes, Places, Lockstep, inFlight
<1>10. InputEnd'
  BY <1>1, <1>2 DEF EchoIInv, Sizes, Places, InputEnd
<1>11. ServerEnd'
  BY <1>1, <1>2 DEF EchoIInv, ServerEnd
<1>12. FinLast'
  BY <1>1, <1>2 DEF EchoIInv, FinLast
<1>13. Finished'
  BY <1>1, <1>2, StillOn
<1>. QED BY <1>3, <1>4, <1>5, <1>6, <1>7, <1>8, <1>9, <1>10, <1>11, <1>12, <1>13 DEF EchoIInv

\* strclinonb handles the socket.
LEMMA NonbSockStep == EchoIInv /\ NonbSock => EchoIInv'
<1> SUFFICES ASSUME EchoIInv, NonbSock PROVE EchoIInv'
  OBVIOUS
<1>1. CASE /\ UNCHANGED ended
           /\ \/ \E k \in upTo({s2c, MAXLINE - friptr}) : s2c' = s2c - k /\ friptr' = friptr + k
              \/ UNCHANGED <<s2c, friptr>>
  BY <1>1, NonbSockGets
<1>2. CASE s2c = 0 /\ SockEnds /\ UNCHANGED <<s2c, friptr, wset>>
  <2>1. client = "nonb" /\ mpc = "sock" /\ mpc' = "out"
    BY DEF NonbSock
  <2>2. UNCHANGED <<client, left, avail, eof, stdio, read_cnt, rpc, rset, wset, stdineof, toiptr,
                      tooptr, friptr, froptr, fin, c2s, hold, s2c, srv, sfin, out, printed>>
    BY <1>2 DEF NonbSock, user, hidden, sel, to, term
  <2>. QED BY <1>2, <2>1, <2>2, SockFindsEnd
<1>. QED BY <1>1, <1>2 DEF NonbSock

\* strclinonb writes to standard output what it takes, or nothing.
LEMMA NonbOutStep == EchoIInv /\ NonbOut => EchoIInv'
<1> SUFFICES ASSUME EchoIInv, NonbOut PROVE EchoIInv'
  OBVIOUS
<1>1. /\ ended = "no" /\ mpc = "out" /\ mpc' = "net" /\ client = "nonb"
      /\ UNCHANGED <<client, left, avail, eof, stdio, read_cnt, rpc, rset, wset, stdineof, toiptr,
                      tooptr, fin, c2s, hold, s2c, srv, sfin, ended>>
  BY DEF NonbOut, EchoIInv, Kinds, Designs, Places, TwoLoops, user, hidden, sel, to, net
<1>2. PICK o2 \in Nat, i2 \in Nat, o \in Nat, k \in Nat :
        /\ froptr' = o2 /\ friptr' = i2 /\ o2 <= i2 /\ i2 <= MAXLINE /\ out' = o /\ o <= OutCap
        /\ printed' = printed + k /\ i2 - o2 = (friptr - froptr) - k
  <2>1. /\ friptr \in Nat /\ froptr \in Nat /\ froptr <= friptr /\ friptr <= MAXLINE /\ MAXLINE \in Nat
        /\ out \in Nat /\ out <= OutCap /\ printed \in Nat
    BY EchoAssumption DEF EchoIInv, Sizes
  <2>2. CASE \E k \in printable : prints(k)
    <3>1. PICK k \in printable : prints(k)
      BY <2>2
    <3>2. PICK o2 \in Nat, i2 \in Nat :
            /\ froptr' = o2 /\ friptr' = i2 /\ o2 <= i2 /\ i2 <= friptr
            /\ i2 - o2 = (friptr - froptr) - k
      BY <3>1, Prints
    <3>3. k \in Nat /\ printed' = printed + k
      BY <3>1, Prints
    <3>4. PICK o \in Nat : out' = o /\ o <= OutCap
      BY <3>1, Prints
    <3>5. i2 <= MAXLINE
      BY <2>1, <3>2
    <3>. QED BY <3>2, <3>3, <3>4, <3>5
  <2>3. CASE UNCHANGED <<fr, term>>
    <3>1. /\ froptr' = froptr /\ friptr' = friptr /\ out' = out /\ printed' = printed + 0
          /\ friptr - froptr = (friptr - froptr) - 0
      BY <2>1, <2>3 DEF fr, term
    <3>. QED BY <2>1, <3>1
  <2>. QED BY <2>2, <2>3 DEF NonbOut
<1>3. Kinds'
  BY <1>1, <1>2 DEF EchoIInv, Kinds
<1>4. Flags'
  BY <1>1, <1>2 DEF EchoIInv, Flags
<1>5. Sizes'
  BY <1>1, <1>2, EchoAssumption DEF EchoIInv, Sizes
<1>6. Conserved'
  BY <1>1, <1>2 DEF EchoIInv, Sizes, Conserved, inFlight
<1>7. Places'
  BY <1>1, <1>2 DEF EchoIInv, Kinds, Places, TwoLoops
<1>8. Buffers'
  BY <1>1, <1>2 DEF EchoIInv, Kinds, Places, Buffers, TwoLoops
<1>9. Lockstep'
  BY <1>1, <1>2 DEF EchoIInv, Sizes, Places, Lockstep, inFlight
<1>10. InputEnd'
  BY <1>1, <1>2 DEF EchoIInv, Sizes, Places, InputEnd
<1>11. ServerEnd'
  BY <1>1, <1>2 DEF EchoIInv, ServerEnd
<1>12. FinLast'
  BY <1>1, <1>2 DEF EchoIInv, FinLast
<1>13. Finished'
  BY <1>1, <1>2, StillOn
<1>. QED BY <1>3, <1>4, <1>5, <1>6, <1>7, <1>8, <1>9, <1>10, <1>11, <1>12, <1>13 DEF EchoIInv

\* strclinonb writes to the socket; the FIN follows the last line.
LEMMA NonbNetSends ==
  ASSUME EchoIInv, NonbNet, NEW k \in sendable, writes(k),
         fin' = (fin \/ (stdineof /\ tooptr + k = toiptr))
  PROVE  EchoIInv'
<1>1. /\ ended = "no" /\ mpc = "net" /\ mpc' = "select" /\ client = "nonb"
      /\ UNCHANGED <<client, left, avail, eof, stdio, read_cnt, rpc, rset, wset, stdineof, friptr,
                      froptr, hold, s2c, srv, out, printed, ended>>
  BY DEF NonbNet, EchoIInv, Kinds, Designs, Places, TwoLoops, user, hidden, sel, fr, term
<1>2. PICK o2 \in Nat, i2 \in Nat :
        /\ tooptr' = o2 /\ toiptr' = i2 /\ o2 <= i2 /\ i2 <= toiptr
        /\ i2 - o2 = (toiptr - tooptr) - k
        /\ tooptr + k = toiptr => o2 = 0 /\ i2 = 0
  BY Writes
<1>3. /\ k \in Nat /\ k <= toiptr - tooptr /\ c2s' \in Nat /\ c2s' <= Cap
      /\ (srv = "run" => c2s' = c2s + k) /\ (srv # "run" => c2s' = c2s) /\ (srv = "gone" => k = 0)
  BY Writes
<1>4. sfin' \in {"no", "fin", "rst"} /\ (srv = "run" => sfin' = sfin)
  BY Writes
<1>5. PICK c \in Nat : c2s' = c /\ c <= Cap /\ c <= c2s + k /\ (srv # "dead" => c = c2s + k)
  BY <1>3 DEF EchoIInv, Sizes, Kinds
<1>6. k \in Nat
  BY <1>3
<1>7. fin' \in BOOLEAN /\ (fin => fin')
  BY DEF EchoIInv, Flags
<1>8. fin' => toiptr' = tooptr' /\ (fin \/ stdineof)
  <2>1. toiptr = tooptr => toiptr' = tooptr'
    BY <1>2, <1>3 DEF EchoIInv, Sizes
  <2>2. tooptr + k = toiptr => toiptr' = tooptr'
    BY <1>2
  <2>. QED BY <2>1, <2>2 DEF EchoIInv, FinLast
<1>9. Kinds'
  BY <1>1, <1>4 DEF EchoIInv, Kinds
<1>10. Flags'
  BY <1>1, <1>7 DEF EchoIInv, Flags
<1>11. Sizes'
  BY <1>1, <1>2, <1>5, EchoAssumption DEF EchoIInv, Sizes
<1>12. Conserved'
  <2>1. CASE srv = "dead"
    BY <1>1, <1>2, <1>5, <1>6, <2>1, EchoAssumption DEF EchoIInv, Sizes, Conserved, inFlight
  <2>2. CASE srv # "dead"
    BY <1>1, <1>2, <1>5, <1>6, <2>2 DEF EchoIInv, Sizes, Conserved, inFlight
  <2>. QED BY <2>1, <2>2
<1>13. Places'
  BY <1>1 DEF EchoIInv, Kinds, Places, TwoLoops
<1>14. Buffers'
  BY <1>1 DEF EchoIInv, Kinds, Places, Buffers, TwoLoops
<1>15. Lockstep'
  BY <1>1 DEF EchoIInv, Sizes, Places, Lockstep, inFlight
<1>16. InputEnd'
  BY <1>1 DEF EchoIInv, Sizes, Places, InputEnd
<1>17. ServerEnd'
  BY <1>1, <1>3, <1>4, <1>7 DEF EchoIInv, ServerEnd
<1>18. FinLast'
  BY <1>1, <1>8 DEF EchoIInv, FinLast, InputEnd
<1>19. Finished'
  BY <1>1, StillOn
<1>. QED BY <1>9, <1>10, <1>11, <1>12, <1>13, <1>14, <1>15, <1>16, <1>17, <1>18, <1>19 DEF EchoIInv

\* strclinonb has nothing to write to the socket, or cannot.
LEMMA NonbNetNot ==
  ASSUME EchoIInv, NonbNet, UNCHANGED <<to, fin, c2s, sfin>>
  PROVE  EchoIInv'
<1>1. /\ ended = "no" /\ mpc = "net" /\ mpc' = "select" /\ client = "nonb"
      /\ UNCHANGED <<client, left, avail, eof, stdio, read_cnt, rpc, rset, wset, stdineof, toiptr,
                      tooptr, friptr, froptr, fin, c2s, hold, s2c, srv, sfin, out, printed, ended>>
  BY DEF NonbNet, EchoIInv, Kinds, Designs, Places, TwoLoops, user, hidden, sel, to, fr, term
<1>2. Kinds'
  BY <1>1 DEF EchoIInv, Kinds
<1>3. Flags'
  BY <1>1 DEF EchoIInv, Flags
<1>4. Sizes'
  BY <1>1, EchoAssumption DEF EchoIInv, Sizes
<1>5. Conserved'
  BY <1>1 DEF EchoIInv, Sizes, Conserved, inFlight
<1>6. Places'
  BY <1>1 DEF EchoIInv, Kinds, Places, TwoLoops
<1>7. Buffers'
  BY <1>1 DEF EchoIInv, Kinds, Places, Buffers, TwoLoops
<1>8. Lockstep'
  BY <1>1 DEF EchoIInv, Sizes, Places, Lockstep, inFlight
<1>9. InputEnd'
  BY <1>1 DEF EchoIInv, Sizes, Places, InputEnd
<1>10. ServerEnd'
  BY <1>1 DEF EchoIInv, ServerEnd
<1>11. FinLast'
  BY <1>1 DEF EchoIInv, FinLast
<1>12. Finished'
  BY <1>1, StillOn
<1>. QED BY <1>2, <1>3, <1>4, <1>5, <1>6, <1>7, <1>8, <1>9, <1>10, <1>11, <1>12 DEF EchoIInv

\* strclinonb handles the socket's other direction.
LEMMA NonbNetStep == EchoIInv /\ NonbNet => EchoIInv'
BY NonbNetSends, NonbNetNot DEF NonbNet

-----------------------------------------------------------------------------
(* The theorem *)

\* All counts are zero when a client starts.
LEMMA EchoIInvInit == EchoInit => EchoIInv
<1> SUFFICES ASSUME EchoInit PROVE EchoIInv
  OBVIOUS
<1>1. Kinds /\ Places
  BY DEF EchoInit, Kinds, Places, Designs, TwoLoops, start
<1>2. Flags
  BY DEF EchoInit, Flags
<1>3. Sizes /\ Conserved
  BY EchoAssumption DEF EchoInit, Sizes, Conserved, inFlight
<1>4. Buffers /\ Lockstep /\ ServerEnd /\ Finished
  BY DEF EchoInit, Buffers, Lockstep, inFlight, ServerEnd, Finished
<1>5. InputEnd /\ FinLast
  BY DEF EchoInit, InputEnd, FinLast
<1>. QED BY <1>1, <1>2, <1>3, <1>4, <1>5 DEF EchoIInv

\* Every step keeps the invariant.
LEMMA EchoIInvStep == EchoIInv /\ [EchoNext]_echovars => EchoIInv'
<1> SUFFICES ASSUME EchoIInv, [EchoNext]_echovars PROVE EchoIInv'
  OBVIOUS
<1>1. CASE Type \/ TypeEof \/ Drain \/ str_echo \/ ServerDies
  BY <1>1, TypeStep, TypeEofStep, DrainStep, str_echoStep, ServerDiesStep
<1>2. CASE MainLoopStep
  <2>1. CASE FgetsLine \/ FgetsEof \/ Writen \/ WriteFails
    BY <2>1, FgetsLineStep, FgetsEofStep, WritenStep, WriteFailsStep
  <2>2. CASE Readline("main")
    BY <2>2, ReadlineStep
  <2>3. CASE Fputs("main", IF client = "str_cli" THEN "fgets" ELSE afterSock)
    BY <2>3, FputsMainStep
  <2>4. CASE Select \/ ReadSock \/ ReadInput
    BY <2>4, EchoSelectStep, ReadSockStep, ReadInputStep
  <2>5. CASE SelectNonb \/ NonbIn \/ NonbSock \/ NonbOut \/ NonbNet
    BY <2>5, SelectNonbStep, NonbInStep, NonbSockStep, NonbOutStep, NonbNetStep
  <2>. QED BY <1>2, <2>1, <2>2, <2>3, <2>4, <2>5 DEF MainLoopStep
<1>3. CASE ReceiverStep
  BY <1>3, ReadlineStep, FputsReceiverStep DEF ReceiverStep
<1>4. CASE UNCHANGED echovars
  <2>1. UNCHANGED <<client, left, avail, eof, stdio, read_cnt, mpc, rpc, rset, wset, stdineof, toiptr,
                      tooptr, friptr, froptr, fin, c2s, hold, s2c, srv, sfin, out, printed, ended>>
    BY <1>4 DEF echovars, user, hidden, sel, to, fr, net, term
  <2>2. Kinds' /\ Flags' /\ Sizes' /\ Conserved' /\ Places' /\ Buffers'
    BY <2>1 DEF EchoIInv, Kinds, Flags, Sizes, Conserved, inFlight, Places, Buffers
  <2>3. Lockstep' /\ InputEnd' /\ ServerEnd' /\ FinLast' /\ Finished'
    BY <2>1 DEF EchoIInv, Lockstep, inFlight, InputEnd, ServerEnd, FinLast, Finished
  <2>. QED BY <2>2, <2>3 DEF EchoIInv
<1>. QED BY <1>1, <1>2, <1>3, <1>4 DEF EchoNext

\* In all six clients, whatever the sizes of buffers, network and terminal: buffer
\* pointers never cross, the FIN never overtakes data, and a client that ends without
\* a complaint has printed the echo of everything the user typed.
THEOREM NothingLostCorrect == EchoSpec => []NothingLost
<1>1. EchoIInv => NothingLost
  <2> SUFFICES ASSUME EchoIInv PROVE NothingLost
    OBVIOUS
  <2>1. EchoTypeOK
    <3>1. /\ left \in 0..NLines /\ avail \in 0..NLines /\ stdio \in 0..NLines /\ printed \in 0..NLines
          /\ read_cnt \in 0..MAXLINE /\ c2s \in 0..Cap /\ s2c \in 0..Cap /\ hold \in 0..MAXLINE
          /\ tooptr \in 0..toiptr /\ toiptr \in 0..MAXLINE /\ froptr \in 0..friptr
          /\ friptr \in 0..MAXLINE /\ out \in 0..OutCap
      BY EchoAssumption DEF EchoIInv, Sizes, Conserved, inFlight
    <3>2. eof \in BOOLEAN
      BY DEF EchoIInv, Flags
    <3>. QED BY <3>1, <3>2 DEF EchoIInv, Kinds, EchoTypeOK
  <2>2. AllPrinted
    BY EchoAssumption DEF EchoIInv, Sizes, Conserved, inFlight, Finished, AllPrinted
  <2>. QED BY <2>1, <2>2 DEF EchoIInv, NothingLost
<1>. QED BY <1>1, EchoIInvInit, EchoIInvStep, PTL DEF EchoSpec
=============================================================================
