--------------------------- MODULE UdpEchoProofs ----------------------------
(***************************************************************************)
(* Theorems about UdpEcho: the client of unpv1e3/rtt and the server of     *)
(* unpv1e3/sigio over an unreliable network, for any number of lines and   *)
(* retransmissions and any ring.                                           *)
(***************************************************************************)
EXTENDS UdpEcho, FiniteSetTheorems, SequenceTheorems, TLAPS

\* a request and its answer differ in their direction only
toClient(m) == [m EXCEPT !.to = "client"]
toServer(m) == [m EXCEPT !.to = "server"]

-----------------------------------------------------------------------------
(* The inductive invariant.                                                 *)

Sends == RTT_MAXNREXMT + 1

\* What the client knows of the line it sends: how often it is on the network,
\* that a new timestamp is a new one, and that jmpbuf names this call's frame
\* from the first sigsetjmp() on.
CallFacts ==
    /\ IsFiniteSet(net)
    /\ \A m \in inFlight("server") : m.seq <= seq /\ m.ts <= ts
    /\ at = "fgets" => ts <= seq * Sends
    /\ at = "send" =>
         /\ seq >= 1 /\ nrexmt <= RTT_MAXNREXMT
         /\ ts <= (seq - 1) * Sends + nrexmt /\ Cardinality(transmissions) = nrexmt
    /\ at \in {"armed", "recv", "got"} =>
         /\ seq >= 1 /\ nrexmt <= RTT_MAXNREXMT
         /\ ts <= (seq - 1) * Sends + nrexmt + 1 /\ Cardinality(transmissions) = nrexmt + 1
    /\ at \in {"send", "armed"} /\ jmpbuf # "live" => nrexmt = 0
    /\ at = "got" => recvhdr \in inFlight("client") /\ recvhdr.seq = seq

\* What is in the socket and in the occupied slots of the ring was sent by the
\* client, iput is the slot after them, and the loop sends from a ring that is
\* not empty.
Ring ==
    /\ \A i \in 1..Len(sock) : sock[i] \in inFlight("server")
    /\ main \in {"send", "sent"} => nqueue >= 1
    /\ iput = (iget + queued) % QSIZE
    /\ \A k \in 0..(queued - 1) : dg[(iget + k) % QSIZE] \in inFlight("server")

\* every answer on the network has its request there
Answers == \A m \in inFlight("client") : toServer(m) \in net

IInv == CallInv /\ CallFacts /\ Ring /\ Answers

-----------------------------------------------------------------------------
(* Messages and slots *)

\* The answer to a request carries its numbers back.
LEMMA RequestFacts ==
  ASSUME NEW m \in Requests
  PROVE  /\ m.to = "server" /\ m.seq \in 1..Lines /\ m.ts \in 1..(Lines * Sends)
         /\ toClient(m) \in Replies /\ toClient(m).to = "client"
         /\ toServer(toClient(m)) = m
  BY DEF Requests, Replies, toClient, toServer, Sends

\* An answer names the request it answers.
LEMMA ReplyFacts ==
  ASSUME NEW r \in Replies
  PROVE  /\ r.to = "client" /\ r.seq \in 1..Lines
         /\ toServer(r) \in Requests /\ toServer(r) = Request(r.seq, r.ts)
<1>1. PICK m \in Requests : r = toClient(m)
  BY DEF Replies, toClient
<1>2. r = [to |-> "client", seq |-> m.seq, ts |-> m.ts]
  BY <1>1 DEF Requests, toClient
<1>3. m = [to |-> "server", seq |-> m.seq, ts |-> m.ts]
  BY DEF Requests
<1>4. toServer(r) = m
  BY <1>2, <1>3 DEF toServer
<1>. QED BY <1>2, <1>3, <1>4 DEF Request, Requests

\* Requests go to the server and answers to the client.
LEMMA InFlight ==
  ASSUME net \subseteq Requests \cup Replies
  PROVE  /\ inFlight("server") = net \cap Requests
         /\ inFlight("client") = net \cap Replies
  BY RequestFacts, ReplyFacts DEF inFlight

\* The slots of the ring, without the remainder.
LEMMA SlotValue ==
  ASSUME NEW i \in Slots, NEW k \in 0..QSIZE
  PROVE  /\ (i + k) % QSIZE = IF i + k < QSIZE THEN i + k ELSE i + k - QSIZE
         /\ (i + k) % QSIZE \in Slots
<1>1. QSIZE \in Nat \ {0} /\ i \in Nat /\ k \in Nat /\ i < QSIZE /\ k <= QSIZE
  BY SigioAssumption DEF Slots
<1> DEFINE r == (i + k) % QSIZE
<1>2. (i + k < QSIZE => r = i + k) /\ (i + k >= QSIZE => r = (i + k) - QSIZE)
  BY <1>1
<1> HIDE DEF r
<1>3. r = IF i + k < QSIZE THEN i + k ELSE i + k - QSIZE
  BY <1>1, <1>2
<1>4. r \in Slots
  BY <1>1, <1>2 DEF Slots
<1>. QED BY <1>3, <1>4 DEF r

\* wrap() goes round the ring: the slots counted from the next one are those
\* counted from this one, shifted.
LEMMA SlotShift ==
  ASSUME NEW i \in Slots
  PROVE  /\ wrap(i + 1) \in Slots /\ wrap(i + 1) = (i + 1) % QSIZE
         /\ \A k \in 0..(QSIZE - 1) : (wrap(i + 1) + k) % QSIZE = (i + (k + 1)) % QSIZE
<1>1. QSIZE \in Nat \ {0} /\ i \in Nat /\ i < QSIZE
  BY SigioAssumption DEF Slots
<1>2. wrap(i + 1) \in Slots /\ wrap(i + 1) = (i + 1) % QSIZE
  <2>1. 1 \in 0..QSIZE
    BY <1>1
  <2>2. (i + 1) % QSIZE = IF i + 1 < QSIZE THEN i + 1 ELSE i + 1 - QSIZE
    BY <2>1, SlotValue
  <2>3. wrap(i + 1) \in Slots
    BY <1>1 DEF wrap, Slots
  <2>. QED BY <1>1, <2>2, <2>3 DEF wrap
<1>3. ASSUME NEW k \in 0..(QSIZE - 1)
      PROVE  (wrap(i + 1) + k) % QSIZE = (i + (k + 1)) % QSIZE
  <2>1. k \in 0..QSIZE /\ k + 1 \in 0..QSIZE
    BY <1>1
  <2>2. (wrap(i + 1) + k) % QSIZE
          = IF wrap(i + 1) + k < QSIZE THEN wrap(i + 1) + k ELSE wrap(i + 1) + k - QSIZE
    BY <1>2, <2>1, SlotValue
  <2>3. (i + (k + 1)) % QSIZE = IF i + (k + 1) < QSIZE THEN i + (k + 1) ELSE i + (k + 1) - QSIZE
    BY <2>1, SlotValue
  <2>. QED BY <1>1, <2>2, <2>3 DEF wrap
<1>. QED BY <1>2, <1>3

\* Fewer than QSIZE slots are all different.
LEMMA SlotsDiffer ==
  ASSUME NEW i \in Slots, NEW k \in 0..(QSIZE - 1), NEW j \in 0..(k - 1)
  PROVE  (i + j) % QSIZE # (i + k) % QSIZE
<1>1. QSIZE \in Nat \ {0} /\ i \in Nat /\ i < QSIZE /\ k \in 0..QSIZE /\ j \in 0..QSIZE
  BY SigioAssumption DEF Slots
<1>2. (i + k) % QSIZE = IF i + k < QSIZE THEN i + k ELSE i + k - QSIZE
  BY <1>1, SlotValue
<1>3. (i + j) % QSIZE = IF i + j < QSIZE THEN i + j ELSE i + j - QSIZE
  BY <1>1, SlotValue
<1>. QED BY <1>1, <1>2, <1>3

-----------------------------------------------------------------------------
(* The steps of the client *)

\* The timestamps of n lines and k transmissions of the next one are in range.
LEMMA TimestampsFit ==
  ASSUME NEW s \in 1..Lines
  PROVE  /\ Sends \in Nat /\ Lines \in Nat /\ (s - 1) * Sends \in Nat
         /\ (s - 1) * Sends + Sends = s * Sends /\ s * Sends <= Lines * Sends
  BY RttAssumption DEF Sends

\* The server's part of the invariant survives whatever the client does.
LEMMA RingKept ==
  ASSUME Ring, SigioTypeOK, UNCHANGED sigioVars, net \subseteq net'
  PROVE  Ring' /\ SigioTypeOK'
<1>1. inFlight("server") \subseteq inFlight("server")'
  BY DEF inFlight
<1>. QED BY <1>1 DEF Ring, SigioTypeOK, sigioVars, queued

\* Every step of dg_cli() and dg_send_recv(), SIGALRM included, keeps the
\* inductive invariant.
LEMMA ClientStep ==
  ASSUME IInv, Client
  PROVE  IInv'
<1> USE RttAssumption
<1>1. /\ TypeOK /\ RttTypeOK /\ SigioTypeOK /\ GivesUpLast /\ EarlyAlarmOnlyOnFirst
      /\ CallFacts /\ Ring /\ Answers /\ RttNext /\ UNCHANGED sigioVars
  BY DEF IInv, CallInv, TypeOK, Client
<1>2. IsFiniteSet(transmissions) /\ Cardinality(transmissions) \in Nat
  <2>1. transmissions \in SUBSET net
    BY DEF transmissions, inFlight
  <2>. QED BY <1>1, <2>1, FS_Subset, FS_CardinalityType DEF CallFacts
<1>3. ASSUME net \subseteq net', RttTypeOK', GivesUpLast', EarlyAlarmOnlyOnFirst', CallFacts', Answers'
      PROVE  IInv'
  BY <1>1, <1>3, RingKept DEF IInv, CallInv, TypeOK
<1> USE DEF RttTypeOK, GivesUpLast, EarlyAlarmOnlyOnFirst, CallFacts
<1>4. \A x \in inFlight("server") : x.seq \in Nat /\ x.ts \in Nat
  BY <1>1, InFlight, RequestFacts
<1>5. CASE SendAgain
  <2> DEFINE m == Request(seq, ts + 1)
  <2>1. /\ at = "send" /\ at' = "armed" /\ ts' = ts + 1 /\ net' = net \cup {m}
        /\ UNCHANGED <<rttinit, seq, recvhdr, rto, nrexmt, jmpbuf>> /\ alarm' = rtt_start
    BY <1>5 DEF SendAgain, Sendto
  <2>2. seq \in 1..Lines /\ ts \in Nat /\ nrexmt \in Nat /\ nrexmt <= RTT_MAXNREXMT
    BY <1>1, <2>1
  <2>3. ts + 1 \in 1..(Lines * Sends) /\ ts + 1 <= (seq - 1) * Sends + nrexmt + 1
    BY <1>1, <2>1, <2>2, TimestampsFit DEF Sends
  <2>4. m \in Requests /\ m.to = "server" /\ m.seq = seq /\ m.ts = ts + 1
    BY <2>2, <2>3 DEF Request, Requests, Sends
  <2> HIDE DEF m
  <2>5. inFlight("server")' = inFlight("server") \cup {m} /\ inFlight("client")' = inFlight("client")
    BY <2>1, <2>4 DEF inFlight
  <2>6. m \notin transmissions
    BY <1>1, <2>2, <2>4 DEF transmissions
  <2>7. transmissions' = transmissions \cup {m}
    BY <2>1, <2>4, <2>5 DEF transmissions
  <2>8. Cardinality(transmissions') = nrexmt + 1
    <3>1. Cardinality(transmissions) = nrexmt
      BY <1>1, <2>1
    <3>2. Cardinality(transmissions \cup {m}) = Cardinality(transmissions) + 1
      BY <1>2, <2>6, FS_AddElement
    <3>. QED BY <2>7, <3>1, <3>2
  <2>9. IsFiniteSet(net')
    BY <1>1, <2>1, FS_AddElement
  <2>10. RttTypeOK'
    <3>1. alarm' \in BOOLEAN
      BY <1>1, <2>1 DEF rtt_start
    <3>2. ts' \in 0..(Lines * (RTT_MAXNREXMT + 1))
      BY <2>1, <2>2, <2>3 DEF Sends
    <3>3. net' \subseteq Requests \cup Replies
      BY <1>1, <2>1, <2>4
    <3>. QED BY <1>1, <2>1, <3>1, <3>2, <3>3
  <2>11. CallFacts'
    <3>1. \A x \in inFlight("server")' : x.seq <= seq' /\ x.ts <= ts'
      <4> SUFFICES ASSUME NEW x \in inFlight("server") PROVE x.seq <= seq /\ x.ts <= ts + 1
        BY <2>1, <2>2, <2>4, <2>5
      <4>. QED BY <1>1, <1>4, <2>2
    <3>. QED BY <1>1, <2>1, <2>2, <2>3, <2>8, <2>9, <3>1
  <2>12. GivesUpLast' /\ EarlyAlarmOnlyOnFirst'
    BY <2>1
  <2>13. Answers'
    BY <1>1, <2>1, <2>5 DEF Answers
  <2>. QED BY <1>3, <2>1, <2>10, <2>11, <2>12, <2>13
<1>6. ASSUME net' = net, RttTypeOK', GivesUpLast', EarlyAlarmOnlyOnFirst', CallFacts'
      PROVE  IInv'
  BY <1>1, <1>3, <1>6 DEF Answers, inFlight
<1>7. ASSUME net' = net, seq' = seq PROVE transmissions' = transmissions
  BY <1>7 DEF transmissions, inFlight
<1>8. ASSUME net' = net PROVE inFlight("server")' = inFlight("server")
                              /\ inFlight("client")' = inFlight("client")
  BY <1>8 DEF inFlight
<1>9. CASE Fgets
  <2>1. /\ at = "fgets" /\ at' = "send" /\ seq < Lines /\ seq' = seq + 1 /\ nrexmt' = 0
        /\ rttinit' = TRUE /\ UNCHANGED <<ts, recvhdr, alarm, jmpbuf, net>>
    BY <1>9 DEF Fgets, rtt_init, rtt_newpack
  <2>2. rto' \in Nat
    <3>1. rtt_minmax(FirstRto) \in Nat
      BY DEF rtt_minmax
    <3>2. CASE rttinit
      BY <1>1, <1>9, <3>2 DEF Fgets, rtt_init
    <3>3. CASE ~rttinit
      BY <1>9, <3>1, <3>3 DEF Fgets, rtt_init
    <3>. QED BY <3>2, <3>3
  <2>3. transmissions' = {} /\ Cardinality(transmissions') = 0
    <3>1. transmissions' = {}
      BY <1>1, <1>8, <1>4, <2>1 DEF transmissions
    <3>. QED BY <3>1, FS_EmptySet
  <2>4. RttTypeOK'
    <3>1. rttinit' \in BOOLEAN
      BY <2>1
    <3>. QED BY <1>1, <2>1, <2>2, <3>1
  <2>5. CallFacts'
    <3>1. seq \in Nat /\ ts <= seq * Sends /\ seq' - 1 = seq
      BY <1>1, <2>1
    <3>2. ts' <= (seq' - 1) * Sends + nrexmt'
      BY <1>1, <2>1, <3>1 DEF Sends
    <3>3. \A x \in inFlight("server")' : x.seq <= seq' /\ x.ts <= ts'
      <4> SUFFICES ASSUME NEW x \in inFlight("server") PROVE x.seq <= seq + 1 /\ x.ts <= ts
        BY <1>8, <2>1
      <4>. QED BY <1>1, <1>4, <3>1
    <3>. QED BY <1>1, <2>1, <2>3, <3>1, <3>2, <3>3
  <2>. QED BY <1>6, <2>1, <2>4, <2>5
<1>10. CASE FgetsEof
  BY <1>1, <1>6, <1>7, <1>8, <1>10 DEF FgetsEof
<1>11. CASE Sigsetjmp
  BY <1>1, <1>6, <1>7, <1>8, <1>11 DEF Sigsetjmp
<1>12. CASE SigAlrm
  <2>1. /\ at \in {"armed", "recv", "got"} /\ jmpbuf = "live" /\ jmpbuf' = "live"
        /\ rto' = 2 * rto /\ nrexmt' = nrexmt + 1 /\ alarm' = FALSE
        /\ UNCHANGED <<seq, ts, recvhdr, net>>
        /\ at' = IF nrexmt + 1 > RTT_MAXNREXMT THEN "quit" ELSE "send"
    BY <1>12 DEF SigAlrm, rtt_timeout, siglongjmp, GivesUp
  <2>2. rttinit' \in BOOLEAN /\ alarm' \in BOOLEAN
    BY <1>12, <2>1 DEF SigAlrm
  <2>3. RttTypeOK'
    BY <1>1, <2>1, <2>2
  <2>4. GivesUpLast' /\ EarlyAlarmOnlyOnFirst'
    BY <1>1, <1>7, <2>1
  <2>5. CallFacts'
    <3>1. nrexmt \in Nat /\ seq \in Nat /\ ts <= (seq - 1) * Sends + nrexmt + 1
      BY <1>1, <2>1
    <3>2. transmissions' = transmissions /\ inFlight("server")' = inFlight("server")
      BY <1>7, <1>8, <2>1
    <3>3. at' = "send" =>
            /\ seq' >= 1 /\ nrexmt' <= RTT_MAXNREXMT
            /\ ts' <= (seq' - 1) * Sends + nrexmt' /\ Cardinality(transmissions') = nrexmt'
      <4>1. (seq - 1) * Sends \in Int
        BY <3>1 DEF Sends
      <4>. QED BY <1>1, <2>1, <3>1, <3>2, <4>1
    <3>. QED BY <1>1, <2>1, <3>2, <3>3
  <2>. QED BY <1>6, <2>1, <2>3, <2>4, <2>5
<1>13. CASE SigAlrmTooEarly
  <2>1. RttTypeOK' /\ CallFacts'
    BY <1>1, <1>7, <1>8, <1>13 DEF SigAlrmTooEarly
  <2>2. GivesUpLast' /\ EarlyAlarmOnlyOnFirst'
    BY <1>1, <1>7, <1>13 DEF SigAlrmTooEarly
  <2>. QED BY <1>6, <1>13, <2>1, <2>2 DEF SigAlrmTooEarly
<1>14. CASE Recvmsg
  <2>1. /\ at = "recv" /\ at' = "got"
        /\ UNCHANGED <<rttinit, seq, ts, rto, nrexmt, alarm, jmpbuf, net>>
    BY <1>14 DEF Recvmsg
  <2>2. recvhdr' \in inFlight("client") /\ recvhdr'.seq = seq
    BY <1>14 DEF Recvmsg, IsAnswer
  <2>3. RttTypeOK' /\ CallFacts' /\ GivesUpLast' /\ EarlyAlarmOnlyOnFirst'
    BY <1>1, <1>7, <1>8, <2>1, <2>2
  <2>. QED BY <1>6, <2>1, <2>3
<1>15. CASE Answered
  <2>1. /\ at = "got" /\ at' = "fgets" /\ alarm' = FALSE /\ jmpbuf' = "dead"
        /\ UNCHANGED <<rttinit, seq, ts, recvhdr, nrexmt, net>>
    BY <1>15 DEF Answered
  <2>2. rto' \in Nat
    BY <1>15 DEF Answered, rtt_stop, rtt_minmax
  <2>3. ts <= seq * Sends
    <3>1. seq \in 1..Lines /\ nrexmt \in Nat /\ nrexmt + 1 <= Sends /\ ts \in Nat
          /\ ts <= (seq - 1) * Sends + nrexmt + 1
      BY <1>1, <2>1 DEF Sends
    <3>. QED BY <3>1, TimestampsFit
  <2>4. RttTypeOK'
    <3>1. alarm' \in BOOLEAN /\ rttinit' \in BOOLEAN
      BY <1>1, <2>1
    <3>. QED BY <1>1, <2>1, <2>2, <3>1
  <2>5. CallFacts' /\ GivesUpLast' /\ EarlyAlarmOnlyOnFirst'
    BY <1>1, <1>7, <1>8, <2>1, <2>3
  <2>. QED BY <1>6, <2>1, <2>4, <2>5
<1>. QED BY <1>1, <1>5, <1>9, <1>10, <1>11, <1>12, <1>13, <1>14, <1>15 DEF RttNext

-----------------------------------------------------------------------------
(* The steps of the server *)

\* What the occupied slots hold, and the abstract queue they stand for.
LEMMA RingFacts ==
  ASSUME IInv
  PROVE  /\ QSIZE \in Nat \ {0} /\ iget \in Slots /\ iput \in Slots /\ nqueue \in 0..QSIZE
         /\ queued \in 0..QSIZE /\ (main # "sent" => queued = nqueue)
         /\ (main = "sent" => queued = nqueue - 1)
         /\ inFlight("server") \subseteq Datagram
<1>1. /\ QSIZE \in Nat \ {0} /\ iget \in Slots /\ iput \in Slots /\ nqueue \in 0..QSIZE
  BY SigioAssumption DEF IInv, CallInv, TypeOK, SigioTypeOK
<1>2. queued \in 0..QSIZE /\ (main # "sent" => queued = nqueue) /\ (main = "sent" => queued = nqueue - 1)
  BY <1>1 DEF IInv, Ring, queued
<1>3. inFlight("server") \subseteq Datagram
  BY InFlight, DatagramAssumption DEF IInv, CallInv, TypeOK, RttTypeOK
<1>. QED BY <1>1, <1>2, <1>3

\* Every step of dg_echo(), sig_io() and the kernel keeps the inductive invariant.
LEMMA ServerStep ==
  ASSUME IInv, Server
  PROVE  IInv'
<1> USE SigioAssumption
<1>1. /\ TypeOK /\ RttTypeOK /\ SigioTypeOK /\ GivesUpLast /\ EarlyAlarmOnlyOnFirst
      /\ CallFacts /\ Ring /\ Answers /\ SigioNext /\ UNCHANGED rttVars
  BY DEF IInv, CallInv, TypeOK, Server
<1>2. /\ QSIZE \in Nat \ {0} /\ iget \in Slots /\ iput \in Slots /\ nqueue \in 0..QSIZE
      /\ queued \in 0..QSIZE /\ (main # "sent" => queued = nqueue)
      /\ (main = "sent" => queued = nqueue - 1)
      /\ inFlight("server") \subseteq Datagram
  BY RingFacts
\* the client's part of the invariant
<1>3. ASSUME net' = net, SigioTypeOK', Ring' PROVE IInv'
  <2>1. inFlight("server")' = inFlight("server") /\ inFlight("client")' = inFlight("client")
        /\ transmissions' = transmissions
    BY <1>1, <1>3 DEF inFlight, transmissions, rttVars
  <2>2. RttTypeOK' /\ Answers'
    BY <1>1, <1>3, <2>1 DEF RttTypeOK, Answers, rttVars
  <2>3. CallFacts' /\ GivesUpLast' /\ EarlyAlarmOnlyOnFirst'
    BY <1>1, <1>3, <2>1 DEF CallFacts, GivesUpLast, EarlyAlarmOnlyOnFirst, rttVars
  <2>. QED BY <1>3, <2>2, <2>3 DEF IInv, CallInv, TypeOK
<1>4. ASSUME net' = net PROVE inFlight("server")' = inFlight("server")
  BY <1>4 DEF inFlight
<1>5. CASE Arrive
  <2>1. PICK m \in inFlight("server") : sock' = Append(sock, m)
    BY <1>5 DEF Arrive
  <2>2. /\ Len(sock) < SockBuf /\ arrivals < MaxArrivals /\ arrivals' = arrivals + 1
        /\ UNCHANGED <<main, handler, dg, iget, iput, nqueue, net>>
    BY <1>5 DEF Arrive
  <2>3. sigio' \in BOOLEAN
    BY <1>5 DEF Arrive
  <2>4. /\ sock' \in Seq(Datagram) /\ Len(sock') = Len(sock) + 1 /\ Len(sock) \in Nat
        /\ (\A i \in 1..Len(sock) : sock'[i] = sock[i]) /\ sock'[Len(sock) + 1] = m
    BY <1>1, <1>2, <2>1, AppendProperties, LenProperties DEF SigioTypeOK
  <2>5. SigioTypeOK'
    BY <1>1, <2>2, <2>3, <2>4 DEF SigioTypeOK
  <2>6. Ring'
    <3>1. \A i \in 1..Len(sock') : sock'[i] \in inFlight("server")
      BY <1>1, <2>4 DEF Ring
    <3>. QED BY <1>1, <1>4, <2>2, <3>1 DEF Ring, queued
  <2>. QED BY <1>3, <2>2, <2>5, <2>6
<1>6. CASE Deliver \/ Overflow
  <2>1. SigioTypeOK'
    <3>1. sigio' \in BOOLEAN
      BY <1>1, <1>6 DEF Deliver, Overflow, SigioTypeOK
    <3>. QED BY <1>1, <1>6, <3>1 DEF Deliver, Overflow, SigioTypeOK
  <2>2. Ring'
    BY <1>1, <1>4, <1>6 DEF Deliver, Overflow, Ring, queued
  <2>. QED BY <1>3, <1>6, <2>1, <2>2 DEF Deliver, Overflow
<1>7. CASE Recvfrom
  <2>1. /\ nqueue < QSIZE /\ sock # <<>> /\ dg' = [dg EXCEPT ![iput] = Head(sock)]
        /\ sock' = Tail(sock) /\ nqueue' = nqueue + 1 /\ iput' = wrap(iput + 1)
        /\ UNCHANGED <<main, handler, iget, sigio, arrivals, net>>
    BY <1>2, <1>7 DEF Recvfrom, full
  <2>2. /\ Tail(sock) \in Seq(Datagram) /\ Len(Tail(sock)) = Len(sock) - 1
        /\ (\A i \in 1..Len(Tail(sock)) : Tail(sock)[i] = sock[i + 1])
        /\ Head(sock) = sock[1] /\ Len(sock) \in Nat \ {0}
    BY <1>1, <2>1, HeadTailProperties, EmptySeq, LenProperties DEF SigioTypeOK
  <2>3. Head(sock) \in inFlight("server")
    BY <1>1, <2>2 DEF Ring
  <2>4. queued' = queued + 1 /\ queued \in 0..(QSIZE - 1)
    BY <1>2, <2>1 DEF queued
  <2>5. iput = (iget + queued) % QSIZE
    BY <1>1 DEF Ring
  <2>6. iput' \in Slots /\ iput' = (iget + (queued + 1)) % QSIZE
    <3>1. wrap(iput + 1) \in Slots /\ wrap(iput + 1) = (iput + 1) % QSIZE
      BY <1>2, SlotShift
    <3>2. (iput + 1) % QSIZE = (iget + (queued + 1)) % QSIZE
      <4>1. queued \in 0..QSIZE /\ queued + 1 \in 0..QSIZE /\ 1 \in 0..QSIZE
        BY <1>2, <2>4
      <4>2. iput = IF iget + queued < QSIZE THEN iget + queued ELSE iget + queued - QSIZE
        BY <1>2, <2>5, <4>1, SlotValue
      <4>3. (iput + 1) % QSIZE = IF iput + 1 < QSIZE THEN iput + 1 ELSE iput + 1 - QSIZE
        BY <1>2, <4>1, SlotValue
      <4>4. (iget + (queued + 1)) % QSIZE
              = IF iget + (queued + 1) < QSIZE THEN iget + (queued + 1) ELSE iget + (queued + 1) - QSIZE
        BY <1>2, <4>1, SlotValue
      <4>. QED BY <1>2, <2>4, <4>2, <4>3, <4>4 DEF Slots
    <3>. QED BY <2>1, <3>1, <3>2
  <2>7. SigioTypeOK'
    <3>1. dg' \in [Slots -> Datagram \cup {NoDg}]
      BY <1>1, <1>2, <2>1, <2>3 DEF SigioTypeOK
    <3>2. sock' \in Seq(Datagram) /\ Len(sock') <= SockBuf
      BY <1>1, <2>1, <2>2 DEF SigioTypeOK
    <3>. QED BY <1>1, <1>2, <2>1, <2>6, <3>1, <3>2 DEF SigioTypeOK
  <2>8. \A k \in 0..(queued' - 1) : dg'[(iget + k) % QSIZE] \in inFlight("server")
    <3> SUFFICES ASSUME NEW k \in 0..queued PROVE dg'[(iget + k) % QSIZE] \in inFlight("server")
      BY <1>2, <2>4
    <3>1. dg \in [Slots -> Datagram \cup {NoDg}]
      BY <1>1 DEF SigioTypeOK
    <3>2. CASE k = queued
      BY <1>2, <2>1, <2>3, <2>5, <3>1, <3>2
    <3>3. CASE k \in 0..(queued - 1)
      <4>1. (iget + k) % QSIZE # iput
        BY <1>2, <2>4, <2>5, <3>3, SlotsDiffer
      <4>2. (iget + k) % QSIZE \in Slots
        <5>1. k \in 0..QSIZE
          BY <1>2
        <5>. QED BY <1>2, <5>1, SlotValue
      <4>. QED BY <1>1, <2>1, <3>1, <3>3, <4>1, <4>2 DEF Ring
    <3>. QED BY <1>2, <3>2, <3>3
  <2>9. \A i \in 1..Len(sock') : sock'[i] \in inFlight("server")
    BY <1>1, <2>1, <2>2 DEF Ring
  <2>10. Ring'
    <3>1. inFlight("server")' = inFlight("server") /\ iget' = iget /\ main' = main
      BY <1>4, <2>1
    <3>2. main' \in {"send", "sent"} => nqueue' >= 1
      BY <1>2, <2>1
    <3>. QED BY <2>4, <2>6, <2>8, <2>9, <3>1, <3>2 DEF Ring
  <2>. QED BY <1>3, <2>1, <2>7, <2>10
<1>8. CASE HandlerReturns \/ Setup \/ Loop
  <2>1. SigioTypeOK'
    BY <1>1, <1>8 DEF HandlerReturns, Setup, Loop, SigioTypeOK
  <2>2. /\ UNCHANGED <<dg, iget, iput, nqueue, sock, net>>
        /\ (main = "sent" <=> main' = "sent") /\ (main' = "send" => nqueue >= 1)
    BY <1>1, <1>2, <1>8 DEF HandlerReturns, Setup, Loop, idle, Ring
  <2>3. Ring'
    BY <1>1, <1>4, <2>2 DEF Ring, queued
  <2>. QED BY <1>3, <2>1, <2>2, <2>3
<1>9. CASE Release
  <2>1. /\ main = "sent" /\ main' = "loop" /\ nqueue' = nqueue - 1
        /\ UNCHANGED <<handler, dg, iget, iput, sock, sigio, arrivals, net>>
    BY <1>9 DEF Release
  <2>2. nqueue >= 1 /\ queued' = queued
    BY <1>1, <1>2, <2>1 DEF Ring, queued
  <2>3. SigioTypeOK'
    BY <1>1, <1>2, <2>1, <2>2 DEF SigioTypeOK
  <2>4. Ring'
    BY <1>1, <1>4, <2>1, <2>2 DEF Ring
  <2>. QED BY <1>3, <2>1, <2>3, <2>4
<1>10. CASE Echo
  <2> DEFINE m == dg[iget]
  <2>1. /\ main = "send" /\ main' = "sent" /\ net' = net \cup {toClient(m)} /\ iget' = wrap(iget + 1)
        /\ UNCHANGED <<handler, dg, iput, nqueue, sock, sigio, arrivals>>
    BY <1>10 DEF Echo, Sendto, toClient
  <2>2. queued = nqueue /\ queued >= 1 /\ queued' = queued - 1
    BY <1>1, <1>2, <2>1 DEF Ring, queued
  <2>3. m \in inFlight("server")
    <3>1. (iget + 0) % QSIZE = iget /\ 0 \in 0..(queued - 1)
      <4>1. 0 \in 0..QSIZE
        BY <1>2
      <4>2. (iget + 0) % QSIZE = IF iget + 0 < QSIZE THEN iget + 0 ELSE iget + 0 - QSIZE
        BY <1>2, <4>1, SlotValue
      <4>. QED BY <1>2, <2>2, <4>2 DEF Slots
    <3>2. dg[(iget + 0) % QSIZE] \in inFlight("server")
      BY <1>1, <3>1 DEF Ring
    <3>. QED BY <3>1, <3>2
  <2>4. m \in Requests /\ m \in net
    BY <1>1, <2>3, InFlight DEF RttTypeOK
  <2> HIDE DEF m
  <2>5. /\ toClient(m) \in Replies /\ toClient(m).to = "client" /\ toServer(toClient(m)) = m
    BY <2>4, RequestFacts
  <2>6. /\ inFlight("server")' = inFlight("server")
        /\ inFlight("client")' = inFlight("client") \cup {toClient(m)}
    BY <2>1, <2>5 DEF inFlight
  <2>7. transmissions' = transmissions
    BY <1>1, <2>6 DEF transmissions, rttVars
  <2>8. RttTypeOK'
    BY <1>1, <2>1, <2>5 DEF RttTypeOK, rttVars
  <2>9. Answers'
    BY <1>1, <2>1, <2>4, <2>5, <2>6 DEF Answers
  <2>10. CallFacts'
    <3>1. IsFiniteSet(net')
      BY <1>1, <2>1, FS_AddElement DEF CallFacts
    <3>. QED BY <1>1, <2>6, <2>7, <3>1 DEF CallFacts, rttVars
  <2>11. GivesUpLast' /\ EarlyAlarmOnlyOnFirst'
    BY <1>1, <2>7 DEF GivesUpLast, EarlyAlarmOnlyOnFirst, rttVars
  <2>12. wrap(iget + 1) \in Slots
         /\ \A k \in 0..(QSIZE - 1) : (wrap(iget + 1) + k) % QSIZE = (iget + (k + 1)) % QSIZE
    BY <1>2, SlotShift
  <2>13. SigioTypeOK'
    BY <1>1, <2>1, <2>12 DEF SigioTypeOK
  <2>14. Ring'
    <3>1. iput' = (iget' + queued') % QSIZE
      <4>1. queued - 1 \in 0..(QSIZE - 1) /\ (queued - 1) + 1 = queued
        BY <1>2, <2>2
      <4>2. (wrap(iget + 1) + (queued - 1)) % QSIZE = (iget + queued) % QSIZE
        BY <2>12, <4>1
      <4>. QED BY <1>1, <2>1, <2>2, <4>2 DEF Ring
    <3>2. \A k \in 0..(queued' - 1) : dg[(wrap(iget + 1) + k) % QSIZE] \in inFlight("server")
      <4> SUFFICES ASSUME NEW k \in 0..(queued - 2)
                   PROVE  dg[(wrap(iget + 1) + k) % QSIZE] \in inFlight("server")
        BY <1>2, <2>2
      <4>1. k \in 0..(QSIZE - 1) /\ k + 1 \in 0..(queued - 1)
        BY <1>2, <2>2
      <4>2. dg[(iget + (k + 1)) % QSIZE] \in inFlight("server")
        BY <1>1, <4>1 DEF Ring
      <4>. QED BY <2>12, <4>1, <4>2
    <3>. QED BY <1>1, <2>1, <2>6, <3>1, <3>2 DEF Ring
  <2>. QED BY <2>8, <2>9, <2>10, <2>11, <2>13, <2>14 DEF IInv, CallInv, TypeOK
<1>. QED BY <1>1, <1>5, <1>6, <1>7, <1>8, <1>9, <1>10 DEF SigioNext

-----------------------------------------------------------------------------
(* The theorems *)

\* The inductive invariant holds in every state of the client and the server.
LEMMA IInvCorrect == Spec => []IInv
<1>1. Init => IInv
  <2> SUFFICES ASSUME Init PROVE IInv
    OBVIOUS
  <2>1. inFlight("server") = {} /\ inFlight("client") = {} /\ IsFiniteSet(net)
    BY FS_EmptySet DEF Init, inFlight
  <2>2. RttTypeOK
    <3>1. Lines * (RTT_MAXNREXMT + 1) \in Nat
      BY RttAssumption
    <3>2. rttinit \in BOOLEAN /\ alarm \in BOOLEAN
      BY DEF Init, RttInit
    <3>. QED BY <3>1, <3>2, RttAssumption DEF Init, RttInit, RttTypeOK
  <2>3. SigioTypeOK
    <3>1. sock \in Seq(Datagram) /\ Len(sock) = 0
      BY EmptySeq DEF Init, SigioInit
    <3>2. 0 \in Slots
      BY SigioAssumption DEF Slots
    <3>3. sigio \in BOOLEAN
      BY DEF Init, SigioInit
    <3>4. dg \in [Slots -> Datagram \cup {NoDg}]
      BY DEF Init, SigioInit
    <3>5. nqueue \in 0..QSIZE /\ arrivals \in 0..MaxArrivals /\ Len(sock) <= SockBuf
      BY <3>1, SigioAssumption DEF Init, SigioInit
    <3>. QED BY <3>1, <3>2, <3>4, <3>5, <3>3 DEF Init, SigioInit, SigioTypeOK
  <2>4. CallFacts /\ GivesUpLast /\ EarlyAlarmOnlyOnFirst
    <3>1. 0 <= 0 * Sends
      BY RttAssumption DEF Sends
    <3>. QED BY <2>1, <3>1 DEF Init, RttInit, CallFacts, GivesUpLast, EarlyAlarmOnlyOnFirst
  <2>5. Ring /\ Answers
    <3>1. (0 + 0) % QSIZE = 0
      BY SigioAssumption
    <3>2. queued = 0 /\ Len(sock) = 0
      BY DEF Init, SigioInit, queued
    <3>. QED BY <2>1, <3>1, <3>2 DEF Init, SigioInit, Ring, Answers
  <2>. QED BY <2>2, <2>3, <2>4, <2>5 DEF IInv, CallInv, TypeOK
<1>2. IInv /\ [Next]_vars => IInv'
  <2> SUFFICES ASSUME IInv, [Next]_vars PROVE IInv'
    OBVIOUS
  <2>1. CASE UNCHANGED vars
    <3>1. UNCHANGED <<at, rttinit, seq, ts, recvhdr, rto, nrexmt, alarm, jmpbuf, net>>
          /\ UNCHANGED sigioVars
      BY <2>1 DEF vars, rttVars
    <3>2. inFlight("server")' = inFlight("server") /\ inFlight("client")' = inFlight("client")
          /\ transmissions' = transmissions
      BY <3>1 DEF inFlight, transmissions
    <3>3. Ring' /\ SigioTypeOK'
      BY <3>1, RingKept DEF IInv, CallInv, TypeOK
    <3>4. RttTypeOK' /\ Answers'
      BY <3>1, <3>2 DEF IInv, CallInv, TypeOK, RttTypeOK, Answers
    <3>5. CallFacts' /\ GivesUpLast' /\ EarlyAlarmOnlyOnFirst'
      BY <3>1, <3>2 DEF IInv, CallInv, CallFacts, GivesUpLast, EarlyAlarmOnlyOnFirst
    <3>. QED BY <3>3, <3>4, <3>5 DEF IInv, CallInv, TypeOK
  <2>. QED BY <2>1, ClientStep, ServerStep DEF Next
<1>. QED BY <1>1, <1>2, PTL DEF Spec

\* Whatever the network does, dg_send_recv() gives up only after RTT_MAXNREXMT + 1
\* transmissions of the line, and a SIGALRM that finds no frame to jump to comes
\* after exactly one.
THEOREM CallInvCorrect == Spec => []CallInv
<1>1. IInv => CallInv
  BY DEF IInv
<1>. QED BY <1>1, IInvCorrect, PTL

\* The datagram that ends dg_send_recv() answers a transmission of this call's line:
\* late and duplicated answers to earlier lines never do.
THEOREM AnswerOfThisCallCorrect == Spec => AnswerOfThisCall
<1>1. IInv /\ at = "got" => Request(seq, recvhdr.ts) \in net
  <2> SUFFICES ASSUME IInv, at = "got" PROVE Request(seq, recvhdr.ts) \in net
    OBVIOUS
  <2>1. recvhdr \in inFlight("client") /\ recvhdr.seq = seq
    BY DEF IInv, CallFacts
  <2>2. recvhdr \in Replies
    BY <2>1, InFlight DEF IInv, CallInv, TypeOK, RttTypeOK
  <2>. QED BY <2>1, <2>2, ReplyFacts DEF IInv, Answers
<1>2. IInv /\ [Next]_vars =>
        [at = "got" /\ at' = "fgets" => Request(seq, recvhdr.ts) \in net]_<<rttVars, net>>
  BY <1>1
<1>. QED BY <1>2, IInvCorrect, PTL DEF Spec, AnswerOfThisCall

-----------------------------------------------------------------------------
(* The ring implements the first-in first-out queue *)

\* n slots of the ring d, from slot i on
Window(d, i, n) == [k \in 1..n |-> d[(i + k - 1) % QSIZE]]

\* The occupied slots are a sequence of datagrams.
LEMMA WindowIsSeq ==
  ASSUME NEW d, NEW i \in Slots, NEW n \in 0..QSIZE,
         \A k \in 0..(n - 1) : d[(i + k) % QSIZE] \in Datagram
  PROVE  /\ Window(d, i, n) \in Seq(Datagram) /\ Len(Window(d, i, n)) = n
         /\ \A k \in 1..n : Window(d, i, n)[k] = d[(i + (k - 1)) % QSIZE]
<1>1. n \in Nat /\ i \in Nat
  BY SigioAssumption DEF Slots
<1>2. \A k \in 1..n : k - 1 \in 0..(n - 1) /\ Window(d, i, n)[k] = d[(i + (k - 1)) % QSIZE]
  <2> SUFFICES ASSUME NEW k \in 1..n
               PROVE  k - 1 \in 0..(n - 1) /\ Window(d, i, n)[k] = d[(i + (k - 1)) % QSIZE]
    OBVIOUS
  <2>1. k - 1 \in 0..(n - 1) /\ i + k - 1 = i + (k - 1)
    BY <1>1
  <2>. QED BY <2>1 DEF Window
<1>3. \A k \in 1..n : Window(d, i, n)[k] \in Datagram
  BY <1>2
<1>4. Window(d, i, n) \in [1..n -> Datagram]
  BY <1>3 DEF Window
<1>5. Window(d, i, n) \in Seq(Datagram) /\ Len(Window(d, i, n)) = n
  BY <1>1, <1>4, SeqDef, LenProperties
<1>. QED BY <1>2, <1>5

\* Writing the slot after the occupied ones appends to the queue.
LEMMA WindowPut ==
  ASSUME NEW d \in [Slots -> Datagram \cup {NoDg}], NEW i \in Slots, NEW n \in 0..(QSIZE - 1),
         \A k \in 0..(n - 1) : d[(i + k) % QSIZE] \in Datagram,
         NEW m \in Datagram
  PROVE  Window([d EXCEPT ![(i + n) % QSIZE] = m], i, n + 1) = Append(Window(d, i, n), m)
<1> DEFINE e == [d EXCEPT ![(i + n) % QSIZE] = m]
<1>1. QSIZE \in Nat /\ n \in 0..QSIZE /\ n + 1 \in 0..QSIZE /\ n \in Nat
  BY SigioAssumption
<1>2. (i + n) % QSIZE \in Slots
  BY <1>1, SlotValue
<1>3. e[(i + n) % QSIZE] = m
  BY <1>2
<1>4. ASSUME NEW k \in 0..(n - 1) PROVE e[(i + k) % QSIZE] = d[(i + k) % QSIZE]
  <2>1. (i + k) % QSIZE # (i + n) % QSIZE
    BY SlotsDiffer
  <2>2. k \in 0..QSIZE
    BY <1>1
  <2>3. (i + k) % QSIZE \in Slots
    BY <2>2, SlotValue
  <2>. QED BY <2>1, <2>3
<1> HIDE DEF e
<1>5. \A k \in 0..(n + 1 - 1) : e[(i + k) % QSIZE] \in Datagram
  <2> SUFFICES ASSUME NEW k \in 0..n PROVE e[(i + k) % QSIZE] \in Datagram
    BY <1>1
  <2>1. k = n \/ k \in 0..(n - 1)
    BY <1>1
  <2>. QED BY <1>3, <1>4, <2>1
<1> DEFINE w == Window(d, i, n)
           x == Window(e, i, n + 1)
<1>6. /\ w \in Seq(Datagram) /\ Len(w) = n
      /\ \A k \in 1..n : w[k] = d[(i + (k - 1)) % QSIZE]
  BY <1>1, WindowIsSeq
<1>7. /\ x \in Seq(Datagram) /\ Len(x) = n + 1
      /\ \A k \in 1..(n + 1) : x[k] = e[(i + (k - 1)) % QSIZE]
  BY <1>1, <1>5, WindowIsSeq
<1> HIDE DEF w, x
<1>8. /\ Append(w, m) \in Seq(Datagram) /\ Len(Append(w, m)) = n + 1
      /\ \A k \in 1..n : Append(w, m)[k] = w[k]
      /\ Append(w, m)[n + 1] = m
  BY <1>6, AppendProperties
<1>9. ASSUME NEW k \in 1..(n + 1) PROVE x[k] = Append(w, m)[k]
  <2>1. CASE k = n + 1
    <3>1. (n + 1) - 1 = n
      BY <1>1
    <3>2. x[n + 1] = e[(i + n) % QSIZE]
      BY <1>1, <1>7, <3>1
    <3>. QED BY <1>3, <1>8, <2>1, <3>2
  <2>2. CASE k \in 1..n
    <3>1. k - 1 \in 0..(n - 1)
      BY <1>1, <2>2
    <3>2. e[(i + (k - 1)) % QSIZE] = d[(i + (k - 1)) % QSIZE]
      BY <1>4, <3>1
    <3>. QED BY <1>6, <1>7, <1>8, <2>2, <3>2
  <2>3. k = n + 1 \/ k \in 1..n
    BY <1>1
  <2>. QED BY <2>1, <2>2, <2>3
<1>10. x = Append(w, m)
  BY <1>7, <1>8, <1>9, SeqEqual
<1>. QED BY <1>10 DEF x, w, e

\* Moving iget on takes the first datagram from the queue.
LEMMA WindowTake ==
  ASSUME NEW d, NEW i \in Slots, NEW n \in 1..QSIZE,
         \A k \in 0..(n - 1) : d[(i + k) % QSIZE] \in Datagram
  PROVE  /\ Window(d, i, n) # <<>> /\ Head(Window(d, i, n)) = d[i]
         /\ Window(d, wrap(i + 1), n - 1) = Tail(Window(d, i, n))
<1> DEFINE w == Window(d, i, n)
           x == Window(d, wrap(i + 1), n - 1)
<1>1. QSIZE \in Nat /\ n \in 0..QSIZE /\ n \in Nat /\ n - 1 \in 0..QSIZE /\ i \in Nat
  BY SigioAssumption DEF Slots
<1>2. /\ w \in Seq(Datagram) /\ Len(w) = n
      /\ \A k \in 1..n : w[k] = d[(i + (k - 1)) % QSIZE]
  BY <1>1, WindowIsSeq
<1>3. wrap(i + 1) \in Slots
      /\ \A k \in 0..(QSIZE - 1) : (wrap(i + 1) + k) % QSIZE = (i + (k + 1)) % QSIZE
  BY SlotShift
<1>4. \A k \in 0..(n - 2) : /\ k \in 0..(QSIZE - 1) /\ k + 1 \in 0..(n - 1)
  BY <1>1
<1>5. \A k \in 0..(n - 1 - 1) : d[(wrap(i + 1) + k) % QSIZE] \in Datagram
  <2> SUFFICES ASSUME NEW k \in 0..(n - 2) PROVE d[(wrap(i + 1) + k) % QSIZE] \in Datagram
    BY <1>1
  <2>. QED BY <1>3, <1>4
<1>6. /\ x \in Seq(Datagram) /\ Len(x) = n - 1
      /\ \A k \in 1..(n - 1) : x[k] = d[(wrap(i + 1) + (k - 1)) % QSIZE]
  BY <1>1, <1>3, <1>5, WindowIsSeq
<1> HIDE DEF w, x
<1>7. w # <<>>
  BY <1>1, <1>2, EmptySeq
<1>8. /\ Tail(w) \in Seq(Datagram) /\ Len(Tail(w)) = n - 1
      /\ \A k \in 1..(n - 1) : Tail(w)[k] = w[k + 1]
  BY <1>2, <1>7, HeadTailProperties
<1>9. ASSUME NEW k \in 1..(n - 1) PROVE x[k] = Tail(w)[k]
  <2>1. k - 1 \in 0..(QSIZE - 1) /\ (k - 1) + 1 = k /\ k + 1 \in 1..n /\ (k + 1) - 1 = k
    BY <1>1
  <2>2. w[k + 1] = d[(i + k) % QSIZE]
    BY <1>2, <2>1
  <2>3. (wrap(i + 1) + (k - 1)) % QSIZE = (i + k) % QSIZE
    BY <1>3, <2>1
  <2>. QED BY <1>6, <1>8, <2>2, <2>3
<1>10. x = Tail(w)
  BY <1>6, <1>8, <1>9, SeqEqual
<1>11. Head(w) = d[i]
  <2>1. Head(w) = w[1]
    BY <1>2, <1>7
  <2>2. w[1] = d[(i + 0) % QSIZE]
    BY <1>1, <1>2
  <2>3. (i + 0) % QSIZE = i
    <3>1. 0 \in 0..QSIZE
      BY <1>1
    <3>2. (i + 0) % QSIZE = IF i + 0 < QSIZE THEN i + 0 ELSE i + 0 - QSIZE
      BY <3>1, SlotValue
    <3>. QED BY <1>1, <3>2 DEF Slots
  <2>. QED BY <2>1, <2>2, <2>3
<1>. QED BY <1>7, <1>10, <1>11 DEF w, x

\* sig_io() puts at the end of the queue, Sendto() takes from its front, and no
\* other step of the client, the kernel or the server touches it.
LEMMA FifoStep ==
  ASSUME IInv, [Next]_vars
  PROVE  [Fifo!Next]_<<contents, echoed>>
<1>1. /\ QSIZE \in Nat \ {0} /\ iget \in Slots /\ iput \in Slots /\ nqueue \in 0..QSIZE
      /\ queued \in 0..QSIZE /\ (main # "sent" => queued = nqueue)
      /\ (main = "sent" => queued = nqueue - 1)
      /\ inFlight("server") \subseteq Datagram
  BY RingFacts
<1>2. \A k \in 0..(queued - 1) : dg[(iget + k) % QSIZE] \in Datagram
  BY <1>1 DEF IInv, Ring
<1>3. contents = Window(dg, iget, queued) /\ contents' = Window(dg', iget', queued')
  BY DEF contents, Window
<1>4. Len(contents) = queued
  BY <1>1, <1>2, <1>3, WindowIsSeq
<1>5. ASSUME UNCHANGED <<dg, iget>>, queued' = queued, inFlight("client")' = inFlight("client")
      PROVE  UNCHANGED <<contents, echoed>>
  BY <1>3, <1>5 DEF echoed
<1>6. CASE Recvfrom
  <2>1. /\ nqueue < QSIZE /\ sock # <<>> /\ dg' = [dg EXCEPT ![iput] = Head(sock)]
        /\ nqueue' = nqueue + 1 /\ UNCHANGED <<main, iget, net>>
    BY <1>1, <1>6 DEF Recvfrom, full
  <2>2. Head(sock) \in Datagram
    BY <2>1, HeadTailProperties DEF IInv, CallInv, TypeOK, SigioTypeOK
  <2>3. queued' = queued + 1 /\ queued \in 0..(QSIZE - 1)
    BY <1>1, <2>1 DEF IInv, Ring, queued
  <2>4. iput = (iget + queued) % QSIZE /\ dg \in [Slots -> Datagram \cup {NoDg}]
    BY DEF IInv, CallInv, TypeOK, SigioTypeOK, Ring
  <2>5. Window([dg EXCEPT ![(iget + queued) % QSIZE] = Head(sock)], iget, queued + 1)
          = Append(Window(dg, iget, queued), Head(sock))
    BY <1>1, <1>2, <2>2, <2>3, <2>4, WindowPut
  <2>6. contents' = Append(contents, Head(sock))
    BY <1>3, <2>1, <2>3, <2>4, <2>5
  <2>7. echoed' = echoed
    BY <2>1 DEF echoed, inFlight
  <2>8. Fifo!Put(Head(sock))
    BY <1>1, <1>4, <2>3, <2>6, <2>7 DEF Fifo!Put
  <2>. QED BY <2>2, <2>8 DEF Fifo!Next
<1>7. CASE Echo
  <2>1. /\ main = "send" /\ main' = "sent" /\ iget' = wrap(iget + 1) /\ UNCHANGED <<dg, nqueue>>
        /\ net' = net \cup {toClient(dg[iget])}
    BY <1>7 DEF Echo, Sendto, toClient
  <2>2. queued \in 1..QSIZE /\ queued' = queued - 1
    BY <1>1, <2>1 DEF IInv, Ring, queued
  <2>3. /\ contents # <<>> /\ Head(contents) = dg[iget] /\ contents' = Tail(contents)
    BY <1>1, <1>2, <1>3, <2>1, <2>2, WindowTake
  <2>4. dg[iget] \in Requests
    <3>1. contents \in Seq(Datagram)
      BY <1>1, <1>2, <1>3, WindowIsSeq
    <3>. QED BY <2>3, <3>1, HeadTailProperties, DatagramAssumption
  <2>5. toClient(dg[iget]).to = "client" /\ toServer(toClient(dg[iget])) = dg[iget]
    BY <2>4, RequestFacts
  <2>6. inFlight("client")' = inFlight("client") \cup {toClient(dg[iget])}
    BY <2>1, <2>5 DEF inFlight
  <2>7. echoed' = echoed \cup {Head(contents)}
    <3>1. echoed = {toServer(m) : m \in inFlight("client")}
          /\ echoed' = {toServer(m) : m \in inFlight("client")'}
      BY DEF echoed, toServer
    <3>. QED BY <2>3, <2>5, <2>6, <3>1
  <2>. QED BY <2>3, <2>7 DEF Fifo!Next, Fifo!Take
<1>8. CASE Arrive \/ Deliver \/ Overflow \/ HandlerReturns \/ Setup \/ Loop
  <2>1. UNCHANGED <<dg, iget, nqueue, net>> /\ (main = "sent" <=> main' = "sent")
    BY <1>8 DEF Arrive, Deliver, Overflow, HandlerReturns, Setup, Loop
  <2>. QED BY <1>5, <2>1 DEF queued, inFlight
<1>9. CASE Release
  <2>1. /\ UNCHANGED <<dg, iget, net>> /\ main = "sent" /\ main' = "loop" /\ nqueue' = nqueue - 1
    BY <1>9 DEF Release
  <2>. QED BY <1>5, <2>1 DEF queued, inFlight
<1>10. CASE Client
  <2>1. UNCHANGED <<dg, iget, nqueue, main>>
    BY <1>10 DEF Client, sigioVars
  <2>2. inFlight("client")' = inFlight("client")
    BY <1>10 DEF Client, RttNext, Fgets, FgetsEof, SendAgain, Sigsetjmp, SigAlrm, SigAlrmTooEarly,
                Recvmsg, Answered, Sendto, Request, inFlight
  <2>. QED BY <1>5, <2>1, <2>2 DEF queued
<1>11. CASE UNCHANGED vars
  BY <1>5, <1>11 DEF vars, sigioVars, queued, inFlight
<1>. QED BY <1>6, <1>7, <1>8, <1>9, <1>10, <1>11 DEF Next, Server, SigioNext

\* The ring, its two indices and the counter that sig_io() and dg_echo() share
\* implement a first-in first-out queue, with the handler run between any two steps
\* of the loop.
THEOREM RingIsFifoCorrect == Spec => RingIsFifo
<1>1. Init => contents = <<>> /\ echoed = {}
  <2> SUFFICES ASSUME Init PROVE contents = <<>> /\ echoed = {}
    OBVIOUS
  <2>1. queued = 0
    BY DEF Init, SigioInit, queued
  <2>2. contents = [k \in 1..0 |-> dg[(iget + k - 1) % QSIZE]]
    BY <2>1 DEF contents
  <2>3. 1..0 = {}
    OBVIOUS
  <2>4. contents = <<>>
    BY <2>2, <2>3
  <2>5. echoed = {}
    BY DEF Init, echoed, inFlight
  <2>. QED BY <2>4, <2>5
<1>2. IInv /\ [Next]_vars => [Fifo!Next]_<<contents, echoed>>
  BY FifoStep
<1>. QED BY <1>1, <1>2, IInvCorrect, PTL DEF Spec, RingIsFifo, Fifo!Spec
=============================================================================
