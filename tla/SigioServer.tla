---------------------------- MODULE SigioServer ----------------------------
(***************************************************************************)
(* unpv1e3/sigio/dgecho01.c: a UDP echo server driven by SIGIO.  The       *)
(* handler sig_io() reads all datagrams of the socket into the ring dg[];  *)
(* the loop of dg_echo() sends them back.  SIGIO is blocked while the loop *)
(* tests and decrements nqueue, and unblocked while it sends.              *)
(*                                                                         *)
(* The handler runs on top of the loop: while it is active the loop does   *)
(* not move, SIGIO is held back, and datagrams keep arriving.              *)
(***************************************************************************)
EXTENDS Integers, Sequences, UdpNetwork

CONSTANTS
    QSIZE,
    SockBuf,   \* datagrams the socket's receive buffer holds
    MaxArrivals, \* bound: datagrams that reach the socket
    Datagram,  \* what clients send
    NoDg       \* a slot of dg[] that was never used

ASSUME SigioAssumption ==
    QSIZE \in Nat \ {0} /\ SockBuf \in Nat /\ MaxArrivals \in Nat /\ NoDg \notin Datagram

VARIABLES
    main,      \* where dg_echo() is (see SigioTypeOK)
    handler,   \* sig_io(): "off", "on", or "quit" when it has ended the process
    dg, iget, iput, nqueue,
    sock,      \* datagrams in the socket
    arrivals,  \* how many have reached it
    sigio      \* SIGIO is pending

sigioVars == <<main, handler, dg, iget, iput, nqueue, sock, arrivals, sigio>>

Slots == 0..(QSIZE - 1)

SigioTypeOK ==
    /\ main \in {"bound", "async", "nonblock", "loop", "suspend", "send", "sent"}
    /\ handler \in {"off", "on", "quit"} /\ sigio \in BOOLEAN
    /\ dg \in [Slots -> Datagram \cup {NoDg}]
    /\ iget \in Slots /\ iput \in Slots /\ nqueue \in 0..QSIZE
    /\ sock \in Seq(Datagram) /\ Len(sock) <= SockBuf /\ arrivals \in 0..MaxArrivals

SigioInit ==
    /\ main = "bound" /\ handler = "off" /\ sigio = FALSE
    /\ dg = [i \in Slots |-> NoDg]
    /\ iget = 0 /\ iput = 0 /\ nqueue = 0 /\ sock = <<>> /\ arrivals = 0

wrapLate(i) == IF i > QSIZE THEN 0 ELSE i

wrap(i) == IF i >= QSIZE THEN 0 ELSE i

-----------------------------------------------------------------------------
(* The kernel *)

\* A datagram reaches the socket; it raises SIGIO once FIOASYNC is set.
Arrive ==
    /\ handler # "quit" /\ Len(sock) < SockBuf /\ arrivals < MaxArrivals
    /\ \E m \in inFlight("server") : sock' = Append(sock, m)
    /\ sigio' = (main # "bound") /\ arrivals' = arrivals + 1
    /\ UNCHANGED <<main, handler, dg, iget, iput, nqueue, net>>

unblocked == main # "loop"

Deliver ==
    /\ sigio /\ handler = "off" /\ unblocked
    /\ handler' = "on" /\ sigio' = FALSE
    /\ UNCHANGED <<main, dg, iget, iput, nqueue, sock, arrivals, net>>

-----------------------------------------------------------------------------
(* sig_io() *)

fullLate == nqueue > QSIZE

full == nqueue >= QSIZE

Overflow ==
    /\ handler = "on" /\ full
    /\ handler' = "quit"
    /\ UNCHANGED <<main, dg, iget, iput, nqueue, sock, sigio, arrivals, net>>

doneAfterOne == TRUE

done == sock = <<>>

Recvfrom ==
    /\ handler = "on" /\ ~full /\ sock # <<>>
    /\ dg' = [dg EXCEPT ![iput] = Head(sock)] /\ sock' = Tail(sock)
    /\ nqueue' = nqueue + 1 /\ iput' = wrap(iput + 1)
    /\ UNCHANGED <<main, handler, iget, sigio, arrivals, net>>

\* EWOULDBLOCK: the handler returns, and with it sigsuspend().  Before FIONBIO
\* recvfrom() does not fail but waits.
HandlerReturns ==
    /\ handler = "on" /\ ~full /\ done /\ main # "async"
    /\ handler' = "off"
    /\ main' = IF main = "suspend" THEN "loop" ELSE main
    /\ UNCHANGED <<dg, iget, iput, nqueue, sock, sigio, arrivals, net>>

-----------------------------------------------------------------------------
(* dg_echo() *)

\* Ioctl FIOASYNC, then FIONBIO, then Sigprocmask(SIG_BLOCK)
Setup ==
    /\ handler = "off"
    /\ \/ main = "bound" /\ main' = "async"
       \/ main = "async" /\ main' = "nonblock"
       \/ main = "nonblock" /\ main' = "loop"
    /\ UNCHANGED <<handler, dg, iget, iput, nqueue, sock, sigio, arrivals, net>>

idleAlways == TRUE

idle == nqueue = 0

\* while (nqueue == 0) sigsuspend(); then SIGIO is unblocked
Loop ==
    /\ main = "loop" /\ main' = IF idle THEN "suspend" ELSE "send"
    /\ UNCHANGED <<handler, dg, iget, iput, nqueue, sock, sigio, arrivals, net>>

\* Sendto() and ++iget
Echo ==
    /\ main = "send" /\ handler = "off" /\ main' = "sent"
    /\ Sendto([dg[iget] EXCEPT !.to = "client"])
    /\ iget' = wrap(iget + 1)
    /\ UNCHANGED <<handler, dg, iput, nqueue, sock, sigio, arrivals>>

\* SIGIO is blocked and nqueue decremented
Release ==
    /\ main = "sent" /\ handler = "off" /\ main' = "loop"
    /\ nqueue' = nqueue - 1
    /\ UNCHANGED <<handler, dg, iget, iput, sock, sigio, arrivals, net>>

SigioNext == Arrive \/ Deliver \/ Overflow \/ Recvfrom \/ HandlerReturns
             \/ Setup \/ Loop \/ Echo \/ Release

SigioFairness ==
    /\ WF_<<sigioVars, net>>(Deliver \/ Overflow \/ Recvfrom \/ HandlerReturns)
    /\ WF_<<sigioVars, net>>(Setup \/ Loop \/ Echo \/ Release)

-----------------------------------------------------------------------------

\* What is queued: the slots from iget on.  Between Sendto() and nqueue-- the
\* counter still includes the slot that was just sent.
queued == IF main = "sent" THEN nqueue - 1 ELSE nqueue
contents == [k \in 1..queued |-> dg[(iget + k - 1) % QSIZE]]
\* the requests that were answered
echoed == {[m EXCEPT !.to = "server"] : m \in inFlight("client")}

\* The ring is a first-in first-out queue: the handler never overwrites a datagram
\* that waits, although it runs between any two steps of the loop.
Fifo == INSTANCE DatagramFifo WITH queue <- contents, out <- echoed, Capacity <- QSIZE
RingIsFifo == Fifo!Spec

\* SIGIO says that something arrived, not how much: whenever it is raised, the
\* handler empties the socket (or finds the ring full), so no datagram is left
\* behind without a signal.
SigioDrains == sigio ~> sock = <<>> \/ handler = "quit"

\* A datagram that arrives between FIOASYNC and FIONBIO makes the handler wait in
\* recvfrom(): dg_echo() never reaches its loop.
wedged == main = "async" /\ handler = "on"

\* Every datagram the handler has read is sent back, unless the server quits with
\* the ring full or was caught between FIOASYNC and FIONBIO.
QueuedIsEchoed ==
    \A m \in Datagram :
        (\E k \in 1..queued : contents[k] = m) ~> m \in echoed \/ handler = "quit" \/ wedged

\* What SIGIO announces is read, and what is read is sent back.
DatagramsServed == SigioDrains /\ QueuedIsEchoed
=============================================================================
