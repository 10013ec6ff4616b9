----------------------------- MODULE RttClient -----------------------------
(***************************************************************************)
(* unpv1e3/rtt and lib/rtt.c: a client that adds reliability to UDP.       *)
(* dg_cli() reads a line and calls dg_send_recv(), which sends it with a   *)
(* sequence number and a timestamp, arms SIGALRM, waits for the answer     *)
(* with that sequence number, and on SIGALRM jumps back (siglongjmp) to    *)
(* send again with twice the timeout, RTT_MAXNREXMT times.                 *)
(*                                                                         *)
(* Time is the number of transmissions made: a timestamp tells one         *)
(* transmission from another.  The estimators of lib/rtt.c are floating    *)
(* point: a new RTO is rtt_minmax() of any value in Estimates.             *)
(***************************************************************************)
EXTENDS Integers, FiniteSets, UdpNetwork

CONSTANTS
    Lines,             \* bound: lines on standard input
    RTT_MAXNREXMT, RTT_RXTMIN, RTT_RXTMAX,
    FirstRto,          \* srtt + 4 * rttvar of rtt_init(): 3 seconds
    Estimates          \* what srtt + 4 * rttvar may come to

ASSUME RttAssumption ==
    /\ Lines \in Nat /\ RTT_MAXNREXMT \in Nat
    /\ RTT_RXTMIN \in Nat \ {0} /\ RTT_RXTMAX \in Nat /\ RTT_RXTMIN <= RTT_RXTMAX
    /\ FirstRto \in Nat /\ Estimates \subseteq Nat /\ Estimates # {}

VARIABLES
    at,        \* where the client is (see RttTypeOK)
    rttinit,
    seq, ts,   \* sendhdr
    recvhdr,
    rto, nrexmt,
    alarm,     \* SIGALRM is on its way
    jmpbuf     \* "unset", "live", or "dead": the frame it names has returned

rttVars == <<at, rttinit, seq, ts, recvhdr, rto, nrexmt, alarm, jmpbuf>>

Request(n, t) == [to |-> "server", seq |-> n, ts |-> t]
Requests == [to : {"server"}, seq : 1..Lines, ts : 1..(Lines * (RTT_MAXNREXMT + 1))]
Replies  == {[m EXCEPT !.to = "client"] : m \in Requests}
transmissions == {m \in inFlight("server") : m.seq = seq}

RttTypeOK ==
    /\ at \in {"fgets", "send", "armed", "recv", "got", "exit", "quit", "undefined"}
    /\ rttinit \in BOOLEAN /\ alarm \in BOOLEAN
    /\ seq \in 0..Lines /\ ts \in 0..(Lines * (RTT_MAXNREXMT + 1))
    /\ recvhdr.seq \in 0..Lines /\ rto \in Nat /\ nrexmt \in 0..(RTT_MAXNREXMT + 1)
    /\ jmpbuf \in {"unset", "live", "dead"}
    /\ net \subseteq Requests \cup Replies

RttInit ==
    /\ at = "fgets" /\ rttinit = FALSE /\ alarm = FALSE /\ jmpbuf = "unset"
    /\ seq = 0 /\ ts = 0 /\ rto = 0 /\ nrexmt = 0
    /\ recvhdr = [to |-> "client", seq |-> 0, ts |-> 0]

-----------------------------------------------------------------------------
(* lib/rtt.c *)

rtt_minmax_max_only(r) == IF r > RTT_RXTMAX THEN RTT_RXTMAX ELSE r

rtt_minmax(r) == IF r < RTT_RXTMIN THEN RTT_RXTMIN ELSE IF r > RTT_RXTMAX THEN RTT_RXTMAX ELSE r

rtt_init == rttinit' = TRUE /\ rto' = IF rttinit THEN rto ELSE rtt_minmax(FirstRto)

rtt_newpack == nrexmt' = 0

rtt_stop == \E e \in Estimates : rto' = rtt_minmax(e)

\* the seconds for alarm(): none would mean no alarm
rtt_start_first == rto > 0 /\ nrexmt = 0

rtt_start == rto > 0

rtt_timeout == rto' = 2 * rto /\ nrexmt' = nrexmt + 1

GivesUpEarly == nrexmt + 1 >= RTT_MAXNREXMT

GivesUp == nrexmt + 1 > RTT_MAXNREXMT

-----------------------------------------------------------------------------
(* dg_cli() and dg_send_recv() *)

Fgets ==
    /\ at = "fgets" /\ seq < Lines
    /\ rtt_init /\ rtt_newpack
    /\ seq' = seq + 1 /\ at' = "send"
    /\ UNCHANGED <<ts, recvhdr, alarm, jmpbuf, net>>

FgetsEof ==
    /\ at = "fgets" /\ at' = "exit"
    /\ UNCHANGED <<rttinit, seq, ts, recvhdr, rto, nrexmt, alarm, jmpbuf, net>>

\* sendagain: a new timestamp, sendmsg(), alarm(rtt_start())
SendAgain ==
    /\ at = "send" /\ at' = "armed"
    /\ ts' = ts + 1 /\ Sendto(Request(seq, ts + 1)) /\ alarm' = rtt_start
    /\ UNCHANGED <<rttinit, seq, recvhdr, rto, nrexmt, jmpbuf>>

Sigsetjmp ==
    /\ at = "armed" /\ at' = "recv" /\ jmpbuf' = "live"
    /\ UNCHANGED <<rttinit, seq, ts, recvhdr, rto, nrexmt, alarm, net>>

siglongjmp_once == "dead"

siglongjmp == jmpbuf

\* sig_alrm() jumps to the sigsetjmp() of this call, which then returns 1.  An
\* alarm between alarm() and the first sigsetjmp() of a call jumps to no frame.
SigAlrm ==
    /\ alarm /\ at \in {"armed", "recv", "got"} /\ jmpbuf = "live"
    /\ rtt_timeout
    /\ at' = IF GivesUp THEN "quit" ELSE "send"
    /\ rttinit' = (rttinit /\ ~GivesUp)
    /\ alarm' = FALSE /\ jmpbuf' = siglongjmp
    /\ UNCHANGED <<seq, ts, recvhdr, net>>

SigAlrmTooEarly ==
    /\ alarm /\ at = "armed" /\ jmpbuf # "live"
    /\ at' = "undefined" /\ alarm' = FALSE
    /\ UNCHANGED <<rttinit, seq, ts, recvhdr, rto, nrexmt, jmpbuf, net>>

IsAnswerAny(m) == TRUE

IsAnswer(m) == m.seq = seq

\* The loop around recvmsg(): what is not the answer is overwritten by the next
\* datagram and changes nothing.
Recvmsg ==
    /\ at = "recv" /\ at' = "got"
    /\ \E m \in inFlight("client") : IsAnswer(m) /\ recvhdr' = m
    /\ UNCHANGED <<rttinit, seq, ts, rto, nrexmt, alarm, jmpbuf, net>>

\* alarm(0), rtt_stop(), and dg_send_recv() returns to dg_cli()
Answered ==
    /\ at = "got" /\ at' = "fgets"
    /\ alarm' = FALSE /\ jmpbuf' = "dead" /\ rtt_stop
    /\ UNCHANGED <<rttinit, seq, ts, recvhdr, nrexmt, net>>

RttNext == Fgets \/ FgetsEof \/ SendAgain \/ Sigsetjmp \/ SigAlrm \/ SigAlrmTooEarly
           \/ Recvmsg \/ Answered

-----------------------------------------------------------------------------

\* The answer that ends a call, and the time its RTT is measured from, belong to
\* a transmission of this call's line, whatever answers to earlier lines are late.
AnswerOfThisCall ==
    [][at = "got" /\ at' = "fgets" => Request(seq, recvhdr.ts) \in net]_<<rttVars, net>>

\* dg_send_recv() gives up only when it has sent the line RTT_MAXNREXMT + 1 times.
GivesUpLast == at = "quit" => Cardinality(transmissions) = RTT_MAXNREXMT + 1

\* The client backs off: the timeout doubles with every retransmission of a line,
\* also when the line before it had been sent more than once.
BacksOff ==
    at \in {"send", "armed", "recv", "got", "quit"} => rto >= RTT_RXTMIN * 2^nrexmt

\* SIGALRM before sigsetjmp() can only do harm at the first transmission of a line:
\* at a retransmission jmpbuf still names the frame of this call.
EarlyAlarmOnlyOnFirst == at = "undefined" => Cardinality(transmissions) = 1

\* Every call ends, after timeouts that double: the client prints the answer, or
\* quits.  (rtt_timeout() does not keep the timeout below RTT_RXTMAX.)
CallEnds == []BacksOff /\ (at = "send" ~> at \in {"fgets", "exit", "quit", "undefined"})

RttFairness == WF_<<rttVars, net>>(SendAgain \/ Sigsetjmp \/ SigAlrm \/ Answered)
=============================================================================
