--------------------------- MODULE InactiveServer --------------------------
(***************************************************************************)
(* ch11_timer/code_11_3.cpp: a server that closes connections that have    *)
(* been silent for three time slots.  One loop waits for edge-triggered    *)
(* events, handles the batch, and then always runs the timers and sets the *)
(* alarm again.  The timer list is the abstract one of TimerQueue, which   *)
(* TimerList implements; a timer is an address that may be used again.     *)
(*                                                                         *)
(* Time passes only while the loop waits with nothing to do: handling an   *)
(* event takes no time, and a signal that is due is delivered first.       *)
(***************************************************************************)
EXTENDS Integers, FiniteSets, TimerQueue

CONSTANTS
    Fds,         \* descriptors for connections
    TIMESLOT,
    LastInstant, \* bound: the last instant
    MaxClients,  \* bound: clients, no more than there are descriptors at a time
    None

ASSUME InactiveAssumption ==
    /\ TIMESLOT \in Nat \ {0} /\ LastInstant \in Nat /\ MaxClients \in Nat
    /\ Instants = 0..(LastInstant + 3 * TIMESLOT)
    /\ None \notin Handles /\ Never \notin Instants /\ Fds \cap {"listen", "pipe", None} = {}

VARIABLES
    now, alarm,        \* the time, and when SIGALRM is due (Never: it is not)
    signals,           \* bytes in pipefd
    clients, backlog,  \* clients so far, and those not accepted yet
    sock,              \* per descriptor: "closed", "open", or "gone" (the client closed
                       \* or reset the connection)
    unread,            \* data in the socket
    ready,             \* edges epoll_wait has not reported: descriptors, "listen", "pipe"
    batch,             \* what it reported and is not handled yet
    main,              \* "wait", "turn" (handling the batch), "tick", "exit"
    stop_server,
    client_timer,      \* users[fd].timer
    user_data,         \* of each timer: the descriptor
    heard              \* when data was last received, or the client accepted

net   == <<clients, backlog, sock, unread>>
loop  == <<batch, main, stop_server>>
clock == <<now, alarm, signals>>
users == <<client_timer, user_data, heard>>
vars  == <<clock, net, ready, loop, users, tqvars>>

isOpen(fd) == sock[fd] # "closed"

TypeOK ==
    /\ now \in 0..LastInstant /\ alarm \in Instants \cup {Never}
    /\ signals \subseteq {"ALRM", "TERM"} /\ backlog \in 0..MaxClients
    /\ sock \in [Fds -> {"closed", "open", "gone"}] /\ unread \in [Fds -> 0..2]
    /\ ready \subseteq Fds \cup {"listen", "pipe"} /\ batch \subseteq Fds \cup {"listen", "pipe"}
    /\ main \in {"wait", "turn", "tick", "exit"} /\ stop_server \in BOOLEAN
    /\ client_timer \in [Fds -> Handles \cup {None}] /\ user_data \in [Handles -> Fds \cup {None}]
    /\ due \in [DOMAIN due -> Instants] /\ DOMAIN due \subseteq Handles

Init ==
    /\ now = 0 /\ alarm = TIMESLOT /\ signals = {} /\ clients = 0 /\ backlog = 0
    /\ sock = [fd \in Fds |-> "closed"] /\ unread = [fd \in Fds |-> 0]
    /\ ready = {} /\ batch = {} /\ main = "wait" /\ stop_server = FALSE
    /\ client_timer = [fd \in Fds |-> None] /\ user_data = [t \in Handles |-> None]
    /\ heard = [fd \in Fds |-> 0] /\ TQInit

-----------------------------------------------------------------------------
(* Clients, signals and time *)

Connect ==
    /\ clients < MaxClients /\ backlog + 1 <= Cardinality({fd \in Fds : ~isOpen(fd)})
    /\ clients' = clients + 1 /\ backlog' = backlog + 1 /\ ready' = ready \cup {"listen"}
    /\ UNCHANGED <<clock, sock, unread, loop, users, tqvars>>

Send(fd) ==
    /\ sock[fd] = "open" /\ unread[fd] < 2
    /\ unread' = [unread EXCEPT ![fd] = @ + 1] /\ ready' = ready \cup {fd}
    /\ UNCHANGED <<clock, clients, backlog, sock, loop, users, tqvars>>

Leave(fd) ==
    /\ sock[fd] = "open"
    /\ sock' = [sock EXCEPT ![fd] = "gone"] /\ ready' = ready \cup {fd}
    /\ UNCHANGED <<clock, clients, backlog, unread, loop, users, tqvars>>

\* sig_handler() writes to the pipe; epoll_wait(), if it waits, fails with EINTR,
\* and the loop goes on to the timers.
sig_handler(sig) ==
    /\ signals' = signals \cup {sig} /\ ready' = ready \cup {"pipe"}
    /\ IF main = "wait" /\ ready = {}
         THEN main' = "tick" /\ TickBegins(now) ELSE UNCHANGED <<main, tqvars>>
    /\ UNCHANGED <<now, net, batch, stop_server, users>>

Sigalrm == main # "exit" /\ alarm = now /\ alarm' = Never /\ sig_handler("ALRM")
Sigterm == main # "exit" /\ ~stop_server /\ "TERM" \notin signals /\ sig_handler("TERM") /\ UNCHANGED alarm

TimePasses ==
    /\ main = "wait" /\ ready = {} /\ alarm # now /\ now < LastInstant
    /\ now' = now + 1
    /\ UNCHANGED <<alarm, signals, net, ready, loop, users, tqvars>>

-----------------------------------------------------------------------------
(* The loop *)

EpollWait ==
    /\ main = "wait" /\ ready # {}
    /\ batch' = ready /\ ready' = {} /\ main' = "turn"
    /\ UNCHANGED <<clock, net, stop_server, users, tqvars>>

expiryLate == now + 4 * TIMESLOT

expiry == now + 3 * TIMESLOT

\* An edge for listenfd stands for one connection at least; one is accepted.
Accept ==
    /\ main = "turn" /\ "listen" \in batch /\ batch' = batch \ {"listen"}
    /\ \E fd \in {f \in Fds : ~isOpen(f)}, t \in Handles \ DOMAIN due :
         /\ sock' = [sock EXCEPT ![fd] = "open"] /\ unread' = [unread EXCEPT ![fd] = 0]
         /\ client_timer' = [client_timer EXCEPT ![fd] = t]
         /\ user_data' = [user_data EXCEPT ![t] = fd]
         /\ heard' = [heard EXCEPT ![fd] = now] /\ Arm(t, expiry)
    /\ backlog' = backlog - 1
    /\ UNCHANGED <<clock, clients, ready, main, stop_server>>

\* SIGALRM only sets a flag that nothing reads.
ReadSignals ==
    /\ main = "turn" /\ "pipe" \in batch /\ batch' = batch \ {"pipe"}
    /\ stop_server' = (stop_server \/ "TERM" \in signals) /\ signals' = {}
    /\ UNCHANGED <<now, alarm, net, ready, main, users, tqvars>>

\* close() also takes the descriptor's event back.
cb_func(fd) ==
    /\ heard' = [heard EXCEPT ![fd] = 0]
    /\ sock' = [sock EXCEPT ![fd] = "closed"] /\ unread' = [unread EXCEPT ![fd] = 0]
    /\ ready' = ready \ {fd}

free(t) == user_data' = [user_data EXCEPT ![t] = None]

adjustNot(fd) == UNCHANGED tqvars

adjust(fd) == Arm(client_timer[fd], expiry)

del_timer_not(fd) == UNCHANGED <<user_data, tqvars>>

del_timer(fd) == Disarm(client_timer[fd]) /\ free(client_timer[fd])

\* recv() takes what fits into the buffer, which may leave data for an edge that
\* does not come; it fails with EAGAIN if an earlier call has taken all.
Recv(fd) ==
    /\ main = "turn" /\ fd \in batch /\ batch' = batch \ {fd}
    /\ \/ \E k \in 1..unread[fd] :
            /\ unread' = [unread EXCEPT ![fd] = @ - k] /\ heard' = [heard EXCEPT ![fd] = now]
            /\ adjust(fd) /\ UNCHANGED <<sock, ready, user_data>>
       \/ /\ unread[fd] = 0 /\ sock[fd] = "gone"
          /\ cb_func(fd) /\ del_timer(fd)
       \/ /\ unread[fd] = 0 /\ sock[fd] = "open"
          /\ UNCHANGED <<sock, unread, ready, heard, user_data, tqvars>>
    /\ UNCHANGED <<clock, clients, backlog, main, stop_server, client_timer>>

turnEndsAtAlarm == batch = {} \/ "ALRM" \in signals

turnEnds == batch = {}

\* timer_handler() runs after every batch, whether SIGALRM came or not.
TurnEnds ==
    /\ main = "turn" /\ turnEnds /\ main' = "tick" /\ TickBegins(now)
    /\ UNCHANGED <<clock, net, ready, batch, stop_server, users>>

TickFires(t) ==
    /\ main = "tick" /\ Fire(t) /\ cb_func(user_data[t]) /\ free(t)
    /\ UNCHANGED <<clock, clients, backlog, loop, client_timer>>

alarmNot == alarm

nextAlarm == now + TIMESLOT

TickDone ==
    /\ main = "tick" /\ TickEnds /\ alarm' = nextAlarm
    /\ main' = (IF stop_server THEN "exit" ELSE "wait")
    /\ UNCHANGED <<now, signals, net, ready, batch, stop_server, users>>

Next ==
    \/ Connect \/ Sigalrm \/ Sigterm \/ TimePasses
    \/ \E fd \in Fds : Send(fd) \/ Leave(fd) \/ Recv(fd)
    \/ EpollWait \/ Accept \/ ReadSignals \/ TurnEnds \/ TickDone
    \/ \E t \in Handles : TickFires(t)

Spec == Init /\ [][Next]_vars

-----------------------------------------------------------------------------

\* Between two steps of the loop the armed timers and the open connections
\* correspond one to one: no timer will close a descriptor that was given to
\* another client, and none is missing although users[fd].timer is never cleared.
TimerMatches ==
    /\ \A fd \in Fds : isOpen(fd) => client_timer[fd] \in DOMAIN due
    /\ \A t \in DOMAIN due : isOpen(user_data[t]) /\ client_timer[user_data[t]] = t

\* An event that epoll_wait() has reported is for a connection that is still
\* open when its turn comes, with a timer of its own: the loop never follows the
\* stale users[fd].timer of a connection that a timer has closed.
EventInHandIsLive ==
    \A fd \in batch \cap Fds :
        isOpen(fd) /\ client_timer[fd] \in DOMAIN due /\ user_data[client_timer[fd]] = fd

\* A timer closes a connection only after three slots without data, whatever
\* else the loop did in the meantime.
ActiveKept ==
    [][\A fd \in Fds : main = "tick" /\ isOpen(fd) /\ sock'[fd] = "closed"
          => now - heard[fd] >= 3 * TIMESLOT]_vars

\* No connection stays open for four slots without data, also if the client's FIN
\* went unnoticed behind data that one recv() did not take: an alarm that is put
\* off by every turn of the loop never puts off the timers.
SilentClosedInTime == \A fd \in Fds : isOpen(fd) => now - heard[fd] < 4 * TIMESLOT

\* Types, one timer for each connection, and live connections for reported events.
TimerInv == TypeOK /\ TimerMatches /\ EventInHandIsLive
=============================================================================
