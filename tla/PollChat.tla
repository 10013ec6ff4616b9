------------------------------ MODULE PollChat ------------------------------
(***************************************************************************)
(* ch9_IO_multiplexing/code_9_7.cpp: a chat room around poll().  Entry 0   *)
(* of fds[] is the listening socket, entries 1..user_counter the users; an *)
(* entry that leaves is replaced by the last one.  users[] is indexed by   *)
(* descriptor; of it the model keeps write_buf, whose value is the         *)
(* descriptor of the user whose buffer it points to.                       *)
(***************************************************************************)
EXTENDS Integers, FiniteSetsExt

CONSTANTS
    USER_LIMIT,
    NFds,        \* descriptors the process may have for connections
    MaxClients,  \* bound: connections
    NULL

Fds == 1..NFds

VARIABLES
    clients, backlog,        \* connections so far, and those not accepted
    sock,                    \* "closed", "open", "gone" (FIN), "rst" (an error is pending)
    unread,                  \* there is data in the socket
    fds, user_counter,       \* [fd, out, revents]: out is POLLOUT of events
    i,                       \* the entry at hand, or Waiting in poll()
    write_buf

net  == <<clients, backlog, sock, unread>>
vars == <<net, fds, user_counter, i, write_buf>>

Waiting == -1
unused  == [fd |-> NULL, out |-> FALSE, revents |-> {}]

Init ==
    /\ clients = 0 /\ backlog = 0
    /\ sock = [fd \in Fds |-> "closed"] /\ unread = [fd \in Fds |-> FALSE]
    /\ fds = [k \in 0..USER_LIMIT |-> unused] /\ user_counter = 0 /\ i = Waiting
    /\ write_buf = [fd \in Fds |-> NULL]

-----------------------------------------------------------------------------
(* The clients *)

Connect ==
    /\ clients < MaxClients /\ clients' = clients + 1 /\ backlog' = backlog + 1
    /\ UNCHANGED <<sock, unread, fds, user_counter, i, write_buf>>

Say(fd) ==
    /\ sock[fd] = "open" /\ unread' = [unread EXCEPT ![fd] = TRUE]
    /\ UNCHANGED <<clients, backlog, sock, fds, user_counter, i, write_buf>>

Leave(fd, how) ==
    /\ sock[fd] = "open" \/ (sock[fd] = "gone" /\ how = "rst")
    /\ sock' = [sock EXCEPT ![fd] = how]
    /\ UNCHANGED <<clients, backlog, unread, fds, user_counter, i, write_buf>>

-----------------------------------------------------------------------------
(* poll().  A closed descriptor gives POLLNVAL, which no branch looks at.  *)

reported(k, room) ==
    IF k = 0 THEN {e \in {"IN"} : backlog > 0}
    ELSE LET fd == fds[k].fd IN
         IF sock[fd] = "closed" THEN {"NVAL"}
         ELSE {e \in {"ERR", "RDHUP", "IN", "OUT"} :
                 CASE e = "ERR"   -> sock[fd] = "rst"
                   [] e = "RDHUP" -> sock[fd] # "open"
                   [] e = "IN"    -> sock[fd] # "open" \/ unread[fd]
                   [] e = "OUT"   -> fds[k].out /\ fd \in room}

Poll ==
    /\ i = Waiting
    /\ \E room \in SUBSET Fds :
         /\ \E k \in 0..user_counter : reported(k, room) # {}
         /\ fds' = [k \in 0..USER_LIMIT |->
                      IF k <= user_counter THEN [fds[k] EXCEPT !.revents = reported(k, room)] ELSE fds[k]]
    /\ i' = 0
    /\ UNCHANGED <<net, user_counter, write_buf>>

-----------------------------------------------------------------------------
(* One turn of the for loop *)

here == fds[i].revents
atUser == i \in 1..user_counter
next(last) == i' = IF i < last THEN i + 1 ELSE Waiting

free == {fd \in Fds : sock[fd] = "closed"}

\* accept() fails when there is no descriptor left; the connection stays in the queue.
AcceptFails ==
    /\ i = 0 /\ "IN" \in here /\ free = {} /\ next(user_counter)
    /\ UNCHANGED <<net, fds, user_counter, write_buf>>

TooManyUsers ==
    /\ i = 0 /\ "IN" \in here /\ free # {} /\ user_counter >= USER_LIMIT
    /\ backlog' = backlog - 1 /\ next(user_counter)
    /\ UNCHANGED <<clients, sock, unread, fds, user_counter, write_buf>>

\* The new connection gets the lowest free descriptor.
Accept ==
    /\ i = 0 /\ "IN" \in here /\ free # {} /\ user_counter < USER_LIMIT
    /\ user_counter' = user_counter + 1 /\ backlog' = backlog - 1
    /\ LET connfd == Min(free) IN
         /\ sock' = [sock EXCEPT ![connfd] = "open"]
         /\ unread' = [unread EXCEPT ![connfd] = FALSE]
         /\ fds' = [fds EXCEPT ![user_counter'] = [unused EXCEPT !.fd = connfd]]
    /\ next(user_counter') /\ UNCHANGED <<clients, write_buf>>

\* POLLERR: getsockopt(SO_ERROR) takes the error off the socket, nothing else happens.
Error ==
    /\ atUser /\ "ERR" \in here /\ next(user_counter)
    /\ sock' = [sock EXCEPT ![fds[i].fd] = IF @ = "rst" THEN "gone" ELSE @]
    /\ UNCHANGED <<clients, backlog, unread, fds, user_counter, write_buf>>

\* The last entry takes the place of this one, and the loop looks at it next, with the
\* revents it came with.
remove ==
    /\ fds' = [fds EXCEPT ![i] = fds[user_counter]]
    /\ write_buf' = [write_buf EXCEPT ![fds[i].fd] = write_buf[fds[user_counter].fd]]
    /\ user_counter' = user_counter - 1
    /\ i' = IF i <= user_counter' THEN i ELSE Waiting

close(fd) == sock' = [sock EXCEPT ![fd] = "closed"]

\* POLLRDHUP: the entry is overwritten first and then its descriptor is closed.
ClientLeft ==
    /\ atUser /\ "ERR" \notin here /\ "RDHUP" \in here
    /\ remove /\ close(fds'[i].fd)
    /\ UNCHANGED <<clients, backlog, unread>>

readable == atUser /\ here \cap {"ERR", "RDHUP"} = {} /\ "IN" \in here

\* recv() fails: a reset that came after poll(), or a descriptor closed in this turn.
RecvFails ==
    /\ readable /\ (sock[fds[i].fd] = "closed" \/ (~unread[fds[i].fd] /\ sock[fds[i].fd] = "rst"))
    /\ close(fds[i].fd) /\ remove
    /\ UNCHANGED <<clients, backlog, unread>>

\* End of file, or EAGAIN: another entry of the same descriptor was served first.
RecvNothing ==
    /\ readable /\ ~unread[fds[i].fd] /\ sock[fds[i].fd] \in {"open", "gone"} /\ next(user_counter)
    /\ UNCHANGED <<net, fds, user_counter, write_buf>>

Recv ==
    LET connfd == fds[i].fd
        others == {k \in 1..user_counter : fds[k].fd # connfd}
    IN  /\ readable /\ unread[connfd] /\ sock[connfd] # "closed"
        /\ unread' = [unread EXCEPT ![connfd] = FALSE]
        /\ fds' = [k \in 0..USER_LIMIT |-> IF k \in others THEN [fds[k] EXCEPT !.out = TRUE] ELSE fds[k]]
        /\ write_buf' = [fd \in Fds |-> IF \E k \in others : fds[k].fd = fd THEN connfd ELSE write_buf[fd]]
        /\ next(user_counter) /\ UNCHANGED <<clients, backlog, sock, user_counter>>

\* POLLOUT stays among the events: the second |= takes nothing away.
Send ==
    /\ atUser /\ here = {"OUT"} /\ next(user_counter)
    /\ write_buf' = [write_buf EXCEPT ![fds[i].fd] = NULL]
    /\ UNCHANGED <<net, fds, user_counter>>

Nothing ==
    /\ i \in 0..user_counter /\ here \subseteq {"NVAL"} /\ next(user_counter)
    /\ UNCHANGED <<net, fds, user_counter, write_buf>>

-----------------------------------------------------------------------------

Turn ==
    \/ AcceptFails \/ TooManyUsers \/ Accept \/ Error \/ ClientLeft
    \/ RecvFails \/ RecvNothing \/ Recv \/ Send \/ Nothing

Next ==
    \/ Connect \/ Poll \/ Turn
    \/ \E fd \in Fds : Say(fd) \/ \E how \in {"gone", "rst"} : Leave(fd, how)

Spec == Init /\ [][Next]_vars

-----------------------------------------------------------------------------

\* "If the client closes the connection, the server also closes the corresponding
\* connection, and the number of users is reduced by one": between two turns the
\* entries of fds[] are exactly the connections that are open.
LeaverIsClosed ==
    i = Waiting => {fds[k].fd : k \in 1..user_counter} = Fds \ free
=============================================================================
