------------------------------ MODULE ShmChat ------------------------------
(***************************************************************************)
(* ch13_process/code_13_4.cpp: a chat room with one process per client.    *)
(* A child receives into its buffer in shared memory and tells the parent  *)
(* through a pipe; the parent tells the other children, who send that      *)
(* buffer to their clients.  users[] has no holes: when a child ends, the  *)
(* last entry is moved into its place, and sub_process[] must follow.      *)
(*                                                                         *)
(* A child stands for its pid, its pipe and its client, which users[]      *)
(* keeps in one entry; a pid is used again once it was waited for.  All    *)
(* registrations are edge-triggered: "ready" holds what has arrived since  *)
(* the last epoll_wait().                                                  *)
(***************************************************************************)
EXTENDS Integers, Sequences, FiniteSets

CONSTANTS
    Pids,
    USER_LIMIT,
    MaxConns, MaxMsgs, \* bounds on the environment
    NULL

ASSUME ChatAssumption ==
    /\ USER_LIMIT \in Nat \ {0} /\ NULL \notin Pids /\ IsFiniteSet(Pids)
    /\ MaxConns \in Nat /\ MaxMsgs \in Nat

VARIABLES
    main,         \* "wait", "turn", "signals", "exit"
    ready, batch, \* of the parent: "listen", "sig", and the children's pipes
    sigpipe,      \* signals in sig_pipefd
    hand,         \* signals that were read and are not handled
    users, user_count, sub_process,
    stop_server, terminate,
    conns, backlog, msgs, terms,
    child,        \* "none", "forked" (sig_handler is its handler), "starting" (and the
                  \* signal pipe is closed), "test", "wait" (epoll_wait()), "turn",
                  \* "zombie"
    stop_child, idx,
    unread, fin,  \* the client's data, and that it has closed
    cready, cbatch,   \* of each child: "conn", "pipe"
    up, down,     \* notifications to the parent, and from it (by their sender; the
                  \* code sends its idx, the number of the buffer)
    quiet         \* ghost: a termination found every child waiting, and no child
                  \* was started since

parent == <<main, ready, batch, sigpipe, hand>>
table  == <<users, user_count, sub_process>>
flags  == <<stop_server, terminate, quiet>>
env    == <<conns, backlog, msgs, terms>>
proc   == <<child, stop_child, idx>>
sock   == <<unread, fin, cready>>
pipe   == <<up, down>>
vars   == <<parent, table, flags, env, proc, sock, cbatch, pipe>>

Slots == 0..USER_LIMIT
started(p) == child[p] # "none"
inUse == {users[i] : i \in 0..(user_count - 1)}

TypeOK ==
    /\ main \in {"wait", "turn", "signals", "exit"}
    /\ ready \subseteq {"listen", "sig"} \cup Pids /\ batch \subseteq {"listen", "sig"} \cup Pids
    /\ sigpipe \subseteq {"CHLD", "TERM"} /\ hand \subseteq {"CHLD", "TERM"}
    /\ users \in [Slots -> Pids \cup {NULL}] /\ user_count \in 0..USER_LIMIT
    /\ sub_process \in [Pids -> Slots \cup {-1}]
    /\ child \in [Pids -> {"none", "forked", "starting", "test", "wait", "turn", "zombie"}]
    /\ idx \in [Pids -> 0..(USER_LIMIT - 1)]
    /\ unread \in [Pids -> 0..MaxMsgs] /\ up \in [Pids -> 0..MaxMsgs]
    /\ \A p \in Pids : cready[p] \cup cbatch[p] \subseteq {"conn", "pipe"}

Init ==
    /\ main = "wait" /\ ready = {} /\ batch = {} /\ sigpipe = {} /\ hand = {}
    /\ users = [i \in Slots |-> NULL] /\ user_count = 0 /\ sub_process = [p \in Pids |-> -1]
    /\ stop_server = FALSE /\ terminate = FALSE /\ quiet = FALSE
    /\ conns = 0 /\ backlog = 0 /\ msgs = 0 /\ terms = 0
    /\ child = [p \in Pids |-> "none"] /\ stop_child = [p \in Pids |-> FALSE]
    /\ idx = [p \in Pids |-> 0] /\ unread = [p \in Pids |-> 0] /\ fin = [p \in Pids |-> FALSE]
    /\ cready = [p \in Pids |-> {}] /\ cbatch = [p \in Pids |-> {}]
    /\ up = [p \in Pids |-> 0] /\ down = [p \in Pids |-> <<>>]

-----------------------------------------------------------------------------
(* Clients and signals *)

Connect ==
    /\ conns < MaxConns /\ conns' = conns + 1 /\ backlog' = backlog + 1
    /\ main # "exit" /\ ready' = ready \cup {"listen"}
    /\ UNCHANGED <<main, batch, sigpipe, hand, table, flags, msgs, terms, proc,
                   sock, cbatch, pipe>>

arrives(p, what) == cready' = [cready EXCEPT ![p] = @ \cup {what}]

Send(p) ==
    /\ main # "exit" /\ msgs < MaxMsgs /\ started(p) /\ child[p] # "zombie" /\ ~fin[p]
    /\ msgs' = msgs + 1 /\ unread' = [unread EXCEPT ![p] = @ + 1] /\ arrives(p, "conn")
    /\ UNCHANGED <<parent, table, flags, conns, backlog, terms, proc, fin, cbatch, pipe>>

Leave(p) ==
    /\ main # "exit" /\ started(p) /\ child[p] # "zombie" /\ ~fin[p]
    /\ fin' = [fin EXCEPT ![p] = TRUE] /\ arrives(p, "conn")
    /\ UNCHANGED <<parent, table, flags, env, proc, unread, cbatch, pipe>>

\* sig_handler() of the parent, or of a child that still has it
raise(sig) == sigpipe' = sigpipe \cup {sig} /\ ready' = ready \cup {"sig"}

Sigterm ==
    /\ terms = 0 /\ main # "exit" /\ terms' = 1 /\ raise("TERM")
    /\ UNCHANGED <<main, batch, hand, table, flags, conns, backlog, msgs, proc, sock,
                   cbatch, pipe>>

-----------------------------------------------------------------------------
(* run_child() *)

\* close(sig_pipefd[1]): a SIGTERM is lost from here on to addsig().
ClosePipes(p) ==
    /\ child[p] = "forked" /\ child' = [child EXCEPT ![p] = "starting"]
    /\ UNCHANGED <<parent, table, flags, env, stop_child, idx, sock, cbatch, pipe>>

Addsig(p) ==
    /\ child[p] = "starting" /\ child' = [child EXCEPT ![p] = "test"]
    /\ UNCHANGED <<parent, table, flags, env, stop_child, idx, sock, cbatch, pipe>>

\* while (!stop_child); that the exit closes the pipe is an event the parent ignores.
TestStop(p) ==
    /\ child[p] = "test"
    /\ IF stop_child[p]
         THEN /\ child' = [child EXCEPT ![p] = "zombie"]
              /\ raise("CHLD")
         ELSE child' = [child EXCEPT ![p] = "wait"] /\ UNCHANGED <<sigpipe, ready>>
    /\ UNCHANGED <<main, batch, hand, table, flags, env, stop_child, idx, sock, cbatch, pipe>>

ChildEpollWait(p) ==
    /\ child[p] = "wait" /\ cready[p] # {}
    /\ cbatch' = [cbatch EXCEPT ![p] = cready[p]] /\ cready' = [cready EXCEPT ![p] = {}]
    /\ child' = [child EXCEPT ![p] = "turn"]
    /\ UNCHANGED <<parent, table, flags, env, stop_child, idx, unread, fin, pipe>>

handled(p, what) ==
    /\ child[p] = "turn" /\ what \in cbatch[p]
    /\ cbatch' = [cbatch EXCEPT ![p] = @ \ {what}]
    /\ child' = [child EXCEPT ![p] = IF cbatch[p] = {what} THEN "test" ELSE "turn"]

\* One recv() per event, into buffer idx; the client's end is seen when no data is left.
RecvClient(p) ==
    /\ handled(p, "conn")
    /\ \/ /\ unread[p] > 0
          /\ \E k \in 1..unread[p] : unread' = [unread EXCEPT ![p] = @ - k]
          /\ up' = [up EXCEPT ![p] = @ + 1] /\ ready' = ready \cup {p}
          /\ UNCHANGED stop_child
       \/ /\ unread[p] = 0 /\ stop_child' = [stop_child EXCEPT ![p] = @ \/ fin[p]]
          /\ UNCHANGED <<unread, up, ready>>
    /\ UNCHANGED <<main, batch, sigpipe, hand, table, flags, env, idx, fin, cready, down>>

\* One notification per event; its buffer goes to the client as it is by now.
RecvParent(p) ==
    /\ handled(p, "pipe")
    /\ down' = [down EXCEPT ![p] = IF @ = <<>> THEN @ ELSE Tail(@)]
    /\ UNCHANGED <<parent, table, flags, env, stop_child, idx, sock, up>>

-----------------------------------------------------------------------------
(* The parent *)

EpollWait ==
    /\ main = "wait" /\ ready # {} /\ batch' = ready /\ ready' = {} /\ main' = "turn"
    /\ UNCHANGED <<sigpipe, hand, table, flags, env, proc, sock, cbatch, pipe>>

take(what) == main = "turn" /\ what \in batch /\ batch' = batch \ {what}

accepts == take("listen") /\ backlog > 0 /\ backlog' = backlog - 1

\* The room is full, or fork() fails: the connection is closed.
Refuse ==
    /\ accepts
    /\ UNCHANGED <<main, ready, sigpipe, hand, table, flags, conns, msgs, terms, proc, sock,
                   cbatch, pipe>>

Fork(p) ==
    /\ accepts /\ user_count < USER_LIMIT /\ ~started(p)
    /\ users' = [users EXCEPT ![user_count] = p] /\ user_count' = user_count + 1
    /\ sub_process' = [sub_process EXCEPT ![p] = user_count]
    /\ child' = [child EXCEPT ![p] = "forked"] /\ idx' = [idx EXCEPT ![p] = user_count]
    /\ quiet' = FALSE
    /\ UNCHANGED <<main, ready, sigpipe, hand, stop_server, terminate, conns, msgs,
                   terms, stop_child, sock, cbatch, pipe>>

othersByIndex(p) == {users[j] : j \in 0..(user_count - 1) \ {idx[p]}}

\* The sender is known by its pipe, not by its number.
others(p) == {users[j] : j \in {i \in 0..(user_count - 1) : users[i] # p}}

noticeAny(p) == started(p)

notice(p) == started(p) /\ up[p] > 0

\* recv() takes one notification, or finds the pipe closed or empty.
Forward(p) ==
    /\ take(p)
    /\ IF notice(p)
         THEN /\ up' = [up EXCEPT ![p] = @ - 1]
              /\ down' = [q \in Pids |-> IF q \in others(p) THEN Append(down[q], p) ELSE down[q]]
              /\ cready' = [q \in Pids |-> IF q \in others(p) THEN cready[q] \cup {"pipe"}
                                                             ELSE cready[q]]
         ELSE UNCHANGED <<pipe, cready>>
    /\ UNCHANGED <<main, ready, sigpipe, hand, table, flags, env, proc, unread, fin, cbatch>>

ReadSignals ==
    /\ take("sig") /\ hand' = sigpipe /\ sigpipe' = {}
    /\ main' = IF sigpipe = {} THEN "turn" ELSE "signals"
    /\ UNCHANGED <<ready, table, flags, env, proc, sock, cbatch, pipe>>

moveNot(i, last) == [users EXCEPT ![i] = NULL]

\* The last entry takes the free place.
move(i, last) == [users EXCEPT ![i] = users[last]]

\* One round of the waitpid() loop.  What the child left in its pipes goes with it.
Reap(p) ==
    /\ main = "signals" /\ "CHLD" \in hand /\ child[p] = "zombie"
    /\ LET del_user == sub_process[p]  last == user_count - 1 IN
         /\ users' = move(del_user, last) /\ user_count' = last
         /\ sub_process' = [sub_process EXCEPT ![p] = -1, ![users[last]] = del_user]
    /\ child' = [child EXCEPT ![p] = "none"] /\ stop_child' = [stop_child EXCEPT ![p] = FALSE]
    /\ idx' = [idx EXCEPT ![p] = 0] /\ ready' = ready \ {p}
    /\ unread' = [unread EXCEPT ![p] = 0] /\ fin' = [fin EXCEPT ![p] = FALSE]
    /\ cready' = [cready EXCEPT ![p] = {}] /\ cbatch' = [cbatch EXCEPT ![p] = {}]
    /\ up' = [up EXCEPT ![p] = 0] /\ down' = [down EXCEPT ![p] = <<>>]
    /\ UNCHANGED <<main, batch, sigpipe, hand, flags, env>>

zombies == {p \in Pids : child[p] = "zombie"}

drainedAny == TRUE

drained == zombies = {}

signalDone(sig) == hand' = hand \ {sig} /\ main' = IF hand = {sig} THEN "turn" ELSE "signals"

\* waitpid() finds nobody: the loop ends.
ChldDone ==
    /\ main = "signals" /\ "CHLD" \in hand /\ drained /\ signalDone("CHLD")
    /\ stop_server' = (stop_server \/ (terminate /\ user_count = 0))
    /\ UNCHANGED <<ready, batch, sigpipe, table, terminate, quiet, env, proc, sock, cbatch, pipe>>

victimsButFirst == inUse \ {users[0]}

victims == inUse

\* kill() of every child.  A new one may still have the parent's handler and pipe,
\* or the handler without the pipe; one that has tested stop_child and is not yet in
\* epoll_wait() misses the signal until the next event.
TermKills ==
    /\ main = "signals" /\ "TERM" \in hand /\ user_count > 0 /\ signalDone("TERM")
    /\ \E missed \in SUBSET {p \in victims : child[p] = "wait"} :
         /\ quiet' = (missed = {} /\ \A p \in inUse : child[p] \in {"wait", "zombie"})
         /\ child' = [p \in Pids |-> IF p \in victims \ missed /\ child[p] = "wait"
                                    THEN "test" ELSE child[p]]
    /\ terminate' = TRUE
    /\ stop_child' = [p \in Pids |-> stop_child[p] \/
                        (p \in victims /\ child[p] \in {"test", "wait", "turn"})]
    /\ IF \E p \in victims : child[p] = "forked" THEN raise("TERM") ELSE UNCHANGED <<sigpipe, ready>>
    /\ UNCHANGED <<batch, table, stop_server, env, idx, sock, cbatch, pipe>>

TermNoUsers ==
    /\ main = "signals" /\ "TERM" \in hand /\ user_count = 0 /\ signalDone("TERM")
    /\ stop_server' = TRUE
    /\ UNCHANGED <<ready, batch, sigpipe, table, terminate, quiet, env, proc, sock, cbatch, pipe>>

TurnEnds ==
    /\ main = "turn" /\ batch = {} /\ main' = IF stop_server THEN "exit" ELSE "wait"
    /\ UNCHANGED <<ready, batch, sigpipe, hand, table, flags, env, proc, sock, cbatch, pipe>>

-----------------------------------------------------------------------------

ParentStep ==
    \/ EpollWait \/ Refuse \/ ReadSignals \/ ChldDone \/ TermKills \/ TermNoUsers \/ TurnEnds
    \/ \E p \in Pids : Fork(p) \/ Forward(p) \/ Reap(p)

ChildStep(p) ==
    ClosePipes(p) \/ Addsig(p) \/ TestStop(p) \/ ChildEpollWait(p)
    \/ RecvClient(p) \/ RecvParent(p)

Next ==
    \/ Connect \/ Sigterm \/ ParentStep
    \/ \E p \in Pids : Send(p) \/ Leave(p) \/ ChildStep(p)

Spec == Init /\ [][Next]_vars

\* The parent and its children run; clients and signals come as they like.
FairSpec ==
    Spec /\ WF_vars(ParentStep) /\ \A p \in Pids : WF_vars(ChildStep(p))

-----------------------------------------------------------------------------

\* users[] lists exactly the children that were not waited for, each once, and
\* sub_process[] finds the place of each, whichever entries were moved: kill() and
\* the notifications reach all children and nobody else.
TableExact ==
    /\ inUse = {p \in Pids : started(p)} /\ Cardinality(inUse) = user_count
    /\ \A p \in inUse : sub_process[p] \in 0..(user_count - 1) /\ users[sub_process[p]] = p

\* No child is told of its own message, also when its number is no longer its
\* place in users[].
NotToSelf == \A p \in Pids : \A i \in DOMAIN down[p] : down[p][i] # p

\* Every child that ends is waited for and leaves the table, although several may
\* share one SIGCHLD, or end while the loop is running.
LeaversReaped == \A p \in Pids : child[p] = "zombie" ~> child[p] # "zombie" \/ main = "exit"

\* A termination that finds every child waiting ends the server, unless a client
\* comes in after it (a child that is just starting may miss the signal).
QuietTermEnds == quiet ~> main = "exit" \/ ~quiet

\* Types, an exact table of users, and no message back to its sender.
TableInv == TypeOK /\ TableExact /\ NotToSelf
=============================================================================
