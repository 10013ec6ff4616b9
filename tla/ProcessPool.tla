----------------------------- MODULE ProcessPool ----------------------------
(***************************************************************************)
(* ch15_pool/process_pool: processpool<T> of processpool.h with the        *)
(* cgi_conn of cgi_server.cpp as T.  The parent watches the listening      *)
(* socket and tells a child, round robin, to accept; each child serves its *)
(* clients and forks a CGI process per request.  Signals reach the two     *)
(* event loops through a pipe written by the signal handler.               *)
(*                                                                         *)
(* All registrations are EPOLLIN | EPOLLET, so a descriptor is reported    *)
(* once per arrival and not once per waiting item.  recv() on the signal   *)
(* pipe takes everything and the handling of a byte is idempotent, so that *)
(* pipe is the set of signals in it; like the kernel's pending signals.    *)
(* What cgi_conn::process() reads is a "part" of a request or the "whole". *)
(***************************************************************************)
EXTENDS Integers, Sequences, FiniteSets

CONSTANTS
    N,            \* m_process_number
    Clients,
    MaxCrashes,   \* bound: children that die by themselves
    MaxTerms      \* bound: signals sent to the pool to end it

ASSUME PoolAssumption ==
    /\ N \in 1..16 /\ MaxCrashes \in Nat /\ MaxTerms \in Nat
    /\ Clients \cap {"pipe", "sig"} = {}

Children == 0..(N - 1)
Signals == {"CHLD", "TERM"}

VARIABLES
    \* the parent
    ppc,                  \* "fork", "setup", "loop", "exited", or "child" (see ForkFails)
    m_pid,                \* m_sub_process[i].m_pid: i stands for the pid of child i
    sub_process_counter,
    m_stop,               \* the parent's
    events,               \* what epoll_wait gave the parent and is not handled yet
    ppending, psig,       \* signals pending for the parent, and in its signal pipe
    \* the children
    state,                \* "none", "setup", "run", "zombie" or "reaped"
    stop,                 \* their m_stop
    cevents, cpending, csig,
    pipe, pipeEdge,       \* notifications in m_pipefd, and an arrival not reported yet
    running, zombies,     \* CGI processes of a child that run, and that have ended
    \* the clients
    conn,                 \* "new", "backlog", "open" or "done"
    users,                \* the open connections of a child
    data,                 \* what the client has sent and nobody has read
    backlog, listenEdge,
    \* ghosts
    deaf,                 \* children that ended before the parent's handlers were set
    accepted,             \* connections accepted so far
    crashes, terms

parent == <<ppc, m_pid, sub_process_counter, m_stop, events, psig>>
child == <<stop, cevents, csig, pipeEdge, running, zombies>>
client == <<conn, users, data, backlog, listenEdge, accepted>>
ghosts == <<deaf, crashes, terms>>
vars == <<parent, ppending, state, cpending, pipe, child, client, ghosts>>

TypeOK ==
    /\ ppc \in {"fork", "setup", "loop", "exited", "child"}
    /\ m_pid \in [Children -> Children \cup {-1}]
    /\ sub_process_counter \in Children /\ m_stop \in BOOLEAN
    /\ events \subseteq {"listen", "sig"}
    /\ ppending \subseteq Signals /\ psig \subseteq Signals
    /\ state \in [Children -> {"none", "setup", "run", "zombie", "reaped"}]
    /\ stop \in [Children -> BOOLEAN]
    /\ cevents \in [Children -> SUBSET ({"pipe", "sig"} \cup Clients)]
    /\ cpending \in [Children -> SUBSET Signals] /\ csig \in [Children -> SUBSET Signals]
    /\ pipe \in [Children -> Nat] /\ pipeEdge \in [Children -> BOOLEAN]
    /\ running \in [Children -> Nat] /\ zombies \in [Children -> Nat]
    /\ conn \in [Clients -> {"new", "backlog", "open", "done"}]
    /\ users \in [Children -> SUBSET Clients]
    /\ data \in [Clients -> {"none", "part", "whole"}]
    /\ backlog \in Seq(Clients) /\ listenEdge \in BOOLEAN
    /\ deaf \subseteq Children /\ accepted \in Nat
    /\ crashes \in 0..MaxCrashes /\ terms \in 0..MaxTerms

Init ==
    /\ ppc = "fork" /\ m_pid = [i \in Children |-> -1]
    /\ sub_process_counter = 0 /\ m_stop = FALSE
    /\ events = {} /\ ppending = {} /\ psig = {}
    /\ state = [i \in Children |-> "none"] /\ stop = [i \in Children |-> FALSE]
    /\ cevents = [i \in Children |-> {}]
    /\ cpending = [i \in Children |-> {}] /\ csig = [i \in Children |-> {}]
    /\ pipe = [i \in Children |-> 0] /\ pipeEdge = [i \in Children |-> FALSE]
    /\ running = [i \in Children |-> 0] /\ zombies = [i \in Children |-> 0]
    /\ conn = [c \in Clients |-> "new"] /\ users = [i \in Children |-> {}]
    /\ data = [c \in Clients |-> "none"]
    /\ backlog = <<>> /\ listenEdge = FALSE
    /\ deaf = {} /\ accepted = 0 /\ crashes = 0 /\ terms = 0

-----------------------------------------------------------------------------
(* What the kernel does *)

\* the parent, or what ForkFails makes of it, has called addsig()
Listening == ppc \in {"loop", "child"}

Alive(i) == state[i] \in {"setup", "run"}

\* Child i ends: its descriptors are closed, its CGI processes are no longer its
\* own, and the parent gets SIGCHLD, which is ignored as long as the parent has
\* not called addsig().
Ends(i) ==
    /\ state' = [state EXCEPT ![i] = "zombie"]
    /\ conn' = [c \in Clients |-> IF c \in users[i] THEN "done" ELSE conn[c]]
    /\ users' = [users EXCEPT ![i] = {}]
    /\ data' = [c \in Clients |-> IF c \in users[i] THEN "none" ELSE data[c]]
    /\ stop' = [stop EXCEPT ![i] = FALSE] /\ cevents' = [cevents EXCEPT ![i] = {}]
    /\ csig' = [csig EXCEPT ![i] = {}]
    /\ pipe' = [pipe EXCEPT ![i] = 0] /\ pipeEdge' = [pipeEdge EXCEPT ![i] = FALSE]
    /\ running' = [running EXCEPT ![i] = 0] /\ zombies' = [zombies EXCEPT ![i] = 0]
    /\ cpending' = [cpending EXCEPT ![i] = {}]
    /\ ppending' = IF Listening THEN ppending \cup {"CHLD"} ELSE ppending
    /\ deaf' = IF Listening THEN deaf ELSE deaf \cup {i}

\* a child is killed, or one of its assertions fails
Crash(i) ==
    /\ Alive(i) /\ crashes < MaxCrashes /\ crashes' = crashes + 1
    /\ Ends(i)
    /\ UNCHANGED <<parent, backlog, listenEdge, accepted, terms>>

\* SIGTERM for the parent, which has its handlers
Terminate ==
    /\ Listening /\ terms < MaxTerms /\ terms' = terms + 1
    /\ ppending' = ppending \cup {"TERM"}
    /\ UNCHANGED <<parent, state, cpending, pipe, child, client, deaf, crashes>>

\* SIGINT from the terminal goes to the whole process group
Interrupt ==
    /\ ppc = "loop" /\ terms < MaxTerms /\ terms' = terms + 1
    /\ ppending' = ppending \cup {"TERM"}
    /\ cpending' = [i \in Children |-> IF Alive(i) THEN cpending[i] \cup {"TERM"}
                                       ELSE cpending[i]]
    /\ UNCHANGED <<parent, state, pipe, child, client, deaf, crashes>>

\* sig_handler() in the parent and in a child
sig_handler ==
    /\ \E s \in ppending : psig' = psig \cup {s} /\ ppending' = ppending \ {s}
    /\ UNCHANGED <<ppc, m_pid, sub_process_counter, m_stop, events,
                   state, cpending, pipe, child, client, ghosts>>

child_sig_handler(i) ==
    /\ state[i] = "run"
    /\ \E s \in cpending[i] : /\ csig' = [csig EXCEPT ![i] = @ \cup {s}]
                              /\ cpending' = [cpending EXCEPT ![i] = @ \ {s}]
    /\ UNCHANGED <<parent, ppending, state, pipe, stop, cevents, pipeEdge,
                   running, zombies, client, ghosts>>

\* SIGTERM before the child's addsig() ends it
DefaultTerm(i) ==
    /\ state[i] = "setup" /\ "TERM" \in cpending[i]
    /\ Ends(i)
    /\ UNCHANGED <<parent, backlog, listenEdge, accepted, crashes, terms>>

\* a CGI process prints its answer and exits
CgiExit(i) ==
    /\ running[i] > 0
    /\ running' = [running EXCEPT ![i] = @ - 1]
    /\ zombies' = [zombies EXCEPT ![i] = @ + 1]
    /\ cpending' = [cpending EXCEPT ![i] = @ \cup {"CHLD"}]
    /\ UNCHANGED <<parent, ppending, state, pipe, stop, cevents, csig, pipeEdge,
                   client, ghosts>>

-----------------------------------------------------------------------------
(* The clients *)

Connect(c) ==
    /\ conn[c] = "new" /\ ppc # "exited"
    /\ conn' = [conn EXCEPT ![c] = "backlog"]
    /\ backlog' = Append(backlog, c) /\ listenEdge' = TRUE
    /\ UNCHANGED <<parent, ppending, state, cpending, pipe, child, users, data, accepted,
                   ghosts>>

\* a part of the request; or all of it, or the end of the stream
Send(c, d) ==
    /\ conn[c] = "open" /\ data[c] \notin {"whole", d}
    /\ data' = [data EXCEPT ![c] = d]
    /\ UNCHANGED <<parent, ppending, state, cpending, pipe, child, conn, users, backlog,
                   listenEdge, accepted, ghosts>>

-----------------------------------------------------------------------------
(* The parent *)

Unforked == {i \in Children : state[i] = "none"}

\* one turn of the constructor's loop
Fork ==
    /\ ppc = "fork"
    /\ IF Unforked = {}
         THEN ppc' = "setup" /\ UNCHANGED <<m_pid, state>>
         ELSE \E i \in Unforked :
                /\ \A j \in Unforked : i <= j
                /\ m_pid' = [m_pid EXCEPT ![i] = i]
                /\ state' = [state EXCEPT ![i] = "setup"]
                /\ UNCHANGED ppc
    /\ UNCHANGED <<sub_process_counter, m_stop, events, psig, ppending, cpending,
                   pipe, child, client, ghosts>>

\* fork() returns -1, which the constructor takes for the 0 of a child: it sets
\* m_idx, and the parent goes on as run_child()
ForkFails ==
    /\ ppc = "fork" /\ Unforked # {}
    /\ ppc' = "child"
    /\ UNCHANGED <<m_pid, sub_process_counter, m_stop, events, psig, ppending, state,
                   cpending, pipe, child, client, ghosts>>

\* run_child() of the former parent: it reaps, and leaves on SIGTERM
RunAsChild ==
    /\ ppc = "child" /\ psig # {} /\ psig' = {}
    /\ state' = IF "CHLD" \in psig
                  THEN [i \in Children |-> IF state[i] = "zombie" THEN "reaped" ELSE state[i]]
                  ELSE state
    /\ ppc' = IF "TERM" \in psig THEN "exited" ELSE ppc
    /\ UNCHANGED <<m_pid, sub_process_counter, m_stop, events, ppending, cpending,
                   pipe, child, client, ghosts>>

setup_sig_pipe ==
    /\ ppc = "setup" /\ ppc' = "loop"
    /\ UNCHANGED <<m_pid, sub_process_counter, m_stop, events, psig, ppending, state,
                   cpending, pipe, child, client, ghosts>>

epoll_wait ==
    /\ ppc = "loop" /\ ~m_stop /\ events = {}
    /\ events' = {e \in {"listen", "sig"} : \/ e = "listen" /\ listenEdge /\ backlog # <<>>
                                            \/ e = "sig" /\ psig # {}}
    /\ events' # {}
    /\ listenEdge' = FALSE
    /\ UNCHANGED <<ppc, m_pid, sub_process_counter, m_stop, psig, ppending, state,
                   cpending, pipe, child, conn, users, data, backlog, accepted, ghosts>>

Handled(e) == ppc = "loop" /\ e \in events /\ events' = events \ {e}

\* the k-th candidate of the round robin
Candidate(k) == (sub_process_counter + k) % N

\* mutant: the index is not taken modulo m_process_number
next_counter_no_wrap(i) == i + 1

next_counter(i) == (i + 1) % N

\* mutant: children that are gone are not skipped
known_anyone(i) == i \in Children

\* as far as the parent knows, child i is there
known(i) == m_pid[i] # -1

\* a new connection: the next child that is not known to be gone is told; send()
\* to a child that is gone fails and nobody looks
Notify ==
    /\ Handled("listen")
    /\ \E k \in 0..(N - 1) :
         LET i == Candidate(k)
         IN /\ known(i) /\ \A j \in 0..(k - 1) : ~known(Candidate(j))
            /\ sub_process_counter' = next_counter(i)
            /\ IF Alive(i)
                 THEN /\ pipe' = [pipe EXCEPT ![i] = @ + 1]
                      /\ pipeEdge' = [pipeEdge EXCEPT ![i] = TRUE]
                 ELSE UNCHANGED <<pipe, pipeEdge>>
    /\ UNCHANGED <<ppc, m_pid, m_stop, psig, ppending, state, cpending, stop, cevents,
                   csig, running, zombies, client, ghosts>>

\* no child is left: m_stop, and the rest of the events is dropped
NobodyLeft ==
    /\ ppc = "loop" /\ "listen" \in events /\ events' = {}
    /\ \A i \in Children : ~known(i)
    /\ m_stop' = TRUE
    /\ UNCHANGED <<ppc, m_pid, sub_process_counter, psig, ppending, state, cpending,
                   pipe, child, client, ghosts>>

\* mutant: one waitpid() per SIGCHLD
reap_one ==
    LET ended == {i \in Children : state[i] = "zombie"}
    IN IF ended = {} THEN {} ELSE {CHOOSE i \in ended : TRUE}

\* waitpid(-1, &stat, WNOHANG) until it finds nobody
reap_all == {i \in Children : state[i] = "zombie"}

\* mutant: m_pid keeps the pid of a child that was waited for
forget_nobody(gone) == m_pid

forget(gone) == [i \in Children |-> IF m_pid[i] \in gone THEN -1 ELSE m_pid[i]]

\* mutant: the first child to end stops the parent
all_gone_any(pids) == \E i \in Children : pids[i] = -1

all_gone(pids) == \A i \in Children : pids[i] = -1

\* SIGCHLD: reap, and m_stop if no child remains.  SIGTERM: kill() every child
\* that is not known to be gone.
HandleSignals ==
    /\ Handled("sig") /\ psig' = {}
    /\ LET gone == IF "CHLD" \in psig THEN reap_all ELSE {}
       IN /\ state' = [i \in Children |-> IF i \in gone THEN "reaped" ELSE state[i]]
          /\ m_pid' = forget(gone)
    /\ m_stop' = IF "CHLD" \in psig THEN all_gone(m_pid') ELSE m_stop
    /\ cpending' = [i \in Children |->
                      IF "TERM" \in psig /\ known(i) /\ Alive(i)
                        THEN cpending[i] \cup {"TERM"} ELSE cpending[i]]
    /\ UNCHANGED <<ppc, sub_process_counter, ppending, pipe, child, client, ghosts>>

run_parent_returns ==
    /\ ppc = "loop" /\ m_stop /\ events = {}
    /\ ppc' = "exited"
    /\ UNCHANGED <<m_pid, sub_process_counter, m_stop, events, psig, ppending, state,
                   cpending, pipe, child, client, ghosts>>

-----------------------------------------------------------------------------
(* Child i *)

child_setup_sig_pipe(i) ==
    /\ state[i] = "setup" /\ state' = [state EXCEPT ![i] = "run"]
    /\ UNCHANGED <<parent, ppending, cpending, pipe, child, client, ghosts>>

child_epoll_wait(i) ==
    /\ state[i] = "run" /\ ~stop[i] /\ cevents[i] = {}
    /\ LET ready == {c \in users[i] : data[c] # "none"}
                    \cup (IF pipeEdge[i] /\ pipe[i] > 0 THEN {"pipe"} ELSE {})
                    \cup (IF csig[i] # {} THEN {"sig"} ELSE {})
       IN ready # {} /\ cevents' = [cevents EXCEPT ![i] = ready]
    /\ pipeEdge' = [pipeEdge EXCEPT ![i] = FALSE]
    /\ UNCHANGED <<parent, ppending, state, cpending, pipe, stop, csig, running, zombies,
                   client, ghosts>>

ChildHandled(i, e) ==
    state[i] = "run" /\ e \in cevents[i] /\ cevents' = [cevents EXCEPT ![i] = @ \ {e}]

\* one notification is read and one connection accepted, if one is still waiting
Accept(i) ==
    /\ ChildHandled(i, "pipe")
    /\ pipe' = [pipe EXCEPT ![i] = @ - 1]
    /\ IF backlog = <<>>
         THEN UNCHANGED <<conn, users, backlog, accepted>>
         ELSE /\ conn' = [conn EXCEPT ![Head(backlog)] = "open"]
              /\ users' = [users EXCEPT ![i] = @ \cup {Head(backlog)}]
              /\ backlog' = Tail(backlog)
              /\ accepted' = accepted + 1
    /\ UNCHANGED <<parent, ppending, state, cpending, stop, csig, pipeEdge, running, zombies,
                   data, listenEdge, ghosts>>

\* mutant: one waitpid() per SIGCHLD
child_reap_one(i) == IF zombies[i] > 0 THEN zombies[i] - 1 ELSE 0

\* the CGI processes the child's waitpid() loop leaves unreaped
child_reap_all(i) == 0

\* mutant: only the first byte of the pipe is looked at
told_to_stop_first(i) == csig[i] = {"TERM"}

told_to_stop(i) == "TERM" \in csig[i]

\* SIGCHLD: every CGI process that has ended is reaped.  SIGTERM: m_stop.
ChildHandleSignals(i) ==
    /\ ChildHandled(i, "sig") /\ csig' = [csig EXCEPT ![i] = {}]
    /\ zombies' = IF "CHLD" \in csig[i] THEN [zombies EXCEPT ![i] = child_reap_all(i)]
                  ELSE zombies
    /\ stop' = [stop EXCEPT ![i] = @ \/ told_to_stop(i)]
    /\ UNCHANGED <<parent, ppending, state, cpending, pipe, pipeEdge, running, client, ghosts>>

\* cgi_conn::process(): wait for the rest of the line; or close, because of the
\* client, a full buffer, a missing program or a failing fork(); or fork the
\* CGI process and close
process(i, c) ==
    /\ ChildHandled(i, c) /\ data' = [data EXCEPT ![c] = "none"]
    /\ \/ data[c] = "part" /\ UNCHANGED <<conn, users, running>>
       \/ /\ conn' = [conn EXCEPT ![c] = "done"]
          /\ users' = [users EXCEPT ![i] = @ \ {c}]
          /\ \/ UNCHANGED running
             \/ data[c] = "whole" /\ running' = [running EXCEPT ![i] = @ + 1]
    /\ UNCHANGED <<parent, ppending, state, cpending, pipe, stop, csig, pipeEdge, zombies,
                   backlog, listenEdge, accepted, ghosts>>

run_child_returns(i) ==
    /\ state[i] = "run" /\ stop[i] /\ cevents[i] = {}
    /\ Ends(i)
    /\ UNCHANGED <<parent, backlog, listenEdge, accepted, crashes, terms>>

-----------------------------------------------------------------------------
ParentStep ==
    \/ Fork \/ setup_sig_pipe \/ RunAsChild
    \/ epoll_wait \/ Notify \/ NobodyLeft \/ HandleSignals \/ run_parent_returns

ChildStep(i) ==
    \/ child_setup_sig_pipe(i) \/ child_epoll_wait(i) \/ Accept(i)
    \/ ChildHandleSignals(i) \/ run_child_returns(i)
    \/ \E c \in Clients : process(i, c)

Deliver == sig_handler \/ \E i \in Children : child_sig_handler(i) \/ DefaultTerm(i)

Next ==
    \/ ParentStep \/ ForkFails \/ Deliver \/ Terminate \/ Interrupt
    \/ \E i \in Children : ChildStep(i) \/ Crash(i) \/ CgiExit(i)
    \/ \E c \in Clients : Connect(c) \/ \E d \in {"part", "whole"} : Send(c, d)

Spec == Init /\ [][Next]_vars

\* The processes are scheduled and signals delivered; the CGI process prints a
\* line and exits.  Clients, crashes and SIGTERM may come or not.
FairSpec ==
    /\ Spec
    /\ WF_vars(ParentStep)
    /\ WF_vars(sig_handler)
    /\ \A i \in Children : /\ WF_vars(ChildStep(i))
                           /\ WF_vars(child_sig_handler(i) \/ DefaultTerm(i))
                           /\ WF_vars(CgiExit(i))

-----------------------------------------------------------------------------
(* Properties *)

AllEnded == \A i \in Children : state[i] \in {"zombie", "reaped"}

\* As long as the parent has the pid of a child it has not been reaped: kill()
\* on SIGTERM never hits a process that got the pid of a child of the pool.
KillsOwnChildren ==
    ppc = "loop" => \A i \in Children : m_pid[i] # -1 => state[i] \notin {"none", "reaped"}

\* The parent leaves its loop last: m_stop is set by SIGCHLD or by a connection
\* nobody can take, and never while a child is running or not waited for.
ParentLeavesLast ==
    m_stop => \A i \in Children : state[i] = "reaped"

\* processpool.h:309: once all children have ended the parent ends, although
\* SIGCHLDs are merged and a child may end at any time.  (If all of them end
\* before the parent's handlers are set no SIGCHLD ever comes.)
EndsWithChildren ==
    (ppc = "loop" /\ AllEnded /\ deaf # Children) ~> (ppc = "exited")

\* SIGTERM or SIGINT takes the whole pool down, whatever the children do and
\* however the signals cross.
TermEndsAll ==
    (ppc = "loop" /\ terms > 0 /\ deaf # Children) ~> (ppc = "exited" /\ AllEnded)

\* An arrival that epoll still has to report makes some child accept, unless
\* the pool ends or the child chosen has ended and the parent cannot know yet.
ArrivalServed ==
    \A n \in 0..(Cardinality(Clients) - 1) :
      (ppc = "loop" /\ listenEdge /\ backlog # <<>> /\ accepted = n)
        ~> (accepted > n \/ terms > 0 \/ ppc = "exited"
             \/ \E i \in Children : state[i] = "zombie")

\* No CGI process stays a zombie while its child runs, however many SIGCHLDs
\* are merged into one.
CgiReaped ==
    \A i \in Children : (zombies[i] > 0) ~> (zombies[i] = 0 \/ state[i] # "run")

\* Types, no kill() of a pid that was waited for, and a parent that leaves last.
PoolInv == TypeOK /\ KillsOwnChildren /\ ParentLeavesLast
=============================================================================
