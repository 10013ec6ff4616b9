------------------------- MODULE ProcessPoolProofs --------------------------
(***************************************************************************)
(* Theorems about ProcessPool for any number of clients, crashes and       *)
(* signals, and every number of children the constructor accepts.          *)
(***************************************************************************)
EXTENDS ProcessPool, TLAPS

-----------------------------------------------------------------------------
(* The inductive invariant.                                                 *)

\* What m_sub_process[] says of a child in each phase of the parent: before run_parent()
\* a pid for each child that was forked, in its loop for each that was not waited for.
\* (Nothing is said of the former parent that ForkFails makes a child.)
Forked(i) == state[i] # "reaped" /\ (m_pid[i] = -1 <=> state[i] = "none")
Kept(i) == state[i] # "none" /\ (m_pid[i] = -1 <=> state[i] = "reaped")
Phases ==
    /\ \A i \in Children : m_pid[i] \in {-1, i}
    /\ ppc \in {"fork", "setup"} => \A i \in Children : Forked(i)
    /\ ppc = "setup" => \A i \in Children : state[i] # "none"
    /\ ppc = "loop" => \A i \in Children : Kept(i)

\* m_stop is the decision of run_parent(), for good.
Stopped == m_stop => ppc \in {"loop", "exited"} /\ \A i \in Children : state[i] = "reaped"

\* A child reads its pipe only when a notification is in it.
PipeFull == \A i \in Children : "pipe" \in cevents[i] => pipe[i] > 0

\* The type invariant, by process.
ParentTypes ==
    /\ ppc \in {"fork", "setup", "loop", "exited", "child"}
    /\ m_pid \in [Children -> Children \cup {-1}]
    /\ sub_process_counter \in Children /\ m_stop \in BOOLEAN
    /\ events \subseteq {"listen", "sig"}
    /\ ppending \subseteq Signals /\ psig \subseteq Signals
    /\ state \in [Children -> {"none", "setup", "run", "zombie", "reaped"}]
ChildTypes ==
    /\ stop \in [Children -> BOOLEAN]
    /\ cevents \in [Children -> SUBSET ({"pipe", "sig"} \cup Clients)]
    /\ cpending \in [Children -> SUBSET Signals] /\ csig \in [Children -> SUBSET Signals]
    /\ pipe \in [Children -> Nat] /\ pipeEdge \in [Children -> BOOLEAN]
    /\ running \in [Children -> Nat] /\ zombies \in [Children -> Nat]
ClientTypes ==
    /\ conn \in [Clients -> {"new", "backlog", "open", "done"}]
    /\ users \in [Children -> SUBSET Clients]
    /\ data \in [Clients -> {"none", "part", "whole"}]
    /\ backlog \in Seq(Clients) /\ listenEdge \in BOOLEAN
    /\ deaf \subseteq Children /\ accepted \in Nat
    /\ crashes \in 0..MaxCrashes /\ terms \in 0..MaxTerms

IInv == ParentTypes /\ ChildTypes /\ ClientTypes /\ Phases /\ Stopped /\ PipeFull

-----------------------------------------------------------------------------
(* What a step leaves alone.                                                *)

\* Nothing the parent or the children's states depend on.
LEMMA ParentKept ==
  ASSUME IInv, UNCHANGED <<parent, ppending, state>>
  PROVE  ParentTypes' /\ Phases' /\ Stopped'
  BY DEF IInv, parent, ParentTypes, Phases, Forked, Kept, Stopped

\* Nothing the children's event loops depend on.
LEMMA ChildKept ==
  ASSUME IInv, UNCHANGED <<cpending, pipe, child>>
  PROVE  ChildTypes' /\ PipeFull'
  BY DEF IInv, child, ChildTypes, PipeFull

\* Nothing of the clients.
LEMMA ClientKept == ASSUME IInv, UNCHANGED <<client, ghosts>> PROVE ClientTypes'
  BY DEF IInv, client, ghosts, ClientTypes

\* The round robin stays among the children.
LEMMA IndexInRange == ASSUME NEW a \in Nat PROVE a % N \in Children
  BY PoolAssumption DEF Children

\* A child that is alive goes on or ends: m_sub_process[] still says what it should.
LEMMA StateStep ==
  ASSUME IInv, NEW i \in Children, Alive(i), NEW s \in {"run", "zombie"},
         state' = [state EXCEPT ![i] = s], UNCHANGED parent, ppending' \subseteq Signals
  PROVE  ParentTypes' /\ Phases' /\ Stopped'
<1>1. /\ state \in [Children -> {"none", "setup", "run", "zombie", "reaped"}]
      /\ state[i] \in {"setup", "run"}
  BY DEF IInv, ParentTypes, Alive
<1>2. state' \in [Children -> {"none", "setup", "run", "zombie", "reaped"}]
  BY <1>1
<1>3. \A j \in Children : /\ state'[j] = "none" <=> state[j] = "none"
                          /\ state'[j] = "reaped" <=> state[j] = "reaped"
  BY <1>1
<1> QED
  BY <1>2, <1>3 DEF IInv, parent, ParentTypes, Phases, Forked, Kept, Stopped

-----------------------------------------------------------------------------
(* The end of a child.                                                      *)

\* A child ends in whatever way: its descriptors and its pipe go with it.
LEMMA EndsStep ==
  ASSUME IInv, NEW i \in Children, Alive(i), Ends(i),
         UNCHANGED <<parent, backlog, listenEdge, accepted>>,
         crashes' \in 0..MaxCrashes, terms' \in 0..MaxTerms
  PROVE  IInv'
<1>1. ParentTypes' /\ Phases' /\ Stopped'
  <2>1. ppending' \subseteq Signals /\ state' = [state EXCEPT ![i] = "zombie"]
    BY DEF Ends, IInv, ParentTypes, Signals
  <2> QED
    BY <2>1, StateStep
<1>2. ChildTypes'
  <2>1. PICK no \in BOOLEAN : stop' = [stop EXCEPT ![i] = no] /\ pipeEdge' = [pipeEdge EXCEPT ![i] = no]
    <3>1. stop' = [stop EXCEPT ![i] = FALSE] /\ pipeEdge' = [pipeEdge EXCEPT ![i] = FALSE]
      BY DEF Ends
    <3> WITNESS FALSE \in BOOLEAN
    <3> QED
      BY <3>1
  <2>2. stop' \in [Children -> BOOLEAN] /\ pipeEdge' \in [Children -> BOOLEAN]
    BY <2>1 DEF IInv, ChildTypes
  <2>3. /\ cevents' \in [Children -> SUBSET ({"pipe", "sig"} \cup Clients)]
        /\ cpending' \in [Children -> SUBSET Signals] /\ csig' \in [Children -> SUBSET Signals]
    BY DEF Ends, IInv, ChildTypes
  <2>4. /\ pipe' \in [Children -> Nat]
        /\ running' \in [Children -> Nat] /\ zombies' \in [Children -> Nat]
    BY DEF Ends, IInv, ChildTypes
  <2> QED
    BY <2>2, <2>3, <2>4 DEF ChildTypes
<1>3. PipeFull'
  BY DEF Ends, IInv, ChildTypes, PipeFull
<1>4. ClientTypes'
  <2>1. conn' \in [Clients -> {"new", "backlog", "open", "done"}]
    BY DEF Ends, IInv, ClientTypes
  <2>2. data' \in [Clients -> {"none", "part", "whole"}] /\ users' \in [Children -> SUBSET Clients]
    BY DEF Ends, IInv, ClientTypes
  <2>3. deaf' \subseteq Children
    BY DEF Ends, IInv, ClientTypes
  <2> QED
    BY <2>1, <2>2, <2>3 DEF IInv, ClientTypes
<1> QED
  BY <1>1, <1>2, <1>3, <1>4 DEF IInv

-----------------------------------------------------------------------------
(* Signals and clients.                                                     *)

\* Signals are sent and go into a signal pipe; a CGI process exits.
LEMMA SignalStep ==
  ASSUME IInv,
         \/ sig_handler \/ Terminate \/ Interrupt
         \/ \E i \in Children : child_sig_handler(i) \/ CgiExit(i)
  PROVE  IInv'
<1> USE DEF IInv
<1>1. CASE sig_handler
  <2>1. UNCHANGED <<cpending, pipe, child, client, ghosts>>
    BY <1>1 DEF sig_handler
  <2>2. ChildTypes' /\ PipeFull' /\ ClientTypes'
    BY <2>1, ChildKept, ClientKept
  <2>3. ParentTypes' /\ Phases' /\ Stopped'
    BY <1>1 DEF sig_handler, ParentTypes, Phases, Forked, Kept, Stopped
  <2> QED
    BY <2>2, <2>3
<1>2. CASE Terminate \/ Interrupt
  <2>1. UNCHANGED <<parent, state, pipe, child, client, deaf, crashes>> /\ ppending' \subseteq Signals
    BY <1>2 DEF Terminate, Interrupt, ParentTypes, Signals
  <2>2. cpending' \in [Children -> SUBSET Signals]
    BY <1>2 DEF Terminate, Interrupt, ChildTypes, Signals
  <2>3. terms' \in 0..MaxTerms
    BY <1>2, PoolAssumption DEF Terminate, Interrupt, ClientTypes
  <2>4. ParentTypes' /\ Phases' /\ Stopped'
    BY <2>1 DEF parent, ParentTypes, Phases, Forked, Kept, Stopped
  <2>5. ChildTypes' /\ PipeFull'
    BY <2>1, <2>2 DEF child, ChildTypes, PipeFull
  <2>6. ClientTypes'
    BY <2>1, <2>3 DEF client, ClientTypes
  <2> QED
    BY <2>4, <2>5, <2>6
<1>3. ASSUME NEW i \in Children, child_sig_handler(i) PROVE IInv'
  <2>1. UNCHANGED <<parent, ppending, state, client, ghosts>>
    BY <1>3 DEF child_sig_handler
  <2>2. ParentTypes' /\ Phases' /\ Stopped' /\ ClientTypes'
    BY <2>1, ParentKept, ClientKept
  <2>3. ChildTypes' /\ PipeFull'
    BY <1>3 DEF child_sig_handler, ChildTypes, PipeFull
  <2> QED
    BY <2>2, <2>3
<1>4. ASSUME NEW i \in Children, CgiExit(i) PROVE IInv'
  <2>1. UNCHANGED <<parent, ppending, state, client, ghosts>>
    BY <1>4 DEF CgiExit
  <2>2. ParentTypes' /\ Phases' /\ Stopped' /\ ClientTypes'
    BY <2>1, ParentKept, ClientKept
  <2>3. running' \in [Children -> Nat] /\ zombies' \in [Children -> Nat]
    BY <1>4 DEF CgiExit, ChildTypes
  <2>4. cpending' \in [Children -> SUBSET Signals]
    BY <1>4 DEF CgiExit, ChildTypes, Signals
  <2>5. ChildTypes' /\ PipeFull'
    BY <1>4, <2>3, <2>4 DEF CgiExit, ChildTypes, PipeFull
  <2> QED
    BY <2>2, <2>5
<1> QED
  BY <1>1, <1>2, <1>3, <1>4

\* A client connects or sends.
LEMMA PeerStep ==
  ASSUME IInv, NEW c \in Clients, Connect(c) \/ \E d \in {"part", "whole"} : Send(c, d)
  PROVE  IInv'
<1>1. UNCHANGED <<parent, ppending, state, cpending, pipe, child>>
  BY DEF Connect, Send
<1>2. ParentTypes' /\ Phases' /\ Stopped' /\ ChildTypes' /\ PipeFull'
  BY <1>1, ParentKept, ChildKept
<1>3. /\ conn' \in [Clients -> {"new", "backlog", "open", "done"}]
      /\ data' \in [Clients -> {"none", "part", "whole"}]
  BY DEF Connect, Send, IInv, ClientTypes
<1>4. listenEdge' \in BOOLEAN /\ backlog' \in Seq(Clients)
  <2>1. CASE Connect(c)
    BY <2>1 DEF Connect, IInv, ClientTypes
  <2>2. ASSUME NEW d, Send(c, d) PROVE listenEdge' \in BOOLEAN /\ backlog' \in Seq(Clients)
    BY <2>2 DEF Send, IInv, ClientTypes
  <2> QED
    BY <2>1, <2>2
<1>5. UNCHANGED <<users, deaf, accepted, crashes, terms>>
  BY DEF Connect, Send, ghosts
<1>6. ClientTypes'
  BY <1>3, <1>4, <1>5 DEF IInv, ClientTypes
<1> QED
  BY <1>2, <1>6 DEF IInv

-----------------------------------------------------------------------------
(* The parent.                                                              *)

\* The constructor, and what becomes of the parent if fork() fails.
LEMMA ConstructorStep ==
  ASSUME IInv, Fork \/ ForkFails \/ setup_sig_pipe \/ RunAsChild
  PROVE  IInv'
<1> USE DEF IInv
<1>1. UNCHANGED <<sub_process_counter, m_stop, events, cpending, pipe, child, client, ghosts>>
  BY DEF Fork, ForkFails, setup_sig_pipe, RunAsChild
<1>2. ChildTypes' /\ PipeFull' /\ ClientTypes'
  BY <1>1, ChildKept, ClientKept
<1>3. CASE Fork /\ Unforked = {}
  <2>1. ppc = "fork" /\ ppc' = "setup" /\ UNCHANGED <<m_pid, state, psig, ppending>>
    BY <1>3 DEF Fork
  <2>2. \A i \in Children : state[i] # "none"
    BY <1>3 DEF Unforked
  <2> QED
    BY <1>1, <1>2, <2>1, <2>2 DEF ParentTypes, Phases, Forked, Stopped
<1>4. CASE Fork /\ Unforked # {}
  <2>1. PICK i \in Unforked : m_pid' = [m_pid EXCEPT ![i] = i] /\ state' = [state EXCEPT ![i] = "setup"]
    BY <1>4 DEF Fork
  <2>2. i \in Children /\ i # -1 /\ ppc = "fork" /\ UNCHANGED <<ppc, psig, ppending>>
    BY <1>4 DEF Fork, Unforked, Children
  <2>3. ParentTypes'
    BY <1>1, <2>1, <2>2 DEF ParentTypes
  <2>4. Phases'
    <3>1. \A j \in Children : m_pid[j] \in {-1, j} /\ Forked(j)
      BY <2>2 DEF Phases
    <3>2. \A j \in Children : m_pid'[j] \in {-1, j} /\ state'[j] # "reaped"
                              /\ (m_pid'[j] = -1 <=> state'[j] = "none")
      BY <2>1, <2>2, <3>1 DEF ParentTypes, Forked
    <3> QED
      BY <2>2, <3>2 DEF Phases, Forked
  <2>5. Stopped'
    BY <1>1, <2>2 DEF Stopped
  <2> QED
    BY <1>2, <2>3, <2>4, <2>5
<1>5. CASE ForkFails
  <2>1. ppc = "fork" /\ ppc' = "child" /\ UNCHANGED <<m_pid, state, psig, ppending>>
    BY <1>5 DEF ForkFails
  <2> QED
    BY <1>1, <1>2, <2>1 DEF ParentTypes, Phases, Stopped
<1>6. CASE setup_sig_pipe
  <2>1. ppc = "setup" /\ ppc' = "loop" /\ UNCHANGED <<m_pid, state, psig, ppending>>
    BY <1>6 DEF setup_sig_pipe
  <2> QED
    BY <1>1, <1>2, <2>1 DEF ParentTypes, Phases, Forked, Kept, Stopped
<1>7. CASE RunAsChild
  <2>1. /\ ppc = "child" /\ ppc' \in {"child", "exited"} /\ psig' = {} /\ UNCHANGED <<m_pid, ppending>>
        /\ state' \in [Children -> {"none", "setup", "run", "zombie", "reaped"}]
    BY <1>7 DEF RunAsChild, ParentTypes
  <2> QED
    BY <1>1, <1>2, <2>1 DEF ParentTypes, Phases, Stopped
<1> QED
  BY <1>3, <1>4, <1>5, <1>6, <1>7

\* A new connection: one more notification in the pipe of some child.
LEMMA NotifyStep == ASSUME IInv, Notify PROVE IInv'
<1> USE DEF IInv
<1>1. PICK k \in 0..(N - 1) :
        /\ sub_process_counter' = next_counter(Candidate(k))
        /\ \/ /\ pipe' = [pipe EXCEPT ![Candidate(k)] = @ + 1]
              /\ pipeEdge' = [pipeEdge EXCEPT ![Candidate(k)] = TRUE]
           \/ UNCHANGED <<pipe, pipeEdge>>
  BY DEF Notify
<1>2. Candidate(k) \in Children
  <2>1. sub_process_counter + k \in Nat
    BY PoolAssumption DEF ParentTypes, Children
  <2> QED
    BY <2>1, IndexInRange DEF Candidate
<1>3. sub_process_counter' \in Children
  <2>1. Candidate(k) + 1 \in Nat
    BY <1>2, PoolAssumption DEF Children
  <2> QED
    BY <1>1, <2>1, IndexInRange DEF next_counter
<1>4. UNCHANGED <<ppc, m_pid, m_stop, psig, ppending, state, cpending, stop, cevents, csig, running,
                  zombies, client, ghosts>> /\ events' \subseteq events
  BY DEF Notify, Handled
<1>5. ParentTypes' /\ Phases' /\ Stopped'
  BY <1>3, <1>4 DEF ParentTypes, Phases, Forked, Kept, Stopped
<1>6. /\ pipe' \in [Children -> Nat] /\ \A i \in Children : pipe'[i] >= pipe[i]
  BY <1>1, <1>2 DEF ChildTypes
<1>7. pipeEdge' \in [Children -> BOOLEAN]
  <2>1. PICK b \in BOOLEAN : b = TRUE
    OBVIOUS
  <2>2. pipeEdge' = [pipeEdge EXCEPT ![Candidate(k)] = b] \/ pipeEdge' = pipeEdge
    BY <1>1, <2>1
  <2> QED
    BY <1>2, <2>2 DEF ChildTypes
<1>8. ChildTypes' /\ PipeFull'
  BY <1>4, <1>6, <1>7 DEF ChildTypes, PipeFull
<1> QED
  BY <1>4, <1>5, <1>8, ClientKept

\* The parent waits for its children, and stops when the last one is gone.
LEMMA HandleSignalsStep == ASSUME IInv, HandleSignals PROVE IInv'
<1> USE DEF IInv
<1> DEFINE gone == IF "CHLD" \in psig THEN reap_all ELSE {}
<1>1. /\ ppc = "loop" /\ psig' = {} /\ events' \subseteq events
      /\ state' = [i \in Children |-> IF i \in gone THEN "reaped" ELSE state[i]]
      /\ m_pid' = [i \in Children |-> IF m_pid[i] \in gone THEN -1 ELSE m_pid[i]]
      /\ m_stop' = IF "CHLD" \in psig THEN all_gone(m_pid') ELSE m_stop
  BY DEF HandleSignals, Handled, forget
<1>2. UNCHANGED <<ppc, sub_process_counter, ppending, pipe, child, client, ghosts>>
  BY DEF HandleSignals
<1>3. cpending' \in [Children -> SUBSET Signals]
  BY DEF HandleSignals, ChildTypes, Signals
<1>4. ChildTypes' /\ PipeFull' /\ ClientTypes'
  BY <1>2, <1>3, ClientKept DEF child, ChildTypes, PipeFull
<1>5. gone \subseteq Children /\ -1 \notin gone /\ \A i \in gone : state[i] = "zombie"
  BY DEF reap_all, Children
<1>6. \A i \in Children : m_pid[i] \in {-1, i} /\ Kept(i)
  BY <1>1 DEF Phases
<1> HIDE DEF gone
<1>7. \A i \in Children : /\ m_pid'[i] \in {-1, i} /\ state'[i] # "none"
                          /\ m_pid'[i] = -1 <=> state'[i] = "reaped"
  BY <1>1, <1>5, <1>6 DEF Kept
<1>8. m_stop' \in BOOLEAN
  <2>1. all_gone(m_pid') \in BOOLEAN
    BY DEF all_gone
  <2> QED
    BY <1>1, <2>1 DEF ParentTypes
<1>9. state' \in [Children -> {"none", "setup", "run", "zombie", "reaped"}]
  BY <1>1 DEF ParentTypes
<1>10. m_pid' \in [Children -> Children \cup {-1}]
  BY <1>1 DEF ParentTypes
<1>11. ParentTypes'
  BY <1>1, <1>2, <1>8, <1>9, <1>10 DEF ParentTypes
<1>12. Phases'
  BY <1>1, <1>2, <1>7 DEF Phases, Kept
<1>13. Stopped'
  <2>1. CASE "CHLD" \in psig
    <3>1. m_stop' => \A i \in Children : m_pid'[i] = -1
      BY <1>1, <2>1 DEF all_gone
    <3> QED
      BY <1>1, <1>2, <1>7, <3>1 DEF Stopped
  <2>2. CASE "CHLD" \notin psig
    BY <1>1, <1>2, <2>2 DEF Stopped
  <2> QED
    BY <2>1, <2>2
<1> QED
  BY <1>4, <1>11, <1>12, <1>13

\* The parent waits, finds nobody to serve, or leaves its loop.
LEMMA RunParentStep ==
  ASSUME IInv, epoll_wait \/ NobodyLeft \/ run_parent_returns
  PROVE  IInv'
<1> USE DEF IInv
<1>1. UNCHANGED <<m_pid, sub_process_counter, psig, ppending, state, cpending, pipe, child,
                  conn, users, data, backlog, accepted, ghosts>>
  BY DEF epoll_wait, NobodyLeft, run_parent_returns, client
<1>2. ppc = "loop" /\ events' \subseteq {"listen", "sig"}
  BY DEF epoll_wait, NobodyLeft, run_parent_returns, ParentTypes
<1>3. ChildTypes' /\ PipeFull'
  BY <1>1, ChildKept
<1>4. listenEdge' \in BOOLEAN
  <2>1. CASE epoll_wait
    BY <2>1 DEF epoll_wait
  <2>2. CASE NobodyLeft \/ run_parent_returns
    BY <2>2 DEF NobodyLeft, run_parent_returns, client, ClientTypes
  <2> QED
    BY <2>1, <2>2
<1>5. ClientTypes'
  BY <1>1, <1>4 DEF ghosts, ClientTypes
<1>6. CASE NobodyLeft
  <2>1. ppc' = ppc /\ \A i \in Children : state[i] = "reaped"
    BY <1>2, <1>6 DEF NobodyLeft, known, Phases, Kept
  <2>2. m_stop' \in BOOLEAN
    BY <1>6 DEF NobodyLeft
  <2> QED
    BY <1>1, <1>2, <1>3, <1>5, <2>1, <2>2 DEF ParentTypes, Phases, Kept, Stopped
<1>7. CASE epoll_wait \/ run_parent_returns
  <2>1. m_stop' = m_stop /\ ppc' \in {"loop", "exited"}
    BY <1>2, <1>7 DEF epoll_wait, run_parent_returns
  <2> QED
    BY <1>1, <1>2, <1>3, <1>5, <2>1 DEF ParentTypes, Phases, Kept, Stopped
<1> QED
  BY <1>6, <1>7

-----------------------------------------------------------------------------
(* A child.                                                                 *)

\* epoll_wait() of a child reports its pipe only if there is something in it.
LEMMA ChildWaitStep ==
  ASSUME IInv, NEW i \in Children, child_epoll_wait(i)
  PROVE  IInv'
<1>1. UNCHANGED <<parent, ppending, state, cpending, pipe, stop, csig, running, zombies, client, ghosts>>
  BY DEF child_epoll_wait
<1>2. ParentTypes' /\ Phases' /\ Stopped' /\ ClientTypes'
  BY <1>1, ParentKept, ClientKept
<1>3. PICK arrived \in SUBSET ({"pipe", "sig"} \cup Clients) :
        cevents' = [cevents EXCEPT ![i] = arrived] /\ ("pipe" \in arrived => pipe[i] > 0)
  <2> DEFINE r == {c \in users[i] : data[c] # "none"}
                  \cup (IF pipeEdge[i] /\ pipe[i] > 0 THEN {"pipe"} ELSE {})
                  \cup (IF csig[i] # {} THEN {"sig"} ELSE {})
  <2>1. users[i] \subseteq Clients
    BY DEF IInv, ClientTypes
  <2>2. r \in SUBSET ({"pipe", "sig"} \cup Clients) /\ ("pipe" \in r => pipe[i] > 0)
    BY <2>1, PoolAssumption
  <2>3. cevents' = [cevents EXCEPT ![i] = r]
    BY DEF child_epoll_wait
  <2> QED
    BY <2>2, <2>3
<1>4. cevents' \in [Children -> SUBSET ({"pipe", "sig"} \cup Clients)]
  BY <1>3 DEF IInv, ChildTypes
<1>5. pipeEdge' \in [Children -> BOOLEAN]
  <2>1. PICK b \in BOOLEAN : b = FALSE
    OBVIOUS
  <2>2. pipeEdge' = [pipeEdge EXCEPT ![i] = b]
    BY <2>1 DEF child_epoll_wait
  <2> QED
    BY <2>2 DEF IInv, ChildTypes
<1>6. PipeFull'
  BY <1>1, <1>3 DEF IInv, ChildTypes, PipeFull
<1> QED
  BY <1>1, <1>2, <1>4, <1>5, <1>6 DEF IInv, ChildTypes

\* An event of the batch is gone.
LEMMA ChildHandledStep ==
  ASSUME IInv, NEW i \in Children, NEW e, ChildHandled(i, e)
  PROVE  /\ cevents' \in [Children -> SUBSET ({"pipe", "sig"} \cup Clients)]
         /\ \A j \in Children : cevents'[j] \subseteq cevents[j]
         /\ e \notin cevents'[i] /\ e \in cevents[i]
  BY DEF ChildHandled, IInv, ChildTypes

\* A child takes a notification and a connection, if one is still there.
LEMMA AcceptStep == ASSUME IInv, NEW i \in Children, Accept(i) PROVE IInv'
<1>1. UNCHANGED <<parent, ppending, state, cpending, stop, csig, pipeEdge, running, zombies, data,
                  listenEdge, ghosts>>
  BY DEF Accept
<1>2. ParentTypes' /\ Phases' /\ Stopped'
  BY <1>1, ParentKept
<1>3. /\ cevents' \in [Children -> SUBSET ({"pipe", "sig"} \cup Clients)]
      /\ \A j \in Children : cevents'[j] \subseteq cevents[j]
      /\ "pipe" \notin cevents'[i] /\ "pipe" \in cevents[i]
  BY ChildHandledStep DEF Accept
<1>4. pipe' = [pipe EXCEPT ![i] = @ - 1] /\ pipe \in [Children -> Nat] /\ pipe[i] > 0
  BY <1>3 DEF Accept, IInv, ChildTypes, PipeFull
<1>5. pipe' \in [Children -> Nat] /\ \A j \in Children : j # i => pipe'[j] = pipe[j]
  BY <1>4
<1>6. ChildTypes'
  BY <1>1, <1>3, <1>5 DEF IInv, ChildTypes
<1>7. PipeFull'
  BY <1>3, <1>5 DEF IInv, PipeFull
<1>8. ClientTypes'
  <2>1. CASE backlog = <<>>
    BY <1>1, <2>1 DEF Accept, IInv, ClientTypes, ghosts
  <2>2. CASE backlog # <<>>
    <3>1. Head(backlog) \in Clients /\ Tail(backlog) \in Seq(Clients)
      BY <2>2 DEF IInv, ClientTypes
    <3>2. /\ conn' = [conn EXCEPT ![Head(backlog)] = "open"]
          /\ users' = [users EXCEPT ![i] = @ \cup {Head(backlog)}]
          /\ backlog' = Tail(backlog) /\ accepted' = accepted + 1
      BY <2>2 DEF Accept
    <3>3. conn' \in [Clients -> {"new", "backlog", "open", "done"}] /\ users' \in [Children -> SUBSET Clients]
      BY <3>1, <3>2 DEF IInv, ClientTypes
    <3>4. accepted' \in Nat
      BY <3>2 DEF IInv, ClientTypes
    <3> QED
      BY <1>1, <3>1, <3>2, <3>3, <3>4 DEF IInv, ClientTypes, ghosts
  <2> QED
    BY <2>1, <2>2
<1> QED
  BY <1>2, <1>6, <1>7, <1>8 DEF IInv

\* A child waits for its CGI processes, or is told to stop.
LEMMA ChildSignalsStep == ASSUME IInv, NEW i \in Children, ChildHandleSignals(i) PROVE IInv'
<1>1. UNCHANGED <<parent, ppending, state, cpending, pipe, pipeEdge, running, client, ghosts>>
  BY DEF ChildHandleSignals
<1>2. ParentTypes' /\ Phases' /\ Stopped' /\ ClientTypes'
  BY <1>1, ParentKept, ClientKept
<1>3. /\ cevents' \in [Children -> SUBSET ({"pipe", "sig"} \cup Clients)]
      /\ \A j \in Children : cevents'[j] \subseteq cevents[j]
  BY ChildHandledStep DEF ChildHandleSignals
<1>4. csig' \in [Children -> SUBSET Signals]
  BY DEF ChildHandleSignals, IInv, ChildTypes
<1>5. zombies' \in [Children -> Nat]
  BY DEF ChildHandleSignals, child_reap_all, IInv, ChildTypes
<1>6. stop' \in [Children -> BOOLEAN]
  <2>1. (stop[i] \/ told_to_stop(i)) \in BOOLEAN
    OBVIOUS
  <2>2. stop' = [stop EXCEPT ![i] = stop[i] \/ told_to_stop(i)]
    BY DEF ChildHandleSignals
  <2>3. PICK b \in BOOLEAN : stop' = [stop EXCEPT ![i] = b]
    BY <2>1, <2>2
  <2> QED
    BY <2>3 DEF IInv, ChildTypes
<1> QED
  BY <1>1, <1>2, <1>3, <1>4, <1>5, <1>6 DEF IInv, ChildTypes, PipeFull

\* A child serves a client.
LEMMA ProcessStep == ASSUME IInv, NEW i \in Children, NEW c \in Clients, process(i, c) PROVE IInv'
<1>1. UNCHANGED <<parent, ppending, state, cpending, pipe, stop, csig, pipeEdge, zombies, backlog,
                  listenEdge, accepted, ghosts>>
  BY DEF process
<1>2. ParentTypes' /\ Phases' /\ Stopped'
  BY <1>1, ParentKept
<1>3. /\ cevents' \in [Children -> SUBSET ({"pipe", "sig"} \cup Clients)]
      /\ \A j \in Children : cevents'[j] \subseteq cevents[j]
  BY ChildHandledStep DEF process
<1>4. running' \in [Children -> Nat]
  BY DEF process, IInv, ChildTypes
<1>5. ChildTypes' /\ PipeFull'
  BY <1>1, <1>3, <1>4 DEF IInv, ChildTypes, PipeFull
<1>6. /\ conn' \in [Clients -> {"new", "backlog", "open", "done"}]
      /\ users' \in [Children -> SUBSET Clients] /\ data' \in [Clients -> {"none", "part", "whole"}]
  BY DEF process, IInv, ClientTypes
<1>7. ClientTypes'
  BY <1>1, <1>6 DEF IInv, ClientTypes, ghosts
<1> QED
  BY <1>2, <1>5, <1>7 DEF IInv

\* A child sets its handlers.
LEMMA ChildSetupStep == ASSUME IInv, NEW i \in Children, child_setup_sig_pipe(i) PROVE IInv'
<1>1. UNCHANGED <<parent, ppending, cpending, pipe, child, client, ghosts>>
      /\ Alive(i) /\ state' = [state EXCEPT ![i] = "run"] /\ ppending' \subseteq Signals
  BY DEF child_setup_sig_pipe, Alive, IInv, ParentTypes
<1>2. ParentTypes' /\ Phases' /\ Stopped'
  BY <1>1, StateStep
<1> QED
  BY <1>1, <1>2, ChildKept, ClientKept DEF IInv

-----------------------------------------------------------------------------
(* The theorem.                                                             *)

\* The invariant holds at first and every step keeps it.
LEMMA IInvCorrect == Spec => []IInv
<1>1. ASSUME Init PROVE IInv
  <2>1. ParentTypes
    BY <1>1, PoolAssumption DEF Init, ParentTypes, Children, Signals
  <2>2. ChildTypes
    <3>1. stop \in [Children -> BOOLEAN] /\ pipeEdge \in [Children -> BOOLEAN]
      BY <1>1 DEF Init
    <3> QED
      BY <1>1, <3>1 DEF Init, ChildTypes
  <2>3. ClientTypes
    <3>1. listenEdge \in BOOLEAN
      BY <1>1 DEF Init
    <3>2. /\ conn \in [Clients -> {"new", "backlog", "open", "done"}]
          /\ users \in [Children -> SUBSET Clients] /\ data \in [Clients -> {"none", "part", "whole"}]
      BY <1>1 DEF Init
    <3>3. backlog \in Seq(Clients) /\ deaf \subseteq Children
      BY <1>1 DEF Init
    <3>4. accepted \in Nat /\ crashes \in 0..MaxCrashes /\ terms \in 0..MaxTerms
      BY <1>1, PoolAssumption DEF Init
    <3> QED
      BY <3>1, <3>2, <3>3, <3>4 DEF ClientTypes
  <2>4. Phases /\ PipeFull
    BY <1>1 DEF Init, Phases, Forked, PipeFull
  <2>5. Stopped
    BY <1>1 DEF Init, Stopped
  <2> QED
    BY <2>1, <2>2, <2>3, <2>4, <2>5 DEF IInv
<1>2. ASSUME IInv, [Next]_vars PROVE IInv'
  <2>1. CASE UNCHANGED vars
    <3>1. UNCHANGED <<parent, ppending, state, cpending, pipe, child, client, ghosts>>
      BY <2>1 DEF vars
    <3> QED
      BY <1>2, <3>1, ParentKept, ChildKept, ClientKept DEF IInv
  <2>2. ASSUME NEW i \in Children, Crash(i) PROVE IInv'
    <3>1. crashes' \in 0..MaxCrashes /\ terms' \in 0..MaxTerms
      BY <1>2, <2>2, PoolAssumption DEF Crash, IInv, ClientTypes
    <3> QED
      BY <1>2, <2>2, <3>1, EndsStep DEF Crash
  <2>3. ASSUME NEW i \in Children, DefaultTerm(i) \/ run_child_returns(i) PROVE IInv'
    <3>1. crashes' \in 0..MaxCrashes /\ terms' \in 0..MaxTerms
      BY <1>2, <2>3 DEF DefaultTerm, run_child_returns, IInv, ClientTypes
    <3>2. Alive(i) /\ Ends(i) /\ UNCHANGED <<parent, backlog, listenEdge, accepted>>
      BY <2>3 DEF DefaultTerm, run_child_returns, Alive
    <3> QED
      BY <1>2, <3>1, <3>2, EndsStep
  <2>4. ASSUME NEW i \in Children, ChildStep(i) PROVE IInv'
    BY <1>2, <2>3, <2>4, ChildSetupStep, ChildWaitStep, AcceptStep, ChildSignalsStep, ProcessStep
    DEF ChildStep
  <2>5. CASE ParentStep \/ ForkFails
    <3>1. CASE Fork \/ ForkFails \/ setup_sig_pipe \/ RunAsChild
      BY <1>2, <3>1, ConstructorStep
    <3>2. CASE Notify
      BY <1>2, <3>2, NotifyStep
    <3>3. CASE HandleSignals
      BY <1>2, <3>3, HandleSignalsStep
    <3>4. CASE epoll_wait \/ NobodyLeft \/ run_parent_returns
      BY <1>2, <3>4, RunParentStep
    <3> QED
      BY <2>5, <3>1, <3>2, <3>3, <3>4 DEF ParentStep
  <2>6. CASE Deliver \/ Terminate \/ Interrupt \/ \E i \in Children : CgiExit(i)
    BY <1>2, <2>3, <2>6, SignalStep DEF Deliver
  <2> QED
    BY <1>2, <2>1, <2>2, <2>4, <2>5, <2>6, PeerStep DEF Next
<1> QED
  BY <1>1, <1>2, PTL DEF Spec

\* run_parent(): kill() goes only to children that were not waited for, and m_stop is set
\* only when every child was, whatever the order of deaths, signals and connections.
THEOREM PoolInvCorrect == Spec => []PoolInv
<1>1. ASSUME IInv PROVE PoolInv
  <2>1. TypeOK
    BY <1>1 DEF IInv, ParentTypes, ChildTypes, ClientTypes, TypeOK
  <2>2. KillsOwnChildren /\ ParentLeavesLast
    BY <1>1 DEF IInv, Phases, Kept, Stopped, KillsOwnChildren, ParentLeavesLast
  <2> QED
    BY <2>1, <2>2 DEF PoolInv
<1> QED
  BY <1>1, IInvCorrect, PTL
=============================================================================
