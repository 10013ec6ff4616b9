-------------------------------- MODULE MCTcp -------------------------------
(* The instances of ServerDesigns and EchoClients that Tcp.cfg describes,   *)
(* side by side: a behaviour is one of a server or one of an echo client,   *)
(* by the value of half.  The other half rests in a state in which none of  *)
(* its processes can run, so that its fairness asks for nothing.            *)
EXTENDS ServerDesigns, EchoClients

VARIABLE half

MCInit ==
    /\ Init /\ EchoInit
    /\ \/ half = "server" /\ client = "str_cli"
       \/ half = "client" /\ design = "serv00"

MCNext ==
    /\ UNCHANGED half
    /\ \/ half = "server" /\ Next /\ UNCHANGED echovars
       \/ half = "client" /\ EchoNext /\ UNCHANGED vars

\* the fairness of FairSpec and EchoFairSpec
MCSpec ==
    /\ MCInit /\ [][MCNext]_<<vars, echovars, half>>
    /\ \A c \in Conns : WF_vars(ClientStep(c))
    /\ WF_vars(MainStep) /\ \A w \in Workers : WF_vars(WorkerStep(w))
    /\ \A p \in Procs : WF_vars(CommonStep(p))
    /\ WF_echovars(MainLoopStep) /\ WF_echovars(ReceiverStep) /\ WF_echovars(str_echo) /\ WF_echovars(Drain)
=============================================================================
