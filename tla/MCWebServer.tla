---------------------------- MODULE MCWebServer -----------------------------
(***************************************************************************)
(* Instances of WebServer for TLC.  What the clients may do is chosen at   *)
(* the start: a pair that sends more than a request, is answered, stays or *)
(* leaves; or a crowd, in which the queue can be full and any of the three *)
(* be refused.                                                             *)
(***************************************************************************)
EXTENDS WebServer

CONSTANTS c1, c2, c3, w1, w2

VARIABLE cast

ThreeClients == {c1, c2, c3}
TwoWorkers == {w1, w2}

\* bytes each client sends, and the clients that hang up before they are closed
Sends(a, b, c) == [x \in Clients |-> CASE x = c1 -> a [] x = c2 -> b [] x = c3 -> c]
Pair  == [come |-> {c1, c2}, sends |-> Sends(3, 2, 0), leave |-> {c1, c2}]
Crowd == [come |-> Clients, sends |-> Sends(2, 1, 1), leave |-> {c1}]

Within ==
    \A c \in Clients :
        /\ link[c] = "new" \/ c \in cast.come
        /\ sent[c] <= cast.sends[c]
        /\ hup[c] => c \in cast.leave

MCInit == Init /\ cast \in {Pair, Crowd}
MCNext == UNCHANGED cast /\ Next /\ Within'

MCSpec ==
    /\ MCInit /\ [][MCNext]_<<vars, cast>>
    /\ WF_vars(MainStep) /\ \A w \in Workers : WF_vars(WorkerStep(w))
=============================================================================
