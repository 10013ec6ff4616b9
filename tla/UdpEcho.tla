------------------------------ MODULE UdpEcho ------------------------------
(***************************************************************************)
(* The client of unpv1e3/rtt and the server of unpv1e3/sigio over a        *)
(* network that loses, delays, reorders and duplicates datagrams.          *)
(***************************************************************************)
EXTENDS RttClient, SigioServer

\* what the client sends is what the server receives
ASSUME DatagramAssumption == Datagram = Requests

vars == <<rttVars, sigioVars, net>>

TypeOK == RttTypeOK /\ SigioTypeOK

Init == RttInit /\ SigioInit /\ net = {}

Client == RttNext /\ UNCHANGED sigioVars
Server == SigioNext /\ UNCHANGED rttVars

Next == Client \/ Server

Spec == Init /\ [][Next]_vars

FairSpec == Spec /\ RttFairness /\ SigioFairness

-----------------------------------------------------------------------------

\* Types, and how often a line was sent when its call gives up or is caught by an
\* early SIGALRM.
CallInv == TypeOK /\ GivesUpLast /\ EarlyAlarmOnlyOnFirst
=============================================================================
