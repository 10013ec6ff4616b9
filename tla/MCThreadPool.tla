---------------------------- MODULE MCThreadPool ----------------------------
(* Instances of ThreadPool for TLC. *)
EXTENDS ThreadPool

CONSTANTS p1, p2, w1, w2, r1

MCProducers == {p1, p2}
MCWorkers   == {w1, w2}
MCRequests  == {r1}
=============================================================================
