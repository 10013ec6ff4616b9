--------------------------- MODULE MCProcessPool ----------------------------
(* Instances of ProcessPool for TLC. *)
EXTENDS ProcessPool

CONSTANTS c1, c2

TwoClients == {c1, c2}
=============================================================================
