-------------------------- MODULE MCInactiveServer -------------------------
(* The instance of InactiveServer that InactiveServer.cfg describes. *)
EXTENDS InactiveServer, TLC

MCInstants == 0..(LastInstant + 3 * TIMESLOT)
Alike == Permutations(Fds) \cup Permutations(Handles)
=============================================================================
