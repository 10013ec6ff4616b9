---------------------------- MODULE MCTimerList -----------------------------
(* An instance of TimerList for TLC. *)
EXTENDS TimerList

CONSTANTS t1, t2, t3

ThreeTimers == {t1, t2, t3}
=============================================================================
