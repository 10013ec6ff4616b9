----------------------------- MODULE TimerQueue -----------------------------
(***************************************************************************)
(* What sort_timer_lst promises: a set of timers with their times, of      *)
(* which a tick at time cur fires those that are due, the earliest first,  *)
(* and ends when none is left.  TimerList implements it.                   *)
(***************************************************************************)
EXTENDS Naturals

CONSTANTS Handles,  \* timers
          Instants,
          Never     \* value of tick when no tick is running

VARIABLES due,      \* the time of every armed timer; its domain are these timers
          tick      \* the time of the tick that is running, or Never

tqvars == <<due, tick>>

TQInit == due = [t \in {} |-> 0] /\ tick = Never

\* arm a timer, or change the time of an armed one
Arm(t, e) ==
    /\ tick = Never
    /\ due' = [u \in DOMAIN due \cup {t} |-> IF u = t THEN e ELSE due[u]]
    /\ UNCHANGED tick

Without(t) == [u \in DOMAIN due \ {t} |-> due[u]]

Disarm(t) == tick = Never /\ t \in DOMAIN due /\ due' = Without(t) /\ UNCHANGED tick

TickBegins(c) == tick = Never /\ tick' = c /\ UNCHANGED due

Fire(t) ==
    /\ tick # Never /\ t \in DOMAIN due /\ due[t] <= tick
    /\ \A u \in DOMAIN due : due[t] <= due[u]
    /\ due' = Without(t)
    /\ UNCHANGED tick

TickEnds ==
    /\ tick # Never /\ \A t \in DOMAIN due : tick < due[t]
    /\ tick' = Never /\ UNCHANGED due

TQNext ==
    \/ TickEnds
    \/ \E t \in Handles : Disarm(t) \/ Fire(t) \/ \E e \in Instants : Arm(t, e)
    \/ \E c \in Instants : TickBegins(c)

TQSpec == TQInit /\ [][TQNext]_tqvars
=============================================================================
