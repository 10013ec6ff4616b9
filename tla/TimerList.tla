------------------------------ MODULE TimerList -----------------------------
(***************************************************************************)
(* ch11_timer/lst_timer.h: sort_timer_lst, the list of timers sorted by    *)
(* time, with its pointers.  The caller is code_11_3.cpp: it allocates a   *)
(* timer per connection, and only ever puts a timer off.                   *)
(*                                                                         *)
(* One action per call; the loops (the private add_timer(), tick() and the *)
(* destructor) take one step per iteration.  A timer is an address: it may *)
(* be allocated again after delete.                                        *)
(***************************************************************************)
EXTENDS Naturals, FiniteSets

CONSTANTS
    Timers,     \* addresses of util_timer objects
    NULL,
    MaxTime     \* bound: times are 0..MaxTime

ASSUME TimerAssumption == NULL \notin Timers /\ NULL \notin Nat /\ MaxTime \in Nat

Times == 0..MaxTime
Pointers == Timers \cup {NULL}

VARIABLES
    head, tail,
    next, prev, expire,  \* the fields of the timers
    live,                \* allocated timers
    pc,                  \* "idle", or the loop that is running
    timer, before,       \* in the private add_timer(): its timer, and its prev
    cur                  \* in tick(): the current time

list == <<head, tail, next, prev>>
locals == <<pc, timer, before, cur>>
listvars == <<list, expire, live, locals>>

ListTypeOK ==
    /\ head \in Pointers /\ tail \in Pointers
    /\ next \in [Timers -> Pointers] /\ prev \in [Timers -> Pointers]
    /\ expire \in [Timers -> Times]
    /\ live \subseteq Timers
    /\ pc \in {"idle", "walk", "tick", "delete", "gone"}
    /\ timer \in Pointers /\ before \in Pointers
    /\ pc = "walk" => timer \in Timers /\ before \in Timers
    /\ cur \in Times \cup {NULL}

ListInit ==
    /\ head = NULL /\ tail = NULL
    /\ next = [t \in Timers |-> NULL] /\ prev = [t \in Timers |-> NULL]
    /\ expire = [t \in Timers |-> 0]
    /\ live = {}
    /\ pc = "idle" /\ timer = NULL /\ before = NULL /\ cur = NULL

-----------------------------------------------------------------------------
(* void add_timer(util_timer* timer, util_timer* lst_head), the private one *)

\* the call: prev = lst_head
Insert(t, lst_head) == pc' = "walk" /\ timer' = t /\ before' = lst_head /\ UNCHANGED cur

Return == pc' = "idle" /\ timer' = NULL /\ before' = NULL /\ cur' = NULL

\* tmp
after == next[before]

\* timer->expire < tmp->expire: link it between prev and tmp
WalkInsert ==
    /\ pc = "walk" /\ after # NULL /\ expire[timer] < expire[after]
    /\ next' = [next EXCEPT ![before] = timer, ![timer] = after]
    /\ prev' = [prev EXCEPT ![after] = timer, ![timer] = before]
    /\ Return
    /\ UNCHANGED <<head, tail, expire, live>>

WalkOn ==
    /\ pc = "walk" /\ after # NULL /\ expire[timer] >= expire[after]
    /\ before' = after
    /\ UNCHANGED <<list, expire, live, pc, timer, cur>>

\* mutant: timer->next keeps its old value
WalkAppendKeepsNext ==
    /\ pc = "walk" /\ after = NULL
    /\ next' = [next EXCEPT ![before] = timer]
    /\ prev' = [prev EXCEPT ![timer] = before]
    /\ tail' = timer
    /\ Return
    /\ UNCHANGED <<head, expire, live>>

\* the end of the list
WalkAppend ==
    /\ pc = "walk" /\ after = NULL
    /\ next' = [next EXCEPT ![before] = timer, ![timer] = NULL]
    /\ prev' = [prev EXCEPT ![timer] = before]
    /\ tail' = timer
    /\ Return
    /\ UNCHANGED <<head, expire, live>>

-----------------------------------------------------------------------------
(* void add_timer(util_timer* timer), of a new timer *)

\* new util_timer with its time
New(t, e) ==
    /\ pc = "idle" /\ t \notin live
    /\ live' = live \cup {t}
    /\ expire' = [expire EXCEPT ![t] = e]

AddFirst(t, e) ==
    /\ New(t, e) /\ head = NULL
    /\ head' = t /\ tail' = t
    /\ next' = [next EXCEPT ![t] = NULL] /\ prev' = [prev EXCEPT ![t] = NULL]
    /\ UNCHANGED locals

AddFront(t, e) ==
    /\ New(t, e) /\ head # NULL /\ e < expire[head]
    /\ next' = [next EXCEPT ![t] = head]
    /\ prev' = [prev EXCEPT ![head] = t, ![t] = NULL]
    /\ head' = t
    /\ UNCHANGED <<tail, locals>>

\* mutant: add_timer() does not compare with head
AddBehindAny(t, e) ==
    /\ New(t, e) /\ head # NULL
    /\ next' = [next EXCEPT ![t] = NULL] /\ prev' = [prev EXCEPT ![t] = NULL]
    /\ Insert(t, head)
    /\ UNCHANGED <<head, tail>>

AddBehind(t, e) ==
    /\ New(t, e) /\ head # NULL /\ e >= expire[head]
    /\ next' = [next EXCEPT ![t] = NULL] /\ prev' = [prev EXCEPT ![t] = NULL]
    /\ Insert(t, head)
    /\ UNCHANGED <<head, tail>>

-----------------------------------------------------------------------------
(* void adjust_timer(util_timer* timer) after its time has been put off *)

PutOff(t, e) ==
    /\ pc = "idle" /\ t \in live /\ e >= expire[t]
    /\ expire' = [expire EXCEPT ![t] = e]

\* there is a successor, and it is not later
mustMove(t, e) == next[t] # NULL /\ e >= expire[next[t]]

AdjustStays(t, e) ==
    /\ PutOff(t, e) /\ ~mustMove(t, e)
    /\ UNCHANGED <<list, live, locals>>

\* mutant: the list behind timer->next, which has just been cleared
AdjustHeadNull(t, e) ==
    /\ PutOff(t, e) /\ mustMove(t, e) /\ t = head
    /\ head' = next[t]
    /\ prev' = [prev EXCEPT ![next[t]] = NULL]
    /\ next' = [next EXCEPT ![t] = NULL]
    /\ Insert(t, next'[t])
    /\ UNCHANGED <<tail, live>>

AdjustHead(t, e) ==
    /\ PutOff(t, e) /\ mustMove(t, e) /\ t = head
    /\ head' = next[t]
    /\ prev' = [prev EXCEPT ![next[t]] = NULL]
    /\ next' = [next EXCEPT ![t] = NULL]
    /\ Insert(t, head')
    /\ UNCHANGED <<tail, live>>

AdjustInside(t, e) ==
    /\ PutOff(t, e) /\ mustMove(t, e) /\ t # head
    /\ next' = [next EXCEPT ![prev[t]] = next[t]]
    /\ prev' = [prev EXCEPT ![next[t]] = prev[t]]
    /\ Insert(t, next[t])
    /\ UNCHANGED <<head, tail, live>>

-----------------------------------------------------------------------------
(* void del_timer(util_timer* timer) *)

Delete(t) == live' = live \ {t} /\ UNCHANGED expire

DelOnly(t) ==
    /\ pc = "idle" /\ t \in live /\ t = head /\ t = tail
    /\ head' = NULL /\ tail' = NULL
    /\ Delete(t) /\ UNCHANGED <<next, prev, locals>>

DelHead(t) ==
    /\ pc = "idle" /\ t \in live /\ t = head /\ t # tail
    /\ head' = next[t]
    /\ prev' = [prev EXCEPT ![next[t]] = NULL]
    /\ Delete(t) /\ UNCHANGED <<tail, next, locals>>

\* mutant: the new last timer keeps its next
DelTailKeepsNext(t) ==
    /\ pc = "idle" /\ t \in live /\ t # head /\ t = tail
    /\ tail' = prev[t]
    /\ Delete(t) /\ UNCHANGED <<head, prev, next, locals>>

DelTail(t) ==
    /\ pc = "idle" /\ t \in live /\ t # head /\ t = tail
    /\ tail' = prev[t]
    /\ next' = [next EXCEPT ![prev[t]] = NULL]
    /\ Delete(t) /\ UNCHANGED <<head, prev, locals>>

DelInside(t) ==
    /\ pc = "idle" /\ t \in live /\ t # head /\ t # tail
    /\ next' = [next EXCEPT ![prev[t]] = next[t]]
    /\ prev' = [prev EXCEPT ![next[t]] = prev[t]]
    /\ Delete(t) /\ UNCHANGED <<head, tail, locals>>

-----------------------------------------------------------------------------
(* void tick() *)

\* an empty list returns at once
TickCall(now) ==
    /\ pc = "idle" /\ head # NULL
    /\ pc' = "tick" /\ cur' = now
    /\ UNCHANGED <<list, expire, live, timer, before>>

\* mutant: a timer is due only after its time
isDueLate(t) == cur > expire[t]

isDue(t) == cur >= expire[t]

\* the callback, then the head is unlinked and deleted; tail is left alone
TickFire ==
    /\ pc = "tick" /\ head # NULL /\ isDue(head)
    /\ head' = next[head]
    /\ prev' = IF next[head] # NULL THEN [prev EXCEPT ![next[head]] = NULL] ELSE prev
    /\ Delete(head) /\ UNCHANGED <<tail, next, locals>>

TickReturns ==
    /\ pc = "tick" /\ (head # NULL => ~isDue(head))
    /\ Return /\ UNCHANGED <<list, expire, live>>

-----------------------------------------------------------------------------
(* ~sort_timer_lst() *)

DestroyCall ==
    /\ pc = "idle" /\ pc' = "delete"
    /\ UNCHANGED <<list, expire, live, timer, before, cur>>

\* mutant: the loop stops at tail
DestroyEndAtTail ==
    /\ pc = "delete" /\ head \in {NULL, tail} /\ pc' = "gone"
    /\ UNCHANGED <<list, expire, live, timer, before, cur>>

DestroyEnd ==
    /\ pc = "delete" /\ head = NULL /\ pc' = "gone"
    /\ UNCHANGED <<list, expire, live, timer, before, cur>>

DestroyStep ==
    /\ pc = "delete" /\ head # NULL
    /\ head' = next[head]
    /\ Delete(head) /\ UNCHANGED <<tail, next, prev, locals>>

-----------------------------------------------------------------------------
Loop == WalkInsert \/ WalkOn \/ WalkAppend \/ TickFire \/ TickReturns
          \/ DestroyEnd \/ DestroyStep

Call ==
    \/ DestroyCall
    \/ \E t \in Timers : DelOnly(t) \/ DelHead(t) \/ DelTail(t) \/ DelInside(t)
    \/ \E t \in Timers, e \in Times :
         \/ AddFirst(t, e) \/ AddFront(t, e) \/ AddBehind(t, e)
         \/ AdjustStays(t, e) \/ AdjustHead(t, e) \/ AdjustInside(t, e)
    \/ \E now \in Times : TickCall(now)

ListNext == Loop \/ Call

ListSpec == ListInit /\ [][ListNext]_listvars

\* the loops run on; calls come or not
ListFairSpec == ListSpec /\ WF_listvars(Loop)

-----------------------------------------------------------------------------
(* Properties *)

\* the timers in the list: all but the one that is being inserted again
Listed == live \ {timer}

\* Through every insertion, move and deletion head, tail, next and prev describe
\* one chain of allocated timers: no call leaves a pointer to a deleted timer in
\* it, and tail is its end whenever there is one (after tick() has emptied the
\* list, tail points to a deleted timer, and nobody uses it).
Linked ==
    pc # "delete" =>
      /\ head = NULL <=> Listed = {}
      /\ head # NULL => head \in Listed /\ tail \in Listed
      /\ \A t \in Listed :
           /\ (next[t] = NULL) <=> (t = tail)
           /\ (prev[t] = NULL) <=> (t = head)
           /\ next[t] # NULL => next[t] \in Listed /\ prev[next[t]] = t
           /\ prev[t] # NULL => prev[t] \in Listed /\ next[prev[t]] = t

\* The list stays sorted, and the private add_timer() is only ever called with a
\* timer that belongs behind lst_head.
Sorted ==
    /\ \A t \in Listed : next[t] \in Listed => expire[t] <= expire[next[t]]
    /\ pc = "walk" => before \in Listed /\ expire[before] <= expire[timer]

Queue == INSTANCE TimerQueue
    WITH Handles <- Timers, Instants <- Times, Never <- NULL,
         due <- [t \in live |-> expire[t]], tick <- cur

\* The list is a timer queue: tick() fires every timer that is due and no other,
\* the earliest first, whatever calls came before.
ImplementsTimerQueue == Queue!TQSpec

\* The destructor reaches every timer that was added and not deleted.
DestroyFreesAll == pc = "gone" => live = {}

\* No call loops for ever: the chain is never closed to a ring.
LoopsEnd == (pc \in {"walk", "tick", "delete"}) ~> (pc \in {"idle", "gone"})

\* Types, one sorted chain with a tail, and nothing left after the destructor.
ListInv == ListTypeOK /\ Linked /\ Sorted /\ DestroyFreesAll
=============================================================================
