---------------------------- MODULE TimerProofs -----------------------------
(***************************************************************************)
(* Theorems about the timers of ch11_timer: TimerList for any set of timers *)
(* and any times, and InactiveServer, which uses the list, for any         *)
(* descriptors, timers, time slot and run time.                            *)
(***************************************************************************)
EXTENDS TimerList, InactiveServer, FiniteSetTheorems, WellFoundedInduction, TLAPS

-----------------------------------------------------------------------------
(* TimerList                                                               *)

-----------------------------------------------------------------------------
(* A doubly linked list of the timers L, with first h and last z *)

Chain(L, h, z, nx, pv) ==
    /\ h = NULL <=> L = {}
    /\ h # NULL => h \in L /\ z \in L
    /\ \A t \in L :
         /\ (nx[t] = NULL) <=> (t = z)
         /\ (pv[t] = NULL) <=> (t = h)
         /\ nx[t] # NULL => nx[t] \in L /\ pv[nx[t]] = t
         /\ pv[t] # NULL => pv[t] \in L /\ nx[pv[t]] = t

\* the times never decrease along the list
Ascending(L, nx, ex) == \A t \in L : nx[t] \in L => ex[t] <= ex[nx[t]]

\* the timers can be numbered along the list: it is not closed to a ring
Numbered(L, nx) ==
    \E rank \in [Timers -> Nat] : \A t \in L : nx[t] \in L => rank[t] < rank[nx[t]]

IsList(L, h, z, nx, pv, ex) ==
    /\ L \in SUBSET Timers /\ h \in Pointers /\ z \in Pointers
    /\ nx \in [Timers -> Pointers] /\ pv \in [Timers -> Pointers] /\ ex \in [Timers -> Nat]
    /\ Chain(L, h, z, nx, pv) /\ Ascending(L, nx, ex) /\ Numbered(L, nx)

\* A set of timers has one with the least number.
LEMMA LeastRank ==
  ASSUME NEW S \in SUBSET Timers, S # {}, NEW rank \in [Timers -> Nat]
  PROVE  \E u \in S : \A v \in S : rank[u] <= rank[v]
<1> DEFINE less == {ss \in Nat \X Nat : ss[1] < ss[2]}
           R == {rank[v] : v \in S}
<1>1. IsWellFoundedOn(less, Nat)
  BY NatLessThanWellFounded, Zenon DEF OpToRel
<1>2. R \in SUBSET Nat /\ R # {}
  OBVIOUS
<1> HIDE DEF R
<1>3. PICK x \in R : \A y \in R : ~ (<<y, x>> \in less)
  BY <1>1, <1>2, WFMin
<1>4. \A y \in R : x <= y
  <2> SUFFICES ASSUME NEW y \in R PROVE x <= y
    OBVIOUS
  <2>1. ~ (<<y, x>> \in less)
    BY <1>3
  <2>. QED BY <2>1, <1>2
<1>. QED BY <1>3, <1>4 DEF R

\* The first timer of a sorted list is due first: head is enough for tick().
LEMMA HeadIsLeast ==
  ASSUME NEW L, NEW h, NEW z, NEW nx, NEW pv, NEW ex, IsList(L, h, z, nx, pv, ex), h # NULL
  PROVE  \A u \in L : ex[h] <= ex[u]
<1> USE DEF IsList
<1>1. PICK rank \in [Timers -> Nat] : \A t \in L : nx[t] \in L => rank[t] < rank[nx[t]]
  BY DEF Numbered
<1> DEFINE S == {u \in L : ex[u] < ex[h]}
<1>2. SUFFICES ASSUME S # {} PROVE FALSE
  BY DEF Chain
<1>3. PICK u \in S : \A v \in S : rank[u] <= rank[v]
  BY <1>2, LeastRank
<1>4. u # h /\ u \in L
  BY <1>3 DEF Chain
<1>5. pv[u] \in L /\ nx[pv[u]] = u
  BY <1>4 DEF Chain, Pointers
<1>6. ex[pv[u]] <= ex[u] /\ rank[pv[u]] < rank[u]
  BY <1>1, <1>4, <1>5 DEF Ascending
<1>7. pv[u] \in S
  BY <1>3, <1>5, <1>6 DEF Chain
<1>8. rank[pv[u]] \in Nat /\ rank[u] \in Nat
  BY <1>4, <1>5
<1>. QED BY <1>3, <1>6, <1>7, <1>8

\* A list whose first timer has no successor holds nothing else.
LEMMA OnlyOne ==
  ASSUME NEW L, NEW h, NEW z, NEW nx, NEW pv, NEW ex, IsList(L, h, z, nx, pv, ex),
         h # NULL, nx[h] = NULL
  PROVE  L = {h}
<1> USE DEF IsList
<1>1. PICK rank \in [Timers -> Nat] : \A t \in L : nx[t] \in L => rank[t] < rank[nx[t]]
  BY DEF Numbered
<1> DEFINE S == L \ {h}
<1>2. SUFFICES ASSUME S # {} PROVE FALSE
  BY DEF Chain
<1>3. PICK u \in S : \A v \in S : rank[u] <= rank[v]
  BY <1>2, LeastRank
<1>4. pv[u] \in L /\ nx[pv[u]] = u
  BY <1>3 DEF Chain, Pointers
<1>5. rank[pv[u]] < rank[u] /\ pv[u] # h
  BY <1>1, <1>3, <1>4, TimerAssumption
<1>. QED BY <1>3, <1>4, <1>5

-----------------------------------------------------------------------------
(* What the pointer assignments of the code do to such a list *)

\* t is taken out, wherever it is: its neighbours are linked to each other, and head
\* or tail is set if t was the first or the last (tail does not matter when nothing
\* is left).
Removed(L, h, z, nx, pv, ex, t, h2, z2, nx2, pv2, ex2) ==
    /\ t \in L
    /\ nx2 \in [Timers -> Pointers] /\ pv2 \in [Timers -> Pointers] /\ ex2 \in [Timers -> Nat]
    /\ \A u \in L \ {t} : /\ nx2[u] = IF u = pv[t] THEN nx[t] ELSE nx[u]
                          /\ pv2[u] = IF u = nx[t] THEN pv[t] ELSE pv[u]
                          /\ ex2[u] = ex[u]
    /\ h2 = (IF t = h THEN nx[t] ELSE h)
    /\ z2 \in Pointers /\ (t # z => z2 = z) /\ (t # h /\ t = z => z2 = pv[t])

\* t is put in between b and a, which are neighbours, or at one end of the list (b or
\* a is NULL then), where its time belongs.
Inserted(L, h, z, nx, pv, ex, t, b, a, h2, z2, nx2, pv2, ex2) ==
    /\ t \in Timers \ L /\ b \in L \cup {NULL} /\ a = (IF b = NULL THEN h ELSE nx[b])
    /\ nx2 \in [Timers -> Pointers] /\ pv2 \in [Timers -> Pointers] /\ ex2 \in [Timers -> Nat]
    /\ nx2[t] = a /\ pv2[t] = b
    /\ \A u \in L : /\ nx2[u] = IF u = b THEN t ELSE nx[u]
                    /\ pv2[u] = IF u = a THEN t ELSE pv[u]
                    /\ ex2[u] = ex[u]
    /\ h2 = (IF b = NULL THEN t ELSE h) /\ z2 = (IF a = NULL THEN t ELSE z)
    /\ (b # NULL => ex[b] <= ex2[t]) /\ (a # NULL => ex2[t] <= ex[a])

\* Taking a timer out of a list leaves a list.
LEMMA TakeOut ==
  ASSUME NEW L, NEW h, NEW z, NEW nx, NEW pv, NEW ex, IsList(L, h, z, nx, pv, ex), NEW t,
         NEW h2, NEW z2, NEW nx2, NEW pv2, NEW ex2,
         Removed(L, h, z, nx, pv, ex, t, h2, z2, nx2, pv2, ex2)
  PROVE  IsList(L \ {t}, h2, z2, nx2, pv2, ex2)
<1> USE DEF IsList, Removed
<1> DEFINE M == L \ {t}
<1>1. PICK rank \in [Timers -> Nat] : \A u \in L : nx[u] \in L => rank[u] < rank[nx[u]]
  BY DEF Numbered
<1>2. /\ pv[t] # NULL => pv[t] \in M /\ nx[pv[t]] = t
      /\ nx[t] # NULL => nx[t] \in M /\ pv[nx[t]] = t
  <2>1. nx[t] # t /\ pv[t] # t
    <3>1. nx[t] # t
      BY <1>1 DEF Chain
    <3>. QED BY <3>1 DEF Chain, Pointers
  <2>. QED BY <2>1 DEF Chain
<1>3. h2 = NULL <=> M = {}
  <2>1. CASE t = h /\ nx[t] = NULL
    <3>1. L = {h}
      BY <2>1, OnlyOne, TimerAssumption
    <3>. QED BY <2>1, <3>1
  <2>2. CASE t = h /\ nx[t] # NULL
    BY <2>2, <1>2
  <2>3. CASE t # h
    BY <2>3 DEF Chain
  <2>. QED BY <2>1, <2>2, <2>3
<1>4. h2 # NULL => h2 \in M /\ z2 \in M
  BY <1>2 DEF Chain
<1>5. ASSUME NEW u \in M
      PROVE  /\ (nx2[u] = NULL) <=> (u = z2)
             /\ (pv2[u] = NULL) <=> (u = h2)
             /\ nx2[u] # NULL => nx2[u] \in M /\ pv2[nx2[u]] = u
             /\ pv2[u] # NULL => pv2[u] \in M /\ nx2[pv2[u]] = u
  <2>1. (nx2[u] = NULL) <=> (u = z2)
    <3>1. CASE t = z
      <4>1. nx[t] = NULL /\ t # h /\ z2 = pv[t]
        BY <3>1, <1>3 DEF Chain
      <4>. QED BY <3>1, <4>1 DEF Chain
    <3>2. CASE t # z
      BY <3>2, <1>2, TimerAssumption DEF Chain
    <3>. QED BY <3>1, <3>2
  <2>2. (pv2[u] = NULL) <=> (u = h2)
    <3>1. CASE t = h
      <4>1. pv[t] = NULL /\ h2 = nx[t]
        BY <3>1 DEF Chain
      <4>. QED BY <3>1, <4>1 DEF Chain
    <3>2. CASE t # h
      <4>1. pv[t] # NULL /\ h2 = h
        BY <3>2 DEF Chain
      <4>. QED BY <3>2, <4>1, <1>2, TimerAssumption DEF Chain
    <3>. QED BY <3>1, <3>2
  <2>3. nx2[u] # NULL => nx2[u] \in M /\ pv2[nx2[u]] = u
    <3>1. CASE u = pv[t]
      BY <3>1, <1>2, TimerAssumption
    <3>2. CASE u # pv[t] /\ nx[u] # NULL
      <4>1. nx[u] \in M /\ pv[nx[u]] = u /\ nx[u] # nx[t]
        BY <3>2, <1>2 DEF Chain
      <4>. QED BY <3>2, <4>1
    <3>. QED BY <3>1, <3>2
  <2>4. pv2[u] # NULL => pv2[u] \in M /\ nx2[pv2[u]] = u
    <3>1. CASE u = nx[t]
      BY <3>1, <1>2, TimerAssumption
    <3>2. CASE u # nx[t] /\ pv[u] # NULL
      <4>1. pv[u] \in M /\ nx[pv[u]] = u /\ pv[u] # pv[t]
        BY <3>2, <1>2 DEF Chain
      <4>. QED BY <3>2, <4>1
    <3>. QED BY <3>1, <3>2
  <2>. QED BY <2>1, <2>2, <2>3, <2>4
<1>6. Chain(M, h2, z2, nx2, pv2)
  BY <1>3, <1>4, <1>5 DEF Chain
<1>7. \A u \in M : nx2[u] \in M => ex2[u] <= ex2[nx2[u]] /\ rank[u] < rank[nx2[u]]
  <2> SUFFICES ASSUME NEW u \in M, nx2[u] \in M
               PROVE  ex2[u] <= ex2[nx2[u]] /\ rank[u] < rank[nx2[u]]
    OBVIOUS
  <2>1. CASE u = pv[t]
    <3>1. nx[u] = t /\ nx2[u] = nx[t] /\ ex2[u] = ex[u] /\ ex2[nx[t]] = ex[nx[t]]
      BY <2>1, <1>2, TimerAssumption
    <3>2. ex[u] <= ex[t] /\ ex[t] <= ex[nx[t]] /\ rank[u] < rank[t] /\ rank[t] < rank[nx[t]]
      BY <3>1, <1>1 DEF Ascending
    <3>3. {ex[u], ex[t], ex[nx[t]], rank[u], rank[t], rank[nx[t]]} \subseteq Nat
      BY <3>1
    <3>. QED BY <3>1, <3>2, <3>3
  <2>2. CASE u # pv[t]
    BY <2>2, <1>1 DEF Ascending
  <2>. QED BY <2>1, <2>2
<1>8. Ascending(M, nx2, ex2) /\ Numbered(M, nx2)
  BY <1>7 DEF Ascending, Numbered
<1>9. h2 \in Pointers
  OBVIOUS
<1>. QED BY <1>6, <1>8, <1>9

\* Putting a timer in where it belongs gives a list.
LEMMA PutIn ==
  ASSUME NEW L, NEW h, NEW z, NEW nx, NEW pv, NEW ex, IsList(L, h, z, nx, pv, ex),
         NEW t, NEW b, NEW a, NEW h2, NEW z2, NEW nx2, NEW pv2, NEW ex2,
         Inserted(L, h, z, nx, pv, ex, t, b, a, h2, z2, nx2, pv2, ex2)
  PROVE  IsList(L \cup {t}, h2, z2, nx2, pv2, ex2)
<1> USE DEF IsList, Inserted
<1> DEFINE M == L \cup {t}
<1>1. t # NULL /\ NULL \notin L
  BY TimerAssumption
<1>2. a # NULL => a \in L /\ pv[a] = b
  BY <1>1 DEF Chain, Pointers
<1>3. Chain(M, h2, z2, nx2, pv2)
  <2>1. h2 # NULL /\ h2 \in M /\ z2 \in M
    BY <1>1, <1>2 DEF Chain
  <2>2. ASSUME NEW u \in M
        PROVE  /\ (nx2[u] = NULL) <=> (u = z2)
               /\ (pv2[u] = NULL) <=> (u = h2)
               /\ nx2[u] # NULL => nx2[u] \in M /\ pv2[nx2[u]] = u
               /\ pv2[u] # NULL => pv2[u] \in M /\ nx2[pv2[u]] = u
    <3>1. CASE u = t
      BY <3>1, <1>1, <1>2 DEF Chain
    <3>2. CASE u \in L
      <4>1. (nx2[u] = NULL) <=> (u = z2)
        BY <3>2, <1>1, <1>2 DEF Chain
      <4>2. (pv2[u] = NULL) <=> (u = h2)
        BY <3>2, <1>1, <1>2 DEF Chain
      <4>3. nx2[u] # NULL => nx2[u] \in M /\ pv2[nx2[u]] = u
        BY <3>2, <1>1, <1>2 DEF Chain
      <4>4. pv2[u] # NULL => pv2[u] \in M /\ nx2[pv2[u]] = u
        BY <3>2, <1>1, <1>2 DEF Chain
      <4>. QED BY <4>1, <4>2, <4>3, <4>4
    <3>. QED BY <3>1, <3>2
  <2>. QED BY <2>1, <2>2 DEF Chain
<1>4. Ascending(M, nx2, ex2)
  <2> SUFFICES ASSUME NEW u \in M, nx2[u] \in M PROVE ex2[u] <= ex2[nx2[u]]
    BY DEF Ascending
  <2>1. CASE u = t
    BY <2>1, <1>1, <1>2
  <2>2. CASE u \in L /\ u = b
    BY <2>2, <1>1
  <2>3. CASE u \in L /\ u # b
    <3>1. nx2[u] = nx[u] /\ nx[u] # t
      BY <2>3, <1>1 DEF Chain
    <3>. QED BY <2>3, <3>1 DEF Ascending
  <2>. QED BY <2>1, <2>2, <2>3
<1>5. Numbered(M, nx2)
  <2>1. PICK rank \in [Timers -> Nat] : \A u \in L : nx[u] \in L => rank[u] < rank[nx[u]]
    BY DEF Numbered
  <2>2. ASSUME NEW u \in L, u # b, nx2[u] \in M
        PROVE  nx2[u] \in L /\ rank[u] < rank[nx2[u]]
    <3>1. nx2[u] = nx[u] /\ nx[u] # t
      BY <2>2, <1>1 DEF Chain
    <3>. QED BY <2>1, <2>2, <3>1
  <2>3. CASE b = NULL
    <3> DEFINE rank2 == [u \in Timers |-> IF u = t THEN 0 ELSE rank[u] + 1]
    <3>1. rank2 \in [Timers -> Nat]
      OBVIOUS
    <3>2. ASSUME NEW u \in M, nx2[u] \in M PROVE rank2[u] < rank2[nx2[u]]
      BY <2>2, <2>3, <3>2, <1>1, <1>2
    <3> HIDE DEF rank2
    <3>. QED BY <3>1, <3>2 DEF Numbered
  <2>4. CASE b \in L
    <3> DEFINE rank2 == [u \in Timers |-> IF u = t THEN rank[b] + 1
                                          ELSE IF rank[u] > rank[b] THEN rank[u] + 1 ELSE rank[u]]
    <3>1. rank2 \in [Timers -> Nat]
      BY <2>4
    <3>2. ASSUME NEW u \in M, nx2[u] \in M PROVE rank2[u] < rank2[nx2[u]]
      <4>1. CASE u = t
        <5>1. nx2[u] = a /\ a \in L /\ rank[b] < rank[a]
          BY <4>1, <3>2, <2>1, <2>4, <1>1, <1>2
        <5>. QED BY <5>1, <4>1, <2>4
      <4>2. CASE u = b
        BY <4>2, <2>4
      <4>3. CASE u \in L /\ u # b
        <5>1. nx2[u] \in L /\ rank[u] < rank[nx2[u]] /\ nx2[u] # t
          BY <4>3, <3>2, <2>2
        <5>. QED BY <5>1, <4>3, <2>4
      <4>. QED BY <4>1, <4>2, <4>3
    <3> HIDE DEF rank2
    <3>. QED BY <3>1, <3>2 DEF Numbered
  <2>. QED BY <2>3, <2>4
<1>6. h2 \in Pointers /\ z2 \in Pointers
  BY DEF Pointers
<1>. QED BY <1>3, <1>4, <1>5, <1>6
-----------------------------------------------------------------------------
(* The inductive invariant *)

\* Between calls no timer is out of the list; only a running tick() has a time.
Locals ==
    /\ IF pc = "walk" THEN timer \in live ELSE timer = NULL
    /\ pc = "tick" <=> cur # NULL

\* While the destructor walks along, head goes on but the fields of the timers stay:
\* what is left is a chain from head, and the first timer's prev is stale.
Remaining ==
    pc \in {"delete", "gone"} =>
      /\ head = NULL <=> live = {}
      /\ head # NULL => head \in live
      /\ \A t \in live :
           /\ next[t] # NULL => next[t] \in live /\ prev[next[t]] = t /\ next[t] # head
           /\ t # head => prev[t] \in live /\ next[prev[t]] = t

Acyclic == Numbered(Listed, next)

ListIInv == ListInv /\ Acyclic /\ Locals /\ Remaining

\* No timer is at the address NULL, and times are numbers.
LEMMA Addresses ==
  ASSUME ListTypeOK
  PROVE  /\ NULL \notin Timers /\ Listed \in SUBSET Timers /\ Times \subseteq Nat
         /\ head \in Pointers /\ tail \in Pointers
         /\ next \in [Timers -> Pointers] /\ prev \in [Timers -> Pointers]
         /\ expire \in [Timers -> Nat]
BY TimerAssumption DEF ListTypeOK, Listed, Times

\* The state as a list.
LEMMA TheList ==
  ASSUME ListIInv, pc \notin {"delete", "gone"}
  PROVE  IsList(Listed, head, tail, next, prev, expire)
<1>1. ListTypeOK
  BY DEF ListIInv, ListInv
<1>2. /\ Chain(Listed, head, tail, next, prev)
      /\ Ascending(Listed, next, expire) /\ Numbered(Listed, next)
  BY DEF ListIInv, ListInv, Linked, Sorted, Acyclic, Chain, Ascending
<1>. QED BY <1>1, <1>2, Addresses DEF IsList

\* A list again after a step outside the destructor.
LEMMA ListAgain ==
  ASSUME ListTypeOK', Locals', pc' \notin {"delete", "gone"},
         IsList(Listed', head', tail', next', prev', expire'),
         pc' = "walk" => before' \in Listed' /\ expire'[before'] <= expire'[timer']
  PROVE  ListIInv'
BY DEF ListIInv, ListInv, DestroyFreesAll, Linked, Sorted, Acyclic, Chain, Ascending, Numbered, Remaining,
       IsList

\* The constructor.
LEMMA ListIInvInit == ListInit => ListIInv
<1> SUFFICES ASSUME ListInit PROVE ListIInv
  OBVIOUS
<1>1. ListTypeOK
  BY TimerAssumption DEF ListInit, ListTypeOK, Pointers, Times
<1>2. Linked /\ Sorted /\ DestroyFreesAll /\ Locals /\ Remaining
  BY DEF ListInit, Linked, Sorted, DestroyFreesAll, Locals, Remaining, Listed
<1>3. Acyclic
  <2>1. [t \in Timers |-> 0] \in [Timers -> Nat]
    OBVIOUS
  <2>2. Listed = {}
    BY DEF ListInit, Listed
  <2>. QED BY <2>1, <2>2 DEF Acyclic, Numbered
<1>. QED BY <1>1, <1>2, <1>3 DEF ListIInv, ListInv

-----------------------------------------------------------------------------
(* The steps *)

\* The private add_timer() links its timer before the first later one.
LEMMA WalkInsertStep == ListIInv /\ WalkInsert => ListIInv'
<1> SUFFICES ASSUME ListIInv, WalkInsert PROVE ListIInv'
  OBVIOUS
<1>1. /\ ListTypeOK /\ timer \in Timers \ Listed /\ before \in Listed /\ Listed' = Listed \cup {timer}
      /\ after \in Listed /\ expire[before] <= expire[timer] /\ expire[timer] < expire[after]
  BY TimerAssumption
     DEF ListIInv, ListInv, ListTypeOK, WalkInsert, Return, Listed, Locals, Sorted, Linked, after
<1>2. ListTypeOK' /\ Locals' /\ pc' = "idle"
  BY <1>1, TimerAssumption DEF ListTypeOK, WalkInsert, Return, Locals, Pointers, after, Listed
<1>3. Inserted(Listed, head, tail, next, prev, expire, timer, before, after,
               head', tail', next', prev', expire')
  BY <1>1, <1>2, Addresses DEF WalkInsert, ListTypeOK, Inserted, after
<1>4. IsList(Listed \cup {timer}, head', tail', next', prev', expire')
  BY <1>3, TheList, PutIn DEF WalkInsert
<1>. QED BY <1>1, <1>2, <1>4, ListAgain

\* It goes on to the next timer, which is not later than its own.
LEMMA WalkOnStep == ListIInv /\ WalkOn => ListIInv'
<1> SUFFICES ASSUME ListIInv, WalkOn PROVE ListIInv'
  OBVIOUS
<1>1. after \in Listed /\ after \in Timers
  BY Addresses DEF ListIInv, ListInv, WalkOn, Listed, Sorted, Linked, after
<1>2. ListTypeOK' /\ Locals'
  BY <1>1 DEF ListIInv, ListInv, ListTypeOK, WalkOn, list, Locals, Pointers
<1>3. UNCHANGED <<head, tail, next, prev, expire, live, timer, pc>>
  BY DEF WalkOn, list
<1>4. expire[after] <= expire[timer]
  BY <1>1, Addresses DEF ListIInv, ListInv, ListTypeOK, WalkOn
<1>5. IsList(Listed, head, tail, next, prev, expire)
  BY TheList DEF WalkOn
<1>6. Listed' = Listed
  BY <1>3 DEF Listed
<1>7. pc' = "walk" /\ before' = after
  BY DEF WalkOn
<1>. QED BY <1>1, <1>2, <1>3, <1>4, <1>5, <1>6, <1>7, ListAgain

\* It comes to the end: the timer becomes the last one.
LEMMA WalkAppendStep == ListIInv /\ WalkAppend => ListIInv'
<1> SUFFICES ASSUME ListIInv, WalkAppend PROVE ListIInv'
  OBVIOUS
<1>1. /\ ListTypeOK /\ timer \in Timers \ Listed /\ before \in Listed /\ Listed' = Listed \cup {timer}
      /\ after = NULL /\ expire[before] <= expire[timer]
  BY TimerAssumption
     DEF ListIInv, ListInv, ListTypeOK, WalkAppend, Return, Listed, Locals, Sorted, Linked, after
<1>2. ListTypeOK' /\ Locals' /\ pc' = "idle"
  BY <1>1, TimerAssumption DEF ListTypeOK, WalkAppend, Return, Locals, Pointers, after, Listed
<1>3. Inserted(Listed, head, tail, next, prev, expire, timer, before, NULL,
               head', tail', next', prev', expire')
  BY <1>1, <1>2, Addresses DEF WalkAppend, ListTypeOK, Inserted, after
<1>4. IsList(Listed \cup {timer}, head', tail', next', prev', expire')
  BY <1>3, TheList, PutIn DEF WalkAppend
<1>. QED BY <1>1, <1>2, <1>4, ListAgain

\* add_timer() of the first timer.
LEMMA AddFirstStep ==
  ASSUME NEW t \in Timers, NEW e \in Times, ListIInv, AddFirst(t, e)
  PROVE  ListIInv'
<1>1. ListTypeOK /\ t \notin Listed /\ Listed' = Listed \cup {t} /\ Listed = {} /\ timer = NULL
  BY TimerAssumption
     DEF ListIInv, ListInv, ListTypeOK, AddFirst, New, Listed, Locals, Linked, locals
<1>2. ListTypeOK' /\ Locals' /\ pc' = "idle"
  BY <1>1 DEF ListIInv, ListTypeOK, AddFirst, New, Locals, Pointers, locals
<1>3. Inserted(Listed, head, tail, next, prev, expire, t, NULL, NULL,
               head', tail', next', prev', expire')
  <2>1. head = NULL /\ head' = t /\ tail' = t /\ next'[t] = NULL /\ prev'[t] = NULL
    BY <1>1 DEF AddFirst, ListTypeOK
  <2>2. next' \in [Timers -> Pointers] /\ prev' \in [Timers -> Pointers]
        /\ expire' \in [Timers -> Nat]
    BY <1>1, <1>2, Addresses DEF ListTypeOK
  <2>. QED BY <1>1, <2>1, <2>2 DEF Inserted
<1>4. IsList(Listed \cup {t}, head', tail', next', prev', expire')
  BY <1>3, TheList, PutIn DEF AddFirst, New
<1>. QED BY <1>1, <1>2, <1>4, ListAgain

\* add_timer() of a timer that is due before all others.
LEMMA AddFrontStep ==
  ASSUME NEW t \in Timers, NEW e \in Times, ListIInv, AddFront(t, e)
  PROVE  ListIInv'
<1>1. ListTypeOK /\ t \notin Listed /\ Listed' = Listed \cup {t} /\ head \in Listed /\ timer = NULL
  BY TimerAssumption
     DEF ListIInv, ListInv, ListTypeOK, AddFront, New, Listed, Locals, Linked, locals
<1>2. ListTypeOK' /\ Locals' /\ pc' = "idle"
  BY <1>1 DEF ListIInv, ListTypeOK, AddFront, New, Locals, Pointers, locals, Listed
<1>3. Inserted(Listed, head, tail, next, prev, expire, t, NULL, head,
               head', tail', next', prev', expire')
  <2>1. /\ head # NULL /\ head' = t /\ tail' = tail /\ next'[t] = head /\ prev'[t] = NULL
        /\ expire'[t] = e /\ e <= expire[head]
        /\ \A u \in Listed : /\ next'[u] = next[u] /\ expire'[u] = expire[u]
                             /\ prev'[u] = IF u = head THEN t ELSE prev[u]
    BY <1>1, Addresses DEF AddFront, New, ListTypeOK
  <2>2. next' \in [Timers -> Pointers] /\ prev' \in [Timers -> Pointers]
        /\ expire' \in [Timers -> Nat]
    BY <1>1, <1>2, Addresses DEF ListTypeOK
  <2>. QED BY <1>1, <2>1, <2>2, Addresses DEF Inserted
<1>4. IsList(Listed \cup {t}, head', tail', next', prev', expire')
  BY <1>3, TheList, PutIn DEF AddFront, New
<1>. QED BY <1>1, <1>2, <1>4, ListAgain

\* add_timer() of another timer: the list is as it was while add_timer() looks for the
\* place, from head on.
LEMMA AddBehindStep ==
  ASSUME NEW t \in Timers, NEW e \in Times, ListIInv, AddBehind(t, e)
  PROVE  ListIInv'
<1>1. ListTypeOK /\ t \notin Listed /\ Listed' = Listed /\ head \in Listed /\ head \in Timers
  BY TimerAssumption
     DEF ListIInv, ListInv, ListTypeOK, AddBehind, New, Listed, Locals, Linked, Insert
<1>2. ListTypeOK' /\ Locals' /\ pc' = "walk"
  BY <1>1 DEF ListIInv, ListTypeOK, AddBehind, New, Locals, Pointers, Insert
<1>3. /\ next' \in [Timers -> Pointers] /\ prev' \in [Timers -> Pointers]
      /\ expire' \in [Timers -> Nat] /\ head' = head /\ tail' = tail
      /\ \A u \in Listed : next'[u] = next[u] /\ prev'[u] = prev[u] /\ expire'[u] = expire[u]
  BY <1>1, <1>2, Addresses DEF AddBehind, New, ListTypeOK
<1>4. IsList(Listed, head, tail, next, prev, expire)
  BY TheList DEF AddBehind, New
<1>5. IsList(Listed, head', tail', next', prev', expire')
  <2>1. Chain(Listed, head, tail, next', prev')
    BY <1>3, <1>4 DEF IsList, Chain
  <2>2. Ascending(Listed, next', expire')
    BY <1>3, <1>4 DEF IsList, Ascending
  <2>3. Numbered(Listed, next')
    BY <1>3, <1>4 DEF IsList, Numbered
  <2>. QED BY <1>3, <1>4, <2>1, <2>2, <2>3 DEF IsList
<1>6. before' = head /\ timer' = t /\ expire'[head] <= expire'[t]
  BY <1>1, Addresses DEF AddBehind, New, Insert, ListTypeOK
<1>. QED BY <1>1, <1>2, <1>5, <1>6, ListAgain

\* adjust_timer() of a timer that stays where it is.
LEMMA AdjustStaysStep ==
  ASSUME NEW t \in Timers, NEW e \in Times, ListIInv, AdjustStays(t, e)
  PROVE  ListIInv'
<1>1. ListTypeOK /\ Listed' = Listed /\ t \in Listed /\ timer = NULL
  BY TimerAssumption
     DEF ListIInv, ListInv, ListTypeOK, AdjustStays, PutOff, Listed, Locals, locals
<1>2. ListTypeOK' /\ Locals' /\ pc' = "idle"
  BY <1>1 DEF ListIInv, ListTypeOK, AdjustStays, PutOff, Locals, locals, list
<1>3. /\ expire' \in [Timers -> Nat] /\ UNCHANGED <<head, tail, next, prev>>
      /\ e \in Nat /\ expire[t] <= e /\ (next[t] # NULL => e <= expire[next[t]])
      /\ \A u \in Timers : expire'[u] = IF u = t THEN e ELSE expire[u]
  BY <1>1, <1>2, Addresses DEF AdjustStays, PutOff, mustMove, list, ListTypeOK, Pointers
<1>4. IsList(Listed, head, tail, next, prev, expire)
  BY TheList DEF AdjustStays, PutOff
<1>5. Ascending(Listed, next, expire')
  <2> SUFFICES ASSUME NEW u \in Listed, next[u] \in Listed PROVE expire'[u] <= expire'[next[u]]
    BY DEF Ascending
  <2>1. expire[u] <= expire[next[u]]
    BY <1>4 DEF IsList, Ascending
  <2>2. u \in Timers /\ next[u] \in Timers /\ expire[u] \in Nat /\ expire[next[u]] \in Nat
    BY <1>1, Addresses
  <2>. QED BY <1>1, <1>3, <2>1, <2>2, Addresses
<1>6. IsList(Listed, head', tail', next', prev', expire')
  BY <1>3, <1>4, <1>5 DEF IsList
<1>. QED BY <1>1, <1>2, <1>6, ListAgain

\* adjust_timer() of the first timer, which must move.
LEMMA AdjustHeadStep ==
  ASSUME NEW t \in Timers, NEW e \in Times, ListIInv, AdjustHead(t, e)
  PROVE  ListIInv'
<1>1. /\ ListTypeOK /\ t \in Listed /\ Listed' = Listed \ {t} /\ t = head /\ next[t] # NULL
      /\ next[t] \in Listed /\ prev[next[t]] = t /\ prev[t] = NULL
  BY TimerAssumption
     DEF ListIInv, ListInv, ListTypeOK, AdjustHead, PutOff, mustMove, Listed, Locals, Linked, Insert
<1>2. next[t] \in Timers /\ next[t] # t
  BY <1>1, Addresses
<1>3. ListTypeOK' /\ Locals' /\ pc' = "walk"
  BY <1>1, <1>2 DEF ListIInv, ListTypeOK, AdjustHead, PutOff, Locals, Pointers, Insert, Listed
<1>4. Removed(Listed, head, tail, next, prev, expire, t, head', tail', next', prev', expire')
  <2>1. /\ next' \in [Timers -> Pointers] /\ prev' \in [Timers -> Pointers]
        /\ expire' \in [Timers -> Nat] /\ tail \in Pointers
    BY <1>1, <1>3, Addresses DEF ListTypeOK
  <2>2. \A u \in Listed \ {t} : /\ next'[u] = next[u] /\ expire'[u] = expire[u]
                                /\ prev'[u] = IF u = next[t] THEN NULL ELSE prev[u]
    BY <1>1, Addresses DEF ListTypeOK, AdjustHead, PutOff
  <2>3. head' = next[t] /\ tail' = tail /\ t # tail
    BY <1>1 DEF AdjustHead, ListIInv, ListInv, Linked, PutOff
  <2>. QED BY <1>1, <2>1, <2>2, <2>3, Addresses DEF Removed
<1>5. IsList(Listed \ {t}, head', tail', next', prev', expire')
  BY <1>4, TheList, TakeOut DEF AdjustHead, PutOff
<1>6. before' = next[t] /\ timer' = t /\ expire'[next[t]] <= expire'[t]
  BY <1>1, <1>2, Addresses DEF AdjustHead, PutOff, mustMove, Insert, ListTypeOK
<1>7. before' \in Listed'
  BY <1>1, <1>2, <1>6
<1>. QED BY <1>1, <1>3, <1>5, <1>6, <1>7, ListAgain

\* adjust_timer() of another timer that must move.
LEMMA AdjustInsideStep ==
  ASSUME NEW t \in Timers, NEW e \in Times, ListIInv, AdjustInside(t, e)
  PROVE  ListIInv'
<1>1. /\ ListTypeOK /\ t \in Listed /\ Listed' = Listed \ {t} /\ t # head /\ next[t] # NULL
      /\ next[t] \in Listed /\ prev[next[t]] = t /\ prev[t] \in Listed /\ next[prev[t]] = t
  BY TimerAssumption
     DEF ListIInv, ListInv, ListTypeOK, AdjustInside, PutOff, mustMove, Listed, Locals, Linked, Insert
<1>2. next[t] \in Timers /\ prev[t] \in Timers /\ next[t] # t /\ prev[t] # t
  <2>1. PICK rank \in [Timers -> Nat] : \A u \in Listed : next[u] \in Listed => rank[u] < rank[next[u]]
    BY DEF ListIInv, Acyclic, Numbered
  <2>. QED BY <1>1, <2>1, Addresses
<1>3. ListTypeOK' /\ Locals' /\ pc' = "walk"
  BY <1>1, <1>2 DEF ListIInv, ListTypeOK, AdjustInside, PutOff, Locals, Pointers, Insert, Listed
<1>4. Removed(Listed, head, tail, next, prev, expire, t, head', tail', next', prev', expire')
  <2>1. /\ next' \in [Timers -> Pointers] /\ prev' \in [Timers -> Pointers]
        /\ expire' \in [Timers -> Nat] /\ tail \in Pointers
    BY <1>1, <1>3, Addresses DEF ListTypeOK
  <2>2. \A u \in Listed \ {t} : /\ next'[u] = IF u = prev[t] THEN next[t] ELSE next[u]
                                /\ prev'[u] = IF u = next[t] THEN prev[t] ELSE prev[u]
                                /\ expire'[u] = expire[u]
    BY <1>1, Addresses DEF ListTypeOK, AdjustInside, PutOff
  <2>3. head' = head /\ tail' = tail /\ t # tail
    BY <1>1 DEF AdjustInside, ListIInv, ListInv, Linked, PutOff
  <2>. QED BY <1>1, <2>1, <2>2, <2>3 DEF Removed
<1>5. IsList(Listed \ {t}, head', tail', next', prev', expire')
  BY <1>4, TheList, TakeOut DEF AdjustInside, PutOff
<1>6. before' = next[t] /\ timer' = t /\ expire'[next[t]] <= expire'[t]
  BY <1>1, <1>2, Addresses DEF AdjustInside, PutOff, mustMove, Insert, ListTypeOK
<1>7. before' \in Listed'
  BY <1>1, <1>2, <1>6
<1>. QED BY <1>1, <1>3, <1>5, <1>6, <1>7, ListAgain

\* del_timer(), wherever the timer is.
LEMMA DelStep ==
  ASSUME NEW t \in Timers, ListIInv, DelOnly(t) \/ DelHead(t) \/ DelTail(t) \/ DelInside(t)
  PROVE  ListIInv'
<1>1. /\ ListTypeOK /\ pc = "idle" /\ timer = NULL /\ t \in Listed /\ Listed' = Listed \ {t}
      /\ UNCHANGED <<expire, locals>>
  BY TimerAssumption
     DEF ListIInv, ListInv, ListTypeOK, DelOnly, DelHead, DelTail, DelInside, Delete, Listed, Locals, locals
<1>2. /\ (next[t] = NULL) <=> (t = tail)
      /\ (prev[t] = NULL) <=> (t = head)
      /\ next[t] # NULL => next[t] \in Listed /\ prev[next[t]] = t
      /\ prev[t] # NULL => prev[t] \in Listed /\ next[prev[t]] = t
  BY <1>1 DEF ListIInv, ListInv, Linked
<1>3. ListTypeOK' /\ Locals' /\ pc' = "idle"
  <2>1. head' \in Pointers /\ tail' \in Pointers /\ next' \in [Timers -> Pointers]
    BY <1>1, <1>2, Addresses DEF DelOnly, DelHead, DelTail, DelInside, Pointers
  <2>2. prev' \in [Timers -> Pointers]
    BY <1>1, <1>2, Addresses DEF DelOnly, DelHead, DelTail, DelInside, Pointers
  <2>3. live' \subseteq Timers
    BY <1>1 DEF ListTypeOK, DelOnly, DelHead, DelTail, DelInside, Delete
  <2>. QED BY <1>1, <2>1, <2>2, <2>3 DEF ListTypeOK, ListIInv, Locals, locals
<1>4. Removed(Listed, head, tail, next, prev, expire, t, head', tail', next', prev', expire')
  <2>1. /\ next' \in [Timers -> Pointers] /\ prev' \in [Timers -> Pointers]
        /\ expire' \in [Timers -> Nat] /\ tail' \in Pointers
    BY <1>1, <1>3, Addresses DEF ListTypeOK
  <2>2. \A u \in Listed \ {t} : /\ next'[u] = IF u = prev[t] THEN next[t] ELSE next[u]
                                /\ prev'[u] = IF u = next[t] THEN prev[t] ELSE prev[u]
                                /\ expire'[u] = expire[u]
    <3>1. CASE DelOnly(t)
      BY <3>1, <1>1, <1>2, Addresses DEF DelOnly
    <3>2. CASE DelHead(t)
      BY <3>2, <1>1, <1>2, Addresses DEF DelHead
    <3>3. CASE DelTail(t)
      BY <3>3, <1>1, <1>2, Addresses DEF DelTail
    <3>4. CASE DelInside(t)
      BY <3>4, <1>1, <1>2, Addresses DEF DelInside
    <3>. QED BY <3>1, <3>2, <3>3, <3>4
  <2>3. /\ head' = IF t = head THEN next[t] ELSE head
        /\ t # tail => tail' = tail
        /\ t # head /\ t = tail => tail' = prev[t]
    BY <1>2 DEF DelOnly, DelHead, DelTail, DelInside
  <2>. QED BY <1>1, <2>1, <2>2, <2>3 DEF Removed
<1>5. IsList(Listed \ {t}, head', tail', next', prev', expire')
  BY <1>1, <1>4, TheList, TakeOut
<1>. QED BY <1>1, <1>3, <1>5, ListAgain

\* tick() calls the callback of the first timer, unlinks and deletes it.
LEMMA TickFireStep == ListIInv /\ TickFire => ListIInv'
<1> SUFFICES ASSUME ListIInv, TickFire PROVE ListIInv'
  OBVIOUS
<1>1. /\ ListTypeOK /\ pc = "tick" /\ timer = NULL /\ head \in Listed /\ Listed' = Listed \ {head}
      /\ UNCHANGED <<tail, next, expire, locals>>
  BY TimerAssumption
     DEF ListIInv, ListInv, Linked, TickFire, Delete, Listed, Locals, locals
<1>2. prev[head] = NULL /\ (next[head] # NULL => next[head] \in Listed /\ prev[next[head]] = head)
  BY <1>1 DEF ListIInv, ListInv, Linked
<1>3. ListTypeOK' /\ Locals' /\ pc' = "tick"
  <2>1. head' \in Pointers /\ prev' \in [Timers -> Pointers] /\ live' \subseteq Timers
    BY <1>1, <1>2, Addresses DEF ListTypeOK, TickFire, Delete, Pointers
  <2>. QED BY <1>1, <2>1 DEF ListTypeOK, ListIInv, Locals, locals
<1>4. Removed(Listed, head, tail, next, prev, expire, head, head', tail', next', prev', expire')
  <2>1. prev' \in [Timers -> Pointers]
    BY <1>3 DEF ListTypeOK
  <2>2. \A u \in Listed \ {head} : prev'[u] = IF u = next[head] THEN prev[head] ELSE prev[u]
    BY <1>1, <1>2, Addresses DEF TickFire
  <2>3. head' = next[head] /\ prev[head] \notin Listed
    BY <1>1, <1>2, Addresses DEF TickFire
  <2>4. head = tail => next[head] = NULL
    BY <1>1 DEF ListIInv, ListInv, Linked
  <2>. QED BY <1>1, <2>1, <2>2, <2>3, Addresses DEF Removed
<1>5. IsList(Listed \ {head}, head', tail', next', prev', expire')
  BY <1>1, <1>4, TheList, TakeOut
<1>. QED BY <1>1, <1>3, <1>5, ListAgain

\* tick() is called, or returns.
LEMMA TickCallStep ==
  ASSUME ListIInv, TickReturns \/ \E time \in Times : TickCall(time)
  PROVE  ListIInv'
<1>1. /\ ListTypeOK /\ timer = NULL /\ timer' = NULL /\ Listed' = Listed /\ pc' \in {"tick", "idle"}
      /\ UNCHANGED <<head, tail, next, prev, expire, live>> /\ pc \in {"tick", "idle"}
  BY DEF ListIInv, ListInv, TickReturns, TickCall, Return, Locals, Listed, list
<1>2. ListTypeOK' /\ Locals'
  BY <1>1, TimerAssumption DEF ListTypeOK, Locals, TickReturns, TickCall, Return, Times, Pointers
<1>. QED BY <1>1, <1>2, TheList, ListAgain

\* The destructor starts.
LEMMA DestroyCallStep == ListIInv /\ DestroyCall => ListIInv'
<1> SUFFICES ASSUME ListIInv, DestroyCall PROVE ListIInv'
  OBVIOUS
<1>1. UNCHANGED <<head, tail, next, prev, expire, live, timer, before, cur>> /\ pc = "idle" /\ pc' = "delete"
  BY DEF DestroyCall, list
<1>2. timer = NULL /\ Listed = live /\ Listed' = Listed
  BY <1>1, TimerAssumption DEF ListIInv, ListInv, ListTypeOK, Locals, Listed
<1>3. ListTypeOK' /\ Locals' /\ Acyclic' /\ Sorted' /\ Linked' /\ DestroyFreesAll'
  BY <1>1, <1>2
     DEF ListIInv, ListInv, ListTypeOK, Locals, Acyclic, Numbered, Sorted, Linked, DestroyFreesAll
<1>4. Remaining
  BY <1>1 DEF Remaining
<1>5. Remaining'
  <2>1. head = NULL <=> live = {}
    BY <1>1, <1>2 DEF ListIInv, ListInv, Linked
  <2>2. head # NULL => head \in live
    BY <1>1, <1>2 DEF ListIInv, ListInv, Linked
  <2>3. ASSUME NEW t \in live
        PROVE  /\ next[t] # NULL => next[t] \in live /\ prev[next[t]] = t /\ next[t] # head
               /\ t # head => prev[t] \in live /\ next[prev[t]] = t
    BY <1>1, <1>2, TimerAssumption DEF ListIInv, ListInv, ListTypeOK, Linked
  <2>. QED BY <1>1, <2>1, <2>2, <2>3 DEF Remaining
<1>. QED BY <1>3, <1>5 DEF ListIInv, ListInv

\* The destructor deletes the first of the timers that are left.
LEMMA DestroyLoopStep == ListIInv /\ DestroyStep => ListIInv'
<1> SUFFICES ASSUME ListIInv, DestroyStep PROVE ListIInv'
  OBVIOUS
<1>1. /\ UNCHANGED <<tail, next, prev, expire, pc, timer, before, cur>> /\ pc = "delete"
      /\ head # NULL /\ head' = next[head] /\ live' = live \ {head} /\ timer = NULL
  BY DEF DestroyStep, Delete, locals, ListIInv, Locals
<1>2. /\ ListTypeOK /\ head \in live
      /\ \A t \in live :
           /\ next[t] # NULL => next[t] \in live /\ prev[next[t]] = t /\ next[t] # head
           /\ t # head => prev[t] \in live /\ next[prev[t]] = t
  BY <1>1 DEF ListIInv, ListInv, Remaining
<1>3. NULL \notin live /\ live \subseteq Timers /\ Listed = live /\ Listed' = live \ {head}
  BY <1>1, <1>2, TimerAssumption DEF ListTypeOK, Listed
<1>4. ListTypeOK' /\ Locals'
  BY <1>1, <1>2, <1>3 DEF ListIInv, ListTypeOK, Locals
<1>5. PICK rank \in [Timers -> Nat] : \A t \in live : next[t] \in live => rank[t] < rank[next[t]]
  BY <1>3 DEF ListIInv, Acyclic, Numbered
<1>6. Acyclic'
  BY <1>1, <1>3, <1>5 DEF Acyclic, Numbered
<1>7. Sorted'
  BY <1>1, <1>3 DEF ListIInv, ListInv, Sorted
<1>8. Linked' /\ DestroyFreesAll'
  BY <1>1 DEF Linked, DestroyFreesAll
<1>9. Remaining'
  <2>1. head' = NULL <=> live' = {}
    <3>1. ASSUME live' # {}, head' = NULL PROVE FALSE
      <4>1. PICK u \in live' : \A v \in live' : rank[u] <= rank[v]
        BY <1>1, <1>3, <3>1, LeastRank
      <4>2. u \in live /\ u # head /\ prev[u] \in live /\ next[prev[u]] = u
        BY <1>1, <1>2, <4>1
      <4>3. rank[prev[u]] < rank[u] /\ prev[u] # head
        BY <1>1, <1>3, <1>5, <3>1, <4>2
      <4>4. prev[u] \in live' /\ rank[u] \in Nat /\ rank[prev[u]] \in Nat
        BY <1>1, <1>3, <4>2, <4>3
      <4>. QED BY <4>1, <4>3, <4>4
    <3>2. ASSUME head' # NULL PROVE live' # {}
      BY <1>1, <1>2, <3>2
    <3>. QED BY <3>1, <3>2
  <2>2. head' # NULL => head' \in live'
    BY <1>1, <1>2
  <2>3. ASSUME NEW t \in live'
        PROVE  /\ next[t] # NULL => next[t] \in live' /\ prev[next[t]] = t /\ next[t] # head'
               /\ t # head' => prev[t] \in live' /\ next[prev[t]] = t
    BY <1>1, <1>2
  <2>. QED BY <1>1, <2>1, <2>2, <2>3 DEF Remaining
<1>. QED BY <1>4, <1>6, <1>7, <1>8, <1>9 DEF ListIInv, ListInv

\* The destructor ends when nothing is left.
LEMMA DestroyEndStep == ListIInv /\ DestroyEnd => ListIInv'
<1> SUFFICES ASSUME ListIInv, DestroyEnd PROVE ListIInv'
  OBVIOUS
<1>1. /\ UNCHANGED <<head, tail, next, prev, expire, live, timer, before, cur>>
      /\ pc = "delete" /\ pc' = "gone" /\ head = NULL
  BY DEF DestroyEnd, list
<1>2. live = {} /\ Listed = {} /\ Listed' = {}
  BY <1>1 DEF ListIInv, Remaining, Listed
<1>3. ListTypeOK' /\ Linked' /\ Sorted' /\ DestroyFreesAll' /\ Acyclic' /\ Locals' /\ Remaining'
  BY <1>1, <1>2
     DEF ListIInv, ListInv, ListTypeOK, Linked, Sorted, DestroyFreesAll, Acyclic, Numbered, Locals, Remaining
<1>. QED BY <1>3 DEF ListIInv, ListInv

-----------------------------------------------------------------------------
(* The theorems *)

\* Every step of the list keeps the invariant.
LEMMA ListIInvNext == ListIInv /\ [ListNext]_listvars => ListIInv'
<1> SUFFICES ASSUME ListIInv, [ListNext]_listvars PROVE ListIInv'
  OBVIOUS
<1>1. CASE Loop
  BY <1>1, WalkInsertStep, WalkOnStep, WalkAppendStep, TickFireStep, TickCallStep, DestroyEndStep,
     DestroyLoopStep DEF Loop
<1>2. CASE Call
  <2>1. CASE DestroyCall
    BY <2>1, DestroyCallStep
  <2>2. CASE \E t \in Timers : DelOnly(t) \/ DelHead(t) \/ DelTail(t) \/ DelInside(t)
    BY <2>2, DelStep
  <2>3. ASSUME NEW t \in Timers, NEW e \in Times,
               \/ AddFirst(t, e) \/ AddFront(t, e) \/ AddBehind(t, e)
               \/ AdjustStays(t, e) \/ AdjustHead(t, e) \/ AdjustInside(t, e)
        PROVE  ListIInv'
    BY <2>3, AddFirstStep, AddFrontStep, AddBehindStep, AdjustStaysStep, AdjustHeadStep, AdjustInsideStep
  <2>4. CASE \E time \in Times : TickCall(time)
    BY <2>4, TickCallStep
  <2>. QED BY <1>2, <2>1, <2>2, <2>3, <2>4 DEF Call
<1>3. CASE UNCHANGED listvars
  <2>1. UNCHANGED <<head, tail, next, prev, expire, live, pc, timer, before, cur>> /\ Listed' = Listed
    BY <1>3 DEF listvars, list, locals, Listed
  <2>2. ListTypeOK' /\ Linked' /\ Sorted' /\ DestroyFreesAll'
    BY <2>1 DEF ListIInv, ListInv, ListTypeOK, Linked, Sorted, DestroyFreesAll
  <2>3. Acyclic' /\ Locals' /\ Remaining'
    BY <2>1 DEF ListIInv, Acyclic, Numbered, Locals, Remaining
  <2>. QED BY <2>2, <2>3 DEF ListIInv, ListInv
<1>. QED BY <1>1, <1>2, <1>3 DEF ListNext

\* The invariant holds in every state.
LEMMA ListIInvAlways == ListSpec => []ListIInv
BY ListIInvInit, ListIInvNext, PTL DEF ListSpec

\* Whatever calls come, in whatever order: the pointers of sort_timer_lst describe one
\* sorted chain of allocated timers, and its destructor leaves none behind.
THEOREM ListInvCorrect == ListSpec => []ListInv
<1>1. ListIInv => ListInv
  BY DEF ListIInv
<1>. QED BY <1>1, ListIInvAlways, PTL

-----------------------------------------------------------------------------
(* The list as a timer queue *)

\* the queue the list stands for
armed == [t \in live |-> expire[t]]

\* A call that gives t the time e arms it; adding and putting off are both that.
LEMMA Arms ==
  ASSUME NEW t \in Timers, NEW e \in Times, ListTypeOK, pc = "idle", cur = NULL, cur' = NULL,
         live' = live \cup {t}, expire' = [expire EXCEPT ![t] = e]
  PROVE  Queue!TQNext
<1>1. armed' = [u \in DOMAIN armed \cup {t} |-> IF u = t THEN e ELSE armed[u]]
  BY DEF armed, ListTypeOK
<1>2. Queue!Arm(t, e)
  BY <1>1 DEF Queue!Arm, armed
<1>. QED BY <1>2 DEF Queue!TQNext

\* A call that deletes t disarms it.
LEMMA Disarms ==
  ASSUME NEW t \in live, ListTypeOK, cur = NULL, cur' = NULL, Delete(t)
  PROVE  Queue!TQNext
<1>1. armed' = [u \in DOMAIN armed \ {t} |-> armed[u]]
  BY DEF armed, ListTypeOK, Delete
<1>2. Queue!Disarm(t)
  BY <1>1 DEF Queue!Disarm, Queue!Without, armed
<1>. QED BY <1>2 DEF Queue!TQNext, ListTypeOK

\* What tick() finds at head is due first.
LEMMA HeadIsDueFirst ==
  ASSUME ListIInv, pc = "tick", head # NULL
  PROVE  head \in live /\ live = Listed /\ \A u \in live : expire[head] <= expire[u]
<1>1. live = Listed
  BY TimerAssumption DEF ListIInv, ListInv, ListTypeOK, Locals, Listed
<1>2. head \in live
  BY <1>1 DEF ListIInv, ListInv, Linked
<1>3. IsList(Listed, head, tail, next, prev, expire)
  BY TheList
<1>. QED BY <1>1, <1>2, <1>3, HeadIsLeast

\* Every step of the list is a step of the queue, or leaves it as it is.
LEMMA QueueStep == ListIInv /\ [ListNext]_listvars => [Queue!TQNext]_(Queue!tqvars)
<1> SUFFICES ASSUME ListIInv, ListNext, ~ UNCHANGED <<armed, cur>> PROVE Queue!TQNext
  BY DEF Queue!tqvars, listvars, locals, armed
<1>1. ListTypeOK /\ (pc # "tick" => cur = NULL)
  BY DEF ListIInv, ListInv, Locals
<1>2. CASE WalkInsert \/ WalkOn \/ WalkAppend \/ DestroyEnd \/ DestroyCall
  BY <1>1, <1>2 DEF WalkInsert, WalkOn, WalkAppend, DestroyEnd, DestroyCall, Return, armed
<1>3. CASE TickFire
  <2>1. PICK h \in Timers : h = head /\ h \in live /\ \A u \in live : expire[h] <= expire[u]
    BY <1>1, <1>3, HeadIsDueFirst DEF TickFire, ListTypeOK
  <2>2. cur # NULL /\ cur \in Times /\ cur' = cur /\ expire[h] <= cur
    BY <2>1, <1>1, <1>3, Addresses DEF TickFire, isDue, locals, ListIInv, Locals, ListTypeOK
  <2>3. armed' = [u \in DOMAIN armed \ {h} |-> armed[u]]
    BY <2>1, <1>1, <1>3 DEF TickFire, Delete, armed, ListTypeOK
  <2>4. Queue!Fire(h)
    BY <2>1, <2>2, <2>3 DEF Queue!Fire, Queue!Without, armed
  <2>. QED BY <2>4 DEF Queue!TQNext
<1>4. CASE TickReturns
  <2>1. cur # NULL /\ cur \in Times /\ cur' = NULL /\ UNCHANGED <<expire, live>>
    BY <1>1, <1>4 DEF TickReturns, Return, ListIInv, Locals, ListTypeOK
  <2>2. \A t \in live : cur < expire[t]
    <3>1. CASE head = NULL
      <4>1. live = {}
        BY <3>1, <1>4, TimerAssumption DEF TickReturns, ListIInv, ListInv, Linked, Locals, Listed, ListTypeOK
      <4>. QED BY <4>1
    <3>2. CASE head # NULL
      <4>1. head \in live /\ (\A u \in live : expire[head] <= expire[u]) /\ ~ (cur >= expire[head])
        BY <3>2, <1>4, HeadIsDueFirst DEF TickReturns, isDue
      <4>2. cur \in Nat /\ \A u \in live : expire[u] \in Nat
        BY <2>1, <1>1, Addresses DEF ListTypeOK
      <4>. QED BY <4>1, <4>2
    <3>. QED BY <3>1, <3>2
  <2>3. Queue!TickEnds
    BY <2>1, <2>2 DEF Queue!TickEnds
  <2>. QED BY <2>3 DEF Queue!TQNext
<1>5. CASE DestroyStep
  <2>1. head \in live /\ cur = NULL /\ cur' = NULL /\ Delete(head)
    BY <1>1, <1>5 DEF DestroyStep, locals, ListIInv, Remaining
  <2>. QED BY <2>1, <1>1, Disarms
<1>6. CASE \E t \in Timers : DelOnly(t) \/ DelHead(t) \/ DelTail(t) \/ DelInside(t)
  <2>1. PICK t \in live : Delete(t) /\ cur = NULL /\ cur' = NULL
    BY <1>1, <1>6 DEF DelOnly, DelHead, DelTail, DelInside, locals
  <2>. QED BY <2>1, <1>1, Disarms
<1>7. CASE \E t \in Timers, e \in Times :
             \/ AddFirst(t, e) \/ AddFront(t, e) \/ AddBehind(t, e)
             \/ AdjustStays(t, e) \/ AdjustHead(t, e) \/ AdjustInside(t, e)
  <2>1. PICK t \in Timers, e \in Times :
             \/ AddFirst(t, e) \/ AddFront(t, e) \/ AddBehind(t, e)
             \/ AdjustStays(t, e) \/ AdjustHead(t, e) \/ AdjustInside(t, e)
    BY <1>7
  <2>2. pc = "idle" /\ live' = live \cup {t} /\ expire' = [expire EXCEPT ![t] = e]
    BY <2>1 DEF AddFirst, AddFront, AddBehind, AdjustStays, AdjustHead, AdjustInside, New, PutOff
  <2>3. cur = NULL /\ cur' = NULL
    BY <1>1, <2>1, <2>2
       DEF AddFirst, AddFront, AddBehind, AdjustStays, AdjustHead, AdjustInside, Insert, locals
  <2>. QED BY <2>2, <2>3, <1>1, Arms
<1>8. CASE \E time \in Times : TickCall(time)
  <2>1. PICK time \in Times : TickCall(time)
    BY <1>8
  <2>2. Queue!TickBegins(time)
    BY <2>1, <1>1 DEF TickCall, Queue!TickBegins
  <2>. QED BY <2>2 DEF Queue!TQNext
<1>. QED BY <1>2, <1>3, <1>4, <1>5, <1>6, <1>7, <1>8 DEF ListNext, Loop, Call

\* The linked list of lst_timer.h implements the timer queue: in particular a tick()
\* fires every timer that is due and no other, the earliest first, although it only
\* ever looks at head.
THEOREM ListIsQueue == ListSpec => ImplementsTimerQueue
<1>1. ListInit => Queue!TQInit
  BY DEF ListInit, Queue!TQInit
<1>. QED BY <1>1, QueueStep, ListIInvAlways, PTL DEF ListSpec, ImplementsTimerQueue, Queue!TQSpec

-----------------------------------------------------------------------------
(* InactiveServer                                                          *)

-----------------------------------------------------------------------------
(* The inductive invariant.                                                 *)

\* Open connections and armed timers correspond, and the timer of a connection is
\* due three slots after data was last received.
TimerPerClient ==
    /\ heard \in [Fds -> Nat]
    /\ \A t \in DOMAIN due : user_data[t] \in Fds /\ isOpen(user_data[t]) /\ client_timer[user_data[t]] = t
    /\ \A fd \in Fds : isOpen(fd) =>
         /\ client_timer[fd] \in DOMAIN due /\ user_data[client_timer[fd]] = fd
         /\ due[client_timer[fd]] = heard[fd] + 3 * TIMESLOT

\* Events are in hand only while the loop handles them, events that wait are for open
\* connections, and a tick runs exactly while the loop is in timer_handler().
Turns ==
    /\ main # "turn" => batch = {}
    /\ \A fd \in Fds : fd \in ready \cup batch => isOpen(fd)
    /\ tick = IF main = "tick" THEN now ELSE Never

\* An alarm that is set is due within a slot and before any timer is a slot late; one
\* that is not set has put its byte into the pipe, which ends the wait.
Clock ==
    /\ alarm # Never => /\ now <= alarm /\ alarm <= now + TIMESLOT
                        /\ \A t \in DOMAIN due : alarm < due[t] + TIMESLOT
    /\ alarm = Never /\ main = "wait" => "pipe" \in ready
    /\ \A t \in DOMAIN due : now < due[t] + TIMESLOT

\* every edge of the listening socket stands for a connection
Waiting ==
    /\ clients \in 0..MaxClients /\ backlog <= clients
    /\ "listen" \in ready \cup batch => backlog >= 1
    /\ "listen" \in ready \cap batch => backlog >= 2

IInv == TypeOK /\ TimerPerClient /\ Turns /\ Clock /\ Waiting

-----------------------------------------------------------------------------
(* What a step leaves alone *)

\* The timers do not depend on what the loop and the network do.
LEMMA TimersKept ==
  ASSUME TimerPerClient, UNCHANGED <<client_timer, user_data, heard, due>>,
         \A fd \in Fds : isOpen(fd)' <=> isOpen(fd)
  PROVE  TimerPerClient'
<1>1. \A t \in DOMAIN due : user_data[t] \in Fds /\ isOpen(user_data[t]) /\ client_timer[user_data[t]] = t
  BY DEF TimerPerClient
<1>2. \A t \in DOMAIN due : isOpen(user_data[t])'
  BY <1>1 DEF isOpen
<1>3. \A fd \in Fds : isOpen(fd)' =>
        /\ client_timer[fd] \in DOMAIN due /\ user_data[client_timer[fd]] = fd
        /\ due[client_timer[fd]] = heard[fd] + 3 * TIMESLOT
  BY DEF TimerPerClient
<1>. QED BY <1>1, <1>2, <1>3 DEF TimerPerClient

\* An alarm stays as it is while the time and the timers do, unless the loop begins
\* to wait.
LEMMA ClockKept ==
  ASSUME Clock, UNCHANGED <<now, alarm, due>>, main' = "wait" => main = "wait",
         "pipe" \in ready => main' # "wait" \/ "pipe" \in ready'
  PROVE  Clock'
  BY DEF Clock

\* Numbers of the current instant.
LEMMA TimesInRange ==
  ASSUME TypeOK
  PROVE  /\ now \in Nat /\ TIMESLOT \in Nat \ {0} /\ now <= LastInstant /\ LastInstant \in Nat
         /\ expiry \in Instants /\ nextAlarm \in Instants /\ expiry = now + 3 * TIMESLOT
         /\ expiry \in Nat /\ nextAlarm \in Nat /\ Never \notin Instants
         /\ \A t \in DOMAIN due : due[t] \in Nat
         /\ alarm = Never \/ alarm \in Nat
  BY InactiveAssumption DEF TypeOK, expiry, nextAlarm

\* Removing the timer of a connection that is closed.
LEMMA TimerRemoved ==
  ASSUME IInv, NEW t \in DOMAIN due, due' = Without(t),
         cb_func(user_data[t]), free(t), UNCHANGED client_timer
  PROVE  /\ TimerPerClient' /\ DOMAIN due' = DOMAIN due \ {t}
         /\ (\A u \in DOMAIN due' : due'[u] = due[u])
         /\ due' \in [DOMAIN due' -> Instants]
         /\ sock' \in [Fds -> {"closed", "open", "gone"}] /\ unread' \in [Fds -> 0..2]
         /\ user_data' \in [Handles -> Fds \cup {None}]
         /\ (\A fd \in Fds : isOpen(fd)' <=> isOpen(fd) /\ fd # user_data[t])
         /\ ready' = ready \ {user_data[t]}
<1> DEFINE c == user_data[t]
<1>1. TypeOK /\ TimerPerClient
  BY DEF IInv
<1>2. c \in Fds /\ isOpen(c) /\ client_timer[c] = t /\ t \in Handles
  BY <1>1 DEF TimerPerClient, TypeOK
<1> HIDE DEF c
<1>3. /\ heard' = [heard EXCEPT ![c] = 0] /\ sock' = [sock EXCEPT ![c] = "closed"]
      /\ unread' = [unread EXCEPT ![c] = 0] /\ ready' = ready \ {c}
      /\ user_data' = [user_data EXCEPT ![t] = None]
  BY DEF cb_func, free, c
<1>4. /\ sock' \in [Fds -> {"closed", "open", "gone"}] /\ unread' \in [Fds -> 0..2]
      /\ user_data' \in [Handles -> Fds \cup {None}] /\ heard' \in [Fds -> Nat]
  BY <1>1, <1>2, <1>3 DEF TypeOK, TimerPerClient
<1>5. DOMAIN due' = DOMAIN due \ {t} /\ \A u \in DOMAIN due' : due'[u] = due[u]
  BY DEF Without
<1>6. \A fd \in Fds : isOpen(fd)' <=> isOpen(fd) /\ fd # c
  BY <1>1, <1>2, <1>3 DEF isOpen, TypeOK
<1>7. due' \in [DOMAIN due' -> Instants]
  BY <1>1 DEF Without, TypeOK
<1>8. TimerPerClient'
  <2>1. ASSUME NEW u \in DOMAIN due'
        PROVE  user_data'[u] \in Fds /\ user_data'[u] # c /\ isOpen(user_data[u]) /\ client_timer[user_data'[u]] = u
               /\ user_data'[u] = user_data[u]
    <3>1. u \in DOMAIN due /\ u # t /\ u \in Handles
      BY <1>1, <1>5 DEF TypeOK
    <3>2. user_data'[u] = user_data[u]
      BY <1>1, <1>3, <3>1 DEF TypeOK
    <3>. QED BY <1>1, <1>2, <3>1, <3>2 DEF TimerPerClient
  <2>2. \A u \in DOMAIN due' : sock'[user_data'[u]] # "closed"
    BY <1>6, <2>1 DEF isOpen
  <2>3. ASSUME NEW fd \in Fds, isOpen(fd)'
        PROVE  /\ client_timer[fd] \in DOMAIN due' /\ user_data'[client_timer[fd]] = fd
               /\ due'[client_timer[fd]] = heard'[fd] + 3 * TIMESLOT
    <3>1. isOpen(fd) /\ fd # c
      BY <1>6, <2>3
    <3>2. /\ client_timer[fd] \in DOMAIN due /\ user_data[client_timer[fd]] = fd
          /\ due[client_timer[fd]] = heard[fd] + 3 * TIMESLOT
      BY <1>1, <3>1 DEF TimerPerClient
    <3>3. client_timer[fd] # t
      BY <3>1, <3>2 DEF c
    <3>4. client_timer[fd] \in DOMAIN due' /\ heard'[fd] = heard[fd]
      BY <1>1, <1>3, <1>5, <3>1, <3>2, <3>3 DEF TimerPerClient
    <3>. QED BY <1>5, <2>1, <3>2, <3>4
  <2>. QED BY <1>4, <2>1, <2>2, <2>3 DEF TimerPerClient, isOpen
<1>. QED BY <1>3, <1>4, <1>5, <1>6, <1>7, <1>8 DEF c

-----------------------------------------------------------------------------
(* The steps *)

\* Every step of the loop, of the clients, of the signals and of time keeps the
\* inductive invariant.
LEMMA IInvStep ==
  ASSUME IInv, [Next]_vars
  PROVE  IInv'
<1> USE InactiveAssumption
<1>1. TypeOK /\ TimerPerClient /\ Turns /\ Clock /\ Waiting
  BY DEF IInv
<1>2. /\ now \in Nat /\ TIMESLOT \in Nat \ {0} /\ now <= LastInstant /\ LastInstant \in Nat
      /\ expiry \in Instants /\ nextAlarm \in Instants /\ expiry = now + 3 * TIMESLOT
      /\ expiry \in Nat /\ nextAlarm \in Nat /\ Never \notin Instants
      /\ \A t \in DOMAIN due : due[t] \in Nat
      /\ alarm = Never \/ alarm \in Nat
  BY <1>1, TimesInRange
<1>3. "pipe" \notin Fds /\ "listen" \notin Fds /\ None \notin Fds
  OBVIOUS
<1>4. CASE Connect
  <2>1. /\ clients < MaxClients /\ clients' = clients + 1 /\ backlog' = backlog + 1
        /\ ready' = ready \cup {"listen"} /\ UNCHANGED <<clock, sock, unread, loop, users, tqvars>>
    BY <1>4 DEF Connect
  <2>2. clients \in Nat /\ backlog \in Nat /\ backlog <= clients
    BY <1>1 DEF TypeOK, Waiting
  <2>3. TypeOK'
    <3>1. backlog' \in 0..MaxClients
      BY <1>1, <2>1, <2>2 DEF Waiting
    <3>. QED BY <1>1, <2>1, <3>1 DEF TypeOK, clock, loop, users, tqvars
  <2>4. TimerPerClient'
    BY <1>1, <2>1, TimersKept DEF users, tqvars, isOpen
  <2>5. Turns'
    BY <1>1, <1>3, <2>1 DEF Turns, clock, loop, tqvars, isOpen
  <2>6. Clock'
    BY <1>1, <2>1, ClockKept DEF clock, loop, tqvars
  <2>7. Waiting'
    <3>1. batch' = batch
      BY <2>1 DEF loop
    <3>. QED BY <1>1, <2>1, <2>2, <3>1 DEF Waiting
  <2>. QED BY <2>3, <2>4, <2>5, <2>6, <2>7 DEF IInv
<1>5. ASSUME NEW fd \in Fds, Send(fd) PROVE IInv'
  <2>1. /\ sock[fd] = "open" /\ unread[fd] < 2 /\ unread' = [unread EXCEPT ![fd] = @ + 1]
        /\ ready' = ready \cup {fd} /\ UNCHANGED <<clock, clients, backlog, sock, loop, users, tqvars>>
    BY <1>5 DEF Send
  <2>2. TypeOK'
    BY <1>1, <2>1 DEF TypeOK, clock, loop, users, tqvars
  <2>3. TimerPerClient'
    BY <1>1, <2>1, TimersKept DEF users, tqvars, isOpen
  <2>4. Turns'
    BY <1>1, <2>1 DEF Turns, clock, loop, tqvars, isOpen
  <2>5. Clock'
    BY <1>1, <2>1, ClockKept DEF clock, loop, tqvars
  <2>6. Waiting'
    BY <1>1, <1>3, <2>1 DEF Waiting, loop
  <2>. QED BY <2>2, <2>3, <2>4, <2>5, <2>6 DEF IInv
<1>6. ASSUME NEW fd \in Fds, Leave(fd) PROVE IInv'
  <2>1. /\ sock[fd] = "open" /\ sock' = [sock EXCEPT ![fd] = "gone"]
        /\ ready' = ready \cup {fd} /\ UNCHANGED <<clock, clients, backlog, unread, loop, users, tqvars>>
    BY <1>6 DEF Leave
  <2>2. TypeOK'
    BY <1>1, <2>1 DEF TypeOK, clock, loop, users, tqvars
  <2>3. \A f \in Fds : isOpen(f)' <=> isOpen(f)
    BY <1>1, <2>1 DEF isOpen, TypeOK
  <2>4. TimerPerClient'
    BY <1>1, <2>1, <2>3, TimersKept DEF users, tqvars
  <2>5. isOpen(fd)
    BY <2>1 DEF isOpen
  <2>6. Turns'
    <3>1. UNCHANGED <<main, batch, tick, now>>
      BY <2>1 DEF clock, loop, tqvars
    <3>2. \A f \in Fds : f \in ready' \cup batch => isOpen(f)'
      BY <1>1, <2>1, <2>3, <2>5 DEF Turns
    <3>. QED BY <1>1, <3>1, <3>2 DEF Turns
  <2>7. Clock'
    BY <1>1, <2>1, ClockKept DEF clock, loop, tqvars
  <2>8. Waiting'
    BY <1>1, <1>3, <2>1 DEF Waiting, loop
  <2>. QED BY <2>2, <2>4, <2>6, <2>7, <2>8 DEF IInv
\* a signal: the alarm is the one before or has just gone off
<1>7. ASSUME NEW sig \in {"ALRM", "TERM"}, main # "exit", sig_handler(sig),
             alarm' = alarm \/ (alarm' = Never /\ alarm = now)
      PROVE  IInv'
  <2>1. /\ signals' = signals \cup {sig} /\ ready' = ready \cup {"pipe"}
        /\ UNCHANGED <<now, net, batch, stop_server, users>>
        /\ \/ main = "wait" /\ main' = "tick" /\ tick' = now /\ due' = due
           \/ UNCHANGED <<main, tqvars>>
    BY <1>7 DEF sig_handler, TickBegins
  <2>2. due' = due
    BY <2>1 DEF tqvars
  <2>3. main' \in {"wait", "turn", "tick", "exit"}
    BY <1>1, <2>1 DEF TypeOK
  <2>4. TypeOK'
    <3>1. signals' \subseteq {"ALRM", "TERM"} /\ ready' \subseteq Fds \cup {"listen", "pipe"}
      BY <1>1, <2>1 DEF TypeOK
    <3>2. alarm' \in Instants \cup {Never}
      BY <1>1, <1>7 DEF TypeOK
    <3>. QED BY <1>1, <2>1, <2>2, <2>3, <3>1, <3>2 DEF TypeOK, net, users
  <2>5. TimerPerClient'
    BY <1>1, <2>1, <2>2, TimersKept DEF net, users, isOpen
  <2>6. Turns'
    <3>1. UNCHANGED <<now, batch, sock>> /\ tick' = IF main' = "tick" THEN now ELSE Never
      BY <1>1, <2>1 DEF Turns, net, tqvars
    <3>2. \A f \in Fds : f \in ready' \cup batch => isOpen(f)'
      BY <1>1, <1>3, <2>1, <3>1 DEF Turns, isOpen
    <3>3. main' # "turn" => batch' = {}
      BY <1>1, <2>1 DEF Turns
    <3>. QED BY <3>1, <3>2, <3>3 DEF Turns
  <2>7. Clock'
    BY <1>1, <1>2, <1>7, <2>1, <2>2 DEF Clock
  <2>8. Waiting'
    BY <1>1, <2>1 DEF Waiting, net
  <2>. QED BY <2>4, <2>5, <2>6, <2>7, <2>8 DEF IInv
<1>8. CASE Sigalrm
  BY <1>7, <1>8 DEF Sigalrm
<1>9. CASE Sigterm
  BY <1>7, <1>9 DEF Sigterm
<1>10. CASE TimePasses
  <2>1. /\ main = "wait" /\ ready = {} /\ alarm # now /\ now < LastInstant /\ now' = now + 1
        /\ UNCHANGED <<alarm, signals, net, ready, loop, users, tqvars>>
    BY <1>10 DEF TimePasses
  <2>2. alarm \in Nat /\ alarm # Never /\ now + 1 <= alarm
    BY <1>1, <1>2, <2>1 DEF Clock
  <2>3. UNCHANGED <<due, tick, main, sock, ready, batch>>
    BY <2>1 DEF net, loop, tqvars
  <2>4. TypeOK'
    <3>1. now' \in 0..LastInstant
      BY <1>2, <2>1
    <3>. QED BY <1>1, <2>1, <2>3, <3>1 DEF TypeOK, net, loop, users
  <2>5. TimerPerClient'
    BY <1>1, <2>1, <2>3, TimersKept DEF users, isOpen
  <2>6. Turns'
    BY <1>1, <2>1, <2>3 DEF Turns, isOpen
  <2>7. Clock'
    <3>1. \A t \in DOMAIN due : now + 1 < due[t] + TIMESLOT
      <4> SUFFICES ASSUME NEW t \in DOMAIN due PROVE now + 1 < due[t] + TIMESLOT
        OBVIOUS
      <4>1. alarm < due[t] + TIMESLOT
        BY <1>1, <2>2 DEF Clock
      <4>. QED BY <1>2, <2>2, <4>1
    <3>2. alarm <= (now + 1) + TIMESLOT
      BY <1>1, <1>2, <2>2 DEF Clock
    <3>. QED BY <1>1, <2>1, <2>2, <2>3, <3>1, <3>2 DEF Clock
  <2>8. Waiting'
    BY <1>1, <2>1, <2>3 DEF Waiting, net
  <2>. QED BY <2>4, <2>5, <2>6, <2>7, <2>8 DEF IInv
<1>11. CASE EpollWait
  <2>1. /\ main = "wait" /\ batch' = ready /\ ready' = {} /\ main' = "turn"
        /\ UNCHANGED <<clock, net, stop_server, users, tqvars>>
    BY <1>11 DEF EpollWait
  <2>2. batch = {}
    BY <1>1, <2>1 DEF Turns
  <2>3. TypeOK'
    BY <1>1, <2>1 DEF TypeOK, clock, net, users, tqvars
  <2>4. TimerPerClient'
    BY <1>1, <2>1, TimersKept DEF net, users, tqvars, isOpen
  <2>5. Turns'
    BY <1>1, <2>1 DEF Turns, clock, net, tqvars, isOpen
  <2>6. Clock'
    BY <1>1, <2>1, ClockKept DEF clock, tqvars
  <2>7. Waiting'
    BY <1>1, <2>1, <2>2 DEF Waiting, net
  <2>. QED BY <2>3, <2>4, <2>5, <2>6, <2>7 DEF IInv
<1>12. CASE Accept
  <2>1. /\ main = "turn" /\ "listen" \in batch /\ batch' = batch \ {"listen"} /\ backlog' = backlog - 1
        /\ UNCHANGED <<clock, clients, ready, main, stop_server>>
    BY <1>12 DEF Accept
  <2>2. PICK fd \in Fds, t \in Handles :
          /\ ~isOpen(fd) /\ t \notin DOMAIN due
          /\ sock' = [sock EXCEPT ![fd] = "open"] /\ unread' = [unread EXCEPT ![fd] = 0]
          /\ client_timer' = [client_timer EXCEPT ![fd] = t] /\ user_data' = [user_data EXCEPT ![t] = fd]
          /\ heard' = [heard EXCEPT ![fd] = now] /\ Arm(t, expiry)
    BY <1>12 DEF Accept
  <2>3. /\ due' = [u \in DOMAIN due \cup {t} |-> IF u = t THEN expiry ELSE due[u]] /\ tick' = tick
    BY <2>2 DEF Arm
  <2>4. DOMAIN due' = DOMAIN due \cup {t} /\ due'[t] = expiry /\ \A u \in DOMAIN due : due'[u] = due[u]
    BY <2>2, <2>3
  <2>5. due' \in [DOMAIN due' -> Instants]
    BY <1>1, <1>2, <2>3 DEF TypeOK
  <2>6. \A f \in Fds : isOpen(f)' <=> isOpen(f) \/ f = fd
    BY <1>1, <2>2 DEF isOpen, TypeOK
  <2>7. UNCHANGED <<now, alarm, signals>>
    BY <2>1 DEF clock
  <2>8. TypeOK'
    <3>1. backlog' \in 0..MaxClients
      BY <1>1, <2>1 DEF TypeOK, Waiting
    <3>2. /\ sock' \in [Fds -> {"closed", "open", "gone"}] /\ unread' \in [Fds -> 0..2]
          /\ client_timer' \in [Fds -> Handles \cup {None}] /\ user_data' \in [Handles -> Fds \cup {None}]
      BY <1>1, <2>2 DEF TypeOK
    <3>3. DOMAIN due' \subseteq Handles
      BY <1>1, <2>2, <2>4 DEF TypeOK
    <3>. QED BY <1>1, <2>1, <2>5, <2>7, <3>1, <3>2, <3>3 DEF TypeOK
  <2>9. TimerPerClient'
    <3>1. heard' \in [Fds -> Nat]
      BY <1>1, <1>2, <2>2 DEF TimerPerClient
    <3>2. ASSUME NEW u \in DOMAIN due'
          PROVE  user_data'[u] \in Fds /\ sock'[user_data'[u]] # "closed" /\ client_timer'[user_data'[u]] = u
      <4>1. CASE u = t
        BY <1>1, <2>2, <4>1 DEF TypeOK
      <4>2. CASE u # t
        <5>1. u \in DOMAIN due /\ u \in Handles
          BY <1>1, <2>4, <4>2 DEF TypeOK
        <5>2. user_data[u] \in Fds /\ isOpen(user_data[u]) /\ client_timer[user_data[u]] = u
          BY <1>1, <5>1 DEF TimerPerClient
        <5>3. user_data'[u] = user_data[u] /\ user_data[u] # fd
          BY <1>1, <2>2, <4>2, <5>1, <5>2 DEF TypeOK
        <5>. QED BY <1>1, <2>2, <5>2, <5>3 DEF TypeOK, isOpen
      <4>. QED BY <4>1, <4>2
    <3>3. ASSUME NEW f \in Fds, isOpen(f)'
          PROVE  /\ client_timer'[f] \in DOMAIN due' /\ user_data'[client_timer'[f]] = f
                 /\ due'[client_timer'[f]] = heard'[f] + 3 * TIMESLOT
      <4>1. CASE f = fd
        <5>1. client_timer'[f] = t /\ user_data'[t] = f /\ heard'[f] = now
          BY <1>1, <2>2, <4>1 DEF TypeOK, TimerPerClient
        <5>. QED BY <1>2, <2>4, <5>1
      <4>2. CASE f # fd
        <5>1. isOpen(f)
          BY <2>6, <3>3, <4>2
        <5>2. /\ client_timer[f] \in DOMAIN due /\ user_data[client_timer[f]] = f
              /\ due[client_timer[f]] = heard[f] + 3 * TIMESLOT
          BY <1>1, <5>1 DEF TimerPerClient
        <5>3. client_timer'[f] = client_timer[f] /\ heard'[f] = heard[f] /\ client_timer[f] # t /\ client_timer[f] \in Handles
          BY <1>1, <2>2, <4>2, <5>2 DEF TypeOK, TimerPerClient
        <5>4. user_data'[client_timer[f]] = f
          BY <1>1, <2>2, <5>2, <5>3 DEF TypeOK
        <5>. QED BY <2>4, <5>2, <5>3, <5>4
      <4>. QED BY <4>1, <4>2
    <3>. QED BY <3>1, <3>2, <3>3 DEF TimerPerClient, isOpen
  <2>10. Turns'
    <3>1. \A f \in Fds : f \in ready' \cup batch' => isOpen(f)'
      BY <1>1, <2>1, <2>6 DEF Turns
    <3>. QED BY <1>1, <2>1, <2>3, <2>7, <3>1 DEF Turns
  <2>11. Clock'
    <3>1. \A u \in DOMAIN due' : now < due'[u] + TIMESLOT
      BY <1>1, <1>2, <2>4 DEF Clock
    <3>2. alarm # Never => \A u \in DOMAIN due' : alarm < due'[u] + TIMESLOT
      <4> SUFFICES ASSUME alarm # Never, NEW u \in DOMAIN due' PROVE alarm < due'[u] + TIMESLOT
        OBVIOUS
      <4>1. CASE u = t
        BY <1>1, <1>2, <2>4, <4>1 DEF Clock
      <4>2. CASE u # t
        BY <1>1, <2>4, <4>2 DEF Clock
      <4>. QED BY <4>1, <4>2
    <3>. QED BY <1>1, <2>1, <2>7, <3>1, <3>2 DEF Clock
  <2>12. Waiting'
    <3>1. backlog \in Nat /\ backlog >= 1 /\ ("listen" \in ready => backlog >= 2)
      BY <1>1, <2>1 DEF Waiting, TypeOK
    <3>2. "listen" \notin batch' /\ clients' = clients /\ ready' = ready
      BY <2>1
    <3>. QED BY <1>1, <2>1, <3>1, <3>2 DEF Waiting
  <2>. QED BY <2>8, <2>9, <2>10, <2>11, <2>12 DEF IInv
<1>13. CASE ReadSignals
  <2>1. /\ main = "turn" /\ batch' = batch \ {"pipe"} /\ signals' = {}
        /\ UNCHANGED <<now, alarm, net, ready, main, users, tqvars>>
    BY <1>13 DEF ReadSignals
  <2>2. stop_server' \in BOOLEAN
    BY <1>13 DEF ReadSignals
  <2>3. TypeOK'
    BY <1>1, <2>1, <2>2 DEF TypeOK, net, users, tqvars
  <2>4. TimerPerClient'
    BY <1>1, <2>1, TimersKept DEF net, users, tqvars, isOpen
  <2>5. Turns'
    BY <1>1, <2>1 DEF Turns, net, tqvars, isOpen
  <2>6. Clock'
    BY <1>1, <2>1, ClockKept DEF tqvars
  <2>7. Waiting'
    BY <1>1, <2>1 DEF Waiting, net
  <2>. QED BY <2>3, <2>4, <2>5, <2>6, <2>7 DEF IInv
<1>14. ASSUME NEW fd \in Fds, Recv(fd) PROVE IInv'
  <2>1. /\ main = "turn" /\ fd \in batch /\ batch' = batch \ {fd}
        /\ UNCHANGED <<clock, clients, backlog, main, stop_server, client_timer>>
    BY <1>14 DEF Recv
  <2>2. isOpen(fd)
    BY <1>1, <2>1 DEF Turns
  <2>3. /\ client_timer[fd] \in DOMAIN due /\ user_data[client_timer[fd]] = fd
        /\ due[client_timer[fd]] = heard[fd] + 3 * TIMESLOT /\ client_timer[fd] \in Handles
    BY <1>1, <2>2 DEF TimerPerClient, TypeOK
  <2>4. UNCHANGED <<now, alarm, signals>>
    BY <2>1 DEF clock
  <2>5. batch' \subseteq Fds \cup {"listen", "pipe"}
    BY <1>1, <2>1 DEF TypeOK
  \* data
  <2>6. CASE \E k \in 1..unread[fd] :
               /\ unread' = [unread EXCEPT ![fd] = @ - k] /\ heard' = [heard EXCEPT ![fd] = now]
               /\ adjust(fd) /\ UNCHANGED <<sock, ready, user_data>>
    <3> DEFINE t == client_timer[fd]
    <3>1. PICK k \in 1..unread[fd] : unread' = [unread EXCEPT ![fd] = @ - k]
      BY <2>6
    <3>2. /\ heard' = [heard EXCEPT ![fd] = now] /\ UNCHANGED <<sock, ready, user_data, tick>>
          /\ due' = [u \in DOMAIN due \cup {t} |-> IF u = t THEN expiry ELSE due[u]]
      BY <2>6 DEF adjust, Arm
    <3>3. DOMAIN due' = DOMAIN due /\ due'[t] = expiry /\ \A u \in DOMAIN due \ {t} : due'[u] = due[u]
      BY <2>3, <3>2
    <3> HIDE DEF t
    <3>4. due' \in [DOMAIN due' -> Instants]
      BY <1>1, <1>2, <3>2 DEF TypeOK
    <3>5. unread' \in [Fds -> 0..2]
      BY <1>1, <3>1 DEF TypeOK
    <3>6. TypeOK'
      BY <1>1, <2>1, <2>4, <2>5, <3>2, <3>3, <3>4, <3>5 DEF TypeOK
    <3>7. TimerPerClient'
      <4>1. heard' \in [Fds -> Nat]
        BY <1>1, <1>2, <3>2 DEF TimerPerClient
      <4>2. ASSUME NEW f \in Fds, isOpen(f)
            PROVE  /\ client_timer[f] \in DOMAIN due' /\ user_data[client_timer[f]] = f
                   /\ due'[client_timer[f]] = heard'[f] + 3 * TIMESLOT
        <5>1. /\ client_timer[f] \in DOMAIN due /\ user_data[client_timer[f]] = f
              /\ due[client_timer[f]] = heard[f] + 3 * TIMESLOT
          BY <1>1, <4>2 DEF TimerPerClient
        <5>2. CASE f = fd
          <6>1. heard'[f] = now
            BY <1>1, <3>2, <5>2 DEF TimerPerClient
          <6>. QED BY <1>2, <3>3, <5>1, <5>2, <6>1 DEF t
        <5>3. CASE f # fd
          <6>1. client_timer[f] # t /\ heard'[f] = heard[f]
            BY <1>1, <2>3, <3>2, <5>1, <5>3 DEF t, TimerPerClient
          <6>. QED BY <3>3, <5>1, <6>1
        <5>. QED BY <5>2, <5>3
      <4>. QED BY <1>1, <2>1, <3>2, <3>3, <4>1, <4>2 DEF TimerPerClient, isOpen
    <3>8. Turns'
      BY <1>1, <2>1, <2>4, <3>2 DEF Turns, isOpen
    <3>9. Clock'
      <4>1. \A u \in DOMAIN due' : now < due'[u] + TIMESLOT
        BY <1>1, <1>2, <3>3 DEF Clock
      <4>2. alarm # Never => \A u \in DOMAIN due' : alarm < due'[u] + TIMESLOT
        <5> SUFFICES ASSUME alarm # Never, NEW u \in DOMAIN due' PROVE alarm < due'[u] + TIMESLOT
          OBVIOUS
        <5>1. CASE u = t
          BY <1>1, <1>2, <3>3, <5>1 DEF Clock
        <5>2. CASE u # t
          BY <1>1, <3>3, <5>2 DEF Clock
        <5>. QED BY <5>1, <5>2
      <4>. QED BY <1>1, <2>1, <2>4, <4>1, <4>2 DEF Clock
    <3>10. Waiting'
      BY <1>1, <1>3, <2>1, <3>2 DEF Waiting
    <3>. QED BY <3>6, <3>7, <3>8, <3>9, <3>10 DEF IInv
  \* the client has closed
  <2>7. CASE unread[fd] = 0 /\ sock[fd] = "gone" /\ cb_func(fd) /\ del_timer(fd)
    <3> DEFINE t == client_timer[fd]
    <3>1. due' = Without(t) /\ tick' = tick /\ free(t) /\ t \in DOMAIN due /\ user_data[t] = fd
      BY <2>3, <2>7 DEF del_timer, Disarm
    <3> HIDE DEF t
    <3>2. /\ TimerPerClient' /\ DOMAIN due' = DOMAIN due \ {t}
          /\ (\A u \in DOMAIN due' : due'[u] = due[u])
          /\ due' \in [DOMAIN due' -> Instants]
          /\ sock' \in [Fds -> {"closed", "open", "gone"}] /\ unread' \in [Fds -> 0..2]
          /\ user_data' \in [Handles -> Fds \cup {None}]
          /\ (\A f \in Fds : isOpen(f)' <=> isOpen(f) /\ f # fd)
          /\ ready' = ready \ {fd}
      BY <2>1, <2>7, <3>1, TimerRemoved
    <3>3. TypeOK'
      BY <1>1, <2>1, <2>4, <2>5, <3>2 DEF TypeOK
    <3>4. Turns'
      <4>1. \A f \in Fds : f \in ready' \cup batch' => isOpen(f)'
        BY <1>1, <2>1, <3>2 DEF Turns
      <4>. QED BY <1>1, <2>1, <2>4, <3>1, <4>1 DEF Turns
    <3>5. Clock'
      BY <1>1, <2>1, <2>4, <3>2 DEF Clock
    <3>6. Waiting'
      BY <1>1, <1>3, <2>1, <3>2 DEF Waiting
    <3>. QED BY <3>2, <3>3, <3>4, <3>5, <3>6 DEF IInv
  \* EAGAIN
  <2>8. CASE UNCHANGED <<sock, unread, ready, heard, user_data, tqvars>>
    <3>1. TypeOK'
      BY <1>1, <2>1, <2>4, <2>5, <2>8 DEF TypeOK, tqvars
    <3>2. TimerPerClient'
      BY <1>1, <2>1, <2>8, TimersKept DEF tqvars, isOpen
    <3>3. Turns'
      BY <1>1, <2>1, <2>4, <2>8 DEF Turns, tqvars, isOpen
    <3>4. Clock'
      BY <1>1, <2>1, <2>4, <2>8, ClockKept DEF tqvars
    <3>5. Waiting'
      BY <1>1, <1>3, <2>1, <2>8 DEF Waiting
    <3>. QED BY <3>1, <3>2, <3>3, <3>4, <3>5 DEF IInv
  <2>. QED BY <1>14, <2>6, <2>7, <2>8 DEF Recv
<1>15. CASE TurnEnds
  <2>1. /\ main = "turn" /\ batch = {} /\ main' = "tick" /\ tick' = now /\ due' = due
        /\ UNCHANGED <<clock, net, ready, batch, stop_server, users>>
    BY <1>15 DEF TurnEnds, TickBegins, turnEnds
  <2>2. TypeOK'
    BY <1>1, <2>1 DEF TypeOK, clock, net, users
  <2>3. TimerPerClient'
    BY <1>1, <2>1, TimersKept DEF net, users, isOpen
  <2>4. Turns'
    BY <1>1, <2>1 DEF Turns, clock, net, isOpen
  <2>5. Clock'
    BY <1>1, <2>1, ClockKept DEF clock
  <2>6. Waiting'
    BY <1>1, <2>1 DEF Waiting, net
  <2>. QED BY <2>2, <2>3, <2>4, <2>5, <2>6 DEF IInv
<1>16. ASSUME NEW t \in Handles, TickFires(t) PROVE IInv'
  <2>1. /\ main = "tick" /\ t \in DOMAIN due /\ due' = Without(t) /\ tick' = tick
        /\ cb_func(user_data[t]) /\ free(t)
        /\ UNCHANGED <<clock, clients, backlog, loop, client_timer>>
    BY <1>16 DEF TickFires, Fire
  <2>2. /\ TimerPerClient' /\ DOMAIN due' = DOMAIN due \ {t}
        /\ (\A u \in DOMAIN due' : due'[u] = due[u])
        /\ due' \in [DOMAIN due' -> Instants]
        /\ sock' \in [Fds -> {"closed", "open", "gone"}] /\ unread' \in [Fds -> 0..2]
        /\ user_data' \in [Handles -> Fds \cup {None}]
        /\ (\A f \in Fds : isOpen(f)' <=> isOpen(f) /\ f # user_data[t])
        /\ ready' = ready \ {user_data[t]}
    BY <2>1, TimerRemoved
  <2>3. UNCHANGED <<now, alarm, signals, main, batch, stop_server>> /\ batch = {}
    BY <1>1, <2>1 DEF clock, loop, Turns
  <2>4. TypeOK'
    BY <1>1, <2>1, <2>2, <2>3 DEF TypeOK
  <2>5. Turns'
    <3>1. \A f \in Fds : f \in ready' \cup batch' => isOpen(f)'
      BY <1>1, <2>2, <2>3 DEF Turns
    <3>. QED BY <1>1, <2>1, <2>3, <3>1 DEF Turns
  <2>6. Clock'
    BY <1>1, <2>1, <2>2, <2>3 DEF Clock
  <2>7. Waiting'
    BY <1>1, <2>1, <2>2, <2>3 DEF Waiting
  <2>. QED BY <2>2, <2>4, <2>5, <2>6, <2>7 DEF IInv
<1>17. CASE TickDone
  <2>1. /\ main = "tick" /\ (\A t \in DOMAIN due : tick < due[t]) /\ tick' = Never /\ due' = due
        /\ alarm' = nextAlarm /\ main' \in {"exit", "wait"}
        /\ UNCHANGED <<now, signals, net, ready, batch, stop_server, users>>
    BY <1>17 DEF TickDone, TickEnds
  <2>2. TypeOK'
    BY <1>1, <1>2, <2>1 DEF TypeOK, net, users
  <2>3. TimerPerClient'
    BY <1>1, <2>1, TimersKept DEF net, users, isOpen
  <2>4. Turns'
    BY <1>1, <2>1 DEF Turns, net, isOpen
  <2>5. Clock'
    <3>1. nextAlarm = now + TIMESLOT /\ nextAlarm # Never
      BY <1>2 DEF nextAlarm
    <3>2. \A t \in DOMAIN due : now < due[t]
      BY <1>1, <2>1 DEF Turns
    <3>3. \A t \in DOMAIN due : nextAlarm < due[t] + TIMESLOT
      BY <1>2, <3>1, <3>2
    <3>. QED BY <1>1, <1>2, <2>1, <3>1, <3>3 DEF Clock
  <2>6. Waiting'
    BY <1>1, <2>1 DEF Waiting, net
  <2>. QED BY <2>2, <2>3, <2>4, <2>5, <2>6 DEF IInv
<1>18. CASE UNCHANGED vars
  <2>1. UNCHANGED <<now, alarm, signals, clients, backlog, sock, unread, ready, batch, main,
                    stop_server, client_timer, user_data, heard, due, tick>>
    BY <1>18 DEF vars, clock, net, loop, users, tqvars
  <2>2. TypeOK' /\ Waiting'
    BY <1>1, <2>1 DEF TypeOK, Waiting
  <2>3. TimerPerClient' /\ Turns' /\ Clock'
    BY <1>1, <2>1, TimersKept, ClockKept DEF Turns, isOpen
  <2>. QED BY <2>2, <2>3 DEF IInv
<1>. QED BY <1>4, <1>5, <1>6, <1>8, <1>9, <1>10, <1>11, <1>12, <1>13, <1>14, <1>15, <1>16, <1>17,
            <1>18 DEF Next

-----------------------------------------------------------------------------
(* The theorems *)

\* The inductive invariant holds in every state of the server.
LEMMA IInvCorrect == Spec => []IInv
<1>1. Init => IInv
  <2> SUFFICES ASSUME Init PROVE IInv
    OBVIOUS
  <2> USE InactiveAssumption
  <2>1. DOMAIN due = {} /\ due \in [DOMAIN due -> Instants] /\ tick = Never
    BY DEF Init, TQInit
  <2>2. \A fd \in Fds : ~isOpen(fd)
    BY DEF Init, isOpen
  <2>3. TypeOK
    <3>1. now \in 0..LastInstant /\ alarm \in Instants \cup {Never} /\ backlog \in 0..MaxClients
      BY DEF Init
    <3>2. sock \in [Fds -> {"closed", "open", "gone"}] /\ unread \in [Fds -> 0..2]
      BY DEF Init
    <3>3. client_timer \in [Fds -> Handles \cup {None}] /\ user_data \in [Handles -> Fds \cup {None}]
      BY DEF Init
    <3>4. stop_server \in BOOLEAN
      BY DEF Init
    <3>. QED BY <2>1, <3>1, <3>2, <3>3, <3>4 DEF Init, TypeOK
  <2>4. TimerPerClient
    BY <2>1, <2>2 DEF Init, TimerPerClient
  <2>5. Turns /\ Waiting
    BY <2>1 DEF Init, Turns, Waiting
  <2>6. Clock
    BY <2>1 DEF Init, Clock
  <2>. QED BY <2>3, <2>4, <2>5, <2>6 DEF IInv
<1>2. IInv /\ [Next]_vars => IInv'
  BY IInvStep
<1>. QED BY <1>1, <1>2, PTL DEF Spec

\* Armed timers and open connections correspond, and the event in hand is for a live
\* connection: users[fd].timer, which nobody clears, is never followed when it is stale.
THEOREM TimerInvCorrect == Spec => []TimerInv
<1>1. IInv => TimerInv
  <2> SUFFICES ASSUME IInv PROVE TimerInv
    OBVIOUS
  <2>1. TimerMatches
    BY DEF IInv, TimerPerClient, TimerMatches
  <2>2. EventInHandIsLive
    BY DEF IInv, TimerPerClient, Turns, EventInHandIsLive
  <2>. QED BY <2>1, <2>2 DEF IInv, TimerInv
<1>. QED BY <1>1, IInvCorrect, PTL

\* No connection stays open for four slots without data, although every turn of the
\* loop puts the alarm off.
THEOREM SilentClosedInTimeCorrect == Spec => []SilentClosedInTime
<1>1. IInv => SilentClosedInTime
  <2> SUFFICES ASSUME IInv, NEW fd \in Fds, isOpen(fd) PROVE now - heard[fd] < 4 * TIMESLOT
    BY DEF SilentClosedInTime
  <2>1. client_timer[fd] \in DOMAIN due /\ due[client_timer[fd]] = heard[fd] + 3 * TIMESLOT /\ heard[fd] \in Nat
    BY DEF IInv, TimerPerClient
  <2>2. now < due[client_timer[fd]] + TIMESLOT
    BY <2>1 DEF IInv, Clock
  <2>3. now \in Nat /\ TIMESLOT \in Nat
    BY TimesInRange DEF IInv
  <2>. QED BY <2>1, <2>2, <2>3
<1>. QED BY <1>1, IInvCorrect, PTL

\* timer_handler() closes only connections that were silent for three slots.
THEOREM ActiveKeptCorrect == Spec => ActiveKept
<1>1. IInv /\ [Next]_vars =>
        [\A fd \in Fds : main = "tick" /\ isOpen(fd) /\ sock'[fd] = "closed"
            => now - heard[fd] >= 3 * TIMESLOT]_vars
  <2> SUFFICES ASSUME IInv, Next, NEW fd \in Fds, main = "tick", isOpen(fd), sock'[fd] = "closed"
               PROVE  now - heard[fd] >= 3 * TIMESLOT
    BY DEF vars
  <2>1. sock \in [Fds -> {"closed", "open", "gone"}] /\ sock' # sock
    BY DEF IInv, TypeOK, isOpen
  <2>2. ASSUME NEW f \in Fds, Send(f) \/ Leave(f) \/ Recv(f) PROVE FALSE
    BY <2>1, <2>2 DEF Send, Leave, Recv, isOpen
  <2>3. PICK t \in Handles : TickFires(t)
    BY <2>1, <2>2 DEF Next, Connect, Sigalrm, Sigterm, sig_handler, TimePasses, EpollWait, Accept,
                      ReadSignals, TurnEnds, TickDone, net
  <2>4. t \in DOMAIN due /\ due[t] <= tick /\ sock' = [sock EXCEPT ![user_data[t]] = "closed"]
    BY <2>3 DEF TickFires, Fire, cb_func
  <2>5. user_data[t] = fd
    BY <2>1, <2>4 DEF isOpen
  <2>6. client_timer[fd] = t /\ due[t] = heard[fd] + 3 * TIMESLOT /\ heard[fd] \in Nat
    BY <2>4, <2>5 DEF IInv, TimerPerClient
  <2>7. tick = now
    BY DEF IInv, Turns
  <2>8. now \in Nat /\ TIMESLOT \in Nat
    BY TimesInRange DEF IInv
  <2>. QED BY <2>4, <2>6, <2>7, <2>8
<1>. QED BY <1>1, IInvCorrect, PTL DEF Spec, ActiveKept
=============================================================================
