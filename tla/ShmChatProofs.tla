---------------------------- MODULE ShmChatProofs ---------------------------
(***************************************************************************)
(* Theorems about ShmChat for any number of children, places and messages. *)
(***************************************************************************)
EXTENDS ShmChat, FiniteSetTheorems, SequenceTheorems, TLAPS

-----------------------------------------------------------------------------
(* The inductive invariant.                                                 *)

\* users[] and sub_process[] are inverse to each other on the children that were not
\* waited for.
Listed(p) == sub_process[p] \in 0..(user_count - 1) /\ users[sub_process[p]] = p
Table ==
    /\ \A i \in 0..(user_count - 1) :
         users[i] \in Pids /\ started(users[i]) /\ sub_process[users[i]] = i
    /\ \A p \in Pids : started(p) => Listed(p)
    /\ Cardinality(inUse) = user_count

\* A message is in the client's socket or in the pipe to the parent, not in both.
Notices ==
    /\ msgs \in 0..MaxMsgs
    /\ \A p \in Pids : unread[p] + up[p] <= msgs
    /\ down \in [Pids -> Seq(Pids)]
    /\ cready \in [Pids -> SUBSET {"conn", "pipe"}] /\ cbatch \in [Pids -> SUBSET {"conn", "pipe"}]

IInv == TypeOK /\ Table /\ Notices /\ NotToSelf

-----------------------------------------------------------------------------
(* Lemmas about the pipe from the parent.                                   *)

\* Reading a notification leaves the others.
LEMMA TailClean ==
  ASSUME NEW S, NEW s \in Seq(S), NEW p, s # <<>>, \A i \in DOMAIN s : s[i] # p
  PROVE  Tail(s) \in Seq(S) /\ \A i \in DOMAIN Tail(s) : Tail(s)[i] # p
<1>1. Len(s) \in Nat /\ Len(s) > 0 /\ DOMAIN s = 1..Len(s)
  OBVIOUS
<1>2. Tail(s) \in Seq(S) /\ Len(Tail(s)) = Len(s) - 1
  BY <1>1
<1>3. ASSUME NEW i \in DOMAIN Tail(s) PROVE Tail(s)[i] # p
  <2>1. i \in 1..(Len(s) - 1)
    BY <1>2
  <2>2. Tail(s)[i] = s[i + 1] /\ i + 1 \in 1..Len(s)
    BY <2>1, <1>1
  <2> QED
    BY <1>1, <2>2
<1> QED
  BY <1>2, <1>3

\* A notification of another child is added.
LEMMA AppendClean ==
  ASSUME NEW S, NEW s \in Seq(S), NEW p, NEW q \in S, q # p, \A i \in DOMAIN s : s[i] # p
  PROVE  Append(s, q) \in Seq(S) /\ \A i \in DOMAIN Append(s, q) : Append(s, q)[i] # p
<1>1. Len(s) \in Nat /\ DOMAIN s = 1..Len(s)
  OBVIOUS
<1>2. Append(s, q) \in Seq(S) /\ Len(Append(s, q)) = Len(s) + 1
  OBVIOUS
<1>3. ASSUME NEW i \in DOMAIN Append(s, q) PROVE Append(s, q)[i] # p
  <2>1. i \in 1..(Len(s) + 1)
    BY <1>2
  <2>2. CASE i = Len(s) + 1
    BY <2>2
  <2>3. CASE i \in 1..Len(s)
    <3>1. Append(s, q)[i] = s[i]
      BY <2>3
    <3> QED
      BY <3>1, <2>3, <1>1
  <2> QED
    BY <2>1, <2>2, <2>3, <1>1
<1> QED
  BY <1>2, <1>3

-----------------------------------------------------------------------------
(* The table.                                                               *)

\* The inverse functions give what the runs check.
LEMMA TableIsExact == ASSUME IInv PROVE TableExact
<1>1. inUse \subseteq {p \in Pids : started(p)}
  BY DEF IInv, Table, inUse
<1>2. ASSUME NEW p \in Pids, started(p) PROVE p \in inUse /\ Listed(p)
  BY <1>2 DEF IInv, Table, Listed, inUse
<1> QED
  BY <1>1, <1>2 DEF IInv, Table, TableExact, Listed

\* A step that starts and ends nobody and leaves the arrays alone.
LEMMA TableKept ==
  ASSUME Table, UNCHANGED table, \A p \in Pids : child'[p] = "none" <=> child[p] = "none"
  PROVE  Table'
  BY DEF Table, table, Listed, started, inUse

\* fork(): the new child gets the first free place and is found there.
LEMMA ForkTable ==
  ASSUME IInv, NEW p \in Pids, Fork(p)
  PROVE  Table'
<1> USE ChatAssumption
<1>1. user_count \in Nat /\ user_count + 1 <= USER_LIMIT /\ user_count \in Slots
  BY DEF IInv, TypeOK, Fork, Slots
<1>2. users' = [users EXCEPT ![user_count] = p] /\ users \in [Slots -> Pids \cup {NULL}]
  BY DEF IInv, TypeOK, Fork
<1>3. sub_process' = [sub_process EXCEPT ![p] = user_count]
      /\ sub_process \in [Pids -> Slots \cup {-1}]
  BY DEF IInv, TypeOK, Fork
<1>4. /\ child' = [child EXCEPT ![p] = "forked"] /\ DOMAIN child = Pids
      /\ child[p] = "none" /\ user_count' = user_count + 1
  BY DEF IInv, TypeOK, Fork, started
<1>5. \A i \in 0..(user_count - 1) :
        /\ i \in Slots /\ i # user_count /\ users'[i] = users[i] /\ users[i] \in Pids
        /\ users[i] # p /\ child[users[i]] # "none" /\ sub_process[users[i]] = i
  BY <1>1, <1>2, <1>4 DEF IInv, Table, started, Slots
<1>6. users'[user_count] = p
  BY <1>1, <1>2
<1>7. \A i \in 0..user_count : i = user_count \/ i \in 0..(user_count - 1)
  BY <1>1
<1>8. \A i \in 0..(user_count - 1) :
        users'[i] \in Pids /\ child'[users'[i]] # "none" /\ sub_process'[users'[i]] = i
  BY <1>3, <1>4, <1>5
<1>9. child'[p] # "none" /\ sub_process'[p] = user_count
  BY <1>3, <1>4
<1>10. \A i \in 0..user_count :
         users'[i] \in Pids /\ child'[users'[i]] # "none" /\ sub_process'[users'[i]] = i
  BY <1>6, <1>7, <1>8, <1>9
<1>11. ASSUME NEW q \in Pids, child'[q] # "none"
       PROVE  sub_process'[q] \in 0..user_count /\ users'[sub_process'[q]] = q
  <2>1. CASE q = p
    BY <2>1, <1>1, <1>6, <1>9
  <2>2. CASE q # p
    <3>1. child[q] # "none" /\ sub_process'[q] = sub_process[q]
      BY <2>2, <1>11, <1>3, <1>4
    <3>2. sub_process[q] \in 0..(user_count - 1) /\ users[sub_process[q]] = q
      BY <3>1 DEF IInv, Table, Listed, started
    <3>3. sub_process[q] \in 0..user_count
      BY <3>2, <1>1
    <3> QED
      BY <3>1, <3>2, <3>3, <1>5
  <2> QED
    BY <2>1, <2>2
<1>12. inUse' = inUse \cup {p}
  <2>1. inUse' = {users'[i] : i \in 0..user_count}
    BY <1>1, <1>4 DEF inUse
  <2>2. 0..user_count = 0..(user_count - 1) \cup {user_count}
    BY <1>1
  <2> QED
    BY <2>1, <2>2, <1>5, <1>6 DEF inUse
<1>13. p \notin inUse /\ IsFiniteSet(inUse)
  <2>1. inUse \subseteq Pids /\ p \notin inUse
    BY <1>5 DEF inUse
  <2> QED
    BY <2>1, FS_Subset
<1>14. Cardinality(inUse') = Cardinality(inUse) + 1
  BY <1>12, <1>13, FS_AddElement
<1>15. Cardinality(inUse) = user_count
  BY DEF IInv, Table
<1>16. user_count' - 1 = user_count
  BY <1>1, <1>4
<1> QED
  BY <1>4, <1>10, <1>11, <1>14, <1>15, <1>16 DEF Table, Listed, started

\* waitpid(): the last entry moves into the place of the child that ended, and
\* sub_process[] follows, also when the two are the same.
LEMMA ReapTable ==
  ASSUME IInv, NEW p \in Pids, Reap(p)
  PROVE  Table'
<1> USE ChatAssumption
<1> DEFINE d == sub_process[p]  last == user_count - 1  l == users[last]
<1>1. child[p] = "zombie" /\ started(p)
  BY DEF Reap, started
<1>2. d \in 0..last /\ users[d] = p
  BY <1>1 DEF IInv, Table, Listed
<1>3. user_count \in 0..USER_LIMIT /\ last \in Nat /\ last <= USER_LIMIT - 1 /\ 0..last \subseteq Slots
  BY <1>2 DEF IInv, TypeOK, Slots
<1>4. \A i \in 0..last : users[i] \in Pids /\ child[users[i]] # "none" /\ sub_process[users[i]] = i
  BY DEF IInv, Table, started
<1>5. last \in 0..last /\ l \in Pids /\ child[l] # "none" /\ sub_process[l] = last
  BY <1>3, <1>4
<1>6. /\ users' = [users EXCEPT ![d] = l] /\ user_count' = last
      /\ sub_process' = [sub_process EXCEPT ![p] = -1, ![l] = d]
      /\ child' = [child EXCEPT ![p] = "none"]
  BY DEF Reap, move
<1>7. DOMAIN users = Slots /\ DOMAIN sub_process = Pids /\ DOMAIN child = Pids
  BY DEF IInv, TypeOK
<1>8. /\ users'[d] = l /\ \A i \in Slots : i # d => users'[i] = users[i]
      /\ sub_process'[l] = d
      /\ \A q \in Pids : q # p /\ q # l => sub_process'[q] = sub_process[q]
      /\ child'[p] = "none" /\ \A q \in Pids : q # p => child'[q] = child[q]
  <2>1. users'[d] = l /\ \A i \in Slots : i # d => users'[i] = users[i]
    BY <1>2, <1>3, <1>6, <1>7
  <2>2. sub_process'[l] = d /\ \A q \in Pids : q # p /\ q # l => sub_process'[q] = sub_process[q]
    BY <1>5, <1>6, <1>7
  <2>3. child'[p] = "none" /\ \A q \in Pids : q # p => child'[q] = child[q]
    BY <1>6, <1>7
  <2> QED
    BY <2>1, <2>2, <2>3
<1>9. last - 1 \in Int /\ \A i \in 0..(last - 1) : i \in 0..last /\ i # last /\ i \in Slots
  BY <1>3
<1> HIDE DEF d, last, l
<1>10. ASSUME NEW i \in 0..(last - 1)
       PROVE  users'[i] \in Pids /\ child'[users'[i]] # "none" /\ sub_process'[users'[i]] = i
  <2>1. CASE i = d
    <3>1. l # p
      BY <2>1, <1>2, <1>4, <1>5, <1>9
    <3> QED
      BY <2>1, <3>1, <1>5, <1>8
  <2>2. CASE i # d
    <3>1. users'[i] = users[i] /\ users[i] \in Pids /\ sub_process[users[i]] = i
          /\ child[users[i]] # "none"
      BY <2>2, <1>4, <1>8, <1>9
    <3>2. users[i] # p /\ users[i] # l
      BY <2>2, <3>1, <1>2, <1>4, <1>5, <1>9
    <3> QED
      BY <3>1, <3>2, <1>8
  <2> QED
    BY <2>1, <2>2
<1>11. ASSUME NEW q \in Pids, child'[q] # "none"
       PROVE  sub_process'[q] \in 0..(last - 1) /\ users'[sub_process'[q]] = q
  <2>1. q # p /\ child[q] # "none"
    BY <1>11, <1>8
  <2>2. sub_process[q] \in 0..last /\ users[sub_process[q]] = q
    BY <2>1 DEF IInv, Table, Listed, started, last
  <2>3. CASE q = l
    <3>1. d # last
      BY <2>3, <2>1, <1>2 DEF l
    <3> QED
      BY <2>3, <3>1, <1>2, <1>3, <1>8
  <2>4. CASE q # l
    <3>1. sub_process[q] # last
      BY <2>2, <2>4 DEF l
    <3>2. sub_process[q] # d
      BY <2>1, <2>2, <1>2
    <3>3. sub_process'[q] = sub_process[q]
      BY <2>1, <2>4, <1>8
    <3>4. sub_process[q] \in 0..(last - 1) /\ sub_process[q] \in Slots
      BY <2>2, <3>1, <1>3
    <3> QED
      BY <2>2, <3>2, <3>3, <3>4, <1>8
  <2> QED
    BY <2>3, <2>4
<1>12. inUse = {users[i] : i \in 0..last} /\ inUse' = {users'[i] : i \in 0..(last - 1)}
  BY <1>6 DEF inUse, last
<1>13. inUse' = inUse \ {p}
  <2>1. ASSUME NEW i \in 0..(last - 1) PROVE users'[i] \in inUse /\ users'[i] # p
    <3>1. users'[i] # p
      BY <1>10, <1>8
    <3>2. users'[i] \in inUse
      BY <1>8, <1>9, <1>12, <1>5 DEF l
    <3> QED
      BY <3>1, <3>2
  <2>2. ASSUME NEW i \in 0..last, users[i] # p PROVE users[i] \in inUse'
    <3>1. users[i] \in Pids /\ child'[users[i]] # "none"
      BY <2>2, <1>4, <1>8
    <3> QED
      BY <3>1, <1>11, <1>12
  <2> QED
    BY <2>1, <2>2, <1>12
<1>14. IsFiniteSet(inUse) /\ p \in inUse
  <2>1. inUse \subseteq Pids /\ p \in inUse
    BY <1>2, <1>4, <1>12
  <2> QED
    BY <2>1, FS_Subset
<1>15. Cardinality(inUse') = Cardinality(inUse) - 1
  BY <1>13, <1>14, FS_RemoveElement
<1>16. Cardinality(inUse) = user_count /\ last = user_count - 1
  BY DEF IInv, Table, last
<1> QED
  BY <1>6, <1>10, <1>11, <1>15, <1>16 DEF Table, Listed, started

-----------------------------------------------------------------------------
(* The steps of the parent, of a child, and of the environment.             *)

\* What a child left in its pipes and its socket goes with it.
LEMMA ReapTypes ==
  ASSUME IInv, NEW p \in Pids, Reap(p)
  PROVE  TypeOK' /\ Notices' /\ NotToSelf'
<1> USE ChatAssumption
<1>1. sub_process[p] \in 0..(user_count - 1)
  BY DEF IInv, Table, Listed, started, Reap
<1>2. user_count - 1 \in 0..USER_LIMIT /\ user_count - 1 \in Slots /\ sub_process[p] \in Slots
  BY <1>1 DEF IInv, TypeOK, Slots
<1>3. users' \in [Slots -> Pids \cup {NULL}] /\ user_count' \in 0..USER_LIMIT
  BY <1>2 DEF IInv, TypeOK, Reap, move
<1>4. sub_process' \in [Pids -> Slots \cup {-1}]
  <2>1. users[user_count - 1] \in Pids
    BY <1>1, <1>2 DEF IInv, Table, TypeOK
  <2> QED
    BY <1>2, <2>1 DEF IInv, TypeOK, Reap
<1>5. idx' \in [Pids -> 0..(USER_LIMIT - 1)]
  BY DEF IInv, TypeOK, Reap
<1>6. /\ unread' = [unread EXCEPT ![p] = 0] /\ up' = [up EXCEPT ![p] = 0] /\ msgs' = msgs
      /\ unread \in [Pids -> 0..MaxMsgs] /\ up \in [Pids -> 0..MaxMsgs]
      /\ msgs \in 0..MaxMsgs /\ \A q \in Pids : unread[q] + up[q] <= msgs
  BY DEF IInv, TypeOK, Notices, Reap, env
<1>7. unread' \in [Pids -> 0..MaxMsgs] /\ up' \in [Pids -> 0..MaxMsgs] /\ msgs' \in 0..MaxMsgs
  BY <1>6
<1>8. ASSUME NEW q \in Pids PROVE unread'[q] + up'[q] <= msgs'
  <2>1. CASE q = p
    <3>1. unread'[q] = 0 /\ up'[q] = 0
      BY <1>6, <2>1
    <3> QED
      BY <1>6, <3>1
  <2>2. CASE q # p
    <3>1. unread'[q] = unread[q] /\ up'[q] = up[q]
      BY <1>6, <2>2
    <3> QED
      BY <1>6, <3>1
  <2> QED
    BY <2>1, <2>2
<1>9. /\ cready' \in [Pids -> SUBSET {"conn", "pipe"}] /\ cbatch' \in [Pids -> SUBSET {"conn", "pipe"}]
      /\ \A q \in Pids : cready'[q] \cup cbatch'[q] \subseteq {"conn", "pipe"}
  BY DEF IInv, Notices, Reap
<1>10. down' = [down EXCEPT ![p] = <<>>] /\ down \in [Pids -> Seq(Pids)] /\ NotToSelf
  BY DEF IInv, Notices, Reap
<1>11. down' \in [Pids -> Seq(Pids)] /\ NotToSelf'
  BY <1>10 DEF NotToSelf
<1>12. /\ main' \in {"wait", "turn", "signals", "exit"}
       /\ ready' \subseteq {"listen", "sig"} \cup Pids /\ batch' \subseteq {"listen", "sig"} \cup Pids
       /\ sigpipe' \subseteq {"CHLD", "TERM"} /\ hand' \subseteq {"CHLD", "TERM"}
       /\ child' \in [Pids -> {"none", "forked", "starting", "test", "wait", "turn", "zombie"}]
  BY DEF IInv, TypeOK, Reap
<1> QED
  BY <1>3, <1>4, <1>5, <1>7, <1>8, <1>9, <1>11, <1>12 DEF TypeOK, Notices

\* A new child has a place within USER_LIMIT.
LEMMA ForkTypes ==
  ASSUME IInv, NEW p \in Pids, Fork(p)
  PROVE  TypeOK' /\ Notices' /\ NotToSelf'
<1> USE ChatAssumption
<1>1. user_count \in Slots /\ user_count \in 0..(USER_LIMIT - 1) /\ user_count + 1 \in 0..USER_LIMIT
  BY DEF IInv, TypeOK, Fork, Slots
<1>2. TypeOK'
  BY <1>1 DEF IInv, TypeOK, Fork, accepts, take, sock, pipe
<1> QED
  BY <1>2 DEF IInv, Notices, NotToSelf, Fork, sock, pipe

\* The parent passes a notification on to the others only.
LEMMA ForwardTypes ==
  ASSUME IInv, NEW p \in Pids, Forward(p)
  PROVE  TypeOK' /\ Notices' /\ NotToSelf'
<1> USE ChatAssumption
<1>1. /\ unread' = unread /\ msgs' = msgs /\ cbatch' = cbatch
      /\ main' \in {"wait", "turn", "signals", "exit"}
      /\ ready' \subseteq {"listen", "sig"} \cup Pids /\ batch' \subseteq {"listen", "sig"} \cup Pids
      /\ sigpipe' \subseteq {"CHLD", "TERM"} /\ hand' \subseteq {"CHLD", "TERM"}
      /\ UNCHANGED <<table, proc>>
  BY DEF IInv, TypeOK, Forward, take, env
<1>2. CASE notice(p)
  <2>1. /\ up' = [up EXCEPT ![p] = @ - 1] /\ up \in [Pids -> 0..MaxMsgs] /\ up[p] > 0
        /\ down' = [q \in Pids |-> IF q \in others(p) THEN Append(down[q], p) ELSE down[q]]
        /\ cready' = [q \in Pids |-> IF q \in others(p) THEN cready[q] \cup {"pipe"} ELSE cready[q]]
        /\ down \in [Pids -> Seq(Pids)] /\ NotToSelf
    BY <1>2 DEF IInv, TypeOK, Notices, Forward, notice
  <2>2. cready' \in [Pids -> SUBSET {"conn", "pipe"}] /\ cbatch' \in [Pids -> SUBSET {"conn", "pipe"}]
        /\ \A q \in Pids : cready'[q] \cup cbatch'[q] \subseteq {"conn", "pipe"}
    BY <2>1, <1>1 DEF IInv, Notices
  <2>3. up' \in [Pids -> 0..MaxMsgs] /\ \A q \in Pids : up'[q] <= up[q]
    BY <2>1
  <2>4. ASSUME NEW q \in Pids PROVE unread'[q] + up'[q] <= msgs'
    <3>1. PICK u, v, w \in Nat : u = up[q] /\ v = up'[q] /\ w = unread[q]
      BY <2>1, <2>3 DEF IInv, TypeOK
    <3>2. v <= u /\ w + u <= msgs /\ msgs \in Nat
      BY <2>3, <3>1 DEF IInv, Notices
    <3> QED
      BY <1>1, <3>1, <3>2
  <2>5. ASSUME NEW q \in Pids
        PROVE  down'[q] \in Seq(Pids) /\ \A i \in DOMAIN down'[q] : down'[q][i] # q
    <3>1. down[q] \in Seq(Pids) /\ \A i \in DOMAIN down[q] : down[q][i] # q
      BY <2>1 DEF NotToSelf
    <3>2. CASE q \in others(p)
      <4>1. q # p /\ down'[q] = Append(down[q], p)
        BY <2>1, <3>2 DEF others
      <4> QED
        BY <3>1, <4>1, AppendClean
    <3>3. CASE q \notin others(p)
      BY <2>1, <3>1, <3>3
    <3> QED
      BY <3>2, <3>3
  <2>6. down' \in [Pids -> Seq(Pids)] /\ NotToSelf'
    BY <2>1, <2>5 DEF NotToSelf
  <2> QED
    BY <1>1, <2>2, <2>3, <2>4, <2>6 DEF IInv, TypeOK, Notices, table, proc
<1>3. CASE ~notice(p)
  <2>1. UNCHANGED <<up, down, cready>>
    BY <1>3 DEF Forward, pipe
  <2> QED
    BY <1>1, <2>1 DEF IInv, TypeOK, Notices, NotToSelf, table, proc
<1> QED
  BY <1>2, <1>3

\* What the parent does besides Fork(), Forward() and Reap().
LEMMA ParentLoopStep ==
  ASSUME IInv, EpollWait \/ Refuse \/ ReadSignals \/ ChldDone \/ TermNoUsers \/ TurnEnds
  PROVE  IInv'
<1> USE DEF IInv, Notices, NotToSelf, TypeOK, sock, pipe, table, proc
<1>1. UNCHANGED <<table, proc, sock, cbatch, pipe, msgs>>
  BY DEF EpollWait, Refuse, ReadSignals, ChldDone, TermNoUsers, TurnEnds, env
<1>2. Table'
  BY <1>1, TableKept
<1>3. /\ main' \in {"wait", "turn", "signals", "exit"}
      /\ ready' \subseteq {"listen", "sig"} \cup Pids /\ batch' \subseteq {"listen", "sig"} \cup Pids
      /\ sigpipe' \subseteq {"CHLD", "TERM"} /\ hand' \subseteq {"CHLD", "TERM"}
  BY DEF EpollWait, Refuse, accepts, take, ReadSignals, ChldDone, signalDone, TermNoUsers, TurnEnds
<1> QED
  BY <1>1, <1>2, <1>3

\* kill() of every child starts and ends nobody by itself.
LEMMA TermKillsStep == ASSUME IInv, TermKills PROVE IInv'
<1> USE DEF IInv, Notices, NotToSelf, TypeOK, sock, pipe, table
<1>1. UNCHANGED <<batch, table, idx, sock, cbatch, pipe, msgs>>
  BY DEF TermKills, env
<1>2. /\ main' \in {"wait", "turn", "signals", "exit"}
      /\ ready' \subseteq {"listen", "sig"} \cup Pids
      /\ sigpipe' \subseteq {"CHLD", "TERM"} /\ hand' \subseteq {"CHLD", "TERM"}
  BY DEF TermKills, signalDone, raise
<1>3. PICK missed : child' = [p \in Pids |-> IF p \in victims \ missed /\ child[p] = "wait"
                                           THEN "test" ELSE child[p]]
  BY DEF TermKills
<1>4. /\ child' \in [Pids -> {"none", "forked", "starting", "test", "wait", "turn", "zombie"}]
      /\ \A p \in Pids : child'[p] = "none" <=> child[p] = "none"
  BY <1>3
<1>5. Table'
  BY <1>1, <1>4, TableKept
<1> QED
  BY <1>1, <1>2, <1>4, <1>5

\* A client sends: the message is in its socket.
LEMMA SendStep == ASSUME IInv, NEW p \in Pids, Send(p) PROVE IInv'
<1> USE ChatAssumption
<1>1. UNCHANGED <<parent, table, proc, cbatch, pipe>>
  BY DEF Send
<1>2. Table'
  BY <1>1, TableKept DEF IInv, proc
<1>3. /\ cready' \in [Pids -> SUBSET {"conn", "pipe"}]
      /\ \A q \in Pids : cready'[q] \cup cbatch'[q] \subseteq {"conn", "pipe"}
  BY <1>1 DEF Send, arrives, IInv, Notices
<1>4. /\ unread \in [Pids -> 0..MaxMsgs] /\ up \in [Pids -> 0..MaxMsgs] /\ up' = up
      /\ msgs \in 0..MaxMsgs /\ \A q \in Pids : unread[q] + up[q] <= msgs
      /\ msgs' = msgs + 1 /\ unread' = [unread EXCEPT ![p] = @ + 1] /\ msgs < MaxMsgs
  BY <1>1 DEF Send, IInv, TypeOK, Notices, pipe
<1>5. ASSUME NEW q \in Pids PROVE unread'[q] \in 0..MaxMsgs /\ unread'[q] + up'[q] <= msgs'
  <2>1. PICK u, v, n \in Nat : u = unread[q] /\ v = up[q] /\ n = msgs
    BY <1>4
  <2>2. u + v <= n /\ n < MaxMsgs
    BY <1>4, <2>1
  <2>3. PICK w \in Nat : unread'[q] = w /\ w <= u + 1
    <3>1. CASE q = p
      <4>1. unread'[q] = u + 1
        BY <1>4, <2>1, <3>1
      <4> QED
        BY <4>1
    <3>2. CASE q # p
      <4>1. unread'[q] = u
        BY <1>4, <2>1, <3>2
      <4> QED
        BY <4>1
    <3> QED
      BY <3>1, <3>2
  <2>4. up'[q] = v /\ msgs' = n + 1
    BY <1>4, <2>1
  <2>5. w \in 0..MaxMsgs /\ w + v <= n + 1
    BY <2>2, <2>3
  <2> QED
    BY <2>3, <2>4, <2>5
<1>6. unread' \in [Pids -> 0..MaxMsgs] /\ msgs' \in 0..MaxMsgs
  BY <1>4, <1>5
<1> QED
  BY <1>1, <1>2, <1>3, <1>5, <1>6
  DEF IInv, TypeOK, Notices, NotToSelf, parent, table, proc, pipe

\* A client or a signal comes.
LEMMA EnvStep ==
  ASSUME IInv, Connect \/ Sigterm \/ \E p \in Pids : Send(p) \/ Leave(p)
  PROVE  IInv'
<1> USE ChatAssumption DEF IInv, Notices, NotToSelf, TypeOK, sock, pipe, table, proc, parent, env
<1>1. CASE Connect
  <2>1. Table'
    BY <1>1, TableKept DEF Connect
  <2> QED
    BY <1>1, <2>1 DEF Connect
<1>2. CASE Sigterm
  <2>1. Table'
    BY <1>2, TableKept DEF Sigterm
  <2> QED
    BY <1>2, <2>1 DEF Sigterm, raise
<1>3. ASSUME NEW p \in Pids, Send(p) PROVE IInv'
  BY <1>3, SendStep
<1>4. ASSUME NEW p \in Pids, Leave(p) PROVE IInv'
  <2>1. Table'
    BY <1>4, TableKept DEF Leave
  <2>2. cready' \in [Pids -> SUBSET {"conn", "pipe"}]
        /\ \A q \in Pids : cready'[q] \cup cbatch'[q] \subseteq {"conn", "pipe"}
    BY <1>4 DEF Leave, arrives
  <2> QED
    BY <1>4, <2>1, <2>2 DEF Leave
<1> QED
  BY <1>1, <1>2, <1>3, <1>4

\* run_child() up to its epoll_wait(), and the wait.
LEMMA ChildLoopStep ==
  ASSUME IInv, NEW p \in Pids, ClosePipes(p) \/ Addsig(p) \/ TestStop(p) \/ ChildEpollWait(p)
  PROVE  IInv'
<1> USE DEF IInv, Notices, NotToSelf, TypeOK, sock, pipe, table, parent, env
<1>1. UNCHANGED <<table, idx, unread, pipe, msgs, main, batch, hand>>
  BY DEF ClosePipes, Addsig, TestStop, ChildEpollWait
<1>2. ready' \subseteq {"listen", "sig"} \cup Pids /\ sigpipe' \subseteq {"CHLD", "TERM"}
  BY DEF ClosePipes, Addsig, TestStop, ChildEpollWait, raise
<1>3. PICK pc \in {"starting", "test", "wait", "turn", "zombie"} :
        child' = [child EXCEPT ![p] = pc] /\ child[p] # "none"
  BY DEF ClosePipes, Addsig, TestStop, ChildEpollWait
<1>4. /\ child' \in [Pids -> {"none", "forked", "starting", "test", "wait", "turn", "zombie"}]
      /\ \A q \in Pids : child'[q] = "none" <=> child[q] = "none"
  BY <1>3
<1>5. Table'
  BY <1>1, <1>4, TableKept
<1>6. cready' \in [Pids -> SUBSET {"conn", "pipe"}] /\ cbatch' \in [Pids -> SUBSET {"conn", "pipe"}]
  BY DEF ClosePipes, Addsig, TestStop, ChildEpollWait
<1> QED
  BY <1>1, <1>2, <1>4, <1>5, <1>6

\* What an event leaves of the child's batch and of its place in the loop.
LEMMA HandledStep ==
  ASSUME IInv, NEW p \in Pids, NEW what, handled(p, what)
  PROVE  /\ cbatch' \in [Pids -> SUBSET {"conn", "pipe"}]
         /\ child' \in [Pids -> {"none", "forked", "starting", "test", "wait", "turn", "zombie"}]
         /\ \A q \in Pids : child'[q] = "none" <=> child[q] = "none"
<1>1. cbatch' = [cbatch EXCEPT ![p] = @ \ {what}] /\ cbatch \in [Pids -> SUBSET {"conn", "pipe"}]
  BY DEF handled, IInv, Notices
<1>2. PICK pc \in {"test", "turn"} : child' = [child EXCEPT ![p] = pc] /\ child[p] = "turn"
  BY DEF handled
<1>3. child \in [Pids -> {"none", "forked", "starting", "test", "wait", "turn", "zombie"}]
  BY DEF IInv, TypeOK
<1>4. cbatch' \in [Pids -> SUBSET {"conn", "pipe"}]
  BY <1>1
<1> QED
  BY <1>2, <1>3, <1>4

\* recv() takes at least as many messages as it makes notifications.
LEMMA RecvClientStep == ASSUME IInv, NEW p \in Pids, RecvClient(p) PROVE IInv'
<1> USE ChatAssumption
<1>1. /\ cbatch' \in [Pids -> SUBSET {"conn", "pipe"}]
      /\ child' \in [Pids -> {"none", "forked", "starting", "test", "wait", "turn", "zombie"}]
      /\ \A q \in Pids : child'[q] = "none" <=> child[q] = "none"
  BY HandledStep DEF RecvClient
<1>2. UNCHANGED <<main, batch, sigpipe, hand, table, msgs, idx, cready, down>>
  BY DEF RecvClient, env
<1>3. Table'
  BY <1>1, <1>2, TableKept DEF IInv
<1>4. ready' \subseteq {"listen", "sig"} \cup Pids
  BY DEF IInv, TypeOK, RecvClient
<1>5. /\ unread' \in [Pids -> 0..MaxMsgs] /\ up' \in [Pids -> 0..MaxMsgs]
      /\ \A q \in Pids : unread'[q] + up'[q] <= msgs
  <2>1. /\ unread \in [Pids -> 0..MaxMsgs] /\ up \in [Pids -> 0..MaxMsgs]
        /\ msgs \in 0..MaxMsgs /\ \A q \in Pids : unread[q] + up[q] <= msgs
    BY DEF IInv, TypeOK, Notices
  <2>2. CASE UNCHANGED <<unread, up>>
    BY <2>1, <2>2
  <2>3. ASSUME NEW k \in 1..unread[p], unread' = [unread EXCEPT ![p] = @ - k],
               up' = [up EXCEPT ![p] = @ + 1]
        PROVE  /\ unread' \in [Pids -> 0..MaxMsgs] /\ up' \in [Pids -> 0..MaxMsgs]
               /\ \A q \in Pids : unread'[q] + up'[q] <= msgs
    <3>1. ASSUME NEW q \in Pids
          PROVE  unread'[q] \in 0..MaxMsgs /\ up'[q] \in 0..MaxMsgs /\ unread'[q] + up'[q] <= msgs
      <4>1. PICK u, v \in Nat : u = unread[q] /\ v = up[q]
        BY <2>1
      <4>2. u + v <= msgs
        BY <2>1, <4>1
      <4>3. CASE q = p
        <5>1. unread'[q] = u - k /\ up'[q] = v + 1 /\ k \in 1..u
          BY <2>1, <2>3, <4>1, <4>3
        <5> QED
          BY <2>1, <4>2, <5>1
      <4>4. CASE q # p
        <5>1. unread'[q] = u /\ up'[q] = v
          BY <2>1, <2>3, <4>1, <4>4
        <5> QED
          BY <2>1, <4>2, <5>1
      <4> QED
        BY <4>3, <4>4
    <3> QED
      BY <2>1, <2>3, <3>1
  <2>4. \/ UNCHANGED <<unread, up>>
        \/ /\ \E k \in 1..unread[p] : unread' = [unread EXCEPT ![p] = @ - k]
           /\ up' = [up EXCEPT ![p] = @ + 1]
    BY DEF RecvClient
  <2> QED
    BY <2>2, <2>3, <2>4
<1> QED
  BY <1>1, <1>2, <1>3, <1>4, <1>5 DEF IInv, TypeOK, Notices, NotToSelf, table

\* A child takes a notification of another one.
LEMMA RecvParentStep == ASSUME IInv, NEW p \in Pids, RecvParent(p) PROVE IInv'
<1>1. /\ cbatch' \in [Pids -> SUBSET {"conn", "pipe"}]
      /\ child' \in [Pids -> {"none", "forked", "starting", "test", "wait", "turn", "zombie"}]
      /\ \A q \in Pids : child'[q] = "none" <=> child[q] = "none"
  BY HandledStep DEF RecvParent
<1>2. UNCHANGED <<parent, table, msgs, idx, sock, up>>
  BY DEF RecvParent, env
<1>3. Table'
  BY <1>1, <1>2, TableKept DEF IInv
<1>4. /\ down' = [down EXCEPT ![p] = IF @ = <<>> THEN @ ELSE Tail(@)]
      /\ down \in [Pids -> Seq(Pids)] /\ NotToSelf
  BY DEF IInv, Notices, RecvParent
<1>5. ASSUME NEW q \in Pids
      PROVE  down'[q] \in Seq(Pids) /\ \A i \in DOMAIN down'[q] : down'[q][i] # q
  <2>1. down[q] \in Seq(Pids) /\ \A i \in DOMAIN down[q] : down[q][i] # q
    BY <1>4 DEF NotToSelf
  <2>2. CASE down'[q] = down[q]
    BY <2>1, <2>2
  <2>3. CASE down[q] # <<>> /\ down'[q] = Tail(down[q])
    BY <2>1, <2>3, TailClean
  <2> QED
    BY <1>4, <2>2, <2>3
<1>6. down' \in [Pids -> Seq(Pids)] /\ NotToSelf'
  BY <1>4, <1>5 DEF NotToSelf
<1> QED
  BY <1>1, <1>2, <1>3, <1>6 DEF IInv, TypeOK, Notices, parent, table, sock

-----------------------------------------------------------------------------
(* The theorem.                                                             *)

\* The invariant holds at first and every step keeps it.
LEMMA IInvCorrect == Spec => []IInv
<1>1. ASSUME Init PROVE IInv
  <2> USE ChatAssumption
  <2>1. TypeOK /\ Notices /\ NotToSelf
    BY <1>1 DEF Init, TypeOK, Notices, NotToSelf, Slots
  <2>2. 0..(user_count - 1) = {}
    BY <1>1 DEF Init
  <2>3. inUse = {}
    BY <2>2 DEF inUse
  <2>4. Cardinality(inUse) = user_count
    BY <2>3, <1>1, FS_EmptySet DEF Init
  <2> QED
    BY <1>1, <2>1, <2>2, <2>4 DEF IInv, Table, Init, started
<1>2. ASSUME IInv, [Next]_vars PROVE IInv'
  <2>1. CASE UNCHANGED vars
    <3>1. UNCHANGED <<parent, table, env, proc, sock, cbatch, pipe>>
      BY <2>1 DEF vars
    <3>2. Table'
      BY <1>2, <3>1, TableKept DEF IInv, proc
    <3> QED
      BY <1>2, <3>1, <3>2 DEF IInv, TypeOK, Notices, NotToSelf, parent, table, env, proc, sock, pipe
  <2>2. ASSUME NEW p \in Pids, Fork(p) PROVE IInv'
    BY <1>2, <2>2, ForkTypes, ForkTable DEF IInv
  <2>3. ASSUME NEW p \in Pids, Forward(p) PROVE IInv'
    <3>1. Table'
      BY <1>2, <2>3, TableKept DEF IInv, Forward, proc
    <3> QED
      BY <1>2, <2>3, <3>1, ForwardTypes DEF IInv
  <2>4. ASSUME NEW p \in Pids, Reap(p) PROVE IInv'
    BY <1>2, <2>4, ReapTypes, ReapTable DEF IInv
  <2>5. ASSUME NEW p \in Pids, ChildStep(p) PROVE IInv'
    BY <1>2, <2>5, ChildLoopStep, RecvClientStep, RecvParentStep DEF ChildStep
  <2>6. CASE ParentStep
    BY <1>2, <2>2, <2>3, <2>4, <2>6, ParentLoopStep, TermKillsStep DEF ParentStep
  <2> QED
    BY <1>2, <2>1, <2>5, <2>6, EnvStep DEF Next
<1> QED
  BY <1>1, <1>2, PTL DEF Spec

\* Whatever children come and go, and whichever entries del_user moves, users[] lists
\* exactly the children that were not waited for, sub_process[] finds each one's place,
\* and no child gets a notification of its own message (code_13_4.cpp's main loop).
THEOREM TableInvCorrect == Spec => []TableInv
<1>1. ASSUME IInv PROVE TableInv
  BY <1>1, TableIsExact DEF IInv, TableInv
<1> QED
  BY <1>1, IInvCorrect, PTL
=============================================================================
