---------------------------- MODULE RequestQueue ----------------------------
(***************************************************************************)
(* What threadpool<T> promises its callers: a first-in first-out queue of  *)
(* requests with a capacity, from which every accepted request is taken    *)
(* once.  Each operation is one atomic step.  ThreadPool implements it.    *)
(***************************************************************************)
EXTENDS Naturals, Sequences

CONSTANTS Items, Capacity

VARIABLES pending,   \* accepted and not yet taken, oldest first
          delivered  \* taken by some worker, oldest first

qvars == <<pending, delivered>>

QInit == pending = <<>> /\ delivered = <<>>

Put(r) ==
    /\ Len(pending) < Capacity
    /\ pending' = Append(pending, r)
    /\ UNCHANGED delivered

Get ==
    /\ pending # <<>>
    /\ pending' = Tail(pending)
    /\ delivered' = Append(delivered, Head(pending))

QNext == Get \/ \E r \in Items : Put(r)

QSpec == QInit /\ [][QNext]_qvars
=============================================================================
