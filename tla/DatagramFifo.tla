--------------------------- MODULE DatagramFifo ----------------------------
(***************************************************************************)
(* What the server's input queue promises: datagrams come out in the order *)
(* they went in, each once and as it was, and never more than Capacity.    *)
(***************************************************************************)
EXTENDS Integers, Sequences

CONSTANTS Datagram, Capacity

VARIABLES queue, out  \* out: what has come out

Put(m) == Len(queue) < Capacity /\ queue' = Append(queue, m) /\ UNCHANGED out
Take   == queue # <<>> /\ out' = out \cup {Head(queue)} /\ queue' = Tail(queue)

Next == Take \/ \E m \in Datagram : Put(m)
Spec == queue = <<>> /\ out = {} /\ [][Next]_<<queue, out>>
=============================================================================
