---------------------------- MODULE UdpNetwork -----------------------------
(***************************************************************************)
(* Datagrams between one client and one server.  What was ever sent stays  *)
(* in net: a datagram is lost if nobody takes it, late if it is taken      *)
(* late, and delivered twice if it is taken twice.                         *)
(***************************************************************************)
VARIABLE net

inFlight(end) == {m \in net : m.to = end}

Sendto(m) == net' = net \cup {m}
=============================================================================
