----------------------------- MODULE MCUdpEcho -----------------------------
(* Instances of UdpEcho for TLC. *)
EXTENDS UdpEcho

MCDatagram == [to : {"server"}, seq : 1..Lines, ts : 1..(Lines * (RTT_MAXNREXMT + 1))]
=============================================================================
