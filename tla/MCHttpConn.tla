---------------------------- MODULE MCHttpConn ------------------------------
(* Instances of HttpParser and HttpWrite for TLC, side by side: a behaviour *)
(* is one of the parser or one of the writer, by the value of half.  The    *)
(* parser gets requests put together from complete lines, stray line ends   *)
(* and text, with bodies that hold line ends and lengths an int sum or the  *)
(* buffer cannot take; the writer gets headers and files around the size of *)
(* the socket's send buffer.                                                *)
EXTENDS HttpParser, HttpWrite

VARIABLE half

MCLengths == {"three", "negative", "huge"}
Value == [three |-> 3, negative |-> -9, huge |-> INT_MAX]

CRLF == <<"cr", "lf">>
MCSegments ==
    [p \in Parts |->
        CASE p = "first line" -> {<<"req">> \o CRLF, <<"x">> \o CRLF, <<"lf">>, <<"req", "cr", "x">>}
          [] p = "headers"    -> {<<l>> \o CRLF : l \in MCLengths \cup {"keep"}}
                                    \cup {CRLF, <<"cr", "x">>}
          [] p = "rest"       -> {<<"x">>, CRLF, <<"lf">>}]

MCHeaders == {1, 2}
MCFiles == {1, 2, 4}

MCInit == Init /\ WriteInit /\ half \in {"read", "write"}

MCNext ==
    /\ UNCHANGED half
    /\ \/ half = "read" /\ Next /\ UNCHANGED writevars
       \/ half = "write" /\ WriteNext /\ UNCHANGED vars

MCSpec == MCInit /\ [][MCNext]_<<vars, writevars, half>> /\ WF_vars(process_read)
=============================================================================
