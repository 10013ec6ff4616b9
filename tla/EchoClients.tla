---------------------------- MODULE EchoClients ----------------------------
(***************************************************************************)
(* unpv1e3: one echo service, six clients.  str_cli() waits for each line, *)
(* strcliselect01 and 02 watch input and socket with select(), strclinonb  *)
(* never blocks and keeps two buffers, strclifork and strclithread have a  *)
(* process or thread for each direction.  The variable client says which   *)
(* str_cli() runs; the server is str_echo().                               *)
(*                                                                         *)
(* Data is counted in lines.  A buffer is a pair of pointers as in         *)
(* strclinonb; in the other designs they are the progress of one write.    *)
(***************************************************************************)
EXTENDS Integers, FiniteSets, FiniteSetsExt

CONSTANTS
    NLines,   \* bound: the lines the user types
    MAXLINE,  \* size of the buffers of client and server
    Cap,      \* what the network holds in each direction
    OutCap    \* what standard output takes before it blocks

ASSUME EchoAssumption == NLines \in Nat /\ {MAXLINE, Cap, OutCap} \subseteq Nat \ {0}

VARIABLES
    client,
    left, avail, eof,      \* the user: lines to come, lines on stdin, end of input
    stdio, read_cnt,       \* lines hidden in the buffers of Fgets() and Readline()
    mpc, rpc,              \* the client, and its receiving process or thread
    rset, wset, stdineof,  \* select()
    toiptr, tooptr, friptr, froptr,
    fin,                   \* the client has sent a FIN
    c2s, hold, s2c,        \* lines on the way, in the server's buffer, on the way back
    srv, sfin,             \* "run", "gone" (returned), "dead"; how the client sees the end
    out, printed,          \* lines in standard output's pipe, lines written to it
    ended                  \* "no", "return", "killed", "abort"

user   == <<left, avail, eof>>
hidden == <<stdio, read_cnt>>
sel    == <<rset, wset, stdineof>>
to     == <<toiptr, tooptr>>
fr     == <<friptr, froptr>>
net    == <<fin, c2s, hold, s2c, srv, sfin>>
term   == <<out, printed>>
echovars == <<client, user, hidden, mpc, rpc, sel, to, fr, net, term, ended>>

Designs == {"str_cli", "select01", "select02", "nonb", "fork", "thread"}
TwoLoops == {"fork", "thread"}

start == [str_cli |-> "fgets", select01 |-> "select", select02 |-> "select", nonb |-> "select",
          fork |-> "fgets", thread |-> "fgets"]

EchoInit ==
    /\ client \in Designs /\ left = NLines /\ avail = 0 /\ eof = FALSE
    /\ stdio = 0 /\ read_cnt = 0 /\ mpc = start[client]
    /\ rpc = (IF client \in TwoLoops THEN "readline" ELSE "none")
    /\ rset = {} /\ wset = {} /\ stdineof = FALSE
    /\ toiptr = 0 /\ tooptr = 0 /\ friptr = 0 /\ froptr = 0
    /\ fin = FALSE /\ c2s = 0 /\ hold = 0 /\ s2c = 0 /\ srv = "run" /\ sfin = "no"
    /\ out = 0 /\ printed = 0 /\ ended = "no"

EchoTypeOK ==
    /\ client \in Designs /\ left \in 0..NLines /\ avail \in 0..NLines /\ eof \in BOOLEAN
    /\ stdio \in 0..NLines /\ read_cnt \in 0..MAXLINE
    /\ mpc \in {"fgets", "writen", "readline", "fputs", "select", "input", "in", "sock", "out",
               "net", "pause", "done"}
    /\ rpc \in {"none", "readline", "fputs", "done"}
    /\ tooptr \in 0..toiptr /\ toiptr \in 0..MAXLINE /\ froptr \in 0..friptr /\ friptr \in 0..MAXLINE
    /\ c2s \in 0..Cap /\ s2c \in 0..Cap /\ hold \in 0..MAXLINE
    /\ srv \in {"run", "gone", "dead"} /\ sfin \in {"no", "fin", "rst"}
    /\ out \in 0..OutCap /\ printed \in 0..NLines /\ ended \in {"no", "return", "killed", "abort"}

upTo(S) == 1..Min(S)

rewoundAlways(o, i) == <<0, 0>>

rewoundNever(o, i) == <<o, i>>

\* A buffer whose output pointer has caught up starts again at its beginning.
rewound(o, i) == IF o = i THEN <<0, 0>> ELSE <<o, i>>

End(how) == ended' = how

-----------------------------------------------------------------------------
(* The user, the terminal and the server *)

Type ==
    /\ ended = "no" /\ left > 0 /\ ~eof /\ left' = left - 1 /\ avail' = avail + 1
    /\ UNCHANGED <<client, eof, hidden, mpc, rpc, sel, to, fr, net, term, ended>>

TypeEof ==
    /\ ended = "no" /\ ~eof /\ eof' = TRUE
    /\ UNCHANGED <<client, left, avail, hidden, mpc, rpc, sel, to, fr, net, term, ended>>

Drain ==
    /\ ended = "no" /\ out > 0 /\ out' = out - 1
    /\ UNCHANGED <<client, user, hidden, mpc, rpc, sel, to, fr, net, printed, ended>>

str_echo ==
    /\ srv = "run" /\ ended = "no"
    /\ \/ /\ hold = 0 /\ c2s > 0
          /\ \E k \in upTo({c2s, MAXLINE}) : c2s' = c2s - k /\ hold' = k
          /\ UNCHANGED <<fin, s2c, srv, sfin>>
       \/ /\ hold > 0 /\ s2c < Cap
          /\ \E k \in upTo({hold, Cap - s2c}) : hold' = hold - k /\ s2c' = s2c + k
          /\ UNCHANGED <<fin, c2s, srv, sfin>>
       \/ /\ hold = 0 /\ c2s = 0 /\ fin /\ srv' = "gone" /\ sfin' = "fin"
          /\ UNCHANGED <<fin, c2s, hold, s2c>>
    /\ UNCHANGED <<client, user, hidden, mpc, rpc, sel, to, fr, term, ended>>

\* The server's process is killed: its kernel sends a FIN, or a RST if there was
\* data it had not read.
ServerDies ==
    /\ srv = "run" /\ ended = "no" /\ srv' = "dead" /\ hold' = 0 /\ c2s' = 0
    /\ \/ sfin' = "fin"
       \/ c2s > 0 /\ sfin' = "rst"
    /\ UNCHANGED <<client, user, hidden, mpc, rpc, sel, to, fr, fin, s2c, term, ended>>

-----------------------------------------------------------------------------
(* Fgets(), Writen(), Readline() and Fputs() *)

afterLine  == "writen"
afterWrite == [str_cli |-> "readline", select01 |-> "select", select02 |-> "select",
               fork |-> "fgets", thread |-> "fgets"]

\* The client, or the process or thread that reads the socket for it.
at(who, label) == (IF who = "main" THEN mpc ELSE rpc) = label

goto(who, label) ==
    IF who = "main" THEN mpc' = label /\ UNCHANGED rpc ELSE rpc' = label /\ UNCHANGED mpc

\* A line of stdio's buffer, which is filled with whatever stdin has.
FgetsLine ==
    /\ ended = "no" /\ mpc = "fgets" /\ toiptr' = 1 /\ tooptr' = 0 /\ mpc' = afterLine
    /\ \/ stdio > 0 /\ stdio' = stdio - 1 /\ UNCHANGED avail
       \/ stdio = 0 /\ \E k \in 1..avail : avail' = avail - k /\ stdio' = k - 1
    /\ UNCHANGED <<client, left, eof, read_cnt, rpc, sel, fr, net, term, ended>>

\* The loops end: the two with a loop for each direction send a FIN, the others return.
FgetsEof ==
    /\ ended = "no" /\ mpc = "fgets" /\ stdio = 0 /\ avail = 0 /\ eof
    /\ IF client \in TwoLoops
         THEN fin' = TRUE /\ mpc' = "pause" /\ UNCHANGED ended
         ELSE End("return") /\ UNCHANGED <<fin, mpc>>
    /\ UNCHANGED <<client, user, hidden, rpc, sel, to, fr, c2s, hold, s2c, srv, sfin, term>>

\* A write to the socket takes what the network has room for; the host of a dead
\* server answers it with a RST, which the client may see before the FIN.
writes(k) ==
    /\ sfin' \in IF srv = "run" THEN {sfin} ELSE {sfin, "rst"}
    /\ tooptr' = rewound(tooptr + k, toiptr)[1] /\ toiptr' = rewound(tooptr + k, toiptr)[2]
    /\ c2s' = IF srv = "run" THEN c2s + k ELSE c2s

sendable ==
    IF srv = "run" THEN 1..Min({toiptr - tooptr, Cap - c2s}) ELSE {toiptr - tooptr}

Writen ==
    /\ ended = "no" /\ mpc = "writen"
    /\ \E k \in sendable :
         writes(k) /\ mpc' = IF tooptr + k = toiptr THEN afterWrite[client] ELSE "writen"
    /\ UNCHANGED <<client, user, hidden, rpc, sel, fr, fin, hold, s2c, srv, term, ended>>

\* The server is gone: EPIPE or SIGPIPE, at the first write or a later one.
WriteFails ==
    /\ ended = "no" /\ srv # "run"
    /\ mpc = "writen" \/ (mpc = "net" /\ "net" \in wset /\ toiptr > tooptr)
    /\ End("abort")
    /\ UNCHANGED <<client, user, hidden, mpc, rpc, sel, to, fr, net, term>>

\* At the end of the connection: str_cli() and strcliselect01 quit, the child of
\* strclifork ends its parent, and the main thread of strclithread returns.
ReadlineEnds ==
    IF sfin = "rst" THEN End(IF client = "fork" THEN "no" ELSE "abort")
    ELSE End(CASE client = "fork"   -> "killed"
               [] client = "thread" -> "return"
               [] OTHER             -> "abort")

Readline(who) ==
    /\ ended = "no" /\ at(who, "readline")
    /\ \/ /\ read_cnt > 0 \/ s2c > 0
          /\ \/ read_cnt > 0 /\ read_cnt' = read_cnt - 1 /\ UNCHANGED s2c
             \/ read_cnt = 0 /\ \E k \in upTo({s2c, MAXLINE}) : s2c' = s2c - k /\ read_cnt' = k - 1
          /\ friptr' = 1 /\ goto(who, "fputs") /\ UNCHANGED ended
       \/ /\ read_cnt = 0 /\ s2c = 0 /\ sfin # "no" /\ ReadlineEnds /\ goto(who, "done")
          /\ UNCHANGED <<read_cnt, s2c, friptr>>
    /\ UNCHANGED <<client, user, stdio, sel, to, froptr, fin, c2s, hold, srv, sfin, term>>

\* where a select() client goes on after the socket was handled
afterSock == IF "in" \in rset THEN (IF client = "select01" THEN "fgets" ELSE "input") ELSE "select"

prints(k) ==
    /\ froptr' = rewound(froptr + k, friptr)[1] /\ friptr' = rewound(froptr + k, friptr)[2]
    /\ out' = out + k /\ printed' = printed + k

printable == 1..Min({friptr - froptr, OutCap - out})

\* Fputs(), and Write() of strcliselect02: they block while standard output does.
Fputs(who, next) ==
    /\ ended = "no" /\ at(who, "fputs")
    /\ \E k \in printable : prints(k) /\ goto(who, IF froptr + k = friptr THEN next ELSE "fputs")
    /\ UNCHANGED <<client, user, hidden, sel, to, net, ended>>

-----------------------------------------------------------------------------
(* strcliselect01 and strcliselect02 *)

inReadable   == avail > 0 \/ eof
sockReadable == s2c > 0 \/ sfin # "no"

\* What was read ahead into the buffers of stdio and Readline() is not looked at.
Select ==
    /\ ended = "no" /\ mpc = "select" /\ client \in {"select01", "select02"}
    /\ rset' = {x \in {"in", "sock"} : IF x = "in" THEN inReadable /\ ~stdineof ELSE sockReadable}
    /\ rset' # {}
    /\ mpc' = (IF "sock" \in rset' THEN (IF client = "select01" THEN "readline" ELSE "sock")
              ELSE IF client = "select01" THEN "fgets" ELSE "input")
    /\ UNCHANGED <<client, user, hidden, rpc, wset, stdineof, to, fr, net, term, ended>>

\* the end of the connection as strcliselect02 and strclinonb see it
SockEnds == End(IF sfin = "fin" /\ stdineof THEN "return" ELSE "abort")

ReadSock ==
    /\ ended = "no" /\ mpc = "sock" /\ client = "select02"
    /\ \/ /\ \E k \in upTo({s2c, MAXLINE}) : s2c' = s2c - k /\ friptr' = k
          /\ mpc' = "fputs" /\ UNCHANGED ended
       \/ s2c = 0 /\ SockEnds /\ UNCHANGED <<s2c, friptr, mpc>>
    /\ UNCHANGED <<client, user, hidden, rpc, sel, to, froptr, fin, c2s, hold, srv, sfin, term>>

ReadInput ==
    /\ ended = "no" /\ mpc = "input"
    /\ \/ /\ \E k \in upTo({avail, MAXLINE}) : avail' = avail - k /\ toiptr' = k
          /\ mpc' = "writen" /\ UNCHANGED <<fin, stdineof>>
       \/ /\ avail = 0 /\ eof /\ stdineof' = TRUE /\ fin' = TRUE /\ mpc' = "select"
          /\ UNCHANGED <<avail, toiptr>>
    /\ UNCHANGED <<client, left, eof, hidden, rpc, rset, wset, tooptr, fr, c2s, hold, s2c, srv,
                   sfin, term, ended>>

-----------------------------------------------------------------------------
(* strclinonb: four steps after each select() *)

sockWantedToo == friptr < MAXLINE /\ tooptr # toiptr

sockWanted == friptr < MAXLINE

SelectNonb ==
    /\ ended = "no" /\ mpc = "select" /\ client = "nonb"
    /\ rset' = {x \in {"in", "sock"} :
                  IF x = "in" THEN ~stdineof /\ toiptr < MAXLINE /\ inReadable
                              ELSE sockWanted /\ sockReadable}
    /\ wset' = {x \in {"net", "out"} :
                  IF x = "net" THEN tooptr # toiptr /\ (c2s < Cap \/ srv # "run")
                               ELSE froptr # friptr /\ out < OutCap}
    /\ rset' \cup wset' # {} /\ mpc' = "in"
    /\ UNCHANGED <<client, user, hidden, rpc, stdineof, to, fr, net, term, ended>>

roomAll == MAXLINE

room == MAXLINE - toiptr

finAlways == TRUE

finNow == tooptr = toiptr

NonbIn ==
    /\ ended = "no" /\ mpc = "in" /\ mpc' = "sock"
    /\ \/ /\ "in" \in rset /\ avail > 0
          /\ \E k \in upTo({avail, room}) : avail' = avail - k /\ toiptr' = toiptr + k
          /\ wset' = wset \cup {"net"} /\ UNCHANGED <<stdineof, fin>>
       \/ /\ "in" \in rset /\ avail = 0 /\ stdineof' = TRUE /\ fin' = finNow
          /\ UNCHANGED <<avail, toiptr, wset>>
       \/ "in" \notin rset /\ UNCHANGED <<avail, toiptr, wset, stdineof, fin>>
    /\ UNCHANGED <<client, left, eof, hidden, rpc, rset, tooptr, fr, c2s, hold, s2c, srv, sfin,
                   term, ended>>

NonbSock ==
    /\ ended = "no" /\ mpc = "sock" /\ client = "nonb" /\ mpc' = "out"
    /\ \/ /\ "sock" \in rset /\ s2c > 0
          /\ \E k \in upTo({s2c, MAXLINE - friptr}) : s2c' = s2c - k /\ friptr' = friptr + k
          /\ wset' = wset \cup {"out"} /\ UNCHANGED ended
       \/ "sock" \in rset /\ s2c = 0 /\ SockEnds /\ UNCHANGED <<s2c, friptr, wset>>
       \/ "sock" \notin rset /\ UNCHANGED <<s2c, friptr, wset, ended>>
    /\ UNCHANGED <<client, user, hidden, rpc, rset, stdineof, to, froptr, fin, c2s, hold, srv, sfin,
                   term>>

NonbOut ==
    /\ ended = "no" /\ mpc = "out" /\ mpc' = "net"
    /\ \/ "out" \in wset /\ \E k \in printable : prints(k)
       \/ ("out" \notin wset \/ printable = {}) /\ UNCHANGED <<fr, term>>
    /\ UNCHANGED <<client, user, hidden, rpc, sel, to, net, ended>>

NonbNet ==
    /\ ended = "no" /\ mpc = "net" /\ mpc' = "select"
    /\ \/ /\ "net" \in wset /\ toiptr > tooptr
          /\ \E k \in sendable :
               writes(k) /\ fin' = (fin \/ (stdineof /\ tooptr + k = toiptr))
       \/ /\ "net" \notin wset \/ toiptr = tooptr \/ sendable = {}
          /\ UNCHANGED <<to, fin, c2s, sfin>>
    /\ UNCHANGED <<client, user, hidden, rpc, sel, fr, hold, s2c, srv, term, ended>>

-----------------------------------------------------------------------------

MainLoopStep ==
    \/ FgetsLine \/ FgetsEof \/ Writen \/ WriteFails
    \/ Readline("main") \/ Fputs("main", IF client = "str_cli" THEN "fgets" ELSE afterSock)
    \/ Select \/ ReadSock \/ ReadInput
    \/ SelectNonb \/ NonbIn \/ NonbSock \/ NonbOut \/ NonbNet

ReceiverStep == Readline("receiver") \/ Fputs("receiver", "readline")

EchoNext == Type \/ TypeEof \/ Drain \/ str_echo \/ ServerDies \/ MainLoopStep \/ ReceiverStep

EchoSpec == EchoInit /\ [][EchoNext]_echovars

\* The processes run and standard output is read; nothing is assumed of the user,
\* and the server need not die.
EchoFairSpec ==
    /\ EchoSpec
    /\ WF_echovars(MainLoopStep) /\ WF_echovars(ReceiverStep) /\ WF_echovars(str_echo) /\ WF_echovars(Drain)

-----------------------------------------------------------------------------

\* The FIN comes after everything the user typed: no design shuts the connection
\* down with data in a buffer of its own.
FinLast == fin => eof /\ avail = 0 /\ stdio = 0 /\ toiptr = tooptr

\* A client that ends without a complaint has printed the echo of all input, but for
\* strcliselect01, which leaves at the end of input, and for what strclinonb still
\* has in fr[] because standard output would have blocked.
AllPrinted ==
    ended \in {"return", "killed"} /\ srv # "dead" /\ client # "select01" =>
        printed + (friptr - froptr) = NLines - left

\* Everyone waits for everyone: the client writes, the server writes, nobody reads.
Standstill == mpc = "writen" /\ c2s = Cap /\ hold > 0 /\ s2c = Cap

\* When the input ends the client ends.  With select() and blocking writes it may
\* come to a standstill; the others never do.
InputEndIsEnd == eof ~> ended # "no" \/ (client \in {"select01", "select02"} /\ Standstill) \/ srv = "dead"

\* The death of the server is noticed although the user types nothing, by all but
\* str_cli(), which waits for the user, and strclifork after a RST, whose child then
\* leaves without telling its parent.
DeathNoticed ==
    srv = "dead" /\ client # "str_cli" ~> ended # "no" \/ (client = "fork" /\ sfin = "rst")

\* Types with buffer pointers that never cross, a FIN that never overtakes data, and
\* all of the echo printed at a normal end.
NothingLost == EchoTypeOK /\ FinLast /\ AllPrinted
=============================================================================
