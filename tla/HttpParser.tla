----------------------------- MODULE HttpParser -----------------------------
(***************************************************************************)
(* The request parser of ch15_pool/thread_pool/http_conn.cpp: read() fills *)
(* m_read_buf with whatever has arrived, process_read() resumes the two    *)
(* state machines (parse_line, and the request/header/content states)      *)
(* where the previous call left them.                                      *)
(*                                                                         *)
(* A byte of the request is "cr", "lf", or a symbol that stands for text   *)
(* without line ends: "req" a valid request line, a member of Lengths a    *)
(* Content-Length header, "keep" a Connection: keep-alive header, "x" any  *)
(* other text or a byte of the body.  Indices are those of the code, from  *)
(* 0; an int is in -(INT_MAX + 1)..INT_MAX and wraps around.               *)
(***************************************************************************)
EXTENDS Integers, Sequences, FiniteSetsExt

CONSTANTS
    READ_BUFFER_SIZE,
    INT_MAX,
    Lengths,   \* the Content-Length headers clients send
    atoi,      \* the int that atoi() makes of each of them, of any sign and size
    Segments   \* the pieces of text clients put the parts of a request together from

Bytes == {"req", "keep", "x", "cr", "lf"} \cup Lengths
ints  == -(INT_MAX + 1)..INT_MAX
Parts == {"first line", "headers", "rest"}

ASSUME ParserAssumption ==
    /\ READ_BUFFER_SIZE \in Nat \ {0} /\ INT_MAX \in Nat /\ 2 * READ_BUFFER_SIZE <= INT_MAX
    /\ Lengths \cap {"req", "keep", "x", "cr", "lf"} = {}
    /\ DOMAIN atoi = Lengths /\ \A l \in Lengths : atoi[l] \in ints
    /\ DOMAIN Segments = Parts
    /\ \A p \in Parts : Segments[p] \subseteq Seq(Bytes) \ {<<>>}

VARIABLES
    feed,             \* what the client has still to send of its current piece
    m_read_buf,       \* the bytes read; m_read_idx is its length
    m_checked_idx, m_start_line, m_check_state, m_content_length, m_linger,
    line_status,      \* local variable of process_read()
    ret,              \* what process_read() returned last
    pc                \* "wait" for EPOLLIN, "read", "parse", "respond", or
                      \* "undefined" after a write outside m_read_buf

parser == <<m_checked_idx, m_start_line, m_check_state, m_content_length, m_linger>>
vars == <<feed, m_read_buf, parser, line_status, ret, pc>>

m_read_idx == Len(m_read_buf)
At(i) == m_read_buf[i + 1]

CheckStates == {"REQUESTLINE", "HEADER", "CONTENT"}
LineStatus  == {"LINE_OK", "LINE_BAD", "LINE_OPEN"}

TypeOK ==
    /\ m_read_buf \in Seq(Bytes)
    /\ m_checked_idx \in Nat /\ m_start_line \in Nat
    /\ m_check_state \in CheckStates
    /\ m_content_length \in ints /\ m_linger \in BOOLEAN
    /\ line_status \in LineStatus
    /\ ret \in {"NO_REQUEST", "GET_REQUEST", "BAD_REQUEST"}
    /\ pc \in {"wait", "read", "parse", "respond", "undefined"}

\* http_conn::init()
init ==
    /\ m_check_state' = "REQUESTLINE" /\ m_linger' = FALSE
    /\ m_content_length' = 0 /\ m_start_line' = 0 /\ m_checked_idx' = 0
    /\ m_read_buf' = <<>>

Init ==
    /\ m_check_state = "REQUESTLINE" /\ m_linger = FALSE
    /\ m_content_length = 0 /\ m_start_line = 0 /\ m_checked_idx = 0
    /\ m_read_buf = <<>>
    /\ feed = <<>> /\ line_status = "LINE_OK" /\ ret = "NO_REQUEST" /\ pc = "wait"

-----------------------------------------------------------------------------
(* Line ends of a buffer b (positions from 1) *)

EOL(b) == {i \in 1..(Len(b) - 1) : b[i] = "cr" /\ b[i + 1] = "lf"}

\* a '\r' or '\n' that is not part of a "\r\n"; a last '\r' may still become one
Stray(b) == {i \in 1..Len(b) : \/ b[i] = "cr" /\ i < Len(b) /\ b[i + 1] # "lf"
                               \/ b[i] = "lf" /\ (i = 1 \/ b[i - 1] # "cr")}

\* the "\r\n" of the first empty line after the request line
Blank(b) == {i \in EOL(b) : i - 2 \in EOL(b) /\ \A j \in EOL(b) : j < i => j - 2 \notin EOL(b)}

-----------------------------------------------------------------------------
(* read(): recv() until EAGAIN, a full buffer, or the end of the stream *)

\* the part of the request the client is in
part == IF m_read_buf = <<>> THEN "first line"
        ELSE IF Blank(m_read_buf) = {} THEN "headers" ELSE "rest"

recv ==
    /\ pc \in {"wait", "read"} /\ m_read_idx < READ_BUFFER_SIZE
    /\ \E piece \in IF feed = <<>> THEN Segments[part] ELSE {feed} :
         /\ m_read_buf' = Append(m_read_buf, Head(piece))
         /\ feed' = Tail(piece)
    /\ pc' = "read"
    /\ UNCHANGED <<parser, line_status, ret>>

\* mutant: read() also stops, successfully, when the buffer is full
ReadDoneFull ==
    /\ pc = "read"
    /\ pc' = "parse" /\ line_status' = "LINE_OK"
    /\ UNCHANGED <<feed, m_read_buf, parser, ret>>

\* EAGAIN: the connection goes to the pool, whose worker calls process_read()
ReadDone ==
    /\ pc = "read" /\ m_read_idx < READ_BUFFER_SIZE
    /\ pc' = "parse" /\ line_status' = "LINE_OK"
    /\ UNCHANGED <<feed, m_read_buf, parser, ret>>

\* close_conn(); the next client that gets the object starts with init()
Reopen == init /\ feed' = <<>> /\ ret' = "NO_REQUEST" /\ pc' = "wait" /\ UNCHANGED line_status

\* recv() into a full buffer has length 0 and returns 0, as it does at the end
\* of the stream: read() is false and the connection is closed
ReadFails == pc \in {"wait", "read"} /\ Reopen

-----------------------------------------------------------------------------
(* parse_line(): the status of the next line and the new m_checked_idx *)

Line(status, idx) == [status |-> status, idx |-> idx]

\* mutant: a '\r' at the end of the buffer is skipped over
parse_line_skips ==
    LET ends == {i \in m_checked_idx..(m_read_idx - 1) : At(i) \in {"cr", "lf"}}
        i == Min(ends)
    IN CASE ends = {} -> Line("LINE_OPEN", m_read_idx)
         [] ends # {} /\ At(i) = "cr" /\ i + 1 = m_read_idx -> Line("LINE_OPEN", m_read_idx)
         [] ends # {} /\ At(i) = "cr" /\ i + 1 < m_read_idx ->
                IF At(i + 1) = "lf" THEN Line("LINE_OK", i + 2) ELSE Line("LINE_BAD", i)
         [] ends # {} /\ At(i) = "lf" -> Line("LINE_BAD", i)

parse_line ==
    LET ends == {i \in m_checked_idx..(m_read_idx - 1) : At(i) \in {"cr", "lf"}}
        i == Min(ends)
    IN CASE ends = {} -> Line("LINE_OPEN", m_read_idx)
         [] ends # {} /\ At(i) = "cr" /\ i + 1 = m_read_idx -> Line("LINE_OPEN", i)
         [] ends # {} /\ At(i) = "cr" /\ i + 1 < m_read_idx ->
                IF At(i + 1) = "lf" THEN Line("LINE_OK", i + 2) ELSE Line("LINE_BAD", i)
         [] ends # {} /\ At(i) = "lf" ->
                IF i >= 1 /\ At(i - 1) = "cr" THEN Line("LINE_OK", i + 1) ELSE Line("LINE_BAD", i)

\* get_line(): the text of the line that ends before idx, its "\r\n" cut off
text(idx) == SubSeq(m_read_buf, m_start_line + 1, idx - 2)

-----------------------------------------------------------------------------
(* process_read(): one action per way through its loop *)

return(code) == ret' = code /\ pc' = (IF code = "NO_REQUEST" THEN "wait" ELSE "respond")

\* the loop goes on with another line
NextLine(idx) ==
    /\ m_start_line' = idx /\ m_checked_idx' = idx
    /\ UNCHANGED <<feed, m_read_buf>>

\* `while' looks for a line except right after it has entered CONTENT
InContent == m_check_state = "CONTENT" /\ line_status = "LINE_OK"

\* parse_line() is not LINE_OK: process_read() returns NO_REQUEST, for an
\* incomplete line and for LINE_BAD alike
NoLine ==
    /\ pc = "parse" /\ ~InContent /\ parse_line.status # "LINE_OK"
    /\ line_status' = parse_line.status /\ m_checked_idx' = parse_line.idx
    /\ return("NO_REQUEST")
    /\ UNCHANGED <<feed, m_read_buf, m_start_line, m_check_state, m_content_length, m_linger>>

\* parse_request_line()
RequestLine ==
    /\ pc = "parse" /\ m_check_state = "REQUESTLINE" /\ parse_line.status = "LINE_OK"
    /\ line_status' = "LINE_OK"
    /\ NextLine(parse_line.idx)
    /\ \/ /\ text(parse_line.idx) = <<"req">>
          /\ m_check_state' = "HEADER"
          /\ UNCHANGED <<ret, pc>>
       \/ /\ text(parse_line.idx) # <<"req">>
          /\ return("BAD_REQUEST")
          /\ UNCHANGED m_check_state
    /\ UNCHANGED <<m_content_length, m_linger>>

\* parse_headers(): a header
Header ==
    /\ pc = "parse" /\ m_check_state = "HEADER" /\ parse_line.status = "LINE_OK"
    /\ text(parse_line.idx) # <<>>
    /\ line_status' = "LINE_OK"
    /\ NextLine(parse_line.idx)
    /\ m_linger' = (m_linger \/ text(parse_line.idx) = <<"keep">>)
    /\ m_content_length' = IF Head(text(parse_line.idx)) \in Lengths
                             THEN atoi[Head(text(parse_line.idx))] ELSE m_content_length
    /\ UNCHANGED <<m_check_state, ret, pc>>

\* mutant: any short line ends the headers
LastHeaderEarly ==
    /\ pc = "parse" /\ m_check_state = "HEADER" /\ parse_line.status = "LINE_OK"
    /\ Len(text(parse_line.idx)) <= 1
    /\ line_status' = "LINE_OK"
    /\ NextLine(parse_line.idx)
    /\ return("GET_REQUEST")
    /\ UNCHANGED <<m_check_state, m_content_length, m_linger>>

\* parse_headers(): the empty line
LastHeader ==
    /\ pc = "parse" /\ m_check_state = "HEADER" /\ parse_line.status = "LINE_OK"
    /\ text(parse_line.idx) = <<>>
    /\ line_status' = "LINE_OK"
    /\ NextLine(parse_line.idx)
    /\ \/ /\ m_content_length = 0
          /\ return("GET_REQUEST")
          /\ UNCHANGED m_check_state
       \/ /\ m_content_length # 0
          /\ m_check_state' = "CONTENT"
          /\ UNCHANGED <<ret, pc>>
    /\ UNCHANGED <<m_content_length, m_linger>>

\* the int sum of two ints, the second not negative
add(m, n) == IF m + n > INT_MAX THEN m + n - 2 * (INT_MAX + 1) ELSE m + n

\* text[m_content_length] = '\0', text the line get_line() returned
Terminate ==
    \/ /\ m_start_line + m_content_length \in 0..(READ_BUFFER_SIZE - 1)
       /\ return("GET_REQUEST")
    \/ /\ m_start_line + m_content_length \notin 0..(READ_BUFFER_SIZE - 1)
       /\ pc' = "undefined" /\ UNCHANGED ret

\* mutant: the body is measured from the start of the buffer
ContentFromStart ==
    /\ pc = "parse" /\ m_check_state = "CONTENT"
    /\ InContent \/ parse_line.status = "LINE_OK"
    /\ NextLine(IF InContent THEN m_checked_idx ELSE parse_line.idx)
    /\ IF m_read_idx >= m_content_length
         THEN Terminate /\ UNCHANGED line_status
         ELSE line_status' = "LINE_OPEN" /\ UNCHANGED <<ret, pc>>
    /\ UNCHANGED <<m_check_state, m_content_length, m_linger>>

\* mutant: an incomplete body does not end the loop
ContentSpins ==
    /\ pc = "parse" /\ m_check_state = "CONTENT"
    /\ InContent \/ parse_line.status = "LINE_OK"
    /\ LET idx == IF InContent THEN m_checked_idx ELSE parse_line.idx
       IN /\ NextLine(idx)
          /\ IF m_read_idx >= add(m_content_length, idx)
               THEN Terminate /\ UNCHANGED line_status
               ELSE line_status' = "LINE_OK" /\ UNCHANGED <<ret, pc>>
    /\ UNCHANGED <<m_check_state, m_content_length, m_linger>>

\* parse_content(), and line_status = LINE_OPEN when the body is incomplete;
\* after that the loop hunts for line ends in the body
Content ==
    /\ pc = "parse" /\ m_check_state = "CONTENT"
    /\ InContent \/ parse_line.status = "LINE_OK"
    /\ LET idx == IF InContent THEN m_checked_idx ELSE parse_line.idx
       IN /\ NextLine(idx)
          /\ IF m_read_idx >= add(m_content_length, idx)
               THEN Terminate /\ UNCHANGED line_status
               ELSE line_status' = "LINE_OPEN" /\ UNCHANGED <<ret, pc>>
    /\ UNCHANGED <<m_check_state, m_content_length, m_linger>>

\* the response is written: init() and wait for the next request, or close
Respond ==
    /\ pc = "respond"
    /\ \/ /\ m_linger
          /\ init /\ ret' = "NO_REQUEST" /\ pc' = "wait"
          /\ UNCHANGED <<feed, line_status>>
       \/ ~m_linger /\ Reopen

process_read == NoLine \/ RequestLine \/ Header \/ LastHeader \/ Content

Next == recv \/ ReadDone \/ ReadFails \/ process_read \/ Respond

Spec == Init /\ [][Next]_vars

\* the worker runs and process_read() is not abandoned half way
FairSpec == Spec /\ WF_vars(process_read)

-----------------------------------------------------------------------------
(* What the bytes read so far say, without any state machine: the verdict   *)
(* on a whole buffer b (positions from 1).                                  *)

\* ends \in EOL(b) before any stray line end
Clean(b, i) == \A s \in Stray(b) : i < s

\* the Content-Length headers before e; the last one counts
LengthHeaders(b, e) == {i \in EOL(b) : i + 2 < e /\ b[i + 2] \in Lengths}
BodyLength(b, e) ==
    IF LengthHeaders(b, e) = {} THEN 0 ELSE atoi[b[Max(LengthHeaders(b, e)) + 2]]

BadRequestLine(b) ==
    \E i \in EOL(b) : i = Min(EOL(b)) /\ Clean(b, i) /\ SubSeq(b, 1, i - 1) # <<"req">>

\* a stray line end in the request line or the headers
BadLine(b) == Stray(b) # {} /\ \A e \in Blank(b) : ~Clean(b, e)

\* Either of them is a syntax error, for which http_conn.h has BAD_REQUEST.
Verdict(b) ==
    CASE BadRequestLine(b) \/ BadLine(b) -> "BAD_REQUEST"
      [] /\ ~BadRequestLine(b) /\ ~BadLine(b)
         /\ \E e \in Blank(b) : Len(b) >= e + 1 + BodyLength(b, e)
           -> "GET_REQUEST"
      [] OTHER -> "NO_REQUEST"

Returned == pc \in {"wait", "respond"}

\* However the request is cut into pieces by the network, process_read() never
\* answers it before all of it has arrived, and never rejects a good one.
VerdictSound == Returned /\ ret # "NO_REQUEST" => ret = Verdict(m_read_buf)

\* A request without a body is recognised as soon as its last byte has been
\* read, whatever the pieces: the saved indices lose nothing, not even a
\* "\r\n" split between two recv() calls.  (A bad line, which parse_line() finds,
\* and a body in pieces are what process_read() does not recognise.)
VerdictCompleteWithoutBody ==
    Returned /\ m_read_buf # <<>> /\ m_content_length = 0 /\ ~BadLine(m_read_buf)
        => ret = Verdict(m_read_buf)

\* a length for which the sum in parse_content() is that of the numbers
Ordinary(l) == l \in 0..(INT_MAX - READ_BUFFER_SIZE)

\* The indices saved between calls stay in order and inside the buffer, and
\* parse_content() writes its '\0' inside it for every body that can arrive.  It
\* does not look at the range of m_content_length: only for a negative one, or one
\* so near INT_MAX that the sum wraps, does the '\0' fall outside.
IndicesInBuffer ==
    /\ m_start_line <= m_checked_idx /\ m_checked_idx <= m_read_idx
    /\ pc \in {"parse", "respond"} => m_read_idx < READ_BUFFER_SIZE
    /\ pc = "undefined" => ~Ordinary(m_content_length)

\* The loop of process_read() ends, also when it looks for lines in a body.
ParseReturns == (pc = "parse") ~> (pc # "parse")

\* The verdict of the incremental parser is the one on the whole buffer.
VerdictRight == VerdictSound /\ VerdictCompleteWithoutBody

\* Types, and indices that stay in order and inside m_read_buf.
ParserInv == TypeOK /\ IndicesInBuffer
=============================================================================
