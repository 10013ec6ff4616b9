----------------------------- MODULE HttpWrite ------------------------------
(***************************************************************************)
(* How ch15_pool/thread_pool/http_conn.cpp sends a response: do_request()  *)
(* maps the file, process_write() prepares the header in m_write_buf and   *)
(* the iovec m_iv, write() sends them with writev() on a non-blocking      *)
(* socket, over several EPOLLOUT events when the socket's buffer is full.  *)
(*                                                                         *)
(* A response is m_write_idx bytes of header (and the short body of an     *)
(* error), then the file.  Of the bytes given to the socket the model keeps *)
(* how many they are while they are a prefix of the response.              *)
(*                                                                         *)
(* The object serves one connection after the other, as users[connfd] does. *)
(* The mapping made for the n-th response is the number n.                 *)
(***************************************************************************)
EXTENDS Integers, FiniteSetsExt

CONSTANTS
    Headers,      \* lengths process_write() may put into m_write_buf
    Files,        \* sizes of the files served, not 0 (an empty file gets a fixed page)
    SendBuffer,   \* capacity of the socket's send buffer
    LowWater,     \* room in it from which on the kernel reports EPOLLOUT
    MaxResponses  \* bound: responses of one object, over all its connections

ASSUME WriteAssumption ==
    /\ Headers \subseteq Nat \ {0} /\ Files \subseteq Nat \ {0}
    /\ SendBuffer \in Nat \ {0} /\ LowWater \in 1..SendBuffer /\ MaxResponses \in Nat

VARIABLES
    m_write_idx,     \* bytes in m_write_buf
    file,            \* m_iv[1].iov_len, or 0 when m_iv_count = 1
    m_file_address,  \* Null, MAP_FAILED or a mapping, perhaps one of an earlier response
    mapped,          \* the mappings that exist
    abandoned,       \* the mappings whose response was cut short by close_conn()
    linger,          \* m_linger
    bytes_to_send,   \* local variable of write()
    space,           \* room in the socket's send buffer
    roomy,           \* did the first writev() of this response have room for all of it
    total,           \* length of the current response
    wire,            \* bytes sent: the first `wire' of the response, or -1 if garbled
    responses, wpc   \* "in": EPOLLIN armed, "out": EPOLLOUT armed, "writev", "closed"

ghosts == <<roomy, total, wire>>
buffers == <<m_write_idx, file, linger>>
mapping == <<m_file_address, mapped>>
writevars == <<buffers, mapping, abandoned, bytes_to_send, space, ghosts, responses, wpc>>

Null       == 0
MAP_FAILED == -1

Total == m_write_idx + file

\* the first n bytes of the response follow what is on the wire already
Sent(n) == IF wire = 0 THEN n ELSE -1

WriteTypeOK ==
    /\ m_write_idx \in Headers \cup {0} /\ file \in Files \cup {0}
    /\ m_file_address \in {Null, MAP_FAILED} \cup 1..responses
    /\ mapped \subseteq 1..responses /\ abandoned \subseteq 1..responses
    /\ linger \in BOOLEAN /\ roomy \in BOOLEAN
    /\ bytes_to_send \in Int /\ space \in 0..SendBuffer /\ wire \in Int /\ total \in Nat
    /\ responses \in 0..MaxResponses
    /\ wpc \in {"in", "out", "writev", "closed"}

\* the object as `new' makes it, in fresh and so zero memory, and its first
\* connection; init() itself does not touch m_file_address
WriteInit ==
    /\ m_write_idx = 0 /\ file = 0 /\ linger = FALSE
    /\ m_file_address = Null /\ mapped = {} /\ abandoned = {}
    /\ bytes_to_send = 0 /\ space = SendBuffer /\ roomy = TRUE /\ wire = 0 /\ total = 0
    /\ responses = 0 /\ wpc = "in"

\* do_request() for response n: the file is mapped, whatever m_file_address was;
\* mmap() of an empty file fails; an error response leaves the old pointer
do_request(n) ==
    \/ file' \in Files /\ m_file_address' = n /\ mapped' = mapped \cup {n}
    \/ file' = 0 /\ m_file_address' = MAP_FAILED /\ UNCHANGED mapped
    \/ file' = 0 /\ UNCHANGED mapping

\* process_write(): add_response() appends at m_write_idx; every response fits
\* into m_write_buf, so it does not fail
process_write == \E len \in Headers : m_write_idx' = m_write_idx + len

\* a worker's process() of a complete request, and modfd(EPOLLOUT)
process ==
    /\ wpc = "in" /\ responses < MaxResponses
    /\ responses' = responses + 1 /\ wire' = 0 /\ wpc' = "out"
    /\ linger' \in BOOLEAN
    /\ do_request(responses') /\ process_write
    /\ total' = m_write_idx' + file'
    /\ UNCHANGED <<abandoned, bytes_to_send, space, roomy>>

\* unmap(): munmap() has the size of the last file that was looked at.  With the
\* pointer of an earlier response that is another file's, and any part of the
\* mappings may go; munmap(MAP_FAILED) changes nothing.
unmap ==
    /\ m_file_address' = Null
    /\ \/ m_file_address = responses /\ mapped' = mapped \ {responses}
       \/ m_file_address \in 1..(responses - 1) /\ mapped' \in SUBSET mapped
       \/ m_file_address \in {Null, MAP_FAILED} /\ UNCHANGED mapped

\* EPOLLOUT: the main thread enters write(), which starts to count afresh
WriteEnter ==
    /\ wpc = "out" /\ space >= LowWater
    /\ bytes_to_send' = m_write_idx
    /\ roomy' = (IF wire = 0 THEN space >= Total ELSE roomy)
    /\ wpc' = "writev"
    /\ UNCHANGED <<buffers, mapping, abandoned, space, total, wire, responses>>

\* mutant: m_write_idx is not reset for the next response
FinishKeepsIndex ==
    /\ unmap
    /\ wpc' = IF linger THEN "in" ELSE "closed"
    /\ IF linger THEN linger' = FALSE /\ UNCHANGED <<m_write_idx, file>>
                   ELSE UNCHANGED buffers

\* the response is on its way: unmap(), then keep the connection or close it
Finish ==
    /\ unmap
    /\ wpc' = IF linger THEN "in" ELSE "closed"
    /\ IF linger THEN m_write_idx' = 0 /\ linger' = FALSE /\ UNCHANGED file
                   ELSE UNCHANGED buffers

\* mutant: the file is unmapped as soon as part of the response is sent
WritevUnmapsEarly ==
    /\ wpc = "writev" /\ space > 0
    /\ LET n == Min({space, Total})
       IN /\ wire' = Sent(n)
          /\ space' = space - n
          /\ bytes_to_send' = bytes_to_send - n
    /\ \/ bytes_to_send' <= 0 /\ Finish
       \/ bytes_to_send' > 0 /\ unmap /\ UNCHANGED <<buffers, wpc>>
    /\ UNCHANGED <<abandoned, roomy, total, responses>>

\* mutant: the loop ends only when exactly nothing is left
WritevUntilZero ==
    /\ wpc = "writev" /\ space > 0
    /\ LET n == Min({space, Total})
       IN /\ wire' = Sent(n)
          /\ space' = space - n
          /\ bytes_to_send' = bytes_to_send - n
    /\ \/ bytes_to_send' = 0 /\ Finish
       \/ bytes_to_send' # 0 /\ UNCHANGED <<buffers, mapping, wpc>>
    /\ UNCHANGED <<abandoned, roomy, total, responses>>

\* writev() takes what fits, always from the start of m_iv
Writev ==
    /\ wpc = "writev" /\ space > 0
    /\ LET n == Min({space, Total})
       IN /\ wire' = Sent(n)
          /\ space' = space - n
          /\ bytes_to_send' = bytes_to_send - n
    /\ \/ bytes_to_send' <= 0 /\ Finish
       \/ bytes_to_send' > 0 /\ UNCHANGED <<buffers, mapping, wpc>>
    /\ UNCHANGED <<abandoned, roomy, total, responses>>

\* EAGAIN: modfd(EPOLLOUT), return true
WritevAgain ==
    /\ wpc = "writev" /\ space = 0
    /\ wpc' = "out"
    /\ UNCHANGED <<buffers, mapping, abandoned, bytes_to_send, space, ghosts, responses>>

\* mutant: an error leaves the mapping to close_conn()
WritevFailsKeepsMapping ==
    /\ wpc = "writev"
    /\ wpc' = "closed"
    /\ UNCHANGED <<buffers, mapping, abandoned, bytes_to_send, space, ghosts, responses>>

\* any other error: unmap(), return false, the caller closes
WritevFails ==
    /\ wpc = "writev"
    /\ unmap /\ wpc' = "closed"
    /\ UNCHANGED <<buffers, abandoned, bytes_to_send, space, ghosts, responses>>

\* EPOLLRDHUP, EPOLLHUP or EPOLLERR while an event is armed: close_conn(), which
\* does not unmap; m_file_address keeps pointing to what was mapped
HangUp ==
    /\ wpc \in {"in", "out"} /\ wpc' = "closed"
    /\ abandoned' = abandoned \cup (IF wpc = "out" THEN mapped \cap {responses} ELSE {})
    /\ UNCHANGED <<buffers, mapping, bytes_to_send, space, ghosts, responses>>

\* another client gets the descriptor and with it the object: init() resets the
\* indices and m_linger, but neither m_file_address nor m_iv
Reconnect ==
    /\ wpc = "closed" /\ wpc' = "in"
    /\ m_write_idx' = 0 /\ linger' = FALSE
    /\ space' = SendBuffer /\ roomy' = TRUE /\ total' = 0 /\ wire' = 0
    /\ UNCHANGED <<file, mapping, abandoned, bytes_to_send, responses>>

\* the peer's acknowledgements make room
Drain ==
    /\ space < SendBuffer /\ space' \in (space + 1)..SendBuffer
    /\ UNCHANGED <<buffers, mapping, abandoned, bytes_to_send, ghosts, responses, wpc>>

write == WriteEnter \/ Writev \/ WritevAgain \/ WritevFails

WriteNext == process \/ write \/ HangUp \/ Reconnect \/ Drain

WriteSpec == WriteInit /\ [][WriteNext]_writevars

-----------------------------------------------------------------------------
Finished == wpc = "in" /\ responses > 0
Sending  == wpc \in {"out", "writev"}

\* When the socket's buffer has room for the whole response as write() is
\* entered, the client receives it: every byte, once, in order.
IntactWithRoom == Finished /\ roomy => wire = total

\* The file of a response is mapped from do_request() to the last writev() that
\* reads it, over any number of EAGAINs, also in an object that still has the
\* pointer of an earlier connection: no unmap() meant for that one takes it away.
MappedWhileSent == Sending /\ file # 0 => m_file_address = responses /\ responses \in mapped

\* Whichever exit write() takes, the mapping goes with its response: the only ones
\* that outlive it are those of connections that hung up in the middle of one.
GivenBack == mapped \subseteq abandoned \cup (IF Sending THEN {responses} ELSE {})

\* Types, and a mapping that is there while its response is sent and is given
\* back with it, except after a hang-up.
WriterInv == WriteTypeOK /\ MappedWhileSent /\ GivenBack
=============================================================================
