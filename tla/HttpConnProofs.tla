--------------------------- MODULE HttpConnProofs ---------------------------
(***************************************************************************)
(* Theorems about how http_conn reads a request and sends a response:      *)
(* HttpParser for any buffer size, any int as Content-Length and any       *)
(* pieces the network may cut a request into, HttpWrite for any header     *)
(* lengths, file sizes and send buffer, over all connections of an object. *)
(***************************************************************************)
EXTENDS HttpParser, HttpWrite, SequenceTheorems, WellFoundedInduction, TLAPS

-----------------------------------------------------------------------------
(* HttpParser                                                              *)

LineEnds == {"cr", "lf"}

-----------------------------------------------------------------------------
(* What the state machines know of the bytes b they have seen (positions    *)
(* from 1), in the words of the buffer itself.                              *)

\* the line that starts after s ends with the "\r\n" before idx
IsLine(b, s, idx) ==
    /\ idx \in (s + 2)..Len(b) /\ b[idx - 1] = "cr" /\ b[idx] = "lf"
    /\ \A p \in (s + 1)..(idx - 2) : b[p] \notin LineEnds

\* the line that starts after s has no end yet, or a stray one after idx
NotALine(b, s, idx) ==
    /\ idx \in s..Len(b)
    /\ \A p \in (s + 1)..idx : b[p] \notin LineEnds
    /\ \/ idx = Len(b)
       \/ idx + 1 = Len(b) /\ b[idx + 1] = "cr"
       \/ idx + 2 <= Len(b) /\ b[idx + 1] = "cr" /\ b[idx + 2] # "lf"
       \/ idx + 1 <= Len(b) /\ b[idx + 1] = "lf" /\ (idx >= 1 => b[idx] # "cr")

\* the first n bytes are whole lines or text, without a stray line end
CleanTo(b, n) ==
    \A p \in 1..n : /\ b[p] = "cr" => p + 1 <= n /\ b[p + 1] = "lf"
                    /\ b[p] = "lf" => p > 1 /\ b[p - 1] = "cr"

RequestLineSeen(b) == b[1] = "req" /\ b[2] = "cr" /\ b[3] = "lf"

\* an empty line whose "\r\n" is at e, after a line that ends at e - 1
EmptyLineAt(b, e) == b[e - 2] = "cr" /\ b[e - 1] = "lf" /\ b[e] = "cr" /\ b[e + 1] = "lf"

NoEmptyLine(b, n) == \A e \in 3..(n - 1) : ~EmptyLineAt(b, e)

\* a Content-Length header follows the "\r\n" at p
LengthLine(b, p) == b[p] = "cr" /\ b[p + 1] = "lf" /\ b[p + 2] \in Lengths

\* l is the length that the header lines in the first n bytes ask for: that of the
\* last Content-Length header, or 0
LengthIs(b, n, l) ==
    \/ l = 0 /\ \A p \in 1..(n - 2) : ~LengthLine(b, p)
    \/ \E p \in 1..(n - 2) : /\ LengthLine(b, p) /\ l = atoi[b[p + 2]]
                            /\ \A q \in 1..(n - 2) : LengthLine(b, q) => q <= p

\* the first s bytes are the request line and headers
HeadersTo(b, s) ==
    /\ s \in 3..Len(b) /\ RequestLineSeen(b) /\ b[s - 1] = "cr" /\ b[s] = "lf"
    /\ CleanTo(b, s) /\ NoEmptyLine(b, s)

\* the headers end with the empty line at e
HeadersEnd(b, e) ==
    /\ e \in 4..(Len(b) - 1) /\ RequestLineSeen(b)
    /\ CleanTo(b, e + 1) /\ EmptyLineAt(b, e) /\ NoEmptyLine(b, e)

-----------------------------------------------------------------------------
(* The operators of the model *)

\* Min picks the least element of any non-empty set of naturals.
LEMMA MinNat ==
  ASSUME NEW S \in SUBSET Nat, S # {}
  PROVE  Min(S) \in S /\ \A y \in S : Min(S) <= y
<1> DEFINE less == {ss \in Nat \X Nat : ss[1] < ss[2]}
<1>1. IsWellFoundedOn(less, Nat)
  BY NatLessThanWellFounded, Zenon DEF OpToRel
<1>2. PICK x \in S : \A y \in S : ~ (<<y, x>> \in less)
  BY <1>1, WFMin
<1>3. \A y \in S : x <= y
  <2> SUFFICES ASSUME NEW y \in S PROVE x <= y
    OBVIOUS
  <2>1. ~ (<<y, x>> \in less)
    BY <1>2
  <2>. QED BY <2>1
<1>. QED BY <1>3 DEF Min

\* What parse_line() finds after m_checked_idx, when the byte before it is not a
\* '\r': the first line end, with only text before it, or none to use.
LEMMA ParseLine ==
  ASSUME m_read_buf \in Seq(Bytes), m_checked_idx \in Nat, m_checked_idx <= m_read_idx,
         m_checked_idx >= 1 => m_read_buf[m_checked_idx] # "cr"
  PROVE  \/ /\ parse_line.status = "LINE_OK"
            /\ IsLine(m_read_buf, m_checked_idx, parse_line.idx)
         \/ /\ parse_line.status \in {"LINE_OPEN", "LINE_BAD"}
            /\ NotALine(m_read_buf, m_checked_idx, parse_line.idx)
<1> DEFINE n == m_read_idx
           c == m_checked_idx
           ends == {i \in c..(n - 1) : At(i) \in {"cr", "lf"}}
           i == Min(ends)
<1>1. n \in Nat /\ c \in Nat /\ \A p \in 1..n : m_read_buf[p] \in Bytes
  BY LenProperties DEF m_read_idx
<1> HIDE DEF n, c
<1>2. CASE ends = {}
  <2>1. \A p \in (c + 1)..n : m_read_buf[p] \notin LineEnds
    <3> SUFFICES ASSUME NEW p \in (c + 1)..n PROVE m_read_buf[p] \notin LineEnds
      OBVIOUS
    <3>1. p - 1 \in c..(n - 1) /\ (p - 1) + 1 = p
      BY <1>1
    <3>2. p - 1 \notin ends
      BY <1>2
    <3>. QED BY <3>1, <3>2 DEF LineEnds, At
  <2>2. parse_line = Line("LINE_OPEN", n)
    BY <1>2 DEF parse_line, n, c
  <2>. QED BY <1>1, <2>1, <2>2 DEF Line, IsLine, NotALine, n, c, m_read_idx
<1>3. CASE ends # {}
  <2>1. /\ i \in c..(n - 1) /\ m_read_buf[i + 1] \in LineEnds
        /\ \A j \in c..(n - 1) : m_read_buf[j + 1] \in LineEnds => i <= j
    <3>1. ends \in SUBSET Nat
      BY <1>1
    <3>2. i \in ends /\ \A y \in ends : i <= y
      BY <1>3, <3>1, MinNat
    <3>. QED BY <3>2 DEF At, LineEnds
  <2> HIDE DEF ends
  <2>2. parse_line = IF m_read_buf[i + 1] = "cr"
                     THEN IF i + 1 = n THEN Line("LINE_OPEN", i)
                          ELSE IF m_read_buf[i + 2] = "lf" THEN Line("LINE_OK", i + 2)
                                                           ELSE Line("LINE_BAD", i)
                     ELSE IF i >= 1 /\ m_read_buf[i] = "cr" THEN Line("LINE_OK", i + 1)
                                                            ELSE Line("LINE_BAD", i)
    <3>1. (i + 1) + 1 = i + 2 /\ (i >= 1 => (i - 1) + 1 = i)
      BY <1>1, <2>1
    <3>2. parse_line =
            CASE ends = {} -> Line("LINE_OPEN", n)
              [] ends # {} /\ At(i) = "cr" /\ i + 1 = n -> Line("LINE_OPEN", i)
              [] ends # {} /\ At(i) = "cr" /\ i + 1 < n ->
                   IF At(i + 1) = "lf" THEN Line("LINE_OK", i + 2) ELSE Line("LINE_BAD", i)
              [] ends # {} /\ At(i) = "lf" ->
                   IF i >= 1 /\ At(i - 1) = "cr" THEN Line("LINE_OK", i + 1) ELSE Line("LINE_BAD", i)
      BY DEF parse_line, n, c, ends
    <3> HIDE DEF i
    <3>3. CASE m_read_buf[i + 1] = "cr" /\ i + 1 = n
      BY <1>1, <1>3, <2>1, <3>1, <3>2, <3>3 DEF At
    <3>4. CASE m_read_buf[i + 1] = "cr" /\ i + 1 < n
      BY <1>1, <1>3, <2>1, <3>1, <3>2, <3>4 DEF At
    <3>5. CASE m_read_buf[i + 1] = "lf"
      BY <1>1, <1>3, <2>1, <3>1, <3>2, <3>5 DEF At
    <3>. QED BY <1>1, <2>1, <3>3, <3>4, <3>5 DEF LineEnds
  <2> HIDE DEF i
  <2>3. \A p \in (c + 1)..i : m_read_buf[p] \notin LineEnds
    <3> SUFFICES ASSUME NEW p \in (c + 1)..i, m_read_buf[p] \in LineEnds PROVE FALSE
      OBVIOUS
    <3>1. p - 1 \in c..(n - 1) /\ (p - 1) + 1 = p
      BY <1>1, <2>1
    <3>2. i <= p - 1
      BY <2>1, <3>1
    <3>. QED BY <1>1, <2>1, <3>2
  <2>4. ~ (i >= 1 /\ m_read_buf[i] = "cr")
    <3> SUFFICES ASSUME i >= 1, m_read_buf[i] = "cr" PROVE FALSE
      OBVIOUS
    <3>1. CASE i = c
      BY <3>1 DEF c
    <3>2. CASE i > c
      <4>1. i \in (c + 1)..i
        BY <1>1, <2>1, <3>2
      <4>. QED BY <2>3, <4>1 DEF LineEnds
    <3>. QED BY <1>1, <2>1, <3>1, <3>2
  <2>5. CASE m_read_buf[i + 1] = "cr" /\ i + 1 = n
    BY <1>1, <2>1, <2>2, <2>3, <2>5 DEF Line, IsLine, NotALine, n, c, m_read_idx
  <2>6. CASE m_read_buf[i + 1] = "cr" /\ i + 1 # n /\ m_read_buf[i + 2] = "lf"
    <3>1. (i + 2) - 1 = i + 1 /\ (i + 2) - 2 = i
      BY <1>1, <2>1
    <3>2. i + 2 \in c..n /\ i + 2 >= c + 2
      BY <1>1, <2>1, <2>6
    <3>3. parse_line = Line("LINE_OK", i + 2)
      BY <2>2, <2>6
    <3>. QED BY <2>3, <2>6, <3>1, <3>2, <3>3 DEF Line, IsLine, NotALine, n, c, m_read_idx
  <2>7. CASE m_read_buf[i + 1] = "cr" /\ i + 1 # n /\ m_read_buf[i + 2] # "lf"
    BY <1>1, <2>1, <2>2, <2>3, <2>7 DEF Line, IsLine, NotALine, n, c, m_read_idx
  <2>8. CASE m_read_buf[i + 1] = "lf"
    BY <1>1, <2>1, <2>2, <2>3, <2>4, <2>8 DEF Line, IsLine, NotALine, n, c, m_read_idx
  <2>. QED BY <2>1, <2>5, <2>6, <2>7, <2>8 DEF LineEnds
<1>. QED BY <1>2, <1>3

\* A line that was looked at in several calls is the line it would have been in
\* one.
LEMMA ScanResumed ==
  ASSUME NEW b \in Seq(Bytes), NEW s \in Nat, NEW c \in Nat, s <= c, NEW idx \in Nat,
         \A p \in (s + 1)..c : b[p] \notin LineEnds
  PROVE  /\ IsLine(b, c, idx) => IsLine(b, s, idx)
         /\ NotALine(b, c, idx) => NotALine(b, s, idx)
<1>1. Len(b) \in Nat
  BY LenProperties
<1>. QED BY <1>1 DEF IsLine, NotALine

\* One more header keeps the lines in order; when its text starts like a
\* Content-Length header it is the one that counts.
LEMMA HeaderLine ==
  ASSUME NEW b \in Seq(Bytes), NEW s \in Nat, NEW idx \in Nat,
         HeadersTo(b, s), IsLine(b, s, idx), idx # s + 2
  PROVE  /\ HeadersTo(b, idx)
         /\ b[s + 1] \in Lengths => LengthIs(b, idx, atoi[b[s + 1]])
         /\ \A l \in Int : LengthIs(b, s, l) /\ b[s + 1] \notin Lengths => LengthIs(b, idx, l)
<1> USE DEF IsLine, HeadersTo, LineEnds
<1>1. Len(b) \in Nat /\ idx > s + 2 /\ idx <= Len(b) /\ s >= 3
  BY LenProperties
<1>2. \A p \in 1..idx : p <= s \/ p \in (s + 1)..(idx - 2) \/ p = idx - 1 \/ p = idx
  BY <1>1
<1>3. CleanTo(b, idx)
  <2> SUFFICES ASSUME NEW p \in 1..idx
               PROVE  /\ b[p] = "cr" => p + 1 <= idx /\ b[p + 1] = "lf"
                      /\ b[p] = "lf" => p > 1 /\ b[p - 1] = "cr"
    BY DEF CleanTo
  <2>1. CASE p <= s
    BY <1>1, <2>1 DEF CleanTo
  <2>2. CASE p \in (s + 1)..(idx - 2)
    BY <2>2
  <2>3. CASE p = idx - 1
    BY <1>1, <2>3
  <2>4. CASE p = idx
    BY <1>1, <2>4
  <2>. QED BY <1>2, <2>1, <2>2, <2>3, <2>4
<1>4. NoEmptyLine(b, idx)
  <2> SUFFICES ASSUME NEW e \in 3..(idx - 1), EmptyLineAt(b, e) PROVE FALSE
    BY DEF NoEmptyLine
  <2>1. CASE e \in 3..(s - 1)
    BY <2>1 DEF NoEmptyLine
  <2>2. CASE e = s
    BY <2>2 DEF EmptyLineAt
  <2>3. CASE e \in (s + 1)..(idx - 2)
    BY <2>3 DEF EmptyLineAt
  <2>4. CASE e = idx - 1
    <3>1. e - 1 = idx - 2 /\ idx - 2 \in (s + 1)..(idx - 2)
      BY <1>1, <2>4
    <3>. QED BY <3>1 DEF EmptyLineAt
  <2>. QED BY <1>1, <2>1, <2>2, <2>3, <2>4
<1>5. \A p \in 1..(idx - 2) : LengthLine(b, p) => p \in 1..(s - 2) \/ p = s - 1
  <2> SUFFICES ASSUME NEW p \in 1..(idx - 2), LengthLine(b, p) PROVE p \in 1..(s - 2) \/ p = s - 1
    OBVIOUS
  <2>1. p # s /\ p \notin (s + 1)..(idx - 2)
    BY DEF LengthLine
  <2>. QED BY <1>1, <2>1
<1>6. s - 1 \in 1..(idx - 2) /\ (s - 1) + 1 = s /\ (s - 1) + 2 = s + 1
  BY <1>1
<1>7. ASSUME b[s + 1] \in Lengths PROVE LengthIs(b, idx, atoi[b[s + 1]])
  <2>1. LengthLine(b, s - 1)
    BY <1>6, <1>7 DEF LengthLine
  <2>2. \A q \in 1..(idx - 2) : LengthLine(b, q) => q <= s - 1
    BY <1>1, <1>5
  <2>. QED BY <1>6, <2>1, <2>2 DEF LengthIs
<1>8. ASSUME NEW l \in Int, LengthIs(b, s, l), b[s + 1] \notin Lengths PROVE LengthIs(b, idx, l)
  <2>1. ~LengthLine(b, s - 1)
    BY <1>6, <1>8 DEF LengthLine
  <2>2. \A p \in 1..(idx - 2) : LengthLine(b, p) => p \in 1..(s - 2)
    BY <1>5, <2>1
  <2>3. \A p \in 1..(s - 2) : p \in 1..(idx - 2)
    BY <1>1
  <2>. QED BY <1>8, <2>2, <2>3 DEF LengthIs
<1>. QED BY <1>1, <1>3, <1>4, <1>7, <1>8

\* An empty line after the headers is the end of them.
LEMMA EmptyLine ==
  ASSUME NEW b \in Seq(Bytes), NEW s \in Nat, HeadersTo(b, s), IsLine(b, s, s + 2)
  PROVE  HeadersEnd(b, s + 1) /\ \A l \in Int : LengthIs(b, s, l) => LengthIs(b, s + 1, l)
<1> USE DEF IsLine, HeadersTo, LineEnds
<1>1. /\ Len(b) \in Nat /\ s >= 3 /\ s + 2 <= Len(b)
      /\ (s + 2) - 1 = s + 1 /\ (s + 1) - 2 = s - 1 /\ (s + 1) - 1 = s /\ (s + 1) + 1 = s + 2
  BY LenProperties
<1>2. b[s + 1] = "cr" /\ b[s + 2] = "lf"
  BY <1>1
<1>3. CleanTo(b, s + 2)
  <2> SUFFICES ASSUME NEW p \in 1..(s + 2)
               PROVE  /\ b[p] = "cr" => p + 1 <= s + 2 /\ b[p + 1] = "lf"
                      /\ b[p] = "lf" => p > 1 /\ b[p - 1] = "cr"
    BY DEF CleanTo
  <2>1. CASE p <= s
    BY <1>1, <2>1 DEF CleanTo
  <2>2. CASE p = s + 1
    BY <1>1, <1>2, <2>2
  <2>3. CASE p = s + 2
    BY <1>1, <1>2, <2>3
  <2>. QED BY <1>1, <2>1, <2>2, <2>3
<1>4. EmptyLineAt(b, s + 1)
  BY <1>1, <1>2 DEF EmptyLineAt
<1>5. NoEmptyLine(b, s + 1)
  <2> SUFFICES ASSUME NEW e \in 3..s, EmptyLineAt(b, e) PROVE FALSE
    BY <1>1 DEF NoEmptyLine
  <2>1. CASE e \in 3..(s - 1)
    BY <2>1 DEF NoEmptyLine
  <2>2. CASE e = s
    BY <2>2 DEF EmptyLineAt
  <2>. QED BY <1>1, <2>1, <2>2
<1>6. ASSUME NEW l \in Int, LengthIs(b, s, l) PROVE LengthIs(b, s + 1, l)
  <2>1. (s + 1) - 2 = s - 1 /\ \A p \in 1..(s - 2) : p \in 1..(s - 1)
    BY <1>1
  <2>2. ASSUME NEW p \in 1..(s - 1), LengthLine(b, p) PROVE p \in 1..(s - 2)
    <3>1. p + 2 # s + 1
      BY <1>2, <2>2, ParserAssumption DEF LengthLine
    <3>. QED BY <1>1, <3>1
  <2>. QED BY <1>6, <2>1, <2>2 DEF LengthIs
<1>. QED BY <1>1, <1>3, <1>4, <1>5, <1>6 DEF HeadersEnd

\* The text of a line of one byte.
LEMMA OneByte ==
  ASSUME NEW b \in Seq(Bytes), Len(b) >= 1
  PROVE  SubSeq(b, 1, 1) = <<b[1]>>
<1>1. Len(b) \in Nat /\ \A p \in 1..Len(b) : b[p] \in Bytes
  BY LenProperties
<1>2. /\ SubSeq(b, 1, 1) \in Seq(Bytes) /\ Len(SubSeq(b, 1, 1)) = 1
      /\ \A i \in 1..1 : SubSeq(b, 1, 1)[i] = b[1 + i - 1]
  <2>1. \A i \in 1..1 : b[i] \in Bytes
    BY <1>1
  <2>2. /\ SubSeq(b, 1, 1) \in Seq(Bytes)
        /\ Len(SubSeq(b, 1, 1)) = IF 1 <= 1 THEN 1 - 1 + 1 ELSE 0
        /\ \A i \in 1..(1 - 1 + 1) : SubSeq(b, 1, 1)[i] = b[1 + i - 1]
    BY <2>1, SubSeqProperties
  <2>. QED BY <2>2
<1>3. <<b[1]>> \in Seq(Bytes) /\ Len(<<b[1]>>) = 1 /\ <<b[1]>>[1] = b[1]
  BY <1>1
<1>4. SubSeq(b, 1, 1)[1] = b[1]
  BY <1>2
<1>5. \A i \in 1..Len(SubSeq(b, 1, 1)) : SubSeq(b, 1, 1)[i] = <<b[1]>>[i]
  BY <1>2, <1>3, <1>4
<1>6. Len(SubSeq(b, 1, 1)) = Len(<<b[1]>>)
  BY <1>2, <1>3
<1>. QED BY <1>2, <1>3, <1>5, <1>6, SeqEqual, Zenon

\* A first line that is a request line is three bytes long here.
LEMMA FirstLine ==
  ASSUME NEW b \in Seq(Bytes), NEW idx \in Nat, IsLine(b, 0, idx), SubSeq(b, 1, idx - 2) = <<"req">>
  PROVE  idx = 3 /\ HeadersTo(b, 3) /\ LengthIs(b, 3, 0)
<1>1. Len(b) \in Nat /\ idx <= Len(b) /\ idx >= 2 /\ \A p \in 1..Len(b) : b[p] \in Bytes
  BY LenProperties DEF IsLine
<1>2. /\ Len(SubSeq(b, 1, idx - 2)) = IF 1 <= idx - 2 THEN (idx - 2) - 1 + 1 ELSE 0
      /\ \A i \in 1..((idx - 2) - 1 + 1) : SubSeq(b, 1, idx - 2)[i] = b[1 + i - 1]
  BY <1>1, SubSeqProperties
<1>3. idx = 3 /\ b[1] = "req"
  <2>1. Len(SubSeq(b, 1, idx - 2)) = 1
    OBVIOUS
  <2>2. idx = 3
    BY <1>1, <1>2, <2>1
  <2>3. <<b[1]>> = <<"req">>
    BY <1>1, <2>2, OneByte
  <2>. QED BY <2>2, <2>3
<1>4. b[2] = "cr" /\ b[3] = "lf"
  BY <1>3 DEF IsLine
<1>5. CleanTo(b, 3)
  BY <1>3, <1>4 DEF CleanTo
<1>6. LengthIs(b, 3, 0)
  BY <1>3 DEF LengthIs, LengthLine
<1>. QED BY <1>1, <1>3, <1>4, <1>5, <1>6 DEF HeadersTo, RequestLineSeen, NoEmptyLine

\* What is known of the bytes read stays true when more arrive.
LEMMA BufferGrows ==
  ASSUME NEW b \in Seq(Bytes), NEW d \in Seq(Bytes), Len(d) >= Len(b),
         \A p \in 1..Len(b) : d[p] = b[p], NEW n \in Nat, n <= Len(b)
  PROVE  /\ HeadersTo(b, n) => HeadersTo(d, n)
         /\ HeadersEnd(b, n) => HeadersEnd(d, n)
         /\ \A l \in Int : LengthIs(b, n, l) => LengthIs(d, n, l)
<1>1. Len(b) \in Nat /\ Len(d) \in Nat
  BY LenProperties
<1>2. ASSUME NEW m \in Nat, m <= Len(b), CleanTo(b, m) PROVE CleanTo(d, m)
  BY <1>1, <1>2 DEF CleanTo
<1>3. ASSUME NoEmptyLine(b, n) PROVE NoEmptyLine(d, n)
  <2> SUFFICES ASSUME NEW e \in 3..(n - 1), EmptyLineAt(d, e) PROVE FALSE
    BY DEF NoEmptyLine
  <2>1. {e - 2, e - 1, e, e + 1} \subseteq 1..Len(b)
    BY <1>1
  <2>2. EmptyLineAt(b, e)
    BY <2>1 DEF EmptyLineAt
  <2>. QED BY <1>3, <2>2 DEF NoEmptyLine
<1>4. ASSUME NEW l \in Int, LengthIs(b, n, l) PROVE LengthIs(d, n, l)
  <2>1. ASSUME NEW p \in 1..(n - 2)
        PROVE  (LengthLine(d, p) <=> LengthLine(b, p)) /\ d[p + 2] = b[p + 2]
    <3>1. {p, p + 1, p + 2} \subseteq 1..Len(b)
      BY <1>1
    <3>. QED BY <3>1 DEF LengthLine
  <2>. QED BY <1>4, <2>1 DEF LengthIs
<1>5. ASSUME HeadersTo(b, n) PROVE HeadersTo(d, n)
  BY <1>1, <1>2, <1>3, <1>5 DEF HeadersTo, RequestLineSeen
<1>6. ASSUME HeadersEnd(b, n) PROVE HeadersEnd(d, n)
  <2>1. n + 1 <= Len(b)
    BY <1>1, <1>6 DEF HeadersEnd
  <2>. QED BY <1>1, <1>2, <1>3, <1>6, <2>1 DEF HeadersEnd, RequestLineSeen, EmptyLineAt
<1>. QED BY <1>4, <1>5, <1>6

-----------------------------------------------------------------------------
(* The verdict on the whole buffer, from what the state machines know *)

\* A whole first line that is not a request line is a bad request.
LEMMA BadVerdict ==
  ASSUME NEW b \in Seq(Bytes), NEW idx \in Nat, IsLine(b, 0, idx), SubSeq(b, 1, idx - 2) # <<"req">>
  PROVE  Verdict(b) = "BAD_REQUEST"
<1> DEFINE i == idx - 1
<1> USE DEF IsLine, LineEnds
<1>1. Len(b) \in Nat /\ i \in 1..(Len(b) - 1) /\ i + 1 = idx /\ i - 1 = idx - 2
  BY LenProperties
<1>2. i \in EOL(b)
  BY <1>1 DEF EOL
<1>3. \A j \in EOL(b) : i <= j
  BY <1>1 DEF EOL
<1>4. i = Min(EOL(b))
  <2>1. EOL(b) \in SUBSET Nat
    BY <1>1 DEF EOL
  <2>2. Min(EOL(b)) \in EOL(b) /\ Min(EOL(b)) <= i
    BY <1>2, <2>1, MinNat
  <2>. QED BY <1>1, <1>3, <2>1, <2>2
<1>5. Clean(b, i)
  <2> SUFFICES ASSUME NEW p \in Stray(b) PROVE i < p
    BY DEF Clean
  <2>1. p \in 1..Len(b) /\ b[p] \in LineEnds
    BY DEF Stray
  <2>2. p \notin 1..(idx - 2)
    BY <2>1
  <2>3. p # i
    BY <1>1 DEF Stray
  <2>. QED BY <1>1, <2>1, <2>2, <2>3
<1>6. SubSeq(b, 1, i - 1) # <<"req">>
  BY <1>1
<1>7. BadRequestLine(b)
  BY <1>2, <1>4, <1>5, <1>6 DEF BadRequestLine
<1>. QED BY <1>7 DEF Verdict

\* After a request line there is no bad request.
LEMMA NotBad ==
  ASSUME NEW b \in Seq(Bytes), Len(b) >= 3, RequestLineSeen(b)
  PROVE  ~BadRequestLine(b)
<1>1. Len(b) \in Nat /\ \A p \in 1..Len(b) : b[p] \in Bytes
  BY LenProperties
<1>2. 2 \in EOL(b) /\ 1 \notin EOL(b)
  BY <1>1 DEF EOL, RequestLineSeen
<1>3. Min(EOL(b)) = 2
  <2>1. EOL(b) \in SUBSET Nat /\ \A k \in EOL(b) : k >= 1
    BY <1>1 DEF EOL
  <2>2. Min(EOL(b)) \in EOL(b) /\ Min(EOL(b)) <= 2
    BY <1>2, <2>1, MinNat
  <2>. QED BY <1>2, <2>1, <2>2
<1>4. SubSeq(b, 1, 1) = <<"req">>
  BY <1>1, OneByte DEF RequestLineSeen
<1>. QED BY <1>3, <1>4 DEF BadRequestLine

\* Headers that have ended, with their body, are a request.
LEMMA GetVerdict ==
  ASSUME NEW b \in Seq(Bytes), NEW e \in Nat, HeadersEnd(b, e),
         NEW l \in Int, LengthIs(b, e, l), Len(b) >= e + 1 + l
  PROVE  Verdict(b) = "GET_REQUEST"
<1> USE DEF HeadersEnd, EmptyLineAt
<1>1. Len(b) \in Nat /\ e >= 4 /\ e + 1 <= Len(b)
  BY LenProperties
<1>2. e \in EOL(b) /\ e - 2 \in EOL(b)
  BY <1>1 DEF EOL
<1>3. \A j \in EOL(b) : j < e => j - 2 \notin EOL(b)
  <2> SUFFICES ASSUME NEW j \in EOL(b), j < e, j - 2 \in EOL(b) PROVE FALSE
    OBVIOUS
  <2>1. /\ j \in 3..(e - 1) /\ (j - 2) + 1 = j - 1
        /\ b[j] = "cr" /\ b[j + 1] = "lf" /\ b[j - 2] = "cr" /\ b[(j - 2) + 1] = "lf"
    BY <1>1 DEF EOL
  <2>. QED BY <2>1 DEF NoEmptyLine
<1>4. e \in Blank(b) /\ \A d \in Blank(b) : d = e
  <2>1. e \in Blank(b)
    BY <1>2, <1>3 DEF Blank
  <2>2. ASSUME NEW d \in Blank(b) PROVE d = e
    <3>1. d \in EOL(b) /\ d - 2 \in EOL(b) /\ \A j \in EOL(b) : j < d => j - 2 \notin EOL(b)
      BY DEF Blank
    <3>2. d \in Nat
      BY <1>1, <3>1 DEF EOL
    <3>. QED BY <1>1, <1>2, <1>3, <3>1, <3>2
  <2>. QED BY <2>1, <2>2
<1>5. Clean(b, e)
  <2> SUFFICES ASSUME NEW p \in Stray(b), p <= e PROVE FALSE
    BY <1>1 DEF Clean, Stray
  <2>. QED BY <1>1 DEF Stray, CleanTo
<1>6. \A p : p \in LengthHeaders(b, e) <=> p \in 1..(e - 2) /\ LengthLine(b, p)
  <2>1. ASSUME NEW p \in LengthHeaders(b, e) PROVE p \in 1..(e - 2) /\ LengthLine(b, p)
    BY <1>1 DEF LengthHeaders, LengthLine, EOL
  <2>2. ASSUME NEW p \in 1..(e - 2), LengthLine(b, p) PROVE p \in LengthHeaders(b, e)
    <3>1. p + 2 # e
      BY <2>2, ParserAssumption DEF LengthLine
    <3>. QED BY <1>1, <2>2, <3>1 DEF LengthHeaders, LengthLine, EOL
  <2>. QED BY <2>1, <2>2
<1>7. BodyLength(b, e) = l
  <2>1. CASE l = 0 /\ \A p \in 1..(e - 2) : ~LengthLine(b, p)
    <3>1. LengthHeaders(b, e) = {}
      BY <1>6, <2>1
    <3>. QED BY <2>1, <3>1 DEF BodyLength
  <2>2. ASSUME NEW p \in 1..(e - 2), LengthLine(b, p), l = atoi[b[p + 2]],
               \A q \in 1..(e - 2) : LengthLine(b, q) => q <= p
        PROVE  BodyLength(b, e) = l
    <3> DEFINE S == LengthHeaders(b, e)
    <3>1. p \in S /\ \A q \in S : q \in Int /\ q <= p
      BY <1>6, <2>2
    <3> HIDE DEF S
    <3>2. \A q \in S : (\A y \in S : q >= y) => q = p
      BY <3>1
    <3>3. Max(S) = p
      BY <3>1, <3>2 DEF Max
    <3>. QED BY <2>2, <3>1, <3>3 DEF BodyLength, S
  <2>. QED BY <2>1, <2>2 DEF LengthIs
<1>8. ~BadRequestLine(b) /\ ~BadLine(b)
  BY <1>1, <1>4, <1>5, NotBad DEF BadLine
<1>9. \E d \in Blank(b) : Len(b) >= d + 1 + BodyLength(b, d)
  BY <1>4, <1>7
<1>. QED BY <1>8, <1>9 DEF Verdict

\* A line end after a line that has none, or a stray one, does not count.
LEMMA NothingAfter ==
  ASSUME NEW b \in Seq(Bytes), NEW s \in Nat, NEW idx \in Nat, NotALine(b, s, idx),
         s >= 1 => b[s] # "cr", NEW k \in EOL(b), k >= s
  PROVE  ~Clean(b, k)
<1> USE DEF NotALine, LineEnds
<1>1. Len(b) \in Nat /\ k \in 1..(Len(b) - 1) /\ b[k] = "cr" /\ b[k + 1] = "lf" /\ idx <= Len(b)
  BY LenProperties DEF EOL
<1>2. k > idx
  BY <1>1
<1>3. idx + 1 \in Stray(b)
  <2>1. idx # Len(b) /\ ~ (idx + 1 = Len(b) /\ b[idx + 1] = "cr")
    BY <1>1, <1>2
  <2>2. CASE idx + 2 <= Len(b) /\ b[idx + 1] = "cr" /\ b[idx + 2] # "lf"
    BY <1>1, <2>2 DEF Stray
  <2>3. CASE idx + 1 <= Len(b) /\ b[idx + 1] = "lf" /\ (idx >= 1 => b[idx] # "cr")
    BY <1>1, <2>3 DEF Stray
  <2>. QED BY <2>1, <2>2, <2>3
<1>. QED BY <1>1, <1>2, <1>3 DEF Clean

\* Before the first line is whole there is no request, good or bad, except for a
\* stray line end.
LEMMA NoFirstLine ==
  ASSUME NEW b \in Seq(Bytes), NEW idx \in Nat, NotALine(b, 0, idx), ~BadLine(b)
  PROVE  Verdict(b) = "NO_REQUEST"
<1>1. \A k \in EOL(b) : k \in Nat /\ ~Clean(b, k)
  BY NothingAfter, LenProperties DEF EOL
<1>2. \A e \in Blank(b) : e \in EOL(b)
  BY DEF Blank
<1>3. Stray(b) = {}
  BY <1>1, <1>2 DEF BadLine
<1>4. EOL(b) = {}
  BY <1>1, <1>3 DEF Clean
<1>5. ~BadRequestLine(b) /\ Blank(b) = {}
  BY <1>2, <1>4 DEF BadRequestLine
<1>. QED BY <1>5 DEF Verdict

\* Headers without an empty line after them are not a request.
LEMMA NoEmptyLineYet ==
  ASSUME NEW b \in Seq(Bytes), NEW s \in Nat, NEW idx \in Nat, HeadersTo(b, s), NotALine(b, s, idx),
         ~BadLine(b)
  PROVE  Verdict(b) = "NO_REQUEST"
<1>1. Len(b) \in Nat /\ s >= 3 /\ s <= Len(b)
  BY LenProperties DEF HeadersTo
<1>2. ASSUME NEW e \in Blank(b) PROVE ~Clean(b, e)
  <2>1. e \in EOL(b) /\ e - 2 \in EOL(b)
    BY DEF Blank
  <2>2. e \in 3..(Len(b) - 1) /\ EmptyLineAt(b, e)
    BY <1>1, <2>1 DEF EOL, EmptyLineAt
  <2>3. e >= s
    BY <1>1, <2>2 DEF HeadersTo, NoEmptyLine
  <2>. QED BY <1>1, <2>1, <2>3, NothingAfter DEF HeadersTo
<1>3. Stray(b) = {}
  BY <1>2 DEF BadLine
<1>4. Blank(b) = {}
  BY <1>2, <1>3 DEF Clean
<1>5. ~BadRequestLine(b)
  BY <1>1, NotBad DEF HeadersTo
<1>. QED BY <1>4, <1>5 DEF Verdict

-----------------------------------------------------------------------------
(* The inductive invariant: what the indices saved between two calls of     *)
(* process_read() stand for.  The verdict is a statement about the whole    *)
(* buffer, so the invariant says of the bytes before m_start_line all that  *)
(* the verdict may depend on: they are whole lines, the first of them is    *)
(* the request line, none is empty before the body, and m_content_length    *)
(* is what the last Content-Length header among them says.                  *)

\* the current line has been looked at up to m_checked_idx, and a '\r' that ends
\* the buffer has been left for the next call
LineScanned ==
    /\ m_checked_idx >= 1 => m_read_buf[m_checked_idx] # "cr"
    /\ m_check_state # "CONTENT" =>
         \A p \in (m_start_line + 1)..m_checked_idx : m_read_buf[p] \notin LineEnds

AtRequestLine == m_start_line = 0 /\ m_content_length = 0

AtHeader ==
    /\ HeadersTo(m_read_buf, m_start_line)
    /\ LengthIs(m_read_buf, m_start_line, m_content_length)

AtContent ==
    /\ m_content_length # 0
    /\ \E e \in 4..(m_start_line - 1) :
         HeadersEnd(m_read_buf, e) /\ LengthIs(m_read_buf, e, m_content_length)

LinesParsed ==
    pc \notin {"respond", "undefined"} =>
      /\ LineScanned
      /\ m_check_state = "REQUESTLINE" => AtRequestLine
      /\ m_check_state = "HEADER" => AtHeader
      /\ m_check_state = "CONTENT" => AtContent

IInv == ParserInv /\ feed \in Seq(Bytes) /\ LinesParsed /\ VerdictRight

-----------------------------------------------------------------------------
(* One step of the parser *)

\* A whole line found by parse_line() is the line that starts at m_start_line,
\* also when earlier calls looked at its beginning.
LEMMA LineFound ==
  ASSUME IInv, pc = "parse", parse_line.status = "LINE_OK"
  PROVE  /\ parse_line.idx \in Nat /\ parse_line.idx \in (m_checked_idx + 2)..m_read_idx
         /\ m_read_buf[parse_line.idx] = "lf"
         /\ m_check_state # "CONTENT" => IsLine(m_read_buf, m_start_line, parse_line.idx)
<1> USE DEF IInv, ParserInv, TypeOK, IndicesInBuffer, LinesParsed, LineScanned, m_read_idx
<1>1. m_read_buf \in Seq(Bytes) /\ Len(m_read_buf) \in Nat
  BY LenProperties
<1>2. IsLine(m_read_buf, m_checked_idx, parse_line.idx)
  BY <1>1, ParseLine
<1>3. parse_line.idx \in Nat /\ parse_line.idx \in (m_checked_idx + 2)..m_read_idx
  BY <1>1, <1>2 DEF IsLine
<1>4. m_read_buf[parse_line.idx] = "lf"
  BY <1>2 DEF IsLine
<1>5. m_check_state # "CONTENT" => IsLine(m_read_buf, m_start_line, parse_line.idx)
  BY <1>1, <1>2, <1>3, ScanResumed
<1>. QED BY <1>3, <1>4, <1>5

\* When parse_line() finds no whole line, none starts at m_start_line.
LEMMA NoLineFound ==
  ASSUME IInv, pc = "parse", parse_line.status # "LINE_OK"
  PROVE  /\ parse_line.status \in {"LINE_OPEN", "LINE_BAD"}
         /\ parse_line.idx \in Nat /\ parse_line.idx \in m_checked_idx..m_read_idx
         /\ parse_line.idx >= 1 => m_read_buf[parse_line.idx] # "cr"
         /\ m_check_state # "CONTENT" => NotALine(m_read_buf, m_start_line, parse_line.idx)
<1> USE DEF IInv, ParserInv, TypeOK, IndicesInBuffer, LinesParsed, LineScanned, m_read_idx
<1>1. m_read_buf \in Seq(Bytes) /\ Len(m_read_buf) \in Nat
  BY LenProperties
<1>2. /\ parse_line.status \in {"LINE_OPEN", "LINE_BAD"}
      /\ NotALine(m_read_buf, m_checked_idx, parse_line.idx)
  BY <1>1, ParseLine
<1>3. parse_line.idx \in Nat /\ parse_line.idx \in m_checked_idx..m_read_idx
  BY <1>1, <1>2 DEF NotALine
<1>4. parse_line.idx >= 1 => m_read_buf[parse_line.idx] # "cr"
  <2>1. CASE parse_line.idx = m_checked_idx
    BY <2>1
  <2>2. CASE parse_line.idx > m_checked_idx
    BY <1>2, <1>3, <2>2 DEF NotALine, LineEnds
  <2>. QED BY <1>3, <2>1, <2>2
<1>5. m_check_state # "CONTENT" => NotALine(m_read_buf, m_start_line, parse_line.idx)
  BY <1>1, <1>2, <1>3, ScanResumed
<1>. QED BY <1>2, <1>3, <1>4, <1>5

\* get_line() of an empty line and of any other.
LEMMA TextOfLine ==
  ASSUME NEW idx \in Nat, m_read_buf \in Seq(Bytes), m_start_line \in Nat,
         IsLine(m_read_buf, m_start_line, idx)
  PROVE  /\ text(idx) = <<>> <=> idx = m_start_line + 2
         /\ text(idx) # <<>> => Head(text(idx)) = m_read_buf[m_start_line + 1]
<1>1. /\ Len(m_read_buf) \in Nat /\ idx <= Len(m_read_buf) /\ idx >= m_start_line + 2
  BY LenProperties DEF IsLine
<1>2. CASE idx = m_start_line + 2
  <2>1. text(idx) = <<>>
    BY <1>1, <1>2, SubSeqEmpty DEF text
  <2>. QED BY <1>2, <2>1
<1>3. CASE idx # m_start_line + 2
  <2>1. m_start_line + 1 \in 1..Len(m_read_buf) /\ idx - 2 \in (m_start_line + 1)..Len(m_read_buf)
    BY <1>1, <1>3
  <2>2. Head(text(idx)) = m_read_buf[m_start_line + 1]
    BY <2>1, HeadTailOfSubSeq DEF text
  <2>3. \A i \in (m_start_line + 1)..(idx - 2) : m_read_buf[i] \in Bytes
    BY <1>1, ElementOfSeq
  <2>4. Len(text(idx)) = (idx - 2) - (m_start_line + 1) + 1
    BY <1>1, <2>1, <2>3, SubSeqProperties DEF text
  <2>5. text(idx) # <<>>
    BY <1>1, <1>3, <2>4, EmptySeq
  <2>. QED BY <1>3, <2>2, <2>5
<1>. QED BY <1>2, <1>3

\* The steps of read() and of close_conn() and init() between two calls of
\* process_read() keep the inductive invariant.
LEMMA ReadStep ==
  ASSUME IInv, recv \/ ReadDone \/ ReadFails \/ Respond \/ UNCHANGED vars
  PROVE  IInv'
<1> USE ParserAssumption
<1> USE DEF IInv, ParserInv, TypeOK, IndicesInBuffer, LinesParsed, VerdictRight,
        VerdictSound, VerdictCompleteWithoutBody, Returned, parser, CheckStates, LineStatus
<1>1. m_read_buf \in Seq(Bytes) /\ m_read_idx \in Nat
  BY LenProperties DEF m_read_idx
<1>2. CASE recv
  <2>1. PICK piece \in (IF feed = <<>> THEN Segments[part] ELSE {feed}) :
          m_read_buf' = Append(m_read_buf, Head(piece)) /\ feed' = Tail(piece)
    BY <1>2 DEF recv
  <2>2. piece \in Seq(Bytes) /\ piece # <<>>
    <3>1. part \in Parts
      BY DEF part, Parts
    <3>. QED BY <2>1, <3>1
  <2>3. Head(piece) \in Bytes /\ Tail(piece) \in Seq(Bytes)
    BY <2>2, HeadTailProperties
  <2>4. /\ m_read_buf' \in Seq(Bytes) /\ Len(m_read_buf') = Len(m_read_buf) + 1
        /\ \A p \in 1..Len(m_read_buf) : m_read_buf'[p] = m_read_buf[p]
    BY <1>1, <2>1, <2>3, AppendProperties
  <2>5. /\ pc \notin {"respond", "undefined"} /\ pc' = "read" /\ UNCHANGED <<parser, line_status, ret>>
    BY <1>2 DEF recv
  <2>6. ParserInv'
    BY <1>1, <2>4, <2>5 DEF m_read_idx
  <2>7. LineScanned'
    BY <1>1, <2>4, <2>5 DEF LineScanned, m_read_idx
  <2>l. /\ m_content_length \in Int
        /\ \A k \in Nat : k <= Len(m_read_buf) /\ LengthIs(m_read_buf, k, m_content_length)
                          => LengthIs(m_read_buf', k, m_content_length)
    <3>1. m_content_length \in Int
      BY DEF ints
    <3>2. Len(m_read_buf') >= Len(m_read_buf)
      BY <1>1, <2>4 DEF m_read_idx
    <3>. QED BY ONLY <1>1, <2>4, <3>1, <3>2, BufferGrows
  <2>8. m_check_state = "HEADER" => AtHeader'
    <3> SUFFICES ASSUME AtHeader PROVE AtHeader'
      BY <2>5
    <3>1. m_start_line' = m_start_line /\ m_content_length' = m_content_length
      BY <2>5
    <3>2. HeadersTo(m_read_buf', m_start_line)
      BY <1>1, <2>4, BufferGrows DEF AtHeader, m_read_idx
    <3>3. LengthIs(m_read_buf', m_start_line, m_content_length)
      BY <1>1, <2>l DEF AtHeader, m_read_idx
    <3>. QED BY <3>1, <3>2, <3>3 DEF AtHeader
  <2>9. m_check_state = "CONTENT" => AtContent'
    <3> SUFFICES ASSUME AtContent PROVE AtContent'
      BY <2>5
    <3>1. PICK e \in 4..(m_start_line - 1) :
            HeadersEnd(m_read_buf, e) /\ LengthIs(m_read_buf, e, m_content_length)
      BY DEF AtContent
    <3>2. e \in Nat /\ e <= Len(m_read_buf)
      BY <1>1, <3>1 DEF HeadersEnd, m_read_idx
    <3>3. HeadersEnd(m_read_buf', e)
      <4>1. Len(m_read_buf') >= Len(m_read_buf)
        BY <1>1, <2>4 DEF m_read_idx
      <4>. QED BY ONLY <1>1, <2>4, <3>1, <3>2, <4>1, BufferGrows
    <3>4. LengthIs(m_read_buf', e, m_content_length)
      BY <2>l, <3>1, <3>2
    <3>. QED BY <2>5, <3>1, <3>3, <3>4 DEF AtContent
  <2>10. m_check_state = "REQUESTLINE" => AtRequestLine'
    BY <2>5 DEF AtRequestLine
  <2>. QED BY <2>1, <2>3, <2>5, <2>6, <2>7, <2>8, <2>9, <2>10
<1>3. CASE ReadDone
  BY <1>3 DEF ReadDone, LineScanned, AtRequestLine, AtHeader, AtContent, m_read_idx
<1>4. ASSUME init, feed' \in Seq(Bytes), ret' = "NO_REQUEST", pc' = "wait", UNCHANGED line_status
      PROVE  IInv'
  <2>1. m_read_buf' = <<>> /\ Len(m_read_buf') = 0 /\ m_read_buf' \in Seq(Bytes)
    BY <1>4, EmptySeq DEF init
  <2>2. m_linger' \in BOOLEAN
    BY <1>4 DEF init
  <2>3. TypeOK' /\ IndicesInBuffer'
    BY <1>4, <2>1, <2>2 DEF init, m_read_idx, ints
  <2>4. LinesParsed'
    BY <1>4 DEF init, LineScanned, AtRequestLine
  <2>. QED BY <1>4, <2>1, <2>3, <2>4
<1>5. CASE ReadFails
  BY <1>4, <1>5, EmptySeq DEF ReadFails, Reopen
<1>6. CASE Respond
  BY <1>4, <1>6, EmptySeq DEF Respond, Reopen
<1>7. CASE UNCHANGED vars
  BY <1>7 DEF vars, LineScanned, AtRequestLine, AtHeader, AtContent, m_read_idx
<1>. QED BY <1>2, <1>3, <1>5, <1>6, <1>7

\* One way through the loop of process_read() keeps the inductive invariant.
LEMMA ParseStep ==
  ASSUME IInv, process_read
  PROVE  IInv'
<1> DEFINE b == m_read_buf
           st == parse_line.status
           idx == parse_line.idx
<1> USE ParserAssumption
<1> USE DEF IInv, ParserInv, TypeOK, LinesParsed, CheckStates, LineStatus
<1>1. /\ b \in Seq(Bytes) /\ m_read_idx \in Nat /\ Len(b) = m_read_idx
      /\ m_start_line <= m_checked_idx /\ m_checked_idx <= m_read_idx
  BY LenProperties DEF m_read_idx, IndicesInBuffer
<1>2. pc = "parse" /\ m_read_idx < READ_BUFFER_SIZE /\ UNCHANGED <<feed, m_read_buf>>
  BY DEF process_read, NoLine, RequestLine, Header, LastHeader, Content, NextLine, IndicesInBuffer
<1>3. m_read_idx' = m_read_idx
  BY <1>2 DEF m_read_idx
<1>4. CASE NoLine
  <2>1. st \in {"LINE_OPEN", "LINE_BAD"} /\ idx \in Nat /\ idx \in m_checked_idx..m_read_idx
        /\ (idx >= 1 => b[idx] # "cr")
        /\ (m_check_state # "CONTENT" => NotALine(b, m_start_line, idx))
    BY <1>2, <1>4, NoLineFound DEF NoLine
  <2> HIDE DEF st, idx
  <2>2. /\ line_status' = st /\ m_checked_idx' = idx /\ ret' = "NO_REQUEST" /\ pc' = "wait"
        /\ UNCHANGED <<m_start_line, m_check_state, m_content_length, m_linger>>
    BY <1>4 DEF NoLine, return, st, idx
  <2>3. TypeOK' /\ IndicesInBuffer'
    BY <1>1, <1>2, <1>3, <2>1, <2>2 DEF IndicesInBuffer
  <2>4. LineScanned'
    BY <1>2, <2>1, <2>2 DEF LineScanned, NotALine
  <2>5. LinesParsed'
    BY <1>2, <2>2, <2>4 DEF AtRequestLine, AtHeader, AtContent
  <2>6. m_content_length = 0 /\ ~BadLine(b) => Verdict(b) = "NO_REQUEST"
    <3>1. CASE m_check_state = "REQUESTLINE"
      BY <1>1, <1>2, <2>1, <3>1, NoFirstLine DEF AtRequestLine
    <3>2. CASE m_check_state = "HEADER"
      BY <1>1, <1>2, <2>1, <3>2, NoEmptyLineYet DEF AtHeader
    <3>3. CASE m_check_state = "CONTENT"
      BY <1>2, <3>3 DEF AtContent
    <3>. QED BY <3>1, <3>2, <3>3
  <2>7. VerdictRight'
    BY <1>2, <2>2, <2>6 DEF VerdictRight, VerdictSound, VerdictCompleteWithoutBody
  <2>. QED BY <1>2, <2>3, <2>5, <2>7
<1>5. ASSUME st = "LINE_OK"
      PROVE  /\ idx \in Nat /\ idx \in (m_checked_idx + 2)..m_read_idx /\ b[idx] = "lf"
             /\ m_check_state # "CONTENT" => IsLine(b, m_start_line, idx)
  BY <1>2, <1>5, LineFound
<1> HIDE DEF st, idx
\* how the loop goes on with another line
<1>6. ASSUME st = "LINE_OK", NextLine(idx), line_status' = "LINE_OK", m_linger' \in BOOLEAN,
             m_check_state' \in CheckStates, m_content_length' \in ints,
             pc' = "parse", ret' = ret
      PROVE  TypeOK' /\ IndicesInBuffer' /\ LineScanned' /\ VerdictRight'
  <2>1. m_start_line' = idx /\ m_checked_idx' = idx
    BY <1>6 DEF NextLine
  <2>2. idx \in Nat /\ idx <= m_read_idx /\ b[idx] = "lf"
    BY <1>1, <1>5, <1>6
  <2>3. TypeOK' /\ IndicesInBuffer'
    BY <1>2, <1>3, <1>6, <2>1, <2>2 DEF IndicesInBuffer
  <2>4. LineScanned'
    BY <1>2, <2>1, <2>2 DEF LineScanned
  <2>5. VerdictRight'
    BY <1>6 DEF VerdictRight, VerdictSound, VerdictCompleteWithoutBody, Returned
  <2>. QED BY <2>3, <2>4, <2>5
\* how it ends with an answer
<1>7. ASSUME NEW i \in Nat, i <= m_read_idx, NextLine(i), line_status' \in LineStatus,
             UNCHANGED <<m_check_state, m_content_length, m_linger>>,
             NEW code \in {"GET_REQUEST", "BAD_REQUEST"}, return(code), Verdict(b) = code
      PROVE  IInv'
  <2>1. m_start_line' = i /\ m_checked_idx' = i
    BY <1>7 DEF NextLine
  <2>2. pc' = "respond" /\ ret' = code
    BY <1>7 DEF return
  <2>3. TypeOK' /\ IndicesInBuffer'
    BY <1>1, <1>2, <1>3, <1>7, <2>1, <2>2 DEF IndicesInBuffer
  <2>4. VerdictRight'
    BY <1>2, <1>7, <2>2 DEF VerdictRight, VerdictSound, VerdictCompleteWithoutBody
  <2>. QED BY <1>2, <2>2, <2>3, <2>4
<1>8. CASE RequestLine
  <2>1. st = "LINE_OK" /\ m_check_state = "REQUESTLINE" /\ NextLine(idx) /\ line_status' = "LINE_OK"
        /\ UNCHANGED <<m_content_length, m_linger>>
    BY <1>8 DEF RequestLine, st, idx
  <2>2. IsLine(b, 0, idx) /\ m_start_line = 0 /\ m_content_length = 0 /\ idx \in Nat /\ idx <= m_read_idx
    BY <1>1, <1>2, <1>5, <2>1 DEF AtRequestLine
  <2>3. text(idx) = SubSeq(b, 1, idx - 2)
    BY <2>2 DEF text
  <2>4. CASE text(idx) = <<"req">>
    <3>1. m_check_state' = "HEADER" /\ ret' = ret /\ pc' = "parse"
      BY <1>2, <1>8, <2>4 DEF RequestLine, idx
    <3>2. idx = 3 /\ HeadersTo(b, 3) /\ LengthIs(b, 3, 0)
      BY <1>1, <2>2, <2>3, <2>4, FirstLine
    <3>3. AtHeader'
      BY <1>2, <2>1, <2>2, <3>2 DEF AtHeader, NextLine
    <3>. QED BY <1>2, <1>6, <2>1, <3>1, <3>3
  <2>5. CASE text(idx) # <<"req">>
    <3>1. return("BAD_REQUEST") /\ UNCHANGED m_check_state
      BY <1>8, <2>5 DEF RequestLine, idx
    <3>2. Verdict(b) = "BAD_REQUEST"
      BY <1>1, <2>2, <2>3, <2>5, BadVerdict
    <3>. QED BY <1>7, <2>1, <2>2, <3>1, <3>2
  <2>. QED BY <2>4, <2>5
<1>9. CASE Header
  <2>1. st = "LINE_OK" /\ m_check_state = "HEADER" /\ NextLine(idx) /\ line_status' = "LINE_OK"
        /\ text(idx) # <<>> /\ UNCHANGED <<m_check_state, ret, pc>>
        /\ m_linger' = (m_linger \/ text(idx) = <<"keep">>)
        /\ m_content_length' = IF Head(text(idx)) \in Lengths THEN atoi[Head(text(idx))] ELSE m_content_length
    BY <1>9 DEF Header, st, idx
  <2>2. IsLine(b, m_start_line, idx) /\ AtHeader /\ idx \in Nat
    BY <1>1, <1>2, <1>5, <2>1
  <2>3. idx # m_start_line + 2 /\ Head(text(idx)) = b[m_start_line + 1]
    BY <1>1, <2>1, <2>2, TextOfLine
  <2>4. /\ HeadersTo(b, idx)
        /\ b[m_start_line + 1] \in Lengths => LengthIs(b, idx, atoi[b[m_start_line + 1]])
        /\ \A l \in Int : LengthIs(b, m_start_line, l) /\ b[m_start_line + 1] \notin Lengths
                         => LengthIs(b, idx, l)
    BY <1>1, <2>2, <2>3, HeaderLine DEF AtHeader
  <2>5. m_content_length' \in ints /\ LengthIs(b, idx, m_content_length')
    <3>1. CASE b[m_start_line + 1] \in Lengths
      BY <2>1, <2>3, <2>4, <3>1
    <3>2. CASE b[m_start_line + 1] \notin Lengths
      <4>1. m_content_length' = m_content_length /\ m_content_length \in Int
        BY <2>1, <2>3, <3>2 DEF ints
      <4>. QED BY <2>2, <2>4, <3>2, <4>1 DEF AtHeader
    <3>. QED BY <3>1, <3>2
  <2>6. AtHeader'
    BY <1>2, <2>1, <2>4, <2>5 DEF AtHeader, NextLine
  <2>7. m_linger' \in BOOLEAN
    BY <2>1
  <2>. QED BY <1>2, <1>6, <2>1, <2>5, <2>6, <2>7
<1>10. CASE LastHeader
  <2>1. st = "LINE_OK" /\ m_check_state = "HEADER" /\ NextLine(idx) /\ line_status' = "LINE_OK"
        /\ text(idx) = <<>> /\ UNCHANGED <<m_content_length, m_linger>>
    BY <1>10 DEF LastHeader, st, idx
  <2>2. IsLine(b, m_start_line, idx) /\ AtHeader /\ idx \in Nat /\ idx <= m_read_idx
    BY <1>1, <1>2, <1>5, <2>1
  <2>3. idx = m_start_line + 2
    BY <1>1, <2>1, <2>2, TextOfLine
  <2>4. HeadersEnd(b, m_start_line + 1) /\ LengthIs(b, m_start_line + 1, m_content_length)
    BY <1>1, <2>2, <2>3, EmptyLine DEF AtHeader, ints
  <2>5. CASE m_content_length = 0
    <3>1. return("GET_REQUEST") /\ UNCHANGED m_check_state
      BY <1>10, <2>5 DEF LastHeader
    <3>2. Verdict(b) = "GET_REQUEST"
      <4>1. m_start_line + 1 \in Nat /\ Len(b) >= (m_start_line + 1) + 1 + 0
        BY <1>1, <2>2, <2>3
      <4>. QED BY <1>1, <2>4, <2>5, <4>1, GetVerdict
    <3>. QED BY <1>7, <2>1, <2>2, <3>1, <3>2
  <2>6. CASE m_content_length # 0
    <3>1. m_check_state' = "CONTENT" /\ UNCHANGED <<ret, pc>>
      BY <1>10, <2>6 DEF LastHeader
    <3>2. m_start_line + 1 \in 4..(idx - 1)
      BY <1>1, <2>2, <2>3 DEF AtHeader, HeadersTo
    <3>3. AtContent'
      BY <1>2, <2>1, <2>4, <2>6, <3>2 DEF AtContent, NextLine
    <3>. QED BY <1>2, <1>6, <2>1, <3>1, <3>3
  <2>. QED BY <2>5, <2>6
<1>11. CASE Content
  <2> DEFINE i == IF InContent THEN m_checked_idx ELSE idx
  <2>1. /\ m_check_state = "CONTENT" /\ NextLine(i) /\ (InContent \/ st = "LINE_OK")
        /\ UNCHANGED <<m_check_state, m_content_length, m_linger>>
        /\ IF m_read_idx >= add(m_content_length, i)
             THEN Terminate /\ UNCHANGED line_status
             ELSE line_status' = "LINE_OPEN" /\ UNCHANGED <<ret, pc>>
    BY <1>11 DEF Content, st, idx
  <2>2. i \in Nat /\ i <= m_read_idx /\ i >= m_start_line /\ (i >= 1 => b[i] # "cr")
    BY <1>1, <1>2, <1>5, <2>1 DEF LineScanned
  <2> HIDE DEF i
  <2>3. PICK e \in 4..(m_start_line - 1) : HeadersEnd(b, e) /\ LengthIs(b, e, m_content_length)
    BY <1>2, <2>1 DEF AtContent
  <2>4. m_content_length \in Int /\ m_content_length <= INT_MAX
    BY DEF ints
  \* a sum that wraps belongs to a '\0' outside the buffer
  <2>5. \/ add(m_content_length, i) = m_content_length + i /\ m_content_length + i <= INT_MAX
        \/ m_content_length > READ_BUFFER_SIZE /\ ~Ordinary(m_content_length)
    BY <1>1, <1>2, <2>2, <2>4 DEF add, Ordinary
  <2>7. CASE m_read_idx >= add(m_content_length, i) /\ return("GET_REQUEST")
             /\ m_start_line + m_content_length \in 0..(READ_BUFFER_SIZE - 1)
    <3>1. m_read_idx >= m_content_length + i
      BY <1>1, <2>2, <2>4, <2>5, <2>7
    <3>2. Verdict(b) = "GET_REQUEST"
      <4>1. Len(b) >= e + 1 + m_content_length /\ e \in Nat
        BY <1>1, <2>2, <2>3, <2>4, <3>1
      <4>. QED BY <1>1, <2>3, <2>4, <4>1, GetVerdict
    <3>3. line_status' \in LineStatus
      BY <2>1, <2>7
    <3>. QED BY <1>7, <2>1, <2>2, <2>7, <3>2, <3>3
  <2>8. CASE m_read_idx >= add(m_content_length, i) /\ pc' = "undefined" /\ ret' = ret
             /\ m_start_line + m_content_length \notin 0..(READ_BUFFER_SIZE - 1)
    <3>1. m_start_line' = i /\ m_checked_idx' = i /\ UNCHANGED line_status
      BY <2>1, <2>8 DEF NextLine
    <3>2. ~Ordinary(m_content_length)
      <4> SUFFICES ASSUME Ordinary(m_content_length) PROVE FALSE
        OBVIOUS
      <4>1. m_content_length >= 0 /\ m_read_idx >= m_content_length + i
        BY <2>5, <2>8 DEF Ordinary
      <4>. QED BY <1>1, <1>2, <2>2, <2>4, <2>8, <4>1
    <3>3. TypeOK' /\ IndicesInBuffer'
      BY <1>2, <1>3, <2>1, <2>2, <2>8, <3>1, <3>2 DEF IndicesInBuffer, Ordinary
    <3>4. LinesParsed' /\ VerdictRight'
      BY <2>8 DEF VerdictRight, VerdictSound, VerdictCompleteWithoutBody, Returned
    <3>. QED BY <1>2, <3>3, <3>4
  <2>6. CASE ~ (m_read_idx >= add(m_content_length, i))
    <3>1. m_start_line' = i /\ m_checked_idx' = i /\ pc' = "parse" /\ line_status' = "LINE_OPEN" /\ ret' = ret
      BY <1>2, <2>1, <2>6 DEF NextLine
    <3>2. TypeOK' /\ IndicesInBuffer'
      BY <1>2, <1>3, <2>1, <2>2, <3>1 DEF IndicesInBuffer
    <3>3. LineScanned'
      BY <1>2, <2>1, <2>2, <3>1 DEF LineScanned
    <3>4. AtContent'
      <4>1. e \in 4..(i - 1)
        BY <1>1, <2>2
      <4>. QED BY <1>2, <2>1, <2>3, <3>1, <4>1 DEF AtContent
    <3>5. VerdictRight'
      BY <3>1 DEF VerdictRight, VerdictSound, VerdictCompleteWithoutBody, Returned
    <3>. QED BY <1>2, <2>1, <3>2, <3>3, <3>4, <3>5
  <2>. QED BY <2>1, <2>6, <2>7, <2>8 DEF Terminate
<1>. QED BY <1>4, <1>8, <1>9, <1>10, <1>11 DEF process_read

\* Every reachable state of the parser satisfies the inductive invariant.
LEMMA IInvCorrect == Spec => []IInv
<1>1. ASSUME Init PROVE IInv
  <2>1. m_read_buf \in Seq(Bytes) /\ feed \in Seq(Bytes) /\ Len(m_read_buf) = 0
    BY <1>1, EmptySeq DEF Init
  <2>2. m_linger \in BOOLEAN
    BY <1>1 DEF Init
  <2>3. ParserInv
    BY <1>1, <2>1, <2>2, ParserAssumption
    DEF Init, ParserInv, TypeOK, IndicesInBuffer, m_read_idx, ints, CheckStates, LineStatus
  <2>4. LinesParsed
    BY <1>1 DEF Init, LinesParsed, LineScanned, AtRequestLine
  <2>5. VerdictRight
    BY <1>1 DEF Init, VerdictRight, VerdictSound, VerdictCompleteWithoutBody
  <2>. QED BY <2>1, <2>3, <2>4, <2>5 DEF IInv
<1>2. IInv /\ [Next]_vars => IInv'
  BY ReadStep, ParseStep DEF Next
<1>. QED BY <1>1, <1>2, PTL DEF Spec

\* The indices kept between two calls of process_read() stay in order and inside
\* m_read_buf, for any buffer size and any int atoi() makes of a Content-Length.
\* The '\0' that parse_content() writes falls inside it too, except for a negative
\* length and for one within READ_BUFFER_SIZE of INT_MAX, where the sum may wrap.
THEOREM ParserInvCorrect == Spec => []ParserInv
<1>1. IInv => ParserInv
  BY DEF IInv
<1>. QED BY <1>1, IInvCorrect, PTL

\* However the network cuts the requests into pieces, process_read() answers as
\* the whole buffer deserves: no request is answered early or refused wrongly,
\* and one without a body or a stray line end is recognised with its last byte.
THEOREM VerdictRightCorrect == Spec => []VerdictRight
<1>1. IInv => VerdictRight
  BY DEF IInv
<1>. QED BY <1>1, IInvCorrect, PTL

-----------------------------------------------------------------------------
(* HttpWrite                                                               *)

\* What writev() takes: all that is offered or all that fits.
LEMMA TakenByWritev ==
  ASSUME NEW a \in Nat, NEW b \in Nat
  PROVE  Min({a, b}) = IF a <= b THEN a ELSE b
<1>1. \A x \in {a, b} : (\A y \in {a, b} : x <= y) => x = (IF a <= b THEN a ELSE b)
  OBVIOUS
<1>2. \E x \in {a, b} : \A y \in {a, b} : x <= y
  OBVIOUS
<1>. QED BY <1>1, <1>2 DEF Min

-----------------------------------------------------------------------------
(* The inductive invariant.  The types alone are not inductive: a header    *)
(* is appended at m_write_idx, so its length is a header's only because     *)
(* the buffer is empty whenever a request is read.  That no unmap() with a  *)
(* stale pointer meets a mapping in use needs that every pointer left over  *)
(* is one to a mapping a hang-up abandoned.  IntactWithRoom needs that a    *)
(* writev() that had room when write() was entered is the first of its      *)
(* response and that the room is still there.                               *)

\* a response is prepared exactly while EPOLLOUT or a writev() is pending
Prepared ==
    /\ wpc = "in" => m_write_idx = 0
    /\ wpc \in {"out", "writev"} => m_write_idx \in Headers /\ total = Total

\* what roomy promises the writev() that is about to run
FirstHasRoom ==
    /\ wpc = "out" /\ wire # 0 => ~roomy
    /\ wpc = "writev" /\ roomy => wire = 0 /\ space >= Total /\ bytes_to_send = m_write_idx

\* a pointer to a mapping is that of the response being sent or one left over, and
\* what is sent has not been abandoned
Pointer ==
    /\ m_file_address \in {Null, MAP_FAILED} \cup abandoned
         \cup (IF Sending /\ file # 0 THEN {responses} ELSE {})
    /\ Sending => responses \notin abandoned
    /\ Sending /\ file = 0 => responses \notin mapped

WriteIInv ==
    /\ WriteTypeOK /\ MappedWhileSent /\ GivenBack /\ Pointer
    /\ Prepared /\ FirstHasRoom /\ IntactWithRoom

\* Every step of process(), of write() and of the socket keeps the inductive
\* invariant.
LEMMA WriteIInvStep == WriteIInv /\ [WriteNext]_writevars => WriteIInv'
<1> SUFFICES ASSUME WriteIInv, [WriteNext]_writevars PROVE WriteIInv'
  OBVIOUS
<1> USE WriteAssumption
<1> USE DEF WriteIInv, WriteTypeOK, MappedWhileSent, GivenBack, Pointer, Prepared, FirstHasRoom,
        IntactWithRoom, Finished, Sending, Total, Null, MAP_FAILED, buffers, mapping, ghosts
<1>0. responses \in Nat
  OBVIOUS
<1>1. CASE process
  <2>1. PICK len \in Headers : m_write_idx' = len
    BY <1>1 DEF process, process_write
  <2>2. PICK size \in Files \cup {0} : file' = size
    BY <1>1 DEF process, do_request
  <2>3. /\ wpc = "in" /\ wpc' = "out" /\ responses' = responses + 1 /\ responses' \in 0..MaxResponses
        /\ abandoned' = abandoned /\ do_request(responses + 1)
    BY <1>1 DEF process
  <2>4. responses' \notin mapped /\ responses' \notin abandoned /\ m_file_address # responses'
    BY <1>0, <2>3
  <2>5. /\ m_file_address' \in {Null, MAP_FAILED} \cup 1..responses' /\ mapped' \subseteq 1..responses'
        /\ abandoned' \subseteq 1..responses' /\ MappedWhileSent' /\ GivenBack' /\ Pointer'
    <3>1. CASE file' \in Files /\ m_file_address' = responses + 1 /\ mapped' = mapped \cup {responses + 1}
      BY <1>0, <2>3, <2>4, <3>1
    <3>2. CASE file' = 0 /\ m_file_address' = MAP_FAILED /\ UNCHANGED mapped
      BY <1>0, <2>3, <2>4, <3>2
    <3>3. CASE file' = 0 /\ UNCHANGED mapping
      BY <1>0, <2>3, <2>4, <3>3
    <3>. QED BY <2>3, <3>1, <3>2, <3>3 DEF do_request
  <2>6. WriteTypeOK'
    <3>1. roomy' \in BOOLEAN /\ linger' \in BOOLEAN
      BY <1>1 DEF process
    <3>2. total' = len + size
      BY <1>1, <2>1, <2>2 DEF process
    <3>3. total' \in Nat
      BY <3>2
    <3>4. wire' \in Int
      BY <1>1 DEF process
    <3>5. wpc' \in {"in", "out", "writev", "closed"}
      BY <2>3
    <3>6. bytes_to_send' \in Int /\ space' \in 0..SendBuffer
      BY <1>1 DEF process
    <3>. QED BY <2>1, <2>2, <2>3, <2>5, <3>1, <3>3, <3>4, <3>5, <3>6
  <2>7. Prepared' /\ FirstHasRoom' /\ IntactWithRoom'
    BY <1>1, <2>1 DEF process
  <2>. QED BY <2>5, <2>6, <2>7
\* what unmap() leaves when it ends the response being sent
<1>u. ASSUME unmap, wpc = "writev", wpc' \in {"in", "closed"}, UNCHANGED <<abandoned, responses>>
      PROVE  /\ m_file_address' \in {Null, MAP_FAILED} \cup 1..responses'
             /\ mapped' \subseteq 1..responses' /\ abandoned' \subseteq 1..responses'
             /\ MappedWhileSent' /\ GivenBack' /\ Pointer'
  <2>1. m_file_address' = Null /\ mapped' \subseteq mapped
    BY <1>u DEF unmap
  <2>2. responses \notin mapped'
    <3>1. CASE file # 0
      BY <1>0, <1>u, <3>1 DEF unmap
    <3>2. CASE file = 0
      BY <1>u, <2>1, <3>2
    <3>. QED BY <3>1, <3>2
  <2>3. mapped' \subseteq abandoned
    BY <1>u, <2>1, <2>2
  <2>. QED BY <1>u, <2>1, <2>3
<1>2. CASE WriteEnter
  <2>1. roomy' \in BOOLEAN
    <3>1. CASE wire = 0
      BY <1>2, <3>1 DEF WriteEnter
    <3>2. CASE wire # 0
      BY <1>2, <3>2 DEF WriteEnter
    <3>. QED BY <3>1, <3>2
  <2>2. WriteTypeOK'
    BY <1>2, <2>1 DEF WriteEnter
  <2>3. MappedWhileSent' /\ GivenBack' /\ Pointer' /\ Prepared' /\ IntactWithRoom'
    BY <1>2 DEF WriteEnter
  <2>4. FirstHasRoom'
    <3>1. CASE wire = 0
      BY <1>2, <3>1 DEF WriteEnter
    <3>2. CASE wire # 0
      BY <1>2, <3>2 DEF WriteEnter
    <3>. QED BY <3>1, <3>2
  <2>. QED BY <2>2, <2>3, <2>4
<1>3. CASE Writev
  <2> DEFINE n == Min({space, Total})
  <2>1. n = (IF space <= Total THEN space ELSE Total) /\ n \in Nat /\ n > 0
    BY <1>3, TakenByWritev DEF Writev
  <2> HIDE DEF n
  <2>2. /\ wire' = Sent(n) /\ space' = space - n /\ bytes_to_send' = bytes_to_send - n
        /\ wpc = "writev" /\ UNCHANGED <<abandoned, roomy, total, responses>>
    BY <1>3 DEF Writev, n
  <2>3. CASE bytes_to_send' <= 0 /\ Finish
    <3>0. unmap /\ wpc' \in {"in", "closed"}
      BY <2>3 DEF Finish
    <3>1. WriteTypeOK'
      <4>1. linger' \in BOOLEAN /\ roomy' \in BOOLEAN
        BY <2>2, <2>3 DEF Finish
      <4>2. wire' \in Int /\ space' \in 0..SendBuffer /\ bytes_to_send' \in Int
        BY <2>1, <2>2 DEF Sent
      <4>3. m_write_idx' \in Headers \cup {0} /\ file' \in Files \cup {0}
        BY <2>3 DEF Finish
      <4>. QED BY <1>u, <2>2, <3>0, <4>1, <4>2, <4>3
    <3>2. MappedWhileSent' /\ GivenBack' /\ Pointer'
      BY <1>u, <2>2, <3>0
    <3>3. Prepared' /\ FirstHasRoom'
      BY <2>1, <2>2, <2>3 DEF Finish
    <3>4. IntactWithRoom'
      BY <2>1, <2>2, <2>3 DEF Finish, Sent
    <3>. QED BY <3>1, <3>2, <3>3, <3>4
  <2>4. CASE bytes_to_send' > 0 /\ UNCHANGED <<buffers, mapping, wpc>>
    <3>1. WriteTypeOK'
      BY <2>1, <2>2, <2>4 DEF Sent
    <3>2. MappedWhileSent' /\ GivenBack' /\ Pointer'
      BY <2>2, <2>4
    <3>3. Prepared' /\ FirstHasRoom' /\ IntactWithRoom'
      BY <2>1, <2>2, <2>4 DEF Sent
    <3>. QED BY <3>1, <3>2, <3>3
  <2>. QED BY <1>3, <2>3, <2>4 DEF Writev
<1>4. CASE WritevAgain
  BY <1>4 DEF WritevAgain
<1>5. CASE WritevFails
  <2>1. /\ unmap /\ wpc = "writev" /\ wpc' = "closed"
        /\ UNCHANGED <<buffers, abandoned, bytes_to_send, space, ghosts, responses>>
    BY <1>5 DEF WritevFails
  <2>2. /\ m_file_address' \in {Null, MAP_FAILED} \cup 1..responses'
        /\ mapped' \subseteq 1..responses' /\ abandoned' \subseteq 1..responses'
        /\ MappedWhileSent' /\ GivenBack' /\ Pointer'
    BY <1>u, <2>1
  <2>3. WriteTypeOK'
    BY <2>1, <2>2
  <2>4. Prepared' /\ FirstHasRoom' /\ IntactWithRoom'
    BY <2>1
  <2>. QED BY <2>2, <2>3, <2>4
<1>6. CASE HangUp
  <2>1. /\ wpc \in {"in", "out"} /\ wpc' = "closed"
        /\ abandoned' = abandoned \cup (IF wpc = "out" THEN mapped \cap {responses} ELSE {})
        /\ UNCHANGED <<buffers, mapping, bytes_to_send, space, ghosts, responses>>
    BY <1>6 DEF HangUp
  <2>2. abandoned \subseteq abandoned' /\ abandoned' \subseteq 1..responses'
    BY <2>1
  <2>3. GivenBack'
    BY <2>1, <2>2
  <2>4. Pointer'
    <3>1. CASE wpc = "in"
      BY <2>1, <3>1
    <3>2. CASE wpc = "out"
      BY <2>1, <3>2
    <3>. QED BY <2>1, <3>1, <3>2
  <2>5. WriteTypeOK' /\ MappedWhileSent' /\ Prepared' /\ FirstHasRoom' /\ IntactWithRoom'
    BY <2>1, <2>2
  <2>. QED BY <2>3, <2>4, <2>5
<1>7. CASE Drain
  BY <1>7 DEF Drain
<1>8. CASE Reconnect
  <2>1. roomy' \in BOOLEAN /\ linger' \in BOOLEAN
    BY <1>8 DEF Reconnect
  <2>2. WriteTypeOK'
    BY <1>8, <2>1 DEF Reconnect
  <2>3. MappedWhileSent' /\ GivenBack' /\ Pointer' /\ Prepared' /\ FirstHasRoom' /\ IntactWithRoom'
    BY <1>8 DEF Reconnect
  <2>. QED BY <2>2, <2>3
<1>9. CASE UNCHANGED writevars
  BY <1>9 DEF writevars
<1>. QED BY <1>1, <1>2, <1>3, <1>4, <1>5, <1>6, <1>7, <1>8, <1>9 DEF WriteNext, write

\* Every reachable state of the writer satisfies the inductive invariant.
LEMMA WriteIInvCorrect == WriteSpec => []WriteIInv
<1>1. ASSUME WriteInit PROVE WriteIInv
  <2>1. WriteTypeOK
    <3>1. linger \in BOOLEAN /\ roomy \in BOOLEAN
      BY <1>1 DEF WriteInit
    <3>. QED BY <1>1, <3>1, WriteAssumption DEF WriteInit, WriteTypeOK
  <2>2. MappedWhileSent /\ GivenBack /\ Pointer /\ Prepared /\ FirstHasRoom /\ IntactWithRoom
    BY <1>1 DEF WriteInit, MappedWhileSent, GivenBack, Pointer, Sending, Prepared, FirstHasRoom,
                IntactWithRoom, Finished
  <2>. QED BY <2>1, <2>2 DEF WriteIInv
<1>. QED BY <1>1, WriteIInvStep, PTL DEF WriteSpec

\* Over all the connections of an object, whatever pointer the last one left, the
\* file is mapped for as long as a writev() may read it and given back with its
\* response, over any number of EAGAINs and errors, unless the client hung up
\* before; a header is always written at the start of m_write_buf.
THEOREM WriterInvCorrect == WriteSpec => []WriterInv
<1>1. WriteIInv => WriterInv
  BY DEF WriteIInv, WriterInv
<1>. QED BY <1>1, WriteIInvCorrect, PTL

\* A response that fits into the socket's buffer when write() is entered
\* reaches the client whole, once and in order, whatever its size.
THEOREM IntactWithRoomCorrect == WriteSpec => []IntactWithRoom
<1>1. WriteIInv => IntactWithRoom
  BY DEF WriteIInv
<1>. QED BY <1>1, WriteIInvCorrect, PTL
=============================================================================
