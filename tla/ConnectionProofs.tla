--------------------------- MODULE ConnectionProofs ---------------------------
(***************************************************************************)
(* For messages and buffers of any size: the variables keep their types,   *)
(* so the line buffer never overflows, and the stream of bytes is          *)
(* preserved.                                                              *)
(***************************************************************************)
EXTENDS Connection, SequenceFacts

\* a line that was handed over is not kept
NoLeftover == ~reading => buf = << >>

IInv == TypeOK /\ NoLeftover /\ StreamPreserved

LEMMA EncodeType == ASSUME NEW m \in Messages PROVE Encode(m) \in Seq(Bytes)
<1>1. m.tag \in Seq(Bytes) /\ m.data \in Seq(Bytes)
  BY MessagesAssumption
<1>2. <<":">> \in Seq(Bytes) /\ <<"\n">> \in Seq(Bytes)
  BY DEF Bytes
<1>. QED  BY <1>1, <1>2, ConcatProperties DEF Encode

-------------------------------------------------------------------------------
LEMMA InitIInv == Init => IInv
<1>. SUFFICES ASSUME Init PROVE IInv
  OBVIOUS
<1>1. << >> \in Seq(Bytes) /\ Len(<< >>) = 0 /\ << >> \o << >> = << >>
  OBVIOUS
<1>2. [e \in Ends |-> "SUCCESS"] \in [Ends -> Results]
  BY DEF Results
<1>3. << >> \in Seq(Messages) /\ << >> \in Seq([tag : Seq(Bytes), data : Seq(Bytes)])
  OBVIOUS
<1>4. TypeOK
  <2>1. /\ unwritten = << >> /\ wire = << >> /\ buf = << >> /\ rio_buf = << >>
        /\ attempted = << >> /\ received = << >> /\ written = << >> /\ consumed = << >>
        /\ ~sending /\ sending \in BOOLEAN /\ ~reading /\ reading \in BOOLEAN /\ peer = "open"
    BY DEF Init
  <2>2. m_last_result \in [Ends -> Results] /\ returned \in [Ends -> Results]
    BY <1>2 DEF Init
  <2>3. 0 <= SocketSize /\ 0 <= MAX_LEN /\ 0 <= RIO_BUFSIZE
    BY SizesAssumption
  <2>. QED  BY <1>1, <1>3, <2>1, <2>2, <2>3 DEF TypeOK
<1>5. NoLeftover
  BY DEF Init, NoLeftover
<1>6. StreamPreserved
  BY <1>1 DEF Init, StreamPreserved
<1>. QED  BY <1>4, <1>5, <1>6 DEF IInv

LEMMA AsMessageType ==
  ASSUME NEW line \in Seq(Bytes), Valid(Trim(line))
  PROVE  AsMessage(line) \in [tag : Seq(Bytes), data : Seq(Bytes)]
<1>. DEFINE s == Trim(line)
<1>1. s \in Seq(Bytes)
  BY TrimType
<1>2. TagOf(s) \in Seq(Bytes) /\ DataOf(s) \in Seq(Bytes)
  BY <1>1, PartsTypes DEF Valid
<1>. HIDE DEF s
<1>3. [tag |-> TagOf(s), data |-> DataOf(s)] \in [tag : Seq(Bytes), data : Seq(Bytes)]
  BY <1>2
<1>. QED  BY <1>3 DEF AsMessage, s

LEMMA ParseType == ASSUME TypeOK, Parse(buf) PROVE TypeOK'
<1>2. received' \in Seq([tag : Seq(Bytes), data : Seq(Bytes)])
  <2>1. CASE UNCHANGED received
    BY <2>1 DEF TypeOK
  <2>2. CASE Valid(Trim(buf)) /\ received' = Append(received, AsMessage(buf))
    <3>1. AsMessage(buf) \in [tag : Seq(Bytes), data : Seq(Bytes)]
      BY <2>2, AsMessageType DEF TypeOK
    <3>. QED  BY <2>2, <3>1, AppendProperties DEF TypeOK
  <2>. QED  BY <2>1, <2>2 DEF Parse
<1>3. m_last_result' \in [Ends -> Results] /\ returned' \in [Ends -> Results]
  BY DEF Parse, TypeOK, Ends, Results
<1>4. consumed' \in Seq(Bytes) /\ buf' \in Seq(Bytes) /\ Len(buf') = 0
  BY ConcatProperties DEF Parse, TypeOK
<1>5. UNCHANGED <<rio_buf, writerVars, wire, peer>> /\ reading' = FALSE
  BY DEF Parse
<1>6. Len(buf') <= MAX_LEN
  BY <1>4, SizesAssumption
<1>. QED  BY <1>2, <1>3, <1>4, <1>5, <1>6 DEF TypeOK, writerVars

LEMMA TypeOKStep == ASSUME TypeOK, [Next]_vars PROVE TypeOK'
<1>. USE SizesAssumption DEF writerVars, readerVars, resultVars
<1>0. << >> \in Seq(Bytes) /\ Len(<< >>) = 0 /\ 0 <= MAX_LEN
  OBVIOUS
<1>1. CASE SendCall
  <2>1. PICK m \in Messages : unwritten' = Encode(m) /\ attempted' = Append(attempted, m)
    BY <1>1 DEF SendCall
  <2>. QED  BY <1>1, <2>1, EncodeType, AppendProperties DEF SendCall, TypeOK
<1>2. CASE Write
  <2>1. PICK n \in 1..Len(unwritten) :
          /\ Len(wire) + n <= SocketSize
          /\ wire' = wire \o SubSeq(unwritten, 1, n)
          /\ written' = written \o SubSeq(unwritten, 1, n)
          /\ unwritten' = SubSeq(unwritten, n + 1, Len(unwritten))
    BY <1>2 DEF Write
  <2>2. /\ SubSeq(unwritten, 1, n) \in Seq(Bytes) /\ Len(SubSeq(unwritten, 1, n)) = n
        /\ unwritten' \in Seq(Bytes)
    BY <2>1, CutTypes, SMTT(30) DEF TypeOK
  <2>3. /\ wire' \in Seq(Bytes) /\ Len(wire') = Len(wire) + n
        /\ written' \in Seq(Bytes)
    BY <2>1, <2>2, ConcatProperties, SMTT(30) DEF TypeOK
  <2>. QED  BY <1>2, <2>1, <2>2, <2>3 DEF Write, TypeOK
<1>3. CASE SendReturn
  BY <1>3 DEF SendReturn, TypeOK, Ends, Results
<1>4. CASE SendFails
  <2>1. m_last_result' \in [Ends -> Results] /\ returned' \in [Ends -> Results]
    BY <1>4 DEF SendFails, TypeOK, Results
  <2>. QED  BY <1>0, <1>4, <2>1 DEF SendFails, TypeOK
<1>5. CASE PeerClose
  BY <1>0, <1>5 DEF PeerClose, TypeOK
<1>6. CASE PeerReset
  <2>1. PICK n \in 0..Len(wire) : wire' = SubSeq(wire, 1, n)
    BY <1>6 DEF PeerReset
  <2>2. wire' \in Seq(Bytes) /\ Len(wire') = n
    BY <2>1, CutTypes DEF TypeOK
  <2>. QED  BY <1>6, <2>1, <2>2 DEF PeerReset, TypeOK
<1>7. CASE ReceiveCall
  BY <1>7 DEF ReceiveCall, TypeOK
<1>8. CASE Refill
  <2>1. PICK n \in 1..Len(wire) :
          /\ n <= RIO_BUFSIZE
          /\ rio_buf' = SubSeq(wire, 1, n)
          /\ wire' = SubSeq(wire, n + 1, Len(wire))
    BY <1>8 DEF Refill
  <2>2. /\ rio_buf' \in Seq(Bytes) /\ Len(rio_buf') = n
        /\ wire' \in Seq(Bytes) /\ Len(wire') = Len(wire) - n
    BY <2>1, CutTypes DEF TypeOK
  <2>. QED  BY <1>8, <2>1, <2>2 DEF Refill, TypeOK
<1>9. CASE CopyByte
  <2>1. Head(rio_buf) \in Bytes /\ Tail(rio_buf) \in Seq(Bytes)
        /\ Len(Tail(rio_buf)) = Len(rio_buf) - 1
    BY <1>9, HeadTailProperties DEF CopyByte, TypeOK
  <2>2. Len(buf) < MAX_LEN
    BY <1>9 DEF CopyByte, LineComplete, TypeOK
  <2>3. buf' \in Seq(Bytes) /\ Len(buf') = Len(buf) + 1
    BY <1>9, <2>1, AppendProperties DEF CopyByte, TypeOK
  <2>. QED  BY <1>9, <2>1, <2>2, <2>3 DEF CopyByte, TypeOK
<1>10. CASE ReceiveLine \/ ReceiveCutLine
  BY <1>10, ParseType DEF ReceiveLine, ReceiveCutLine
<1>11. CASE ReceiveEOF \/ ReceiveError
  <2>1. ReceiveFails
    BY <1>11 DEF ReceiveEOF, ReceiveError
  <2>2. m_last_result' \in [Ends -> Results] /\ returned' \in [Ends -> Results]
    BY <2>1 DEF ReceiveFails, TypeOK, Results
  <2>3. buf' \in Seq(Bytes) /\ Len(buf') <= MAX_LEN
    BY <1>0, <2>1 DEF ReceiveFails
  <2>. QED  BY <2>1, <2>2, <2>3 DEF ReceiveFails, TypeOK
<1>12. CASE UNCHANGED vars
  BY <1>12 DEF vars, TypeOK
<1>. QED
  BY <1>1, <1>2, <1>3, <1>4, <1>5, <1>6, <1>7, <1>8, <1>9, <1>10, <1>11, <1>12
     DEF Next, Send, Receive

LEMMA NoLeftoverStep == ASSUME NoLeftover, [Next]_vars PROVE NoLeftover'
BY DEF NoLeftover, Next, Send, SendCall, Write, SendReturn, SendFails, PeerClose,
       PeerReset, ReceiveCall, Receive, Refill, CopyByte, ReceiveLine,
       ReceiveCutLine, Parse, ReceiveEOF, ReceiveError, ReceiveFails, vars,
       writerVars, readerVars

(***************************************************************************)
(* Each step moves bytes across one of the three boundaries, or none.      *)
(***************************************************************************)
LEMMA StreamStep ==
  ASSUME IInv, [Next]_vars PROVE StreamPreserved'
<1>. SUFFICES ASSUME peer' # "reset"
              PROVE  (consumed \o buf \o rio_buf \o wire = written)'
  BY DEF StreamPreserved
<1>0. /\ consumed \in Seq(Bytes) /\ buf \in Seq(Bytes) /\ rio_buf \in Seq(Bytes)
      /\ wire \in Seq(Bytes) /\ unwritten \in Seq(Bytes) /\ NoLeftover
  BY DEF IInv, TypeOK
<1>00. peer # "reset" /\ consumed \o buf \o rio_buf \o wire = written
  <2>1. peer # "reset"
    BY DEF Next, Send, SendCall, Write, SendReturn, SendFails, PeerClose, PeerReset,
           ReceiveCall, Receive, Refill, CopyByte, ReceiveLine, ReceiveCutLine,
           Parse, ReceiveEOF, ReceiveError, ReceiveFails, vars, writerVars
  <2>. QED  BY <2>1 DEF IInv, StreamPreserved
<1>1. CASE Write
  <2>1. PICK n \in 1..Len(unwritten) :
          /\ wire' = wire \o SubSeq(unwritten, 1, n)
          /\ written' = written \o SubSeq(unwritten, 1, n)
    BY <1>1 DEF Write
  <2>2. SubSeq(unwritten, 1, n) \in Seq(Bytes)
    BY <1>0, CutTypes
  <2>3. consumed \o buf \o rio_buf \in Seq(Bytes)
    BY <1>0, ConcatProperties
  <2>4. (consumed \o buf \o rio_buf) \o (wire \o SubSeq(unwritten, 1, n))
          = (consumed \o buf \o rio_buf \o wire) \o SubSeq(unwritten, 1, n)
    <3>1. \A x, d, e \in Seq(Bytes) : (x \o d) \o e = x \o (d \o e)
      BY ConcatAssociative, SMTT(30)
    <3>. QED  BY <1>0, <2>2, <2>3, <3>1, ZenonT(30)
  <2>5. UNCHANGED <<consumed, buf, rio_buf>>
    BY <1>1 DEF Write, readerVars
  <2>. QED  BY <1>00, <2>1, <2>4, <2>5
<1>2. CASE Refill
  <2>1. PICK n \in 1..Len(wire) :
          /\ rio_buf' = SubSeq(wire, 1, n)
          /\ wire' = SubSeq(wire, n + 1, Len(wire))
    BY <1>2 DEF Refill
  <2>2. rio_buf' \in Seq(Bytes) /\ wire' \in Seq(Bytes) /\ rio_buf' \o wire' = wire
    BY <1>0, <2>1, CutTypes, CutConcat
  <2>3. rio_buf = << >> /\ UNCHANGED <<consumed, buf, written>>
    BY <1>2 DEF Refill, writerVars
  <2>4. consumed \o buf \in Seq(Bytes) /\ (consumed \o buf) \o << >> = consumed \o buf
    BY <1>0, ConcatProperties, ConcatEmptySeq
  <2>0. \A c, d \in Seq(Bytes) :
          consumed \o buf \o c \o d = consumed \o buf \o (c \o d)
    BY <1>0, MoveBetween
  <2>5. (consumed \o buf \o rio_buf') \o wire' = (consumed \o buf) \o (rio_buf' \o wire')
    BY <2>0, <2>2
  <2>. QED  BY <1>00, <2>2, <2>3, <2>4, <2>5
<1>3. CASE CopyByte
  <2>1. /\ Head(rio_buf) \in Bytes /\ Tail(rio_buf) \in Seq(Bytes)
        /\ rio_buf = <<Head(rio_buf)>> \o Tail(rio_buf)
    BY <1>0, <1>3, HeadTailProperties, SMT DEF CopyByte
  <2>2. buf' = buf \o <<Head(rio_buf)>> /\ rio_buf' = Tail(rio_buf)
    BY <1>0, <1>3, <2>1, AppendIsConcat DEF CopyByte
  <2>3. <<Head(rio_buf)>> \in Seq(Bytes) /\ consumed \o buf \in Seq(Bytes)
    BY <1>0, <2>1, ConcatProperties
  <2>4. consumed \o (buf \o <<Head(rio_buf)>>) = (consumed \o buf) \o <<Head(rio_buf)>>
    BY <1>0, <2>3, ConcatAssociative
  <2>5. ((consumed \o buf) \o <<Head(rio_buf)>>) \o Tail(rio_buf)
          = (consumed \o buf) \o (<<Head(rio_buf)>> \o Tail(rio_buf))
    BY <2>1, <2>3, ConcatAssociative, SMTT(30)
  <2>6. UNCHANGED <<consumed, wire, written>>
    BY <1>3 DEF CopyByte, writerVars
  <2>. QED  BY <1>00, <2>1, <2>2, <2>4, <2>5, <2>6
<1>4. CASE ReceiveLine \/ ReceiveCutLine
  <2>1. /\ consumed' = consumed \o buf /\ buf' = << >>
        /\ UNCHANGED <<rio_buf, wire, written>>
    BY <1>4 DEF ReceiveLine, ReceiveCutLine, Parse, writerVars
  <2>2. (consumed \o buf) \o << >> = consumed \o buf
    BY <1>0, ConcatProperties, ConcatEmptySeq
  <2>. QED  BY <1>00, <2>1, <2>2
<1>5. CASE ReceiveCall \/ ReceiveEOF
  <2>1. buf = << >> /\ buf' = << >> /\ UNCHANGED <<consumed, rio_buf, wire, written>>
    BY <1>0, <1>5 DEF ReceiveCall, ReceiveEOF, ReceiveFails, NoLeftover, writerVars
  <2>. QED  BY <1>00, <2>1
<1>6. CASE SendCall \/ SendReturn \/ SendFails \/ PeerClose \/ UNCHANGED vars
  BY <1>00, <1>6
     DEF SendCall, SendReturn, SendFails, PeerClose, vars, readerVars, writerVars
<1>7. CASE ReceiveError \/ PeerReset
  BY <1>00, <1>7 DEF ReceiveError, PeerReset
<1>. QED
  BY <1>1, <1>2, <1>3, <1>4, <1>5, <1>6, <1>7 DEF Next, Send, Receive

LEMMA Invariance == Spec => []IInv
<1>1. IInv /\ [Next]_vars => IInv'
  BY TypeOKStep, NoLeftoverStep, StreamStep DEF IInv
<1>. QED  BY <1>1, InitIInv, PTL DEF Spec

(***************************************************************************)
(* The types hold; in particular the line never outgrows the buffer that   *)
(* receive declares, nor the read-ahead the rio buffer.                    *)
(***************************************************************************)
THEOREM TypeCorrect == Spec => []TypeOK
<1>1. IInv => TypeOK
  BY DEF IInv
<1>. QED  BY <1>1, Invariance, PTL

(***************************************************************************)
(* No byte is lost, doubled or reordered.                                  *)
(***************************************************************************)
THEOREM StreamIsPreserved == Spec => []StreamPreserved
<1>1. IInv => StreamPreserved
  BY DEF IInv
<1>. QED  BY <1>1, Invariance, PTL

-------------------------------------------------------------------------------
(***************************************************************************)
(* RoundTrip.  What is on its way to the parser is made of the lines of    *)
(* the messages it has not dealt with, the last one maybe incomplete.      *)
(* cut[i] is where the line of the i-th message ends in the stream.        *)
(***************************************************************************)
Lined(rest, l, k, cut) ==
  /\ \A i \in 1..Len(l) : cut[i] = cut[i - 1] + Len(Encode(l[i]))
  /\ \A i \in 0..Len(l) : cut[i] <= cut[Len(l)]
  /\ Len(rest) <= cut[Len(l)] - cut[k]
  /\ \A i \in (k + 1)..Len(l) : \A p \in 1..Len(Encode(l[i])) :
       cut[i - 1] - cut[k] + p \in 1..Len(rest) =>
         rest[cut[i - 1] - cut[k] + p] = Encode(l[i])[p]

\* what will still be written: nothing once the writer's end is gone
ToWrite == IF peer = "open" THEN unwritten ELSE << >>

\* the bytes behind the line that is being read, and those with it
Behind == rio_buf \o wire \o ToWrite
Rest == buf \o rio_buf \o wire \o ToWrite

AllFit == \A i \in 1..Len(attempted) : Fits(attempted[i])

\* the first k messages were dealt with
DealtWith(k, cut) ==
  /\ Lists(received, attempted, Acceptable(k))
  /\ Lined(Rest, attempted, k, cut)
  /\ peer = "open" => Len(Rest) = cut[Len(attempted)] - cut[k]

LineInv == AllFit =>
  \E k \in 0..Len(attempted) : \E cut \in [0..Len(attempted) -> Nat] : DealtWith(k, cut)

\* a newline ends the line that is being read
OneLine == \A i \in 1..Len(buf) - 1 : buf[i] # "\n"

WriterIdle == ~sending => unwritten = << >>

\* a piece of a message came behind the others, and nothing can follow
Ended ==
  /\ peer = "closed" /\ buf = << >> /\ rio_buf = << >> /\ wire = << >>
  /\ AllFit => \E k \in 0..Len(attempted) - 1 : EndsBroken(k)

LInv == IInv /\ OneLine /\ WriterIdle /\ (LineInv \/ Ended)

(***************************************************************************)
(* The line of a message that fits.                                        *)
(***************************************************************************)
LEMMA LineOfMessage ==
  ASSUME NEW m \in Messages, Fits(m)
  PROVE  /\ Encode(m) \in Seq(Bytes)
         /\ Len(Encode(m)) \in 1..MAX_LEN
         /\ Encode(m)[Len(Encode(m))] = "\n"
         /\ \A i \in 1..Len(Encode(m)) - 1 : Encode(m)[i] # "\n"
<1>. DEFINE s == m.tag \o <<":">> \o m.data
            n == Len(m.tag)
            d == Len(m.data)
<1>1. m.tag \in Seq(Bytes) /\ m.data \in Seq(Bytes) /\ n \in Nat /\ d \in Nat
  BY MessagesAssumption, LenProperties
<1>2. <<"\n">> \in Seq(Bytes) /\ Len(<<"\n">>) = 1 /\ <<"\n">>[1] = "\n"
  <2>1. "\n" \in Bytes
    BY DEF Bytes
  <2>. QED  BY <2>1
<1>3. /\ s \in Seq(Bytes) /\ Len(s) = n + 1 + d
      /\ \A i \in 1..n : s[i] = m.tag[i]
      /\ s[n + 1] = ":"
      /\ \A i \in 1..d : s[n + 1 + i] = m.data[i]
  BY <1>1, TextOfLine
<1>4. /\ \A i \in 1..n : m.tag[i] # "\n"
      /\ \A i \in 1..d : m.data[i] # "\n"
  BY DEF Fits
<1>. HIDE DEF s, n, d
<1>6. ASSUME NEW i \in 1..Len(s) PROVE s[i] # "\n"
  <2>1. CASE i \in 1..n
    BY <1>3, <1>4, <2>1
  <2>2. CASE i = n + 1
    BY <1>3, <2>2
  <2>3. CASE i > n + 1
    <3>1. i - (n + 1) \in 1..d /\ i = n + 1 + (i - (n + 1))
      BY <1>1, <1>3, <2>3
    <3>2. s[n + 1 + (i - (n + 1))] = m.data[i - (n + 1)]
      BY <1>3, <3>1
    <3>. QED  BY <1>4, <3>1, <3>2
  <2>. QED  BY <1>1, <1>3, <2>1, <2>2, <2>3
<1>7. /\ s \o <<"\n">> \in Seq(Bytes) /\ Len(s \o <<"\n">>) = Len(s) + 1
      /\ \A i \in 1..Len(s) : (s \o <<"\n">>)[i] = s[i]
      /\ (s \o <<"\n">>)[Len(s) + 1] = "\n"
  BY <1>2, <1>3, ConcatProperties
<1>8. Encode(m) = s \o <<"\n">>
  BY DEF Encode, s
<1>9. Len(s) \in Nat /\ Len(s) + 1 - 1 = Len(s)
  BY <1>1, <1>3
<1>10. Len(Encode(m)) = Len(s) + 1 /\ Len(s) + 1 \in 1..MAX_LEN
  BY <1>7, <1>8, <1>9, SizesAssumption DEF Fits
<1>. QED  BY <1>6, <1>7, <1>8, <1>9, <1>10

\* it gives back the message, if the tag is in lower case
LEMMA ParseOfLine ==
  ASSUME NEW m \in Messages, Fits(m)
  PROVE  /\ Valid(Trim(Encode(m))) <=> isLowerCased(m.tag)
         /\ AsMessage(Encode(m)) = m
<1>. DEFINE s == m.tag \o <<":">> \o m.data
<1>1. m.tag \in Seq(Bytes) /\ m.data \in Seq(Bytes) /\ m = [tag |-> m.tag, data |-> m.data]
  BY MessagesAssumption
<1>2. Trim(Encode(m)) = s /\ \A i \in 1..Len(m.tag) : m.tag[i] # ":"
  BY DEF Fits
<1>3. ColonPos(s) = Len(m.tag) + 1 /\ TagOf(s) = m.tag /\ DataOf(s) = m.data
  BY <1>1, <1>2, ParsesBack
<1>4. Len(m.tag) + 1 # 0
  BY <1>1, LenProperties
<1>. HIDE DEF s
<1>. QED  BY <1>1, <1>2, <1>3, <1>4 DEF Valid, AsMessage

(***************************************************************************)
(* How the lines change: bytes are cut off, a message is added, the first  *)
(* line is parsed.                                                         *)
(***************************************************************************)
LEMMA LinedPrefix ==
  ASSUME NEW rest \in Seq(Bytes), NEW l \in Seq(Messages), NEW k \in 0..Len(l),
         NEW cut \in [0..Len(l) -> Nat], Lined(rest, l, k, cut),
         NEW short \in Seq(Bytes), Len(short) <= Len(rest),
         \A i \in 1..Len(short) : short[i] = rest[i]
  PROVE  Lined(short, l, k, cut)
<1>1. Len(short) \in Nat /\ Len(rest) \in Nat /\ Len(l) \in Nat
  BY LenProperties
<1>2. Len(short) <= cut[Len(l)] - cut[k]
  <2>1. cut[Len(l)] \in Nat /\ cut[k] \in Nat
    BY <1>1
  <2>. QED  BY <1>1, <2>1 DEF Lined
<1>3. \A q \in 1..Len(short) : q \in 1..Len(rest)
  BY <1>1
<1>. QED  BY <1>2, <1>3 DEF Lined

LEMMA LinedAppend ==
  ASSUME NEW rest \in Seq(Bytes), NEW l \in Seq(Messages), NEW k \in 0..Len(l),
         NEW cut \in [0..Len(l) -> Nat], Lined(rest, l, k, cut),
         NEW m \in Messages
  PROVE  \E cut1 \in [0..Len(Append(l, m)) -> Nat] :
           /\ Lined(rest, Append(l, m), k, cut1)
           /\ Len(rest) = cut[Len(l)] - cut[k] =>
                /\ Lined(rest \o Encode(m), Append(l, m), k, cut1)
                /\ Len(rest \o Encode(m)) = cut1[Len(Append(l, m))] - cut1[k]
<1>. DEFINE n == Len(l)
            L == Append(l, m)
            E == Encode(m)
            cut1 == [i \in 0..n + 1 |-> IF i <= n THEN cut[i] ELSE cut[n] + Len(E)]
<1>1. /\ n \in Nat /\ Len(L) = n + 1 /\ L[n + 1] = m
      /\ \A i \in 1..n : L[i] = l[i]
      /\ E \in Seq(Bytes) /\ Len(E) \in Nat /\ Len(rest) \in Nat
  BY EncodeType, LenProperties, AppendProperties
<1>2. \A i \in 0..n : cut[i] \in Nat /\ cut[i] <= cut[n]
  BY DEF Lined
<1>. HIDE DEF n, L, E
<1>3. /\ cut1 \in [0..n + 1 -> Nat]
      /\ \A i \in 0..n : cut1[i] = cut[i]
      /\ cut1[n + 1] = cut[n] + Len(E)
  <2>1. n \in 0..n /\ n + 1 \in 0..n + 1 /\ ~ (n + 1 <= n)
    BY <1>1
  <2>2. \A i \in 0..n : i \in 0..n + 1 /\ i <= n
    BY <1>1
  <2>3. \A i \in 0..n + 1 : (IF i <= n THEN cut[i] ELSE cut[n] + Len(E)) \in Nat
    BY <1>1, <1>2, <2>1
  <2>. QED  BY <2>1, <2>2, <2>3
<1>. HIDE DEF cut1
<1>4. \A i \in 1..Len(L) : cut1[i] = cut1[i - 1] + Len(Encode(L[i]))
  <2>1. ASSUME NEW i \in 1..n PROVE cut1[i] = cut1[i - 1] + Len(Encode(L[i]))
    <3>1. i \in 0..n /\ i - 1 \in 0..n
      BY <1>1
    <3>2. cut[i] = cut[i - 1] + Len(Encode(l[i]))
      BY DEF Lined, n
    <3>. QED  BY <1>1, <1>3, <3>1, <3>2
  <2>2. ASSUME NEW i \in 1..n + 1 PROVE cut1[i] = cut1[i - 1] + Len(Encode(L[i]))
    <3>1. i \in 1..n \/ i = n + 1
      BY <1>1
    <3>2. CASE i \in 1..n
      BY <2>1, <3>2
    <3>3. CASE i = n + 1
      <4>1. i - 1 = n /\ n \in 0..n
        BY <1>1, <3>3
      <4>2. L[i] = m /\ cut1[i] = cut[n] + Len(E)
        BY <1>1, <1>3, <3>3
      <4>3. cut1[i - 1] = cut[n]
        BY <1>3, <4>1
      <4>. QED  BY <4>2, <4>3 DEF E
    <3>. QED  BY <3>1, <3>2, <3>3
  <2>. QED  BY <1>1, <2>2
<1>5. \A i \in 0..Len(L) : cut1[i] <= cut1[Len(L)]
  <2>1. ASSUME NEW i \in 0..n + 1 PROVE cut1[i] <= cut1[n + 1]
    <3>1. CASE i \in 0..n
      <4>1. n \in 0..n
        BY <1>1
      <4>2. cut[i] \in Nat /\ cut[n] \in Nat /\ cut[i] <= cut[n]
        BY <1>2, <3>1, <4>1
      <4>. QED  BY <1>1, <1>3, <3>1, <4>2
    <3>2. CASE i = n + 1
      BY <1>3, <3>2
    <3>. QED  BY <1>1, <3>1, <3>2
  <2>. QED  BY <1>1, <2>1
<1>6. k \in 0..n /\ n \in 0..n /\ cut1[k] = cut[k] /\ cut[k] \in Nat /\ cut[n] \in Nat
      /\ Len(rest) <= cut[n] - cut[k]
  BY <1>1, <1>2, <1>3 DEF n, Lined
\* no byte of rest lies behind the lines of l
<1>7. ASSUME NEW i \in (k + 1)..n, NEW p \in 1..Len(Encode(L[i]))
      PROVE  /\ cut1[i - 1] - cut1[k] + p <= cut[n] - cut[k]
             /\ cut1[i - 1] - cut1[k] + p \in 1..Len(rest) =>
                  rest[cut1[i - 1] - cut1[k] + p] = Encode(L[i])[p]
  <2>1. i \in 1..n /\ i \in 0..n /\ i - 1 \in 0..n
    BY <1>1, <1>6
  <2>2. cut[i] = cut[i - 1] + Len(Encode(l[i])) /\ cut[i] <= cut[n]
    BY <2>1 DEF Lined, n
  <2>3. L[i] = l[i] /\ cut1[i - 1] = cut[i - 1] /\ p \in 1..Len(Encode(l[i]))
    BY <1>1, <1>3, <2>1
  <2>4. cut[i - 1] \in Nat /\ cut[i] \in Nat
    BY <1>2, <2>1
  <2>5. l[i] \in Messages
    BY <2>1 DEF n
  <2>6. Len(Encode(l[i])) \in Nat
    BY <2>5, EncodeType, LenProperties
  <2>7. cut1[i - 1] - cut1[k] + p <= cut[n] - cut[k]
    <3>. DEFINE a == cut[i - 1]
                b == cut[n]
                c == cut[k]
                e == Len(Encode(l[i]))
    <3>1. /\ a \in Nat /\ b \in Nat /\ c \in Nat /\ e \in Nat
          /\ a + e <= b /\ p \in 1..e
      BY <1>6, <2>2, <2>3, <2>4, <2>6
    <3>2. cut1[i - 1] = a /\ cut1[k] = c
      BY <1>6, <2>3
    <3>. HIDE DEF a, b, c, e
    <3>3. a - c + p <= b - c
      BY <3>1
    <3>. QED  BY <3>2, <3>3 DEF b, c
  <2>8. cut[i - 1] - cut[k] + p \in 1..Len(rest) =>
          rest[cut[i - 1] - cut[k] + p] = Encode(l[i])[p]
    BY <2>3 DEF Lined, n
  <2>. QED  BY <1>6, <2>3, <2>7, <2>8
<1>8. Lined(rest, L, k, cut1)
  <2>1. Len(rest) <= cut1[Len(L)] - cut1[k]
    BY <1>1, <1>3, <1>6
  <2>4. n + 1 - 1 = n
    BY <1>1
  <2>2. ASSUME NEW p \in 1..Len(Encode(L[n + 1]))
        PROVE  cut1[n + 1 - 1] - cut1[k] + p \notin 1..Len(rest)
    <3>1. cut1[n] - cut1[k] + p \notin 1..Len(rest)
      BY <1>1, <1>3, <1>6
    <3>. QED  BY <2>4, <3>1
  <2>3. \A i \in (k + 1)..Len(L) : i \in (k + 1)..n \/ i = n + 1
    BY <1>1, <1>6
  <2>5. ASSUME NEW i \in (k + 1)..Len(L), NEW p \in 1..Len(Encode(L[i])),
               cut1[i - 1] - cut1[k] + p \in 1..Len(rest)
        PROVE  rest[cut1[i - 1] - cut1[k] + p] = Encode(L[i])[p]
    <3>1. CASE i \in (k + 1)..n
      BY <1>7, <2>5, <3>1
    <3>2. CASE i = n + 1
      <4>1. p \in 1..Len(Encode(L[n + 1]))
        BY <3>2
      <4>2. cut1[n + 1 - 1] - cut1[k] + p \in 1..Len(rest)
        BY <1>1, <2>5, <3>2
      <4>. QED  BY <2>2, <4>1, <4>2
    <3>. QED  BY <2>3, <3>1, <3>2
  <2>. QED  BY <1>4, <1>5, <2>1, <2>5 DEF Lined
<1>9. ASSUME Len(rest) = cut[n] - cut[k]
      PROVE  Lined(rest \o E, L, k, cut1) /\ Len(rest \o E) = cut1[Len(L)] - cut1[k]
  <2>. DEFINE longer == rest \o E
  <2>1. /\ longer \in Seq(Bytes) /\ Len(longer) = Len(rest) + Len(E)
        /\ \A q \in 1..Len(rest) : longer[q] = rest[q]
        /\ \A p \in 1..Len(E) : longer[Len(rest) + p] = E[p]
    BY <1>1, ConcatProperties
  <2>. HIDE DEF longer
  <2>2. Len(longer) = cut1[Len(L)] - cut1[k]
    BY <1>1, <1>3, <1>6, <1>9, <2>1
  <2>3. ASSUME NEW i \in (k + 1)..n, NEW p \in 1..Len(Encode(L[i])),
               cut1[i - 1] - cut1[k] + p \in 1..Len(longer)
        PROVE  longer[cut1[i - 1] - cut1[k] + p] = Encode(L[i])[p]
    <3>1. cut1[i - 1] - cut1[k] + p \in 1..Len(rest)
      BY <1>1, <1>7, <1>9, <2>3
    <3>. QED  BY <1>7, <2>1, <3>1
  <2>6. n + 1 - 1 = n
    BY <1>1
  <2>4. \A p \in 1..Len(Encode(L[n + 1])) :
          longer[cut1[n + 1 - 1] - cut1[k] + p] = Encode(L[n + 1])[p]
    <3>1. \A p \in 1..Len(Encode(L[n + 1])) :
            longer[cut1[n] - cut1[k] + p] = Encode(L[n + 1])[p]
      BY <1>1, <1>3, <1>6, <1>9, <2>1 DEF E
    <3>. QED  BY <2>6, <3>1
  <2>5. \A i \in (k + 1)..Len(L) : i \in (k + 1)..n \/ i = n + 1
    BY <1>1, <1>6
  <2>7. ASSUME NEW i \in (k + 1)..Len(L), NEW p \in 1..Len(Encode(L[i])),
               cut1[i - 1] - cut1[k] + p \in 1..Len(longer)
        PROVE  longer[cut1[i - 1] - cut1[k] + p] = Encode(L[i])[p]
    <3>1. CASE i \in (k + 1)..n
      BY <2>3, <2>7, <3>1
    <3>2. CASE i = n + 1
      <4>1. p \in 1..Len(Encode(L[n + 1]))
        BY <3>2
      <4>2. longer[cut1[n + 1 - 1] - cut1[k] + p] = Encode(L[n + 1])[p]
        BY <2>4, <4>1
      <4>. QED  BY <1>1, <3>2, <4>2
    <3>. QED  BY <2>5, <3>1, <3>2
  <2>8. Lined(longer, L, k, cut1)
    <3>1. Len(longer) <= cut1[Len(L)] - cut1[k]
      BY <1>1, <2>1, <2>2
    <3>. QED  BY <1>4, <1>5, <2>7, <3>1 DEF Lined
  <2>. QED  BY <2>2, <2>8 DEF longer
<1>. QED  BY <1>1, <1>3, <1>8, <1>9 DEF n, L, E

LEMMA LinedNext ==
  ASSUME NEW line \in Seq(Bytes), NEW rest \in Seq(Bytes),
         NEW l \in Seq(Messages), NEW k \in 0..Len(l) - 1,
         NEW cut \in [0..Len(l) -> Nat], Lined(line \o rest, l, k, cut),
         Len(line) = Len(Encode(l[k + 1]))
  PROVE  /\ Lined(rest, l, k + 1, cut)
         /\ Len(line \o rest) = cut[Len(l)] - cut[k] =>
              Len(rest) = cut[Len(l)] - cut[k + 1]
<1>1. Len(line) \in Nat /\ Len(rest) \in Nat /\ Len(l) \in Nat
  BY LenProperties
<1>2. /\ Len(line \o rest) = Len(line) + Len(rest)
      /\ \A i \in 1..Len(rest) : (line \o rest)[Len(line) + i] = rest[i]
  BY <1>1, ConcatProperties
<1>3. /\ k \in Nat /\ k + 1 \in 1..Len(l) /\ k + 1 - 1 = k
      /\ \A i \in (k + 1 + 1)..Len(l) : i \in (k + 1)..Len(l)
  BY <1>1
<1>4. cut[k + 1] = cut[k] + Len(line)
  BY <1>3 DEF Lined
<1>5. \A i \in 0..Len(l) : cut[i] \in Nat
  OBVIOUS
<1>6. cut[k] \in Nat /\ cut[k + 1] \in Nat /\ cut[Len(l)] \in Nat
  <2>1. k \in 0..Len(l) /\ k + 1 \in 0..Len(l) /\ Len(l) \in 0..Len(l)
    BY <1>1, <1>3
  <2>. QED  BY <1>5, <2>1
<1>7. Len(rest) <= cut[Len(l)] - cut[k + 1]
  <2>1. Len(line \o rest) <= cut[Len(l)] - cut[k]
    BY DEF Lined
  <2>. QED  BY <1>1, <1>2, <1>4, <1>6, <2>1
<1>8. ASSUME NEW i \in (k + 1 + 1)..Len(l), NEW p \in 1..Len(Encode(l[i])),
             cut[i - 1] - cut[k + 1] + p \in 1..Len(rest)
      PROVE  rest[cut[i - 1] - cut[k + 1] + p] = Encode(l[i])[p]
  <2>1. i \in 1..Len(l) /\ i - 1 \in 0..Len(l) /\ cut[i - 1] \in Nat
    BY <1>1, <1>3, <1>5
  <2>2. l[i] \in Messages
    BY <2>1
  <2>3. p \in Nat
    BY <2>2, EncodeType, LenProperties
  <2>4. cut[i - 1] - cut[k] + p = Len(line) + (cut[i - 1] - cut[k + 1] + p)
    <3>2. /\ cut[i - 1] \in Int /\ cut[k] \in Int /\ cut[k + 1] \in Int
          /\ Len(line) \in Int /\ p \in Int
      BY <1>1, <1>6, <2>1, <2>3
    <3>3. cut[i - 1] - cut[k] + p = Len(line) + (cut[i - 1] - (cut[k] + Len(line)) + p)
      BY <3>2
    <3>. QED  BY <1>4, <3>3
  <2>5. cut[i - 1] - cut[k] + p \in 1..Len(line \o rest)
    BY <1>1, <1>2, <1>8, <2>4
  <2>6. (line \o rest)[cut[i - 1] - cut[k] + p] = Encode(l[i])[p]
    BY <1>3, <2>5 DEF Lined
  <2>7. (line \o rest)[cut[i - 1] - cut[k] + p] = rest[cut[i - 1] - cut[k + 1] + p]
    BY <1>2, <1>8, <2>4
  <2>. QED  BY <2>6, <2>7
<1>9. Lined(rest, l, k + 1, cut)
  BY <1>7, <1>8 DEF Lined
<1>10. Len(line \o rest) = cut[Len(l)] - cut[k] => Len(rest) = cut[Len(l)] - cut[k + 1]
  BY <1>1, <1>2, <1>4, <1>6
<1>. QED  BY <1>9, <1>10

(***************************************************************************)
(* Steps that parse no line and add no message: what is left of the        *)
(* stream, or a first part of it, stays lined.                             *)
(***************************************************************************)
LEMMA ConcatBytes ==
  \A s, t \in Seq(Bytes) : s \o t \in Seq(Bytes) /\ Len(s \o t) = Len(s) + Len(t)
BY ConcatProperties

LEMMA Associate ==
  \A s, t, u \in Seq(Bytes) : (s \o t) \o u = s \o (t \o u)
BY ConcatAssociative

LEMMA EmptyAtEnd ==
  \A s \in Seq(Bytes) : s \o << >> = s /\ << >> \o s = s
BY ConcatEmptySeq

RestParts ==
  /\ ToWrite \in Seq(Bytes) /\ Behind \in Seq(Bytes) /\ Rest \in Seq(Bytes)
  /\ Rest = buf \o Behind

LEMMA RestType == TypeOK => RestParts
<1>. SUFFICES ASSUME TypeOK PROVE RestParts
  OBVIOUS
<1>1. /\ buf \in Seq(Bytes) /\ rio_buf \in Seq(Bytes) /\ wire \in Seq(Bytes)
      /\ unwritten \in Seq(Bytes) /\ << >> \in Seq(Bytes)
  BY DEF TypeOK
<1>2. ToWrite \in Seq(Bytes)
  BY <1>1 DEF ToWrite
<1>3. rio_buf \o wire \in Seq(Bytes) /\ buf \o rio_buf \in Seq(Bytes)
  BY <1>1, ConcatBytes, Zenon
<1>4. Behind \in Seq(Bytes) /\ (buf \o rio_buf) \o wire \in Seq(Bytes)
  BY <1>1, <1>2, <1>3, ConcatBytes, Zenon DEF Behind
<1>5. Rest \in Seq(Bytes)
  BY <1>2, <1>4, ConcatBytes, Zenon DEF Rest
<1>6. (buf \o rio_buf) \o wire = buf \o (rio_buf \o wire)
  BY <1>1, Associate, Zenon
<1>7. (buf \o (rio_buf \o wire)) \o ToWrite = buf \o ((rio_buf \o wire) \o ToWrite)
  <2>1. /\ buf \in Seq(Bytes) /\ rio_buf \o wire \in Seq(Bytes)
        /\ ToWrite \in Seq(Bytes)
    BY <1>1, <1>2, <1>3
  <2>. QED  BY <2>1, Associate, Zenon
<1>8. Rest = buf \o Behind
  BY <1>6, <1>7, Zenon DEF Rest, Behind
<1>. QED  BY <1>2, <1>4, <1>5, <1>8 DEF RestParts

\* s is the whole of t or a first part of it
StartOf(s, t) == Len(s) <= Len(t) /\ \A i \in 1..Len(s) : s[i] = t[i]

LEMMA StartOfConcat ==
  ASSUME NEW s \in Seq(Bytes), NEW t \in Seq(Bytes)
  PROVE  StartOf(s, s) /\ StartOf(s, s \o t) /\ StartOf(<< >>, s)
<1>1. Len(s) \in Nat /\ Len(t) \in Nat
  BY LenProperties
<1>2. Len(s \o t) = Len(s) + Len(t) /\ \A i \in 1..Len(s) : (s \o t)[i] = s[i]
  BY <1>1, ConcatProperties
<1>. QED  BY <1>1, <1>2 DEF StartOf

LEMMA LinesStay ==
  ASSUME TypeOK, TypeOK', LineInv, attempted' = attempted, received' = received,
         peer' = "open" => peer = "open" /\ Rest' = Rest,
         StartOf(Rest', Rest)
  PROVE  LineInv'
<1>1. SUFFICES ASSUME AllFit'
               PROVE  (\E k \in 0..Len(attempted) :
                         \E cut \in [0..Len(attempted) -> Nat] : DealtWith(k, cut))'
  BY DEF LineInv
<1>2. AllFit
  BY <1>1 DEF AllFit
<1>3. PICK k \in 0..Len(attempted), cut \in [0..Len(attempted) -> Nat] : DealtWith(k, cut)
  BY <1>2 DEF LineInv
<1>4. Rest \in Seq(Bytes) /\ attempted \in Seq(Messages)
  BY RestType DEF TypeOK, RestParts
<1>5. Rest' \in Seq(Bytes)
  <2>1. RestParts'
    BY RestType, PTL
  <2>. QED  BY <2>1 DEF RestParts
<1>6. Lined(Rest', attempted, k, cut)
  BY <1>3, <1>4, <1>5, LinedPrefix DEF DealtWith, StartOf
<1>7. DealtWith(k, cut)'
  BY <1>3, <1>6 DEF DealtWith, Acceptable
<1>. QED  BY <1>3, <1>7

LEMMA QuietLines ==
  ASSUME TypeOK, TypeOK', NoLeftover, LineInv,
         Write \/ SendReturn \/ SendFails \/ PeerClose \/ PeerReset \/ ReceiveCall
           \/ Refill \/ CopyByte \/ ReceiveEOF \/ ReceiveError \/ UNCHANGED vars
  PROVE  LineInv'
<1>0. /\ buf \in Seq(Bytes) /\ rio_buf \in Seq(Bytes) /\ wire \in Seq(Bytes)
      /\ unwritten \in Seq(Bytes) /\ ToWrite \in Seq(Bytes) /\ Rest \in Seq(Bytes)
      /\ buf \o rio_buf \in Seq(Bytes) /\ (buf \o rio_buf) \o wire \in Seq(Bytes)
      /\ << >> \in Seq(Bytes)
  <2>1. buf \in Seq(Bytes) /\ rio_buf \in Seq(Bytes) /\ wire \in Seq(Bytes)
        /\ unwritten \in Seq(Bytes)
    BY DEF TypeOK
  <2>. QED  BY <2>1, RestType, ConcatBytes DEF RestParts
<1>. SUFFICES /\ attempted' = attempted /\ received' = received
              /\ peer' = "open" => peer = "open" /\ Rest' = Rest
              /\ StartOf(Rest', Rest)
  BY LinesStay
<1>. USE DEF writerVars, readerVars, resultVars
<1>1. ASSUME UNCHANGED <<attempted, received, peer>>, Rest' = Rest
      PROVE  /\ attempted' = attempted /\ received' = received
             /\ peer' = "open" => peer = "open" /\ Rest' = Rest
             /\ StartOf(Rest', Rest)
  BY <1>0, <1>1, StartOfConcat
<1>2. CASE Write
  <2>1. PICK n \in 1..Len(unwritten) :
          /\ wire' = wire \o SubSeq(unwritten, 1, n)
          /\ unwritten' = SubSeq(unwritten, n + 1, Len(unwritten))
    BY <1>2 DEF Write
  <2>. DEFINE x == SubSeq(unwritten, 1, n)
              y == SubSeq(unwritten, n + 1, Len(unwritten))
              b == buf \o rio_buf
  <2>2. n \in 0..Len(unwritten)
    OBVIOUS
  <2>3. x \in Seq(Bytes) /\ y \in Seq(Bytes) /\ x \o y = unwritten
    BY <1>0, <2>2, CutTypes, CutConcat
  <2>4. b \in Seq(Bytes) /\ b \o wire \in Seq(Bytes)
    BY <1>0
  <2>5. UNCHANGED <<buf, rio_buf, peer, attempted, received>> /\ peer = "open"
    BY <1>2 DEF Write
  <2>6. Rest = (b \o wire) \o unwritten
    BY <2>5 DEF Rest, ToWrite
  <2>7. Rest' = (b \o (wire \o x)) \o y
    BY <2>1, <2>5 DEF Rest, ToWrite
  <2>. HIDE DEF x, y, b
  <2>8. b \o (wire \o x) = (b \o wire) \o x
    <3>. DEFINE w == b \o wire
    <3>1. w \in Seq(Bytes) /\ x \in Seq(Bytes) /\ y \in Seq(Bytes)
      BY <2>3, <2>4
    <3>. HIDE DEF w
    <3>2. (w \o x) \o y = w \o (x \o y)
      BY <3>1, Associate, Zenon
    <3>. QED  BY <3>2 DEF w
  <2>9. ((b \o wire) \o x) \o y = (b \o wire) \o (x \o y)
    BY <2>3, <2>4, Associate, Zenon
  <2>10. Rest' = Rest
    BY <2>3, <2>6, <2>7, <2>8, <2>9, Zenon
  <2>. QED  BY <1>1, <2>5, <2>10
<1>3. CASE SendReturn \/ SendFails \/ ReceiveCall \/ ReceiveEOF \/ UNCHANGED vars
  <2>1. UNCHANGED <<attempted, received, peer, buf, rio_buf, wire>>
    BY <1>3 DEF SendReturn, SendFails, ReceiveCall, NoLeftover, ReceiveEOF, ReceiveFails, vars
  <2>2. ToWrite' = ToWrite
    BY <1>3 DEF ToWrite, SendReturn, SendFails, ReceiveCall, ReceiveEOF, ReceiveFails, vars
  <2>. QED  BY <1>1, <2>1, <2>2 DEF Rest
<1>4. CASE PeerClose
  <2>1. /\ UNCHANGED <<attempted, received, buf, rio_buf, wire>>
        /\ peer = "open" /\ peer' = "closed"
    BY <1>4 DEF PeerClose
  <2>2. Rest = (buf \o rio_buf \o wire) \o unwritten
    BY <2>1 DEF Rest, ToWrite
  <2>3. Rest' = buf \o rio_buf \o wire
    <3>1. Rest' = (buf \o rio_buf \o wire) \o << >>
      BY <2>1 DEF Rest, ToWrite
    <3>. QED  BY <1>0, <3>1, EmptyAtEnd, Zenon
  <2>. QED  BY <1>0, <2>1, <2>2, <2>3, StartOfConcat
<1>5. CASE PeerReset
  <2>1. PICK n \in 0..Len(wire) : wire' = SubSeq(wire, 1, n)
    BY <1>5 DEF PeerReset
  <2>. DEFINE x == SubSeq(wire, 1, n)
              y == SubSeq(wire, n + 1, Len(wire))
              b == buf \o rio_buf
  <2>2. x \in Seq(Bytes) /\ y \in Seq(Bytes) /\ x \o y = wire
    BY <1>0, CutTypes, CutConcat
  <2>3. /\ UNCHANGED <<attempted, received, buf, rio_buf>>
        /\ peer = "open" /\ peer' = "reset"
    BY <1>5 DEF PeerReset
  <2>4. Rest = (b \o wire) \o unwritten
    BY <2>3 DEF Rest, ToWrite
  <2>5. Rest' = (b \o x) \o << >>
    BY <2>1, <2>3 DEF Rest, ToWrite
  <2>6. b \in Seq(Bytes)
    BY <1>0
  <2>. HIDE DEF x, y, b
  <2>7. b \o x \in Seq(Bytes) /\ y \o unwritten \in Seq(Bytes)
    BY <1>0, <2>2, <2>6, ConcatBytes
  <2>8. Rest' = b \o x
    BY <2>5, <2>7, EmptyAtEnd, Zenon
  <2>9. b \o wire = (b \o x) \o y
    BY <2>2, <2>6, Associate, Zenon
  <2>10. ((b \o x) \o y) \o unwritten = (b \o x) \o (y \o unwritten)
    <3>1. b \o x \in Seq(Bytes) /\ y \in Seq(Bytes) /\ unwritten \in Seq(Bytes)
      BY <1>0, <2>2, <2>7
    <3>. QED  BY <3>1, Associate, Zenon
  <2>11. Rest = (b \o x) \o (y \o unwritten)
    BY <2>4, <2>9, <2>10, Zenon
  <2>. QED  BY <2>3, <2>7, <2>8, <2>11, StartOfConcat
<1>6. CASE Refill
  <2>1. PICK n \in 1..Len(wire) :
          /\ rio_buf' = SubSeq(wire, 1, n)
          /\ wire' = SubSeq(wire, n + 1, Len(wire))
    BY <1>6 DEF Refill
  <2>2. rio_buf' \in Seq(Bytes) /\ wire' \in Seq(Bytes) /\ rio_buf' \o wire' = wire
    <3>1. n \in 0..Len(wire)
      OBVIOUS
    <3>. QED  BY <1>0, <2>1, <3>1, CutTypes, CutConcat
  <2>3. rio_buf = << >> /\ UNCHANGED <<buf, peer, unwritten, attempted, received>>
    BY <1>6 DEF Refill
  <2>4. (buf \o rio_buf') \o wire' = buf \o (rio_buf' \o wire')
    <3>1. buf \in Seq(Bytes) /\ rio_buf' \in Seq(Bytes) /\ wire' \in Seq(Bytes)
      BY <1>0, <2>2
    <3>. QED  BY <3>1, Associate, Zenon
  <2>5. buf \o rio_buf = buf
    BY <1>0, <2>3, EmptyAtEnd, Zenon
  <2>6. (buf' \o rio_buf' \o wire') = buf \o rio_buf \o wire
    BY <2>2, <2>3, <2>4, <2>5
  <2>7. ToWrite' = ToWrite
    BY <2>3 DEF ToWrite
  <2>8. Rest' = Rest
    BY <2>6, <2>7, Zenon DEF Rest
  <2>. QED  BY <1>1, <2>3, <2>8
<1>7. CASE CopyByte
  <2>. DEFINE c == <<Head(rio_buf)>>
              d == Tail(rio_buf)
  <2>1. c \in Seq(Bytes) /\ d \in Seq(Bytes) /\ rio_buf = c \o d /\ buf' = buf \o c
    <3>1. /\ Head(rio_buf) \in Bytes /\ Tail(rio_buf) \in Seq(Bytes)
          /\ rio_buf = <<Head(rio_buf)>> \o Tail(rio_buf)
      BY <1>0, <1>7, HeadTailProperties, SMT DEF CopyByte
    <3>2. buf' = buf \o <<Head(rio_buf)>>
      BY <1>0, <1>7, <3>1, AppendIsConcat DEF CopyByte
    <3>. QED  BY <3>1, <3>2
  <2>2. rio_buf' = d /\ UNCHANGED <<wire, peer, unwritten, attempted, received>>
    BY <1>7 DEF CopyByte
  <2>. HIDE DEF c, d
  <2>3. (buf \o c) \o d = buf \o (c \o d)
    <3>1. buf \in Seq(Bytes) /\ c \in Seq(Bytes) /\ d \in Seq(Bytes)
      BY <1>0, <2>1
    <3>. QED  BY <3>1, Associate, Zenon
  <2>4. ToWrite' = ToWrite
    BY <2>2 DEF ToWrite
  <2>5. Rest' = Rest
    BY <2>1, <2>2, <2>3, <2>4 DEF Rest
  <2>. QED  BY <1>1, <2>2, <2>5
<1>8. CASE ReceiveError
  <2>1. /\ buf' = << >> /\ rio_buf' = << >> /\ wire' = << >> /\ peer' = "reset"
        /\ UNCHANGED <<attempted, received>>
    BY <1>8 DEF ReceiveError, ReceiveFails
  <2>2. Rest' = << >>
    BY <1>0, <2>1, EmptyAtEnd DEF Rest, ToWrite
  <2>. QED  BY <1>0, <2>1, <2>2, StartOfConcat
<1>. QED  BY <1>2, <1>3, <1>4, <1>5, <1>6, <1>7, <1>8

(***************************************************************************)
(* A message handed to send adds its line, if it can still be written.     *)
(***************************************************************************)
LEMMA SendCallLines ==
  ASSUME TypeOK, TypeOK', WriterIdle, LineInv, SendCall
  PROVE  LineInv'
<1>1. SUFFICES ASSUME AllFit'
               PROVE  (\E k \in 0..Len(attempted) :
                         \E cut \in [0..Len(attempted) -> Nat] : DealtWith(k, cut))'
  BY DEF LineInv
<1>2. PICK m \in Messages : unwritten' = Encode(m) /\ attempted' = Append(attempted, m)
  BY DEF SendCall
<1>3. /\ unwritten = << >>
      /\ UNCHANGED <<received, peer, buf, rio_buf, wire>>
  BY DEF SendCall, WriterIdle, readerVars
<1>4. /\ attempted \in Seq(Messages) /\ received \in Seq([tag : Seq(Bytes), data : Seq(Bytes)])
      /\ Rest \in Seq(Bytes) /\ (buf \o rio_buf) \o wire \in Seq(Bytes)
      /\ Encode(m) \in Seq(Bytes)
  <2>1. buf \in Seq(Bytes) /\ rio_buf \in Seq(Bytes) /\ wire \in Seq(Bytes)
    BY DEF TypeOK
  <2>2. (buf \o rio_buf) \o wire \in Seq(Bytes)
    BY <2>1, ConcatBytes
  <2>. QED  BY <2>2, RestType, EncodeType DEF TypeOK, RestParts
<1>5. /\ Len(attempted) \in Nat /\ Len(attempted') = Len(attempted) + 1
      /\ \A i \in 1..Len(attempted) : attempted'[i] = attempted[i]
  BY <1>2, <1>4, AppendProperties, LenProperties
<1>6. AllFit
  BY <1>1, <1>5 DEF AllFit
<1>7. PICK k \in 0..Len(attempted), cut \in [0..Len(attempted) -> Nat] : DealtWith(k, cut)
  BY <1>6 DEF LineInv
<1>8. PICK cut1 \in [0..Len(attempted') -> Nat] :
        /\ Lined(Rest, attempted', k, cut1)
        /\ Len(Rest) = cut[Len(attempted)] - cut[k] =>
             /\ Lined(Rest \o Encode(m), attempted', k, cut1)
             /\ Len(Rest \o Encode(m)) = cut1[Len(attempted')] - cut1[k]
  <2>1. Lined(Rest, attempted, k, cut)
    BY <1>7 DEF DealtWith
  <2>2. \E cut1 \in [0..Len(Append(attempted, m)) -> Nat] :
           /\ Lined(Rest, Append(attempted, m), k, cut1)
           /\ Len(Rest) = cut[Len(attempted)] - cut[k] =>
                /\ Lined(Rest \o Encode(m), Append(attempted, m), k, cut1)
                /\ Len(Rest \o Encode(m)) = cut1[Len(Append(attempted, m))] - cut1[k]
    BY <1>4, <2>1, LinedAppend
  <2>. QED  BY <1>2, <2>2
<1>9. k \in 0..Len(attempted') /\ Acceptable(k)' = Acceptable(k) /\ Acceptable(k) \subseteq 1..Len(attempted)
  <2>1. k \in 0..Len(attempted') /\ \A i \in 1..k : i \in 1..Len(attempted)
    BY <1>5
  <2>. QED  BY <1>5, <2>1 DEF Acceptable
<1>10. Lists(received', attempted', Acceptable(k)')
  <2>1. Lists(received, attempted, Acceptable(k))
    BY <1>7 DEF DealtWith
  <2>2. Lists(received, Append(attempted, m), Acceptable(k))
    BY <1>4, <1>9, <2>1, ListsIgnoresAppend
  <2>. QED  BY <1>2, <1>3, <1>9, <2>2
<1>11. CASE peer = "open"
  <2>1. Rest = (buf \o rio_buf) \o wire
    <3>1. Rest = ((buf \o rio_buf) \o wire) \o << >>
      BY <1>3, <1>11 DEF Rest, ToWrite
    <3>. QED  BY <1>4, <3>1, EmptyAtEnd, Zenon
  <2>2. Rest' = ((buf \o rio_buf) \o wire) \o Encode(m)
    BY <1>2, <1>3, <1>11 DEF Rest, ToWrite
  <2>3. Rest' = Rest \o Encode(m)
    BY <2>1, <2>2
  <2>4. Len(Rest) = cut[Len(attempted)] - cut[k]
    BY <1>7, <1>11 DEF DealtWith
  <2>5. DealtWith(k, cut1)'
    BY <1>8, <1>10, <2>3, <2>4 DEF DealtWith
  <2>. QED  BY <1>8, <1>9, <2>5
<1>12. CASE peer # "open"
  <2>1. Rest' = Rest
    BY <1>3, <1>12 DEF Rest, ToWrite
  <2>2. DealtWith(k, cut1)'
    BY <1>3, <1>8, <1>10, <1>12, <2>1 DEF DealtWith
  <2>. QED  BY <1>8, <1>9, <2>2
<1>. QED  BY <1>11, <1>12

(***************************************************************************)
(* What the reader has of a line is of the line of the first message not   *)
(* dealt with, and a line that is complete is the whole of it.             *)
(***************************************************************************)
LEMMA FirstPiece ==
  ASSUME TypeOK, AllFit, buf # << >>,
         NEW k \in 0..Len(attempted), NEW cut \in [0..Len(attempted) -> Nat],
         DealtWith(k, cut)
  PROVE  /\ k + 1 \in 1..Len(attempted) /\ k \in 0..Len(attempted) - 1
         /\ attempted[k + 1] \in Messages /\ Fits(attempted[k + 1])
         /\ \A i \in 1..Len(buf) :
              i \in 1..Len(Encode(attempted[k + 1])) => buf[i] = Encode(attempted[k + 1])[i]
<1>1. /\ buf \in Seq(Bytes) /\ Behind \in Seq(Bytes) /\ Rest = buf \o Behind
      /\ attempted \in Seq(Messages)
  BY RestType DEF TypeOK, RestParts
<1>2. Len(attempted) \in Nat /\ Len(buf) \in Nat \ {0} /\ Len(Behind) \in Nat
  BY <1>1, LenProperties, EmptySeq
<1>3. Len(Rest) = Len(buf) + Len(Behind) /\ \A i \in 1..Len(buf) : Rest[i] = buf[i]
  BY <1>1, <1>2, ConcatProperties
<1>4. Lined(Rest, attempted, k, cut)
  BY DEF DealtWith
<1>5. k # Len(attempted)
  <2>1. Len(Rest) <= cut[Len(attempted)] - cut[k]
    BY <1>4 DEF Lined
  <2>2. cut[k] \in Nat
    OBVIOUS
  <2>. QED  BY <1>2, <1>3, <2>1, <2>2
<1>6. k + 1 \in 1..Len(attempted) /\ k \in 0..Len(attempted) - 1 /\ k + 1 - 1 = k /\ k \in Nat
  BY <1>2, <1>5
<1>. DEFINE E == Encode(attempted[k + 1])
<1>7. attempted[k + 1] \in Messages /\ Fits(attempted[k + 1])
  BY <1>1, <1>6 DEF AllFit
<1>8. \A p \in 1..Len(E) : p \in 1..Len(Rest) => Rest[p] = E[p]
  <2>1. k + 1 \in (k + 1)..Len(attempted)
    BY <1>6
  <2>2. \A p \in 1..Len(E) : cut[k + 1 - 1] - cut[k] + p \in 1..Len(Rest) =>
          Rest[cut[k + 1 - 1] - cut[k] + p] = E[p]
    <3>1. \A i \in (k + 1)..Len(attempted) : \A p \in 1..Len(Encode(attempted[i])) :
            cut[i - 1] - cut[k] + p \in 1..Len(Rest) =>
              Rest[cut[i - 1] - cut[k] + p] = Encode(attempted[i])[p]
      BY <1>4 DEF Lined
    <3>2. \A p \in 1..Len(Encode(attempted[k + 1])) :
            cut[k + 1 - 1] - cut[k] + p \in 1..Len(Rest) =>
              Rest[cut[k + 1 - 1] - cut[k] + p] = Encode(attempted[k + 1])[p]
      BY <2>1, <3>1
    <3>. QED  BY <3>2 DEF E
  <2>3. cut[k] \in Nat
    OBVIOUS
  <2>4. \A p \in 1..Len(E) : cut[k + 1 - 1] - cut[k] + p = p
    BY <1>6, <2>3
  <2>. QED  BY <2>2, <2>4
<1>. HIDE DEF E
<1>9. \A i \in 1..Len(buf) : i \in 1..Len(Rest)
  BY <1>2, <1>3
<1>10. \A i \in 1..Len(buf) : i \in 1..Len(E) => buf[i] = E[i]
  BY <1>3, <1>8, <1>9
<1>. QED  BY <1>6, <1>7, <1>10 DEF E

LEMMA FirstLine ==
  ASSUME TypeOK, OneLine, AllFit, LineComplete,
         NEW k \in 0..Len(attempted), NEW cut \in [0..Len(attempted) -> Nat],
         DealtWith(k, cut)
  PROVE  /\ k + 1 \in 1..Len(attempted) /\ k \in 0..Len(attempted) - 1
         /\ buf = Encode(attempted[k + 1])
<1>. DEFINE E == Encode(attempted[k + 1])
<1>1. buf \in Seq(Bytes) /\ buf # << >> /\ Len(buf) <= MAX_LEN
  BY DEF TypeOK, LineComplete
<1>2. Len(buf) \in Nat \ {0} /\ MAX_LEN \in Nat
  BY <1>1, LenProperties, EmptySeq, SizesAssumption
<1>3. /\ k + 1 \in 1..Len(attempted) /\ k \in 0..Len(attempted) - 1
      /\ attempted[k + 1] \in Messages /\ Fits(attempted[k + 1])
      /\ \A i \in 1..Len(buf) : i \in 1..Len(E) => buf[i] = E[i]
  BY <1>1, FirstPiece
<1>4. /\ E \in Seq(Bytes) /\ Len(E) \in 1..MAX_LEN /\ E[Len(E)] = "\n"
      /\ \A i \in 1..Len(E) - 1 : E[i] # "\n"
  BY <1>3, LineOfMessage
<1>. HIDE DEF E
<1>5. \A i \in 1..Len(buf) : i \in 1..Len(E) => buf[i] = E[i]
  BY <1>3
<1>6. Len(buf) = Len(E)
  <2>1. ASSUME Len(buf) > Len(E) PROVE FALSE
    <3>1. Len(E) \in 1..Len(buf) - 1 /\ Len(E) \in 1..Len(buf) /\ Len(E) \in 1..Len(E)
      BY <1>2, <1>4, <2>1
    <3>2. buf[Len(E)] = "\n"
      BY <1>4, <1>5, <3>1
    <3>. QED  BY <3>1, <3>2 DEF OneLine
  <2>2. ASSUME Len(buf) < Len(E) PROVE FALSE
    <3>1. /\ Len(buf) \in 1..Len(E) - 1 /\ Len(buf) \in 1..Len(buf) /\ Len(buf) \in 1..Len(E)
          /\ Len(buf) # MAX_LEN
      BY <1>2, <1>4, <2>2
    <3>2. buf[Len(buf)] # "\n"
      BY <1>4, <1>5, <3>1
    <3>. QED  BY <3>1, <3>2 DEF LineComplete
  <2>. QED  BY <1>2, <1>4, <2>1, <2>2
<1>7. buf = E
  BY <1>1, <1>4, <1>5, <1>6, SeqEqual
<1>. QED  BY <1>3, <1>7 DEF E

LEMMA ReceiveLineLines ==
  ASSUME TypeOK, TypeOK', OneLine, LineInv, ReceiveLine
  PROVE  LineInv'
<1>1. SUFFICES ASSUME AllFit'
               PROVE  (\E k \in 0..Len(attempted) :
                         \E cut \in [0..Len(attempted) -> Nat] : DealtWith(k, cut))'
  BY DEF LineInv
<1>2. /\ LineComplete /\ Parse(buf) /\ buf' = << >>
      /\ UNCHANGED <<attempted, peer, unwritten, rio_buf, wire>>
  BY DEF ReceiveLine, Parse, writerVars
<1>3. AllFit
  BY <1>1, <1>2 DEF AllFit
<1>4. PICK k \in 0..Len(attempted), cut \in [0..Len(attempted) -> Nat] : DealtWith(k, cut)
  BY <1>3 DEF LineInv
<1>. DEFINE m == attempted[k + 1]
<1>5. k + 1 \in 1..Len(attempted) /\ k \in 0..Len(attempted) - 1 /\ buf = Encode(m)
  BY <1>2, <1>3, <1>4, FirstLine
<1>6. /\ attempted \in Seq(Messages) /\ m \in Messages /\ Fits(m)
      /\ buf \in Seq(Bytes) /\ Behind \in Seq(Bytes) /\ Rest = buf \o Behind
      /\ k + 1 \in 0..Len(attempted) /\ k \in Nat
      /\ received \in Seq([tag : Seq(Bytes), data : Seq(Bytes)])
  <2>1. attempted \in Seq(Messages)
    BY DEF TypeOK
  <2>2. m \in Messages /\ Fits(m)
    BY <1>3, <1>5, <2>1 DEF AllFit
  <2>3. k + 1 \in 0..Len(attempted) /\ k \in Nat
    BY <1>5
  <2>. QED  BY <2>1, <2>2, <2>3, RestType DEF TypeOK, RestParts
<1>7. Rest' = Behind
  <2>1. Rest' = (<< >> \o rio_buf \o wire) \o ToWrite
    BY <1>2 DEF Rest, ToWrite
  <2>2. << >> \o rio_buf = rio_buf
    BY EmptyAtEnd DEF TypeOK
  <2>. QED  BY <2>1, <2>2 DEF Behind
<1>8. /\ Lined(Rest', attempted, k + 1, cut)
      /\ peer = "open" => Len(Rest') = cut[Len(attempted)] - cut[k + 1]
  <2>1. /\ Lined(buf \o Behind, attempted, k, cut)
        /\ peer = "open" => Len(buf \o Behind) = cut[Len(attempted)] - cut[k]
    BY <1>4, <1>6 DEF DealtWith
  <2>2. Len(buf) = Len(Encode(attempted[k + 1]))
    BY <1>5
  <2>3. /\ Lined(Behind, attempted, k + 1, cut)
        /\ Len(buf \o Behind) = cut[Len(attempted)] - cut[k] =>
             Len(Behind) = cut[Len(attempted)] - cut[k + 1]
    BY <1>5, <1>6, <2>1, <2>2, LinedNext
  <2>. QED  BY <1>7, <2>1, <2>3
<1>9. Lists(received', attempted, Acceptable(k + 1))
  <2>1. Lists(received, attempted, Acceptable(k))
    BY <1>4 DEF DealtWith
  <2>2. 1..(k + 1) = (1..k) \cup {k + 1}
    BY <1>6
  <2>3. /\ Valid(Trim(buf)) <=> isLowerCased(m.tag)
        /\ AsMessage(buf) = m
    BY <1>5, <1>6, ParseOfLine
  <2>4. CASE isLowerCased(m.tag)
    <3>1. received' = Append(received, m)
      BY <1>2, <2>3, <2>4 DEF Parse
    <3>2. Acceptable(k + 1) = Acceptable(k) \cup {k + 1}
      BY <2>2, <2>4 DEF Acceptable
    <3>3. \A i \in Acceptable(k) : i \in 1..(k + 1) /\ i # k + 1
      BY <1>6 DEF Acceptable
    <3>4. attempted[k + 1] \in [tag : Seq(Bytes), data : Seq(Bytes)]
      BY <1>6, MessagesAssumption
    <3>5. Lists(Append(received, attempted[k + 1]), attempted, Acceptable(k) \cup {k + 1})
      <4>. DEFINE R == [tag : Seq(Bytes), data : Seq(Bytes)]
      <4>1. received \in Seq(R) /\ attempted[k + 1] \in R
        BY <1>6, <3>4
      <4>. HIDE DEF R
      <4>2. k + 1 \in Nat
        BY <1>6
      <4>. QED  BY <2>1, <3>3, <4>1, <4>2, ListsGrows
    <3>. QED  BY <3>1, <3>2, <3>5
  <2>5. CASE ~isLowerCased(m.tag)
    <3>1. received' = received
      BY <1>2, <2>3, <2>5 DEF Parse
    <3>2. Acceptable(k + 1) = Acceptable(k)
      BY <2>2, <2>5 DEF Acceptable
    <3>. QED  BY <2>1, <3>1, <3>2
  <2>. QED  BY <2>4, <2>5
<1>10. DealtWith(k + 1, cut)'
  BY <1>2, <1>8, <1>9 DEF DealtWith, Acceptable
<1>. QED  BY <1>2, <1>6, <1>10

LEMMA LastOfAppend ==
  ASSUME NEW S, NEW q \in Seq(S), NEW x \in S
  PROVE  LET t == Append(q, x)
         IN  t # << >> /\ t[Len(t)] = x /\ SubSeq(t, 1, Len(t) - 1) = q
<1>. DEFINE t == Append(q, x)
<1>1. /\ Len(q) \in Nat /\ t \in Seq(S) /\ Len(t) = Len(q) + 1 /\ t[Len(q) + 1] = x
      /\ \A i \in 1..Len(q) : t[i] = q[i]
  BY LenProperties, AppendProperties
<1>. HIDE DEF t
<1>2. Len(t) - 1 = Len(q) /\ Len(q) \in 0..Len(t)
  BY <1>1
<1>3. /\ SubSeq(t, 1, Len(q)) \in Seq(S) /\ Len(SubSeq(t, 1, Len(q))) = Len(q)
      /\ \A i \in 1..Len(q) : SubSeq(t, 1, Len(q))[i] = t[i]
  BY <1>1, <1>2, CutTypes, SubSeqProperties
<1>4. SubSeq(t, 1, Len(q)) = q
  BY <1>1, <1>3, SeqEqual
<1>5. t # << >> /\ t[Len(t)] = x
  BY <1>1, EmptySeq
<1>. QED  BY <1>2, <1>4, <1>5 DEF t

\* a line cut by the end of the stream: the piece is refused, or the last
LEMMA ReceiveCutLineLines ==
  ASSUME TypeOK, TypeOK', OneLine, LineInv, ReceiveCutLine
  PROVE  LineInv' \/ Ended'
<1>1. /\ UNCHANGED attempted /\ buf' = << >> /\ rio_buf' = << >> /\ wire' = << >>
      /\ peer' = "closed" /\ buf # << >> /\ buf[Len(buf)] # "\n"
  BY DEF ReceiveCutLine, Parse, writerVars, LineComplete
<1>2. CASE ~Valid(Trim(buf))
  <2>1. received' = received
    BY <1>2 DEF ReceiveCutLine, Parse
  <2>2. Rest' = << >>
    <3>1. << >> \in Seq(Bytes)
      OBVIOUS
    <3>. QED  BY <1>1, <3>1, EmptyAtEnd DEF Rest, ToWrite
  <2>3. StartOf(Rest', Rest)
    BY <2>2, RestType, StartOfConcat DEF RestParts
  <2>. QED  BY <1>1, <2>1, <2>3, LinesStay
<1>3. CASE Valid(Trim(buf))
  <2>1. received' = Append(received, AsMessage(buf))
    BY <1>3 DEF ReceiveCutLine, Parse
  <2>2. SUFFICES ASSUME AllFit' PROVE \E k \in 0..Len(attempted') - 1 : EndsBroken(k)'
    BY <1>1 DEF Ended
  <2>3. AllFit
    BY <1>1, <2>2 DEF AllFit
  <2>4. PICK k \in 0..Len(attempted), cut \in [0..Len(attempted) -> Nat] : DealtWith(k, cut)
    BY <2>3 DEF LineInv
  <2>. DEFINE E == Encode(attempted[k + 1])
  <2>5. /\ k \in 0..Len(attempted) - 1 /\ attempted[k + 1] \in Messages
        /\ Fits(attempted[k + 1])
        /\ \A i \in 1..Len(buf) : i \in 1..Len(E) => buf[i] = E[i]
    BY <1>1, <2>3, <2>4, FirstPiece
  <2>6. E \in Seq(Bytes) /\ Len(E) \in Nat \ {0} /\ E[Len(E)] = "\n"
    BY <2>5, LineOfMessage, SizesAssumption
  <2>. HIDE DEF E
  <2>7. buf \in Seq(Bytes) /\ Len(buf) \in Nat \ {0}
    BY <1>1, LenProperties, EmptySeq DEF TypeOK
  <2>8. \A i \in 1..Len(buf) : buf[i] # "\n"
    <3>1. \A i \in 1..Len(buf) : i \in 1..Len(buf) - 1 \/ i = Len(buf)
      BY <2>7
    <3>. QED  BY <1>1, <3>1 DEF OneLine
  <2>9. Len(buf) \in 1..Len(E) - 1
    <3>1. ASSUME Len(buf) >= Len(E) PROVE FALSE
      <4>1. Len(E) \in 1..Len(buf) /\ Len(E) \in 1..Len(E)
        BY <2>6, <2>7, <3>1
      <4>2. buf[Len(E)] = E[Len(E)] /\ buf[Len(E)] # "\n"
        BY <2>5, <2>8, <4>1
      <4>. QED  BY <2>6, <4>2
    <3>. QED  BY <2>6, <2>7, <3>1
  <2>10. buf = SubSeq(E, 1, Len(buf))
    <3>. DEFINE s == SubSeq(E, 1, Len(buf))
    <3>1. s \in Seq(Bytes) /\ Len(s) = Len(buf) /\ \A i \in 1..Len(buf) : s[i] = E[i]
      <4>1. Len(buf) \in 0..Len(E)
        BY <2>6, <2>9
      <4>. QED  BY <2>6, <4>1, SubSeqProperties, CutTypes
    <3>2. \A i \in 1..Len(buf) : i \in 1..Len(E)
      BY <2>6, <2>9
    <3>. HIDE DEF s
    <3>3. \A i \in 1..Len(buf) : buf[i] = s[i]
      BY <2>5, <3>1, <3>2
    <3>4. buf = s
      BY <2>7, <3>1, <3>3, SeqEqual
    <3>. QED  BY <3>4 DEF s
  <2>11. AsMessage(buf) \in BrokenOff(attempted[k + 1])
    BY <2>9, <2>10, Zenon DEF BrokenOff, E
  <2>12. /\ received' # << >> /\ received'[Len(received')] = AsMessage(buf)
         /\ SubSeq(received', 1, Len(received') - 1) = received
    <3>. DEFINE R == [tag : Seq(Bytes), data : Seq(Bytes)]
                x == AsMessage(buf)
    <3>1. received \in Seq(R) /\ x \in R
      BY <1>3, <2>7, AsMessageType DEF TypeOK
    <3>. HIDE DEF R, x
    <3>2. received' = Append(received, x)
      BY <2>1 DEF x
    <3>3. LET t == Append(received, x)
          IN t # << >> /\ t[Len(t)] = x /\ SubSeq(t, 1, Len(t) - 1) = received
      BY <3>1, LastOfAppend
    <3>. QED  BY <3>2, <3>3 DEF x
  <2>13. Lists(received, attempted, Acceptable(k))
    BY <2>4 DEF DealtWith
  <2>14. Acceptable(k)' = Acceptable(k)
    BY <1>1 DEF Acceptable
  <2>15. EndsBroken(k)'
    BY <1>1, <2>11, <2>12, <2>13, <2>14 DEF EndsBroken
  <2>. QED  BY <1>1, <2>5, <2>15
<1>. QED  BY <1>2, <1>3

\* behind such a piece the writer sends nothing, and the reader finds nothing
LEMMA EndedStays == ASSUME Ended, WriterIdle, TypeOK, [Next]_vars PROVE Ended'
<1>1. /\ peer = "closed" /\ buf = << >> /\ rio_buf = << >> /\ wire = << >>
      /\ Len(wire) = 0
  BY DEF Ended
<1>2. UNCHANGED <<peer, buf, rio_buf, wire, attempted, received>>
  <2>. USE <1>1 DEF writerVars, readerVars, resultVars
  <2>1. ~SendCall /\ ~Write /\ ~SendFails /\ ~PeerClose /\ ~PeerReset
    BY DEF SendCall, Write, SendFails, PeerClose, PeerReset
  <2>2. ~Refill /\ ~CopyByte /\ ~ReceiveLine /\ ~ReceiveCutLine /\ ~ReceiveError
    BY DEF Refill, CopyByte, ReceiveLine, ReceiveCutLine, ReceiveError, LineComplete
  <2>3. CASE SendReturn \/ ReceiveCall \/ ReceiveEOF \/ UNCHANGED vars
    BY <2>3 DEF SendReturn, ReceiveCall, ReceiveEOF, ReceiveFails, vars
  <2>. QED  BY <2>1, <2>2, <2>3 DEF Next, Send, Receive
<1>3. AllFit' => AllFit
  BY <1>2 DEF AllFit
<1>4. \A k \in 0..Len(attempted) - 1 : EndsBroken(k) => EndsBroken(k)'
  BY <1>2 DEF EndsBroken, Acceptable
<1>. QED  BY <1>1, <1>2, <1>3, <1>4 DEF Ended

-------------------------------------------------------------------------------
LEMMA InitLInv == Init => LInv
<1>. SUFFICES ASSUME Init PROVE LInv
  OBVIOUS
<1>1. IInv
  BY InitIInv
<1>2. OneLine
  BY DEF Init, OneLine
<1>3. WriterIdle
  BY DEF Init, WriterIdle
<1>4. LineInv
  <2>. DEFINE cut == [i \in 0..0 |-> 0]
  <2>1. /\ Len(attempted) = 0 /\ received = << >> /\ 0 \in 0..0
        /\ Rest = << >> /\ Len(Rest) = 0
    BY DEF Init, Rest, ToWrite
  <2>2. cut \in [0..0 -> Nat] /\ cut[0] = 0
    OBVIOUS
  <2>. HIDE DEF cut
  <2>3. Acceptable(0) = {}
    BY DEF Acceptable
  <2>4. Lists(received, attempted, Acceptable(0))
    BY <2>1, <2>3, ListsNothing
  <2>5. Lined(Rest, attempted, 0, cut)
    BY <2>1, <2>2 DEF Lined
  <2>6. DealtWith(0, cut)
    BY <2>1, <2>2, <2>4, <2>5 DEF DealtWith
  <2>. QED  BY <2>1, <2>2, <2>6 DEF LineInv
<1>. QED  BY <1>1, <1>2, <1>3, <1>4 DEF LInv

LEMMA WriterIdleStep == ASSUME WriterIdle, [Next]_vars PROVE WriterIdle'
BY DEF WriterIdle, Next, Send, SendCall, Write, SendReturn, SendFails, PeerClose,
       PeerReset, ReceiveCall, Receive, Refill, CopyByte, ReceiveLine,
       ReceiveCutLine, Parse, ReceiveEOF, ReceiveError, ReceiveFails, vars,
       writerVars, readerVars

LEMMA OneLineStep == ASSUME TypeOK, OneLine, [Next]_vars PROVE OneLine'
<1>1. CASE CopyByte
  <2>1. buf \in Seq(Bytes) /\ Head(rio_buf) \in Bytes /\ Len(buf) \in Nat
    BY <1>1, HeadTailProperties, LenProperties DEF CopyByte, TypeOK
  <2>2. /\ buf' = Append(buf, Head(rio_buf)) /\ Len(buf') = Len(buf) + 1
        /\ \A i \in 1..Len(buf) : buf'[i] = buf[i]
    BY <1>1, <2>1, AppendProperties DEF CopyByte
  <2>3. \A i \in 1..Len(buf) : buf[i] # "\n"
    <3>1. Len(buf) # 0 => buf[Len(buf)] # "\n"
      BY <1>1, <2>1, EmptySeq DEF CopyByte, LineComplete
    <3>. QED  BY <2>1, <3>1 DEF OneLine
  <2>. QED  BY <2>1, <2>2, <2>3 DEF OneLine
<1>2. CASE buf' = << >> \/ buf' = buf
  BY <1>2 DEF OneLine
<1>3. CopyByte \/ buf' = << >> \/ buf' = buf
  BY DEF Next, Send, SendCall, Write, SendReturn, SendFails, PeerClose,
         PeerReset, ReceiveCall, Receive, Refill, ReceiveLine, ReceiveCutLine,
         Parse, ReceiveEOF, ReceiveError, ReceiveFails, vars, readerVars
<1>. QED  BY <1>1, <1>2, <1>3

LEMMA LInvStep == LInv /\ [Next]_vars => LInv'
<1>. SUFFICES ASSUME LInv, [Next]_vars PROVE LInv'
  OBVIOUS
<1>1. /\ IInv /\ TypeOK /\ NoLeftover /\ OneLine /\ WriterIdle
      /\ LineInv \/ Ended
  BY DEF LInv, IInv
<1>2. IInv' /\ TypeOK'
  BY <1>1, TypeOKStep, NoLeftoverStep, StreamStep DEF IInv
<1>3. OneLine' /\ WriterIdle'
  BY <1>1, OneLineStep, WriterIdleStep
<1>4. ASSUME Ended PROVE Ended'
  BY <1>1, <1>4, EndedStays
<1>5. ASSUME LineInv PROVE LineInv' \/ Ended'
  <2>1. CASE SendCall
    BY <1>1, <1>2, <1>5, <2>1, SendCallLines
  <2>2. CASE ReceiveLine
    BY <1>1, <1>2, <1>5, <2>2, ReceiveLineLines
  <2>3. CASE ReceiveCutLine
    BY <1>1, <1>2, <1>5, <2>3, ReceiveCutLineLines
  <2>4. CASE Write \/ SendReturn \/ SendFails \/ PeerClose \/ PeerReset \/ ReceiveCall
               \/ Refill \/ CopyByte \/ ReceiveEOF \/ ReceiveError \/ UNCHANGED vars
    BY <1>1, <1>2, <1>5, <2>4, QuietLines
  <2>. QED  BY <2>1, <2>2, <2>3, <2>4 DEF Next, Send, Receive
<1>6. LineInv' \/ Ended'
  BY <1>1, <1>4, <1>5
<1>. QED  BY <1>2, <1>3, <1>6 DEF LInv

LEMMA LInvariance == Spec => []LInv
BY InitLInv, LInvStep, PTL DEF Spec

(***************************************************************************)
(* As long as messages keep to MAX_LEN, receive returns what was handed to *)
(* send, in order and without a gap, and behind it at most one piece of    *)
(* the next message, when the writer closed within its line; never one     *)
(* when the connection breaks.                                             *)
(***************************************************************************)
THEOREM MessagesSurvive == Spec => []RoundTrip
<1>1. LInv => RoundTrip
  BY DEF LInv, LineInv, Ended, DealtWith, AllFit, RoundTrip
<1>. QED  BY <1>1, LInvariance, PTL
===============================================================================
