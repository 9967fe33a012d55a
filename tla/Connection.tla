------------------------------ MODULE Connection ------------------------------
(***************************************************************************)
(* One direction of a connection: Connection::send with rio_writen at one  *)
(* end, Connection::receive with rio_readlineb and rio_read at the other,  *)
(* and the socket between them, a bounded stream of bytes that write fills *)
(* and read empties in pieces of any size.                                 *)
(*                                                                         *)
(* The kinds of bytes, and how a line is encoded and taken apart, are in   *)
(* module Text.  MAX_LEN, the rio buffer and the socket are parameters.    *)
(***************************************************************************)
EXTENDS Text, Listing

CONSTANTS
  MAX_LEN,      \* Message::MAX_LEN
  RIO_BUFSIZE,  \* size of rio_buf
  SocketSize,   \* bytes the socket holds before write blocks
  Messages,     \* messages handed to send: records with a tag and data
  MaxSends      \* bound: number of calls of send

ASSUME SizesAssumption ==
  /\ MAX_LEN \in Nat \ {0}
  /\ RIO_BUFSIZE \in Nat \ {0}
  /\ SocketSize \in Nat \ {0}
  /\ MaxSends \in Nat

ASSUME MessagesAssumption ==
  Messages \subseteq [tag : Seq(Bytes), data : Seq(Bytes)]

Results == {"SUCCESS", "EOF_OR_ERROR", "INVALID_MSG"}

VARIABLES
  unwritten,  \* the bytes rio_writen has still to write; <<>> when done
  sending,    \* whether the writer is inside send
  wire,       \* the bytes in the socket
  peer,       \* the writer's end: open, closed (FIN sent), reset
  reading,    \* whether the reader is inside receive
  buf,        \* local buf: the line read so far
  rio_buf,    \* the unread part of the rio buffer
  m_last_result,  \* the field of the Connection at each end
  returned,   \* history: how the last call at each end ended
  attempted,  \* history: the messages handed to send
  received,   \* history: the messages that receive returned
  written,    \* history: all bytes written
  consumed    \* history: all bytes of the lines receive has dealt with

writerVars == <<unwritten, sending, attempted, written>>
readerVars == <<reading, buf, rio_buf, received, consumed>>
resultVars == <<m_last_result, returned>>
vars == <<writerVars, wire, peer, readerVars, resultVars>>

Ends == {"writer", "reader"}

Init ==
  /\ unwritten = << >>
  /\ sending = FALSE
  /\ wire = << >>
  /\ peer = "open"
  /\ reading = FALSE
  /\ buf = << >>
  /\ rio_buf = << >>
  /\ m_last_result = [e \in Ends |-> "SUCCESS"]
  /\ returned = [e \in Ends |-> "SUCCESS"]
  /\ attempted = << >>
  /\ received = << >>
  /\ written = << >>
  /\ consumed = << >>

-------------------------------------------------------------------------------
(***************************************************************************)
(* send, and the writer's end of the socket                                *)
(***************************************************************************)
SendCall ==
  /\ ~sending /\ peer # "closed"
  /\ Len(attempted) < MaxSends
  /\ \E m \in Messages :
       /\ unwritten' = Encode(m)
       /\ attempted' = Append(attempted, m)
  /\ sending' = TRUE
  /\ UNCHANGED <<written, wire, peer, readerVars, resultVars>>

\* one turn of rio_writen: write takes as much as it likes
Write ==
  /\ sending /\ peer = "open"
  /\ \E n \in 1..Len(unwritten) :
       /\ Len(wire) + n <= SocketSize
       /\ wire' = wire \o SubSeq(unwritten, 1, n)
       /\ written' = written \o SubSeq(unwritten, 1, n)
       /\ unwritten' = SubSeq(unwritten, n + 1, Len(unwritten))
  /\ UNCHANGED <<sending, attempted, peer, readerVars, resultVars>>

\* all bytes are written: send returns true and leaves m_last_result alone
SendReturn ==
  /\ sending /\ unwritten = << >>
  /\ sending' = FALSE
  /\ returned' = [returned EXCEPT !["writer"] = "SUCCESS"]
  /\ UNCHANGED <<unwritten, attempted, written, wire, peer, readerVars, m_last_result>>

\* Mutant: any failure of write is taken for an interruption and retried.
SendFailsRetried ==
  /\ sending /\ unwritten # << >> /\ peer = "reset"
  /\ UNCHANGED vars

\* write fails on a connection that was reset
SendFails ==
  /\ sending /\ unwritten # << >> /\ peer = "reset"
  /\ sending' = FALSE
  /\ unwritten' = << >>
  /\ returned' = [returned EXCEPT !["writer"] = "EOF_OR_ERROR"]
  /\ m_last_result' = [m_last_result EXCEPT !["writer"] = "EOF_OR_ERROR"]
  /\ UNCHANGED <<attempted, written, wire, peer, readerVars>>

\* the writer's process closes the connection or is killed, maybe inside send
PeerClose ==
  /\ peer = "open"
  /\ peer' = "closed"
  /\ unwritten' = << >>
  /\ sending' = FALSE
  /\ UNCHANGED <<attempted, written, wire, readerVars, resultVars>>

\* the connection breaks: what has not arrived yet is lost
PeerReset ==
  /\ peer = "open"
  /\ peer' = "reset"
  /\ \E n \in 0..Len(wire) : wire' = SubSeq(wire, 1, n)
  /\ UNCHANGED <<writerVars, readerVars, resultVars>>

-------------------------------------------------------------------------------
(***************************************************************************)
(* receive: rio_readlineb asks rio_read for one byte at a time             *)
(***************************************************************************)
\* Mutant: what a read left in the buffer is dropped at the next receive.
ReceiveCallReset ==
  /\ ~reading
  /\ reading' = TRUE
  /\ buf' = << >>
  /\ rio_buf' = << >>
  /\ UNCHANGED <<received, consumed, writerVars, wire, peer, resultVars>>

ReceiveCall ==
  /\ ~reading
  /\ reading' = TRUE
  /\ buf' = << >>
  /\ UNCHANGED <<rio_buf, received, consumed, writerVars, wire, peer, resultVars>>

\* Mutant: rio_readlineb without maxlen.
LineCompleteUnlimited == buf # << >> /\ buf[Len(buf)] = "\n"

\* the loop of rio_readlineb ends: a newline was copied, or the limit is met
LineComplete ==
  buf # << >> /\ (buf[Len(buf)] = "\n" \/ Len(buf) = MAX_LEN)

\* Mutant: a short read is not accepted.
RefillWhole ==
  /\ reading /\ ~LineComplete
  /\ rio_buf = << >>
  /\ Len(wire) >= RIO_BUFSIZE
  /\ rio_buf' = SubSeq(wire, 1, RIO_BUFSIZE)
  /\ wire' = SubSeq(wire, RIO_BUFSIZE + 1, Len(wire))
  /\ UNCHANGED <<reading, buf, received, consumed, writerVars, peer, resultVars>>

\* rio_read with an empty buffer: read returns what there is, up to the size
Refill ==
  /\ reading /\ ~LineComplete
  /\ rio_buf = << >>
  /\ \E n \in 1..Len(wire) :
       /\ n <= RIO_BUFSIZE
       /\ rio_buf' = SubSeq(wire, 1, n)
       /\ wire' = SubSeq(wire, n + 1, Len(wire))
  /\ UNCHANGED <<reading, buf, received, consumed, writerVars, peer, resultVars>>

CopyByte ==
  /\ reading /\ ~LineComplete
  /\ rio_buf # << >>
  /\ buf' = Append(buf, Head(rio_buf))
  /\ rio_buf' = Tail(rio_buf)
  /\ UNCHANGED <<reading, received, consumed, writerVars, wire, peer, resultVars>>

\* the tag and the data of a line
AsMessage(line) ==
  LET s == Trim(line) IN [tag |-> TagOf(s), data |-> DataOf(s)]

\* the rest of receive, once rio_readlineb has returned a line
Parse(line) ==
  /\ reading' = FALSE
  /\ consumed' = consumed \o line
  /\ buf' = << >>
  /\ \/ /\ Valid(Trim(line))
        /\ returned' = [returned EXCEPT !["reader"] = "SUCCESS"]
        /\ UNCHANGED m_last_result
        /\ received' = Append(received, AsMessage(line))
     \/ /\ ~Valid(Trim(line))
        /\ returned' = [returned EXCEPT !["reader"] = "INVALID_MSG"]
        /\ m_last_result' = [m_last_result EXCEPT !["reader"] = "INVALID_MSG"]
        /\ UNCHANGED received
  /\ UNCHANGED <<rio_buf, writerVars, wire, peer>>

ReceiveLine == reading /\ LineComplete /\ Parse(buf)

\* read returned 0 after some bytes: they are a line all the same
ReceiveCutLine ==
  /\ reading /\ ~LineComplete
  /\ buf # << >> /\ rio_buf = << >> /\ wire = << >> /\ peer = "closed"
  /\ Parse(buf)

ReceiveFails ==
  /\ reading' = FALSE
  /\ buf' = << >>
  /\ returned' = [returned EXCEPT !["reader"] = "EOF_OR_ERROR"]
  /\ m_last_result' = [m_last_result EXCEPT !["reader"] = "EOF_OR_ERROR"]
  /\ UNCHANGED <<rio_buf, received, consumed, writerVars, wire, peer>>

ReceiveEOF ==
  /\ reading /\ buf = << >> /\ rio_buf = << >> /\ wire = << >> /\ peer = "closed"
  /\ ReceiveFails

\* Mutant: what was read before the failure is a line, as it is at the end.
ReceiveErrorKeeps ==
  /\ reading /\ ~LineComplete
  /\ rio_buf = << >> /\ wire = << >> /\ peer = "reset"
  /\ IF buf = << >> THEN ReceiveFails ELSE Parse(buf)

\* read failed: the bytes of an incomplete line are dropped
ReceiveError ==
  /\ reading /\ ~LineComplete
  /\ rio_buf = << >> /\ wire = << >> /\ peer = "reset"
  /\ ReceiveFails

-------------------------------------------------------------------------------
Send == Write \/ SendReturn \/ SendFails

Receive ==
  \/ Refill \/ CopyByte \/ ReceiveLine \/ ReceiveCutLine \/ ReceiveEOF \/ ReceiveError

Next == SendCall \/ Send \/ PeerClose \/ PeerReset \/ ReceiveCall \/ Receive

Spec == Init /\ [][Next]_vars

\* a thread inside send or receive runs whenever the socket lets it
CallFairness == WF_vars(Send) /\ WF_vars(Receive)

\* the reader's thread calls receive in a loop
FairSpec == Spec /\ CallFairness /\ WF_vars(ReceiveCall)

-------------------------------------------------------------------------------
TypeOK ==
  /\ unwritten \in Seq(Bytes)
  /\ sending \in BOOLEAN
  /\ wire \in Seq(Bytes) /\ Len(wire) <= SocketSize
  /\ peer \in {"open", "closed", "reset"}
  /\ reading \in BOOLEAN
  /\ buf \in Seq(Bytes) /\ Len(buf) <= MAX_LEN
  /\ rio_buf \in Seq(Bytes) /\ Len(rio_buf) <= RIO_BUFSIZE
  /\ m_last_result \in [Ends -> Results]
  /\ returned \in [Ends -> Results]
  /\ attempted \in Seq(Messages)
  /\ received \in Seq([tag : Seq(Bytes), data : Seq(Bytes)])
  /\ written \in Seq(Bytes)
  /\ consumed \in Seq(Bytes)

(***************************************************************************)
(* No byte is lost, doubled or reordered between write and the parser,     *)
(* however writes and reads cut the stream: the bytes read ahead of one    *)
(* line are the beginning of the next (rio_read, rio_readlineb).           *)
(***************************************************************************)
StreamPreserved ==
  peer # "reset" => consumed \o buf \o rio_buf \o wire = written

\* an encoded message that receive can read as one line and give back
Fits(m) ==
  /\ Len(Encode(m)) <= MAX_LEN
  /\ Trim(Encode(m)) = m.tag \o <<":">> \o m.data
  /\ \A i \in 1..Len(m.tag) : m.tag[i] \notin {":", "\n"}
  /\ \A i \in 1..Len(m.data) : m.data[i] # "\n"

\* those of the first k messages that receive accepts
Acceptable(k) == {i \in 1..k : isLowerCased(attempted[i].tag)}

\* what receive makes of a first part of a message's line
BrokenOff(m) == {AsMessage(SubSeq(Encode(m), 1, n)) : n \in 1..Len(Encode(m)) - 1}

\* the last message received is a piece of the k+1st, and the end of them all
EndsBroken(k) ==
  /\ peer = "closed" /\ received # << >>
  /\ received[Len(received)] \in BrokenOff(attempted[k + 1])
  /\ Lists(SubSeq(received, 1, Len(received) - 1), attempted, Acceptable(k))

(***************************************************************************)
(* "An encoded message may have at most this many characters, including    *)
(* the trailing newline" (message.h:23-25): as long as senders keep to it, *)
(* receive returns the messages with a lower case tag that were sent, in   *)
(* order, without a gap, whatever the sizes of the reads and writes.  A    *)
(* piece of a message is returned at most once, behind all others, and     *)
(* only when the writer closed in the middle of its line (rio_readlineb    *)
(* takes that for a line, csapp.c:889-893): never when the connection      *)
(* breaks, where the bytes of an incomplete line are dropped.              *)
(***************************************************************************)
RoundTrip ==
  (\A i \in 1..Len(attempted) : Fits(attempted[i])) =>
    \/ \E k \in 0..Len(attempted) : Lists(received, attempted, Acceptable(k))
    \/ \E k \in 0..Len(attempted) - 1 : EndsBroken(k)

(***************************************************************************)
(* A send returns as long as the other end keeps calling receive: no cut   *)
(* of the stream leaves the reader waiting with a complete line, or the    *)
(* writer with a full socket.                                              *)
(***************************************************************************)
SendReturns == sending ~> ~sending

(***************************************************************************)
(* All that was written is eventually parsed, the last line too when the   *)
(* writer closed in the middle of it, unless the connection is reset.      *)
(***************************************************************************)
EverythingParsed ==
  written # consumed ~> written = consumed \/ peer = "reset"

(***************************************************************************)
(* connection.h:38-41: "send and receive should set m_last_result to       *)
(* indicate whether the most recent send or receive was successful".  The  *)
(* code sets it when a call fails and never when one succeeds.             *)
(***************************************************************************)
ResultOfLastCall ==
  /\ ~reading => m_last_result["reader"] = returned["reader"]
  /\ ~sending => m_last_result["writer"] = returned["writer"]
===============================================================================
