--------------------------------- MODULE Text ---------------------------------
(***************************************************************************)
(* The text of messages: how send puts one on the wire, how receive and    *)
(* split_payload take a line apart, which names are valid.                 *)
(*                                                                         *)
(* A string is a sequence of symbols.  A byte is one of five kinds, which  *)
(* is all that the code tells apart: a lower case letter, another letter   *)
(* or digit, the colon, a blank (any of WHITESPACE but the newline), the   *)
(* newline.  The words of the tag table are symbols too, so that a tag can *)
(* be recognised; like a letter, one may stand anywhere in a text.         *)
(***************************************************************************)
EXTENDS Integers, Sequences, FiniteSets

TagWords == {
  "err", "ok", "slogin", "rlogin", "join", "leave", "sendall", "senduser",
  "quit", "delivery", "empty"}

LowerCase == {"a"} \cup TagWords

Bytes == LowerCase \cup {"X", ":", " ", "\n"}

WHITESPACE == {" ", "\n"}

Encode(m) == m.tag \o <<":">> \o m.data \o <<"\n">>

Trim(s) ==
  LET kept == {i \in 1..Len(s) : s[i] \notin WHITESPACE}
      first == CHOOSE i \in kept : \A j \in kept : i <= j
      last == CHOOSE i \in kept : \A j \in kept : i >= j
  IN IF kept = {} THEN << >> ELSE SubSeq(s, first, last)

isLowerCased(s) == \A i \in 1..Len(s) : s[i] \in LowerCase

isValidRoomName(s) == \A i \in 1..Len(s) : s[i] \in LowerCase \cup {"X"}

\* where the first colon is, 0 when there is none
ColonPos(s) ==
  LET colons == {i \in 1..Len(s) : s[i] = ":"}
  IN IF colons = {} THEN 0 ELSE CHOOSE i \in colons : \A j \in colons : i <= j

TagOf(s) == SubSeq(s, 1, ColonPos(s) - 1)
DataOf(s) == SubSeq(s, ColonPos(s) + 1, Len(s))

\* what receive asks of a line
Valid(s) == ColonPos(s) # 0 /\ isLowerCased(TagOf(s))

\* Mutant: the length of the line buffer is not looked at.
PiecesWhole(line, limit) == IF line = << >> THEN << >> ELSE <<line>>

\* the pieces, none longer than limit, in which a line reaches its reader
Pieces(line, limit) ==
  LET End(i) == IF i * limit < Len(line) THEN i * limit ELSE Len(line)
  IN [i \in 1..((Len(line) + limit - 1) \div limit) |->
        SubSeq(line, (i - 1) * limit + 1, End(i))]

-------------------------------------------------------------------------------
\* what split_payload checks; only a delivery has a structured payload
WellFormed(m, limit) ==
  /\ Len(m.tag) + Len(m.data) <= limit
  /\ LET s == Trim(m.data) IN \A i \in 1..Len(s) : s[i] # "\n"
  /\ ColonPos(m.data) # 0
  /\ m.tag \in {<<w>> : w \in TagWords}
  /\ m.tag = <<"delivery">> =>
       \E i, j \in 1..Len(m.data) :
         i < j /\ \A k \in 1..Len(m.data) : m.data[k] = ":" <=> k \in {i, j}

\* where the loop of split_payload cuts: before s, at its colons, behind it
Cuts(s) == {0, Len(s) + 1} \cup {i \in 1..Len(s) : s[i] = ":"}

CutAfter(s, n) == CHOOSE i \in Cuts(s) : Cardinality({j \in Cuts(s) : j < i}) = n

\* the loop of split_payload: what lies between two cuts
Fields(s) ==
  [n \in 1..Cardinality(Cuts(s)) - 1 |->
     SubSeq(s, CutAfter(s, n - 1) + 1, CutAfter(s, n) - 1)]

\* an error is reported as a single field
split_payload(m, limit) ==
  IF WellFormed(m, limit) THEN Fields(m.data) ELSE << <<"X">> >>
===============================================================================
