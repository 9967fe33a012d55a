------------------------ MODULE ReceiverSessionProofs ------------------------
(***************************************************************************)
(* What a receiver client prints, for any room, messages and MAX_LEN: the  *)
(* types; that it prints the messages of the room in order, as long as     *)
(* they keep to MAX_LEN; and that what it prints was said, even when lines *)
(* are cut.  The lines under way carry both arguments: each is a reply, an *)
(* "Empty error" or (a piece of) the delivery of the message after the one *)
(* before, and the client, which takes a line apart by its colons, prints  *)
(* what the delivery was made of.                                          *)
(***************************************************************************)
EXTENDS ReceiverSession, SequenceFacts

(***************************************************************************)
(* What the client makes of the lines of the server.                       *)
(***************************************************************************)
LEMMA ReceivedIs ==
  ASSUME NEW m, NEW line
  PROVE  Received(m, line) =
           IF Valid(Trim(line)) THEN [tag |-> TagOf(Trim(line)), data |-> DataOf(Trim(line))]
           ELSE [m EXCEPT !.tag = <<"err">>]
BY DEF Received

LEMMA ReceivedLine ==
  ASSUME NEW m \in Messages, NEW tag \in Seq(Bytes), NEW data \in Seq(Bytes),
         tag # << >>, \A i \in 1..Len(tag) : tag[i] \in LowerCase,
         data # << >>, data[Len(data)] \notin WHITESPACE
  PROVE  Received(m, Encode([tag |-> tag, data |-> data])) = [tag |-> tag, data |-> data]
<1>. DEFINE s == tag \o <<":">> \o data
            n == Len(tag)
            d == Len(data)
<1>1. n \in Nat /\ d \in Nat /\ 1 <= n /\ 1 <= d
  BY LenProperties, EmptySeq
<1>2. /\ s \in Seq(Bytes) /\ Len(s) = n + 1 + d
      /\ \A i \in 1..n : s[i] = tag[i]
      /\ \A i \in 1..d : s[n + 1 + i] = data[i]
  BY TextOfLine
<1>3. \A b \in LowerCase : b # ":" /\ b \notin WHITESPACE
  BY DEF LowerCase, TagWords, WHITESPACE
<1>4. ColonPos(s) = n + 1 /\ TagOf(s) = tag /\ DataOf(s) = data
  <2>1. \A i \in 1..Len(tag) : tag[i] # ":"
    BY <1>3
  <2>. QED  BY <2>1, ParsesBack
<1>5. Encode([tag |-> tag, data |-> data]) = s \o <<"\n">>
  BY DEF Encode
<1>. HIDE DEF s
<1>6. Trim(s \o <<"\n">>) = s
  <2>. HIDE DEF n, d
  <2>1. s # << >>
    BY <1>1, <1>2
  <2>2. s[1] \notin WHITESPACE
    BY <1>1, <1>2, <1>3 DEF n
  <2>3. s[Len(s)] \notin WHITESPACE
    BY <1>1, <1>2 DEF d
  <2>. QED  BY <1>2, <2>1, <2>2, <2>3, TrimOfLine
<1>7. Valid(s)
  BY <1>1, <1>4 DEF Valid, isLowerCased
<1>. HIDE DEF n
<1>. QED  BY <1>4, <1>5, <1>6, <1>7, ReceivedIs

LEMMA OneByte ==
  ASSUME NEW b \in Bytes
  PROVE  <<b>> \in Seq(Bytes) /\ Len(<<b>>) = 1 /\ <<b>>[1] = b /\ <<b>> # << >>
OBVIOUS

LEMMA Symbols ==
  /\ {"X", ":", "\n", "ok", "err", "delivery", "rlogin", "join"} \subseteq Bytes
  /\ {"ok", "err", "delivery"} \subseteq LowerCase
  /\ "X" \notin WHITESPACE
BY DEF Bytes, LowerCase, TagWords, WHITESPACE

LEMMA ReplyReceived ==
  ASSUME NEW m \in Messages
  PROVE  /\ Received(m, Ok) = [tag |-> <<"ok">>, data |-> <<"X">>]
         /\ Received(m, Err) = [tag |-> <<"err">>, data |-> <<"X">>]
<1>. DEFINE x == <<"X">>
<1>1. x \in Seq(Bytes) /\ x # << >> /\ x[Len(x)] \notin WHITESPACE
  <2>1. x[1] \notin WHITESPACE
    BY Symbols
  <2>. QED  BY <2>1, Symbols, OneByte
<1>2. ASSUME NEW w \in {"ok", "err"}
      PROVE  Received(m, Encode([tag |-> <<w>>, data |-> x])) = [tag |-> <<w>>, data |-> x]
  <2>1. w \in Bytes /\ w \in LowerCase
    BY Symbols
  <2>. DEFINE tag == <<w>>
  <2>2. tag \in Seq(Bytes) /\ tag # << >> /\ Len(tag) = 1 /\ tag[1] = w
    BY <2>1, OneByte
  <2>. HIDE DEF tag
  <2>3. \A i \in 1..Len(tag) : tag[i] \in LowerCase
    BY <2>1, <2>2
  <2>4. Received(m, Encode([tag |-> tag, data |-> x])) = [tag |-> tag, data |-> x]
    <3>. HIDE DEF x
    <3>. QED  BY <1>1, <2>2, <2>3, ReceivedLine
  <2>. QED  BY <2>4 DEF tag
<1>. QED  BY <1>2 DEF Ok, Err

\* a reply is printed as nothing
LEMMA ReplyHasNoFields ==
  ASSUME NEW tag
  PROVE  Len(split_payload([tag |-> tag, data |-> <<"X">>], MAX_LEN)) # 3
<1>1. ColonPos(<<"X">>) = 0
  BY DEF ColonPos
<1>2. ~WellFormed([tag |-> tag, data |-> <<"X">>], MAX_LEN)
  BY <1>1 DEF WellFormed
<1>. QED  BY <1>2 DEF split_payload

LEMMA EncodedSymbols ==
  ASSUME NEW w \in Bytes, NEW d \in Seq(Bytes)
  PROVE  LET t == Encode([tag |-> <<w>>, data |-> d])
         IN /\ t \in Seq(Bytes) /\ Len(t) = Len(d) + 3
            /\ t[1] = w /\ t[2] = ":" /\ t[Len(d) + 3] = "\n"
            /\ \A i \in 1..Len(d) : t[i + 2] = d[i]
<1>. DEFINE tag == <<w>>
            s == tag \o <<":">> \o d
            nl == <<"\n">>
            n == Len(d)
            t == s \o nl
<1>1. tag \in Seq(Bytes) /\ Len(tag) = 1 /\ tag[1] = w
  BY OneByte
<1>2. nl \in Seq(Bytes) /\ Len(nl) = 1 /\ nl[1] = "\n"
  BY OneByte, Symbols
<1>3. Encode([tag |-> tag, data |-> d]) = t
  BY DEF Encode
<1>4. n \in Nat
  BY LenProperties
<1>. HIDE DEF tag
<1>5. /\ s \in Seq(Bytes) /\ Len(s) = Len(tag) + 1 + n
      /\ \A i \in 1..Len(tag) : s[i] = tag[i]
      /\ s[Len(tag) + 1] = ":"
      /\ \A i \in 1..n : s[Len(tag) + 1 + i] = d[i]
  BY <1>1, TextOfLine
<1>. HIDE DEF s, nl, n
<1>6. /\ Len(s) = n + 2 /\ s[1] = w /\ s[2] = ":"
      /\ \A i \in 1..n : s[i + 2] = d[i]
  <2>1. \A i \in 1..n : Len(tag) + 1 + i = i + 2
    BY <1>1, <1>4
  <2>2. Len(tag) + 1 = 2 /\ 1 \in 1..Len(tag)
    BY <1>1
  <2>3. Len(s) = n + 2
    BY <1>1, <1>4, <1>5
  <2>. QED  BY <1>1, <1>5, <2>1, <2>2, <2>3
<1>7. /\ t \in Seq(Bytes) /\ Len(t) = n + 3 /\ t[n + 3] = "\n"
      /\ \A i \in 1..n + 2 : t[i] = s[i]
  <2>1. /\ t \in Seq(Bytes) /\ Len(t) = Len(s) + Len(nl)
        /\ \A i \in 1..Len(s) + Len(nl) : t[i] = IF i <= Len(s) THEN s[i] ELSE nl[i - Len(s)]
    BY <1>2, <1>5, ConcatProperties
  <2>. HIDE DEF t
  <2>2. Len(s) + Len(nl) = n + 3 /\ n + 3 \in 1..n + 3 /\ n + 3 - Len(s) = 1 /\ ~(n + 3 <= Len(s))
    BY <1>2, <1>4, <1>6
  <2>3. \A i \in 1..n + 2 : i \in 1..n + 3 /\ i <= Len(s)
    BY <1>4, <1>6
  <2>4. \A i \in 1..n + 2 : t[i] = s[i]
    BY <2>1, <2>2, <2>3
  <2>5. t[n + 3] = nl[1]
    <3>. DEFINE k == n + 3
    <3>1. k \in 1..Len(s) + Len(nl) /\ k - Len(s) = 1 /\ ~(k <= Len(s))
      BY <1>2, <1>4, <1>6
    <3>. HIDE DEF k
    <3>2. t[k] = nl[1]
      BY <2>1, <3>1
    <3>. QED  BY <3>2 DEF k
  <2>. QED  BY <1>2, <2>1, <2>2, <2>4, <2>5
<1>. HIDE DEF t
<1>8. /\ 1 \in 1..n + 2 /\ 2 \in 1..n + 2
      /\ \A i \in 1..n : i + 2 \in 1..n + 2
  BY <1>4
<1>9. /\ t \in Seq(Bytes) /\ Len(t) = n + 3
      /\ t[1] = w /\ t[2] = ":" /\ t[n + 3] = "\n"
      /\ \A i \in 1..n : t[i + 2] = d[i]
  BY <1>6, <1>7, <1>8
<1>. QED  BY <1>3, <1>9 DEF n, tag

(***************************************************************************)
(* A delivery, from the room to the fields the client prints.              *)
(***************************************************************************)
Payload(p) == room \o <<":">> \o p.sender \o <<":">> \o p.text

LEMMA PayloadText ==
  ASSUME room \in Seq(Bytes), NEW p \in Posts
  PROVE  LET r == Len(room)
             e == Len(p.sender)
             t == Len(p.text)
         IN /\ r \in Nat /\ e \in Nat /\ t \in Nat
            /\ Payload(p) \in Seq(Bytes) /\ Len(Payload(p)) = r + e + t + 2
            /\ \A i \in 1..r : Payload(p)[i] = room[i]
            /\ Payload(p)[r + 1] = ":"
            /\ \A i \in 1..e : Payload(p)[r + 1 + i] = p.sender[i]
            /\ Payload(p)[r + e + 2] = ":"
            /\ \A i \in 1..t : Payload(p)[r + e + 2 + i] = p.text[i]
            /\ Payload(p) # << >>
            /\ Payload(p)[Len(Payload(p))] \notin WHITESPACE
<1>. DEFINE h == room \o <<":">> \o p.sender
            q == h \o <<":">> \o p.text
            c == <<":">> \o p.text
            r == Len(room)
            e == Len(p.sender)
            t == Len(p.text)
<1>1. p.sender \in Seq(Bytes) /\ p.text \in Seq(Bytes) /\ Trim(c) = c
  BY PostsAssumption
<1>2. r \in Nat /\ e \in Nat /\ t \in Nat
  BY <1>1, LenProperties
<1>3. /\ h \in Seq(Bytes) /\ Len(h) = r + 1 + e
      /\ \A i \in 1..r : h[i] = room[i]
      /\ h[r + 1] = ":"
      /\ \A i \in 1..e : h[r + 1 + i] = p.sender[i]
  BY <1>1, TextOfLine
<1>. HIDE DEF h
<1>4. /\ q \in Seq(Bytes) /\ Len(q) = Len(h) + 1 + t
      /\ \A i \in 1..Len(h) : q[i] = h[i]
      /\ q[Len(h) + 1] = ":"
      /\ \A i \in 1..t : q[Len(h) + 1 + i] = p.text[i]
  BY <1>1, <1>3, TextOfLine
<1>5. Payload(p) = q
  BY DEF Payload, h, q
<1>. HIDE DEF q
<1>6. c # << >> /\ c[Len(c)] \notin WHITESPACE
  <2>1. ":" \in Bytes
    BY DEF Bytes
  <2>2. c \in Seq(Bytes) /\ Len(c) = 1 + t
    BY <1>1, <2>1, ConcatProperties
  <2>3. c # << >>
    BY <1>2, <2>2
  <2>. HIDE DEF c
  <2>. QED  BY <1>1, <2>2, <2>3, TrimmedEnd
<1>7. Len(c) = 1 + t /\ c[1] = ":" /\ \A i \in 1..t : c[1 + i] = p.text[i]
  <2>1. Len(<<":">>) = 1 /\ <<":">>[1] = ":" /\ <<":">> \in Seq(Bytes)
    BY Symbols, OneByte
  <2>. QED  BY <1>1, <1>2, <2>1, ConcatProperties
<1>. HIDE DEF c, r, e, t
<1>8. q[Len(q)] = c[Len(c)]
  <2>1. CASE t = 0
    BY <1>2, <1>3, <1>4, <1>7, <2>1
  <2>2. CASE t # 0
    <3>1. t \in 1..t
      BY <1>2, <2>2
    <3>2. c[1 + t] = p.text[t] /\ q[Len(h) + 1 + t] = p.text[t]
      BY <1>4, <1>7, <3>1
    <3>. QED  BY <1>4, <1>7, <3>2
  <2>. QED  BY <2>1, <2>2
<1>9. q # << >>
  BY <1>2, <1>3, <1>4
<1>10. Len(q) = r + e + t + 2
  BY <1>2, <1>3, <1>4
<1>11. /\ \A i \in 1..r : q[i] = room[i]
       /\ q[r + 1] = ":"
       /\ \A i \in 1..e : q[r + 1 + i] = p.sender[i]
  <2>1. /\ \A i \in 1..r : i \in 1..Len(h)
        /\ r + 1 \in 1..Len(h)
        /\ \A i \in 1..e : r + 1 + i \in 1..Len(h)
    BY <1>2, <1>3
  <2>. QED  BY <1>3, <1>4, <2>1
<1>12. Len(h) + 1 = r + e + 2
  BY <1>2, <1>3
<1>13. /\ q[r + e + 2] = ":"
       /\ \A i \in 1..t : q[r + e + 2 + i] = p.text[i]
  BY <1>4, <1>12
<1>. QED  BY <1>2, <1>4, <1>5, <1>6, <1>8, <1>9, <1>10, <1>11, <1>13 DEF r, e, t

LEMMA DeliveryReceived ==
  ASSUME room \in Seq(Bytes), NEW p \in Posts, NEW m \in Messages
  PROVE  Received(m, Delivery(p)) = [tag |-> <<"delivery">>, data |-> Payload(p)]
<1>. DEFINE tag == <<"delivery">>
<1>1. tag \in Seq(Bytes) /\ tag # << >> /\ Len(tag) = 1 /\ tag[1] = "delivery"
  BY Symbols, OneByte
<1>2. \A i \in 1..Len(tag) : tag[i] \in LowerCase
  BY <1>1, Symbols
<1>3. Payload(p) \in Seq(Bytes) /\ Payload(p) # << >> /\ Payload(p)[Len(Payload(p))] \notin WHITESPACE
  BY PayloadText
<1>4. Delivery(p) = Encode([tag |-> <<"delivery">>, data |-> Payload(p)])
  BY DEF Delivery, Payload
<1>5. Received(m, Encode([tag |-> tag, data |-> Payload(p)])) = [tag |-> tag, data |-> Payload(p)]
  <2>. HIDE DEF tag
  <2>. QED  BY <1>1, <1>2, <1>3, ReceivedLine
<1>. QED  BY <1>4, <1>5

LEMMA DeliveryLength ==
  ASSUME room \in Seq(Bytes), NEW p \in Posts
  PROVE  /\ Delivery(p) \in Seq(Bytes) /\ Len(Delivery(p)) = Len(Payload(p)) + 3
         /\ Delivery(p)[1] = "delivery"
<1>. DEFINE q == Payload(p)
            tag == <<"delivery">>
            s == tag \o <<":">> \o q
<1>1. q \in Seq(Bytes)
  BY PayloadText
<1>2. tag \in Seq(Bytes) /\ <<"\n">> \in Seq(Bytes) /\ Len(<<"\n">>) = 1 /\ Len(tag) = 1 /\ tag[1] = "delivery"
  BY Symbols, OneByte
<1>3. Delivery(p) = s \o <<"\n">>
  BY DEF Delivery, Payload, Encode
<1>. HIDE DEF q, tag
<1>4. s \in Seq(Bytes) /\ Len(s) = 1 + 1 + Len(q) /\ s[1] = tag[1]
  <2>1. /\ s \in Seq(Bytes) /\ Len(s) = Len(tag) + 1 + Len(q)
        /\ \A i \in 1..Len(tag) : s[i] = tag[i]
    BY <1>1, <1>2, TextOfLine
  <2>. HIDE DEF s
  <2>. QED  BY <1>2, <2>1
<1>. HIDE DEF s
<1>5. 1 <= Len(s) /\ Len(s) + 1 = Len(q) + 3
  BY <1>1, <1>4
<1>6. s \o <<"\n">> \in Seq(Bytes) /\ Len(s \o <<"\n">>) = Len(s) + 1 /\ (s \o <<"\n">>)[1] = s[1]
  BY <1>2, <1>4, <1>5, ConcatProperties
<1>. QED  BY <1>2, <1>3, <1>4, <1>5, <1>6 DEF q

LEMMA ColonsOfDelivery ==
  ASSUME room \in Seq(Bytes), isValidRoomName(room), NEW p \in Posts
  PROVE  LET i == Len(room) + 1
             j == Len(room) + Len(p.sender) + 2
         IN /\ i \in 1..Len(Payload(p)) /\ j \in 1..Len(Payload(p)) /\ i < j
            /\ Payload(p)[i] = ":" /\ Payload(p)[j] = ":"
            /\ Printable(p) <=>
                 \A k \in 1..Len(Payload(p)) : Payload(p)[k] = ":" <=> k \in {i, j}
<1>. DEFINE q == Payload(p)
            r == Len(room)
            e == Len(p.sender)
            t == Len(p.text)
            i == r + 1
            j == r + e + 2
<1>1. /\ r \in Nat /\ e \in Nat /\ t \in Nat /\ Len(q) = r + e + t + 2
      /\ \A k \in 1..r : q[k] = room[k]
      /\ q[i] = ":"
      /\ \A k \in 1..e : q[r + 1 + k] = p.sender[k]
      /\ q[j] = ":"
      /\ \A k \in 1..t : q[r + e + 2 + k] = p.text[k]
  BY PayloadText
<1>2. \A k \in 1..r : room[k] # ":"
  BY DEF isValidRoomName, LowerCase, TagWords
<1>3. /\ Colonless(p.sender) <=> \A k \in 1..e : p.sender[k] # ":"
      /\ Colonless(p.text) <=> \A k \in 1..t : p.text[k] # ":"
  BY DEF Colonless
<1>. HIDE DEF q, r, e, t
<1>4. i \in 1..Len(q) /\ j \in 1..Len(q) /\ i < j
  BY <1>1
<1>5. ASSUME Printable(p), NEW k \in 1..Len(q)
      PROVE  q[k] = ":" <=> k \in {i, j}
  <2>1. CASE k \in 1..r
    BY <1>1, <1>2, <2>1
  <2>2. CASE k \in i + 1..j - 1
    <3>1. k - i \in 1..e /\ r + 1 + (k - i) = k
      BY <1>1, <2>2
    <3>2. q[k] = p.sender[k - i]
      BY <1>1, <3>1
    <3>3. q[k] # ":"
      BY <1>3, <1>5, <3>1, <3>2 DEF Printable
    <3>. QED  BY <1>1, <2>2, <3>3
  <2>3. CASE k \in j + 1..Len(q)
    <3>1. k - j \in 1..t /\ r + e + 2 + (k - j) = k
      BY <1>1, <2>3
    <3>2. q[k] = p.text[k - j]
      BY <1>1, <3>1
    <3>3. q[k] # ":"
      BY <1>3, <1>5, <3>1, <3>2 DEF Printable
    <3>. QED  BY <1>1, <2>3, <3>3
  <2>4. CASE k = i \/ k = j
    BY <1>1, <2>4
  <2>5. k \in 1..r \/ k \in i + 1..j - 1 \/ k \in j + 1..Len(q) \/ k = i \/ k = j
    BY <1>1
  <2>. QED  BY <2>1, <2>2, <2>3, <2>4, <2>5
<1>6. ASSUME \A k \in 1..Len(q) : q[k] = ":" <=> k \in {i, j}
      PROVE  Printable(p)
  <2>1. ASSUME NEW k \in 1..e
        PROVE  p.sender[k] # ":"
    <3>1. r + 1 + k \in 1..Len(q) /\ r + 1 + k # i /\ r + 1 + k # j
      BY <1>1
    <3>. QED  BY <1>1, <1>6, <3>1
  <2>2. ASSUME NEW k \in 1..t
        PROVE  p.text[k] # ":"
    <3>1. r + e + 2 + k \in 1..Len(q) /\ r + e + 2 + k # i /\ r + e + 2 + k # j
      BY <1>1
    <3>. QED  BY <1>1, <1>6, <3>1
  <2>. QED  BY <1>3, <2>1, <2>2 DEF Printable
<1>. QED  BY <1>1, <1>4, <1>5, <1>6 DEF q, r, e

\* what the loop makes of a delivery: the sender and the text, or nothing
Fields3(p) == split_payload([tag |-> <<"delivery">>, data |-> Payload(p)], MAX_LEN)

LEMMA DeliveryShown ==
  ASSUME room \in Seq(Bytes), isValidRoomName(room), NEW p \in Posts,
         Len(Delivery(p)) <= MAX_LEN
  PROVE  /\ Printable(p) =>
              Len(Fields3(p)) = 3 /\ Fields3(p)[2] = p.sender /\ Fields3(p)[3] = p.text
         /\ ~Printable(p) => Len(Fields3(p)) # 3
<1>. DEFINE q == Payload(p)
            r == Len(room)
            e == Len(p.sender)
            t == Len(p.text)
            i == r + 1
            j == r + e + 2
            m == [tag |-> <<"delivery">>, data |-> q]
<1>1. /\ r \in Nat /\ e \in Nat /\ t \in Nat
      /\ q \in Seq(Bytes) /\ Len(q) = r + e + t + 2
      /\ \A k \in 1..r : q[k] = room[k]
      /\ \A k \in 1..e : q[r + 1 + k] = p.sender[k]
      /\ \A k \in 1..t : q[r + e + 2 + k] = p.text[k]
  BY PayloadText
<1>2. /\ i \in 1..Len(q) /\ j \in 1..Len(q) /\ i < j
      /\ q[i] = ":" /\ q[j] = ":"
      /\ Printable(p) <=> \A k \in 1..Len(q) : q[k] = ":" <=> k \in {i, j}
  BY ColonsOfDelivery
<1>3. /\ p.sender \in Seq(Bytes) /\ p.text \in Seq(Bytes)
      /\ \A k \in 1..e : p.sender[k] # "\n"
      /\ \A k \in 1..t : p.text[k] # "\n"
  BY PostsAssumption
<1>4. \A k \in 1..r : room[k] # "\n"
  BY DEF isValidRoomName, LowerCase, TagWords
<1>5. 1 + Len(q) <= MAX_LEN
  <2>1. Len(Delivery(p)) = Len(q) + 3
    BY DeliveryLength
  <2>2. Len(q) \in Nat
    BY <1>1, LenProperties
  <2>3. MAX_LEN \in Nat
    BY SizesAssumption
  <2>. HIDE DEF q
  <2>. QED  BY <2>1, <2>2, <2>3
<1>6. Fields3(p) = IF WellFormed(m, MAX_LEN) THEN Fields(q) ELSE << <<"X">> >>
  BY DEF Fields3, split_payload
<1>7. ASSUME Printable(p)
      PROVE  Len(Fields3(p)) = 3 /\ Fields3(p)[2] = p.sender /\ Fields3(p)[3] = p.text
  <2>1. \A k \in 1..Len(q) : q[k] = ":" <=> k \in {i, j}
    BY <1>2, <1>7
  <2>2. /\ Len(Fields(q)) = 3
        /\ Fields(q)[2] = SubSeq(q, i + 1, j - 1)
        /\ Fields(q)[3] = SubSeq(q, j + 1, Len(q))
    <3>. HIDE DEF q, i, j
    <3>. QED  BY <1>1, <1>2, <2>1, FieldsOfTwoColons
  <2>3. SubSeq(q, i + 1, i + e) = p.sender
    <3>. HIDE DEF q, r, e, t
    <3>1. i \in Nat /\ i + e <= Len(q)
      BY <1>1
    <3>2. \A k \in 1..e : q[i + k] = p.sender[k]
      BY <1>1
    <3>3. SubSeq(q, i + 1, i + Len(p.sender)) = p.sender
      <4>. HIDE DEF i
      <4>. QED  BY <1>1, <1>3, <3>1, <3>2, RunIs DEF e
    <3>. QED  BY <3>3 DEF e
  <2>4. SubSeq(q, j + 1, j + t) = p.text
    <3>. HIDE DEF q, r, e, t
    <3>1. j \in Nat /\ j + t <= Len(q)
      BY <1>1
    <3>2. \A k \in 1..t : q[j + k] = p.text[k]
      BY <1>1
    <3>3. SubSeq(q, j + 1, j + Len(p.text)) = p.text
      <4>. HIDE DEF j
      <4>. QED  BY <1>1, <1>3, <3>1, <3>2, RunIs DEF t
    <3>. QED  BY <3>3 DEF t
  <2>5. j - 1 = i + e /\ Len(q) = j + t
    <3>. HIDE DEF q, r, e, t
    <3>. QED  BY <1>1
  <2>6. WellFormed(m, MAX_LEN)
    <3>1. \A k \in 1..Len(q) : q[k] # "\n"
      <4>. HIDE DEF q, r, e, t
      <4>1. SUFFICES ASSUME NEW k \in 1..Len(q) PROVE q[k] # "\n"
        OBVIOUS
      <4>2. CASE k \in 1..r
        BY <1>1, <1>4, <4>2
      <4>3. CASE k \in i + 1..j - 1
        <5>1. k - i \in 1..e /\ r + 1 + (k - i) = k
          BY <1>1, <4>3
        <5>. QED  BY <1>1, <1>3, <5>1
      <4>4. CASE k \in j + 1..Len(q)
        <5>1. k - j \in 1..t /\ r + e + 2 + (k - j) = k
          BY <1>1, <4>4
        <5>. QED  BY <1>1, <1>3, <5>1
      <4>5. CASE k = i \/ k = j
        BY <1>2, <4>5
      <4>6. k \in 1..r \/ k \in i + 1..j - 1 \/ k \in j + 1..Len(q) \/ k = i \/ k = j
        BY <1>1
      <4>. QED  BY <4>2, <4>3, <4>4, <4>5, <4>6
    <3>. HIDE DEF q, i, j
    <3>2. LET s == Trim(q) IN \A k \in 1..Len(s) : s[k] # "\n"
      BY <1>1, <3>1, TrimElements
    <3>3. ColonPos(q) # 0
      <4>. DEFINE colons == {k \in 1..Len(q) : q[k] = ":"}
      <4>1. colons # {} /\ colons \subseteq Nat
        BY <1>2
      <4>2. \E k \in colons : \A l \in colons : k <= l
        BY <4>1, LeastExists
      <4>3. (CHOOSE k \in colons : \A l \in colons : k <= l) \in colons
        BY <4>2
      <4>4. ColonPos(q) = CHOOSE k \in colons : \A l \in colons : k <= l
        BY <4>1 DEF ColonPos
      <4>5. \A k \in colons : k # 0
        OBVIOUS
      <4>. QED  BY <4>3, <4>4, <4>5
    <3>4. <<"delivery">> \in {<<w>> : w \in TagWords}
      BY DEF TagWords
    <3>5. Len(<<"delivery">>) + Len(q) <= MAX_LEN
      BY <1>5
    <3>6. \E a, b \in 1..Len(q) : a < b /\ \A k \in 1..Len(q) : q[k] = ":" <=> k \in {a, b}
      BY <1>2, <2>1
    <3>. QED  BY <3>2, <3>3, <3>4, <3>5, <3>6 DEF WellFormed
  <2>. HIDE DEF q, i, j, e, t, m
  <2>7. Fields3(p) = Fields(q)
    BY <1>6, <2>6
  <2>. QED  BY <2>2, <2>3, <2>4, <2>5, <2>7
<1>8. ASSUME ~Printable(p), Len(Fields3(p)) = 3
      PROVE  FALSE
  <2>1. Len(<< <<"X">> >>) # 3
    OBVIOUS
  <2>. HIDE DEF q, i, j, m
  <2>2. Len(Fields(q)) = 3
    BY <1>6, <1>8, <2>1
  <2>3. PICK a, b \in 1..Len(q) : a < b /\ \A k \in 1..Len(q) : q[k] = ":" <=> k \in {a, b}
    BY <1>1, <2>2, ThreeFields
  <2>4. i = a /\ j = b
    BY <1>2, <2>3
  <2>. QED  BY <1>2, <1>8, <2>3, <2>4
<1>. QED  BY <1>7, <1>8

-------------------------------------------------------------------------------
(***************************************************************************)
(* The types.                                                              *)
(***************************************************************************)
Line == {s \in Seq(Bytes) : Len(s) \in 1..MAX_LEN}

Said == [sender : Seq(Bytes), text : Seq(Bytes)]

LEMMA DownType ==
  ASSUME NEW d
  PROVE  d \in Seq(Line) <=>
           d \in Seq(Seq(Bytes)) /\ \A i \in 1..Len(d) : Len(d[i]) \in 1..MAX_LEN
<1>1. ASSUME d \in Seq(Line)
      PROVE  d \in Seq(Seq(Bytes)) /\ \A i \in 1..Len(d) : Len(d[i]) \in 1..MAX_LEN
  <2>1. \A i \in 1..Len(d) : d[i] \in Seq(Bytes) /\ Len(d[i]) \in 1..MAX_LEN
    BY <1>1 DEF Line
  <2>. QED  BY <1>1, <2>1
<1>2. ASSUME d \in Seq(Seq(Bytes)), \A i \in 1..Len(d) : Len(d[i]) \in 1..MAX_LEN
      PROVE  d \in Seq(Line)
  <2>1. \A i \in 1..Len(d) : d[i] \in Line
    BY <1>2 DEF Line
  <2>. QED  BY <1>2, <2>1
<1>. QED  BY <1>1, <1>2

LEMMA ServiceIsLine == Ok \in Line /\ Err \in Line
<1>. DEFINE x == <<"X">>
<1>1. x \in Seq(Bytes) /\ Len(x) = 1
  BY Symbols, OneByte
<1>2. <<"\n">> \in Seq(Bytes) /\ Len(<<"\n">>) = 1
  BY Symbols, OneByte
<1>3. ASSUME NEW w \in {"ok", "err"}
      PROVE  Encode([tag |-> <<w>>, data |-> x]) \in Line
  <2>. DEFINE tag == <<w>>
              s == tag \o <<":">> \o x
  <2>1. tag \in Seq(Bytes) /\ Len(tag) = 1
    BY Symbols, OneByte
  <2>2. Encode([tag |-> tag, data |-> x]) = s \o <<"\n">>
    BY DEF Encode
  <2>. HIDE DEF x, tag
  <2>3. s \in Seq(Bytes) /\ Len(s) = Len(tag) + 1 + Len(x)
    BY <1>1, <2>1, TextOfLine
  <2>. DEFINE nl == <<"\n">>
  <2>. HIDE DEF s, nl
  <2>4. Len(s) = 3 /\ nl \in Seq(Bytes) /\ Len(nl) = 1
    BY <1>1, <1>2, <2>1, <2>3 DEF nl
  <2>5. s \o nl \in Seq(Bytes) /\ Len(s \o nl) = 4
    <3>1. s \o nl \in Seq(Bytes) /\ Len(s \o nl) = Len(s) + Len(nl)
      BY <2>3, <2>4, ConcatProperties
    <3>. QED  BY <2>4, <3>1
  <2>6. 4 \in 1..MAX_LEN
    BY SizesAssumption
  <2>. QED  BY <2>2, <2>5, <2>6 DEF Line, tag, nl
<1>. QED  BY <1>3 DEF Ok, Err, x

LEMMA PiecesAreLines ==
  ASSUME NEW line \in Seq(Bytes)
  PROVE  Pieces(line, MAX_LEN) \in Seq(Line)
<1>1. MAX_LEN \in Nat \ {0}
  BY SizesAssumption
<1>. QED  BY <1>1, PiecesType, DownType

LEMMA ReceivedType ==
  ASSUME NEW m \in Messages, NEW line \in Seq(Bytes)
  PROVE  Received(m, line) \in Messages
<1>. DEFINE s == Trim(line)
<1>1. s \in Seq(Bytes)
  BY TrimType
<1>2. <<"err">> \in Seq(Bytes)
  BY Symbols, OneByte
<1>. HIDE DEF s
<1>3. CASE Valid(s)
  <2>1. TagOf(s) \in Seq(Bytes) /\ DataOf(s) \in Seq(Bytes)
    BY <1>1, <1>3, PartsTypes DEF Valid
  <2>. QED  BY <1>3, <2>1, ReceivedIs DEF Messages, s
<1>4. CASE ~Valid(s)
  BY <1>2, <1>4, ReceivedIs DEF Messages, s
<1>. QED  BY <1>3, <1>4

LEMMA NoMessageType == NoMessage \in Messages
<1>1. << >> \in Seq(Bytes)
  OBVIOUS
<1>. QED  BY <1>1 DEF NoMessage, Messages

LEMMA ShowType ==
  ASSUME shown \in Seq(Said), NEW m \in Messages, Show(m)
  PROVE  shown' \in Seq(Said)
<1>. DEFINE f == split_payload(m, MAX_LEN)
<1>1. CASE Len(f) = 3
  <2>1. Len(<< <<"X">> >>) # 3
    OBVIOUS
  <2>2. WellFormed(m, MAX_LEN) /\ f = Fields(m.data)
    BY <1>1, <2>1 DEF split_payload
  <2>. HIDE DEF f
  <2>3. m.data \in Seq(Bytes)
    BY DEF Messages
  <2>4. f[2] \in Seq(Bytes) /\ f[3] \in Seq(Bytes)
    BY <1>1, <2>2, <2>3, FieldTypes
  <2>5. shown' = Append(shown, [sender |-> f[2], text |-> f[3]])
    BY <1>1 DEF Show, f
  <2>6. [sender |-> f[2], text |-> f[3]] \in Said
    BY <2>4 DEF Said
  <2>. QED  BY <2>5, <2>6
<1>2. CASE Len(f) # 3
  BY <1>2 DEF Show
<1>. QED  BY <1>1, <1>2

\* what is made of a line of the client, and the welcome that repeats its name
LEMMA RequestType ==
  ASSUME up \in Seq(Line), up # << >>
  PROVE  /\ Request \in Messages
         /\ Welcome \in Seq(Bytes) /\ Len(Welcome) <= 2 * MAX_LEN
<1>. DEFINE x == Head(up)
            r == Received(NoMessage, x)
            d == <<"X", " ">> \o r.data \o <<"X">>
            s == Trim(x)
<1>1. x \in Seq(Bytes) /\ Len(x) \in 1..MAX_LEN /\ MAX_LEN \in Nat /\ MAX_LEN >= 5
  BY SizesAssumption DEF Line
<1>2. r \in Messages
  BY <1>1, NoMessageType, ReceivedType
<1>3. r.data \in Seq(Bytes) /\ Len(r.data) <= MAX_LEN - 1 /\ Len(r.data) \in Nat
  <2>1. r.data \in Seq(Bytes)
    BY <1>2 DEF Messages
  <2>2. s \in Seq(Bytes) /\ Len(s) <= Len(x) /\ Len(s) \in Nat
    BY <1>1, TrimType, PartsShorter, LenProperties
  <2>3. CASE Valid(s)
    <3>1. r.data = DataOf(s)
      BY <2>3, ReceivedIs
    <3>. HIDE DEF s, x, r
    <3>2. ColonPos(s) # 0
      BY <2>3 DEF Valid
    <3>3. Len(DataOf(s)) < Len(s)
      BY <2>2, <3>2, PartsShorter
    <3>. QED  BY <1>1, <2>1, <2>2, <3>1, <3>3, LenProperties
  <2>4. CASE ~Valid(s)
    <3>1. r.data = << >>
      BY <2>4, ReceivedIs DEF NoMessage
    <3>. QED  BY <1>1, <2>1, <3>1
  <2>. QED  BY <2>3, <2>4
<1>. HIDE DEF r
<1>4. d \in Seq(Bytes) /\ Len(d) = Len(r.data) + 3
  <2>1. <<"X", " ">> \in Seq(Bytes) /\ Len(<<"X", " ">>) = 2
    BY DEF Bytes
  <2>2. <<"X">> \in Seq(Bytes) /\ Len(<<"X">>) = 1
    BY Symbols, OneByte
  <2>. DEFINE a == <<"X", " ">>
              b == <<"X">>
              c == r.data
  <2>3. a \in Seq(Bytes) /\ Len(a) = 2 /\ b \in Seq(Bytes) /\ Len(b) = 1 /\ c \in Seq(Bytes)
    BY <1>3, <2>1, <2>2
  <2>. HIDE DEF a, b, c
  <2>. DEFINE y == a \o c
  <2>4. y \in Seq(Bytes) /\ Len(y) = Len(a) + Len(c) /\ Len(c) \in Nat
    BY <2>3, ConcatProperties, LenProperties
  <2>. HIDE DEF y
  <2>5. y \o b \in Seq(Bytes) /\ Len(y \o b) = Len(y) + Len(b)
    BY <2>3, <2>4, ConcatProperties
  <2>6. Len(y \o b) = Len(c) + 3
    BY <2>3, <2>4, <2>5
  <2>. QED  BY <2>5, <2>6 DEF a, b, c, y
<1>5. Welcome = Encode([tag |-> <<"ok">>, data |-> d])
  BY DEF Welcome, Request, r
<1>. HIDE DEF d
<1>6. Welcome \in Seq(Bytes) /\ Len(Welcome) = Len(d) + 3
  <2>1. "ok" \in Bytes
    BY Symbols
  <2>2. ASSUME NEW w \in Bytes
        PROVE  LET c == Encode([tag |-> <<w>>, data |-> d])
               IN c \in Seq(Bytes) /\ Len(c) = Len(d) + 3
    BY <1>4, EncodedSymbols
  <2>. QED  BY <1>5, <2>1, <2>2
<1>7. Len(Welcome) <= 2 * MAX_LEN
  BY <1>1, <1>3, <1>4, <1>6
<1>. QED  BY <1>2, <1>6, <1>7 DEF Request, r

LEMMA WritingType ==
  ASSUME room \in Seq(Bytes), mqueue \in Seq(Posts), up \in Seq(Line)
  PROVE  Writing \in Seq(Bytes)
<1>1. Ok \in Seq(Bytes) /\ Err \in Seq(Bytes) /\ << >> \in Seq(Bytes)
  BY ServiceIsLine DEF Line
<1>2. ASSUME mqueue # << >>
      PROVE  Delivery(Head(mqueue)) \in Seq(Bytes)
  <2>1. Head(mqueue) \in Posts
    BY <1>2
  <2>. QED  BY <2>1, DeliveryLength
<1>3. Requested => Welcome \in Seq(Bytes)
  BY RequestType DEF Requested
<1>. QED  BY <1>1, <1>2, <1>3 DEF Writing

LEMMA InitTypes == Init => TypeOK
<1>. SUFFICES ASSUME Init PROVE TypeOK
  OBVIOUS
<1>1. << >> \in Seq(Line) /\ << >> \in Seq(Bytes)
  OBVIOUS
<1>2. msg \in Messages
  BY NoMessageType DEF Init
<1>3. /\ {up, down} \subseteq Seq(Seq(Bytes))
      /\ \A i \in 1..Len(up) : Len(up[i]) \in 1..MAX_LEN
      /\ \A i \in 1..Len(down) : Len(down[i]) \in 1..MAX_LEN
  BY <1>1, DownType DEF Init
<1>4. shown \in Seq(Said) /\ room \in Seq(Bytes) /\ mqueue \in Seq(Posts) /\ posted \in Seq(Posts)
  BY DEF Init
<1>. QED  BY <1>2, <1>3, <1>4 DEF Init, TypeOK, Said

LEMMA NextTypes == TypeOK /\ [Next]_vars => TypeOK'
<1>. SUFFICES ASSUME TypeOK, [Next]_vars PROVE TypeOK'
  OBVIOUS
<1>. DEFINE Typed(a, m, s, u, d, v, g, q, l) ==
       /\ a \in {"start", "login", "join", "loop", "gone"}
       /\ m \in Messages /\ s \in Seq(Said) /\ u \in Seq(Line) /\ d \in Seq(Line)
       /\ v \in {"login", "join", "member", "serve", "closed", "reset"}
       /\ g \in Seq(Bytes) /\ q \in Seq(Posts) /\ l \in Seq(Posts)
<1>1. Typed(at, msg, shown, up, down, server, room, mqueue, posted)
  BY DownType DEF TypeOK, Said
<1>. DEFINE Goal == /\ argv' = argv /\ overlong' \in BOOLEAN
                    /\ Typed(at', msg', shown', up', down', server', room', mqueue', posted')
<1>2. SUFFICES Goal
  BY DownType DEF TypeOK, Said
<1>3. argv \in Arguments /\ overlong \in BOOLEAN
  BY DEF TypeOK
<1>4. Ok \in Line /\ Err \in Line
  BY ServiceIsLine
<1>5. ASSUME down # << >>
      PROVE  Tail(down) \in Seq(Line) /\ Head(down) \in Seq(Bytes)
  BY <1>1, <1>5 DEF Line
<1>6. ASSUME up # << >>
      PROVE  Tail(up) \in Seq(Line) /\ Request \in Messages /\ Welcome \in Seq(Bytes)
  BY <1>1, <1>6, RequestType
<1>7. ASSUME mqueue # << >>
      PROVE  /\ Tail(mqueue) \in Seq(Posts) /\ Head(mqueue) \in Posts
             /\ down \o Pieces(Delivery(Head(mqueue)), MAX_LEN) \in Seq(Line)
  <2>1. Head(mqueue) \in Posts /\ Tail(mqueue) \in Seq(Posts)
    BY <1>1, <1>7
  <2>2. Pieces(Delivery(Head(mqueue)), MAX_LEN) \in Seq(Line)
    BY <1>1, <2>1, DeliveryLength, PiecesAreLines
  <2>. QED  BY <1>1, <2>1, <2>2
\* what the client sends
<1>26. ASSUME NEW w \in {"rlogin", "join"}, NEW d \in Seq(Bytes)
       PROVE  Pieces(Encode([tag |-> <<w>>, data |-> d]), MAX_LEN) \in Seq(Line)
  <2>1. w \in Bytes
    BY Symbols
  <2>2. Encode([tag |-> <<w>>, data |-> d]) \in Seq(Bytes)
    BY <2>1, EncodedSymbols
  <2>. QED  BY <2>2, PiecesAreLines
<1>8. CASE Login
  <2>1. argv.user \in Seq(Bytes)
    BY <1>3, ArgumentsAssumption
  <2>2. up' \in Seq(Line)
    <3>1. Pieces(Encode([tag |-> <<"rlogin">>, data |-> argv.user]), MAX_LEN) \in Seq(Line)
      BY <1>26, <2>1
    <3>. QED  BY <1>1, <1>8, <3>1 DEF Login
  <2>3. server' = "reset" \/ server' = server
    BY <1>8 DEF Login
  <2>. QED  BY <1>1, <1>3, <1>8, <2>2, <2>3 DEF Login, roomVars
<1>9. CASE LoginReply
  <2>. DEFINE e == Pieces(Encode([tag |-> <<"join">>, data |-> argv.room]), MAX_LEN)
  <2>1. up' = up \/ up' = up \o e
    BY <1>9 DEF LoginReply
  <2>2. up' \in Seq(Line)
    <3>1. argv.room \in Seq(Bytes)
      BY <1>3, ArgumentsAssumption
    <3>2. e \in Seq(Line) /\ up \in Seq(Line)
      BY <1>1, <1>26, <3>1
    <3>. HIDE DEF e, Typed
    <3>3. up \o e \in Seq(Line)
      BY <3>2, ConcatProperties
    <3>. QED  BY <2>1, <3>2, <3>3
  <2>3. at' \in {"join", "gone"} /\ server' \in {server, "reset"}
    BY <1>9 DEF LoginReply
  <2>. QED  BY <1>1, <1>3, <1>5, <1>9, <2>2, <2>3 DEF LoginReply, roomVars
<1>10. CASE JoinReply
  BY <1>1, <1>3, <1>5, <1>10 DEF JoinReply, roomVars
<1>11. CASE ReplyLost
  BY <1>1, <1>3, <1>11 DEF ReplyLost, roomVars
<1>12. CASE NextLine
  <2>1. msg' \in Messages /\ Show(msg')
    BY <1>1, <1>5, <1>12, ReceivedType DEF NextLine
  <2>2. shown' \in Seq(Said)
    BY <1>1, <2>1, ShowType
  <2>. QED  BY <1>1, <1>3, <1>5, <1>12, <2>1, <2>2 DEF NextLine, roomVars
<1>13. CASE NextLineLost
  <2>1. <<"err">> \in Seq(Bytes)
    BY Symbols, OneByte
  <2>2. msg' \in Messages /\ Show(msg')
    BY <1>1, <1>13, <2>1 DEF NextLineLost, Messages
  <2>3. shown' \in Seq(Said)
    BY <1>1, <2>2, ShowType
  <2>. QED  BY <1>1, <1>3, <1>13, <2>2, <2>3 DEF NextLineLost, roomVars
<1>14. CASE Killed
  BY <1>1, <1>3, <1>14 DEF Killed, roomVars
<1>15. CASE ServerLogin
  <2>1. Pieces(Welcome, MAX_LEN) \in Seq(Line) /\ Tail(up) \in Seq(Line)
    BY <1>6, <1>15, PiecesAreLines DEF ServerLogin
  <2>2. down' \in Seq(Line)
    BY <1>1, <1>15, <2>1 DEF ServerLogin
  <2>. QED  BY <1>1, <1>3, <1>15, <2>1, <2>2 DEF ServerLogin, clientVars, roomVars
<1>16. CASE ServerJoin
  <2>1. Request.data \in Seq(Bytes)
    BY <1>6, <1>16 DEF ServerJoin, Messages
  <2>. QED  BY <1>1, <1>3, <1>6, <1>16, <2>1 DEF ServerJoin, clientVars
<1>17. CASE ServerRefuses
  BY <1>1, <1>3, <1>4, <1>6, <1>17 DEF ServerRefuses, EndThread, clientVars, roomVars
<1>18. CASE ServerConfirms
  BY <1>1, <1>3, <1>4, <1>18 DEF ServerConfirms, clientVars, roomVars
<1>19. CASE Deliver
  BY <1>1, <1>3, <1>7, <1>19 DEF Deliver, clientVars
<1>20. CASE SendFails
  BY <1>1, <1>3, <1>7, <1>20 DEF SendFails, EndThread, clientVars
<1>21. CASE ServerEOF
  BY <1>1, <1>3, <1>21 DEF ServerEOF, clientVars, roomVars
<1>22. CASE DequeueTimeout
  BY <1>1, <1>3, <1>4, <1>22 DEF DequeueTimeout, clientVars, roomVars
<1>23. CASE ServerDies
  <2>1. PICK k \in 0..Len(Writing) : down' = down \o Pieces(SubSeq(Writing, 1, k), MAX_LEN)
    BY <1>23 DEF ServerDies
  <2>2. SubSeq(Writing, 1, k) \in Seq(Bytes)
    BY <1>1, WritingType, CutTypes
  <2>3. Pieces(SubSeq(Writing, 1, k), MAX_LEN) \in Seq(Line)
    BY <2>2, PiecesAreLines
  <2>4. down' \in Seq(Line)
    BY <1>1, <2>1, <2>3
  <2>5. up' \in Seq(Line)
    BY <1>1, <1>6, <1>23 DEF ServerDies, Requested
  <2>. QED  BY <1>1, <1>3, <1>23, <2>4, <2>5 DEF ServerDies, clientVars, roomVars
<1>24. ASSUME NEW p \in Posts, Post(p)
       PROVE  Goal
  BY <1>1, <1>3, <1>24 DEF Post, clientVars
<1>25. CASE UNCHANGED vars
  BY <1>1, <1>3, <1>25 DEF vars, clientVars, roomVars
<1>. QED
  BY <1>8, <1>9, <1>10, <1>11, <1>12, <1>13, <1>14, <1>15, <1>16, <1>17, <1>18,
     <1>19, <1>20, <1>21, <1>22, <1>23, <1>24, <1>25
     DEF Next, Client, Serve, Finished, Spinning

(***************************************************************************)
(* Whatever arrives, cut or not, the client's message, what it has printed *)
(* and what is under way keep their types; no line is longer than MAX_LEN. *)
(***************************************************************************)
THEOREM TypeCorrect == Spec => []TypeOK
BY InitTypes, NextTypes, PTL DEF Spec

-------------------------------------------------------------------------------
(***************************************************************************)
(* How the session begins: nothing is posted before the user is a member,  *)
(* and nothing printed; and while the server waits for the join, what is   *)
(* under way are the lines of its welcome, at most two, which the client   *)
(* takes for replies.                                                      *)
(***************************************************************************)
Handshake ==
  /\ server \in {"login", "join"} => shown = << >> /\ posted = << >> /\ mqueue = << >>
  /\ at = "start" => up = << >> /\ server \in {"login", "closed", "reset"}
  /\ server = "login" => down = << >> /\ at \in {"start", "login", "gone"}
  /\ server = "join" => Len(down) <= Skip
  /\ Inside => isValidRoomName(room)

LEMMA InitHandshake == Init => Handshake
BY DEF Init, Handshake, Inside

LEMMA NextHandshake == TypeOK /\ Handshake /\ [Next]_vars => Handshake'
<1>. SUFFICES ASSUME TypeOK, Handshake, [Next]_vars PROVE Handshake'
  OBVIOUS
<1>1. /\ up \in Seq(Line) /\ down \in Seq(Line) /\ Len(down) \in Nat
      /\ at \in {"start", "login", "join", "loop", "gone"}
      /\ server \in {"login", "join", "member", "serve", "closed", "reset"}
  BY DownType, LenProperties DEF TypeOK
<1>2. ASSUME down # << >>
      PROVE  Len(Tail(down)) = Len(down) - 1 /\ Len(down) >= 1
  BY <1>1, <1>2
<1>3. Skip \in 0..2 /\ Skip' \in 0..2
  BY DEF Skip
<1>4. CASE Login
  BY <1>1, <1>4 DEF Login, Over, Handshake, Inside, roomVars
<1>5. CASE LoginReply
  <2>1. /\ at = "login" /\ at' \in {"join", "gone"} /\ down # << >> /\ down' = Tail(down)
        /\ server' \in {server, "reset"} /\ UNCHANGED <<room, shown, mqueue, posted>>
    BY <1>5 DEF LoginReply, roomVars
  <2>2. Skip = 2 /\ Skip' \in {1, 2}
    BY <2>1 DEF Skip
  <2>3. server = "join" => Len(down') <= Skip'
    BY <1>1, <1>2, <2>1, <2>2 DEF Handshake
  <2>. QED  BY <1>1, <2>1, <2>3 DEF Handshake, Inside
<1>6. CASE JoinReply
  <2>1. /\ at = "join" /\ at' \in {"loop", "gone"} /\ down # << >> /\ down' = Tail(down)
        /\ UNCHANGED <<server, room, shown, mqueue, posted>>
    BY <1>6 DEF JoinReply, roomVars
  <2>2. Skip = 1 /\ Skip' \in {0, 2}
    BY <2>1 DEF Skip
  <2>3. server = "join" => Len(down') <= Skip'
    BY <1>1, <1>2, <2>1, <2>2 DEF Handshake
  <2>. QED  BY <1>1, <2>1, <2>3 DEF Handshake, Inside
<1>7. CASE ReplyLost
  BY <1>1, <1>7 DEF ReplyLost, ConnectionLost, Handshake, Inside, roomVars
<1>8. CASE NextLine
  <2>1. /\ at = "loop" /\ at' = at /\ down # << >>
        /\ UNCHANGED <<server, room, mqueue, posted>>
    BY <1>8 DEF NextLine, roomVars
  <2>2. Skip = 0
    BY <2>1 DEF Skip
  <2>3. server \notin {"login", "join"}
    BY <1>1, <1>2, <2>1, <2>2 DEF Handshake
  <2>. QED  BY <2>1, <2>3 DEF Handshake, Inside
<1>9. CASE NextLineLost
  BY <1>9 DEF NextLineLost, ConnectionLost, Handshake, Inside, roomVars
<1>10. CASE Killed
  <2>1. at' = "gone" /\ UNCHANGED <<down, server, room, shown, mqueue, posted>>
    BY <1>10 DEF Killed, roomVars
  <2>2. Skip' = 2
    BY <2>1 DEF Skip
  <2>3. server = "join" => Len(down') <= Skip'
    BY <1>1, <1>3, <2>1, <2>2 DEF Handshake
  <2>. QED  BY <2>1, <2>3 DEF Handshake, Inside
<1>11. CASE ServerLogin
  <2>1. /\ server = "login" /\ server' = "join" /\ up # << >>
        /\ down' = down \o Pieces(Welcome, MAX_LEN)
        /\ UNCHANGED <<at, room, shown, mqueue, posted>>
    BY <1>11 DEF ServerLogin, clientVars, roomVars
  <2>2. down = << >> /\ at \in {"login", "gone"}
    BY <2>1 DEF Handshake
  <2>. DEFINE w == Pieces(Welcome, MAX_LEN)
  <2>3. w \in Seq(Line) /\ Len(w) <= 2
    <3>1. Welcome \in Seq(Bytes) /\ Len(Welcome) <= 2 * MAX_LEN
      BY <1>1, <2>1, RequestType
    <3>2. MAX_LEN \in Nat \ {0}
      BY SizesAssumption
    <3>. QED  BY <3>1, <3>2, PiecesAreLines, PiecesOfTwo
  <2>. HIDE DEF w
  <2>4. down' = w
    BY <2>1, <2>2, <2>3 DEF w
  <2>5. Skip' = 2
    BY <2>1, <2>2 DEF Skip
  <2>. QED  BY <2>1, <2>2, <2>3, <2>4, <2>5 DEF Handshake, Inside
<1>12. CASE ServerJoin
  BY <1>12 DEF ServerJoin, Joinable, Handshake, Inside, clientVars
<1>13. CASE ServerRefuses
  BY <1>13 DEF ServerRefuses, EndThread, Handshake, Inside, clientVars, roomVars
<1>14. CASE ServerConfirms
  BY <1>14 DEF ServerConfirms, Handshake, Inside, clientVars, roomVars
<1>15. CASE Deliver
  BY <1>15 DEF Deliver, Handshake, Inside, clientVars
<1>16. CASE SendFails
  BY <1>16 DEF SendFails, EndThread, Handshake, Inside, clientVars
<1>17. CASE ServerEOF
  BY <1>17 DEF ServerEOF, Handshake, Inside, clientVars, roomVars
<1>18. CASE DequeueTimeout
  BY <1>18 DEF DequeueTimeout, Handshake, Inside, clientVars, roomVars
<1>19. CASE ServerDies
  BY <1>19 DEF ServerDies, Requested, Handshake, Inside, clientVars, roomVars
<1>20. ASSUME NEW p \in Posts, Post(p)
       PROVE  Handshake'
  BY <1>20 DEF Post, Handshake, Inside, clientVars
<1>21. CASE UNCHANGED vars
  <2>1. UNCHANGED <<at, up, down, server, room, shown, mqueue, posted>>
    BY <1>21 DEF vars, clientVars, roomVars
  <2>2. Skip' = Skip
    BY <2>1 DEF Skip
  <2>. QED  BY <2>1, <2>2 DEF Handshake, Inside
<1>. QED
  BY <1>4, <1>5, <1>6, <1>7, <1>8, <1>9, <1>10, <1>11, <1>12, <1>13, <1>14, <1>15,
     <1>16, <1>17, <1>18, <1>19, <1>20, <1>21
     DEF Next, Client, Serve, Finished, Spinning

\* a delivery that fits reaches the client as one line
LEMMA DeliveryInOneLine ==
  ASSUME room \in Seq(Bytes), NEW p \in Posts, Len(Delivery(p)) <= MAX_LEN
  PROVE  Pieces(Delivery(p), MAX_LEN) = <<Delivery(p)>>
<1>1. /\ Delivery(p) \in Seq(Bytes) /\ Len(Delivery(p)) = Len(Payload(p)) + 3
      /\ Payload(p) \in Seq(Bytes) /\ MAX_LEN \in Nat
  BY DeliveryLength, PayloadText, SizesAssumption
<1>2. Len(Payload(p)) \in Nat
  BY <1>1, LenProperties
<1>. DEFINE line == Delivery(p)
            n == Len(Payload(p))
<1>. HIDE DEF line, n
<1>3. line \in Seq(Bytes) /\ Len(line) = n + 3 /\ n \in Nat /\ Len(line) <= MAX_LEN
  BY <1>1, <1>2 DEF line, n
<1>4. Len(line) \in 1..MAX_LEN
  BY <1>1, <1>3
<1>5. Pieces(line, MAX_LEN) = <<line>>
  BY <1>1, <1>3, <1>4, PiecesOfShort
<1>. QED  BY <1>5 DEF line

LEMMA DeliverFits ==
  ASSUME TypeOK, Deliver, ~overlong'
  PROVE  /\ ~overlong /\ Head(mqueue) \in Posts
         /\ down' = Append(down, Delivery(Head(mqueue)))
<1>. DEFINE p == Head(mqueue)
<1>1. mqueue \in Seq(Posts) /\ mqueue # << >> /\ room \in Seq(Bytes)
  BY DEF TypeOK, Deliver
<1>2. p \in Posts
  BY <1>1
<1>3. ~overlong /\ ~(Len(Delivery(p)) > MAX_LEN)
  BY DEF Deliver
<1>4. down \in Seq(Seq(Bytes)) /\ MAX_LEN \in Nat
  BY SizesAssumption DEF TypeOK
<1>5. Delivery(p) \in Seq(Bytes)
  BY <1>1, <1>2, DeliveryLength
<1>6. down' = down \o Pieces(Delivery(p), MAX_LEN)
  BY DEF Deliver
<1>. HIDE DEF p
<1>7. Len(Delivery(p)) \in Nat
  BY <1>5, LenProperties
<1>8. Pieces(Delivery(p), MAX_LEN) = <<Delivery(p)>>
  BY <1>1, <1>2, <1>3, <1>4, <1>7, DeliveryInOneLine
<1>9. down' = down \o <<Delivery(p)>>
  BY <1>6, <1>8
<1>. DEFINE x == Delivery(p)
<1>. HIDE DEF x
<1>10. x \in Seq(Bytes) /\ down' = down \o <<x>>
  BY <1>5, <1>9 DEF x
<1>11. down' = Append(down, x)
  BY <1>4, <1>10
<1>. QED  BY <1>2, <1>3, <1>11 DEF p, x

-------------------------------------------------------------------------------
(***************************************************************************)
(* The lines under way: Brings(n, d, q, l, k) says that the lines d, with  *)
(* the queue q behind them, bring the messages l, those up to n[0]         *)
(* excepted; the first k lines may be replies with any text.  Each of the  *)
(* moves of the session keeps such an n, or shifts it.                     *)
(***************************************************************************)
Brought(n, d, l, k, i) ==
  \/ n[i] = n[i - 1] /\ (d[i] \in {Ok, Err} \/ i <= k)
  \/ n[i] = n[i - 1] + 1 /\ d[i] = Delivery(l[n[i]])

Brings(n, d, q, l, k) ==
  /\ n \in [0..Len(d) -> 0..Len(l)]
  /\ \A i \in 1..Len(d) : Brought(n, d, l, k, i)
  /\ q = SubSeq(l, n[Len(d)] + 1, Len(l))

LEMMA BringsNothing ==
  ASSUME NEW d \in Seq(Line), NEW k \in Nat, Len(d) <= k
  PROVE  \E n : Brings(n, d, << >>, << >>, k) /\ n[0] = 0
<1>. DEFINE n == [i \in 0..Len(d) |-> 0]
<1>1. Len(d) \in Nat /\ Len(<< >>) = 0
  BY LenProperties
<1>2. \A i \in 1..Len(d) : i <= k /\ i \in 0..Len(d) /\ i - 1 \in 0..Len(d)
  BY <1>1
<1>3. \A i \in 1..Len(d) : Brought(n, d, << >>, k, i)
  BY <1>1, <1>2 DEF Brought
<1>4. SubSeq(<< >>, 0 + 1, 0) = << >>
  OBVIOUS
<1>5. n \in [0..Len(d) -> 0..0] /\ n[Len(d)] = 0 /\ n[0] = 0
  BY <1>1
<1>. HIDE DEF n
<1>. QED  BY <1>1, <1>3, <1>4, <1>5 DEF Brings

\* a line is taken away, and the others move up
LEMMA BringsRest ==
  ASSUME NEW d \in Seq(Line), d # << >>, NEW l \in Seq(Posts), NEW q, NEW n,
         NEW c \in Nat, Brings(n, d, q, l, c), NEW c1 \in Nat, c <= c1 + 1
  PROVE  \E n1 : Brings(n1, Tail(d), q, l, c1) /\ n1[0] = n[1]
<1>. DEFINE k == Len(d)
            t == Tail(d)
            n1 == [i \in 0..k - 1 |-> n[i + 1]]
<1>1. k \in Nat \ {0} /\ Len(t) = k - 1 /\ \A i \in 1..k - 1 : t[i] = d[i + 1]
  OBVIOUS
<1>2. /\ n \in [0..k -> 0..Len(l)]
      /\ \A i \in 1..k : Brought(n, d, l, c, i)
      /\ q = SubSeq(l, n[k] + 1, Len(l))
  BY DEF Brings
<1>. HIDE DEF k, t
<1>3. n1 \in [0..k - 1 -> 0..Len(l)] /\ n1[k - 1] = n[k] /\ n1[0] = n[1]
  <2>1. \A i \in 0..k - 1 : i + 1 \in 0..k
    BY <1>1
  <2>2. k - 1 \in 0..k - 1 /\ k - 1 + 1 = k /\ 0 \in 0..k - 1
    BY <1>1
  <2>. QED  BY <1>2, <2>1, <2>2
<1>4. ASSUME NEW i \in 1..k - 1
      PROVE  Brought(n1, t, l, c1, i)
  <2>1. i + 1 \in 1..k /\ i \in 0..k - 1 /\ i - 1 \in 0..k - 1 /\ i - 1 + 1 = i /\ i + 1 - 1 = i
    BY <1>1
  <2>2. n1[i] = n[i + 1] /\ n1[i - 1] = n[i] /\ t[i] = d[i + 1]
    BY <1>1, <2>1
  <2>3. Brought(n, d, l, c, i + 1)
    BY <1>2, <2>1
  <2>4. i + 1 <= c => i <= c1
    OBVIOUS
  <2>. HIDE DEF n1
  <2>. QED  BY <2>1, <2>2, <2>3, <2>4 DEF Brought
<1>. HIDE DEF n1
<1>. QED  BY <1>1, <1>2, <1>3, <1>4 DEF Brings, t

\* one more line: a reply, or the first message of the queue
LEMMA BringsMore ==
  ASSUME NEW d \in Seq(Line), NEW l \in Seq(Posts), NEW q, NEW n,
         NEW c \in Nat, Brings(n, d, q, l, c), NEW x \in Line, NEW q1,
         \/ x \in {Ok, Err} /\ q1 = q
         \/ q # << >> /\ x = Delivery(Head(q)) /\ q1 = Tail(q)
  PROVE  \E n1 : Brings(n1, Append(d, x), q1, l, c) /\ n1[0] = n[0]
<1>. DEFINE k == Len(d)
            e == Append(d, x)
            m == n[k]
            m1 == IF q1 = q THEN m ELSE m + 1
            n1 == [i \in 0..k + 1 |-> IF i = k + 1 THEN m1 ELSE n[i]]
            L == Len(l)
<1>1. k \in Nat /\ Len(e) = k + 1 /\ (\A i \in 1..k : e[i] = d[i]) /\ e[k + 1] = x /\ L \in Nat
  OBVIOUS
<1>2. /\ n \in [0..k -> 0..L]
      /\ \A i \in 1..k : Brought(n, d, l, c, i)
      /\ q = SubSeq(l, m + 1, L)
  BY DEF Brings
<1>3. m \in 0..L
  BY <1>1, <1>2
<1>. HIDE DEF k, e, m
<1>4. CASE q1 = q /\ x \in {Ok, Err}
  <2>1. m1 = m
    BY <1>4
  <2>2. n1 \in [0..k + 1 -> 0..L] /\ n1[k + 1] = m /\ n1[0] = n[0] /\ \A i \in 0..k : n1[i] = n[i]
    BY <1>1, <1>2, <1>3, <2>1
  <2>. HIDE DEF n1, m1
  <2>3. ASSUME NEW i \in 1..k + 1
        PROVE  Brought(n1, e, l, c, i)
    <3>1. CASE i = k + 1
      <4>1. k + 1 - 1 = k /\ n1[k] = m
        BY <1>1, <2>2 DEF m
      <4>. QED  BY <1>1, <1>4, <2>2, <3>1, <4>1 DEF Brought
    <3>2. CASE i \in 1..k
      <4>1. i \in 0..k /\ i - 1 \in 0..k
        BY <1>1, <3>2
      <4>. QED  BY <1>1, <1>2, <2>2, <3>2, <4>1 DEF Brought
    <3>. QED  BY <1>1, <3>1, <3>2
  <2>. QED  BY <1>1, <1>2, <1>4, <2>2, <2>3 DEF Brings, e
<1>5. CASE q # << >> /\ x = Delivery(Head(q)) /\ q1 = Tail(q)
  <2>1. m < L
    <3>1. ASSUME ~(m < L)
          PROVE  SubSeq(l, m + 1, L) = << >>
      <4>1. m = L /\ L + 1 > L
        BY <1>1, <1>3, <3>1
      <4>. QED  BY <1>1, <4>1
    <3>. QED  BY <1>2, <1>5, <3>1
  <2>2. Head(q) = l[m + 1] /\ Tail(q) = SubSeq(l, m + 2, L)
    <3>1. /\ q \in Seq(Posts) /\ Len(q) = L - m
          /\ \A i \in 1..L - m : q[i] = l[m + i]
      BY <1>1, <1>2, <1>3, <2>1, CutTypes
    <3>2. /\ SubSeq(l, m + 2, L) \in Seq(Posts) /\ Len(SubSeq(l, m + 2, L)) = L - (m + 1)
          /\ \A i \in 1..L - (m + 1) : SubSeq(l, m + 2, L)[i] = l[m + 1 + i]
      <4>1. m + 1 \in 0..L /\ m + 1 + 1 = m + 2
        BY <1>1, <1>3, <2>1
      <4>. QED  BY <1>1, <4>1, CutTypes
    <3>3. Tail(q) \in Seq(Posts) /\ Len(Tail(q)) = L - m - 1 /\ \A i \in 1..L - m - 1 : Tail(q)[i] = q[i + 1]
      BY <1>1, <1>3, <1>5, <2>1, <3>1
    <3>4. \A i \in 1..L - m - 1 : Tail(q)[i] = SubSeq(l, m + 2, L)[i]
      BY <1>1, <1>3, <2>1, <3>1, <3>2, <3>3
    <3>5. Tail(q) = SubSeq(l, m + 2, L)
      <4>1. Len(Tail(q)) = L - m - 1 /\ Len(SubSeq(l, m + 2, L)) = L - m - 1
        BY <1>1, <1>3, <3>2, <3>3
      <4>. QED  BY <3>2, <3>3, <3>4, <4>1, SeqEqual
    <3>6. Head(q) = l[m + 1]
      BY <1>1, <1>3, <2>1, <3>1
    <3>. QED  BY <3>5, <3>6
  <2>3. q1 # q
    <3>1. q \in Seq(Posts)
      BY <1>1, <1>2, <1>3, CutTypes
    <3>. QED  BY <1>5, <3>1
  <2>4. m1 = m + 1 /\ m + 1 \in 0..L
    BY <1>1, <1>3, <2>1, <2>3
  <2>5. n1 \in [0..k + 1 -> 0..L] /\ n1[k + 1] = m + 1 /\ n1[0] = n[0] /\ \A i \in 0..k : n1[i] = n[i]
    BY <1>1, <1>2, <1>3, <2>4
  <2>. HIDE DEF n1, m1
  <2>6. ASSUME NEW i \in 1..k + 1
        PROVE  Brought(n1, e, l, c, i)
    <3>1. CASE i = k + 1
      <4>1. k + 1 - 1 = k /\ k \in 0..k
        BY <1>1
      <4>2. n1[k] = m
        BY <2>5, <4>1 DEF m
      <4>. QED  BY <1>1, <1>5, <2>2, <2>5, <3>1, <4>1, <4>2 DEF Brought
    <3>2. CASE i \in 1..k
      <4>1. i \in 0..k /\ i - 1 \in 0..k
        BY <1>1, <3>2
      <4>. QED  BY <1>1, <1>2, <2>5, <3>2, <4>1 DEF Brought
    <3>. QED  BY <1>1, <3>1, <3>2
  <2>7. m + 1 + 1 = m + 2
    BY <1>3
  <2>. QED  BY <1>1, <1>2, <1>5, <2>2, <2>5, <2>6, <2>7 DEF Brings, e
<1>. QED  BY <1>4, <1>5

\* a message is posted: it waits in the queue
LEMMA BringsPost ==
  ASSUME NEW d \in Seq(Line), NEW l \in Seq(Posts), NEW q, NEW n,
         NEW c \in Nat, Brings(n, d, q, l, c), NEW p \in Posts
  PROVE  Brings(n, d, Append(q, p), Append(l, p), c)
<1>. DEFINE k == Len(d)
            L == Len(l)
            l1 == Append(l, p)
            m == n[k]
<1>1. /\ k \in Nat /\ L \in Nat /\ l1 \in Seq(Posts) /\ Len(l1) = L + 1 /\ l1[L + 1] = p
      /\ \A i \in 1..L : l1[i] = l[i]
  OBVIOUS
<1>2. /\ n \in [0..k -> 0..L]
      /\ \A i \in 1..k : Brought(n, d, l, c, i)
      /\ q = SubSeq(l, m + 1, L)
  BY DEF Brings
<1>3. m \in 0..L
  BY <1>1, <1>2
<1>. HIDE DEF k, m, l1
<1>4. ASSUME NEW i \in 1..k
      PROVE  Brought(n, d, l1, c, i)
  <2>1. i \in 0..k /\ i - 1 \in 0..k
    BY <1>1
  <2>2. n[i] \in 0..L /\ n[i - 1] \in 0..L
    BY <1>2, <2>1
  <2>3. n[i] = n[i - 1] + 1 => l1[n[i]] = l[n[i]]
    BY <1>1, <2>2
  <2>. QED  BY <1>2, <2>3 DEF Brought
<1>5. Append(q, p) = SubSeq(l1, m + 1, L + 1)
  <2>1. /\ q \in Seq(Posts) /\ Len(q) = L - m
        /\ \A i \in 1..L - m : q[i] = l[m + i]
    <3>1. q \in Seq(Posts) /\ Len(q) = L - m
      BY <1>2, <1>3, CutTypes
    <3>2. \A i \in 1..L - m : q[i] = l[m + i]
      BY <1>1, <1>2, <1>3
    <3>. QED  BY <3>1, <3>2
  <2>2. /\ Append(q, p) \in Seq(Posts) /\ Len(Append(q, p)) = L - m + 1
        /\ \A i \in 1..L - m : Append(q, p)[i] = l[m + i]
        /\ Append(q, p)[L - m + 1] = p
    BY <1>1, <1>3, <2>1
  <2>3. /\ SubSeq(l1, m + 1, L + 1) \in Seq(Posts) /\ Len(SubSeq(l1, m + 1, L + 1)) = L + 1 - m
        /\ \A i \in 1..L + 1 - m : SubSeq(l1, m + 1, L + 1)[i] = l1[m + i]
    <3>1. m \in 0..L + 1
      BY <1>1, <1>3
    <3>. QED  BY <1>1, <3>1, CutTypes
  <2>4. \A i \in 1..L - m + 1 : Append(q, p)[i] = SubSeq(l1, m + 1, L + 1)[i]
    <3>. SUFFICES ASSUME NEW i \in 1..L - m + 1 PROVE Append(q, p)[i] = SubSeq(l1, m + 1, L + 1)[i]
      OBVIOUS
    <3>1. CASE i \in 1..L - m
      <4>1. m + i \in 1..L /\ i \in 1..L + 1 - m
        BY <1>1, <1>3, <3>1
      <4>. QED  BY <1>1, <2>2, <2>3, <3>1, <4>1
    <3>2. CASE i = L - m + 1
      <4>1. m + i = L + 1 /\ i \in 1..L + 1 - m
        BY <1>1, <1>3, <3>2
      <4>. QED  BY <1>1, <2>2, <2>3, <3>2, <4>1
    <3>3. i \in 1..L - m \/ i = L - m + 1
      <4>. HIDE DEF L
      <4>. QED  BY <1>1, <1>3
    <3>. QED  BY <3>1, <3>2, <3>3
  <2>5. L - m + 1 = L + 1 - m
    BY <1>1, <1>3
  <2>. QED  BY <2>2, <2>3, <2>4, <2>5, SeqEqual
<1>6. n \in [0..k -> 0..L + 1]
  <2>1. 0..L \subseteq 0..L + 1
    BY <1>1
  <2>. QED  BY <1>2, <2>1
<1>. QED  BY <1>1, <1>4, <1>5, <1>6 DEF Brings, k, m, l1

(***************************************************************************)
(* What the loop prints of a line: nothing of a reply, and of a delivery   *)
(* the message it was made of, if that is printable.                       *)
(***************************************************************************)
LEMMA ServiceShown ==
  ASSUME msg \in Messages, NEW x \in {Ok, Err}, msg' = Received(msg, x), Show(msg')
  PROVE  shown' = shown
<1>1. PICK tag : msg' = [tag |-> tag, data |-> <<"X">>]
  BY ReplyReceived
<1>2. Len(split_payload(msg', MAX_LEN)) # 3
  BY <1>1, ReplyHasNoFields
<1>. QED  BY <1>2 DEF Show

LEMMA PostShown ==
  ASSUME msg \in Messages, room \in Seq(Bytes), isValidRoomName(room),
         NEW p \in Posts, Len(Delivery(p)) <= MAX_LEN,
         msg' = Received(msg, Delivery(p)), Show(msg')
  PROVE  shown' = IF Printable(p) THEN Append(shown, p) ELSE shown
<1>1. msg' = [tag |-> <<"delivery">>, data |-> Payload(p)]
  BY DeliveryReceived
<1>2. split_payload(msg', MAX_LEN) = Fields3(p)
  BY <1>1 DEF Fields3
<1>3. /\ Printable(p) =>
           Len(Fields3(p)) = 3 /\ Fields3(p)[2] = p.sender /\ Fields3(p)[3] = p.text
      /\ ~Printable(p) => Len(Fields3(p)) # 3
  BY DeliveryShown
<1>4. p = [sender |-> p.sender, text |-> p.text]
  BY PostsAssumption
<1>. QED  BY <1>2, <1>3, <1>4 DEF Show

\* of the first k messages of l, those the client can print
Kept(l, k) == {i \in 1..k : Printable(l[i])}

\* what is under way and what has been printed fit together
Ordered(d, q, l, r, k) == \E n : Brings(n, d, q, l, k) /\ Lists(r, l, Kept(l, n[0]))

LEMMA OrderedIs ==
  ShownInOrder <=>
    (Inside /\ at \in {"login", "join", "loop"} /\ ~overlong
       => Ordered(down, mqueue, posted, shown, Skip))
<1>1. ASSUME NEW n
      PROVE  /\ PrintableTo(n[0]) = Kept(posted, n[0])
             /\ Brings(n, down, mqueue, posted, Skip) <=>
                  n \in [0..Len(down) -> 0..Len(posted)] /\ Bring(n)
  BY DEF PrintableTo, Kept, Brings, Brought, Bring
<1>2. (\E n : Brings(n, down, mqueue, posted, Skip) /\ Lists(shown, posted, Kept(posted, n[0]))) <=>
        \E n \in [0..Len(down) -> 0..Len(posted)] :
          Bring(n) /\ Lists(shown, posted, PrintableTo(n[0]))
  BY <1>1, Zenon
<1>. QED  BY <1>2, Zenon DEF ShownInOrder, Ordered

LEMMA SkipType == Skip \in Nat
BY DEF Skip

\* once the user is in its room, it stays there
LEMMA RoomKept == [Next]_vars /\ ~ServerJoin => room' = room
BY DEF Next, Client, Serve, Login, LoginReply, JoinReply, ReplyLost, NextLine, NextLineLost,
       Killed, ServerLogin, ServerRefuses, ServerConfirms, Deliver, SendFails,
       ServerEOF, DequeueTimeout, ServerDies, Post, Finished, Spinning, vars, clientVars, roomVars

\* the client reads a line: the message it may be is printed, if it can be
LEMMA OrderedNext ==
  ASSUME TypeOK, isValidRoomName(room), Ordered(down, mqueue, posted, shown, 0),
         down # << >>, msg' = Received(msg, Head(down)), Show(msg')
  PROVE  Ordered(Tail(down), mqueue, posted, shown', 0)
<1>1. /\ down \in Seq(Line) /\ posted \in Seq(Posts) /\ shown \in Seq(Said) /\ msg \in Messages
      /\ room \in Seq(Bytes)
  BY DownType DEF TypeOK, Said
<1>2. PICK n : Brings(n, down, mqueue, posted, 0) /\ Lists(shown, posted, Kept(posted, n[0]))
  BY DEF Ordered
<1>3. PICK n1 : Brings(n1, Tail(down), mqueue, posted, 0) /\ n1[0] = n[1]
  <2>1. 0 \in Nat /\ 0 <= 0 + 1
    OBVIOUS
  <2>. QED  BY <1>1, <1>2, <2>1, BringsRest
<1>4. Head(down) = down[1] /\ down[1] \in Line /\ 1 \in 1..Len(down)
  BY <1>1
<1>5. SUFFICES Lists(shown', posted, Kept(posted, n[1]))
  BY <1>3 DEF Ordered
<1>6. /\ n[0] \in 0..Len(posted) /\ n[1] \in 0..Len(posted)
      /\ Brought(n, down, posted, 0, 1)
  <2>1. 0 \in 0..Len(down) /\ 1 \in 0..Len(down)
    BY <1>1, <1>4
  <2>. QED  BY <1>2, <1>4, <2>1 DEF Brings
<1>7. 1 - 1 = 0 /\ ~(1 <= 0)
  OBVIOUS
<1>8. CASE n[1] = n[0] /\ down[1] \in {Ok, Err}
  <2>1. shown' = shown
    BY <1>1, <1>4, <1>8, ServiceShown
  <2>. QED  BY <1>2, <1>8, <2>1
<1>9. CASE n[1] = n[0] + 1 /\ down[1] = Delivery(posted[n[1]])
  <2>. DEFINE k == n[1]
              p == posted[k]
              D == Kept(posted, n[0])
  <2>1. k \in 1..Len(posted) /\ k \in Nat
    BY <1>1, <1>6, <1>9
  <2>2. p \in Posts
    BY <1>1, <2>1
  <2>3. p \in Said
    BY <2>2, PostsAssumption DEF Said
  <2>. HIDE DEF p
  <2>4. Len(Delivery(p)) <= MAX_LEN
    BY <1>4, <1>9, SizesAssumption DEF Line, p
  <2>5. msg' = Received(msg, Delivery(p))
    BY <1>4, <1>9 DEF p
  <2>6. shown' = IF Printable(p) THEN Append(shown, p) ELSE shown
    BY <1>1, <2>2, <2>4, <2>5, PostShown
  <2>7. 1..k = (1..n[0]) \cup {k} /\ k \notin 1..n[0] /\ n[0] \in Nat
    BY <1>6, <1>9, <2>1
  <2>8. CASE Printable(p)
    <3>1. Kept(posted, k) = D \cup {k}
      BY <2>7, <2>8 DEF Kept, p
    <3>2. \A i \in D : i \in 1..k /\ i # k
      BY <2>7 DEF Kept
    <3>3. Lists(shown, posted, D)
      BY <1>2
    <3>. HIDE DEF D, k
    <3>4. posted[k] \in Said /\ p = posted[k]
      BY <2>3 DEF p
    <3>5. Lists(Append(shown, posted[k]), posted, D \cup {k})
      BY <1>1, <2>1, <3>2, <3>3, <3>4, ListsGrows
    <3>6. Lists(shown', posted, Kept(posted, k))
      BY <2>6, <2>8, <3>1, <3>4, <3>5
    <3>. QED  BY <3>6 DEF k
  <2>9. CASE ~Printable(p)
    <3>1. Kept(posted, k) = D
      BY <2>7, <2>9 DEF Kept, p
    <3>. QED  BY <1>2, <2>6, <2>9, <3>1
  <2>. QED  BY <2>8, <2>9
<1>. QED  BY <1>6, <1>7, <1>8, <1>9 DEF Brought

\* the client takes a line for a good reply: it is no message
LEMMA OrderedReply ==
  ASSUME TypeOK, NEW c \in Nat, Ordered(down, mqueue, posted, shown, c), down # << >>, SaysOk,
         NEW c1 \in Nat, c <= c1 + 1
  PROVE  Ordered(Tail(down), mqueue, posted, shown, c1)
<1>1. /\ down \in Seq(Line) /\ posted \in Seq(Posts) /\ room \in Seq(Bytes)
  BY DownType DEF TypeOK
<1>2. PICK n : Brings(n, down, mqueue, posted, c) /\ Lists(shown, posted, Kept(posted, n[0]))
  BY DEF Ordered
<1>3. PICK n1 : Brings(n1, Tail(down), mqueue, posted, c1) /\ n1[0] = n[1]
  BY <1>1, <1>2, BringsRest
<1>4. /\ Head(down) = down[1] /\ 1 \in 1..Len(down)
      /\ 0 \in 0..Len(down) /\ 1 \in 0..Len(down) /\ 1 - 1 = 0
  BY <1>1
<1>5. /\ n[0] \in 0..Len(posted) /\ n[1] \in 0..Len(posted)
      /\ Brought(n, down, posted, c, 1)
  BY <1>2, <1>4 DEF Brings
<1>6. ~(n[1] = n[0] + 1 /\ down[1] = Delivery(posted[n[1]]))
  <2>1. SUFFICES ASSUME n[1] = n[0] + 1, down[1] = Delivery(posted[n[1]])
                 PROVE  FALSE
    OBVIOUS
  <2>2. posted[n[1]] \in Posts
    <3>1. n[1] \in 1..Len(posted)
      BY <1>5, <2>1
    <3>. QED  BY <1>1, <3>1
  <2>3. Received(NoMessage, Head(down)).tag = <<"delivery">>
    BY <1>1, <1>4, <2>1, <2>2, NoMessageType, DeliveryReceived
  <2>4. \A a, b : <<a>> = <<b>> => a = b
    OBVIOUS
  <2>5. "delivery" # "ok"
    OBVIOUS
  <2>. QED  BY <2>3, <2>4, <2>5 DEF SaysOk
<1>7. n[1] = n[0]
  BY <1>4, <1>5, <1>6 DEF Brought
<1>. QED  BY <1>2, <1>3, <1>7 DEF Ordered

LEMMA OrderedMore ==
  ASSUME TypeOK, NEW c \in Nat, Ordered(down, mqueue, posted, shown, c), NEW x \in Line, NEW q1,
         \/ x \in {Ok, Err} /\ q1 = mqueue
         \/ mqueue # << >> /\ x = Delivery(Head(mqueue)) /\ q1 = Tail(mqueue)
  PROVE  Ordered(Append(down, x), q1, posted, shown, c)
<1>1. down \in Seq(Line) /\ posted \in Seq(Posts)
  BY DownType DEF TypeOK
<1>2. PICK n : Brings(n, down, mqueue, posted, c) /\ Lists(shown, posted, Kept(posted, n[0]))
  BY DEF Ordered
<1>3. PICK n1 : Brings(n1, Append(down, x), q1, posted, c) /\ n1[0] = n[0]
  BY <1>1, <1>2, BringsMore
<1>. QED  BY <1>2, <1>3 DEF Ordered

LEMMA OrderedPost ==
  ASSUME TypeOK, NEW c \in Nat, Ordered(down, mqueue, posted, shown, c), NEW p \in Posts
  PROVE  Ordered(down, Append(mqueue, p), Append(posted, p), shown, c)
<1>1. down \in Seq(Line) /\ posted \in Seq(Posts)
  BY DownType DEF TypeOK
<1>2. PICK n : Brings(n, down, mqueue, posted, c) /\ Lists(shown, posted, Kept(posted, n[0]))
  BY DEF Ordered
<1>3. Brings(n, down, Append(mqueue, p), Append(posted, p), c)
  BY <1>1, <1>2, BringsPost
<1>. DEFINE k == n[0]
            l1 == Append(posted, p)
<1>4. k \in 0..Len(posted)
  <2>1. 0 \in 0..Len(down)
    BY <1>1
  <2>. QED  BY <1>2, <2>1 DEF Brings
<1>. HIDE DEF k
<1>5. \A i \in 1..k : i \in 1..Len(posted) /\ l1[i] = posted[i]
  BY <1>1, <1>4
<1>6. Kept(l1, k) = Kept(posted, k) /\ Kept(posted, k) \in SUBSET (1..Len(posted))
  <2>. HIDE DEF l1
  <2>. QED  BY <1>5 DEF Kept
<1>7. Lists(shown, posted, Kept(posted, k))
  BY <1>2 DEF k
<1>8. Lists(shown, l1, Kept(l1, k))
  BY <1>1, <1>6, <1>7, ListsIgnoresAppend
<1>. QED  BY <1>3, <1>8 DEF Ordered, k

LEMMA InitShownInOrder == Init => ShownInOrder
BY DEF Init, ShownInOrder, Inside

\* when the user enters the room, only replies are under way
LEMMA NothingInOrder ==
  down \in Seq(Line) /\ shown = << >> /\ posted = << >> /\ mqueue = << >> /\ Len(down) <= Skip
    => ShownInOrder
<1>. SUFFICES ASSUME down \in Seq(Line), shown = << >>, posted = << >>, mqueue = << >>,
                     Len(down) <= Skip
              PROVE  ShownInOrder
  OBVIOUS
<1>1. PICK n : Brings(n, down, << >>, << >>, Skip) /\ n[0] = 0
  BY SkipType, BringsNothing
<1>2. Kept(<< >>, 0) = {}
  BY DEF Kept
<1>3. Lists(<< >>, << >>, Kept(<< >>, n[0]))
  BY <1>1, <1>2, ListsNothing
<1>4. Ordered(down, mqueue, posted, shown, Skip)
  BY <1>1, <1>3 DEF Ordered
<1>. QED  BY <1>4, OrderedIs

LEMMA NextShownInOrder ==
  TypeOK /\ TypeOK' /\ Handshake /\ ShownInOrder /\ [Next]_vars => ShownInOrder'
<1>. SUFFICES ASSUME TypeOK, TypeOK', Handshake, ShownInOrder, [Next]_vars
              PROVE  ShownInOrder'
  OBVIOUS
<1>1. CASE ServerJoin
  <2>1. server = "join" /\ UNCHANGED <<at, shown, down, mqueue, posted>>
    BY <1>1 DEF ServerJoin, clientVars
  <2>2. /\ shown = << >> /\ posted = << >> /\ mqueue = << >>
        /\ Len(down) <= Skip
    BY <2>1 DEF Handshake
  <2>3. down \in Seq(Line) /\ Skip' = Skip
    BY <2>1, DownType DEF TypeOK, Skip
  <2>4. (down \in Seq(Line) /\ shown = << >> /\ posted = << >> /\ mqueue = << >>
           /\ Len(down) <= Skip)'
    <3>1. /\ down' \in Seq(Line) /\ shown' = << >> /\ posted' = << >> /\ mqueue' = << >>
          /\ Len(down') <= Skip'
      BY <2>1, <2>2, <2>3
    <3>. QED  BY <3>1 DEF Line
  <2>. QED  BY <2>4, NothingInOrder, PTL
<1>. SUFFICES ASSUME ~ServerJoin PROVE ShownInOrder'
  BY <1>1
<1>16. room' = room
  BY RoomKept
<1>2. ShownInOrder' <=>
        (Inside /\ at \in {"login", "join", "loop"} /\ ~overlong
           => Ordered(down, mqueue, posted, shown, Skip))'
  BY OrderedIs, PTL
<1>3. Ordered(down, mqueue, posted, shown, Skip)'
        <=> Ordered(down', mqueue', posted', shown', Skip')
  BY <1>16 DEF Ordered, Brings, Brought, Delivery, Ok, Err
<1>4. SUFFICES ASSUME Inside', at' \in {"login", "join", "loop"}, ~overlong'
               PROVE  Ordered(down', mqueue', posted', shown', Skip')
  BY <1>2, <1>3
<1>5. Inside /\ at \in {"login", "join", "loop"} /\ ~overlong
        => Ordered(down, mqueue, posted, shown, Skip)
  BY OrderedIs
<1>6. down \in Seq(Line) /\ Ok \in Line /\ Err \in Line /\ Skip \in Nat /\ Skip' \in Nat
  BY DownType, ServiceIsLine, SkipType DEF TypeOK, Skip
<1>7. ASSUME Login \/ ReplyLost \/ NextLineLost \/ Killed \/ ServerLogin
             \/ ServerRefuses \/ SendFails \/ ServerEOF \/ ServerDies
      PROVE  FALSE
  BY <1>4, <1>7 DEF Login, ReplyLost, NextLineLost, Killed, ServerLogin,
                    ServerRefuses, SendFails, ServerEOF, ServerDies, EndThread,
                    ConnectionLost, Inside, Over, Handshake
<1>8. CASE LoginReply \/ JoinReply
  <2>1. /\ down # << >> /\ down' = Tail(down) /\ SaysOk
        /\ UNCHANGED <<shown, mqueue, posted, overlong>> /\ at \in {"login", "join"}
        /\ (server' = server \/ server' = "reset") /\ Skip = Skip' + 1
    BY <1>4, <1>8 DEF LoginReply, JoinReply, roomVars, Skip
  <2>2. Ordered(down, mqueue, posted, shown, Skip)
    BY <1>4, <1>5, <2>1 DEF Inside
  <2>3. Ordered(Tail(down), mqueue, posted, shown, Skip')
    <3>. DEFINE c == Skip
                c1 == Skip'
    <3>0. c = c1 + 1 /\ c \in Nat /\ c1 \in Nat
      BY <1>6, <2>1
    <3>. HIDE DEF c, c1
    <3>2. c <= c1 + 1
      BY <3>0
    <3>1. Skip <= Skip' + 1
      BY <3>2 DEF c, c1
    <3>. QED  BY <1>6, <2>1, <2>2, <3>1, OrderedReply
  <2>. QED  BY <2>1, <2>3
<1>9. CASE NextLine
  <2>1. /\ down # << >> /\ down' = Tail(down) /\ msg' = Received(msg, Head(down)) /\ Show(msg')
        /\ UNCHANGED <<mqueue, posted, server, overlong>> /\ at = "loop" /\ at' = at
    BY <1>9 DEF NextLine, roomVars
  <2>2. Inside /\ ~overlong /\ isValidRoomName(room)
    BY <1>4, <2>1 DEF Inside, Handshake
  <2>3. Skip = 0 /\ Skip' = 0
    BY <2>1 DEF Skip
  <2>4. Ordered(down, mqueue, posted, shown, 0)
    BY <1>5, <2>1, <2>2, <2>3
  <2>5. Ordered(Tail(down), mqueue, posted, shown', 0)
    BY <2>1, <2>2, <2>4, OrderedNext
  <2>. QED  BY <2>1, <2>3, <2>5
\* the other steps do not move the client
<1>17. ASSUME at' = at
       PROVE  Skip' = Skip
  BY <1>17 DEF Skip
<1>11. CASE ServerConfirms
  <2>1. /\ down' = Append(down, Ok) /\ UNCHANGED <<at, shown, mqueue, posted, overlong>>
        /\ server = "member"
    BY <1>11 DEF ServerConfirms, clientVars, roomVars
  <2>2. Ordered(down, mqueue, posted, shown, Skip)
    BY <1>4, <1>5, <2>1 DEF Inside
  <2>. QED  BY <1>6, <1>17, <2>1, <2>2, OrderedMore
<1>12. CASE Deliver
  <2>1. ~overlong /\ Head(mqueue) \in Posts /\ down' = Append(down, Delivery(Head(mqueue)))
    BY <1>4, <1>12, DeliverFits
  <2>2. /\ mqueue # << >> /\ mqueue' = Tail(mqueue)
        /\ UNCHANGED <<at, shown, posted, server>>
    BY <1>12 DEF Deliver, clientVars
  <2>3. Ordered(down, mqueue, posted, shown, Skip)
    BY <1>4, <1>5, <2>1, <2>2 DEF Inside
  <2>4. Delivery(Head(mqueue)) \in Line
    <3>1. Pieces(Delivery(Head(mqueue)), MAX_LEN) = <<Delivery(Head(mqueue))>>
      <4>1. Len(Delivery(Head(mqueue))) <= MAX_LEN
        <5>1. room \in Seq(Bytes)
          BY DEF TypeOK
        <5>2. Delivery(Head(mqueue)) \in Seq(Bytes)
          BY <2>1, <5>1, DeliveryLength
        <5>3. ~(Len(Delivery(Head(mqueue))) > MAX_LEN)
          BY <1>4, <1>12 DEF Deliver
        <5>. DEFINE x == Delivery(Head(mqueue))
        <5>. HIDE DEF x
        <5>4. Len(x) \in Nat /\ ~(Len(x) > MAX_LEN) /\ MAX_LEN \in Nat
          BY <5>2, <5>3, LenProperties, SizesAssumption DEF x
        <5>5. Len(x) <= MAX_LEN
          BY <5>4
        <5>. QED  BY <5>5 DEF x
      <4>. QED  BY <2>1, <4>1, DeliveryInOneLine DEF TypeOK
    <3>2. Pieces(Delivery(Head(mqueue)), MAX_LEN) \in Seq(Line)
      BY <2>1, DeliveryLength, PiecesAreLines DEF TypeOK
    <3>. DEFINE x == Delivery(Head(mqueue))
    <3>. HIDE DEF x
    <3>3. <<x>> \in Seq(Line)
      BY <3>1, <3>2 DEF x
    <3>4. 1 \in 1..Len(<<x>>) /\ <<x>>[1] = x
      OBVIOUS
    <3>5. x \in Line
      BY <3>3, <3>4
    <3>. QED  BY <3>5 DEF x
  <2>5. Ordered(Append(down, Delivery(Head(mqueue))), Tail(mqueue), posted, shown, Skip)
    BY <1>6, <2>2, <2>3, <2>4, OrderedMore
  <2>. QED  BY <1>17, <2>1, <2>2, <2>5
<1>13. CASE DequeueTimeout
  <2>1. /\ down' = Append(down, Err) /\ UNCHANGED <<at, shown, mqueue, posted, overlong, server>>
    BY <1>13 DEF DequeueTimeout, clientVars, roomVars
  <2>2. Ordered(down, mqueue, posted, shown, Skip)
    BY <1>4, <1>5, <2>1 DEF Inside
  <2>. QED  BY <1>6, <1>17, <2>1, <2>2, OrderedMore
<1>14. ASSUME NEW p \in Posts, Post(p)
       PROVE  Ordered(down', mqueue', posted', shown', Skip')
  <2>1. /\ mqueue' = Append(mqueue, p) /\ posted' = Append(posted, p)
        /\ UNCHANGED <<at, shown, down, overlong, server>>
    BY <1>14 DEF Post, clientVars
  <2>2. Ordered(down, mqueue, posted, shown, Skip)
    BY <1>4, <1>5, <2>1 DEF Inside
  <2>. QED  BY <1>6, <1>17, <2>1, <2>2, OrderedPost
<1>15. CASE UNCHANGED vars
  BY <1>4, <1>5, <1>15, <1>17 DEF vars, Inside, clientVars, roomVars
<1>. QED
  BY <1>7, <1>8, <1>9, <1>11, <1>12, <1>13, <1>14, <1>15
     DEF Next, Client, Serve, Finished, Spinning

(***************************************************************************)
(* The client prints the printable messages of its room, each once and in  *)
(* the order of the broadcasts, from the first after add_member on, as     *)
(* long as no delivery was longer than MAX_LEN.                            *)
(***************************************************************************)
THEOREM PostsAreShownInOrder == Spec => []ShownInOrder
<1>. DEFINE I == TypeOK /\ Handshake /\ ShownInOrder
<1>1. Init => I
  BY InitTypes, InitHandshake, InitShownInOrder
<1>2. I /\ [Next]_vars => I'
  BY NextTypes, NextHandshake, NextShownInOrder
<1>. QED  BY <1>1, <1>2, PTL DEF Spec

-------------------------------------------------------------------------------
(***************************************************************************)
(* Says(d, l, k): what the client prints of the payload d, if it prints    *)
(* anything, comes from the k-th message of l: under its sender's name,    *)
(* the text perhaps cut, or garbled, when the message can be.              *)
(***************************************************************************)
Quotes(s, p) == LooksLike(s, p) \/ (Garbled(p) /\ IsPartOf(Printed(s), Printed(p)))

Says(d, l, k) ==
  Len(Fields(d)) = 3 =>
    k \in 1..Len(l) /\ Quotes([sender |-> Fields(d)[2], text |-> Fields(d)[3]], l[k])

LineSays(x, l, k) == Valid(Trim(x)) => Says(DataOf(Trim(x)), l, k)

\* no piece of a reply is printed
LEMMA ReplySays ==
  ASSUME NEW w \in {"ok", "err"}, NEW x \in Seq(Bytes), NEW a,
         Run(x, Encode([tag |-> <<w>>, data |-> <<"X">>]), a), NEW l, NEW k
  PROVE  LineSays(x, l, k)
<1>. DEFINE d == <<"X">>
            t == Encode([tag |-> <<w>>, data |-> d])
<1>1. w \in Bytes /\ d \in Seq(Bytes) /\ Len(d) = 1 /\ d[1] = "X"
  BY Symbols, OneByte
<1>2. /\ t \in Seq(Bytes) /\ Len(t) = 4 /\ t[1] = w /\ t[3] = "X" /\ t[4] = "\n"
  <2>. HIDE DEF d
  <2>1. /\ t \in Seq(Bytes) /\ Len(t) = Len(d) + 3
        /\ t[1] = w /\ t[Len(d) + 3] = "\n"
        /\ \A i \in 1..Len(d) : t[i + 2] = d[i]
    BY <1>1, EncodedSymbols
  <2>2. Len(d) + 3 = 4 /\ 1 \in 1..Len(d) /\ 1 + 2 = 3
    BY <1>1
  <2>. QED  BY <1>1, <2>1, <2>2
<1>3. Run(x, t, a)
  OBVIOUS
<1>. HIDE DEF t
<1>4. \A i \in 1..4 : t[i] = ":" => i = 2
  <2>1. \A i \in 1..4 : i = 1 \/ i = 2 \/ i = 3 \/ i = 4
    OBVIOUS
  <2>. QED  BY <1>2, <2>1
<1>5. SUFFICES ASSUME Valid(Trim(x)), Len(Fields(DataOf(Trim(x)))) = 3
               PROVE  FALSE
  BY DEF LineSays, Says
<1>6. \E u, v \in 1..Len(t) : u < v /\ t[u] = ":" /\ t[v] = ":"
  <2>1. PICK u, v, y, z \in 1..Len(t) : TakenApart(t, a, Fields(DataOf(Trim(x))), u, v, y, z)
    BY <1>2, <1>3, <1>5, RunFields
  <2>. QED  BY <2>1 DEF TakenApart
<1>. QED  BY <1>2, <1>4, <1>6

\* the symbols between two places of a text
LEMMA RunOfPositions ==
  ASSUME NEW t \in Seq(Bytes), NEW i \in Nat, NEW j \in Nat, i <= j, j <= Len(t)
  PROVE  /\ SubSeq(t, i + 1, j) \in Seq(Bytes) /\ Len(SubSeq(t, i + 1, j)) = j - i
         /\ \A k \in 1..j - i : SubSeq(t, i + 1, j)[k] = t[i + k]
<1>1. Run(SubSeq(t, i + 1, j), t, i) /\ SubSeq(t, i + 1, j) \in Seq(Bytes)
  BY CutIsRun
<1>2. Len(SubSeq(t, i + 1, j)) = j - i
  OBVIOUS
<1>. QED  BY <1>1, <1>2 DEF Run

\* a piece of a delivery, if it is printed, comes from the sender and the text;
\* if the delivery fits in a line, it is its beginning
LEMMA DeliverySays ==
  ASSUME room \in Seq(Bytes), isValidRoomName(room), NEW p \in Posts,
         NEW x \in Seq(Bytes), NEW a, Run(x, Delivery(p), a),
         Len(Delivery(p)) > MAX_LEN \/ a = 0,
         NEW l, NEW k \in 1..Len(l), l[k] = p
  PROVE  LineSays(x, l, k)
<1>. DEFINE q == Payload(p)
            t == Delivery(p)
            r == Len(room)
            e == Len(p.sender)
            g == Len(p.text)
<1>1. /\ r \in Nat /\ e \in Nat /\ g \in Nat
      /\ q \in Seq(Bytes) /\ Len(q) = r + e + g + 2
      /\ \A i \in 1..r : q[i] = room[i]
      /\ q[r + 1] = ":"
      /\ \A i \in 1..e : q[r + 1 + i] = p.sender[i]
      /\ q[r + e + 2] = ":"
      /\ \A i \in 1..g : q[r + e + 2 + i] = p.text[i]
  BY PayloadText
<1>2. \A i \in 1..r : room[i] # ":"
  BY DEF isValidRoomName, LowerCase, TagWords
<1>3. t = Encode([tag |-> <<"delivery">>, data |-> q])
  BY DEF Delivery, Payload
<1>. HIDE DEF q
<1>4. /\ t \in Seq(Bytes) /\ Len(t) = Len(q) + 3
      /\ t[1] = "delivery" /\ t[2] = ":" /\ t[Len(q) + 3] = "\n"
      /\ \A i \in 1..Len(q) : t[i + 2] = q[i]
  <2>1. "delivery" \in Bytes
    BY Symbols
  <2>2. ASSUME NEW w \in Bytes
        PROVE  LET c == Encode([tag |-> <<w>>, data |-> q])
               IN /\ c \in Seq(Bytes) /\ Len(c) = Len(q) + 3
                  /\ c[1] = w /\ c[2] = ":" /\ c[Len(q) + 3] = "\n"
                  /\ \A i \in 1..Len(q) : c[i + 2] = q[i]
    <3>1. q \in Seq(Bytes)
      BY <1>1
    <3>. QED  BY <3>1, EncodedSymbols
  <2>. QED  BY <1>3, <2>1, <2>2
<1>5. p.sender \in Seq(Bytes) /\ p.text \in Seq(Bytes)
  BY PostsAssumption
<1>6. Run(x, t, a) /\ (Len(t) > MAX_LEN \/ a = 0)
  OBVIOUS
<1>17. Garbled(p) <=> ~Colonless(p.sender) \/ (Len(t) > MAX_LEN /\ ~Colonless(p.text))
  BY DEF Garbled
<1>. HIDE DEF t
<1>. DEFINE L == Len(q)
<1>. HIDE DEF r, e, g
<1>7. L = r + e + g + 2 /\ L \in Nat
  BY <1>1
<1>. HIDE DEF L
<1>18. /\ Colonless(p.sender) <=> \A i \in 1..e : p.sender[i] # ":"
       /\ Colonless(p.text) <=> \A i \in 1..g : p.text[i] # ":"
  BY DEF Colonless, e, g
\* the colons of the delivery: of its structure, of the sender, of the text
<1>8. /\ \A i \in 1..L + 3 : t[i] = ":" => i = 2 \/ r + 3 <= i
      /\ 2 \in 1..L + 3 /\ t[2] = ":"
      /\ r + 3 \in 1..L + 3 /\ t[r + 3] = ":"
      /\ r + e + 4 \in 1..L + 3 /\ t[r + e + 4] = ":"
      /\ Colonless(p.sender) => \A i \in 1..L + 3 : t[i] = ":" => i <= r + 3 \/ r + e + 4 <= i
      /\ Colonless(p.text) => \A i \in 1..L + 3 : t[i] = ":" => i <= r + e + 4
  <2>1. \A i \in 1..L : i + 2 \in 1..L + 3 /\ t[i + 2] = q[i]
    BY <1>4, <1>7 DEF L
  <2>2. r + 1 \in 1..L /\ r + e + 2 \in 1..L /\ r + 1 + 2 = r + 3 /\ r + e + 2 + 2 = r + e + 4
    BY <1>1, <1>7
  <2>3. /\ 2 \in 1..L + 3 /\ t[2] = ":"
        /\ r + 3 \in 1..L + 3 /\ t[r + 3] = ":"
        /\ r + e + 4 \in 1..L + 3 /\ t[r + e + 4] = ":"
    BY <1>1, <1>4, <1>7, <2>1, <2>2
  <2>4. ASSUME NEW i \in 1..L + 3, t[i] = ":"
        PROVE  /\ i = 2 \/ r + 3 <= i
               /\ Colonless(p.sender) => i <= r + 3 \/ r + e + 4 <= i
               /\ Colonless(p.text) => i <= r + e + 4
    <3>1. i # 1 /\ i # L + 3
      BY <1>4, <2>4 DEF L
    <3>2. CASE i = 2
      BY <1>1, <3>2
    <3>3. CASE i - 2 \in 1..r
      <4>1. t[i] = room[i - 2]
        <5>1. i - 2 \in 1..L /\ i - 2 + 2 = i
          BY <1>1, <1>7, <3>3
        <5>. QED  BY <1>1, <2>1, <3>3, <5>1
      <4>. QED  BY <1>2, <2>4, <3>3, <4>1
    <3>4. CASE i = r + 3 \/ i = r + e + 4
      BY <1>1, <3>4
    <3>5. CASE i - (r + 3) \in 1..e
      <4>1. t[i] = p.sender[i - (r + 3)]
        <5>1. r + 1 + (i - (r + 3)) \in 1..L /\ r + 1 + (i - (r + 3)) + 2 = i
          BY <1>1, <1>7, <3>5
        <5>. QED  BY <1>1, <2>1, <3>5, <5>1
      <4>2. ~Colonless(p.sender)
        BY <1>18, <2>4, <3>5, <4>1
      <4>. QED  BY <1>1, <3>5, <4>2
    <3>6. CASE i - (r + e + 4) \in 1..g
      <4>1. t[i] = p.text[i - (r + e + 4)]
        <5>1. r + e + 2 + (i - (r + e + 4)) \in 1..L /\ r + e + 2 + (i - (r + e + 4)) + 2 = i
          BY <1>1, <1>7, <3>6
        <5>. QED  BY <1>1, <2>1, <3>6, <5>1
      <4>2. ~Colonless(p.text)
        BY <1>18, <2>4, <3>6, <4>1
      <4>. QED  BY <1>1, <3>6, <4>2
    <3>7. \/ i = 2 \/ i - 2 \in 1..r \/ i = r + 3 \/ i = r + e + 4
          \/ i - (r + 3) \in 1..e \/ i - (r + e + 4) \in 1..g
      BY <1>1, <1>7, <3>1
    <3>. QED  BY <3>2, <3>3, <3>4, <3>5, <3>6, <3>7
  <2>. QED  BY <2>3, <2>4
<1>9. SUFFICES ASSUME Valid(Trim(x)), Len(Fields(DataOf(Trim(x)))) = 3
               PROVE  Quotes([sender |-> Fields(DataOf(Trim(x)))[2],
                              text |-> Fields(DataOf(Trim(x)))[3]], p)
  BY DEF LineSays, Says
<1>. DEFINE f == Fields(DataOf(Trim(x)))
<1>23. PICK u, v, w, z \in 1..Len(t) : TakenApart(t, a, f, u, v, w, z)
  BY <1>4, <1>6, <1>9, RunFields
<1>. DEFINE s == [sender |-> f[2], text |-> f[3]]
<1>. HIDE DEF f
<1>10. /\ u < v /\ v < w /\ w <= z
       /\ t[u] = ":" /\ t[v] = ":" /\ t[w] = ":" /\ t[z] \notin WHITESPACE
       /\ \A i \in a + 1..w : t[i] = ":" => i \in {u, v, w}
       /\ f[2] = SubSeq(t, v + 1, w - 1)
       /\ f[3] = SubSeq(t, w + 1, z)
  BY <1>23 DEF TakenApart
<1>24. /\ u \in Nat /\ v \in Nat /\ w \in Nat /\ z \in Nat
       /\ 1 <= u /\ u < v /\ v < w /\ w <= z /\ z <= L + 3
       /\ r \in Nat /\ e \in Nat /\ g \in Nat /\ L = r + e + g + 2
  BY <1>1, <1>4, <1>7, <1>10 DEF L
<1>11. Len(t) = L + 3 /\ z <= L + 2
  <2>1. Len(t) = L + 3
    BY <1>4 DEF L
  <2>2. z # L + 3
    <3>1. "\n" \in WHITESPACE
      BY DEF WHITESPACE
    <3>. QED  BY <1>4, <1>10, <3>1 DEF L
  <2>. QED  BY <1>7, <1>10, <2>1, <2>2
<1>19. u = 2 \/ r + 3 <= u
  BY <1>8, <1>10, <1>11
<1>20. r + 3 <= v
  <2>1. v # 2
    BY <1>19, <1>24
  <2>. QED  BY <1>8, <1>10, <1>11, <2>1
<1>21. CASE Garbled(p)
  <2>1. IsPartOf(Printed(s), Printed(p))
    <3>1. /\ f[2] \in Seq(Bytes) /\ Len(f[2]) = w - 1 - v
          /\ f[3] \in Seq(Bytes) /\ Len(f[3]) = z - w
          /\ \A i \in 1..w - 1 - v : f[2][i] = t[v + i]
          /\ \A i \in 1..z - w : f[3][i] = t[w + i]
      <4>1. /\ v \in Nat /\ w - 1 \in Nat /\ v <= w - 1 /\ w - 1 <= Len(t)
            /\ w \in Nat /\ z \in Nat /\ w <= z /\ z <= Len(t)
        BY <1>11, <1>24
      <4>2. /\ SubSeq(t, v + 1, w - 1) \in Seq(Bytes) /\ Len(SubSeq(t, v + 1, w - 1)) = w - 1 - v
            /\ \A i \in 1..w - 1 - v : SubSeq(t, v + 1, w - 1)[i] = t[v + i]
        BY <1>4, <4>1, RunOfPositions
      <4>3. /\ SubSeq(t, w + 1, z) \in Seq(Bytes) /\ Len(SubSeq(t, w + 1, z)) = z - w
            /\ \A i \in 1..z - w : SubSeq(t, w + 1, z)[i] = t[w + i]
        BY <1>4, <4>1, RunOfPositions
      <4>. QED  BY <1>10, <4>2, <4>3
    <3>3. /\ Printed(s) = f[2] \o <<":">> \o f[3]
          /\ Len(Printed(s)) = z - v
          /\ \A i \in 1..z - v : Printed(s)[i] = t[v + i]
      <4>. DEFINE b == f[2]
                  c == f[3]
                  y == b \o <<":">> \o c
      <4>1. Printed(s) = y
        BY DEF Printed
      <4>. HIDE DEF b, c, s
      <4>2. /\ Len(y) = Len(b) + 1 + Len(c)
            /\ \A i \in 1..Len(b) : y[i] = b[i]
            /\ y[Len(b) + 1] = ":"
            /\ \A i \in 1..Len(c) : y[Len(b) + 1 + i] = c[i]
        BY <3>1, TextOfLine DEF b, c
      <4>. HIDE DEF y
      <4>3. Len(b) = w - 1 - v /\ Len(c) = z - w
        BY <3>1 DEF b, c
      <4>4. u \in Nat /\ v \in Nat /\ w \in Nat /\ z \in Nat /\ v < w /\ w <= z
        BY <1>10
      <4>5. Len(y) = z - v
        BY <4>2, <4>3, <4>4
      <4>6. ASSUME NEW i \in 1..z - v
            PROVE  y[i] = t[v + i]
        <5>1. CASE i \in 1..w - 1 - v
          BY <3>1, <4>2, <4>3, <5>1 DEF b
        <5>2. CASE i = w - v
          <6>1. i = Len(b) + 1 /\ v + i = w
            BY <4>3, <4>4, <5>2
          <6>. QED  BY <1>10, <4>2, <6>1
        <5>3. CASE i - (w - v) \in 1..z - w
          <6>. DEFINE j == i - (w - v)
          <6>1. Len(b) + 1 + j = i /\ w + j = v + i
            BY <4>3, <4>4
          <6>2. y[Len(b) + 1 + j] = c[j] /\ c[j] = t[w + j]
            BY <3>1, <4>2, <4>3, <5>3 DEF c
          <6>. QED  BY <6>1, <6>2
        <5>4. i \in 1..w - 1 - v \/ i = w - v \/ i - (w - v) \in 1..z - w
          BY <4>4
        <5>. QED  BY <5>1, <5>2, <5>3, <5>4
      <4>. QED  BY <4>1, <4>5, <4>6 DEF y, b, c
    <3>4. /\ Len(Printed(p)) = e + 1 + g
          /\ \A i \in 1..e + 1 + g : Printed(p)[i] = t[r + 3 + i]
      <4>. DEFINE b == p.sender
                  c == p.text
                  y == b \o <<":">> \o c
      <4>1. Printed(p) = y
        BY DEF Printed
      <4>2. b \in Seq(Bytes) /\ Len(b) = e /\ c \in Seq(Bytes) /\ Len(c) = g
        BY <1>5 DEF e, g
      <4>. HIDE DEF b, c
      <4>3. /\ Len(y) = Len(b) + 1 + Len(c)
            /\ \A i \in 1..Len(b) : y[i] = b[i]
            /\ y[Len(b) + 1] = ":"
            /\ \A i \in 1..Len(c) : y[Len(b) + 1 + i] = c[i]
        BY <4>2, TextOfLine
      <4>. HIDE DEF y
      <4>4. ASSUME NEW i \in 1..e + 1 + g
            PROVE  y[i] = t[r + 3 + i]
        <5>1. CASE i \in 1..e
          <6>1. r + 1 + i \in 1..L /\ r + 1 + i + 2 = r + 3 + i
            BY <1>24, <5>1
          <6>. QED  BY <1>1, <1>4, <4>2, <4>3, <5>1, <6>1 DEF L, b
        <5>2. CASE i = e + 1
          <6>1. r + 3 + i = r + e + 4
            BY <1>1, <5>2
          <6>. QED  BY <1>8, <4>2, <4>3, <5>2, <6>1
        <5>3. CASE i - (e + 1) \in 1..g
          <6>. DEFINE j == i - (e + 1)
          <6>1. r + e + 2 + j \in 1..L /\ r + e + 2 + j + 2 = r + 3 + i /\ e + 1 + j = i
            BY <1>1, <1>7, <5>3
          <6>2. y[e + 1 + j] = c[j] /\ q[r + e + 2 + j] = c[j]
            BY <1>1, <4>2, <4>3, <5>3 DEF c
          <6>3. t[r + e + 2 + j + 2] = q[r + e + 2 + j]
            BY <1>4, <6>1 DEF L
          <6>. QED  BY <6>1, <6>2, <6>3
        <5>4. i \in 1..e \/ i = e + 1 \/ i - (e + 1) \in 1..g
          BY <1>1
        <5>. QED  BY <5>1, <5>2, <5>3, <5>4
      <4>. QED  BY <4>1, <4>2, <4>3, <4>4
    <3>. DEFINE k1 == v - (r + 3)
                A == Printed(s)
                B == Printed(p)
    <3>5. /\ Len(A) = z - v /\ \A i \in 1..z - v : A[i] = t[v + i]
          /\ Len(B) = e + 1 + g /\ \A i \in 1..e + 1 + g : B[i] = t[r + 3 + i]
      BY <3>3, <3>4
    <3>. HIDE DEF A, B
    <3>6. k1 \in 0..Len(B) - Len(A)
      <4>1. Len(A) = z - v /\ Len(B) = e + 1 + g
        BY <3>5
      <4>2. k1 \in Nat /\ k1 <= (e + 1 + g) - (z - v)
        BY <1>11, <1>20, <1>24
      <4>. HIDE DEF k1
      <4>3. (e + 1 + g) - (z - v) \in Int
        BY <1>24
      <4>. QED  BY <4>1, <4>2, <4>3
    <3>7. ASSUME NEW i \in 1..Len(A)
          PROVE  A[i] = B[k1 + i]
      <4>1. k1 + i \in 1..e + 1 + g /\ r + 3 + (k1 + i) = v + i
        BY <1>11, <1>20, <1>24, <3>5
      <4>. QED  BY <3>5, <4>1
    <3>. HIDE DEF k1
    <3>8. IsPartOf(A, B)
      BY <3>6, <3>7 DEF IsPartOf
    <3>. QED  BY <3>8 DEF A, B
  <2>. QED  BY <1>21, <2>1 DEF Quotes, f
<1>22. SUFFICES ASSUME ~Garbled(p) PROVE LooksLike(s, p)
  BY <1>21 DEF Quotes, f
<1>12. v = r + 3 /\ w = r + e + 4
  <2>1. u \in Nat /\ v \in Nat /\ w \in Nat /\ u < v /\ v < w /\ w <= L + 3
    BY <1>10, <1>11
  <2>2. Colonless(p.sender) /\ (a = 0 \/ Colonless(p.text))
    BY <1>6, <1>17, <1>22
  <2>3. v <= r + 3 \/ r + e + 4 <= v
    BY <1>8, <1>10, <1>11, <2>2
  <2>4. w <= r + 3 \/ r + e + 4 <= w
    BY <1>8, <1>10, <1>11, <2>2
  <2>5. r + e + 4 <= w
    BY <1>20, <1>24, <2>4
  <2>6. CASE Colonless(p.text)
    <3>1. w <= r + e + 4
      BY <1>8, <1>10, <1>11, <2>6
    <3>2. w = r + e + 4
      BY <1>24, <2>5, <3>1
    <3>3. v = r + 3
      BY <1>1, <1>20, <2>1, <2>3, <3>2
    <3>. QED  BY <3>2, <3>3
  <2>7. CASE a = 0
    <3>1. \A i \in 1..w : t[i] = ":" => i \in {u, v, w}
      BY <1>10, <2>7
    <3>2. r + 3 \in 1..w /\ r + e + 4 \in 1..w /\ 2 \in 1..w
      BY <1>1, <2>1, <2>5
    <3>3. r + 3 \in {u, v, w} /\ r + e + 4 \in {u, v, w} /\ 2 \in {u, v, w}
      BY <1>8, <3>1, <3>2
    <3>4. /\ u = r + 3 \/ v = r + 3 \/ w = r + 3
          /\ u = r + e + 4 \/ v = r + e + 4 \/ w = r + e + 4
          /\ u = 2 \/ v = 2 \/ w = 2
      BY <3>3
    <3>5. v = r + 3
      BY <1>20, <1>24, <2>5, <3>4
    <3>6. w = r + e + 4
      BY <1>24, <2>5, <3>4, <3>5
    <3>. QED  BY <3>5, <3>6
  <2>. QED  BY <2>2, <2>6, <2>7
<1>13. z <= w + g
  BY <1>1, <1>7, <1>10, <1>11, <1>12
<1>14. /\ Run(p.sender, t, v)
       /\ Run(p.text, t, w)
  <2>1. ASSUME NEW i \in 1..e
        PROVE  p.sender[i] = t[v + i]
    <3>1. r + 1 + i \in 1..L /\ r + 1 + i + 2 = v + i
      BY <1>12, <1>24
    <3>. QED  BY <1>1, <1>4, <3>1 DEF L
  <2>2. ASSUME NEW i \in 1..g
        PROVE  p.text[i] = t[w + i]
    <3>1. r + e + 2 + i \in 1..L /\ r + e + 2 + i + 2 = w + i
      BY <1>12, <1>24
    <3>. QED  BY <1>1, <1>4, <3>1 DEF L
  <2>3. v + e <= Len(t) /\ w + g <= Len(t) /\ v \in Nat /\ w \in Nat
    BY <1>1, <1>7, <1>11, <1>12
  <2>. QED  BY <2>1, <2>2, <2>3 DEF Run, e, g
<1>15. f[2] = p.sender
  <2>1. Cut(p.sender, 0, e) = Cut(t, v + 0, v + e)
    <3>1. 0 \in Nat /\ e \in Nat /\ 0 <= e /\ e <= Len(p.sender)
      BY <1>1 DEF e
    <3>. QED  BY <1>4, <1>5, <1>14, <3>1, CutOfRun
  <2>2. v + 0 = v /\ v + e = w - 1 /\ 0 + 1 = 1
    BY <1>1, <1>12
  <2>3. SubSeq(p.sender, 1, e) = SubSeq(t, v + 1, w - 1)
    BY <2>1, <2>2, Zenon DEF Cut
  <2>4. SubSeq(p.sender, 1, e) = p.sender
    <3>1. SubSeq(p.sender, 1, e) \in Seq(Bytes) /\ Len(SubSeq(p.sender, 1, e)) = e
      <4>1. e \in 0..Len(p.sender)
        BY <1>1 DEF e
      <4>. QED  BY <1>5, <4>1, CutTypes
    <3>2. \A i \in 1..e : SubSeq(p.sender, 1, e)[i] = p.sender[i]
      BY <1>1, <1>5 DEF e
    <3>. QED  BY <1>5, <3>1, <3>2, SeqEqual DEF e
  <2>. QED  BY <1>10, <2>3, <2>4
<1>16. IsPrefixOf(f[3], p.text)
  <2>. DEFINE n == z - w
  <2>1. n \in Nat /\ n <= g /\ w + n = z /\ w + 0 = w /\ 0 + 1 = 1 /\ 0 <= n
    BY <1>1, <1>10, <1>12, <1>13
  <2>. HIDE DEF n
  <2>2. Cut(p.text, 0, n) = Cut(t, w + 0, w + n)
    <3>1. n <= Len(p.text) /\ 0 \in Nat
      BY <2>1 DEF g
    <3>. QED  BY <1>4, <1>5, <1>14, <2>1, <3>1, CutOfRun
  <2>3. SubSeq(p.text, 1, n) = SubSeq(t, w + 1, z)
    BY <2>1, <2>2, Zenon DEF Cut
  <2>4. f[3] = SubSeq(p.text, 1, n)
    BY <1>10, <2>3
  <2>5. Len(SubSeq(p.text, 1, n)) = n
    <3>1. n \in 0..Len(p.text)
      BY <1>1, <2>1 DEF g
    <3>. QED  BY <1>5, <3>1, CutTypes
  <2>. QED  BY <2>1, <2>4, <2>5 DEF IsPrefixOf, g
<1>. QED  BY <1>15, <1>16 DEF LooksLike, f

(***************************************************************************)
(* Follows(n, d, h, l, r, b, c): the client holds the payload h and has    *)
(* printed r, the lines d are under way, and of the messages l the first b *)
(* have been sent.  The payload belongs to the n[0]-th message, the i-th   *)
(* line to the n[i]-th, and these places never decrease: what is printed   *)
(* next comes from no earlier message than what was printed last.  The     *)
(* first c lines are not printed, whatever they say: they are taken for    *)
(* replies.                                                                *)
(***************************************************************************)
Told(r, l, k) ==
  \E source \in [1..Len(r) -> 1..k] :
    /\ \A i, j \in 1..Len(r) : i <= j => source[i] <= source[j]
    /\ \A i \in 1..Len(r) : Quotes(r[i], l[source[i]])

Follows(n, d, h, l, r, b, c) ==
  /\ n \in [0..Len(d) -> 0..Len(l)]
  /\ \A i, j \in 0..Len(d) : i <= j => n[i] <= n[j]
  /\ \A i \in 1..Len(d) : c < i => LineSays(d[i], l, n[i])
  /\ n[Len(d)] <= b
  /\ Says(h, l, n[0])
  /\ Told(r, l, n[0])

\* what is printed next comes from no earlier message
LEMMA ToldMore ==
  ASSUME NEW l, NEW r \in Seq(Said), NEW c \in Nat, NEW k \in Nat, c <= k, Told(r, l, c),
         NEW r1, \/ r1 = r
                 \/ k # 0 /\ \E s \in Said : Quotes(s, l[k]) /\ r1 = Append(r, s)
  PROVE  Told(r1, l, k)
<1>1. PICK f \in [1..Len(r) -> 1..c] :
        /\ \A i, j \in 1..Len(r) : i <= j => f[i] <= f[j]
        /\ \A i \in 1..Len(r) : Quotes(r[i], l[f[i]])
  BY DEF Told
<1>2. \A i \in 1..Len(r) : f[i] \in 1..k /\ f[i] <= k
  BY <1>1
<1>3. CASE r1 = r
  <2>1. f \in [1..Len(r) -> 1..k]
    BY <1>1, <1>2
  <2>. QED  BY <1>1, <1>3, <2>1 DEF Told
<1>4. CASE k # 0 /\ \E s \in Said : Quotes(s, l[k]) /\ r1 = Append(r, s)
  <2>1. PICK s \in Said : Quotes(s, l[k]) /\ r1 = Append(r, s)
    BY <1>4
  <2>. DEFINE m == Len(r)
              g == [i \in 1..m + 1 |-> IF i = m + 1 THEN k ELSE f[i]]
  <2>2. m \in Nat /\ Len(r1) = m + 1 /\ r1[m + 1] = s /\ \A i \in 1..m : r1[i] = r[i]
    BY <2>1
  <2>3. \A i \in 1..m : f[i] \in 1..k /\ f[i] <= k
    BY <1>2
  <2>. HIDE DEF m
  <2>4. g \in [1..m + 1 -> 1..k] /\ g[m + 1] = k /\ \A i \in 1..m : g[i] = f[i]
    BY <1>4, <2>2, <2>3
  <2>. HIDE DEF g
  <2>5. \A i \in 1..m + 1 : i \in 1..m \/ i = m + 1
    BY <2>2
  <2>6. \A i, j \in 1..m + 1 : i <= j => g[i] <= g[j]
    <3>1. SUFFICES ASSUME NEW i \in 1..m + 1, NEW j \in 1..m + 1, i <= j
                   PROVE  g[i] <= g[j]
      OBVIOUS
    <3>2. CASE j = m + 1
      BY <2>3, <2>4, <2>5, <3>2
    <3>3. CASE j \in 1..m
      <4>1. i \in 1..m
        BY <2>2, <3>1, <3>3
      <4>. QED  BY <1>1, <2>4, <3>1, <3>3, <4>1 DEF m
    <3>. QED  BY <2>5, <3>2, <3>3
  <2>7. \A i \in 1..m + 1 : Quotes(r1[i], l[g[i]])
    <3>1. \A i \in 1..m : Quotes(r1[i], l[g[i]])
      BY <1>1, <2>2, <2>4 DEF m
    <3>2. Quotes(r1[m + 1], l[g[m + 1]])
      BY <2>1, <2>2, <2>4
    <3>. QED  BY <2>5, <3>1, <3>2
  <2>8. Len(r1) = m + 1
    BY <2>2
  <2>. QED  BY <2>4, <2>6, <2>7, <2>8 DEF Told
<1>. QED  BY <1>3, <1>4

\* more lines, of the message k
LEMMA FollowsMore ==
  ASSUME NEW d \in Seq(Line), NEW h, NEW l, NEW r, NEW b \in Nat, NEW n,
         NEW c \in Nat, Follows(n, d, h, l, r, b, c),
         NEW e \in Seq(Line), NEW k \in 0..Len(l), b <= k, Len(l) \in Nat,
         \A i \in 1..Len(e) : c < Len(d) + i => LineSays(e[i], l, k), NEW b1 \in Nat, k <= b1
  PROVE  \E n1 : Follows(n1, d \o e, h, l, r, b1, c)
<1>. DEFINE D == Len(d)
            E == Len(e)
            L == Len(l)
            x == d \o e
            n1 == [i \in 0..D + E |-> IF i <= D THEN n[i] ELSE k]
<1>1. D \in Nat /\ E \in Nat /\ L \in Nat
  BY LenProperties
<1>2. /\ x \in Seq(Line) /\ Len(x) = D + E
      /\ \A i \in 1..D + E : x[i] = IF i <= D THEN d[i] ELSE e[i - D]
  BY ConcatProperties
<1>3. /\ n \in [0..D -> 0..L]
      /\ \A i, j \in 0..D : i <= j => n[i] <= n[j]
      /\ \A i \in 1..D : c < i => LineSays(d[i], l, n[i])
      /\ n[D] <= b
      /\ Says(h, l, n[0]) /\ Told(r, l, n[0])
  BY DEF Follows
<1>4. /\ k \in 0..L
      /\ \A i \in 1..E : c < D + i => LineSays(e[i], l, k)
  OBVIOUS
<1>. HIDE DEF D, E, L, x
<1>5. \A i \in 0..D : n[i] \in 0..L /\ n[i] <= k
  <2>1. SUFFICES ASSUME NEW i \in 0..D PROVE n[i] \in 0..L /\ n[i] <= k
    OBVIOUS
  <2>2. D \in 0..D /\ i <= D
    BY <1>1
  <2>3. n[i] \in 0..L /\ n[D] \in 0..L /\ n[i] <= n[D] /\ n[D] <= b
    BY <1>3, <2>2
  <2>. QED  BY <1>1, <2>3
<1>6. /\ n1 \in [0..D + E -> 0..L]
      /\ \A i \in 0..D + E : n1[i] = IF i <= D THEN n[i] ELSE k
  BY <1>1, <1>4, <1>5
<1>. HIDE DEF n1
<1>7. 0 \in 0..D + E /\ D + E \in 0..D + E /\ 0 <= D /\ \A i \in 0..D + E : i <= D => i \in 0..D
  BY <1>1
<1>8. \A i, j \in 0..D + E : i <= j => n1[i] <= n1[j]
  <2>1. SUFFICES ASSUME NEW i \in 0..D + E, NEW j \in 0..D + E, i <= j
                 PROVE  n1[i] <= n1[j]
    OBVIOUS
  <2>2. CASE j <= D
    <3>1. i <= D /\ i \in 0..D /\ j \in 0..D
      BY <1>1, <1>7, <2>1, <2>2
    <3>. QED  BY <1>3, <1>6, <2>1, <2>2, <3>1
  <2>3. CASE ~(j <= D)
    BY <1>4, <1>5, <1>6, <1>7, <2>3
  <2>. QED  BY <2>2, <2>3
<1>9. \A i \in 1..D + E : c < i => LineSays(x[i], l, n1[i])
  <2>1. SUFFICES ASSUME NEW i \in 1..D + E, c < i PROVE LineSays(x[i], l, n1[i])
    OBVIOUS
  <2>2. CASE i <= D
    <3>1. i \in 1..D /\ i \in 0..D + E
      BY <1>1, <2>2
    <3>. QED  BY <1>2, <1>3, <1>6, <2>1, <2>2, <3>1
  <2>3. CASE ~(i <= D)
    <3>1. i - D \in 1..E /\ i \in 0..D + E /\ c < D + (i - D)
      BY <1>1, <2>1, <2>3
    <3>. QED  BY <1>2, <1>4, <1>6, <2>3, <3>1
  <2>. QED  BY <2>2, <2>3
<1>10. n1[0] = n[0]
  BY <1>6, <1>7
<1>11. n1[D + E] <= b1
  <2>1. n1[D + E] \in 0..L /\ n1[D + E] <= k
    BY <1>4, <1>5, <1>6, <1>7
  <2>. QED  BY <1>1, <2>1
<1>. QED  BY <1>2, <1>3, <1>6, <1>8, <1>9, <1>10, <1>11 DEF Follows, L, x

\* a line is read: the payload the client now holds belongs to message m
LEMMA FollowsRead ==
  ASSUME NEW d \in Seq(Line), d # << >>, NEW h, NEW l, NEW r, NEW b \in Nat, NEW n,
         NEW c \in Nat, Follows(n, d, h, l, r, b, c), Len(l) \in Nat,
         NEW m, m = n[0] \/ m = n[1], NEW h1, Says(h1, l, m), NEW r1, Told(r1, l, m),
         NEW b1 \in Nat, b <= b1, NEW c1 \in Nat, c <= c1 + 1
  PROVE  \E n1 : Follows(n1, Tail(d), h1, l, r1, b1, c1)
<1>. DEFINE D == Len(d)
            L == Len(l)
            x == Tail(d)
            n1 == [i \in 0..D - 1 |-> IF i = 0 THEN m ELSE n[i + 1]]
<1>1. D \in Nat \ {0} /\ L \in Nat /\ Len(x) = D - 1 /\ \A i \in 1..D - 1 : x[i] = d[i + 1]
  OBVIOUS
<1>3. /\ n \in [0..D -> 0..L]
      /\ \A i, j \in 0..D : i <= j => n[i] <= n[j]
      /\ \A i \in 1..D : c < i => LineSays(d[i], l, n[i])
      /\ n[D] <= b
  BY DEF Follows
<1>. HIDE DEF D, L, x
<1>4. 0 \in 0..D /\ 1 \in 0..D /\ D \in 0..D /\ D - 1 \in 0..D - 1 /\ 0 \in 0..D - 1
  BY <1>1
<1>5. \A i \in 0..D : n[i] \in 0..L
  BY <1>3
<1>6. m \in 0..L /\ m <= n[1] /\ n[1] \in 0..L
  BY <1>1, <1>3, <1>4, <1>5
<1>7. \A i \in 0..D - 1 : i + 1 \in 0..D /\ 1 <= i + 1
  BY <1>1
<1>8. /\ n1 \in [0..D - 1 -> 0..L] /\ n1[0] = m
      /\ \A i \in 0..D - 1 : n1[i] <= n[i + 1] /\ (i # 0 => n1[i] = n[i + 1])
  <2>1. 0 + 1 = 1
    OBVIOUS
  <2>2. \A i \in 0..D - 1 : n[i + 1] \in 0..L /\ n[i + 1] <= n[i + 1]
    BY <1>5, <1>7
  <2>. QED  BY <1>4, <1>6, <2>1, <2>2
<1>. HIDE DEF n1
<1>9. \A i, j \in 0..D - 1 : i <= j => n1[i] <= n1[j]
  <2>1. SUFFICES ASSUME NEW i \in 0..D - 1, NEW j \in 0..D - 1, i <= j
                 PROVE  n1[i] <= n1[j]
    OBVIOUS
  <2>2. CASE j = 0
    <3>1. i = 0
      BY <1>1, <2>1, <2>2
    <3>2. n1[0] \in 0..L
      BY <1>6, <1>8
    <3>. QED  BY <2>2, <3>1, <3>2
  <2>3. CASE j # 0
    <3>1. i + 1 \in 0..D /\ j + 1 \in 0..D /\ i + 1 <= j + 1
      BY <1>1, <1>7, <2>1
    <3>2. n[i + 1] <= n[j + 1] /\ n[i + 1] \in 0..L /\ n[j + 1] \in 0..L
      BY <1>3, <1>5, <3>1
    <3>3. n1[i] <= n[i + 1] /\ n1[j] = n[j + 1] /\ n1[i] \in 0..L
      BY <1>8, <2>3
    <3>. QED  BY <1>1, <3>2, <3>3
  <2>. QED  BY <2>2, <2>3
<1>10. \A i \in 1..D - 1 : c1 < i => LineSays(x[i], l, n1[i])
  <2>1. \A i \in 1..D - 1 : i + 1 \in 1..D /\ i \in 0..D - 1 /\ i # 0 /\ (c1 < i => c < i + 1)
    BY <1>1
  <2>. QED  BY <1>1, <1>3, <1>8, <2>1
<1>11. n1[D - 1] <= b1
  <2>1. D - 1 + 1 = D
    BY <1>1
  <2>2. n1[D - 1] <= n[D] /\ n1[D - 1] \in 0..L /\ n[D] \in 0..L /\ n[D] <= b
    BY <1>3, <1>4, <1>5, <1>8, <2>1
  <2>. QED  BY <1>1, <2>2
<1>. QED  BY <1>1, <1>8, <1>9, <1>10, <1>11 DEF Follows, L, x

\* the connection is lost, and with it the lines under way
LEMMA FollowsLost ==
  ASSUME NEW d \in Seq(Line), NEW h, NEW l, NEW r, NEW b \in Nat, NEW n,
         NEW c, Follows(n, d, h, l, r, b, c), Len(l) \in Nat, NEW r1, Told(r1, l, n[0]),
         NEW b1 \in Nat, b <= b1, NEW c1
  PROVE  \E n1 : Follows(n1, << >>, h, l, r1, b1, c1)
<1>. DEFINE n1 == [i \in 0..0 |-> n[0]]
<1>1. Len(d) \in Nat /\ Len(<< >>) = 0
  BY LenProperties
<1>2. 0 \in 0..Len(d) /\ Len(d) \in 0..Len(d) /\ 0 <= Len(d)
  BY <1>1
<1>3. n[0] \in 0..Len(l) /\ n[Len(d)] \in 0..Len(l) /\ n[0] <= n[Len(d)] /\ n[Len(d)] <= b
  BY <1>2 DEF Follows
<1>4. n[0] <= b1
  BY <1>3
<1>5. n1 \in [0..0 -> 0..Len(l)] /\ n1[0] = n[0]
  BY <1>3
<1>. HIDE DEF n1
<1>6. \A i, j \in 0..0 : i <= j => n1[i] <= n1[j]
  <2>1. n[0] <= n[0]
    BY <1>3
  <2>2. \A i \in 0..0 : i = 0
    OBVIOUS
  <2>. QED  BY <1>5, <2>1, <2>2
<1>7. Says(h, l, n1[0]) /\ Told(r1, l, n1[0])
  BY <1>5 DEF Follows
<1>8. \A i \in 1..0 : c1 < i => LineSays(<< >>[i], l, n1[i])
  OBVIOUS
<1>. QED  BY <1>1, <1>4, <1>5, <1>6, <1>7, <1>8 DEF Follows

\* a message is posted
LEMMA FollowsPost ==
  ASSUME NEW d \in Seq(Line), NEW h, NEW l \in Seq(Posts), NEW r, NEW b, NEW n,
         NEW c, Follows(n, d, h, l, r, b, c), NEW p \in Posts
  PROVE  Follows(n, d, h, Append(l, p), r, b, c)
<1>. DEFINE l1 == Append(l, p)
            L == Len(l)
<1>1. L \in Nat /\ Len(l1) = L + 1 /\ \A i \in 1..L : l1[i] = l[i]
  OBVIOUS
<1>. HIDE DEF l1
<1>2. \A i \in 1..L : i \in 1..L + 1
  BY <1>1
<1>3. ASSUME NEW v, NEW k, Says(v, l, k)
      PROVE  Says(v, l1, k)
  BY <1>1, <1>2, <1>3 DEF Says
<1>4. \A i \in 1..Len(d) : c < i => LineSays(d[i], l1, n[i])
  BY <1>3 DEF Follows, LineSays
<1>5. n \in [0..Len(d) -> 0..Len(l1)]
  <2>1. n \in [0..Len(d) -> 0..L]
    BY DEF Follows
  <2>2. 0..L \subseteq 0..L + 1
    BY <1>1
  <2>. QED  BY <1>1, <2>1, <2>2
<1>6. Told(r, l1, n[0])
  <2>1. PICK f \in [1..Len(r) -> 1..n[0]] :
          /\ \A i, j \in 1..Len(r) : i <= j => f[i] <= f[j]
          /\ \A i \in 1..Len(r) : Quotes(r[i], l[f[i]])
    BY DEF Follows, Told
  <2>2. n[0] \in 0..L
    <3>1. 0 \in 0..Len(d)
      BY LenProperties
    <3>. QED  BY <3>1 DEF Follows
  <2>3. \A i \in 1..Len(r) : f[i] \in 1..L
    BY <1>1, <2>1, <2>2
  <2>4. \A i \in 1..Len(r) : Quotes(r[i], l1[f[i]])
    BY <1>1, <2>1, <2>3
  <2>. QED  BY <2>1, <2>4 DEF Told
<1>7. Says(h, l1, n[0])
  BY <1>3 DEF Follows
<1>. QED  BY <1>4, <1>5, <1>6, <1>7 DEF Follows, l1

-------------------------------------------------------------------------------
(***************************************************************************)
(* The order of what is printed, whatever is cut and however it ends.      *)
(***************************************************************************)
\* the queue is the end of what was posted
QueueIsRest ==
  /\ Len(mqueue) <= Len(posted)
  /\ \A i \in 1..Len(mqueue) : mqueue[i] = posted[Len(posted) - Len(mqueue) + i]

\* how many messages may have been sent
Sent == IF Over THEN Len(posted) ELSE Len(posted) - Len(mqueue)

InPlace == \E n : Follows(n, down, msg.data, posted, shown, Sent, Skip)

LEMMA InitQueueIsRest == Init => QueueIsRest
BY DEF Init, QueueIsRest

LEMMA NextQueueIsRest == TypeOK /\ QueueIsRest /\ [Next]_vars => QueueIsRest'
<1>. SUFFICES ASSUME TypeOK, QueueIsRest, [Next]_vars PROVE QueueIsRest'
  OBVIOUS
<1>1. mqueue \in Seq(Posts) /\ posted \in Seq(Posts) /\ Len(mqueue) \in Nat /\ Len(posted) \in Nat
  BY LenProperties DEF TypeOK
<1>2. CASE UNCHANGED <<mqueue, posted>>
  BY <1>2 DEF QueueIsRest
<1>3. ASSUME mqueue # << >>, mqueue' = Tail(mqueue), posted' = posted
      PROVE  QueueIsRest'
  <2>. DEFINE q == Len(mqueue)
              L == Len(posted)
  <2>1. /\ Len(Tail(mqueue)) = q - 1 /\ q \in Nat \ {0}
        /\ \A i \in 1..q - 1 : Tail(mqueue)[i] = mqueue[i + 1]
    BY <1>1, <1>3
  <2>2. q <= L /\ L \in Nat /\ \A i \in 1..q : mqueue[i] = posted[L - q + i]
    BY <1>1 DEF QueueIsRest
  <2>. HIDE DEF q, L
  <2>3. \A i \in 1..q - 1 : i + 1 \in 1..q /\ L - q + (i + 1) = L - (q - 1) + i
    BY <2>1, <2>2
  <2>4. q - 1 <= L /\ \A i \in 1..q - 1 : Tail(mqueue)[i] = posted[L - (q - 1) + i]
    BY <2>1, <2>2, <2>3
  <2>. QED  BY <1>3, <2>1, <2>4 DEF QueueIsRest, L
<1>4. ASSUME NEW p \in Posts, Post(p)
      PROVE  QueueIsRest'
  <2>. DEFINE q == Len(mqueue)
              L == Len(posted)
  <2>1. /\ Len(mqueue') = q + 1 /\ mqueue'[q + 1] = p /\ \A i \in 1..q : mqueue'[i] = mqueue[i]
        /\ Len(posted') = L + 1 /\ posted'[L + 1] = p /\ \A i \in 1..L : posted'[i] = posted[i]
    BY <1>1, <1>4 DEF Post
  <2>2. q \in Nat /\ q <= L /\ L \in Nat /\ \A i \in 1..q : mqueue[i] = posted[L - q + i]
    BY <1>1 DEF QueueIsRest
  <2>. HIDE DEF q, L
  <2>3. ASSUME NEW i \in 1..q + 1
        PROVE  mqueue'[i] = posted'[(L + 1) - (q + 1) + i]
    <3>1. CASE i = q + 1
      <4>1. (L + 1) - (q + 1) + i = L + 1
        BY <2>2, <3>1
      <4>. QED  BY <2>1, <3>1, <4>1
    <3>2. CASE i \in 1..q
      <4>1. (L + 1) - (q + 1) + i = L - q + i /\ L - q + i \in 1..L
        BY <2>2, <3>2
      <4>. QED  BY <2>1, <2>2, <3>2, <4>1
    <3>3. i = q + 1 \/ i \in 1..q
      BY <2>2
    <3>. QED  BY <3>1, <3>2, <3>3
  <2>4. q + 1 <= L + 1
    BY <2>2
  <2>. DEFINE a == L + 1
              b == q + 1
  <2>5. /\ Len(mqueue') = b /\ Len(posted') = a /\ b <= a
        /\ \A i \in 1..b : mqueue'[i] = posted'[a - b + i]
    <3>1. \A i \in 1..b : mqueue'[i] = posted'[a - b + i]
      BY <2>3, Zenon
    <3>. QED  BY <2>1, <2>4, <3>1, Zenon
  <2>. HIDE DEF a, b
  <2>. QED  BY <2>5 DEF QueueIsRest
<1>5. CASE Deliver \/ SendFails
  BY <1>3, <1>5 DEF Deliver, SendFails
<1>. QED
  BY <1>2, <1>4, <1>5
     DEF Next, Client, Serve, Login, LoginReply, JoinReply, ReplyLost, NextLine, NextLineLost,
         Killed, ServerLogin, ServerJoin, ServerRefuses, ServerConfirms, ServerEOF,
         DequeueTimeout, ServerDies, Finished, Spinning, vars, clientVars, roomVars

\* while nothing is posted, nothing is printed, and the client holds nothing
LEMMA NothingInPlace ==
  posted = << >> /\ mqueue = << >> /\ down \in Seq(Line) /\ Len(down) <= Skip /\ shown \in Seq(Said)
    => (InPlace <=> shown = << >> /\ Len(Fields(msg.data)) # 3)
<1>. SUFFICES ASSUME posted = << >>, mqueue = << >>, down \in Seq(Line), Len(down) <= Skip,
                     shown \in Seq(Said)
              PROVE  InPlace <=> shown = << >> /\ Len(Fields(msg.data)) # 3
  OBVIOUS
<1>1. /\ Len(posted) = 0 /\ Len(mqueue) = 0 /\ Len(down) \in Nat /\ Len(shown) \in Nat
      /\ Sent = 0 /\ Skip \in Nat
  BY SkipType, LenProperties DEF Sent
<1>2. ASSUME InPlace
      PROVE  shown = << >> /\ Len(Fields(msg.data)) # 3
  <2>1. PICK n : Follows(n, down, msg.data, posted, shown, Sent, Skip)
    BY <1>2 DEF InPlace
  <2>2. n[0] \in 0..0
    <3>1. 0 \in 0..Len(down)
      BY <1>1
    <3>. QED  BY <1>1, <2>1, <3>1 DEF Follows
  <2>3. Len(Fields(msg.data)) # 3
    BY <1>1, <2>1, <2>2 DEF Follows, Says
  <2>4. PICK g \in [1..Len(shown) -> 1..n[0]] : TRUE
    BY <2>1 DEF Follows, Told
  <2>5. Len(shown) = 0
    <3>1. SUFFICES ASSUME Len(shown) # 0 PROVE FALSE
      OBVIOUS
    <3>2. 1 \in 1..Len(shown)
      BY <1>1, <3>1
    <3>. QED  BY <2>2, <2>4, <3>2
  <2>. QED  BY <2>3, <2>5, EmptySeq
<1>3. ASSUME shown = << >>, Len(Fields(msg.data)) # 3
      PROVE  InPlace
  <2>. DEFINE n == [i \in 0..Len(down) |-> 0]
              g == [i \in 1..0 |-> 0]
  <2>1. /\ n \in [0..Len(down) -> 0..0] /\ n[0] = 0 /\ n[Len(down)] = 0
        /\ \A i \in 0..Len(down) : n[i] = 0
    BY <1>1
  <2>2. g \in [1..0 -> 1..0] /\ \A i \in 1..0 : FALSE
    OBVIOUS
  <2>3. Told(shown, posted, 0)
    BY <1>3, <2>2, Len(<< >>) = 0 DEF Told
  <2>4. Says(msg.data, posted, 0)
    BY <1>3 DEF Says
  <2>5. \A i \in 1..Len(down) : ~(Skip < i)
    BY <1>1
  <2>6. \A i, j \in 0..Len(down) : n[i] <= n[j]
    BY <2>1
  <2>. HIDE DEF n
  <2>. QED  BY <1>1, <2>1, <2>3, <2>4, <2>5, <2>6 DEF InPlace, Follows
<1>. QED  BY <1>2, <1>3

LEMMA InitInPlace == Init => InPlace
<1>. SUFFICES ASSUME Init PROVE InPlace
  OBVIOUS
<1>1. Len(Fields(<< >>)) # 3
  <2>1. << >> \in Seq(Bytes) /\ Len(<< >>) = 0
    OBVIOUS
  <2>2. SUFFICES ASSUME Len(Fields(<< >>)) = 3 PROVE FALSE
    OBVIOUS
  <2>3. \E i, j \in 1..Len(<< >>) : i < j
    BY <2>1, <2>2, ThreeFields
  <2>. QED  BY <2>1, <2>3
<1>2. msg.data = << >>
  BY DEF Init, NoMessage
<1>3. /\ posted = << >> /\ mqueue = << >> /\ down \in Seq(Line) /\ Len(down) <= Skip
      /\ shown \in Seq(Said) /\ shown = << >>
  <2>1. down = << >> /\ Skip = 2
    BY DEF Init, Skip
  <2>2. Len(<< >>) <= 2
    OBVIOUS
  <2>. QED  BY <2>1, <2>2 DEF Init
<1>. QED  BY <1>1, <1>2, <1>3, NothingInPlace

\* a payload that is printed is printed as the message it belongs to
LEMMA ShowSays ==
  ASSUME TypeOK, NEW m \in Messages, Show(m), NEW l, NEW k, Says(m.data, l, k)
  PROVE  \/ shown' = shown
         \/ k \in 1..Len(l) /\ \E s \in Said : Quotes(s, l[k]) /\ shown' = Append(shown, s)
<1>. DEFINE f == split_payload(m, MAX_LEN)
            s == [sender |-> f[2], text |-> f[3]]
<1>1. CASE Len(f) = 3
  <2>1. Len(<< <<"X">> >>) # 3
    OBVIOUS
  <2>2. f = Fields(m.data)
    BY <1>1, <2>1 DEF split_payload
  <2>3. shown' = Append(shown, s)
    BY <1>1 DEF Show
  <2>4. m.data \in Seq(Bytes)
    BY DEF Messages
  <2>. HIDE DEF f
  <2>5. f[2] \in Seq(Bytes) /\ f[3] \in Seq(Bytes)
    BY <1>1, <2>2, <2>4, FieldTypes
  <2>6. s \in Said
    BY <2>5 DEF Said
  <2>7. k \in 1..Len(l) /\ Quotes(s, l[k])
    BY <1>1, <2>2 DEF Says
  <2>. HIDE DEF s
  <2>. QED  BY <2>3, <2>6, <2>7
<1>2. CASE Len(f) # 3
  BY <1>2 DEF Show
<1>. QED  BY <1>1, <1>2

\* the pieces of what the thread may be writing: of a reply, or of the next message
LEMMA PiecesSay ==
  ASSUME TypeOK, Handshake, QueueIsRest, NEW t \in Seq(Bytes),
         NEW k \in 0..Len(posted),
         \/ t \in {Ok, Err, << >>}
         \/ Inside /\ mqueue # << >> /\ t = Delivery(Head(mqueue)) /\ k = Len(posted) - Len(mqueue) + 1,
         NEW c \in 0..Len(t)
  PROVE  LET e == Pieces(SubSeq(t, 1, c), MAX_LEN)
         IN e \in Seq(Line) /\ \A i \in 1..Len(e) : LineSays(e[i], posted, k)
<1>. DEFINE w == SubSeq(t, 1, c)
            e == Pieces(w, MAX_LEN)
<1>1. w \in Seq(Bytes) /\ Run(w, t, 0)
  <2>1. 0 \in Nat /\ c \in Nat /\ 0 <= c /\ c <= Len(t) /\ 0 + 1 = 1
    BY LenProperties
  <2>2. SubSeq(t, 0 + 1, c) \in Seq(Bytes) /\ Run(SubSeq(t, 0 + 1, c), t, 0)
    BY <2>1, CutIsRun
  <2>. QED  BY <2>1, <2>2
<1>2. Len(w) \in Nat /\ Len(t) \in Nat
  BY <1>1, LenProperties
<1>6. Len(w) <= Len(t)
  BY <1>1, <1>2 DEF Run
<1>. HIDE DEF w
<1>3. e \in Seq(Line)
  BY <1>1, PiecesAreLines
<1>4. MAX_LEN \in Nat \ {0}
  BY SizesAssumption
<1>5. ASSUME NEW i \in 1..Len(e)
      PROVE  LineSays(e[i], posted, k)
  <2>1. e[i] \in Seq(Bytes)
    BY <1>3 DEF Line
  <2>2. \E a : Run(e[i], t, a) /\ (Len(t) > MAX_LEN \/ a = 0)
    <3>1. CASE Len(t) > MAX_LEN
      <4>1. PICK a : Run(e[i], w, a)
        BY <1>1, <1>4, PiecesAreRuns
      <4>2. Len(e[i]) \in Nat
        BY <2>1, LenProperties
      <4>. HIDE DEF e
      <4>3. Run(e[i], t, 0 + a)
        BY <1>1, <1>2, <4>1, <4>2, RunOfRun
      <4>. QED  BY <3>1, <4>3
    <3>2. CASE ~(Len(t) > MAX_LEN)
      <4>1. Len(w) <= MAX_LEN
        BY <1>2, <1>4, <1>6, <3>2
      <4>2. CASE Len(w) = 0
        <5>1. PICK a : Run(e[i], w, a)
          BY <1>1, <1>4, PiecesAreRuns
        <5>2. Len(e[i]) \in 1..MAX_LEN
          BY <1>3 DEF Line
        <5>. HIDE DEF e
        <5>. QED  BY <1>4, <4>2, <5>1, <5>2 DEF Run
      <4>3. CASE Len(w) # 0
        <5>1. e = <<w>>
          <6>1. Len(w) \in 1..MAX_LEN
            BY <1>2, <1>4, <4>1, <4>3
          <6>. QED  BY <1>1, <1>4, <6>1, PiecesOfShort
        <5>. HIDE DEF e
        <5>2. e[i] = w
          BY <5>1
        <5>. QED  BY <1>1, <5>2
      <4>. QED  BY <4>2, <4>3
    <3>. QED  BY <3>1, <3>2
  <2>3. PICK b : Run(e[i], t, b) /\ (Len(t) > MAX_LEN \/ b = 0)
    BY <2>2
  <2>. HIDE DEF e
  <2>. DEFINE x == e[i]
  <2>. HIDE DEF x
  <2>4. x \in Seq(Bytes) /\ Run(x, t, b) /\ (Len(t) > MAX_LEN \/ b = 0)
    BY <2>1, <2>3 DEF x
  <2>5. CASE t \in {Ok, Err}
    <3>1. PICK v \in {"ok", "err"} : t = Encode([tag |-> <<v>>, data |-> <<"X">>])
      BY <2>5 DEF Ok, Err
    <3>2. LineSays(x, posted, k)
      BY <2>4, <3>1, ReplySays
    <3>. QED  BY <3>2 DEF x
  <2>6. CASE t = << >>
    <3>1. Len(x) = 0
      <4>1. Len(t) = 0 /\ Len(x) \in Nat
        BY <2>4, <2>6, LenProperties
      <4>. QED  BY <2>4, <4>1 DEF Run
    <3>2. Len(e[i]) \in 1..MAX_LEN
      BY <1>3 DEF Line
    <3>. QED  BY <3>1, <3>2 DEF x
  <2>7. CASE Inside /\ mqueue # << >> /\ t = Delivery(Head(mqueue)) /\ k = Len(posted) - Len(mqueue) + 1
    <3>. DEFINE p == Head(mqueue)
    <3>1. mqueue \in Seq(Posts) /\ posted \in Seq(Posts) /\ room \in Seq(Bytes)
      BY DEF TypeOK
    <3>2. p \in Posts /\ p = mqueue[1] /\ 1 \in 1..Len(mqueue)
      BY <2>7, <3>1
    <3>. HIDE DEF p
    <3>3. k \in 1..Len(posted) /\ posted[k] = p
      <4>1. Len(posted) - Len(mqueue) + 1 \in 1..Len(posted)
        BY <3>1, <3>2, LenProperties DEF QueueIsRest
      <4>. QED  BY <2>7, <3>2, <4>1 DEF QueueIsRest
    <3>5. isValidRoomName(room)
      BY <2>7 DEF Handshake
    <3>6. Run(x, Delivery(p), b) /\ (Len(Delivery(p)) > MAX_LEN \/ b = 0)
      BY <2>4, <2>7 DEF p
    <3>7. LineSays(x, posted, k)
      BY <2>4, <3>1, <3>2, <3>3, <3>5, <3>6, DeliverySays
    <3>. QED  BY <3>7 DEF x
  <2>. QED  BY <2>5, <2>6, <2>7
<1>. QED  BY <1>3, <1>5 DEF w

LEMMA NextInPlace ==
  TypeOK /\ TypeOK' /\ Handshake /\ QueueIsRest /\ QueueIsRest' /\ InPlace /\ [Next]_vars
    => InPlace'
<1>. SUFFICES ASSUME TypeOK, TypeOK', Handshake, QueueIsRest, QueueIsRest', InPlace, [Next]_vars
              PROVE  InPlace'
  OBVIOUS
<1>5. CASE ServerJoin
  <2>1. server = "join" /\ UNCHANGED <<at, msg, shown, down, mqueue, posted>>
    BY <1>5 DEF ServerJoin, clientVars
  <2>2. /\ posted = << >> /\ mqueue = << >> /\ down \in Seq(Line) /\ Len(down) <= Skip
        /\ shown \in Seq(Said)
    BY <2>1, DownType DEF TypeOK, Said, Handshake
  <2>3. Skip' = Skip
    BY <2>1 DEF Skip
  <2>4. (posted = << >> /\ mqueue = << >> /\ down \in Seq(Line) /\ Len(down) <= Skip
           /\ shown \in Seq(Said))'
    <3>1. /\ posted' = << >> /\ mqueue' = << >> /\ down' \in Seq(Line) /\ Len(down') <= Skip'
          /\ shown' \in Seq(Said)
      BY <2>1, <2>2, <2>3
    <3>. QED  BY <3>1 DEF Line, Said
  <2>5. (shown = << >> /\ Len(Fields(msg.data)) # 3)'
    <3>1. shown = << >> /\ Len(Fields(msg.data)) # 3
      BY <2>2, NothingInPlace
    <3>. QED  BY <2>1, <3>1
  <2>6. InPlace' <=> (shown = << >> /\ Len(Fields(msg.data)) # 3)'
    BY <2>4, NothingInPlace, PTL
  <2>. QED  BY <2>5, <2>6
<1>. SUFFICES ASSUME ~ServerJoin PROVE InPlace'
  BY <1>5
<1>31. room' = room
  BY RoomKept
<1>. DEFINE Goal == \E n : Follows(n, down', msg'.data, posted', shown', Sent', Skip')
<1>. SUFFICES Goal
  <2>1. \A x, p : Quotes(x, p)' <=> Quotes(x, p)
    BY <1>31 DEF Quotes, Garbled, Delivery
  <2>2. Goal => (\E n : Follows(n, down, msg.data, posted, shown, Sent, Skip))'
    BY <2>1 DEF Follows, LineSays, Says, Told
  <2>. QED  BY <2>2 DEF InPlace
<1>1. /\ down \in Seq(Line) /\ posted \in Seq(Posts) /\ mqueue \in Seq(Posts)
      /\ shown \in Seq(Said) /\ msg \in Messages /\ room \in Seq(Bytes)
      /\ Len(posted) \in Nat /\ Len(mqueue) \in Nat /\ Len(mqueue) <= Len(posted)
      /\ server \in {"login", "join", "member", "serve", "closed", "reset"}
  BY DownType, LenProperties DEF TypeOK, Said, QueueIsRest
<1>2. Sent \in 0..Len(posted) /\ Sent \in Nat
  BY <1>1 DEF Sent
<1>3. msg' \in Messages /\ Len(posted') \in Nat /\ Len(mqueue') \in Nat /\ Len(mqueue') <= Len(posted')
  BY LenProperties DEF TypeOK, QueueIsRest
<1>4. Sent' \in Nat
  BY <1>3 DEF Sent
<1>7. PICK n : Follows(n, down, msg.data, posted, shown, Sent, Skip)
  BY DEF InPlace
<1>34. up \in Seq(Line)
  BY DownType DEF TypeOK
<1>32. Skip \in Nat /\ Skip' \in Nat /\ (at' = at => Skip' = Skip)
  BY DEF Skip
<1>8. /\ Told(shown, posted, n[0]) /\ Says(msg.data, posted, n[0])
      /\ n[0] \in 0..Len(posted)
      /\ \A i \in 1..Len(down) : Skip < i => LineSays(down[i], posted, n[i])
  <2>1. 0 \in 0..Len(down)
    BY <1>1, LenProperties
  <2>. QED  BY <1>7, <2>1 DEF Follows
\* no more has been sent than before, or the connection is over
<1>9. ASSUME UNCHANGED <<mqueue, posted>>, server' = server \/ Over' \/ (~Over /\ ~Over')
      PROVE  Sent <= Sent'
  BY <1>1, <1>9 DEF Sent, Over
<1>10. Ok \in Line /\ Err \in Line
  BY ServiceIsLine
<1>11. \A k : LineSays(Ok, posted, k) /\ LineSays(Err, posted, k)
  <2>1. \A t \in {Ok, Err} : t \in Seq(Bytes) /\ Run(t, t, 0)
    <3>1. Ok \in Seq(Bytes) /\ Err \in Seq(Bytes)
      BY <1>10 DEF Line
    <3>2. ASSUME NEW t \in Seq(Bytes)
          PROVE  Run(t, t, 0)
      <4>1. Len(t) \in Nat
        BY LenProperties
      <4>2. \A i \in 1..Len(t) : 0 + i = i
        BY <4>1
      <4>. QED  BY <4>1, <4>2 DEF Run
    <3>. QED  BY <3>1, <3>2
  <2>2. ASSUME NEW k
        PROVE  LineSays(Ok, posted, k) /\ LineSays(Err, posted, k)
    <3>1. "ok" \in {"ok", "err"} /\ "err" \in {"ok", "err"}
      OBVIOUS
    <3>. QED  BY <2>1, <3>1, ReplySays DEF Ok, Err
  <2>. QED  BY <2>2
\* a reply, or nothing, is sent
<1>12. ASSUME NEW e \in Seq(Line), down' = down \o e, UNCHANGED <<at, msg, posted, shown>>,
              \A i \in 1..Len(e) : Skip < Len(down) + i => LineSays(e[i], posted, Sent),
              Sent <= Sent'
       PROVE  Goal
  <2>. DEFINE b == Sent
              b1 == Sent'
              c == Skip
  <2>1. /\ b \in Nat /\ b1 \in Nat /\ c \in Nat /\ b <= b1 /\ b \in 0..Len(posted)
        /\ down \in Seq(Line) /\ Len(posted) \in Nat
    BY <1>1, <1>2, <1>4, <1>12, <1>32
  <2>2. Follows(n, down, msg.data, posted, shown, b, c)
    BY <1>7
  <2>3. \A i \in 1..Len(e) : c < Len(down) + i => LineSays(e[i], posted, b)
    BY <1>12
  <2>. HIDE DEF b, b1, c
  <2>4. b <= b
    BY <2>1
  <2>5. \E n1 : Follows(n1, down \o e, msg.data, posted, shown, b1, c)
    BY <1>12, <2>1, <2>2, <2>3, <2>4, FollowsMore
  <2>6. \E n1 : Follows(n1, down', msg'.data, posted', shown', Sent', Skip')
    <3>1. Skip' = Skip
      BY <1>12, <1>32
    <3>. QED  BY <1>12, <2>5, <3>1 DEF b1, c
  <2>. QED  BY <2>6
<1>13. ASSUME NEW x \in {Ok, Err}, down' = Append(down, x),
              UNCHANGED <<at, msg, posted, shown>>, Sent <= Sent'
       PROVE  Goal
  <2>. DEFINE e == <<x>>
  <2>1. x \in Line /\ LineSays(x, posted, Sent)
    BY <1>10, <1>11
  <2>2. e \in Seq(Line) /\ Len(e) = 1 /\ e[1] = x /\ down' = down \o e
    BY <1>1, <1>13, <2>1
  <2>. HIDE DEF e
  <2>3. \A i \in 1..Len(e) : LineSays(e[i], posted, Sent)
    BY <2>1, <2>2
  <2>. QED  BY <1>12, <1>13, <2>2, <2>3
<1>14. ASSUME UNCHANGED <<down, msg, posted, shown>>, Sent <= Sent', Skip <= Skip'
       PROVE  Goal
  <2>1. n[Len(down)] \in 0..Len(posted) /\ n[Len(down)] <= Sent
    <3>1. Len(down) \in 0..Len(down)
      BY <1>1, LenProperties
    <3>. QED  BY <1>7, <3>1 DEF Follows
  <2>2. n[Len(down)] <= Sent'
    BY <1>2, <1>4, <1>14, <2>1
  <2>4. \A i \in 1..Len(down) : Skip' < i => Skip < i
    <3>. DEFINE c == Skip
                c1 == Skip'
    <3>1. c \in Nat /\ c1 \in Nat /\ c <= c1
      BY <1>14, <1>32
    <3>. HIDE DEF c, c1
    <3>2. \A i \in 1..Len(down) : c1 < i => c < i
      BY <3>1
    <3>. QED  BY <3>2 DEF c, c1
  <2>3. Follows(n, down, msg.data, posted, shown, Sent', Skip')
    BY <1>7, <2>2, <2>4 DEF Follows
  <2>. QED  BY <1>14, <2>3
<1>15. ASSUME down # << >>, down' = Tail(down), UNCHANGED <<msg, posted, shown>>, Sent <= Sent',
              Skip <= Skip' + 1
       PROVE  Goal
  <2>1. \E n1 : Follows(n1, Tail(down), msg.data, posted, shown, Sent', Skip')
    BY <1>1, <1>2, <1>4, <1>7, <1>8, <1>15, <1>32, FollowsRead
  <2>. QED  BY <1>15, <2>1
<1>16. CASE Login
  <2>1. Sent <= Sent'
    BY <1>9, <1>16 DEF Login, roomVars, Over
  <2>2. Skip <= Skip'
    BY <1>16 DEF Login, Skip
  <2>. QED  BY <1>14, <1>16, <2>1, <2>2 DEF Login, roomVars
<1>17. CASE LoginReply
  <2>1. Sent <= Sent'
    BY <1>9, <1>17 DEF LoginReply, roomVars, Over
  <2>2. Skip <= Skip' + 1
    BY <1>17 DEF LoginReply, Skip
  <2>. QED  BY <1>15, <1>17, <2>1, <2>2 DEF LoginReply, roomVars
<1>18. CASE JoinReply
  <2>1. Sent <= Sent'
    BY <1>9, <1>18 DEF JoinReply, roomVars
  <2>2. Skip <= Skip' + 1
    BY <1>18 DEF JoinReply, Skip
  <2>. QED  BY <1>15, <1>18, <2>1, <2>2 DEF JoinReply, roomVars
<1>19. CASE ReplyLost
  <2>1. Sent <= Sent'
    BY <1>9, <1>19 DEF ReplyLost, roomVars
  <2>2. \E n1 : Follows(n1, << >>, msg.data, posted, shown, Sent', Skip')
    BY <1>1, <1>2, <1>4, <1>7, <1>8, <2>1, FollowsLost
  <2>. QED  BY <1>19, <2>2 DEF ReplyLost, roomVars
<1>20. CASE NextLine
  <2>1. /\ down # << >> /\ down' = Tail(down) /\ msg' = Received(msg, Head(down)) /\ Show(msg')
        /\ UNCHANGED <<mqueue, posted, server>> /\ at = "loop" /\ at' = "loop"
    BY <1>20 DEF NextLine, roomVars
  <2>2. Sent <= Sent'
    BY <1>9, <2>1
  <2>3. /\ Head(down) = down[1] /\ 1 \in 1..Len(down)
        /\ 0 \in 0..Len(down) /\ 1 \in 0..Len(down) /\ 0 <= 1
    BY <1>1, <2>1
  <2>4. n[1] \in 0..Len(posted) /\ n[0] <= n[1]
    BY <1>7, <2>3 DEF Follows
  <2>12. Skip = 0 /\ Skip' = 0 /\ 0 < 1 /\ 0 <= 0 + 1
    BY <2>1 DEF Skip
  <2>5. \E c \in {n[0], n[1]} : Says(msg'.data, posted, c)
    <3>1. CASE Valid(Trim(down[1]))
      <4>1. msg'.data = DataOf(Trim(down[1]))
        BY <2>1, <2>3, <3>1, ReceivedIs
      <4>2. LineSays(down[1], posted, n[1])
        BY <1>8, <2>3, <2>12
      <4>. QED  BY <3>1, <4>1, <4>2 DEF LineSays
    <3>2. CASE ~Valid(Trim(down[1]))
      <4>1. msg'.data = msg.data
        BY <1>1, <2>1, <2>3, <3>2, ReceivedIs DEF Messages
      <4>. QED  BY <1>8, <4>1
    <3>. QED  BY <3>1, <3>2
  <2>6. PICK c \in {n[0], n[1]} : Says(msg'.data, posted, c)
    BY <2>5
  <2>7. c \in Nat /\ n[0] \in Nat /\ n[0] <= c
    BY <1>8, <2>4, <2>6
  <2>8. \/ shown' = shown
        \/ c \in 1..Len(posted) /\ \E s \in Said : Quotes(s, posted[c]) /\ shown' = Append(shown, s)
    BY <1>3, <2>1, <2>6, ShowSays
  <2>9. shown' = shown \/ (c # 0 /\ \E s \in Said : Quotes(s, posted[c]) /\ shown' = Append(shown, s))
    BY <2>8
  <2>10. Told(shown', posted, c)
    BY <1>1, <1>8, <2>7, <2>9, ToldMore
  <2>11. \E n1 : Follows(n1, Tail(down), msg'.data, posted, shown', Sent', Skip')
    <3>. DEFINE b == Sent
                b1 == Sent'
                h1 == msg'.data
                r1 == shown'
                c0 == Skip
                c1 == Skip'
    <3>1. Follows(n, down, msg.data, posted, shown, b, c0)
      BY <1>7
    <3>2. Says(h1, posted, c) /\ Told(r1, posted, c)
      BY <2>6, <2>10
    <3>3. /\ b \in Nat /\ b1 \in Nat /\ b <= b1 /\ c0 \in Nat /\ c1 \in Nat /\ c0 <= c1 + 1
          /\ down \in Seq(Line) /\ down # << >> /\ Len(posted) \in Nat /\ (c = n[0] \/ c = n[1])
      BY <1>1, <1>2, <1>4, <2>1, <2>2, <2>6, <2>12
    <3>. HIDE DEF b, b1, h1, r1, c0, c1
    <3>4. \E n1 : Follows(n1, Tail(down), h1, posted, r1, b1, c1)
      BY <3>1, <3>2, <3>3, FollowsRead
    <3>. QED  BY <3>4 DEF b1, h1, r1, c1
  <2>. QED  BY <2>1, <2>11, <2>12
<1>21. CASE NextLineLost
  <2>1. /\ down' = << >> /\ msg' = [msg EXCEPT !.tag = <<"err">>] /\ Show(msg')
        /\ UNCHANGED <<mqueue, posted, server>>
    BY <1>21 DEF NextLineLost, roomVars
  <2>2. Sent <= Sent'
    BY <1>9, <2>1
  <2>3. msg'.data = msg.data
    BY <1>1, <2>1 DEF Messages
  <2>4. n[0] \in Nat /\ n[0] <= n[0]
    BY <1>8
  <2>5. \/ shown' = shown
        \/ n[0] \in 1..Len(posted)
           /\ \E s \in Said : Quotes(s, posted[n[0]]) /\ shown' = Append(shown, s)
    BY <1>3, <1>8, <2>1, <2>3, ShowSays
  <2>6. shown' = shown
        \/ (n[0] # 0 /\ \E s \in Said : Quotes(s, posted[n[0]]) /\ shown' = Append(shown, s))
    BY <2>5
  <2>7. Told(shown', posted, n[0])
    BY <1>1, <1>8, <2>4, <2>6, ToldMore
  <2>8. \E n1 : Follows(n1, << >>, msg.data, posted, shown', Sent', Skip')
    BY <1>1, <1>2, <1>4, <1>7, <2>2, <2>7, FollowsLost
  <2>. QED  BY <2>1, <2>3, <2>8
<1>22. CASE Killed \/ ServerEOF \/ UNCHANGED vars
  <2>1. /\ UNCHANGED <<down, msg, posted, shown, mqueue>>
        /\ (server' = server \/ Over' \/ (~Over /\ ~Over'))
        /\ Skip <= Skip'
    BY <1>22 DEF Killed, ServerEOF, vars, clientVars, roomVars, Over, Skip
  <2>. QED  BY <1>9, <1>14, <2>1
<1>23. CASE SendFails
  <2>1. Sent' = Len(posted) /\ UNCHANGED <<at, down, msg, posted, shown>>
    BY <1>23 DEF SendFails, EndThread, clientVars, Sent, Over
  <2>2. Sent <= Sent'
    BY <1>1, <1>2, <2>1
  <2>3. Skip <= Skip'
    <3>1. Skip' = Skip
      BY <1>32, <2>1
    <3>. QED  BY <1>32, <3>1
  <2>. QED  BY <1>14, <2>1, <2>2, <2>3
\* of what is written before the client logs in, or instead of its welcome, all is skipped
<1>33. ASSUME server = "login", at # "start", NEW e \in Seq(Line), Len(e) <= 2, down' = down \o e,
              UNCHANGED <<at, msg, posted, shown>>, Sent <= Sent'
       PROVE  Goal
  <2>1. down = << >> /\ Skip = 2 /\ Len(down) = 0
    BY <1>33 DEF Handshake, Skip
  <2>2. ASSUME NEW i \in 1..Len(e)
        PROVE  ~(2 < 0 + i)
    BY <1>33, LenProperties
  <2>3. \A i \in 1..Len(e) : Skip < Len(down) + i => LineSays(e[i], posted, Sent)
    BY <2>1, <2>2
  <2>. QED  BY <1>12, <1>33, <2>3
<1>24. CASE ServerLogin
  <2>. DEFINE e == Pieces(Welcome, MAX_LEN)
  <2>1. /\ UNCHANGED <<at, msg, posted, shown, mqueue>> /\ server = "login" /\ server' = "join"
        /\ down' = down \o e /\ up # << >>
    BY <1>24 DEF ServerLogin, clientVars, roomVars
  <2>2. Sent <= Sent'
    BY <1>9, <2>1 DEF Over
  <2>3. e \in Seq(Line) /\ Len(e) <= 2
    <3>1. Welcome \in Seq(Bytes) /\ Len(Welcome) <= 2 * MAX_LEN
      BY <1>34, <2>1, RequestType
    <3>2. MAX_LEN \in Nat \ {0}
      BY SizesAssumption
    <3>. QED  BY <3>1, <3>2, PiecesAreLines, PiecesOfTwo
  <2>4. at # "start"
    BY <2>1 DEF Handshake
  <2>. HIDE DEF e
  <2>. QED  BY <1>33, <2>1, <2>2, <2>3, <2>4
<1>25. CASE ServerRefuses
  <2>1. /\ UNCHANGED <<at, msg, posted, shown, mqueue>> /\ Over' /\ down' = Append(down, Err)
    BY <1>25 DEF ServerRefuses, EndThread, clientVars, roomVars, Over
  <2>2. Sent <= Sent'
    BY <1>9, <2>1
  <2>. QED  BY <1>13, <2>1, <2>2
<1>26. CASE ServerConfirms
  <2>1. /\ UNCHANGED <<at, msg, posted, shown, mqueue>> /\ ~Over /\ ~Over' /\ down' = Append(down, Ok)
    BY <1>26 DEF ServerConfirms, clientVars, roomVars, Over
  <2>2. Sent <= Sent'
    BY <1>9, <2>1
  <2>. QED  BY <1>13, <2>1, <2>2
<1>27. CASE DequeueTimeout
  <2>1. /\ UNCHANGED <<at, msg, posted, shown, mqueue, server>> /\ down' = Append(down, Err)
    BY <1>27 DEF DequeueTimeout, clientVars, roomVars
  <2>2. Sent <= Sent'
    BY <1>9, <2>1
  <2>. QED  BY <1>13, <2>1, <2>2
<1>28. CASE Deliver
  <2>. DEFINE t == Delivery(Head(mqueue))
              k == Len(posted) - Len(mqueue) + 1
              e == Pieces(SubSeq(t, 1, Len(t)), MAX_LEN)
  <2>1. /\ UNCHANGED <<at, msg, posted, shown, server>> /\ server = "serve" /\ mqueue # << >>
        /\ mqueue' = Tail(mqueue) /\ down' = down \o Pieces(t, MAX_LEN)
    BY <1>28 DEF Deliver, clientVars
  <2>2. t \in Seq(Bytes) /\ Len(t) \in 0..Len(t)
    <3>1. Head(mqueue) \in Posts
      BY <1>1, <2>1
    <3>2. t \in Seq(Bytes)
      BY <1>1, <3>1, DeliveryLength
    <3>3. Len(t) \in Nat
      BY <3>2, LenProperties
    <3>. QED  BY <3>2, <3>3
  <2>3. k \in 0..Len(posted) /\ Sent = k - 1 /\ Sent' = k
    <3>1. Len(mqueue) \in Nat \ {0} /\ Len(mqueue') = Len(mqueue) - 1
      BY <1>1, <2>1
    <3>2. Sent = Len(posted) - Len(mqueue) /\ Sent' = Len(posted) - Len(mqueue')
      BY <2>1 DEF Sent, Over
    <3>. QED  BY <1>1, <3>1, <3>2
  <2>4. Pieces(t, MAX_LEN) = e
    <3>1. SubSeq(t, 1, Len(t)) = t
      <4>. HIDE DEF t
      <4>1. SubSeq(t, 1, Len(t)) \in Seq(Bytes) /\ Len(SubSeq(t, 1, Len(t))) = Len(t)
        BY <2>2, CutTypes
      <4>2. \A i \in 1..Len(t) : SubSeq(t, 1, Len(t))[i] = t[i]
        BY <2>2
      <4>. QED  BY <2>2, <4>1, <4>2, SeqEqual
    <3>. QED  BY <3>1
  <2>5. Inside /\ mqueue # << >> /\ t = Delivery(Head(mqueue)) /\ k = Len(posted) - Len(mqueue) + 1
    BY <2>1 DEF Inside
  <2>6. e \in Seq(Line) /\ \A i \in 1..Len(e) : LineSays(e[i], posted, k)
    <3>. HIDE DEF t, k
    <3>. QED  BY <2>2, <2>3, <2>5, PiecesSay
  <2>. HIDE DEF e, k
  <2>7. Sent <= k /\ k <= Sent'
    BY <1>1, <2>3
  <2>8. \E n1 : Follows(n1, down \o e, msg.data, posted, shown, Sent', Skip)
    BY <1>1, <1>2, <1>4, <1>7, <1>32, <2>3, <2>6, <2>7, FollowsMore
  <2>. QED  BY <1>32, <2>1, <2>4, <2>8
<1>29. CASE ServerDies
  <2>1. PICK c \in 0..Len(Writing) : down' = down \o Pieces(SubSeq(Writing, 1, c), MAX_LEN)
    BY <1>29 DEF ServerDies
  <2>2. UNCHANGED <<at, msg, posted, shown, mqueue>> /\ ~Over /\ Over'
    BY <1>29 DEF ServerDies, clientVars, roomVars, Over
  <2>. DEFINE t == Writing
              e == Pieces(SubSeq(t, 1, c), MAX_LEN)
  <2>3. t \in Seq(Bytes)
    BY <1>1, <1>34, WritingType
  <2>10. c \in 0..Len(t)
    OBVIOUS
  <2>11. CASE server = "login" /\ Requested
    <3>1. at # "start" /\ Welcome \in Seq(Bytes) /\ Len(Welcome) <= 2 * MAX_LEN /\ t = Welcome
      BY <1>34, <2>11, RequestType DEF Requested, Handshake, Writing
    <3>. HIDE DEF t
    <3>. DEFINE w == SubSeq(t, 1, c)
    <3>2. w \in Seq(Bytes) /\ Len(w) = c
      BY <2>3, <2>10, CutTypes
    <3>. HIDE DEF w
    <3>3. MAX_LEN \in Nat \ {0} /\ Len(t) \in Nat
      BY <2>3, LenProperties, SizesAssumption
    <3>4. Len(w) <= 2 * MAX_LEN
      BY <2>10, <3>1, <3>2, <3>3
    <3>5. Pieces(w, MAX_LEN) \in Seq(Line) /\ Len(Pieces(w, MAX_LEN)) <= 2
      BY <3>2, <3>3, <3>4, PiecesAreLines, PiecesOfTwo
    <3>6. Sent <= Sent'
      BY <1>9, <2>2
    <3>7. down' = down \o Pieces(w, MAX_LEN)
      BY <2>1 DEF w, t
    <3>. QED  BY <1>33, <2>2, <2>11, <3>1, <3>5, <3>6, <3>7
  <2>. SUFFICES ASSUME ~(server = "login" /\ Requested) PROVE Goal
    BY <2>11
  <2>4. PICK k \in 0..Len(posted) :
          /\ Sent <= k
          /\ \/ t \in {Ok, Err, << >>}
             \/ Inside /\ mqueue # << >> /\ t = Delivery(Head(mqueue)) /\ k = Len(posted) - Len(mqueue) + 1
    <3>1. CASE server = "serve" /\ mqueue # << >>
      <4>. DEFINE k == Len(posted) - Len(mqueue) + 1
      <4>1. Len(mqueue) \in Nat \ {0}
        BY <1>1, <3>1
      <4>2. Sent = Len(posted) - Len(mqueue)
        BY <2>2 DEF Sent
      <4>3. k \in 0..Len(posted) /\ Sent <= k
        BY <1>1, <4>1, <4>2
      <4>4. Inside /\ t = Delivery(Head(mqueue))
        BY <3>1 DEF Inside, Writing
      <4>. QED  BY <3>1, <4>3, <4>4
    <3>2. CASE ~(server = "serve" /\ mqueue # << >>)
      <4>1. t \in {Ok, Err, << >>}
        BY <3>2 DEF Writing
      <4>2. Sent <= Sent
        BY <1>2
      <4>. QED  BY <1>2, <4>1, <4>2
    <3>. QED  BY <3>1, <3>2
  <2>. HIDE DEF t
  <2>5. e \in Seq(Line) /\ \A i \in 1..Len(e) : LineSays(e[i], posted, k)
    <3>1. c \in 0..Len(t)
      BY DEF t
    <3>. QED  BY <2>3, <2>4, <3>1, PiecesSay
  <2>6. down' = down \o e
    BY <2>1 DEF t
  <2>. HIDE DEF e
  <2>7. Sent' = Len(posted)
    BY <2>2 DEF Sent
  <2>8. k <= Sent'
    BY <1>1, <2>4, <2>7
  <2>9. \E n1 : Follows(n1, down \o e, msg.data, posted, shown, Sent', Skip)
    BY <1>1, <1>2, <1>4, <1>7, <1>32, <2>4, <2>5, <2>8, FollowsMore
  <2>. QED  BY <1>32, <2>2, <2>6, <2>9
<1>30. ASSUME NEW p \in Posts, Post(p)
       PROVE  Goal
  <2>1. /\ mqueue' = Append(mqueue, p) /\ posted' = Append(posted, p) /\ Inside
        /\ UNCHANGED <<at, down, msg, shown, server>>
    BY <1>30 DEF Post, clientVars
  <2>2. Sent' = Sent
    <3>1. Len(mqueue') = Len(mqueue) + 1 /\ Len(posted') = Len(posted) + 1
      BY <1>1, <2>1
    <3>2. Sent = Len(posted) - Len(mqueue) /\ Sent' = Len(posted') - Len(mqueue')
      BY <2>1 DEF Sent, Over, Inside
    <3>. QED  BY <1>1, <3>1, <3>2
  <2>3. Follows(n, down, msg.data, Append(posted, p), shown, Sent, Skip)
    BY <1>1, <1>7, FollowsPost
  <2>. QED  BY <1>32, <2>1, <2>2, <2>3
<1>. QED
  BY <1>16, <1>17, <1>18, <1>19, <1>20, <1>21, <1>22, <1>23, <1>24, <1>25, <1>26,
     <1>27, <1>28, <1>29, <1>30
     DEF Next, Client, Serve, Finished, Spinning

LEMMA InPlaceKeepsOrder == TypeOK /\ InPlace => ShownKeepsOrder
<1>. SUFFICES ASSUME TypeOK, InPlace
              PROVE  \E source \in [1..Len(shown) -> 1..Len(posted)] :
                       /\ \A i, j \in 1..Len(shown) : i <= j => source[i] <= source[j]
                       /\ \A i \in 1..Len(shown) : Quotes(shown[i], posted[source[i]])
  BY DEF ShownKeepsOrder, Quotes
<1>1. down \in Seq(Line) /\ Len(posted) \in Nat
  BY DownType, LenProperties DEF TypeOK
<1>2. PICK n : Follows(n, down, msg.data, posted, shown, Sent, Skip)
  BY DEF InPlace
<1>3. n[0] \in 0..Len(posted)
  <2>1. 0 \in 0..Len(down)
    BY <1>1, LenProperties
  <2>. QED  BY <1>2, <2>1 DEF Follows
<1>4. PICK f \in [1..Len(shown) -> 1..n[0]] :
        /\ \A i, j \in 1..Len(shown) : i <= j => f[i] <= f[j]
        /\ \A i \in 1..Len(shown) : Quotes(shown[i], posted[f[i]])
  BY <1>2 DEF Follows, Told
<1>5. f \in [1..Len(shown) -> 1..Len(posted)]
  <2>1. 1..n[0] \subseteq 1..Len(posted)
    BY <1>1, <1>3
  <2>. QED  BY <1>4, <2>1
<1>. QED  BY <1>4, <1>5

(***************************************************************************)
(* However long the deliveries are and wherever the end of the server cuts *)
(* the last, the client prints only what was broadcast, and never goes     *)
(* back behind a message it has printed; under the name of who said it,    *)
(* the text perhaps cut, unless the name has colons, or the text has and   *)
(* the delivery is longer than MAX_LEN: of such a message it may print any *)
(* part as if somebody else had said it.                                   *)
(***************************************************************************)
THEOREM PrintingKeepsOrder == Spec => []ShownKeepsOrder
<1>. DEFINE I == TypeOK /\ Handshake /\ QueueIsRest /\ InPlace
<1>1. Init => I
  BY InitTypes, InitHandshake, InitQueueIsRest, InitInPlace
<1>2. I /\ [Next]_vars => I'
  BY NextTypes, NextHandshake, NextQueueIsRest, NextInPlace
<1>3. I => ShownKeepsOrder
  BY InPlaceKeepsOrder
<1>. QED  BY <1>1, <1>2, <1>3, PTL DEF Spec
===============================================================================
