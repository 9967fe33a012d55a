---------------------------- MODULE SequenceFacts ----------------------------
(***************************************************************************)
(* Facts that the proofs of several modules use: about sequences, about    *)
(* Lists, and about the text of messages (Trim, Pieces, the first colon,   *)
(* the fields of a payload, which are runs of consecutive symbols of it).  *)
(***************************************************************************)
EXTENDS Text, Listing, SequenceTheorems, FiniteSetTheorems,
        WellFoundedInduction, TLAPS

(***************************************************************************)
(* Cutting a sequence in two.                                              *)
(***************************************************************************)
LEMMA CutTypes ==
  ASSUME NEW S, NEW s \in Seq(S), NEW n \in 0..Len(s)
  PROVE  /\ SubSeq(s, 1, n) \in Seq(S) /\ Len(SubSeq(s, 1, n)) = n
         /\ SubSeq(s, n + 1, Len(s)) \in Seq(S)
         /\ Len(SubSeq(s, n + 1, Len(s))) = Len(s) - n
<1>1. \A i \in 1..n : s[i] \in S
  OBVIOUS
<1>2. \A i \in n + 1..Len(s) : s[i] \in S
  OBVIOUS
<1>. QED  BY <1>1, <1>2, SubSeqProperties

LEMMA CutConcat ==
  ASSUME NEW S, NEW s \in Seq(S), NEW n \in 0..Len(s)
  PROVE  SubSeq(s, 1, n) \o SubSeq(s, n + 1, Len(s)) = s
<1>. DEFINE l == SubSeq(s, 1, n)
            r == SubSeq(s, n + 1, Len(s))
<1>1. l \in Seq(S) /\ r \in Seq(S) /\ Len(l) = n /\ Len(r) = Len(s) - n
  BY CutTypes
<1>2. \A i \in 1..n : l[i] = s[i]
  OBVIOUS
<1>3. \A i \in 1..Len(s) - n : r[i] = s[n + i]
  OBVIOUS
<1>. HIDE DEF l, r
<1>4. l \o r \in Seq(S) /\ Len(l \o r) = Len(s)
  BY <1>1, ConcatProperties
<1>5. ASSUME NEW i \in 1..Len(s) PROVE (l \o r)[i] = s[i]
  <2>1. CASE i <= n
    BY <1>1, <1>2, <2>1, ConcatProperties
  <2>2. CASE i > n
    <3>1. i - n \in 1..Len(s) - n
      BY <2>2
    <3>2. (l \o r)[i] = r[i - n]
      BY <1>1, <2>2, <3>1, ConcatProperties
    <3>3. r[i - n] = s[n + (i - n)]
      BY <1>3, <3>1
    <3>. QED  BY <3>2, <3>3
  <2>3. i <= n \/ i > n
    OBVIOUS
  <2>. QED  BY <2>1, <2>2, <2>3
<1>6. l \o r = s
  BY <1>4, <1>5, SeqEqual
<1>. QED  BY <1>6 DEF l, r

\* bytes that pass from one part of the stream to the part before it
LEMMA MoveBetween ==
  ASSUME NEW a \in Seq(Bytes), NEW b \in Seq(Bytes), NEW c \in Seq(Bytes), NEW d \in Seq(Bytes)
  PROVE  a \o b \o c \o d = a \o b \o (c \o d)
<1>. DEFINE x == a \o b
<1>1. x \in Seq(Bytes)
  BY ConcatProperties
<1>. HIDE DEF x
<1>2. (x \o c) \o d = x \o (c \o d)
  BY <1>1, ConcatAssociative, SMTT(30)
<1>. QED  BY <1>2 DEF x

(***************************************************************************)
(* The first and the last of a set of positions.                           *)
(***************************************************************************)
LEMMA LeastExists ==
  ASSUME NEW K, K \subseteq Nat, K # {}
  PROVE  \E i \in K : \A j \in K : i <= j
<1>. DEFINE R == OpToRel(<, Nat)
<1>1. IsWellFoundedOn(R, Nat)
  BY NatLessThanWellFounded
<1>2. \A i, j \in Nat : j < i => <<j, i>> \in R
  BY DEF OpToRel
<1>. HIDE DEF R
<1>3. PICK i \in K : \A j \in K : ~ (<<j, i>> \in R)
  BY <1>1, WFMin
<1>4. ASSUME NEW j \in K PROVE i <= j
  <2>1. i \in Nat /\ j \in Nat /\ ~ (j < i)
    BY <1>2, <1>3
  <2>. QED  BY <2>1
<1>. QED  BY <1>4

LEMMA GreatestExists ==
  ASSUME NEW b \in Nat, NEW K, K \subseteq 1..b, K # {}
  PROVE  \E i \in K : \A j \in K : i >= j
<1>. DEFINE M == {b - i : i \in K}
<1>1. M \subseteq Nat /\ M # {}
  <2>1. \A i \in K : i \in 1..b /\ b - i \in Nat
    OBVIOUS
  <2>. QED  BY <2>1
<1>2. PICK m \in M : \A k \in M : m <= k
  BY <1>1, LeastExists
<1>3. PICK i \in K : m = b - i
  OBVIOUS
<1>4. ASSUME NEW j \in K PROVE i >= j
  <2>1. b - j \in M
    OBVIOUS
  <2>. QED  BY <1>2, <1>3, <2>1
<1>. QED  BY <1>4

(***************************************************************************)
(* What the parser returns is made of the bytes it was given.              *)
(***************************************************************************)
LEMMA TrimType == ASSUME NEW s \in Seq(Bytes) PROVE Trim(s) \in Seq(Bytes)
<1>. DEFINE kept == {i \in 1..Len(s) : s[i] \notin WHITESPACE}
            first == CHOOSE i \in kept : \A j \in kept : i <= j
            last == CHOOSE i \in kept : \A j \in kept : i >= j
<1>1. CASE kept = {}
  BY <1>1 DEF Trim
<1>2. CASE kept # {}
  <2>1. kept \subseteq 1..Len(s) /\ kept \subseteq Nat /\ Len(s) \in Nat
    OBVIOUS
  <2>2. \E i \in kept : \A j \in kept : i <= j
    BY <1>2, <2>1, LeastExists
  <2>3. \E i \in kept : \A j \in kept : i >= j
    BY <1>2, <2>1, GreatestExists
  <2>4. first \in kept /\ last \in kept
    BY <2>2, <2>3
  <2>5. first \in 1..Len(s) /\ last \in 1..Len(s)
    BY <2>1, <2>4
  <2>6. Trim(s) = SubSeq(s, first, last)
    BY <1>2 DEF Trim
  <2>. HIDE DEF first, last
  <2>7. \A i \in first..last : s[i] \in Bytes
    BY <2>5
  <2>. QED  BY <2>5, <2>6, <2>7, SubSeqProperties
<1>. QED  BY <1>1, <1>2

LEMMA PartsTypes ==
  ASSUME NEW s \in Seq(Bytes), ColonPos(s) # 0
  PROVE  TagOf(s) \in Seq(Bytes) /\ DataOf(s) \in Seq(Bytes)
<1>. DEFINE colons == {i \in 1..Len(s) : s[i] = ":"}
<1>1. colons # {} /\ colons \subseteq Nat
  BY DEF ColonPos
<1>2. \E i \in colons : \A j \in colons : i <= j
  BY <1>1, LeastExists
<1>3. ColonPos(s) \in colons
  BY <1>1, <1>2 DEF ColonPos
<1>4. ColonPos(s) \in 1..Len(s)
  BY <1>3
<1>5. /\ \A i \in 1..ColonPos(s) - 1 : s[i] \in Bytes
      /\ \A i \in ColonPos(s) + 1..Len(s) : s[i] \in Bytes
  BY <1>4
<1>. QED  BY <1>4, <1>5, SubSeqProperties DEF TagOf, DataOf

(***************************************************************************)
(* The text of a line.                                                     *)
(***************************************************************************)
LEMMA TextOfLine ==
  ASSUME NEW tag \in Seq(Bytes), NEW data \in Seq(Bytes)
  PROVE  LET s == tag \o <<":">> \o data
             n == Len(tag)
         IN /\ s \in Seq(Bytes) /\ Len(s) = n + 1 + Len(data)
            /\ \A i \in 1..n : s[i] = tag[i]
            /\ s[n + 1] = ":"
            /\ \A i \in 1..Len(data) : s[n + 1 + i] = data[i]
<1>. DEFINE s == tag \o <<":">> \o data
            n == Len(tag)
<1>1. <<":">> \in Seq(Bytes) /\ Len(<<":">>) = 1 /\ n \in Nat /\ Len(data) \in Nat
  <2>1. ":" \in Bytes
    BY DEF Bytes
  <2>2. n \in Nat /\ Len(data) \in Nat
    BY LenProperties
  <2>. HIDE DEF n
  <2>. QED  BY <2>1, <2>2
<1>2. /\ tag \o <<":">> \in Seq(Bytes) /\ Len(tag \o <<":">>) = n + 1
      /\ \A i \in 1..n : (tag \o <<":">>)[i] = tag[i]
      /\ (tag \o <<":">>)[n + 1] = ":"
  BY <1>1, ConcatProperties
<1>3. /\ s \in Seq(Bytes) /\ Len(s) = n + 1 + Len(data)
      /\ \A i \in 1..n + 1 : s[i] = (tag \o <<":">>)[i]
      /\ \A i \in 1..Len(data) : s[n + 1 + i] = data[i]
  BY <1>1, <1>2, ConcatProperties
<1>. QED  BY <1>1, <1>2, <1>3

\* what receive finds in the line, when the tag has no colon
LEMMA ParsesBack ==
  ASSUME NEW tag \in Seq(Bytes), NEW data \in Seq(Bytes),
         \A i \in 1..Len(tag) : tag[i] # ":"
  PROVE  LET s == tag \o <<":">> \o data
         IN ColonPos(s) = Len(tag) + 1 /\ TagOf(s) = tag /\ DataOf(s) = data
<1>. DEFINE s == tag \o <<":">> \o data
            colons == {i \in 1..Len(s) : s[i] = ":"}
            n == Len(tag)
<1>1. n \in Nat /\ Len(data) \in Nat
  BY LenProperties
<1>3. /\ s \in Seq(Bytes) /\ Len(s) = n + 1 + Len(data)
      /\ \A i \in 1..n : s[i] = tag[i]
      /\ s[n + 1] = ":"
      /\ \A i \in 1..Len(data) : s[n + 1 + i] = data[i]
  BY TextOfLine
<1>. HIDE DEF s
<1>4. ColonPos(s) = n + 1
  <2>0. n + 1 \in 1..Len(s) /\ Len(s) \in Nat
    BY <1>1, <1>3
  <2>1. n + 1 \in colons /\ \A j \in colons : n + 1 <= j
    <3>1. n + 1 \in colons
      BY <1>3, <2>0
    <3>2. ASSUME NEW j \in colons PROVE n + 1 <= j
      <4>1. j \in 1..Len(s) /\ s[j] = ":"
        OBVIOUS
      <4>2. j \notin 1..n
        BY <1>3, <4>1
      <4>. QED  BY <1>1, <2>0, <4>1, <4>2
    <3>. QED  BY <3>1, <3>2
  <2>2. \A i \in colons : (\A j \in colons : i <= j) => i = n + 1
    BY <1>1, <1>3, <2>1
  <2>3. (CHOOSE i \in colons : \A j \in colons : i <= j) = n + 1
    BY <2>1, <2>2
  <2>. QED  BY <2>1, <2>3 DEF ColonPos
<1>5. TagOf(s) = tag
  <2>1. TagOf(s) = SubSeq(s, 1, n)
    BY <1>1, <1>4 DEF TagOf
  <2>2. SubSeq(s, 1, n) \in Seq(Bytes) /\ Len(SubSeq(s, 1, n)) = n
    BY <1>1, <1>3, CutTypes
  <2>3. \A i \in 1..n : SubSeq(s, 1, n)[i] = tag[i]
    BY <1>1, <1>3
  <2>. QED  BY <2>1, <2>2, <2>3, SeqEqual
<1>6. DataOf(s) = data
  <2>1. DataOf(s) = SubSeq(s, n + 1 + 1, Len(s))
    BY <1>1, <1>4 DEF DataOf
  <2>2. /\ SubSeq(s, n + 1 + 1, Len(s)) \in Seq(Bytes)
        /\ Len(SubSeq(s, n + 1 + 1, Len(s))) = Len(data)
    <3>1. n + 1 \in 0..Len(s)
      BY <1>1, <1>3
    <3>. QED  BY <1>1, <1>3, <3>1, CutTypes
  <2>3. \A i \in 1..Len(data) : SubSeq(s, n + 1 + 1, Len(s))[i] = data[i]
    BY <1>1, <1>3
  <2>. QED  BY <2>1, <2>2, <2>3, SeqEqual
<1>. QED  BY <1>3, <1>4, <1>5, <1>6 DEF s

(***************************************************************************)
(* The places of a list.                                                   *)
(***************************************************************************)
LEMMA ListsNothing == ASSUME NEW l PROVE Lists(<< >>, l, {})
BY FS_EmptySet DEF Lists

LEMMA ListsIgnoresAppend ==
  ASSUME NEW S, NEW l \in Seq(S), NEW m \in S, NEW q,
         NEW D \in SUBSET (1..Len(l)), Lists(q, l, D)
  PROVE  Lists(q, Append(l, m), D)
<1>1. \A i \in 1..Len(l) : Append(l, m)[i] = l[i]
  BY AppendProperties
<1>. QED  BY <1>1 DEF Lists

\* one more element, from behind all others
LEMMA ListsGrows ==
  ASSUME NEW S, NEW q \in Seq(S), NEW l, NEW k \in Nat, l[k] \in S,
         NEW D, \A i \in D : i \in 1..k /\ i # k, Lists(q, l, D)
  PROVE  Lists(Append(q, l[k]), l, D \cup {k})
<1>. DEFINE D1 == D \cup {k}
            m == l[k]
            Upto(E, i) == {j \in E : j <= i}
<1>1. /\ Len(q) \in Nat /\ k \in Nat /\ m \in S
      /\ Len(Append(q, m)) = Len(q) + 1
      /\ \A i \in 1..Len(q) : Append(q, m)[i] = q[i]
      /\ Append(q, m)[Len(q) + 1] = m
  BY LenProperties, AppendProperties
<1>. HIDE DEF m
<1>2. IsFiniteSet(D) /\ Len(q) = Cardinality(D)
  <2>1. IsFiniteSet(1..k) /\ D \subseteq 1..k
    BY <1>1, FS_Interval
  <2>2. IsFiniteSet(D)
    BY <2>1, FS_Subset
  <2>. QED  BY <2>2 DEF Lists
<1>3. Cardinality(D1) = Len(q) + 1
  <2>1. k \notin D
    BY <1>1
  <2>2. Cardinality(D \cup {k}) = Cardinality(D) + 1
    BY <1>2, <2>1, FS_AddElement
  <2>. QED  BY <1>2, <2>2
<1>4. ASSUME NEW i \in D
      PROVE  Append(q, m)[Cardinality(Upto(D1, i))] = l[i]
  <2>1. i \in 1..k /\ Upto(D1, i) = Upto(D, i)
    BY <1>1
  <2>2. Cardinality(Upto(D, i)) \in 1..Len(q)
    <3>1. /\ Upto(D, i) \subseteq D /\ i \in Upto(D, i)
      BY <1>1
    <3>2. /\ IsFiniteSet(Upto(D, i))
          /\ Cardinality(Upto(D, i)) <= Cardinality(D)
      BY <1>2, <3>1, FS_Subset
    <3>3. Cardinality(Upto(D, i)) \in Nat /\ Cardinality(Upto(D, i)) # 0
      BY <3>1, <3>2, FS_CardinalityType, FS_EmptySet
    <3>. QED  BY <1>1, <1>2, <3>2, <3>3
  <2>3. q[Cardinality(Upto(D, i))] = l[i]
    BY DEF Lists
  <2>4. Append(q, m)[Cardinality(Upto(D, i))] = q[Cardinality(Upto(D, i))]
    BY <1>1, <2>2
  <2>6. Append(q, m)[Cardinality(Upto(D1, i))] = Append(q, m)[Cardinality(Upto(D, i))]
    BY <2>1, Zenon
  <2>. HIDE DEF Upto
  <2>. QED  BY <2>3, <2>4, <2>6, Zenon
<1>5. Append(q, m)[Cardinality(Upto(D1, k))] = l[k]
  <2>1. Upto(D1, k) = D1
    <3>1. \A j \in D : j <= k
      BY <1>1
    <3>2. \A j \in D1 : j <= k
      BY <1>1, <3>1
    <3>. HIDE DEF D1
    <3>. QED  BY <3>2
  <2>. QED  BY <1>1, <1>3, <2>1 DEF m
<1>6. \A i \in D1 : Append(q, m)[Cardinality(Upto(D1, i))] = l[i]
  BY <1>4, <1>5
<1>. HIDE DEF D1
<1>7. Lists(Append(q, m), l, D1)
  BY <1>1, <1>3, <1>6 DEF Lists
<1>. QED  BY <1>7 DEF D1, m

-------------------------------------------------------------------------------
(***************************************************************************)
(* Lines and pieces.                                                       *)
(***************************************************************************)
LEMMA PiecesType ==
  ASSUME NEW line \in Seq(Bytes), NEW limit \in Nat \ {0}
  PROVE  /\ Pieces(line, limit) \in Seq(Seq(Bytes))
         /\ \A i \in 1..Len(Pieces(line, limit)) : Len(Pieces(line, limit)[i]) \in 1..limit
<1>. DEFINE L == Len(line)
            q == (L + limit - 1) \div limit
            End(i) == IF i * limit < L THEN i * limit ELSE L
            P == [i \in 1..q |-> SubSeq(line, (i - 1) * limit + 1, End(i))]
<1>1. L \in Nat /\ q \in Nat /\ q * limit <= L + limit - 1
  BY LenProperties
<1>. HIDE DEF L, q
<1>2. ASSUME NEW i \in 1..q
      PROVE  /\ SubSeq(line, (i - 1) * limit + 1, End(i)) \in Seq(Bytes)
             /\ Len(SubSeq(line, (i - 1) * limit + 1, End(i))) \in 1..limit
  <2>. DEFINE a == (i - 1) * limit
              b == End(i)
  <2>1. i * limit <= q * limit
    BY <1>1
  <2>2. a \in Nat /\ i * limit = a + limit
    BY <1>1
  <2>3. a < L
    BY <1>1, <2>1, <2>2
  <2>. HIDE DEF a
  <2>4. b \in (a + 1)..L /\ b <= a + limit
    BY <1>1, <2>2, <2>3
  <2>. HIDE DEF b
  <2>5. \A k \in (a + 1)..b : line[k] \in Bytes
    BY <1>1, <2>2, <2>4 DEF L
  <2>6. SubSeq(line, a + 1, b) \in Seq(Bytes) /\ Len(SubSeq(line, a + 1, b)) = b - a
    BY <1>1, <2>2, <2>4, <2>5, SubSeqProperties
  <2>7. SubSeq(line, a + 1, b) \in Seq(Bytes) /\ Len(SubSeq(line, a + 1, b)) \in 1..limit
    BY <1>1, <2>2, <2>4, <2>6
  <2>. QED  BY <2>7 DEF a, b
<1>. HIDE DEF End
<1>3. P \in Seq(Seq(Bytes)) /\ Len(P) = q
  BY <1>1, <1>2
<1>4. \A i \in 1..Len(P) : Len(P[i]) \in 1..limit
  BY <1>2, <1>3
<1>5. Pieces(line, limit) = P
  BY DEF Pieces, P, q, End, L
<1>. HIDE DEF P
<1>. QED  BY <1>3, <1>4, <1>5

\* a line of at most twice the limit is two pieces at most
LEMMA PiecesOfTwo ==
  ASSUME NEW line \in Seq(Bytes), NEW limit \in Nat \ {0}, Len(line) <= 2 * limit
  PROVE  Len(Pieces(line, limit)) <= 2
<1>. DEFINE L == Len(line)
            q == (L + limit - 1) \div limit
            End(i) == IF i * limit < L THEN i * limit ELSE L
            P == [i \in 1..q |-> SubSeq(line, (i - 1) * limit + 1, End(i))]
<1>1. L \in Nat /\ q \in Nat /\ q * limit <= L + limit - 1 /\ L <= 2 * limit
  BY LenProperties
<1>2. Pieces(line, limit) = P
  BY DEF Pieces, P, q, End, L
<1>. HIDE DEF L, q
<1>3. Len(P) = q
  <2>. DEFINE S == {P[i] : i \in 1..q}
  <2>1. P \in [1..q -> S]
    OBVIOUS
  <2>. HIDE DEF P, S
  <2>. QED  BY <1>1, <2>1
<1>4. q <= 2
  <2>1. SUFFICES ASSUME q >= 3 PROVE FALSE
    BY <1>1
  <2>2. 3 * limit <= q * limit
    BY <1>1, <2>1
  <2>. QED  BY <1>1, <2>2
<1>. HIDE DEF P
<1>. QED  BY <1>2, <1>3, <1>4

LEMMA PiecesOfShort ==
  ASSUME NEW line \in Seq(Bytes), NEW limit \in Nat, Len(line) \in 1..limit
  PROVE  Pieces(line, limit) = <<line>>
<1>. DEFINE L == Len(line)
            End(i) == IF i * limit < L THEN i * limit ELSE L
<1>1. L \in Nat /\ L \in 1..limit /\ limit \in Nat \ {0}
  BY LenProperties
<1>. HIDE DEF L
<1>2. (L + limit - 1) \div limit = 1
  BY <1>1
<1>3. End(1) = L
  BY <1>1
<1>4. SubSeq(line, (1 - 1) * limit + 1, End(1)) = line
  <2>1. (1 - 1) * limit + 1 = 1
    BY <1>1
  <2>2. SubSeq(line, 1, L) \in Seq(Bytes) /\ Len(SubSeq(line, 1, L)) = L
    BY <1>1, CutTypes DEF L
  <2>3. \A i \in 1..L : SubSeq(line, 1, L)[i] = line[i]
    BY <1>1
  <2>4. SubSeq(line, 1, L) = line
    BY <2>2, <2>3, SeqEqual DEF L
  <2>. HIDE DEF End
  <2>. QED  BY <1>3, <2>1, <2>4
<1>. HIDE DEF End
<1>5. Pieces(line, limit) = [i \in 1..1 |-> SubSeq(line, (i - 1) * limit + 1, End(i))]
  BY <1>2 DEF Pieces, L, End
<1>6. [i \in 1..1 |-> SubSeq(line, (i - 1) * limit + 1, End(i))] = [i \in 1..1 |-> line]
  BY <1>4
<1>7. [i \in 1..1 |-> line] = <<line>>
  OBVIOUS
<1>. QED  BY <1>5, <1>6, <1>7, Zenon

(***************************************************************************)
(* Trim keeps what lies between the first and the last symbol that is not  *)
(* a blank.                                                                *)
(***************************************************************************)
LEMMA TrimCuts ==
  ASSUME NEW s \in Seq(Bytes)
  PROVE  \/ Trim(s) = << >>
         \/ \E a, b \in 1..Len(s) :
              /\ a <= b /\ Trim(s) = SubSeq(s, a, b) /\ s[b] \notin WHITESPACE
              /\ \A i \in 1..a - 1 : s[i] \in WHITESPACE
<1>. DEFINE kept == {i \in 1..Len(s) : s[i] \notin WHITESPACE}
            first == CHOOSE i \in kept : \A j \in kept : i <= j
            last == CHOOSE i \in kept : \A j \in kept : i >= j
<1>1. CASE kept = {}
  BY <1>1 DEF Trim
<1>2. CASE kept # {}
  <2>1. kept \subseteq 1..Len(s) /\ kept \subseteq Nat /\ Len(s) \in Nat
    OBVIOUS
  <2>2. \E i \in kept : \A j \in kept : i <= j
    BY <1>2, <2>1, LeastExists
  <2>3. \E i \in kept : \A j \in kept : i >= j
    BY <1>2, <2>1, GreatestExists
  <2>4. first \in kept /\ last \in kept /\ first <= last
    BY <2>2, <2>3
  <2>5. Trim(s) = SubSeq(s, first, last)
    BY <1>2 DEF Trim
  <2>6. \A i \in kept : first <= i
    BY <2>2
  <2>. HIDE DEF first, last
  <2>7. \A i \in 1..first - 1 : s[i] \in WHITESPACE
    BY <2>1, <2>4, <2>6
  <2>. QED  BY <2>4, <2>5, <2>7
<1>. QED  BY <1>1, <1>2

\* no more comes out of a line than was in it
LEMMA PartsShorter ==
  ASSUME NEW s \in Seq(Bytes)
  PROVE  /\ Len(Trim(s)) <= Len(s)
         /\ ColonPos(s) # 0 => Len(DataOf(s)) < Len(s)
<1>1. Len(s) \in Nat
  BY LenProperties
<1>2. Len(Trim(s)) <= Len(s)
  <2>1. CASE Trim(s) = << >>
    BY <1>1, <2>1
  <2>2. ASSUME NEW a \in 1..Len(s), NEW b \in 1..Len(s), a <= b, Trim(s) = SubSeq(s, a, b)
        PROVE  Len(Trim(s)) <= Len(s)
    <3>1. Len(SubSeq(s, a, b)) = b - a + 1
      BY <2>2
    <3>. QED  BY <1>1, <2>2, <3>1
  <2>. QED  BY <2>1, <2>2, TrimCuts
<1>3. ASSUME ColonPos(s) # 0
      PROVE  Len(DataOf(s)) < Len(s)
  <2>. DEFINE colons == {i \in 1..Len(s) : s[i] = ":"}
  <2>1. colons # {} /\ colons \subseteq Nat
    BY <1>3 DEF ColonPos
  <2>2. ColonPos(s) \in colons
    BY <2>1, LeastExists DEF ColonPos
  <2>3. PICK e \in 1..Len(s) : ColonPos(s) = e
    BY <2>2
  <2>4. DataOf(s) = SubSeq(s, e + 1, Len(s))
    BY <2>3 DEF DataOf
  <2>5. Len(SubSeq(s, e + 1, Len(s))) = Len(s) - e
    BY <1>1
  <2>. QED  BY <1>1, <2>4, <2>5
<1>. QED  BY <1>2, <1>3

LEMMA TrimElements ==
  ASSUME NEW s \in Seq(Bytes), \A i \in 1..Len(s) : s[i] # "\n"
  PROVE  \A i \in 1..Len(Trim(s)) : Trim(s)[i] # "\n"
<1>1. CASE Trim(s) = << >>
  BY <1>1
<1>2. CASE \E a, b \in 1..Len(s) : a <= b /\ Trim(s) = SubSeq(s, a, b)
  <2>1. PICK a, b \in 1..Len(s) : a <= b /\ Trim(s) = SubSeq(s, a, b)
    BY <1>2
  <2>2. Len(SubSeq(s, a, b)) = b - a + 1 /\ \A i \in 1..b - a + 1 : SubSeq(s, a, b)[i] = s[a + i - 1]
    BY <2>1
  <2>3. \A i \in 1..b - a + 1 : a + i - 1 \in 1..Len(s)
    BY <2>1
  <2>. QED  BY <2>1, <2>2, <2>3
<1>. QED  BY <1>1, <1>2, TrimCuts

\* what is trimmed already does not end in a blank
LEMMA TrimmedEnd ==
  ASSUME NEW s \in Seq(Bytes), s # << >>, Trim(s) = s
  PROVE  s[Len(s)] \notin WHITESPACE
<1>1. PICK a, b \in 1..Len(s) : a <= b /\ s = SubSeq(s, a, b) /\ s[b] \notin WHITESPACE
  BY TrimCuts
<1>2. Len(SubSeq(s, a, b)) = b - a + 1
  BY <1>1
<1>3. Len(s) = b - a + 1
  BY <1>1, <1>2
<1>4. b = Len(s)
  BY <1>3
<1>. QED  BY <1>1, <1>4

LEMMA TrimOfLine ==
  ASSUME NEW s \in Seq(Bytes), s # << >>,
         s[1] \notin WHITESPACE, s[Len(s)] \notin WHITESPACE
  PROVE  Trim(s \o <<"\n">>) = s
<1>. DEFINE t == s \o <<"\n">>
            n == Len(s)
            kept == {i \in 1..Len(t) : t[i] \notin WHITESPACE}
<1>1. n \in Nat /\ 1 <= n
  BY LenProperties, EmptySeq
<1>2. <<"\n">> \in Seq(Bytes) /\ Len(<<"\n">>) = 1 /\ <<"\n">>[1] = "\n"
  <2>1. "\n" \in Bytes
    BY DEF Bytes
  <2>. QED  BY <2>1
<1>3. /\ t \in Seq(Bytes) /\ Len(t) = n + 1
      /\ \A i \in 1..n : t[i] = s[i]
      /\ t[n + 1] = "\n"
  BY <1>1, <1>2, ConcatProperties
<1>. HIDE DEF t
<1>4. 1 \in kept /\ n \in kept /\ \A i \in kept : i \in 1..n
  <2>1. 1 \in 1..n /\ n \in 1..n /\ 1 \in 1..n + 1 /\ n \in 1..n + 1
    BY <1>1
  <2>2. 1 \in kept /\ n \in kept
    BY <1>3, <2>1
  <2>3. t[n + 1] \in WHITESPACE
    BY <1>3 DEF WHITESPACE
  <2>4. \A i \in kept : i \in 1..n + 1 /\ i # n + 1
    BY <1>3, <2>3
  <2>. QED  BY <1>1, <2>2, <2>4
<1>. HIDE DEF kept
<1>5. (CHOOSE i \in kept : \A j \in kept : i <= j) = 1
  BY <1>1, <1>4
<1>6. (CHOOSE i \in kept : \A j \in kept : i >= j) = n
  BY <1>1, <1>4
<1>7. Trim(t) = SubSeq(t, 1, n)
  BY <1>4, <1>5, <1>6 DEF Trim, kept
<1>8. SubSeq(t, 1, n) \in Seq(Bytes) /\ Len(SubSeq(t, 1, n)) = n
  BY <1>1, <1>3, CutTypes
<1>9. \A i \in 1..n : SubSeq(t, 1, n)[i] = s[i]
  BY <1>1, <1>3
<1>10. SubSeq(t, 1, n) = s
  BY <1>8, <1>9, SeqEqual
<1>. QED  BY <1>7, <1>10 DEF t

(***************************************************************************)
(* A payload with two colons has three fields, and no other has.           *)
(***************************************************************************)
Colons(s) == {i \in 1..Len(s) : s[i] = ":"}

LEMMA CutsFinite ==
  ASSUME NEW s \in Seq(Bytes)
  PROVE  /\ IsFiniteSet(Colons(s)) /\ Cardinality(Colons(s)) \in Nat
         /\ Cardinality(Cuts(s)) = Cardinality(Colons(s)) + 2
<1>. DEFINE C == Colons(s)
            e == Len(s) + 1
<1>1. Len(s) \in Nat /\ C \subseteq 1..Len(s) /\ 0 \notin C /\ e \notin C /\ 0 # e
  BY LenProperties DEF Colons
<1>2. IsFiniteSet(C)
  <2>1. IsFiniteSet(1..Len(s))
    BY <1>1, FS_Interval
  <2>. QED  BY <1>1, <2>1, FS_Subset
<1>3. Cuts(s) = (C \cup {0}) \cup {e}
  BY DEF Cuts, Colons
<1>. HIDE DEF C, e
<1>4. IsFiniteSet(C \cup {0}) /\ Cardinality(C \cup {0}) = Cardinality(C) + 1
  BY <1>1, <1>2, FS_AddElement
<1>5. Cardinality((C \cup {0}) \cup {e}) = Cardinality(C \cup {0}) + 1
  <2>1. e \notin C \cup {0}
    BY <1>1
  <2>. QED  BY <1>4, <2>1, FS_AddElement
<1>7. Cardinality(C) \in Nat
  BY <1>2, FS_CardinalityType
<1>8. Cardinality(Cuts(s)) = Cardinality(C) + 2
  BY <1>3, <1>4, <1>5, <1>7
<1>. QED  BY <1>2, <1>7, <1>8 DEF C

LEMMA FieldsLength ==
  ASSUME NEW s \in Seq(Bytes)
  PROVE  Len(Fields(s)) = Cardinality(Cuts(s)) - 1
<1>. DEFINE m == Cardinality(Cuts(s)) - 1
            f == [n \in 1..m |-> SubSeq(s, CutAfter(s, n - 1) + 1, CutAfter(s, n) - 1)]
            S == {f[n] : n \in 1..m}
<1>1. m \in Nat
  BY CutsFinite
<1>. HIDE DEF m
<1>2. f \in [1..m -> S]
  OBVIOUS
<1>3. Fields(s) = f
  BY DEF Fields, m
<1>. HIDE DEF f, S
<1>4. Len(f) = m
  BY <1>1, <1>2
<1>. QED  BY <1>3, <1>4 DEF m

LEMMA FieldsOfTwoColons ==
  ASSUME NEW s \in Seq(Bytes), NEW i \in 1..Len(s), NEW j \in 1..Len(s), i < j,
         \A k \in 1..Len(s) : s[k] = ":" <=> k \in {i, j}
  PROVE  /\ Len(Fields(s)) = 3
         /\ Fields(s)[1] = SubSeq(s, 1, i - 1)
         /\ Fields(s)[2] = SubSeq(s, i + 1, j - 1)
         /\ Fields(s)[3] = SubSeq(s, j + 1, Len(s))
<1>. DEFINE e == Len(s) + 1
            Before(b) == {k \in Cuts(s) : k < b}
<1>1. /\ Len(s) \in Nat /\ i \in Nat /\ j \in Nat /\ e \in Nat
      /\ 0 < i /\ i < j /\ j < e /\ e - 1 = Len(s)
  BY LenProperties
<1>2. Cuts(s) = {0, i, j, e}
  BY DEF Cuts
<1>. HIDE DEF e
<1>3. Before(0) = {} /\ Before(i) = {0} /\ Before(j) = {0, i} /\ Before(e) = {0, i, j}
  BY <1>1, <1>2
<1>. HIDE DEF Before
<1>0. 1 - 1 = 0 /\ 2 - 1 = 1 /\ 3 - 1 = 2 /\ 4 - 1 = 3 /\ 1 + 1 = 2 /\ 2 + 1 = 3 /\ 3 + 1 = 4
  OBVIOUS
<1>4. /\ Cardinality({}) = 0 /\ IsFiniteSet({})
      /\ Cardinality({0}) = 1 /\ IsFiniteSet({0})
  BY FS_EmptySet, FS_Singleton
<1>5. Cardinality({0, i}) = 2 /\ IsFiniteSet({0, i})
  <2>1. i \notin {0} /\ {0} \cup {i} = {0, i}
    BY <1>1
  <2>2. IsFiniteSet({0} \cup {i}) /\ Cardinality({0} \cup {i}) = Cardinality({0}) + 1
    BY <1>4, <2>1, FS_AddElement
  <2>. QED  BY <1>0, <1>4, <2>1, <2>2, Zenon
<1>6. Cardinality({0, i, j}) = 3 /\ IsFiniteSet({0, i, j})
  <2>1. j \notin {0, i} /\ {0, i} \cup {j} = {0, i, j}
    BY <1>1
  <2>2. IsFiniteSet({0, i} \cup {j}) /\ Cardinality({0, i} \cup {j}) = Cardinality({0, i}) + 1
    BY <1>5, <2>1, FS_AddElement
  <2>. QED  BY <1>0, <1>5, <2>1, <2>2, Zenon
<1>7. Cardinality({0, i, j, e}) = 4
  <2>1. e \notin {0, i, j} /\ {0, i, j} \cup {e} = {0, i, j, e}
    BY <1>1
  <2>2. Cardinality({0, i, j} \cup {e}) = Cardinality({0, i, j}) + 1
    BY <1>6, <2>1, FS_AddElement
  <2>. QED  BY <1>0, <1>6, <2>1, <2>2, Zenon
<1>8. /\ Cardinality(Before(0)) = 0 /\ Cardinality(Before(i)) = 1
      /\ Cardinality(Before(j)) = 2 /\ Cardinality(Before(e)) = 3
  BY <1>3, <1>4, <1>5, <1>6
<1>9. /\ CutAfter(s, 0) = 0 /\ CutAfter(s, 1) = i
      /\ CutAfter(s, 2) = j /\ CutAfter(s, 3) = e
  <2>1. \A n : CutAfter(s, n) = CHOOSE b \in {0, i, j, e} : Cardinality(Before(b)) = n
    BY <1>2 DEF CutAfter, Before
  <2>2. (CHOOSE b \in {0, i, j, e} : Cardinality(Before(b)) = 0) = 0
    BY <1>8
  <2>3. (CHOOSE b \in {0, i, j, e} : Cardinality(Before(b)) = 1) = i
    BY <1>8
  <2>4. (CHOOSE b \in {0, i, j, e} : Cardinality(Before(b)) = 2) = j
    BY <1>8
  <2>5. (CHOOSE b \in {0, i, j, e} : Cardinality(Before(b)) = 3) = e
    BY <1>8
  <2>6. /\ CutAfter(s, 0) = CHOOSE b \in {0, i, j, e} : Cardinality(Before(b)) = 0
        /\ CutAfter(s, 1) = CHOOSE b \in {0, i, j, e} : Cardinality(Before(b)) = 1
        /\ CutAfter(s, 2) = CHOOSE b \in {0, i, j, e} : Cardinality(Before(b)) = 2
        /\ CutAfter(s, 3) = CHOOSE b \in {0, i, j, e} : Cardinality(Before(b)) = 3
    BY <2>1, Zenon
  <2>. QED  BY <2>2, <2>3, <2>4, <2>5, <2>6
<1>10. Cardinality(Cuts(s)) - 1 = 3
  BY <1>2, <1>7
<1>11. Fields(s) = [n \in 1..3 |-> SubSeq(s, CutAfter(s, n - 1) + 1, CutAfter(s, n) - 1)]
  BY <1>10 DEF Fields
<1>12. /\ Fields(s)[1] = SubSeq(s, CutAfter(s, 0) + 1, CutAfter(s, 1) - 1)
       /\ Fields(s)[2] = SubSeq(s, CutAfter(s, 1) + 1, CutAfter(s, 2) - 1)
       /\ Fields(s)[3] = SubSeq(s, CutAfter(s, 2) + 1, CutAfter(s, 3) - 1)
  <2>1. 1 \in 1..3 /\ 2 \in 1..3 /\ 3 \in 1..3
    OBVIOUS
  <2>2. \A n \in 1..3 : Fields(s)[n] = SubSeq(s, CutAfter(s, n - 1) + 1, CutAfter(s, n) - 1)
    BY <1>11, Zenon
  <2>. QED  BY <1>0, <2>1, <2>2, Zenon
<1>13. Len(Fields(s)) = 3
  BY <1>10, FieldsLength
<1>14. 0 + 1 = 1
  OBVIOUS
<1>. QED  BY <1>1, <1>9, <1>12, <1>13, <1>14, Zenon

LEMMA ThreeFields ==
  ASSUME NEW s \in Seq(Bytes), Len(Fields(s)) = 3
  PROVE  \E i, j \in 1..Len(s) : i < j /\ \A k \in 1..Len(s) : s[k] = ":" <=> k \in {i, j}
<1>. DEFINE C == Colons(s)
<1>0. IsFiniteSet(C) /\ Cardinality(C) \in Nat /\ Cardinality(Cuts(s)) = Cardinality(C) + 2
  BY CutsFinite
<1>9. 3 = Cardinality(Cuts(s)) - 1
  BY FieldsLength
<1>2. C \subseteq 1..Len(s) /\ \A k \in 1..Len(s) : s[k] = ":" <=> k \in C
  BY DEF Colons
<1>. HIDE DEF C
<1>1. Cardinality(C) = 2
  BY <1>0, <1>9
<1>3. PICK a \in C : TRUE
  BY <1>0, <1>1, FS_EmptySet
<1>4. IsFiniteSet(C \ {a}) /\ Cardinality(C \ {a}) = 1
  <2>1. IsFiniteSet(C \ {a}) /\ Cardinality(C \ {a}) = Cardinality(C) - 1
    BY <1>0, <1>3, FS_RemoveElement
  <2>2. 2 - 1 = 1
    OBVIOUS
  <2>. QED  BY <1>1, <2>1, <2>2, Zenon
<1>5. PICK b : C \ {a} = {b}
  BY <1>4, FS_Singleton
<1>6. C = {a, b} /\ a # b /\ a \in 1..Len(s) /\ b \in 1..Len(s)
  BY <1>2, <1>3, <1>5
<1>7. CASE a < b
  BY <1>2, <1>6, <1>7
<1>8. CASE b < a
  BY <1>2, <1>6, <1>8
<1>. QED  BY <1>6, <1>7, <1>8

LEMMA FieldTypes ==
  ASSUME NEW s \in Seq(Bytes), Len(Fields(s)) = 3
  PROVE  Fields(s)[2] \in Seq(Bytes) /\ Fields(s)[3] \in Seq(Bytes)
<1>1. PICK i, j \in 1..Len(s) : i < j /\ \A k \in 1..Len(s) : s[k] = ":" <=> k \in {i, j}
  BY ThreeFields
<1>2. Fields(s)[2] = SubSeq(s, i + 1, j - 1) /\ Fields(s)[3] = SubSeq(s, j + 1, Len(s))
  BY <1>1, FieldsOfTwoColons
<1>3. /\ \A k \in (i + 1)..(j - 1) : s[k] \in Bytes
      /\ \A k \in (j + 1)..Len(s) : s[k] \in Bytes
  OBVIOUS
<1>. QED  BY <1>2, <1>3, SubSeqProperties

\* a run of symbols of a line, known one by one
LEMMA RunIs ==
  ASSUME NEW q \in Seq(Bytes), NEW a \in Nat, NEW v \in Seq(Bytes), a + Len(v) <= Len(q),
         \A i \in 1..Len(v) : q[a + i] = v[i]
  PROVE  SubSeq(q, a + 1, a + Len(v)) = v
<1>. DEFINE n == Len(v)
            u == SubSeq(q, a + 1, a + n)
<1>1. n \in Nat /\ Len(q) \in Nat
  BY LenProperties
<1>2. \A k \in a + 1..a + n : q[k] \in Bytes
  BY <1>1
<1>3. /\ u \in Seq(Bytes) /\ Len(u) = n
      /\ \A i \in 1..n : u[i] = q[a + i]
  <2>. HIDE DEF n
  <2>1. a + 1 - 1 = a /\ a + n - (a + 1) + 1 = n /\ a + 1 \in Int /\ a + n \in Int
    BY <1>1
  <2>2. \A i \in 1..n : a + 1 + i - 1 = a + i
    BY <1>1
  <2>. QED  BY <1>1, <1>2, <2>1, <2>2, SubSeqProperties
<1>. HIDE DEF u
<1>4. u = v
  BY <1>3, SeqEqual
<1>. QED  BY <1>4 DEF u

(***************************************************************************)
(* What can be read out of a piece of a line, wherever it was cut.         *)
(***************************************************************************)
\* x stands in t, behind the first a symbols
Run(x, t, a) ==
  a \in Nat /\ a + Len(x) <= Len(t) /\ \A i \in 1..Len(x) : x[i] = t[a + i]

LEMMA RunOfRun ==
  ASSUME NEW x, NEW y, NEW t, Len(x) \in Nat, Len(y) \in Nat, Len(t) \in Nat,
         NEW a, NEW b, Run(x, y, a), Run(y, t, b)
  PROVE  Run(x, t, b + a)
<1>1. a \in Nat /\ b \in Nat /\ a + Len(x) <= Len(y) /\ b + Len(y) <= Len(t)
  BY DEF Run
<1>2. b + a \in Nat /\ b + a + Len(x) <= Len(t)
  BY <1>1
<1>3. ASSUME NEW i \in 1..Len(x)
      PROVE  x[i] = t[b + a + i]
  <2>1. a + i \in 1..Len(y) /\ b + (a + i) = b + a + i
    BY <1>1
  <2>. QED  BY <2>1 DEF Run
<1>. QED  BY <1>2, <1>3 DEF Run

LEMMA CutIsRun ==
  ASSUME NEW t \in Seq(Bytes), NEW a \in Nat, NEW b \in Nat, a <= b, b <= Len(t)
  PROVE  /\ SubSeq(t, a + 1, b) \in Seq(Bytes) /\ Len(SubSeq(t, a + 1, b)) = b - a
         /\ Run(SubSeq(t, a + 1, b), t, a)
<1>. DEFINE x == SubSeq(t, a + 1, b)
<1>1. \A i \in a + 1..b : t[i] \in Bytes
  OBVIOUS
<1>2. x \in Seq(Bytes) /\ Len(x) = b - a /\ \A i \in 1..b - a : x[i] = t[a + i]
  <2>1. b - (a + 1) + 1 = b - a /\ (a + 1 > b => b - a = 0) /\ \A i \in 1..b - a : a + 1 + i - 1 = a + i
    OBVIOUS
  <2>2. a + 1 \in Int /\ b \in Int
    OBVIOUS
  <2>. QED  BY <1>1, <2>1, <2>2, SubSeqProperties
<1>. HIDE DEF x
<1>3. a + (b - a) <= Len(t)
  OBVIOUS
<1>. QED  BY <1>2, <1>3 DEF Run, x

\* what stands behind the first m symbols of x, up to the n-th
Cut(x, m, n) == SubSeq(x, m + 1, n)

\* the same cut, seen from the run and from the whole
LEMMA CutOfRun ==
  ASSUME NEW x \in Seq(Bytes), NEW t \in Seq(Bytes), NEW a, Run(x, t, a),
         NEW m \in Nat, NEW n \in Nat, m <= n, n <= Len(x)
  PROVE  Cut(x, m, n) = Cut(t, a + m, a + n)
<1>1. a \in Nat /\ a + Len(x) <= Len(t) /\ Len(x) \in Nat /\ Len(t) \in Nat
  BY LenProperties DEF Run
<1>2. /\ SubSeq(x, m + 1, n) \in Seq(Bytes) /\ Len(SubSeq(x, m + 1, n)) = n - m
      /\ Run(SubSeq(x, m + 1, n), x, m)
  BY CutIsRun
<1>3. a + m \in Nat /\ a + n \in Nat /\ a + m <= a + n /\ a + n <= Len(t) /\ a + n - (a + m) = n - m
  BY <1>1
<1>. DEFINE u == a + m
            v == a + n
<1>4. u \in Nat /\ v \in Nat /\ u <= v /\ v <= Len(t) /\ v - u = n - m
  BY <1>1, <1>3
<1>. HIDE DEF u, v
<1>5. /\ SubSeq(t, u + 1, v) \in Seq(Bytes) /\ Len(SubSeq(t, u + 1, v)) = n - m
      /\ Run(SubSeq(t, u + 1, v), t, u)
  BY <1>4, CutIsRun
<1>6. ASSUME NEW i \in 1..n - m
      PROVE  SubSeq(x, m + 1, n)[i] = SubSeq(t, u + 1, v)[i]
  <2>1. SubSeq(x, m + 1, n)[i] = x[m + i] /\ SubSeq(t, u + 1, v)[i] = t[u + i]
    BY <1>2, <1>5 DEF Run
  <2>2. m + i \in 1..Len(x) /\ a + (m + i) = a + m + i
    BY <1>1
  <2>3. x[m + i] = t[a + m + i]
    BY <2>2 DEF Run
  <2>. QED  BY <2>1, <2>3 DEF u
<1>7. SubSeq(x, m + 1, n) = SubSeq(t, u + 1, v)
  BY <1>2, <1>5, <1>6, SeqEqual
<1>. QED  BY <1>7 DEF Cut, u, v

LEMMA PiecesAreRuns ==
  ASSUME NEW line \in Seq(Bytes), NEW limit \in Nat \ {0}, NEW i \in 1..Len(Pieces(line, limit))
  PROVE  \E a : Run(Pieces(line, limit)[i], line, a)
<1>. DEFINE L == Len(line)
            q == (L + limit - 1) \div limit
            End(k) == IF k * limit < L THEN k * limit ELSE L
            P == [k \in 1..q |-> SubSeq(line, (k - 1) * limit + 1, End(k))]
<1>1. L \in Nat /\ q \in Nat /\ q * limit <= L + limit - 1
  BY LenProperties
<1>2. Pieces(line, limit) = P
  BY DEF Pieces, P, q, End, L
<1>. HIDE DEF L, q
<1>3. Len(P) = q
  <2>. DEFINE S == {P[k] : k \in 1..q}
  <2>1. P \in [1..q -> S]
    OBVIOUS
  <2>. HIDE DEF P, S
  <2>. QED  BY <1>1, <2>1
<1>4. i \in 1..q
  BY <1>2, <1>3
<1>. DEFINE a == (i - 1) * limit
            b == End(i)
<1>5. P[i] = SubSeq(line, a + 1, b)
  BY <1>4
<1>6. a \in Nat /\ i * limit = a + limit /\ i * limit <= q * limit
  BY <1>1, <1>4
<1>. HIDE DEF P, a
<1>7. b \in Nat /\ a <= b /\ b <= L
  BY <1>1, <1>6
<1>. HIDE DEF b
<1>8. Run(SubSeq(line, a + 1, b), line, a)
  BY <1>6, <1>7, CutIsRun DEF L
<1>. QED  BY <1>2, <1>5, <1>8

(***************************************************************************)
(* A piece with three fields has three colons of its line and no more: the *)
(* one behind its tag and two in its payload.  TakenApart says where, for  *)
(* the piece of t from a on, and the fields f.                             *)
(***************************************************************************)
TakenApart(t, a, f, u, v, w, z) ==
  /\ u < v /\ v < w /\ w <= z
  /\ t[u] = ":" /\ t[v] = ":" /\ t[w] = ":" /\ t[z] \notin WHITESPACE
  /\ \A k \in a + 1..w : t[k] = ":" => k \in {u, v, w}
  /\ f[2] = SubSeq(t, v + 1, w - 1)
  /\ f[3] = SubSeq(t, w + 1, z)

LEMMA RunFields ==
  ASSUME NEW t \in Seq(Bytes), NEW x \in Seq(Bytes), NEW a, Run(x, t, a),
         Valid(Trim(x)), Len(Fields(DataOf(Trim(x)))) = 3
  PROVE  \E u, v, w, z \in 1..Len(t) :
           TakenApart(t, a, Fields(DataOf(Trim(x))), u, v, w, z)
<1>. DEFINE s == Trim(x)
            e == ColonPos(s)
            d == DataOf(s)
<1>1. s \in Seq(Bytes) /\ e \in 1..Len(s) /\ s[e] = ":" /\ \A k \in 1..e - 1 : s[k] # ":"
  <2>1. s \in Seq(Bytes)
    BY TrimType
  <2>2. e # 0
    BY DEF Valid
  <2>. DEFINE colons == {i \in 1..Len(s) : s[i] = ":"}
  <2>. HIDE DEF s
  <2>3. colons # {} /\ e = CHOOSE i \in colons : \A j \in colons : i <= j
    BY <2>2 DEF ColonPos
  <2>4. \E i \in colons : \A j \in colons : i <= j
    <3>1. colons \subseteq Nat
      OBVIOUS
    <3>. QED  BY <2>3, <3>1, LeastExists
  <2>5. e \in colons /\ \A k \in colons : e <= k
    BY <2>3, <2>4
  <2>6. Len(s) \in Nat
    BY <2>1, LenProperties
  <2>. HIDE DEF e
  <2>7. \A k \in 1..e - 1 : k \in 1..Len(s) /\ ~(e <= k)
    BY <2>5, <2>6
  <2>. QED  BY <2>1, <2>5, <2>7
<1>2. PICK b, c \in 1..Len(x) :
        /\ b <= c /\ s = SubSeq(x, b, c) /\ x[c] \notin WHITESPACE
        /\ \A k \in 1..b - 1 : x[k] \in WHITESPACE
  <2>1. s # << >>
    BY <1>1
  <2>. QED  BY <2>1, TrimCuts
<1>3. Len(x) \in Nat /\ Len(t) \in Nat /\ Len(s) \in Nat
  BY <1>1, LenProperties
<1>4. Run(s, x, b - 1) /\ Len(s) = c - (b - 1)
  <2>1. b - 1 \in Nat /\ c \in Nat /\ b - 1 <= c /\ c <= Len(x) /\ b - 1 + 1 = b
    BY <1>2, <1>3
  <2>2. Run(SubSeq(x, b - 1 + 1, c), x, b - 1) /\ Len(SubSeq(x, b - 1 + 1, c)) = c - (b - 1)
    BY <2>1, CutIsRun
  <2>. QED  BY <1>2, <2>1, <2>2
<1>. HIDE DEF s
<1>5. Run(s, t, a + (b - 1))
  BY <1>3, <1>4, RunOfRun
<1>. HIDE DEF e
<1>6. d \in Seq(Bytes) /\ Len(d) = Len(s) - e /\ Run(d, s, e)
  <2>1. e \in Nat /\ e <= Len(s)
    BY <1>1, <1>3
  <2>2. d = SubSeq(s, e + 1, Len(s))
    BY DEF DataOf, e
  <2>. QED  BY <1>1, <1>3, <2>1, <2>2, CutIsRun
<1>. HIDE DEF d
<1>. DEFINE h == a + (b - 1) + e
<1>7. Run(d, t, h)
  <2>1. Len(d) \in Nat
    BY <1>6, LenProperties
  <2>. QED  BY <1>3, <1>5, <1>6, <2>1, RunOfRun
<1>8. t[h] = ":"
  BY <1>1, <1>5 DEF Run
<1>9. h + Len(d) = a + c
  <2>1. a \in Nat
    BY DEF Run
  <2>. QED  BY <1>1, <1>2, <1>3, <1>4, <1>6, <2>1
<1>10. t[a + c] \notin WHITESPACE
  BY <1>2 DEF Run
<1>11. h \in Nat /\ 1 <= h
  <2>1. a \in Nat
    BY DEF Run
  <2>. QED  BY <1>1, <1>2, <1>3, <2>1
\* before the payload, no colon but the one behind the tag
<1>23. \A k \in a + 1..h : t[k] = ":" => k = h
  <2>. DEFINE g == a + (b - 1)
  <2>1. a \in Nat /\ b \in 1..Len(x) /\ e \in 1..Len(s) /\ g \in Nat /\ h = g + e
    BY <1>1, <1>2, <1>3 DEF Run
  <2>2. ":" \notin WHITESPACE
    BY DEF WHITESPACE
  <2>. SUFFICES ASSUME NEW k \in a + 1..h, t[k] = ":"
                PROVE  k = h
    OBVIOUS
  <2>3. CASE k <= g
    <3>1. k - a \in 1..b - 1 /\ k - a \in 1..Len(x) /\ a + (k - a) = k
      BY <1>3, <2>1, <2>3
    <3>2. x[k - a] = t[k]
      BY <3>1 DEF Run
    <3>. QED  BY <1>2, <2>2, <3>1, <3>2
  <2>4. CASE k > g
    <3>1. k - g \in 1..e /\ k - g \in 1..Len(s) /\ g + (k - g) = k
      BY <1>3, <2>1, <2>4
    <3>. HIDE DEF g
    <3>2. s[k - g] = t[k]
      BY <1>5, <3>1 DEF Run, g
    <3>3. k - g \notin 1..e - 1
      BY <1>1, <3>2
    <3>4. k - g = e
      BY <2>1, <3>1, <3>3
    <3>. QED  BY <2>1, <3>1, <3>4
  <2>. QED  BY <2>1, <2>3, <2>4
<1>. HIDE DEF h
<1>12. Len(Fields(d)) = 3
  BY DEF d, s
<1>13. PICK i, j \in 1..Len(d) : i < j /\ \A k \in 1..Len(d) : d[k] = ":" <=> k \in {i, j}
  BY <1>6, <1>12, ThreeFields
<1>14. Fields(d)[2] = SubSeq(d, i + 1, j - 1) /\ Fields(d)[3] = SubSeq(d, j + 1, Len(d))
  BY <1>6, <1>13, FieldsOfTwoColons
<1>. DEFINE n == Len(d)
<1>. HIDE DEF n
<1>15. n \in Nat /\ i \in Nat /\ j \in Nat /\ 1 <= i /\ i <= j - 1 /\ j <= n /\ j - 1 \in Nat /\ n = Len(d)
  BY <1>6, <1>13, LenProperties DEF n
<1>16. /\ SubSeq(d, i + 1, j - 1) = SubSeq(t, h + i + 1, h + (j - 1))
       /\ SubSeq(d, j + 1, n) = SubSeq(t, h + j + 1, h + n)
  <2>1. i \in Nat /\ j - 1 \in Nat /\ i <= j - 1 /\ j - 1 <= Len(d)
    BY <1>15
  <2>2. j \in Nat /\ n \in Nat /\ j <= n /\ n <= Len(d)
    BY <1>15
  <2>3. Cut(d, i, j - 1) = Cut(t, h + i, h + (j - 1)) /\ Cut(d, j, n) = Cut(t, h + j, h + n)
    BY <1>6, <1>7, <2>1, <2>2, CutOfRun
  <2>. QED  BY <2>3, Zenon DEF Cut
<1>17. h + n <= Len(t)
  BY <1>7, <1>15 DEF Run
<1>18. /\ h \in 1..Len(t) /\ h + i \in 1..Len(t) /\ h + j \in 1..Len(t) /\ h + n \in 1..Len(t)
       /\ h < h + i /\ h + i < h + j /\ h + j <= h + n /\ h + (j - 1) = h + j - 1
  BY <1>3, <1>11, <1>15, <1>17
<1>19. t[h + i] = ":" /\ t[h + j] = ":"
  <2>1. d[i] = ":" /\ d[j] = ":"
    BY <1>13
  <2>. QED  BY <1>7, <1>13, <2>1 DEF Run
<1>20. t[h + n] \notin WHITESPACE
  BY <1>9, <1>10, <1>15
<1>21. /\ Fields(d)[2] = SubSeq(t, h + i + 1, h + j - 1)
       /\ Fields(d)[3] = SubSeq(t, h + j + 1, h + n)
  BY <1>14, <1>15, <1>16, <1>18
<1>24. \A k \in a + 1..h + j : t[k] = ":" => k \in {h, h + i, h + j}
  <2>. SUFFICES ASSUME NEW k \in a + 1..h + j, t[k] = ":"
                PROVE  k \in {h, h + i, h + j}
    OBVIOUS
  <2>1. CASE k <= h
    <3>1. k \in a + 1..h
      BY <1>11, <2>1 DEF Run
    <3>. QED  BY <1>23, <3>1
  <2>2. CASE k > h
    <3>1. k - h \in 1..n /\ h + (k - h) = k
      <4>1. a \in Nat
        BY DEF Run
      <4>. QED  BY <1>11, <1>15, <2>2, <4>1
    <3>2. d[k - h] = ":"
      BY <1>7, <1>15, <3>1 DEF Run
    <3>3. k - h \in {i, j}
      BY <1>13, <1>15, <3>1, <3>2
    <3>. QED  BY <3>1, <3>3
  <2>. QED  BY <1>11, <2>1, <2>2 DEF Run
<1>22. \E u, v, w, z \in 1..Len(t) : TakenApart(t, a, Fields(d), u, v, w, z)
  <2>. h \in 1..Len(t) /\ h + i \in 1..Len(t) /\ h + j \in 1..Len(t) /\ h + n \in 1..Len(t)
    BY <1>18
  <2>. WITNESS h \in 1..Len(t), h + i \in 1..Len(t), h + j \in 1..Len(t), h + n \in 1..Len(t)
  <2>. QED  BY <1>8, <1>18, <1>19, <1>20, <1>21, <1>24 DEF TakenApart
<1>. QED  BY <1>22 DEF d, s
===============================================================================
