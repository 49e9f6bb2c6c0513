------------------------------ MODULE Link_proof ------------------------------
(***************************************************************************)
(* What is written to a pipe is cells, and what is read is a packet,       *)
(* however the stream is cut; if it is not, it is the first packet that    *)
(* was sent.                                                               *)
(***************************************************************************)
EXTENDS Link, SequenceTheorems, FiniteSetTheorems, TLAPS

\* A cell holds a number or a payload.
LEMMA CellCases ==
  ASSUME NEW x \in Cell
  PROVE  \/ x.kind = "num" /\ x.val \in Nat
         \/ x.kind = "byte" /\ x.val \in PayloadOrGarbage
  BY DEF Cell

\* Words are found at positions of the stream.
LEMMA WordPosition ==
  ASSUME NEW c, NEW k
  PROVE  point2Word(c, k) = -1 \/ point2Word(c, k) \in DOMAIN c
  BY DEF point2Word, WordStarts

\* A word is decoded to a number, whatever it is.
LEMMA WordValueType ==
  ASSUME NEW c \in Seq(Cell), NEW k
  PROVE  WordValue(c, k) \in Int
<1>1. CASE point2Word(c, k) # -1 /\ c[point2Word(c, k)].kind = "num"
  <2>1. c[point2Word(c, k)] \in Cell
    BY <1>1, WordPosition, LenProperties, ElementOfSeq
  <2> QED  BY <1>1, <2>1, CellCases DEF WordValue
<1> QED  BY <1>1 DEF WordValue

\* And to a payload, or to garbage.
LEMMA WordPayloadType ==
  ASSUME NEW c \in Seq(Cell), NEW len \in Int
  PROVE  WordPayload(c, len) \in PayloadOrGarbage
<1> DEFINE i == point2Word(c, 4)
<1>1. CASE /\ i # -1 /\ len > 0 /\ i + len - 1 <= Len(c)
           /\ \A j \in i .. i + len - 1 : c[j].kind = "byte"
  <2>1. i \in DOMAIN c /\ DOMAIN c = 1 .. Len(c) /\ Len(c) \in Nat
    BY <1>1, WordPosition, LenProperties
  <2>2. c[i] \in Cell /\ i \in i .. i + len - 1
    BY <1>1, <2>1, ElementOfSeq
  <2>3. c[i].val \in PayloadOrGarbage
    BY <1>1, <2>2, CellCases
  <2> QED  BY <1>1, <2>3 DEF WordPayload
<1> QED  BY <1>1 DEF WordPayload, PayloadOrGarbage

\* A read takes cells off the front of the stream.
LEMMA ReadType ==
  ASSUME NEW s \in Seq(Cell)
  PROVE  ReadCells(s) \in Seq(Cell) /\ Unread(s) \in Seq(Cell)
<1>1. Len(s) \in Nat /\ ReadLen(s) \in 0 .. Len(s)
  BY LenProperties, LinkAssumption DEF ReadLen
<1>2. \A i \in 1 .. Len(s) : s[i] \in Cell
  BY ElementOfSeq
<1>3. /\ \A i \in 1 .. ReadLen(s) : s[i] \in Cell
      /\ \A i \in ReadLen(s) + 1 .. Len(s) : s[i] \in Cell
      /\ ReadLen(s) \in Int /\ ReadLen(s) + 1 \in Int /\ Len(s) \in Int
  BY <1>1, <1>2
<1> QED  BY <1>3, SubSeqProperties DEF ReadCells, Unread

\* linkReceive gives a valid packet whenever there is something to read.
LEMMA ReceiveType ==
  ASSUME NEW s \in Seq(Cell)
  PROVE  /\ linkReceive(s) \in packetBuffer
         /\ s # << >> => linkReceive(s).is_valid = 1
<1>1. CASE s = << >>
  BY <1>1 DEF linkReceive, Uninitialised, packetBuffer, PayloadOrGarbage
<1>2. CASE s # << >>
  <2> DEFINE c == ReadCells(s)
  <2>1. /\ WordValue(c, 1) \in Int /\ WordValue(c, 2) \in Int
        /\ WordValue(c, 3) \in Int
        /\ WordPayload(c, WordValue(c, 3)) \in PayloadOrGarbage
    BY ReadType, WordValueType, WordPayloadType
  <2> HIDE DEF c
  <2>2. linkReceive(s) =
          [dest_addr |-> WordValue(c, 1), src_addr |-> WordValue(c, 2),
           length |-> WordValue(c, 3),
           payload |-> WordPayload(c, WordValue(c, 3)), is_valid |-> 1]
    BY <1>2 DEF linkReceive, c
  <2> QED  BY <2>1, <2>2 DEF packetBuffer
<1> QED  BY <1>1, <1>2

\* linkSend writes cells.
LEMMA SendType ==
  ASSUME NEW s \in Seq(Cell), NEW p \in packetBuffer
  PROVE  linkSend(s, p) \in Seq(Cell)
<1>1. CASE ~Sendable(p)
  BY <1>1 DEF linkSend
<1>2. CASE Sendable(p)
  <2> DEFINE b == [i \in 1 .. p.length |-> [kind |-> "byte", val |-> p.payload]]
  <2>1. /\ p.length \in Nat /\ p.payload \in PayloadOrGarbage
        /\ p.dest_addr \in Int /\ p.src_addr \in Int
    BY <1>2 DEF Sendable, packetBuffer
  <2>2. ASSUME NEW v \in Int  PROVE  int2Ascii(v) \in Seq(Cell)
    <3>1. CASE v < 0
      BY <3>1 DEF int2Ascii
    <3>2. CASE ~(v < 0)
      <4>1. [kind |-> "num", val |-> v] \in Cell
        BY <3>2 DEF Cell
      <4> QED  BY <3>2, <4>1 DEF int2Ascii
    <3> QED  BY <3>1, <3>2
  <2>3. b \in Seq(Cell)
    <3>1. [kind |-> "byte", val |-> p.payload] \in Cell
      BY <2>1 DEF Cell
    <3>2. b \in [1 .. p.length -> Cell]
      BY <3>1
    <3> QED  BY <2>1, <3>2, SeqDef
  <2> HIDE DEF b
  <2>4. Encode(p) = int2Ascii(p.dest_addr) \o int2Ascii(p.src_addr)
                      \o int2Ascii(p.length) \o b
    BY DEF Encode, b
  <2>5. int2Ascii(p.dest_addr) \o int2Ascii(p.src_addr) \in Seq(Cell)
    BY <2>1, <2>2, ConcatProperties
  <2>6. int2Ascii(p.dest_addr) \o int2Ascii(p.src_addr) \o int2Ascii(p.length)
          \in Seq(Cell)
    BY <2>1, <2>2, <2>5, ConcatProperties
  <2>7. Encode(p) \in Seq(Cell)
    BY <2>3, <2>4, <2>6, ConcatProperties
  <2>8. s \o Encode(p) \in Seq(Cell)
    BY <2>7, ConcatProperties
  <2> QED  BY <1>2, <2>8 DEF linkSend, Write
<1> QED  BY <1>1, <1>2

-----------------------------------------------------------------------------
(* Reads that find whole packets *)

\* A packet with a numeric header, as linkSend sends it.
WholePacket == { p \in packetBuffer : Sendable(p) /\ p.dest_addr >= 0 /\ p.src_addr >= 0 }

\* The cells of an encoded packet: a header of three words and the payload.
LEMMA EncodeCells ==
  ASSUME NEW p \in WholePacket
  PROVE  /\ Encode(p) \in Seq(Cell) /\ Len(Encode(p)) = 3 + p.length
         /\ p.length \in Nat \ {0}
         /\ Encode(p)[1] = [kind |-> "num", val |-> p.dest_addr]
         /\ Encode(p)[2] = [kind |-> "num", val |-> p.src_addr]
         /\ Encode(p)[3] = [kind |-> "num", val |-> p.length]
         /\ \A i \in 4 .. 3 + p.length : Encode(p)[i] = [kind |-> "byte", val |-> p.payload]
<1> DEFINE num(v) == [kind |-> "num", val |-> v]
           b == [i \in 1 .. p.length |-> [kind |-> "byte", val |-> p.payload]]
           d == << num(p.dest_addr) >>
           s == << num(p.src_addr) >>
           n == << num(p.length) >>
<1>1. /\ p.length \in Nat \ {0} /\ p.payload \in PayloadOrGarbage
      /\ p.dest_addr \in Nat /\ p.src_addr \in Nat
  BY DEF WholePacket, Sendable, packetBuffer
<1>2. b \in Seq(Cell) /\ Len(b) = p.length
  <2>1. [kind |-> "byte", val |-> p.payload] \in Cell
    BY <1>1 DEF Cell
  <2>2. b \in [1 .. p.length -> Cell]
    BY <2>1
  <2>3. b \in Seq(Cell)
    BY <1>1, <2>2, SeqDef
  <2> QED  BY <1>1, <2>2, <2>3, LenProperties
<1>3. ASSUME NEW v \in Nat
      PROVE  /\ int2Ascii(v) = << num(v) >> /\ << num(v) >> \in Seq(Cell)
             /\ Len(<< num(v) >>) = 1 /\ << num(v) >>[1] = num(v)
  <2>1. num(v) \in Cell
    BY DEF Cell
  <2> QED  BY <2>1 DEF int2Ascii
<1>4. Encode(p) = ((d \o s) \o n) \o b
  BY <1>1, <1>3 DEF Encode
<1>5. \A i \in 1 .. p.length : b[i] = [kind |-> "byte", val |-> p.payload]
  OBVIOUS
<1>6. /\ d \in Seq(Cell) /\ Len(d) = 1 /\ d[1] = num(p.dest_addr)
      /\ s \in Seq(Cell) /\ Len(s) = 1 /\ s[1] = num(p.src_addr)
      /\ n \in Seq(Cell) /\ Len(n) = 1 /\ n[1] = num(p.length)
  BY <1>1, <1>3
<1> HIDE DEF b, d, s, n
<1>7. /\ d \o s \in Seq(Cell) /\ Len(d \o s) = 2
      /\ (d \o s)[1] = d[1] /\ (d \o s)[2] = s[1]
  <2>1. /\ d \o s \in Seq(Cell) /\ Len(d \o s) = Len(d) + Len(s)
        /\ \A i \in 1 .. Len(d) + Len(s) :
             (d \o s)[i] = IF i <= Len(d) THEN d[i] ELSE s[i - Len(d)]
    BY <1>6, ConcatProperties
  <2> QED  BY <1>6, <2>1
<1>8. /\ (d \o s) \o n \in Seq(Cell) /\ Len((d \o s) \o n) = 3
      /\ ((d \o s) \o n)[1] = d[1] /\ ((d \o s) \o n)[2] = s[1]
      /\ ((d \o s) \o n)[3] = n[1]
  <2> DEFINE t == d \o s
  <2> HIDE DEF t
  <2>1. t \in Seq(Cell) /\ Len(t) = 2 /\ t[1] = d[1] /\ t[2] = s[1]
    BY <1>7 DEF t
  <2>2. /\ t \o n \in Seq(Cell) /\ Len(t \o n) = Len(t) + Len(n)
        /\ \A i \in 1 .. Len(t) + Len(n) :
             (t \o n)[i] = IF i <= Len(t) THEN t[i] ELSE n[i - Len(t)]
    BY <1>6, <2>1, ConcatProperties
  <2> QED  BY <1>6, <2>1, <2>2 DEF t
<1> DEFINE head == (d \o s) \o n
<1> HIDE DEF head
<1>9. /\ head \o b \in Seq(Cell) /\ Len(head \o b) = 3 + p.length
      /\ \A i \in 1 .. 3 + p.length : (head \o b)[i] = IF i <= 3 THEN head[i] ELSE b[i - 3]
  BY <1>1, <1>2, <1>8, ConcatProperties DEF head
<1>10. ASSUME NEW i \in 4 .. 3 + p.length
       PROVE  (head \o b)[i] = b[i - 3] /\ i - 3 \in 1 .. p.length
  BY <1>1, <1>9
<1>11. \A i \in 4 .. 3 + p.length :
         (head \o b)[i] = [kind |-> "byte", val |-> p.payload]
  BY <1>5, <1>10
<1> QED  BY <1>1, <1>4, <1>6, <1>8, <1>9, <1>11 DEF head

\* A set that has all of a set of four, and one more.
LEMMA OneMore ==
  ASSUME NEW U, IsFiniteSet(U), NEW S, IsFiniteSet(S), Cardinality(S) = 4,
         \A j \in S : j \in U, NEW i \in U, i \notin S
  PROVE  Cardinality(U) > 4
<1>1. S \cup {i} \in SUBSET U
  OBVIOUS
<1>2. Cardinality(S \cup {i}) = Cardinality(S) + 1
  BY FS_AddElement
<1>3. Cardinality(S \cup {i}) <= Cardinality(U)
  BY <1>1, FS_Subset
<1>4. Cardinality(U) \in Nat /\ Cardinality(S \cup {i}) = 5
  BY <1>2, FS_CardinalityType
<1> QED  BY <1>3, <1>4

\* Where the first four cells are three numbers and a byte, each begins a word.
LEMMA FirstWords ==
  ASSUME NEW c \in Seq(Cell), Len(c) >= 4,
         c[1].kind = "num", c[2].kind = "num", c[3].kind = "num", c[4].kind = "byte",
         NEW k \in 1 .. 4
  PROVE  point2Word(c, k) = k
<1> DEFINE W == WordStarts(c)
           Up(i) == { j \in W : j <= i }
<1>1. DOMAIN c = 1 .. Len(c) /\ Len(c) \in Nat
  BY LenProperties
<1>2. W \subseteq 1 .. Len(c) /\ 1 .. 4 \subseteq W
  BY <1>1 DEF WordStarts
<1>3. ASSUME NEW i \in 1 .. 4  PROVE Cardinality(Up(i)) = i
  <2>1. Up(i) = 1 .. i
    BY <1>1, <1>2
  <2>2. i \in Int /\ 1 \in Int /\ 1 <= i
    OBVIOUS
  <2> HIDE DEF Up
  <2>3. Cardinality(1 .. i) = i - 1 + 1
    BY <2>2, FS_Interval
  <2> QED  BY <2>1, <2>2, <2>3
<1>4. ASSUME NEW i \in W, i > 4  PROVE Cardinality(Up(i)) > 4
  <2>1. IsFiniteSet(Up(i))
    <3>1. IsFiniteSet(1 .. Len(c))
      BY <1>1, FS_Interval
    <3>2. Up(i) \in SUBSET (1 .. Len(c))
      BY <1>2
    <3> QED  BY <3>1, <3>2, FS_Subset
  <2>2. \A j \in 1 .. 4 : j \in Up(i)
    BY <1>1, <1>2, <1>4
  <2>3. i \in Up(i) /\ i \notin 1 .. 4
    BY <1>1, <1>2, <1>4
  <2>4. IsFiniteSet(1 .. 4) /\ Cardinality(1 .. 4) = 4
    <3>1. ASSUME NEW n \in Int, 1 <= n
          PROVE  IsFiniteSet(1 .. n) /\ Cardinality(1 .. n) = n
      <4>1. 1 \in Int
        OBVIOUS
      <4>2. Cardinality(1 .. n) = n - 1 + 1
        BY <3>1, <4>1, FS_Interval
      <4>3. IsFiniteSet(1 .. n)
        BY <4>1, FS_Interval
      <4> QED  BY <4>2, <4>3
    <3>2. 4 \in Int /\ 1 <= 4
      OBVIOUS
    <3> QED  BY <3>1, <3>2, Zenon
  <2> QED  BY <2>1, <2>2, <2>3, <2>4, OneMore
<1>5. k \in W /\ Cardinality(Up(k)) = k
  BY <1>2, <1>3
<1>6. ASSUME NEW i \in W, Cardinality(Up(i)) = k  PROVE i = k
  <2>1. i \in Nat \ {0}
    BY <1>1, <1>2
  <2>2. CASE i \in 1 .. 4
    BY <1>3, <1>6, <2>2
  <2>3. CASE i > 4
    BY <1>4, <1>6, <2>3
  <2> QED  BY <2>1, <2>2, <2>3
<1>7. point2Word(c, k) =
        IF \E i \in W : Cardinality(Up(i)) = k
        THEN CHOOSE i \in W : Cardinality(Up(i)) = k ELSE -1
  BY DEF point2Word
<1> HIDE DEF W, Up
<1> QED  BY <1>5, <1>6, <1>7

\* link.c:102-165: a read that takes all there is gets the first packet exactly
\* as it was sent, and loses what follows it.
THEOREM FirstPacket ==
  ASSUME NEW p \in WholePacket, NEW rest \in Seq(Cell),
         Len(Encode(p) \o rest) <= ReadMax
  PROVE  /\ linkReceive(Encode(p) \o rest) = [p EXCEPT !.is_valid = 1]
         /\ Unread(Encode(p) \o rest) = << >>
<1> DEFINE e == Encode(p)
           c == e \o rest
<1>1. /\ e \in Seq(Cell) /\ Len(e) = 3 + p.length /\ p.length \in Nat \ {0}
      /\ e[1] = [kind |-> "num", val |-> p.dest_addr]
      /\ e[2] = [kind |-> "num", val |-> p.src_addr]
      /\ e[3] = [kind |-> "num", val |-> p.length]
      /\ \A i \in 4 .. 3 + p.length : e[i] = [kind |-> "byte", val |-> p.payload]
  BY EncodeCells
<1> HIDE DEF e
<1>2. /\ c \in Seq(Cell) /\ Len(c) = Len(e) + Len(rest) /\ Len(rest) \in Nat
      /\ \A i \in 1 .. Len(e) : c[i] = e[i]
  BY <1>1, ConcatProperties, LenProperties
<1> HIDE DEF c
<1>3. Len(c) <= ReadMax
  BY DEF c, e
<1>4. ReadCells(c) = c /\ Unread(c) = << >>
  <2>1. ReadLen(c) = Len(c)
    BY <1>3 DEF ReadLen
  <2> QED  BY <1>2, <2>1, SubSeqFull, SubSeqEmpty, LenProperties DEF ReadCells, Unread
<1>5. /\ c[1] = [kind |-> "num", val |-> p.dest_addr]
      /\ c[2] = [kind |-> "num", val |-> p.src_addr]
      /\ c[3] = [kind |-> "num", val |-> p.length]
      /\ \A i \in 4 .. 3 + p.length : c[i] = [kind |-> "byte", val |-> p.payload]
      /\ Len(c) >= 3 + p.length
  <2>1. \A i \in 1 .. 3 + p.length : c[i] = e[i]
    BY <1>1, <1>2
  <2>2. c[1] = e[1] /\ c[2] = e[2] /\ c[3] = e[3]
    <3>1. /\ p.length \in Int /\ p.length >= 1
      BY <1>1
    <3>2. 1 \in 1 .. 3 + p.length /\ 2 \in 1 .. 3 + p.length /\ 3 \in 1 .. 3 + p.length
      BY <3>1
    <3> QED  BY <2>1, <3>2
  <2>3. \A i \in 4 .. 3 + p.length : c[i] = e[i]
    BY <1>1, <2>1
  <2>4. Len(c) >= 3 + p.length
    BY <1>1, <1>2
  <2> QED  BY <1>1, <2>2, <2>3, <2>4
<1>6. Len(c) >= 4 /\ c[4].kind = "byte"
  BY <1>1, <1>5
<1>7. point2Word(c, 1) = 1 /\ point2Word(c, 2) = 2 /\ point2Word(c, 3) = 3
        /\ point2Word(c, 4) = 4
  BY <1>2, <1>5, <1>6, FirstWords
<1>8. /\ WordValue(c, 1) = p.dest_addr /\ WordValue(c, 2) = p.src_addr
      /\ WordValue(c, 3) = p.length
  BY <1>5, <1>7 DEF WordValue
<1>9. WordPayload(c, p.length) = p.payload
  <2>1. /\ p.length > 0 /\ 4 + p.length - 1 <= Len(c)
        /\ 4 .. 4 + p.length - 1 = 4 .. 3 + p.length
        /\ 4 \in 4 .. 3 + p.length
    <3>1. /\ p.length \in Int /\ p.length >= 1 /\ Len(c) \in Int
          /\ Len(c) >= 3 + p.length
      BY <1>1, <1>2, <1>5
    <3> QED  BY <3>1
  <2>2. \A j \in 4 .. 4 + p.length - 1 : c[j].kind = "byte"
    <3>1. \A j \in 4 .. 3 + p.length : c[j].kind = "byte"
      BY <1>5
    <3> QED  BY <2>1, <3>1, Zenon
  <2>3. c[4].val = p.payload
    BY <1>5, <2>1
  <2>4. WordPayload(c, p.length) = c[4].val
    BY <1>7, <2>1, <2>2 DEF WordPayload
  <2> QED  BY <2>3, <2>4
<1>10. c # << >>
  BY <1>2, <1>6
<1>11. linkReceive(c) = [dest_addr |-> p.dest_addr, src_addr |-> p.src_addr,
                         length |-> p.length, payload |-> p.payload, is_valid |-> 1]
  BY <1>4, <1>8, <1>9, <1>10 DEF linkReceive
<1>12. [p EXCEPT !.is_valid = 1] =
         [dest_addr |-> p.dest_addr, src_addr |-> p.src_addr,
          length |-> p.length, payload |-> p.payload, is_valid |-> 1]
  BY DEF WholePacket, packetBuffer
<1> QED  BY <1>4, <1>11, <1>12 DEF c, e

\* What begins with a packet of P, if there is anything at all.
BeginsWith(P, s) ==
  s = << >> \/ \E p \in P : \E rest \in Seq(Cell) : s = Encode(p) \o rest

\* Sending keeps it so.
LEMMA SendBegins ==
  ASSUME NEW P, P \subseteq WholePacket, NEW s \in Seq(Cell), BeginsWith(P, s),
         NEW p, Sendable(p) => p \in P
  PROVE  BeginsWith(P, linkSend(s, p))
<1>1. CASE linkSend(s, p) = s
  BY <1>1
<1>2. CASE Sendable(p) /\ linkSend(s, p) = s \o Encode(p)
  <2>1. p \in P /\ Encode(p) \in Seq(Cell)
    BY <1>2, EncodeCells
  <2>2. CASE s = << >>
    <3>1. linkSend(s, p) = Encode(p) \o << >> /\ << >> \in Seq(Cell)
      BY <1>2, <2>1, <2>2, ConcatEmptySeq, EmptySeq
    <3> QED  BY <2>1, <3>1 DEF BeginsWith
  <2>3. CASE s # << >>
    <3>1. PICK q \in P, rest \in Seq(Cell) : s = Encode(q) \o rest
      BY <2>3 DEF BeginsWith
    <3>2. Encode(q) \in Seq(Cell)
      BY EncodeCells
    <3>3. /\ (Encode(q) \o rest) \o Encode(p) = Encode(q) \o (rest \o Encode(p))
          /\ rest \o Encode(p) \in Seq(Cell)
      BY <2>1, <3>2, ConcatAssociative, ConcatProperties
    <3> QED  BY <1>2, <3>1, <3>3 DEF BeginsWith
  <2> QED  BY <2>2, <2>3
<1> QED  BY <1>1, <1>2 DEF linkSend, Write

\* A read that takes all there is gets a packet of P, and leaves nothing.
LEMMA ReceiveBegins ==
  ASSUME NEW P, P \subseteq WholePacket, NEW s \in Seq(Cell), BeginsWith(P, s),
         s # << >>, Len(s) <= ReadMax
  PROVE  /\ linkReceive(s) \in P
         /\ Unread(s) = << >>
<1>1. PICK p \in P, rest \in Seq(Cell) : s = Encode(p) \o rest
  BY DEF BeginsWith
<1>2. [p EXCEPT !.is_valid = 1] = p
  BY DEF WholePacket, Sendable, packetBuffer
<1> QED  BY <1>1, <1>2, FirstPacket

-----------------------------------------------------------------------------
(* The payloads in a pipe *)

\* Where the payloads in s begin, and what they are.
PayloadsIn(s) == { i \in WordStarts(s) : s[i].kind = "byte" }
TagsIn(s) == { s[i].val : i \in PayloadsIn(s) }

\* The packet at i in s is p.
PacketAt(s, i, p) ==
  /\ 4 <= i /\ i + p.length - 1 <= Len(s)
  /\ s[i].val = p.payload
  /\ SubSeq(s, i - 3, i + p.length - 1) = Encode(p)

\* Every payload in s is that of a packet of G, which is there as it was sent.
MadeOf(G, s) == \A i \in PayloadsIn(s) : \E p \in G : PacketAt(s, i, p)

\* Sending a packet adds one payload, and leaves what was there.
LEMMA AppendPayload ==
  ASSUME NEW s \in Seq(Cell), NEW p \in WholePacket
  PROVE  LET c == s \o Encode(p)
             n == Len(s)
         IN  /\ c \in Seq(Cell) /\ n \in Nat /\ Len(c) = n + 3 + p.length
             /\ p.length \in Nat \ {0}
             /\ \A i \in 1 .. n : c[i] = s[i]
             /\ PayloadsIn(s) \subseteq 1 .. n
             /\ PayloadsIn(c) = PayloadsIn(s) \cup {n + 4}
             /\ c[n + 4].val = p.payload
             /\ \A a, b \in Int : 1 <= a /\ b <= n => SubSeq(c, a, b) = SubSeq(s, a, b)
             /\ SubSeq(c, n + 1, n + 3 + p.length) = Encode(p)
<1> DEFINE e == Encode(p)
           c == s \o e
           n == Len(s)
           m == p.length
<1>1. /\ e \in Seq(Cell) /\ Len(e) = 3 + m /\ m \in Nat \ {0}
      /\ e[1].kind = "num" /\ e[2].kind = "num" /\ e[3].kind = "num"
      /\ \A i \in 4 .. 3 + m : e[i].kind = "byte" /\ e[i].val = p.payload
  <2>1. /\ e \in Seq(Cell) /\ Len(e) = 3 + m /\ m \in Nat \ {0}
        /\ e[1] = [kind |-> "num", val |-> p.dest_addr]
        /\ e[2] = [kind |-> "num", val |-> p.src_addr]
        /\ e[3] = [kind |-> "num", val |-> m]
        /\ \A i \in 4 .. 3 + m : e[i] = [kind |-> "byte", val |-> p.payload]
    BY EncodeCells
  <2> HIDE DEF e, m
  <2> QED  BY <2>1
<1> HIDE DEF e, m
<1>2. /\ c \in Seq(Cell) /\ n \in Nat /\ Len(c) = n + (3 + m)
      /\ \A i \in 1 .. n + (3 + m) : c[i] = IF i <= n THEN s[i] ELSE e[i - n]
  <2>1. /\ c \in Seq(Cell) /\ Len(c) = n + Len(e)
        /\ \A i \in 1 .. n + Len(e) : c[i] = IF i <= n THEN s[i] ELSE e[i - n]
    BY <1>1, ConcatProperties
  <2>2. n \in Nat /\ Len(e) = 3 + m
    BY <1>1, LenProperties
  <2> QED  BY <2>1, <2>2
<1>3. DOMAIN c = 1 .. n + (3 + m) /\ DOMAIN s = 1 .. n
  BY <1>2, LenProperties
<1> HIDE DEF c, n
<1>4. m \in Int /\ m >= 1 /\ n \in Int /\ n >= 0
  BY <1>1, <1>2
<1>5. \A i \in 1 .. n : c[i] = s[i]
  BY <1>2, <1>4
<1>6. \A k \in 1 .. 3 + m : n + k \in 1 .. n + (3 + m) /\ c[n + k] = e[k]
  <2> SUFFICES ASSUME NEW k \in 1 .. 3 + m
               PROVE  n + k \in 1 .. n + (3 + m) /\ c[n + k] = e[k]
    OBVIOUS
  <2>1. n + k \in 1 .. n + (3 + m) /\ ~(n + k <= n) /\ (n + k) - n = k
    BY <1>4
  <2> QED  BY <1>2, <2>1
<1>7. PayloadsIn(s) \subseteq 1 .. n
  BY <1>3 DEF PayloadsIn, WordStarts
<1>8. ASSUME NEW i \in 1 .. n
      PROVE  i \in PayloadsIn(c) <=> i \in PayloadsIn(s)
  <2>1. i = 1 \/ i - 1 \in 1 .. n
    BY <1>4
  <2>2. c[i] = s[i] /\ (i # 1 => c[i - 1] = s[i - 1])
    BY <1>5, <2>1
  <2>3. i \in DOMAIN c /\ i \in DOMAIN s
    BY <1>3, <1>4
  <2> QED  BY <2>2, <2>3 DEF PayloadsIn, WordStarts
<1>9. ASSUME NEW k \in 1 .. 3 + m
      PROVE  n + k \in PayloadsIn(c) <=> k = 4
  <2>1. CASE k \in 1 .. 3
    <3>1. c[n + k].kind = "num"
      BY <1>1, <1>6, <2>1
    <3> QED  BY <2>1, <3>1 DEF PayloadsIn
  <2>2. CASE k = 4
    <3>1. n + 3 \in 1 .. n + (3 + m) /\ c[n + 3] = e[3] /\ c[n + 4] = e[4] /\ e[4].kind = "byte"
      BY <1>1, <1>4, <1>6, <2>2
    <3>2. n + 4 \in DOMAIN c /\ (n + 4) - 1 = n + 3
      BY <1>3, <1>4
    <3> QED  BY <1>1, <2>2, <3>1, <3>2 DEF PayloadsIn, WordStarts
  <2>3. CASE k > 4
    <3>1. k - 1 \in 4 .. 3 + m /\ k \in 4 .. 3 + m /\ k - 1 \in 1 .. 3 + m
      BY <1>4, <2>3
    <3>2. c[n + k].kind = "byte" /\ c[n + (k - 1)].kind = "byte"
      BY <1>1, <1>6, <3>1
    <3>3. n + k # 1 /\ (n + k) - 1 = n + (k - 1)
      BY <1>4, <2>3
    <3> QED  BY <2>3, <3>2, <3>3 DEF PayloadsIn, WordStarts
  <2> QED  BY <1>4, <2>1, <2>2, <2>3
<1>10. PayloadsIn(c) = PayloadsIn(s) \cup {n + 4}
  <2>1. \A i \in PayloadsIn(c) : i \in 1 .. n \/ \E k \in 1 .. 3 + m : i = n + k
    <3> SUFFICES ASSUME NEW i \in PayloadsIn(c), i \notin 1 .. n
                 PROVE  \E k \in 1 .. 3 + m : i = n + k
      OBVIOUS
    <3>1. i \in 1 .. n + (3 + m)
      BY <1>3 DEF PayloadsIn, WordStarts
    <3>2. i - n \in 1 .. 3 + m /\ i = n + (i - n)
      BY <1>4, <3>1
    <3> QED  BY <3>2
  <2>2. 4 \in 1 .. 3 + m
    BY <1>4
  <2> QED  BY <1>7, <1>8, <1>9, <2>1, <2>2
<1>11. c[n + 4].val = p.payload
  <2>1. 4 \in 1 .. 3 + m /\ 4 \in 4 .. 3 + m
    BY <1>4
  <2>2. c[n + 4] = e[4] /\ e[4].val = p.payload
    BY <1>1, <1>6, <2>1
  <2> QED  BY <2>2
<1>12. ASSUME NEW a \in Int, NEW b \in Int, 1 <= a, b <= n
       PROVE  SubSeq(c, a, b) = SubSeq(s, a, b)
  <2> DEFINE x == SubSeq(c, a, b)
             y == SubSeq(s, a, b)
  <2>1. \A i \in a .. b : i \in 1 .. n /\ c[i] = s[i] /\ s[i] \in Cell
    <3>1. \A i \in a .. b : i \in 1 .. n
      BY <1>4, <1>12
    <3>2. \A i \in 1 .. n : s[i] \in Cell
      BY ElementOfSeq DEF n
    <3> QED  BY <1>5, <3>1, <3>2
  <2>2. /\ x \in Seq(Cell) /\ Len(x) = IF a <= b THEN b - a + 1 ELSE 0
        /\ \A i \in 1 .. b - a + 1 : x[i] = c[a + i - 1]
    BY <2>1, SubSeqProperties
  <2>3. /\ y \in Seq(Cell) /\ Len(y) = IF a <= b THEN b - a + 1 ELSE 0
        /\ \A i \in 1 .. b - a + 1 : y[i] = s[a + i - 1]
    BY <2>1, SubSeqProperties
  <2> HIDE DEF x, y
  <2>4. \A i \in 1 .. Len(x) : a + i - 1 \in a .. b /\ i \in 1 .. b - a + 1
    BY <2>2
  <2>5. \A i \in 1 .. Len(x) : x[i] = y[i]
    BY <2>1, <2>2, <2>3, <2>4
  <2> QED  BY <2>2, <2>3, <2>5, SeqEqual DEF x, y
<1>13. SubSeq(c, n + 1, n + 3 + m) = e
  <2> DEFINE t == SubSeq(c, n + 1, n + 3 + m)
  <2>1. n + 1 \in 1 .. Len(c) + 1 /\ n + 3 + m \in (n + 1) - 1 .. Len(c)
    BY <1>2, <1>4
  <2>2. /\ t \in Seq(Cell) /\ Len(t) = 3 + m
        /\ \A i \in 1 .. 3 + m : t[i] = c[n + i]
    <3>1. /\ t \in Seq(Cell)
          /\ Len(t) = (n + 3 + m) - (n + 1) + 1
          /\ \A i \in 1 .. (n + 3 + m) - (n + 1) + 1 : t[i] = c[(n + 1) + i - 1]
      BY <1>2, <2>1, SubSeqProperties
    <3>2. (n + 3 + m) - (n + 1) + 1 = 3 + m /\ \A i \in 1 .. 3 + m : (n + 1) + i - 1 = n + i
      BY <1>4
    <3> QED  BY <3>1, <3>2
  <2> HIDE DEF t
  <2>3. \A i \in 1 .. 3 + m : t[i] = e[i]
    BY <1>6, <2>2
  <2> QED  BY <1>1, <2>2, <2>3, SeqEqual DEF t
<1>14. Len(c) = n + 3 + m
  BY <1>2, <1>4
<1> QED
  BY <1>1, <1>2, <1>5, <1>7, <1>10, <1>11, <1>12, <1>13, <1>14 DEF c, e, n, m

\* In a pipe made of packets that were sent, it is one more of them.
LEMMA SendMadeOf ==
  ASSUME NEW G, G \subseteq WholePacket, NEW s \in Seq(Cell), MadeOf(G, s),
         NEW p, Sendable(p) => p \in G
  PROVE  MadeOf(G, linkSend(s, p))
<1>1. CASE linkSend(s, p) = s
  BY <1>1
<1>2. CASE Sendable(p) /\ linkSend(s, p) = s \o Encode(p)
  <2> DEFINE c == s \o Encode(p)
             n == Len(s)
  <2>1. /\ p \in G /\ p \in WholePacket
    BY <1>2
  <2>2. /\ n \in Nat /\ Len(c) = n + 3 + p.length /\ p.length \in Nat \ {0}
        /\ \A i \in 1 .. n : c[i] = s[i]
        /\ PayloadsIn(s) \subseteq 1 .. n
        /\ PayloadsIn(c) = PayloadsIn(s) \cup {n + 4}
        /\ c[n + 4].val = p.payload
        /\ \A a, b \in Int : 1 <= a /\ b <= n => SubSeq(c, a, b) = SubSeq(s, a, b)
        /\ SubSeq(c, n + 1, n + 3 + p.length) = Encode(p)
    BY <2>1, AppendPayload
  <2> HIDE DEF c, n
  <2>3. ASSUME NEW i \in PayloadsIn(s)
        PROVE  \E q \in G : PacketAt(c, i, q)
    <3>1. PICK q \in G : PacketAt(s, i, q)
      BY DEF MadeOf
    <3>2. i \in 1 .. n /\ c[i] = s[i]
      BY <2>2
    <3>3. q.length \in Int
      BY DEF WholePacket, packetBuffer
    <3>4. 4 <= i /\ i + q.length - 1 <= n /\ s[i].val = q.payload
          /\ SubSeq(s, i - 3, i + q.length - 1) = Encode(q)
      BY <3>1 DEF PacketAt, n
    <3>5. SubSeq(c, i - 3, i + q.length - 1) = SubSeq(s, i - 3, i + q.length - 1)
      <4>1. i - 3 \in Int /\ i + q.length - 1 \in Int /\ 1 <= i - 3
        BY <3>2, <3>3, <3>4
      <4> QED  BY <2>2, <3>4, <4>1
    <3>6. i + q.length - 1 <= Len(c)
      <4>1. p.length \in Int /\ p.length >= 1 /\ n \in Int /\ i \in Int
        BY <2>2, <3>2
      <4> QED  BY <2>2, <3>3, <3>4, <4>1
    <3> QED  BY <3>2, <3>4, <3>5, <3>6 DEF PacketAt
  <2>4. PacketAt(c, n + 4, p)
    <3>1. /\ p.length \in Int /\ p.length >= 1 /\ n \in Int /\ n >= 0
          /\ Len(c) = n + 3 + p.length
      BY <2>2
    <3>2. /\ 4 <= n + 4 /\ n + 4 + p.length - 1 <= Len(c)
          /\ (n + 4) - 3 = n + 1 /\ n + 4 + p.length - 1 = n + 3 + p.length
      BY <3>1
    <3> QED  BY <2>2, <3>2 DEF PacketAt
  <2>5. MadeOf(G, c)
    BY <2>1, <2>2, <2>3, <2>4 DEF MadeOf
  <2> QED  BY <1>2, <2>5 DEF c
<1> QED  BY <1>1, <1>2 DEF linkSend, Write

\* Sending does nothing if the pipe has no room, and else adds one payload.
LEMMA SendTags ==
  ASSUME NEW s \in Seq(Cell), NEW p \in WholePacket
  PROVE  LET c == linkSend(s, p)
         IN  \/ c = s /\ Len(s) + 3 + p.length > PipeMax
             \/ /\ c = s \o Encode(p) /\ Len(c) = Len(s) + 3 + p.length
                /\ TagsIn(c) = TagsIn(s) \cup {p.payload}
<1> DEFINE c == s \o Encode(p)
           n == Len(s)
<1>1. /\ n \in Nat /\ Len(c) = n + 3 + p.length
      /\ \A i \in 1 .. n : c[i] = s[i]
      /\ PayloadsIn(s) \subseteq 1 .. n
      /\ PayloadsIn(c) = PayloadsIn(s) \cup {n + 4}
      /\ c[n + 4].val = p.payload
  BY AppendPayload
<1>2. Len(Encode(p)) = 3 + p.length /\ p.length \in Nat \ {0}
  BY EncodeCells
<1>3. linkSend(s, p) = IF n + Len(Encode(p)) <= PipeMax THEN c ELSE s
  BY DEF WholePacket, linkSend, Write
<1> HIDE DEF c, n
<1>4. TagsIn(c) = TagsIn(s) \cup {p.payload}
  <2>1. \A i \in PayloadsIn(s) : c[i] = s[i]
    BY <1>1
  <2> QED  BY <1>1, <2>1 DEF TagsIn
<1>5. n + Len(Encode(p)) <= PipeMax \/ n + 3 + p.length > PipeMax
  <2>1. n \in Int /\ p.length \in Int /\ PipeMax \in Int
    BY <1>1, <1>2, LinkAssumption
  <2> QED  BY <1>2, <2>1
<1> QED  BY <1>1, <1>3, <1>4, <1>5 DEF c, n
=============================================================================
