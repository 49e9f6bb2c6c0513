----------------------------- MODULE Codec_proof -----------------------------
(***************************************************************************)
(* What is encoded is decoded to itself: bytes, numbers and words of every *)
(* length, and so a link of text implements a link of packets.             *)
(***************************************************************************)
EXTENDS TextLink, FiniteSetTheorems, SequenceTheorems, NaturalsInduction,
        WellFoundedInduction, TLAPS


\* A char is 16 times its quotient, rounded down, and its last four bits.
LEMMA Split ==
  ASSUME NEW b \in Char
  PROVE  /\ b \div 16 \in -8 .. 7
         /\ b % 16 \in 0 .. 15
         /\ b = 16 * (b \div 16) + (b % 16)
BY SMT DEF Char

\* Assigning to a char changes no char.
LEMMA CharKept ==
  ASSUME NEW v \in Char PROVE ToChar(v) = v
BY SMT DEF Char, ToChar

\* link.c:223-231: the upper letter is that of the quotient rounded down, but
\* that of the next one for a negative number that is not a multiple of 16.
LEMMA HighLetterOf ==
  ASSUME NEW b \in Char
  PROVE  HighLetter(b) - LetterA =
           IF b \in Restorable THEN (b \div 16) % 16 ELSE ((b \div 16) + 1) % 16
<1>1. CASE b >= 0
  BY <1>1, SMT DEF Char, HighLetter, QuotientBy16, LastFourBits, LetterA, Restorable
<1>2. CASE b < 0 /\ b % 16 = 0
  <2>1. -((-b) \div 16) = b \div 16
    BY <1>2, SMT DEF Char
  <2> QED BY <1>2, <2>1, SMT DEF Char, HighLetter, QuotientBy16, LastFourBits, LetterA, Restorable
<1>3. CASE b < 0 /\ b % 16 # 0
  <2>1. -((-b) \div 16) = (b \div 16) + 1
    BY <1>3, SMT DEF Char
  <2> QED BY <1>3, <2>1, SMT DEF Char, HighLetter, QuotientBy16, LastFourBits, LetterA, Restorable
<1> QED BY <1>1, <1>2, <1>3, SMT DEF Char

\* link.c:152-155: the letters of two halves give the char with these halves.
LEMMA DecodeHalves ==
  ASSUME NEW q \in -8 .. 7, NEW r \in 0 .. 15
  PROVE  DecodeByte((q % 16) + LetterA, r + LetterA) = 16 * q + r
<1>1. ToChar(((q % 16) + LetterA) - LetterA) = q % 16
  BY SMT DEF ToChar, LetterA
<1>2. ToChar((q % 16) * 16) = 16 * q
  BY SMT DEF ToChar
<1>3. ToChar((r + LetterA) - LetterA) = r
  BY SMT DEF ToChar, LetterA
<1>4. ToChar((16 * q) + r) = 16 * q + r
  BY SMT DEF ToChar
<1> QED BY <1>1, <1>2, <1>3, <1>4, SMT DEF DecodeByte

\* link.c:219-231 and 152-155: decoding the two letters of a byte gives the
\* byte back if and only if it is restorable.
THEOREM ByteRoundTrip ==
  ASSUME NEW b \in Char
  PROVE  DecodeByte(HighLetter(b), LowLetter(b)) = b <=> b \in Restorable
<1> DEFINE q == b \div 16
           r == b % 16
<1>1. q \in -8 .. 7 /\ r \in 0 .. 15 /\ b = 16 * q + r
  BY Split
<1>2. LowLetter(b) = r + LetterA
  BY DEF LowLetter, LastFourBits
<1>3. CASE b \in Restorable
  <2>1. HighLetter(b) = (q % 16) + LetterA
    BY <1>3, <1>1, HighLetterOf, SMT DEF HighLetter, LastFourBits, QuotientBy16, LetterA, Char
  <2> HIDE DEF q, r
  <2> QED BY <1>1, <1>2, <1>3, <2>1, DecodeHalves
<1>4. CASE b \notin Restorable
  <2>1. q + 1 \in -8 .. 7
    BY <1>1, <1>4, SMT DEF Restorable, Char
  <2>2. HighLetter(b) = ((q + 1) % 16) + LetterA
    BY <1>4, <1>1, HighLetterOf, SMT DEF HighLetter, LastFourBits, QuotientBy16, LetterA, Char
  <2> HIDE DEF q, r
  <2>3. DecodeByte(HighLetter(b), LowLetter(b)) = 16 * (q + 1) + r
    BY <1>1, <1>2, <2>1, <2>2, DecodeHalves
  <2>4. 16 * (q + 1) + r # 16 * q + r
    BY <1>1, SMT
  <2> QED BY <1>1, <1>4, <2>3, <2>4
<1> QED BY <1>3, <1>4

\* link.c:219-233 and 152-155: a payload of restorable bytes comes back whole,
\* whatever follows it in the word.
THEOREM PayloadRoundTrip ==
  ASSUME NEW payload \in Seq(Restorable), NEW more \in Seq(Int)
  PROVE  DecodePayload(EncodePayload(payload) \o more, Len(payload)) = payload
<1> DEFINE len == Len(payload)
           word == EncodePayload(payload) \o more
<1>1. len \in Nat /\ payload = [k \in 1 .. len |-> payload[k]]
  OBVIOUS
<1>2. \A k \in 1 .. len : payload[k] \in Restorable /\ payload[k] \in Char
  BY DEF Restorable
<1>3. EncodePayload(payload) \in Seq(Int) /\ Len(EncodePayload(payload)) = 2 * len
  <2>1. \A b \in Char : HighLetter(b) \in Int /\ LowLetter(b) \in Int
    BY SMT DEF Char, HighLetter, LowLetter, QuotientBy16, LastFourBits, LetterA
  <2>2. \A i \in 1 .. 2 * len : (i % 2 = 1 => (i + 1) \div 2 \in 1 .. len)
                             /\ (i % 2 # 1 => i \div 2 \in 1 .. len)
    BY <1>1, SMT
  <2>3. \A i \in 1 .. 2 * len :
          (IF i % 2 = 1 THEN HighLetter(payload[(i + 1) \div 2])
                        ELSE LowLetter(payload[i \div 2])) \in Int
    BY <1>2, <2>1, <2>2
  <2> QED BY <1>1, <2>3 DEF EncodePayload
<1>4. ASSUME NEW k \in 1 .. len
      PROVE  /\ word[2 * k - 1] = HighLetter(payload[k])
             /\ word[2 * k] = LowLetter(payload[k])
  <2>1. /\ 2 * k - 1 \in 1 .. 2 * len /\ 2 * k \in 1 .. 2 * len
        /\ (2 * k - 1) % 2 = 1 /\ (2 * k) % 2 # 1
        /\ ((2 * k - 1) + 1) \div 2 = k /\ (2 * k) \div 2 = k
    BY <1>1, SMT
  <2>2. \A i \in 1 .. 2 * len : word[i] = EncodePayload(payload)[i]
    BY <1>1, <1>3
  <2>3. /\ EncodePayload(payload)[2 * k - 1] = HighLetter(payload[k])
        /\ EncodePayload(payload)[2 * k] = LowLetter(payload[k])
    BY <2>1, Zenon DEF EncodePayload
  <2> QED BY <2>1, <2>2, <2>3
<1>5. ASSUME NEW k \in 1 .. len
      PROVE  DecodeByte(word[2 * k - 1], word[2 * k]) = payload[k]
  BY <1>2, <1>4, ByteRoundTrip, Zenon
<1> HIDE DEF word
<1>6. [k \in 1 .. len |-> DecodeByte(word[2 * k - 1], word[2 * k])]
        = [k \in 1 .. len |-> payload[k]]
  BY <1>5, Zenon
<1> QED BY <1>1, <1>6, Zenon DEF DecodePayload, word

-----------------------------------------------------------------------------
(* Numbers *)

\* Among numbers there is a least one.
LEMMA Least ==
  ASSUME NEW T, T \subseteq Nat, T # {}
  PROVE  \E i \in T : \A j \in Nat : j < i => j \notin T
<1>1. \E i \in T : \A j \in T : ~ (<< j, i >> \in OpToRel(<, Nat))
  BY NatLessThanWellFounded, WFMin
<1> QED  BY <1>1 DEF OpToRel

\* A set of numbers that has each number if it has all before it has them all.
LEMMA AllNumbers ==
  ASSUME NEW S, \A k \in Nat : (\A m \in Nat : m < k => m \in S) => k \in S
  PROVE  \A k \in Nat : k \in S
<1>1. SUFFICES ASSUME Nat \ S # {}  PROVE FALSE
  OBVIOUS
<1>2. PICK k \in Nat \ S : \A j \in Nat : j < k => j \notin Nat \ S
  BY <1>1, Least
<1> QED  BY <1>2

\* The equation for digits, for the numbers up to k.
Step(f, v) ==
  IF v < 10 THEN << Zero + v >> ELSE Append(f[v \div 10], Zero + (v % 10))
DigitsTo(f, k) == f = [v \in 0 .. k |-> Step(f, v)]

\* It has a solution, and only one.
LEMMA DigitsExist == \A k \in Nat : \E f : DigitsTo(f, k)
<1> DEFINE S == { k \in Nat : \E f : DigitsTo(f, k) }
<1>1. ASSUME NEW k \in Nat, \A m \in Nat : m < k => m \in S  PROVE k \in S
  <2>1. PICK f : k > 0 => DigitsTo(f, k - 1)
    BY <1>1
  <2> DEFINE g == [v \in 0 .. k |-> IF v < k THEN f[v] ELSE Step(f, v)]
  <2>2. ASSUME NEW v \in 0 .. k  PROVE g[v] = Step(g, v)
    <3>1. v >= 10 => v \div 10 \in 0 .. k /\ v \div 10 < v
      BY SMT
    <3>2. g[v] = Step(f, v)
      <4>1. CASE v < k
        BY <2>1, <4>1 DEF DigitsTo
      <4> QED  BY <4>1
    <3>3. v >= 10 => g[v \div 10] = f[v \div 10]
      BY <3>1
    <3> HIDE DEF g
    <3> QED  BY <3>2, <3>3 DEF Step
  <2>3. DigitsTo(g, k)
    <3>1. g = [v \in 0 .. k |-> g[v]]
      OBVIOUS
    <3> HIDE DEF g
    <3> QED  BY <2>2, <3>1, Zenon DEF DigitsTo
  <2> QED  BY <2>3
<1> HIDE DEF S
<1>2. \A k \in Nat : k \in S
  BY <1>1, AllNumbers
<1> QED  BY <1>2 DEF S

LEMMA DigitsUnique ==
  ASSUME NEW f, NEW g, NEW m \in Nat, NEW k \in Nat, DigitsTo(f, m), DigitsTo(g, k)
  PROVE  \A v \in Nat : v <= m /\ v <= k => f[v] = g[v]
<1> DEFINE S == { v \in Nat : v <= m /\ v <= k => f[v] = g[v] }
<1>1. ASSUME NEW v \in Nat, \A u \in Nat : u < v => u \in S  PROVE v \in S
  <2>1. SUFFICES ASSUME v <= m, v <= k  PROVE f[v] = g[v]
    OBVIOUS
  <2>2. f[v] = Step(f, v) /\ g[v] = Step(g, v)
    BY <2>1 DEF DigitsTo
  <2>3. v >= 10 => v \div 10 \in Nat /\ v \div 10 < v
    BY SMT
  <2>4. v >= 10 => f[v \div 10] = g[v \div 10]
    BY <1>1, <2>1, <2>3
  <2> QED  BY <2>2, <2>4 DEF Step
<1> HIDE DEF S
<1>2. \A v \in Nat : v \in S
  BY <1>1, AllNumbers
<1> QED  BY <1>2 DEF S

\* utilities.c:57-68: so the loop computes what its body says.
LEMMA DigitsDef == digits = [v \in Nat |-> Step(digits, v)]
<1> DEFINE F == [v \in Nat |-> (CHOOSE f : DigitsTo(f, v))[v]]
<1>1. ASSUME NEW v \in Nat  PROVE F[v] = Step(F, v)
  <2> DEFINE f == CHOOSE f : DigitsTo(f, v)
  <2>1. DigitsTo(f, v)
    BY DigitsExist
  <2>2. F[v] = f[v]
    OBVIOUS
  <2> HIDE DEF f
  <2>3. f[v] = Step(f, v)
    BY <2>1 DEF DigitsTo
  <2>4. v >= 10 => F[v \div 10] = f[v \div 10]
    <3> SUFFICES ASSUME v >= 10  PROVE F[v \div 10] = f[v \div 10]
      OBVIOUS
    <3> DEFINE u == v \div 10
               g == CHOOSE g : DigitsTo(g, u)
    <3>1. u \in Nat /\ u <= v
      BY SMT
    <3> HIDE DEF u
    <3>2. DigitsTo(g, u) /\ F[u] = g[u]
      BY <3>1, DigitsExist
    <3> HIDE DEF g
    <3>3. f[u] = g[u]
      BY <2>1, <3>1, <3>2, DigitsUnique
    <3> QED  BY <3>2, <3>3 DEF u
  <2> HIDE DEF F
  <2> QED  BY <2>2, <2>3, <2>4 DEF Step
<1>2. F = [v \in Nat |-> Step(F, v)]
  <2>1. F = [v \in Nat |-> F[v]]
    OBVIOUS
  <2> HIDE DEF F
  <2> QED  BY <1>1, <2>1, Zenon
<1> HIDE DEF F
<1>3. digits = CHOOSE d : d = [v \in Nat |-> Step(d, v)]
  BY DEF digits, Step
<1> QED  BY <1>2, <1>3

-----------------------------------------------------------------------------
\* f is the table of the values of the beginnings of s.
Spells(f, s) ==
  f = [i \in 0 .. Len(s) |-> IF i = 0 THEN 0 ELSE 10 * f[i - 1] + s[i] - Zero]

LEMMA ValueSpelled ==
  ASSUME NEW s \in Seq(Int), NEW f \in [0 .. Len(s) -> Int], Spells(f, s)
  PROVE  Value(s) = f[Len(s)]
<1> DEFINE g == CHOOSE g : Spells(g, s)
<1>1. Value(s) = g[Len(s)]
  BY DEF Value, Spells
<1>2. Spells(g, s)
  OBVIOUS
<1> HIDE DEF g
<1> DEFINE S == { i \in Nat : i <= Len(s) => g[i] = f[i] }
<1>3. Len(s) \in Nat
  OBVIOUS
<1>4. ASSUME NEW i \in Nat, \A j \in Nat : j < i => j \in S  PROVE i \in S
  <2>1. SUFFICES ASSUME i <= Len(s)  PROVE g[i] = f[i]
    OBVIOUS
  <2>2. /\ g[i] = IF i = 0 THEN 0 ELSE 10 * g[i - 1] + s[i] - Zero
        /\ f[i] = IF i = 0 THEN 0 ELSE 10 * f[i - 1] + s[i] - Zero
    BY <1>2, <1>3, <2>1 DEF Spells
  <2>3. i # 0 => g[i - 1] = f[i - 1]
    BY <1>3, <1>4, <2>1
  <2> QED  BY <2>2, <2>3
<1> HIDE DEF S
<1>5. \A i \in Nat : i \in S
  BY <1>4, AllNumbers
<1> QED  BY <1>1, <1>3, <1>5 DEF S

\* utilities.c:45-98: the digits of a number spell it.
LEMMA DigitsSpell ==
  ASSUME NEW v \in Nat
  PROVE  /\ digits[v] \in Seq(Digit) /\ digits[v] # << >>
         /\ Value(digits[v]) = v
<1> DEFINE Good(k, f) ==
             /\ digits[k] \in Seq(Digit) /\ digits[k] # << >>
             /\ f \in [0 .. Len(digits[k]) -> Int]
             /\ Spells(f, digits[k]) /\ f[Len(digits[k])] = k
           S == { k \in Nat : \E f : Good(k, f) }
<1>1. ASSUME NEW k \in Nat, \A m \in Nat : m < k => m \in S  PROVE k \in S
  <2>1. digits[k] = Step(digits, k)
    BY DigitsDef
  <2>2. CASE k < 10
    <3> DEFINE s == << Zero + k >>
               f == [i \in 0 .. 1 |-> IF i = 0 THEN 0 ELSE k]
    <3>1. digits[k] = s
      BY <2>1, <2>2 DEF Step
    <3>2. Zero + k \in Digit /\ Zero + k - Zero = k
      BY <2>2 DEF Digit, Zero
    <3>3. s \in Seq(Digit) /\ s # << >> /\ Len(s) = 1 /\ s[1] = Zero + k
      BY <3>2
    <3>4. f \in [0 .. 1 -> Int] /\ f[1] = k /\ f[0] = 0
      OBVIOUS
    <3>5. ASSUME NEW i \in 0 .. 1
          PROVE  f[i] = IF i = 0 THEN 0 ELSE 10 * f[i - 1] + s[i] - Zero
      <4>1. i = 0 \/ i = 1
        OBVIOUS
      <4>2. f[1] = 10 * f[0] + s[1] - Zero
        BY <3>3, <3>4 DEF Zero
      <4> HIDE DEF f, s
      <4> QED  BY <3>4, <4>1, <4>2
    <3>6. f = [i \in 0 .. 1 |-> f[i]]
      OBVIOUS
    <3> HIDE DEF f, s
    <3>7. f = [i \in 0 .. 1 |-> IF i = 0 THEN 0 ELSE 10 * f[i - 1] + s[i] - Zero]
      BY <3>5, <3>6, Zenon
    <3>8. Good(k, f)
      BY <3>1, <3>3, <3>4, <3>7 DEF Spells
    <3> QED  BY <3>8
  <2>3. CASE k >= 10
    <3> DEFINE m == k \div 10
               c == Zero + (k % 10)
    <3>1. m \in Nat /\ m < k /\ k = 10 * m + (c - Zero) /\ c \in Digit
      BY <2>3, SMT DEF Digit, Zero
    <3>2. PICK g : Good(m, g)
      BY <1>1, <3>1
    <3> DEFINE d == digits[m]
               s == Append(d, c)
               f == [i \in 0 .. Len(d) + 1 |-> IF i = Len(d) + 1 THEN k ELSE g[i]]
    <3>3. digits[k] = s
      BY <2>1, <2>3 DEF Step
    <3>4. /\ d \in Seq(Digit) /\ Len(d) \in Nat /\ g \in [0 .. Len(d) -> Int]
          /\ Spells(g, d) /\ g[Len(d)] = m
      BY <3>2
    <3> HIDE DEF m, c, d, Good
    <3>5. /\ s \in Seq(Digit) /\ s # << >> /\ Len(s) = Len(d) + 1 /\ s[Len(d) + 1] = c
          /\ \A i \in 1 .. Len(d) : s[i] = d[i]
      BY <3>1, <3>4
    <3>6. f \in [0 .. Len(d) + 1 -> Int] /\ f[Len(d) + 1] = k
          /\ \A i \in 0 .. Len(d) : f[i] = g[i]
      BY <3>4
    <3>7. f = [i \in 0 .. Len(d) + 1 |-> f[i]]
      OBVIOUS
    <3> HIDE DEF s, f
    <3>8. ASSUME NEW i \in 0 .. Len(d) + 1
          PROVE  f[i] = IF i = 0 THEN 0 ELSE 10 * f[i - 1] + s[i] - Zero
      <4>1. CASE i = Len(d) + 1
        <5>1. i # 0 /\ i - 1 = Len(d) /\ Len(d) \in 0 .. Len(d)
          BY <3>4, <4>1
        <5>2. f[i] = k /\ f[i - 1] = m /\ s[i] = c
          BY <3>4, <3>5, <3>6, <4>1, <5>1
        <5>3. k = 10 * m + c - Zero /\ c \in Int
          BY <3>1 DEF Digit, Zero
        <5> QED  BY <5>1, <5>2, <5>3
      <4>2. CASE i # Len(d) + 1
        <5>1. i \in 0 .. Len(d) /\ (i # 0 => i - 1 \in 0 .. Len(d) /\ i \in 1 .. Len(d))
          BY <3>4, <4>2
        <5>2. g[i] = IF i = 0 THEN 0 ELSE 10 * g[i - 1] + d[i] - Zero
          BY <3>4, <5>1 DEF Spells
        <5> QED  BY <3>5, <3>6, <5>1, <5>2
      <4> QED  BY <4>1, <4>2
    <3>9. f = [i \in 0 .. Len(d) + 1 |-> IF i = 0 THEN 0 ELSE 10 * f[i - 1] + s[i] - Zero]
      BY <3>7, <3>8, Zenon
    <3>10. Good(k, f)
      BY <3>3, <3>5, <3>6, <3>9 DEF Spells, Good
    <3> QED  BY <3>10
  <2> QED  BY <2>2, <2>3
<1> HIDE DEF S
<1>2. v \in S
  BY <1>1, AllNumbers
<1>3. PICK f : Good(v, f)
  BY <1>2 DEF S
<1>4. Seq(Digit) \subseteq Seq(Int)
  BY DEF Digit, Zero
<1> QED  BY <1>3, <1>4, ValueSpelled

-----------------------------------------------------------------------------
(* Words *)

Word(w) == w \in Seq(Int) /\ w # << >> /\ \A i \in 1 .. Len(w) : w[i] # Space

\* What two sequences put together are made of.
LEMMA Joined ==
  ASSUME NEW s \in Seq(Int), NEW t \in Seq(Int)
  PROVE  /\ s \o t \in Seq(Int) /\ Len(s \o t) = Len(s) + Len(t)
         /\ Len(s) \in Nat /\ Len(t) \in Nat
         /\ \A i \in 1 .. Len(s) : (s \o t)[i] = s[i]
         /\ \A i \in 1 .. Len(t) : (s \o t)[Len(s) + i] = t[i]
<1>1. Len(s) \in Nat /\ Len(t) \in Nat
  BY LenProperties
<1>2. /\ s \o t \in Seq(Int) /\ Len(s \o t) = Len(s) + Len(t)
      /\ \A i \in 1 .. Len(s) + Len(t) :
           (s \o t)[i] = IF i <= Len(s) THEN s[i] ELSE t[i - Len(s)]
  BY ConcatProperties
<1>3. ASSUME NEW i \in 1 .. Len(s)  PROVE (s \o t)[i] = s[i]
  BY <1>1, <1>2
<1>4. ASSUME NEW i \in 1 .. Len(t)  PROVE (s \o t)[Len(s) + i] = t[i]
  <2>1. Len(s) + i \in 1 .. Len(s) + Len(t) /\ ~(Len(s) + i <= Len(s))
        /\ (Len(s) + i) - Len(s) = i
    BY <1>1
  <2> QED  BY <1>2, <2>1
<1> QED  BY <1>1, <1>2, <1>3, <1>4

\* What comes before a character is all up to it.
LEMMA BeforeFirst ==
  ASSUME NEW w \in Seq(Int), NEW r \in Seq(Int), NEW C,
         \A i \in 1 .. Len(w) : w[i] \notin C, r = << >> \/ r[1] \in C
  PROVE  Before(w \o r, C) = w
<1> DEFINE s == w \o r
           I == { i \in 1 .. Len(s) : s[i] \in C }
           end == SelectInSeq(s, LAMBDA c : c \in C)
<1>1. /\ s \in Seq(Int) /\ Len(s) = Len(w) + Len(r) /\ Len(w) \in Nat /\ Len(r) \in Nat
      /\ \A i \in 1 .. Len(w) : s[i] = w[i]
      /\ \A i \in 1 .. Len(r) : s[Len(w) + i] = r[i]
  BY Joined
<1>2. end = IF I # {} THEN Min(I) ELSE 0
  BY DEF SelectInSeq
<1>3. Before(s, C) = IF end = 0 THEN s ELSE SubSeq(s, 1, end - 1)
  BY DEF Before
<1>4. CASE r = << >>
  <2>1. s = w /\ Len(s) = Len(w)
    BY <1>4, ConcatEmptySeq
  <2> HIDE DEF s
  <2>2. I = {}
    BY <1>1, <2>1
  <2> HIDE DEF I, end
  <2> QED  BY <1>2, <1>3, <2>1, <2>2 DEF s
<1>5. CASE r # << >>
  <2>1. Len(r) >= 1 /\ r[1] \in C
    BY <1>1, <1>5, EmptySeq
  <2> HIDE DEF s
  <2>2. Len(w) + 1 \in I
    <3>1. 1 \in 1 .. Len(r)
      BY <1>1, <2>1
    <3> QED  BY <1>1, <2>1, <3>1
  <2>3. \A i \in I : Len(w) + 1 <= i
    <3> SUFFICES ASSUME NEW i \in I, i <= Len(w)  PROVE FALSE
      BY <1>1
    <3>1. i \in 1 .. Len(w) /\ s[i] \in C
      BY <1>1
    <3> QED  BY <1>1, <3>1
  <2>4. \A i \in I : i \in Int
    BY <1>1
  <2> HIDE DEF I
  <2>5. Min(I) = Len(w) + 1
    <3>1. \A i \in I : (\A j \in I : i <= j) => i = Len(w) + 1
      BY <1>1, <2>2, <2>3, <2>4
    <3> QED  BY <2>2, <2>3, <3>1 DEF Min
  <2>6. end = Len(w) + 1
    BY <1>2, <2>2, <2>5
  <2> HIDE DEF end
  <2>7. Before(s, C) = SubSeq(s, 1, Len(w))
    BY <1>1, <1>3, <2>6
  <2>8. SubSeq(s, 1, Len(w)) = w
    <3> DEFINE u == SubSeq(s, 1, Len(w))
    <3>1. \A i \in 1 .. Len(w) : s[i] \in Int
      BY <1>1
    <3>2. /\ u \in Seq(Int) /\ Len(u) = Len(w)
          /\ \A i \in 1 .. Len(w) : u[i] = s[i]
      <4>1. /\ u \in Seq(Int)
            /\ Len(u) = IF 1 <= Len(w) THEN Len(w) - 1 + 1 ELSE 0
            /\ \A i \in 1 .. Len(w) - 1 + 1 : u[i] = s[1 + i - 1]
        <5>1. 1 \in Int /\ Len(w) \in Int
          BY <1>1
        <5> QED  BY <3>1, <5>1, SubSeqProperties
      <4> HIDE DEF u
      <4>2. ASSUME NEW i \in 1 .. Len(w)  PROVE u[i] = s[i]
        <5>1. i \in 1 .. Len(w) - 1 + 1 /\ 1 + i - 1 = i
          BY <1>1
        <5> QED  BY <4>1, <5>1
      <4>3. Len(w) \in Nat
        BY <1>1
      <4>4. Len(u) = Len(w)
        <5> DEFINE c == Len(w)
        <5>1. Len(u) = IF 1 <= c THEN c - 1 + 1 ELSE 0
          BY <4>1
        <5>2. c \in Nat
          BY <4>3
        <5> HIDE DEF c
        <5>3. Len(u) = c
          BY <5>1, <5>2
        <5> QED  BY <5>3 DEF c
      <4> QED  BY <4>1, <4>2, <4>4
    <3> HIDE DEF u
    <3>3. u = w
      BY <1>1, <3>2, SeqEqual
    <3> QED  BY <3>3 DEF u
  <2> QED  BY <2>7, <2>8 DEF s
<1> QED  BY <1>4, <1>5

\* The characters of a text t, a space, a word w and what follows, r.
Text(t, w) == t \o << Space >> \o w

LEMMA TextParts ==
  ASSUME NEW t \in Seq(Int), NEW w \in Seq(Int), NEW r \in Seq(Int)
  PROVE  LET s == Text(t, w) \o r
         IN  /\ Text(t, w) \in Seq(Int) /\ s \in Seq(Int)
             /\ Len(t) \in Nat /\ Len(w) \in Nat /\ Len(r) \in Nat
             /\ Len(Text(t, w)) = Len(t) + 1 + Len(w)
             /\ Len(s) = Len(t) + 1 + Len(w) + Len(r)
             /\ \A i \in 1 .. Len(t) : s[i] = t[i]
             /\ s[Len(t) + 1] = Space
             /\ \A i \in 1 .. Len(w) : s[Len(t) + 1 + i] = w[i]
             /\ \A i \in 1 .. Len(r) : s[Len(t) + 1 + Len(w) + i] = r[i]
             /\ s = (t \o << Space >>) \o (w \o r)
<1> DEFINE b == << Space >>
           u == t \o b
           v == u \o w
           s == v \o r
<1>1. b \in Seq(Int) /\ Len(b) = 1 /\ b[1] = Space
  BY DEF Space
<1> HIDE DEF b
<1>2. /\ u \in Seq(Int) /\ Len(u) = Len(t) + 1 /\ Len(t) \in Nat
      /\ \A i \in 1 .. Len(t) : u[i] = t[i]
      /\ u[Len(t) + 1] = Space
  <2>1. /\ u \in Seq(Int) /\ Len(u) = Len(t) + Len(b) /\ Len(t) \in Nat
        /\ \A i \in 1 .. Len(t) : u[i] = t[i]
        /\ \A i \in 1 .. Len(b) : u[Len(t) + i] = b[i]
    BY <1>1, Joined
  <2>2. 1 \in 1 .. Len(b)
    BY <1>1
  <2> HIDE DEF u
  <2> QED  BY <1>1, <2>1, <2>2
<1>3. s = u \o (w \o r)
  BY <1>2, ConcatAssociative
<1> HIDE DEF u
<1>4. /\ v \in Seq(Int) /\ Len(v) = Len(u) + Len(w) /\ Len(w) \in Nat
      /\ \A i \in 1 .. Len(u) : v[i] = u[i]
      /\ \A i \in 1 .. Len(w) : v[Len(u) + i] = w[i]
  BY <1>2, Joined
<1> HIDE DEF v
<1>5. /\ s \in Seq(Int) /\ Len(s) = Len(v) + Len(r) /\ Len(r) \in Nat
      /\ \A i \in 1 .. Len(v) : s[i] = v[i]
      /\ \A i \in 1 .. Len(r) : s[Len(v) + i] = r[i]
  BY <1>4, Joined
<1> HIDE DEF s
<1>6. /\ \A i \in 1 .. Len(t) : s[i] = t[i]
      /\ s[Len(t) + 1] = Space
  <2>1. \A i \in 1 .. Len(u) : i \in 1 .. Len(v) /\ s[i] = u[i]
    BY <1>2, <1>4, <1>5
  <2>2. Len(t) + 1 \in 1 .. Len(u) /\ \A i \in 1 .. Len(t) : i \in 1 .. Len(u)
    BY <1>2
  <2> QED  BY <1>2, <2>1, <2>2
<1>7. ASSUME NEW i \in 1 .. Len(w)  PROVE s[Len(t) + 1 + i] = w[i]
  <2>1. Len(u) + i \in 1 .. Len(v) /\ Len(u) + i = Len(t) + 1 + i
    BY <1>2, <1>4
  <2> QED  BY <1>4, <1>5, <2>1
<1>8. ASSUME NEW i \in 1 .. Len(r)  PROVE s[Len(t) + 1 + Len(w) + i] = r[i]
  <2>1. Len(v) + i = Len(t) + 1 + Len(w) + i
    BY <1>2, <1>4
  <2> QED  BY <1>5, <2>1
<1>9. Text(t, w) = v /\ Text(t, w) \o r = s /\ u = t \o << Space >>
  BY DEF Text, v, u, s, b
<1>10. /\ Len(v) = Len(t) + 1 + Len(w)
       /\ Len(s) = Len(t) + 1 + Len(w) + Len(r)
  BY <1>2, <1>4, <1>5
<1> QED  BY <1>2, <1>3, <1>4, <1>5, <1>6, <1>7, <1>8, <1>9, <1>10

\* A word begins after the space, and others where they did.
LEMMA StartsOfText ==
  ASSUME NEW t \in Seq(Int), NEW w, Word(w), NEW r \in Seq(Int)
  PROVE  LET s == Text(t, w) \o r
         IN  /\ WordStarts(t) \cup {Len(t) + 2} \subseteq WordStarts(s)
             /\ \A i \in WordStarts(s) :
                  i <= Len(t) + 1 + Len(w) => i \in WordStarts(t) \cup {Len(t) + 2}
<1> DEFINE s == Text(t, w) \o r
<1>1. w \in Seq(Int) /\ w # << >> /\ \A i \in 1 .. Len(w) : w[i] # Space
  BY DEF Word
<1>2. /\ Len(t) \in Nat /\ Len(w) \in Nat /\ Len(r) \in Nat
      /\ Len(s) = Len(t) + 1 + Len(w) + Len(r)
      /\ \A i \in 1 .. Len(t) : s[i] = t[i]
      /\ s[Len(t) + 1] = Space
      /\ \A i \in 1 .. Len(w) : s[Len(t) + 1 + i] = w[i]
  BY <1>1, TextParts
<1>3. Len(w) >= 1
  BY <1>1, <1>2, EmptySeq
<1> HIDE DEF s
<1>4. Len(t) + 2 \in WordStarts(s)
  <2>1. 1 \in 1 .. Len(w) /\ Len(t) + 1 + 1 = Len(t) + 2 /\ (Len(t) + 2) - 1 = Len(t) + 1
    BY <1>2, <1>3
  <2>2. s[Len(t) + 2] = w[1] /\ w[1] # Space
    BY <1>1, <1>2, <2>1
  <2>3. Len(t) + 2 \in 1 .. Len(s)
    BY <1>2, <1>3
  <2> QED  BY <1>2, <2>1, <2>2, <2>3 DEF WordStarts
<1>5. ASSUME NEW i \in WordStarts(t)  PROVE i \in WordStarts(s)
  <2>1. i \in 1 .. Len(t) /\ t[i] # Space /\ (i = 1 \/ t[i - 1] = Space)
    BY <1>5 DEF WordStarts
  <2>2. i \in 1 .. Len(s) /\ s[i] = t[i]
    BY <1>2, <2>1
  <2>3. i # 1 => s[i - 1] = t[i - 1]
    <3>1. i # 1 => i - 1 \in 1 .. Len(t)
      BY <1>2, <2>1
    <3> QED  BY <1>2, <3>1
  <2> QED  BY <2>1, <2>2, <2>3 DEF WordStarts
<1>6. ASSUME NEW i \in WordStarts(s), i <= Len(t) + 1 + Len(w)
      PROVE  i \in WordStarts(t) \cup {Len(t) + 2}
  <2>1. i \in 1 .. Len(s) /\ s[i] # Space /\ (i = 1 \/ s[i - 1] = Space)
    BY <1>6 DEF WordStarts
  <2>2. CASE i <= Len(t)
    <3>1. i \in 1 .. Len(t) /\ (i # 1 => i - 1 \in 1 .. Len(t))
      BY <1>2, <2>1, <2>2
    <3>2. s[i] = t[i] /\ (i # 1 => s[i - 1] = t[i - 1])
      BY <1>2, <3>1
    <3> QED  BY <2>1, <3>1, <3>2 DEF WordStarts
  <2>3. CASE i > Len(t) + 2
    <3>1. i - 1 - (Len(t) + 1) \in 1 .. Len(w)
          /\ Len(t) + 1 + (i - 1 - (Len(t) + 1)) = i - 1 /\ i # 1
      BY <1>2, <1>6, <2>1, <2>3
    <3> DEFINE m == i - 1 - (Len(t) + 1)
    <3>2. s[Len(t) + 1 + m] = w[m] /\ w[m] # Space
      BY <1>1, <1>2, <3>1
    <3> QED  BY <2>1, <3>1, <3>2
  <2> QED  BY <1>2, <2>1, <2>2, <2>3
<1> QED  BY <1>4, <1>5, <1>6 DEF s

\* How many words a text has.
WordCount(t) == Cardinality(WordStarts(t))

LEMMA StartsFinite ==
  ASSUME NEW t \in Seq(Int)
  PROVE  IsFiniteSet(WordStarts(t)) /\ WordStarts(t) \subseteq 1 .. Len(t)
         /\ Len(t) \in Nat /\ WordCount(t) \in Nat
<1>1. Len(t) \in Nat /\ WordStarts(t) \subseteq 1 .. Len(t)
  BY LenProperties DEF WordStarts
<1>2. IsFiniteSet(1 .. Len(t))
  BY <1>1, FS_Interval
<1>3. IsFiniteSet(WordStarts(t))
  BY <1>1, <1>2, FS_Subset
<1> QED  BY <1>1, <1>3, FS_CardinalityType DEF WordCount

\* A word more is a word more.
LEMMA CountText ==
  ASSUME NEW t \in Seq(Int), NEW w, Word(w)
  PROVE  WordCount(Text(t, w)) = WordCount(t) + 1
<1> DEFINE s == Text(t, w)
           A == WordStarts(t)
<1>1. w \in Seq(Int) /\ << >> \in Seq(Int)
  BY EmptySeq DEF Word
<1>2. s \in Seq(Int) /\ Len(s) = Len(t) + 1 + Len(w)
  BY <1>1, TextParts
<1>3. s \o << >> = s
  BY <1>2, ConcatEmptySeq
<1>4. /\ A \cup {Len(t) + 2} \subseteq WordStarts(s)
      /\ \A i \in WordStarts(s) : i <= Len(t) + 1 + Len(w) => i \in A \cup {Len(t) + 2}
  BY <1>1, <1>3, StartsOfText
<1>5. /\ IsFiniteSet(A) /\ A \subseteq 1 .. Len(t) /\ Len(t) \in Nat
      /\ WordStarts(s) \subseteq 1 .. Len(s) /\ Len(s) \in Nat
  BY <1>2, StartsFinite
<1> HIDE DEF A, s
<1>6. \A i \in WordStarts(s) : i <= Len(t) + 1 + Len(w)
  BY <1>2, <1>5
<1>7. WordStarts(s) = A \cup {Len(t) + 2}
  BY <1>4, <1>6
<1>8. Len(t) + 2 \notin A
  BY <1>5
<1> QED  BY <1>5, <1>7, <1>8, FS_AddElement DEF WordCount, A, s

\* utilities.c:107-172: the word that was put after a text is found by its number,
\* if nothing or a space follows it.
LEMMA WordFound ==
  ASSUME NEW t \in Seq(Int), NEW w, Word(w), NEW r \in Seq(Int),
         r = << >> \/ r[1] = Space
  PROVE  findWord(Text(t, w) \o r, WordCount(t) + 1) = w
<1> DEFINE s == Text(t, w) \o r
           A == WordStarts(t)
           W == WordStarts(s)
           k == WordCount(t) + 1
           p == Len(t) + 2
           Up(i) == { j \in W : j <= i }
<1>1. w \in Seq(Int) /\ \A i \in 1 .. Len(w) : w[i] # Space
  BY DEF Word
<1>2. /\ Len(t) \in Nat /\ Len(w) \in Nat /\ Len(r) \in Nat
      /\ Len(s) = Len(t) + 1 + Len(w) + Len(r) /\ s \in Seq(Int)
      /\ \A i \in 1 .. Len(w) : s[Len(t) + 1 + i] = w[i]
      /\ \A i \in 1 .. Len(r) : s[Len(t) + 1 + Len(w) + i] = r[i]
  BY <1>1, TextParts
<1>3. A \cup {p} \subseteq W /\ \A i \in W : i <= Len(t) + 1 + Len(w) => i \in A \cup {p}
  BY StartsOfText
<1>4. /\ IsFiniteSet(A) /\ A \subseteq 1 .. Len(t) /\ Cardinality(A) \in Nat
      /\ k = Cardinality(A) + 1
      /\ IsFiniteSet(W) /\ W \subseteq 1 .. Len(s)
  BY <1>2, StartsFinite DEF WordCount
<1>5. Len(w) >= 1
  BY <1>1, <1>2, EmptySeq DEF Word
<1> HIDE DEF s, A, W
<1>6. p \in W /\ p \notin A /\ p \in Nat
  BY <1>2, <1>3, <1>4
<1>7. IsFiniteSet(A \cup {p}) /\ Cardinality(A \cup {p}) = k
  BY <1>4, <1>6, FS_AddElement
<1>17. /\ \A i \in W : i \in Nat
       /\ \A i \in A : i \in W /\ i \in Nat /\ i < p
       /\ \A i \in W : i <= p => i \in A \cup {p}
       /\ p <= Len(t) + 1 + Len(w)
  <2>1. \A i \in W : i \in Nat
    BY <1>2, <1>4
  <2>2. \A i \in A : i \in W /\ i \in Nat /\ i < p
    BY <1>2, <1>3, <1>4
  <2>3. p <= Len(t) + 1 + Len(w)
    BY <1>2, <1>5
  <2>4. \A i \in W : i <= p => i \in A \cup {p}
    BY <1>2, <1>3, <2>1, <2>3
  <2> QED  BY <2>1, <2>2, <2>3, <2>4
<1> HIDE DEF p
<1>8. Cardinality(Up(p)) = k
  <2>1. Up(p) = A \cup {p}
    <3>1. ASSUME NEW j \in Up(p)  PROVE j \in A \cup {p}
      <4>1. j \in W /\ j <= p
        OBVIOUS
      <4> QED  BY <1>17, <4>1
    <3>2. ASSUME NEW j \in A \cup {p}  PROVE j \in Up(p)
      <4>1. CASE j \in A
        <5>1. j \in W /\ j \in Nat /\ j < p
          BY <1>17, <4>1
        <5>2. j <= p
          BY <1>6, <5>1
        <5> QED  BY <5>1, <5>2
      <4>2. CASE j = p
        BY <1>6, <4>2
      <4> QED  BY <4>1, <4>2
    <3> HIDE DEF Up
    <3> QED  BY <3>1, <3>2
  <2> QED  BY <1>7, <2>1
<1>9. ASSUME NEW i \in W, i < p  PROVE Cardinality(Up(i)) # k
  <2>1. Up(i) \subseteq A
    <3>1. ASSUME NEW j \in Up(i)  PROVE j \in A
      <4>1. j \in W /\ j <= i
        OBVIOUS
      <4>2. j \in Nat /\ i \in Nat /\ j # p /\ j <= p
        BY <1>6, <1>9, <1>17, <4>1
      <4> QED  BY <1>17, <4>1, <4>2
    <3> HIDE DEF Up
    <3> QED  BY <3>1
  <2> HIDE DEF Up
  <2>2. Cardinality(Up(i)) <= Cardinality(A) /\ IsFiniteSet(Up(i))
    BY <1>4, <2>1, FS_Subset
  <2>3. Cardinality(Up(i)) \in Nat
    BY <2>2, FS_CardinalityType
  <2> QED  BY <1>4, <2>2, <2>3
<1>10. ASSUME NEW i \in W, i > p  PROVE Cardinality(Up(i)) # k
  <2>1. (A \cup {p}) \cup {i} \subseteq Up(i) /\ i \notin A \cup {p}
    <3>1. i \in Nat /\ \A j \in A : j # i /\ j <= i /\ j \in W
      <4>1. i \in Nat
        BY <1>17
      <4>2. ASSUME NEW j \in A  PROVE j # i /\ j <= i /\ j \in W
        <5>1. j \in W /\ j \in Nat /\ j < p
          BY <1>17
        <5> QED  BY <1>6, <1>10, <4>1, <5>1
      <4> QED  BY <4>1, <4>2
    <3>2. p <= i /\ p # i /\ i <= i
      BY <1>6, <1>10, <3>1
    <3> QED  BY <1>6, <3>1, <3>2
  <2>2. Up(i) \subseteq W
    OBVIOUS
  <2> HIDE DEF Up
  <2>3. IsFiniteSet(Up(i))
    BY <1>4, <2>2, FS_Subset
  <2>4. Cardinality((A \cup {p}) \cup {i}) = k + 1
    BY <1>7, <2>1, FS_AddElement
  <2>5. k + 1 <= Cardinality(Up(i))
    BY <2>1, <2>3, <2>4, FS_Subset
  <2>6. Cardinality(Up(i)) \in Nat
    BY <2>3, FS_CardinalityType
  <2> QED  BY <1>4, <2>5, <2>6
<1>11. \A i \in W : Cardinality(Up(i)) = k => i = p
  BY <1>6, <1>9, <1>10, <1>17
<1>12. point2Word(s, k) =
         IF \E i \in W : Cardinality(Up(i)) = k
         THEN CHOOSE i \in W : Cardinality(Up(i)) = k ELSE -1
  BY DEF point2Word, W
<1> HIDE DEF Up, k
<1>13. point2Word(s, k) = p
  BY <1>6, <1>8, <1>11, <1>12
<1>14. SubSeq(s, p, Len(s)) = w \o r
  <2> DEFINE u == SubSeq(s, p, Len(s))
             v == w \o r
  <2>1. \A i \in p .. Len(s) : s[i] \in Int
    <3>1. p >= 1 /\ Len(s) \in Nat
      BY <1>2 DEF p
    <3>2. \A i \in 1 .. Len(s) : s[i] \in Int
      BY <1>2, ElementOfSeq
    <3> QED  BY <3>1, <3>2, <1>6
  <2>2. /\ u \in Seq(Int) /\ Len(u) = IF p <= Len(s) THEN Len(s) - p + 1 ELSE 0
        /\ \A i \in 1 .. Len(s) - p + 1 : u[i] = s[p + i - 1]
    <3>1. p \in Int /\ Len(s) \in Int
      BY <1>2, <1>6
    <3> QED  BY <2>1, <3>1, SubSeqProperties
  <2>3. /\ v \in Seq(Int) /\ Len(v) = Len(w) + Len(r)
        /\ \A i \in 1 .. Len(w) : v[i] = w[i]
        /\ \A i \in 1 .. Len(r) : v[Len(w) + i] = r[i]
    BY <1>1, Joined
  <2> HIDE DEF u, v
  <2>4. Len(u) = Len(v)
    BY <1>2, <1>5, <2>2, <2>3 DEF p
  <2>5. ASSUME NEW i \in 1 .. Len(u)  PROVE u[i] = v[i]
    <3>1. i \in 1 .. Len(s) - p + 1 /\ p + i - 1 = Len(t) + 1 + i
      BY <1>2, <1>5, <2>3, <2>4 DEF p
    <3>2. u[i] = s[Len(t) + 1 + i]
      BY <2>2, <3>1
    <3>3. CASE i <= Len(w)
      <4>1. i \in 1 .. Len(w)
        BY <1>2, <3>1, <3>3
      <4> QED  BY <1>2, <2>3, <3>2, <4>1
    <3>4. CASE i > Len(w)
      <4> DEFINE m == i - Len(w)
      <4>1. m \in 1 .. Len(r) /\ i = Len(w) + m /\ Len(t) + 1 + i = Len(t) + 1 + Len(w) + m
        BY <1>2, <2>3, <2>4, <3>4
      <4> HIDE DEF m
      <4> QED  BY <1>2, <2>3, <3>2, <4>1
    <3> QED  BY <1>2, <3>3, <3>4
  <2>6. u = v
    BY <2>2, <2>3, <2>4, <2>5, SeqEqual
  <2> QED  BY <2>6 DEF u, v
<1>15. findWord(s, k) = Before(SubSeq(s, p, Len(s)), {Space})
  BY <1>6, <1>13 DEF findWord
<1>16. Before(w \o r, {Space}) = w
  <2>1. \A i \in 1 .. Len(w) : w[i] \notin {Space}
    BY <1>1
  <2>2. r = << >> \/ r[1] \in {Space}
    OBVIOUS
  <2> QED  BY <1>1, <2>1, <2>2, BeforeFirst
<1> QED  BY <1>14, <1>15, <1>16 DEF s, k

-----------------------------------------------------------------------------
(* Packets *)

\* link.c:219-230: a payload is encoded as letters, two for each byte.
LEMMA LettersOf ==
  ASSUME NEW payload \in Seq(Restorable), payload # << >>
  PROVE  Word(EncodePayload(payload)) /\ Len(EncodePayload(payload)) = 2 * Len(payload)
<1> DEFINE len == Len(payload)
           e == EncodePayload(payload)
<1>1. len \in Nat /\ len >= 1 /\ \A i \in 1 .. len : payload[i] \in Char
  BY EmptySeq, LenProperties, ElementOfSeq DEF Restorable
<1>2. \A b \in Char : /\ HighLetter(b) \in Int /\ HighLetter(b) # Space
                      /\ LowLetter(b) \in Int /\ LowLetter(b) # Space
  BY SMT DEF Char, HighLetter, LowLetter, QuotientBy16, LastFourBits, LetterA, Space
<1>3. \A i \in 1 .. 2 * len : (i % 2 = 1 => (i + 1) \div 2 \in 1 .. len)
                           /\ (i % 2 # 1 => i \div 2 \in 1 .. len)
  BY <1>1, SMT
<1> DEFINE letter(i) == IF i % 2 = 1 THEN HighLetter(payload[(i + 1) \div 2])
                        ELSE LowLetter(payload[i \div 2])
<1>4. \A i \in 1 .. 2 * len : letter(i) \in Int /\ letter(i) # Space
  BY <1>1, <1>2, <1>3
<1>5. e = [i \in 1 .. 2 * len |-> letter(i)]
  BY DEF EncodePayload
<1> HIDE DEF letter, e
<1>6. e \in Seq(Int) /\ Len(e) = 2 * len /\ \A i \in 1 .. 2 * len : e[i] # Space
  BY <1>1, <1>4, <1>5
<1>7. e # << >>
  BY <1>1, <1>6, EmptySeq
<1> QED  BY <1>6, <1>7 DEF Word, e

\* A number is encoded as a word.
LEMMA DigitsOf ==
  ASSUME NEW v \in Nat
  PROVE  Word(int2Ascii(v)) /\ int2Ascii(v) \in Seq(Digit) /\ int2Ascii(v) = digits[v]
<1> DEFINE d == digits[v]
<1>1. int2Ascii(v) = d
  BY DEF int2Ascii
<1>2. d \in Seq(Digit) /\ d # << >>
  BY DigitsSpell
<1> HIDE DEF d
<1>3. \A i \in 1 .. Len(d) : d[i] \in Int /\ d[i] # Space
  <2>1. \A c \in Digit : c \in Int /\ c # Space
    BY DEF Digit, Zero, Space
  <2> QED  BY <1>2, <2>1, ElementOfSeq
<1>4. Seq(Digit) \subseteq Seq(Int)
  BY DEF Digit, Zero
<1> QED  BY <1>1, <1>2, <1>3, <1>4 DEF Word, d

\* utilities.c:45-98: every number is read as it was written.
THEOREM NumberRoundTrip ==
  ASSUME NEW v \in Nat
  PROVE  ascii2Int(int2Ascii(v)) = v
<1> DEFINE d == int2Ascii(v)
           I == { i \in 1 .. Len(d) : d[i] \in Digit }
           first == SelectInSeq(d, LAMBDA c : c \in Digit)
<1>1. d \in Seq(Digit) /\ d # << >> /\ d \in Seq(Int) /\ d = digits[v]
  BY DigitsOf DEF Word
<1>2. first = IF I # {} THEN Min(I) ELSE 0
  BY DEF SelectInSeq
<1>3. ascii2Int(d) = IF first = 0 THEN -1
                     ELSE Value(Before(SubSeq(d, first, Len(d)), Char \ Digit))
  BY DEF ascii2Int
<1> HIDE DEF d
<1>4. Len(d) \in Nat /\ Len(d) >= 1 /\ \A i \in 1 .. Len(d) : d[i] \in Digit
  BY <1>1, LenProperties, EmptySeq, ElementOfSeq
<1>5. I = 1 .. Len(d)
  BY <1>4
<1> HIDE DEF I
<1>6. Min(I) = 1
  <2>1. 1 \in I /\ \A i \in I : i \in Int /\ 1 <= i
    BY <1>4, <1>5
  <2>2. \A i \in I : (\A j \in I : i <= j) => i = 1
    BY <2>1
  <2> QED  BY <2>1, <2>2 DEF Min
<1>7. first = 1
  BY <1>2, <1>4, <1>5, <1>6
<1> HIDE DEF first
<1>8. SubSeq(d, 1, Len(d)) = d
  BY <1>1, SubSeqFull
<1>9. Before(d, Char \ Digit) = d
  <2> DEFINE C == Char \ Digit
  <2>1. << >> \in Seq(Int) /\ d \o << >> = d
    BY <1>1, EmptySeq, ConcatEmptySeq
  <2>2. \A i \in 1 .. Len(d) : d[i] \notin C
    BY <1>4
  <2> HIDE DEF C
  <2>3. Before(d \o << >>, C) = d
    BY <1>1, <2>1, <2>2, BeforeFirst
  <2>4. Before(d, C) = d
    BY <2>1, <2>3
  <2> QED  BY <2>4 DEF C
<1>10. Value(d) = v
  BY <1>1, DigitsSpell
<1>11. ascii2Int(d) = v
  <2>1. ascii2Int(d) = Value(Before(SubSeq(d, first, Len(d)), Char \ Digit))
    BY <1>3, <1>7
  <2>2. SubSeq(d, first, Len(d)) = d
    BY <1>7, <1>8
  <2>3. Before(SubSeq(d, first, Len(d)), Char \ Digit) = d
    BY <1>9, <2>2, Zenon
  <2> QED  BY <1>10, <2>1, <2>3, Zenon
<1> QED  BY <1>11 DEF d

\* After a text comes a space if a word comes after it.
LEMMA MoreText ==
  ASSUME NEW t \in Seq(Int), NEW w \in Seq(Int), NEW r \in Seq(Int)
  PROVE  \E q \in Seq(Int) : q # << >> /\ q[1] = Space /\ Text(t, w) \o r = t \o q
<1> DEFINE b == << Space >>
           u == w \o r
           q == b \o u
<1>1. b \in Seq(Int) /\ Len(b) = 1 /\ b[1] = Space
  BY DEF Space
<1>2. u \in Seq(Int)
  BY Joined
<1>3. Text(t, w) \o r = (t \o b) \o u
  BY TextParts
<1> HIDE DEF b, u
<1>4. (t \o b) \o u = t \o q
  BY <1>1, <1>2, ConcatAssociative
<1>5. /\ q \in Seq(Int) /\ Len(q) = Len(b) + Len(u) /\ Len(u) \in Nat
      /\ \A i \in 1 .. Len(b) : q[i] = b[i]
  BY <1>1, <1>2, Joined
<1> HIDE DEF q
<1>6. q[1] = Space /\ q # << >>
  BY <1>1, <1>5, EmptySeq
<1> QED  BY <1>3, <1>4, <1>5, <1>6

\* link.c:127-163, 198-235: a packet is received as it was sent, if nothing follows
\* it or another packet does.
THEOREM PacketRoundTrip ==
  ASSUME NEW p \in TextPacket, p.length > 0,
         NEW r \in Seq(Int), r = << >> \/ r[1] = Space
  PROVE  Decode(Encode(p) \o r) = p
<1> DEFINE D == int2Ascii(p.dest_addr)
           S == int2Ascii(p.src_addr)
           L == int2Ascii(p.length)
           P == EncodePayload(p.payload)
           t0 == << Space >>
           t1 == Text(t0, D)
           t2 == Text(t1, S)
           t3 == Text(t2, L)
           s == Text(t3, P) \o r
<1>1. /\ p.dest_addr \in Nat /\ p.src_addr \in Nat /\ p.length \in Nat
      /\ p.payload \in Seq(Restorable) /\ p.length = Len(p.payload) /\ p.is_valid = 1
      /\ p = [dest_addr |-> p.dest_addr, src_addr |-> p.src_addr, length |-> p.length,
              payload |-> p.payload, is_valid |-> p.is_valid]
  BY DEF TextPacket
<1>2. p.payload # << >>
  BY <1>1, EmptySeq
<1>3. Word(D) /\ Word(S) /\ Word(L) /\ Word(P) /\ Len(P) = 2 * p.length
  BY <1>1, <1>2, DigitsOf, LettersOf
<1>4. SubSeq(p.payload, 1, p.length) = p.payload
  BY <1>1, SubSeqFull
<1>5. Encode(p) \o r = s
  BY <1>4 DEF Encode, appendWithSpace, Text
<1>6. /\ ascii2Int(D) = p.dest_addr /\ ascii2Int(S) = p.src_addr
      /\ ascii2Int(L) = p.length
  BY <1>1, NumberRoundTrip
<1>7. DecodePayload(P, p.length) = p.payload
  <2>1. P \o << >> = P /\ << >> \in Seq(Int)
    BY <1>3, ConcatEmptySeq, EmptySeq DEF Word
  <2> QED  BY <1>1, <2>1, PayloadRoundTrip
<1> HIDE DEF D, S, L, P
<1>8. D \in Seq(Int) /\ S \in Seq(Int) /\ L \in Seq(Int) /\ P \in Seq(Int)
  BY <1>3 DEF Word
<1>9. t0 \in Seq(Int) /\ WordCount(t0) = 0
  <2>1. t0 \in Seq(Int) /\ Len(t0) = 1 /\ t0[1] = Space
    BY DEF Space
  <2> HIDE DEF t0
  <2>2. WordStarts(t0) = {}
    BY <2>1 DEF WordStarts
  <2> QED  BY <2>1, <2>2, FS_EmptySet DEF WordCount
<1> HIDE DEF t0
<1>10. t1 \in Seq(Int) /\ WordCount(t1) = 1
  BY <1>3, <1>8, <1>9, TextParts, EmptySeq, CountText
<1> HIDE DEF t1
<1>11. t2 \in Seq(Int) /\ WordCount(t2) = 2
  BY <1>3, <1>8, <1>10, TextParts, EmptySeq, CountText
<1> HIDE DEF t2
<1>12. t3 \in Seq(Int) /\ WordCount(t3) = 3
  BY <1>3, <1>8, <1>11, TextParts, EmptySeq, CountText
<1> HIDE DEF t3
<1>13. findWord(s, 4) = P
  BY <1>3, <1>12, WordFound
<1>14. PICK q \in Seq(Int) : q # << >> /\ q[1] = Space /\ s = t3 \o q
  BY <1>8, <1>12, MoreText
<1> HIDE DEF s
<1>15. findWord(s, 3) = L
  BY <1>3, <1>11, <1>14, WordFound DEF t3
<1>16. PICK q2 \in Seq(Int) : q2 # << >> /\ q2[1] = Space /\ s = t2 \o q2
  <2>1. s = Text(t2, L) \o q
    BY <1>14 DEF t3
  <2>2. \E q2 \in Seq(Int) : q2 # << >> /\ q2[1] = Space /\ Text(t2, L) \o q = t2 \o q2
    BY <1>8, <1>11, MoreText
  <2> QED  BY <2>1, <2>2
<1>17. findWord(s, 2) = S
  BY <1>3, <1>10, <1>16, WordFound DEF t2
<1>18. PICK q1 \in Seq(Int) : q1 # << >> /\ q1[1] = Space /\ s = t1 \o q1
  <2>1. s = Text(t1, S) \o q2
    BY <1>16 DEF t2
  <2>2. \E q1 \in Seq(Int) : q1 # << >> /\ q1[1] = Space /\ Text(t1, S) \o q2 = t1 \o q1
    BY <1>8, <1>10, MoreText
  <2> QED  BY <2>1, <2>2
<1>19. findWord(s, 1) = D
  BY <1>3, <1>9, <1>18, WordFound DEF t1
<1>20. Decode(s) = [dest_addr |-> p.dest_addr, src_addr |-> p.src_addr,
                    length |-> p.length, payload |-> p.payload, is_valid |-> 1]
  <2>1. 2 * p.length <= Len(P)
    BY <1>1, <1>3
  <2> QED  BY <1>6, <1>7, <1>13, <1>15, <1>17, <1>19, <2>1 DEF Decode
<1> QED  BY <1>1, <1>5, <1>20

-----------------------------------------------------------------------------
(* The link *)

\* What is encoded begins with a space.
Spaced(t) == t \in Seq(Int) /\ t # << >> /\ t[1] = Space

LEMMA SpacedText ==
  ASSUME NEW t, Spaced(t), NEW w \in Seq(Int)
  PROVE  Spaced(Text(t, w))
<1>1. t \in Seq(Int) /\ t # << >> /\ t[1] = Space /\ << >> \in Seq(Int)
  BY EmptySeq DEF Spaced
<1> DEFINE s == Text(t, w)
<1>2. s \in Seq(Int) /\ Len(s) = Len(t) + 1 + Len(w) /\ Len(t) \in Nat /\ Len(w) \in Nat
      /\ \A i \in 1 .. Len(t) : (s \o << >>)[i] = t[i]
  BY <1>1, TextParts
<1> HIDE DEF s
<1>3. s \o << >> = s
  BY <1>2, ConcatEmptySeq
<1>4. 1 \in 1 .. Len(t)
  BY <1>1, <1>2, EmptySeq
<1>5. s[1] = Space /\ s # << >>
  BY <1>1, <1>2, <1>3, <1>4, EmptySeq
<1> QED  BY <1>2, <1>5 DEF Spaced, s

LEMMA EncodedSpaced ==
  ASSUME NEW p \in TextPacket, p.length > 0
  PROVE  Spaced(Encode(p))
<1> DEFINE D == int2Ascii(p.dest_addr)
           S == int2Ascii(p.src_addr)
           L == int2Ascii(p.length)
           P == EncodePayload(p.payload)
           t0 == << Space >>
<1>1. /\ p.dest_addr \in Nat /\ p.src_addr \in Nat /\ p.length \in Nat
      /\ p.payload \in Seq(Restorable) /\ p.length = Len(p.payload)
  BY DEF TextPacket
<1>2. p.payload # << >>
  BY <1>1, EmptySeq
<1>3. D \in Seq(Int) /\ S \in Seq(Int) /\ L \in Seq(Int) /\ P \in Seq(Int)
  BY <1>1, <1>2, DigitsOf, LettersOf DEF Word
<1>4. SubSeq(p.payload, 1, p.length) = p.payload
  BY <1>1, SubSeqFull
<1>5. Encode(p) = Text(Text(Text(Text(t0, D), S), L), P)
  BY <1>4 DEF Encode, appendWithSpace, Text
<1>6. Spaced(t0)
  BY DEF Spaced, Space
<1> HIDE DEF D, S, L, P, t0
<1>7. Spaced(Text(t0, D))
  BY <1>3, <1>6, SpacedText
<1>8. Spaced(Text(Text(t0, D), S))
  BY <1>3, <1>7, SpacedText
<1>9. Spaced(Text(Text(Text(t0, D), S), L))
  BY <1>3, <1>8, SpacedText
<1>10. Spaced(Text(Text(Text(Text(t0, D), S), L), P))
  BY <1>3, <1>9, SpacedText
<1> QED  BY <1>5, <1>10

\* The packets that are sent.
Sent == { p \in Packets : Sendable(p) }

\* What waits is few enough for one read.
FewWait ==
  /\ text \in Seq(Int)
  /\ unread \in Seq(Sent) /\ Len(unread) <= MaxWaiting
  /\ MaxWaiting * Len(text) <= Len(unread) * (READ_SIZE - 1)

\* The text begins with that of the first packet that waits.
FirstIsThere ==
  /\ unread = << >> => text = << >>
  /\ unread # << >> =>
       \E r \in Seq(Int) : /\ r = << >> \/ r[1] = Space
                           /\ text = Encode(Head(unread)) \o r

ReaderInv ==
  /\ pbuff \in [dest_addr : Int, src_addr : Int, length : Nat,
                payload : Seq(Restorable), is_valid : {0, 1}]
  /\ pbuff.is_valid = 1 => pbuff \in Packets

TextInv == FewWait /\ FirstIsThere /\ ReaderInv

LEMMA SentFits ==
  ASSUME TextFits, NEW p \in Sent
  PROVE  /\ p \in Packets /\ p \in TextPacket /\ p.length > 0
         /\ Spaced(Encode(p)) /\ Len(Encode(p)) \in Nat
         /\ MaxWaiting * Len(Encode(p)) < READ_SIZE
<1>1. p \in Packets /\ p \in TextPacket /\ p.length > 0
      /\ MaxWaiting * Len(Encode(p)) < READ_SIZE
  BY DEF TextFits, Sent, Sendable
<1>2. Spaced(Encode(p))
  BY <1>1, EncodedSpaced
<1> QED  BY <1>1, <1>2, LenProperties DEF Spaced

\* All that waits is read at once.
LEMMA OneRead ==
  ASSUME TextInv
  PROVE  Len(text) \in Nat /\ Len(text) < READ_SIZE
<1> DEFINE t == Len(text)
           u == Len(unread)
<1>1. /\ t \in Nat /\ u \in Nat /\ u <= MaxWaiting
      /\ MaxWaiting * t <= u * (READ_SIZE - 1)
      /\ MaxWaiting \in Nat /\ READ_SIZE \in Nat /\ READ_SIZE >= 1
  BY LenProperties, TextAssumption DEF TextInv, FewWait
<1>2. u = 0 => t = 0
  <2>1. u = 0 => unread = << >>
    BY EmptySeq DEF TextInv, FewWait
  <2>2. Len(<< >>) = 0
    BY EmptySeq
  <2> QED  BY <2>1, <2>2 DEF TextInv, FirstIsThere
<1> HIDE DEF t, u
<1>3. CASE u = 0
  BY <1>1, <1>2, <1>3 DEF t
<1>4. CASE u > 0
  <2> SUFFICES ASSUME t >= READ_SIZE  PROVE FALSE
    BY <1>1 DEF t
  <2>1. MaxWaiting * t >= MaxWaiting * READ_SIZE
    BY <1>1
  <2>2. u * (READ_SIZE - 1) <= MaxWaiting * (READ_SIZE - 1)
    BY <1>1
  <2>3. MaxWaiting * (READ_SIZE - 1) = MaxWaiting * READ_SIZE - MaxWaiting
    BY <1>1
  <2>4. MaxWaiting * t \in Int /\ MaxWaiting * READ_SIZE \in Int
        /\ u * (READ_SIZE - 1) \in Int /\ MaxWaiting * (READ_SIZE - 1) \in Int
    BY <1>1
  <2> QED  BY <1>1, <1>4, <2>1, <2>2, <2>3, <2>4
<1> QED  BY <1>1, <1>3, <1>4

LEMMA TextInit ==
  ASSUME Init  PROVE TextInv
<1>1. text = << >> /\ unread = << >> /\ pbuff = NoPacket
  BY DEF Init
<1>2. << >> \in Seq(Int) /\ << >> \in Seq(Sent) /\ << >> \in Seq(Restorable)
      /\ Len(<< >>) = 0
  BY EmptySeq
<1>3. MaxWaiting * 0 <= 0 * (READ_SIZE - 1) /\ 0 <= MaxWaiting /\ 0 < READ_SIZE
  BY TextAssumption
<1>4. /\ NoPacket \in [dest_addr : Int, src_addr : Int, length : Nat,
                       payload : Seq(Restorable), is_valid : {0, 1}]
      /\ NoPacket.is_valid = 0
  BY <1>2 DEF NoPacket
<1> QED  BY <1>1, <1>2, <1>3, <1>4 DEF TextInv, FewWait, FirstIsThere, ReaderInv

LEMMA TextSend ==
  ASSUME TextFits, TextInv, NEW p \in Packets, linkSend(p)
  PROVE  TextInv' /\ p \in Sent
<1> DEFINE e == Encode(p)
           t == Len(text)
           u == Len(unread)
           a == Len(e)
<1>1. /\ u < MaxWaiting /\ p \in Sent
      /\ text' = text \o e /\ unread' = Append(unread, p)
      /\ pbuff' = pbuff
  BY DEF linkSend, Sent
<1>2. Spaced(e) /\ a \in Nat /\ MaxWaiting * a < READ_SIZE
  BY <1>1, SentFits
<1>3. e \in Seq(Int) /\ e # << >> /\ e[1] = Space
  BY <1>2 DEF Spaced
<1> HIDE DEF e
<1>4. /\ text \in Seq(Int) /\ unread \in Seq(Sent)
      /\ t \in Nat /\ u \in Nat /\ MaxWaiting * t <= u * (READ_SIZE - 1)
  BY LenProperties DEF TextInv, FewWait
<1>5. text' \in Seq(Int) /\ Len(text') = t + a
  BY <1>1, <1>3, <1>4, ConcatProperties
<1>6. unread' \in Seq(Sent) /\ Len(unread') = u + 1 /\ unread' # << >>
  BY <1>1, <1>4, AppendProperties
<1>7. unread # << >> => Head(unread') = Head(unread)
  <2> SUFFICES ASSUME unread # << >>  PROVE Head(unread') = Head(unread)
    OBVIOUS
  <2>1. u >= 1
    BY <1>4, EmptySeq
  <2>2. unread'[1] = unread[1]
    <3>1. 1 \in 1 .. u
      BY <1>4, <2>1
    <3> QED  BY <1>1, <1>4, <3>1, AppendProperties
  <2> QED  BY <1>4, <1>6, <2>2, HeadTailProperties
<1>8. \E r \in Seq(Int) : (r = << >> \/ r[1] = Space) /\ text' = Encode(Head(unread')) \o r
  <2>1. CASE unread = << >>
    <3>1. text = << >>
      BY <2>1 DEF TextInv, FirstIsThere
    <3>2. text' = e
      BY <1>1, <1>3, <3>1, ConcatEmptySeq
    <3>3. Head(unread') = p
      BY <1>1, <2>1
    <3>4. e = e \o << >> /\ << >> \in Seq(Int)
      BY <1>3, ConcatEmptySeq, EmptySeq
    <3>5. text' = Encode(Head(unread')) \o << >>
      BY <3>2, <3>3, <3>4 DEF e
    <3> QED  BY <3>4, <3>5
  <2>2. CASE unread # << >>
    <3>1. PICK r \in Seq(Int) : (r = << >> \/ r[1] = Space) /\ text = Encode(Head(unread)) \o r
      BY <2>2 DEF TextInv, FirstIsThere
    <3> DEFINE h == Encode(Head(unread))
               q == r \o e
    <3>2. Head(unread) \in Sent
      BY <1>4, <2>2, HeadTailProperties
    <3>3. h \in Seq(Int)
      BY <3>2, SentFits DEF Spaced
    <3>4. h = Encode(Head(unread'))
      BY <1>7, <2>2
    <3> HIDE DEF h
    <3>5. text' = h \o q
      <4>1. text' = (h \o r) \o e
        BY <1>1, <3>1 DEF h
      <4> QED  BY <1>3, <3>3, <4>1, ConcatAssociative
    <3>6. q \in Seq(Int) /\ q[1] = Space
      <4>1. /\ q \in Seq(Int) /\ Len(r) \in Nat /\ Len(e) \in Nat
            /\ \A i \in 1 .. Len(r) : q[i] = r[i]
            /\ \A i \in 1 .. Len(e) : q[Len(r) + i] = e[i]
        BY <1>3, Joined
      <4> HIDE DEF q
      <4>2. CASE r = << >>
        <5>1. Len(r) = 0 /\ Len(e) >= 1
          BY <1>3, <4>1, <4>2, EmptySeq
        <5>2. 1 \in 1 .. Len(e) /\ Len(r) + 1 = 1
          BY <4>1, <5>1
        <5> QED  BY <1>3, <4>1, <5>2
      <4>3. CASE r # << >>
        <5>1. 1 \in 1 .. Len(r)
          BY <4>1, <4>3, EmptySeq
        <5> QED  BY <3>1, <4>1, <4>3, <5>1
      <4> QED  BY <4>2, <4>3
    <3> HIDE DEF q
    <3> QED  BY <3>4, <3>5, <3>6
  <2> QED  BY <2>1, <2>2
<1>9. MaxWaiting * Len(text') <= Len(unread') * (READ_SIZE - 1)
  <2> HIDE DEF a, t, u
  <2>1. MaxWaiting \in Nat /\ READ_SIZE \in Nat
    BY TextAssumption
  <2>2. MaxWaiting * (t + a) = MaxWaiting * t + MaxWaiting * a
    BY <1>2, <1>4, <2>1
  <2>3. (u + 1) * (READ_SIZE - 1) = u * (READ_SIZE - 1) + (READ_SIZE - 1)
    BY <1>4, <2>1
  <2>4. MaxWaiting * t \in Int /\ MaxWaiting * a \in Int /\ u * (READ_SIZE - 1) \in Int
    BY <1>2, <1>4, <2>1
  <2>5. MaxWaiting * (t + a) <= (u + 1) * (READ_SIZE - 1)
    BY <1>2, <1>4, <2>1, <2>2, <2>3, <2>4
  <2> QED  BY <1>5, <1>6, <2>5
<1>10. Len(unread') <= MaxWaiting
  BY <1>1, <1>4, <1>6, TextAssumption
<1>11. FewWait'
  BY <1>5, <1>6, <1>9, <1>10 DEF FewWait
<1>12. FirstIsThere'
  BY <1>6, <1>8 DEF FirstIsThere
<1>13. ReaderInv'
  BY <1>1 DEF TextInv, ReaderInv
<1> QED  BY <1>1, <1>11, <1>12, <1>13 DEF TextInv

\* link.c:103-163: a read hands out the first packet that waits, and takes all.
LEMMA TextReceive ==
  ASSUME TextFits, TextInv, linkReceive
  PROVE  TextInv' /\ unread # << >> /\ pbuff' = Head(unread) /\ unread' = << >>
<1>1. Len(text) \in Nat /\ Len(text) < READ_SIZE /\ READ_SIZE \in Nat
  BY OneRead, TextAssumption
<1>2. /\ text # << >> /\ unread' = << >>
      /\ pbuff' = Decode(SubSeq(text, 1, Len(text)))
      /\ text' = SubSeq(text, Len(text) + 1, Len(text))
  BY <1>1 DEF linkReceive
<1>3. text \in Seq(Int) /\ unread \in Seq(Sent)
  BY DEF TextInv, FewWait
<1>4. SubSeq(text, 1, Len(text)) = text
  BY <1>3, SubSeqFull
<1>5. text' = << >>
  <2>1. \A i \in Len(text) + 1 .. Len(text) : text[i] \in Int
    BY <1>1
  <2>2. text' \in Seq(Int) /\ Len(text') = 0
    <3>1. Len(text) + 1 \in Int /\ Len(text) \in Int /\ ~(Len(text) + 1 <= Len(text))
      BY <1>1
    <3> QED  BY <1>2, <2>1, <3>1, SubSeqProperties
  <2> QED  BY <2>2, EmptySeq
<1>6. unread # << >>
  BY <1>2 DEF TextInv, FirstIsThere
<1> DEFINE p == Head(unread)
<1>7. p \in Sent
  BY <1>3, <1>6, HeadTailProperties
<1>8. PICK r \in Seq(Int) : (r = << >> \/ r[1] = Space) /\ text = Encode(p) \o r
  BY <1>6 DEF TextInv, FirstIsThere
<1> HIDE DEF p
<1>9. p \in Packets /\ p \in TextPacket /\ p.length > 0
  BY <1>7, SentFits
<1>10. Decode(Encode(p) \o r) = p
  BY <1>8, <1>9, PacketRoundTrip
<1>11. pbuff' = p
  BY <1>2, <1>4, <1>8, <1>10
<1>12. p \in [dest_addr : Int, src_addr : Int, length : Nat,
              payload : Seq(Restorable), is_valid : {0, 1}]
  BY <1>9 DEF TextPacket
<1>13. << >> \in Seq(Int) /\ << >> \in Seq(Sent) /\ Len(<< >>) = 0
  BY EmptySeq
<1>14. MaxWaiting * 0 <= 0 * (READ_SIZE - 1) /\ 0 <= MaxWaiting
  BY TextAssumption
<1>15. FewWait'
  BY <1>2, <1>5, <1>13, <1>14 DEF FewWait
<1>16. FirstIsThere'
  BY <1>2, <1>5 DEF FirstIsThere
<1>17. ReaderInv'
  BY <1>9, <1>11, <1>12 DEF ReaderInv
<1> QED  BY <1>2, <1>6, <1>11, <1>15, <1>16, <1>17 DEF TextInv, p

LEMMA TextReceiveNothing ==
  ASSUME TextInv, linkReceiveNothing
  PROVE  TextInv'
<1>1. /\ text = << >> /\ text' = text /\ unread' = unread
      /\ pbuff' = [pbuff EXCEPT !.is_valid = 0]
  BY DEF linkReceiveNothing
<1>2. pbuff \in [dest_addr : Int, src_addr : Int, length : Nat,
                 payload : Seq(Restorable), is_valid : {0, 1}]
  BY DEF TextInv, ReaderInv
<1>3. /\ pbuff' \in [dest_addr : Int, src_addr : Int, length : Nat,
                     payload : Seq(Restorable), is_valid : {0, 1}]
      /\ pbuff'.is_valid = 0
  BY <1>1, <1>2
<1>5. ReaderInv'
  BY <1>1, <1>3 DEF ReaderInv
<1>6. FewWait' /\ FirstIsThere'
  BY <1>1 DEF TextInv, FewWait, FirstIsThere
<1> QED  BY <1>5, <1>6 DEF TextInv

LEMMA TextStep ==
  ASSUME TextFits, TextInv, [Next]_vars
  PROVE  TextInv'
<1>1. ASSUME NEW p \in Packets, linkSend(p)  PROVE TextInv'
  BY <1>1, TextSend
<1>2. ASSUME linkReceive  PROVE TextInv'
  BY <1>2, TextReceive
<1>3. ASSUME linkReceiveNothing  PROVE TextInv'
  BY <1>3, TextReceiveNothing
<1>4. ASSUME UNCHANGED vars  PROVE TextInv'
  BY <1>4 DEF TextInv, FewWait, FirstIsThere, ReaderInv, vars
<1> QED  BY <1>1, <1>2, <1>3, <1>4 DEF Next

LEMMA TextInvariant ==
  ASSUME TextFits
  PROVE  Spec => []TextInv
<1>1. Init => TextInv
  BY TextInit
<1>2. TextInv /\ [Next]_vars => TextInv'
  BY TextStep
<1> QED  BY <1>1, <1>2, PTL DEF Spec

\* link.c:38: what is received is a packet that was sent, if its bytes are ones the
\* code gets back.
THEOREM RestorableIsRestored ==
  ASSUME TextFits
  PROVE  Spec => []Restored
<1>1. TextInv => Restored
  BY DEF TextInv, ReaderInv, Restored
<1> QED  BY <1>1, TextInvariant, PTL

\* link.c:35-40, 96-244: a link of characters does what a link of packets promises,
\* for all packets with restorable bytes that are few enough for one read.
THEOREM TextIsLink ==
  ASSUME TextFits
  PROVE  Spec => ImplementsLink
<1>1. Init => Abstract!Init
  BY DEF Init, Abstract!Init
<1>2. TextInv /\ [Next]_vars => [Abstract!Next]_<< unread, pbuff >>
  <2> SUFFICES ASSUME TextInv, [Next]_vars
               PROVE  [Abstract!Next]_<< unread, pbuff >>
    OBVIOUS
  <2>1. ASSUME NEW p \in Packets, linkSend(p)  PROVE Abstract!Send
    <3>1. p \in Sent /\ unread' = Append(unread, p) /\ pbuff' = pbuff
      BY <2>1, TextSend DEF linkSend
    <3> QED  BY <3>1 DEF Abstract!Send, Sent
  <2>2. ASSUME linkReceive  PROVE Abstract!Receive
    BY <2>2, TextReceive DEF Abstract!Receive
  <2>3. ASSUME linkReceiveNothing  PROVE Abstract!ReceiveNothing
    <3>1. /\ text = << >> /\ unread' = unread
          /\ pbuff' = [pbuff EXCEPT !.is_valid = 0]
      BY <2>3 DEF linkReceiveNothing
    <3>2. unread = << >>
      <4> SUFFICES ASSUME unread # << >>  PROVE FALSE
        OBVIOUS
      <4>1. PICK r \in Seq(Int) : text = Encode(Head(unread)) \o r
        BY DEF TextInv, FirstIsThere
      <4>2. Head(unread) \in Sent
        BY HeadTailProperties DEF TextInv, FewWait
      <4> DEFINE e == Encode(Head(unread))
      <4>3. e \in Seq(Int) /\ Len(e) >= 1
        <5>1. e \in Seq(Int) /\ e # << >>
          BY <4>2, SentFits DEF Spaced
        <5> QED  BY <5>1, EmptySeq, LenProperties
      <4>4. text = e \o r
        BY <4>1
      <4> HIDE DEF e
      <4>5. Len(e \o r) = Len(e) + Len(r) /\ Len(e) \in Nat /\ Len(r) \in Nat
        BY <4>3, Joined
      <4>6. e \o r = << >>
        BY <3>1, <4>4
      <4>7. Len(e \o r) = 0
        BY <4>6
      <4>8. Len(e) + Len(r) = 0
        BY <4>5, <4>7
      <4> QED  BY <4>3, <4>5, <4>8
    <3> QED  BY <3>1, <3>2 DEF Abstract!ReceiveNothing
  <2>4. ASSUME UNCHANGED vars  PROVE UNCHANGED << unread, pbuff >>
    BY <2>4 DEF vars
  <2> QED  BY <2>1, <2>2, <2>3, <2>4 DEF Next, Abstract!Next
<1> QED  BY <1>1, <1>2, TextInvariant, PTL DEF Spec, ImplementsLink, Abstract!LinkSpec
=============================================================================
