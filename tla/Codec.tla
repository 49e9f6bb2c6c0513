-------------------------------- MODULE Codec --------------------------------
(***************************************************************************)
(* The text of a packet, character by character: link.c:96-244 and the     *)
(* word functions of utilities.c.  Link abstracts from it.                 *)
(*                                                                         *)
(* A character is a signed char of the compiler (x86), so a byte above 127 *)
(* is a negative number.  A string is the sequence of its characters up to *)
(* the terminating zero.                                                   *)
(*                                                                         *)
(* A definition named X_Slip stands next to a definition X and is what a   *)
(* slip in the code would make of it; nothing uses it.                     *)
(***************************************************************************)
EXTENDS Integers, Sequences, FiniteSets, SequencesExt

CONSTANT PAYLOAD_LENGTH \* the longest payload linkSend accepts (main.h)

ASSUME CodecAssumption == PAYLOAD_LENGTH \in Nat \ {0}

Char == -128 .. 127
Space == 32
Zero == 48   \* '0'
LetterA == 97

-----------------------------------------------------------------------------
(* One byte as two letters *)

\* What assigning v to a char keeps of it.
ToChar(v) == ((v + 128) % 256) - 128

\* The division of C rounds towards zero; & 15 keeps the last four bits.
QuotientBy16(v) == IF v >= 0 THEN v \div 16 ELSE -((-v) \div 16)
LastFourBits(v) == v % 16

HighLetter(b) == LastFourBits(QuotientBy16(b)) + LetterA
LowLetter(b) == LastFourBits(b) + LetterA

DecodeByte(high, low) ==
  ToChar(ToChar(ToChar(high - LetterA) * 16) + ToChar(low - LetterA))

\* The bytes that the code gets back: those below 128, and 128, 144, ...
Restorable == { b \in Char : b >= 0 \/ b % 16 = 0 }

EncodePayload_LowFirst(payload) ==
  [i \in 1 .. 2 * Len(payload) |->
     IF i % 2 = 1 THEN LowLetter(payload[(i + 1) \div 2])
                  ELSE HighLetter(payload[i \div 2])]

EncodePayload(payload) ==
  [i \in 1 .. 2 * Len(payload) |->
     IF i % 2 = 1 THEN HighLetter(payload[(i + 1) \div 2])
                  ELSE LowLetter(payload[i \div 2])]

\* Decoding len bytes of a word that has them all.
DecodePayload(word, len) ==
  [k \in 1 .. len |-> DecodeByte(word[2 * k - 1], word[2 * k])]

-----------------------------------------------------------------------------
(* Numbers *)

Digit == Zero .. Zero + 9

\* The digits of a number, the last one computed first.
digits[v \in Nat] ==
  IF v < 10 THEN << Zero + v >>
  ELSE Append(digits[v \div 10], Zero + (v % 10))

int2Ascii(v) == IF v < 0 THEN << >> ELSE digits[v]

\* What comes in s before the first character of C.
Before(s, C) ==
  LET end == SelectInSeq(s, LAMBDA c : c \in C)
  IN  IF end = 0 THEN s ELSE SubSeq(s, 1, end - 1)

\* The number that digits spell, the first one taken first.
Value(s) ==
  LET value[i \in 0 .. Len(s)] ==
        IF i = 0 THEN 0 ELSE 10 * value[i - 1] + s[i] - Zero
  IN  value[Len(s)]

\* The number that the first run of digits in s spells, or -1.
ascii2Int(s) ==
  LET first == SelectInSeq(s, LAMBDA c : c \in Digit)
  IN  IF first = 0 THEN -1
      ELSE Value(Before(SubSeq(s, first, Len(s)), Char \ Digit))

-----------------------------------------------------------------------------
(* Words *)

\* Where the words of s begin.
WordStarts(s) ==
  { i \in 1 .. Len(s) : s[i] # Space /\ (i = 1 \/ s[i - 1] = Space) }

\* The position of the k-th word of s, or -1 if s has fewer words.
point2Word(s, k) ==
  LET IsKth(i) == Cardinality({ j \in WordStarts(s) : j <= i }) = k
  IN  IF \E i \in WordStarts(s) : IsKth(i)
      THEN CHOOSE i \in WordStarts(s) : IsKth(i)
      ELSE -1

\* The k-th word of s, empty if there is none; copyWord stops at a space.
findWord(s, k) ==
  LET i == point2Word(s, k)
  IN  IF i < 0 THEN << >> ELSE Before(SubSeq(s, i, Len(s)), {Space})

appendWithSpace(s, word) == s \o << Space >> \o word

-----------------------------------------------------------------------------
(* Packets *)

\* The three checks that abort linkSend.
Sendable(p) == p.is_valid # 0 /\ p.length > 0 /\ p.length <= PAYLOAD_LENGTH

\* sendbuff, as linkSend builds it.
Encode(p) ==
  LET dest == appendWithSpace(<< Space >>, int2Ascii(p.dest_addr))
      src == appendWithSpace(dest, int2Ascii(p.src_addr))
      length == appendWithSpace(src, int2Ascii(p.length))
  IN  appendWithSpace(length, EncodePayload(SubSeq(p.payload, 1, p.length)))

\* The packet linkReceive makes of what it has read.  Letters that are missing
\* are whatever was in word[]; no bytes stand for such a payload.
Decode(s) ==
  LET length == ascii2Int(findWord(s, 3))
      letters == findWord(s, 4)
  IN  [dest_addr |-> ascii2Int(findWord(s, 1)),
       src_addr |-> ascii2Int(findWord(s, 2)),
       length |-> length,
       payload |-> IF 2 * length <= Len(letters)
                   THEN DecodePayload(letters, length)
                   ELSE << >>,
       is_valid |-> 1]
=============================================================================
