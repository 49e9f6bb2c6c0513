-------------------------------- MODULE Link --------------------------------
(***************************************************************************)
(* link.c, with the word functions of utilities.c it uses: packets sent    *)
(* over nonblocking pipes as text, four words separated by spaces.         *)
(*                                                                         *)
(* A pipe is a byte stream, so what a read returns is not what one write   *)
(* put in: it is everything waiting, up to ReadMax, of which linkReceive   *)
(* decodes the first four words and forgets the rest.  The stream is a     *)
(* sequence of cells, each of which a read takes whole: a cell is a number *)
(* (a header word) or one encoded byte of a payload.  The spaces between   *)
(* words are left out, since adjacent numbers are always separate words    *)
(* and the cells of one payload are always one word.                       *)
(*                                                                         *)
(* A definition named X_Slip stands next to a definition X and is what a   *)
(* slip in the code would make of it; nothing uses it.                     *)
(***************************************************************************)
EXTENDS Integers, Sequences, FiniteSets

CONSTANTS
  Links,          \* the links (links_array.link[]), each one pipe
  Payload,        \* what the payload of a packet can be
  Garbage,        \* any other contents: undecodable or uninitialised bytes
  PAYLOAD_LENGTH, \* the longest payload linkSend accepts (200, main.h)
  ReadMax,        \* cells one read can take, and the size of buffer[] (1000 bytes)
  PipeMax         \* cells a pipe can hold (65536 bytes)

ASSUME LinkAssumption ==
  /\ PAYLOAD_LENGTH \in Nat \ {0}
  /\ ReadMax \in Nat \ {0}
  /\ PipeMax \in Nat
  /\ Garbage \notin Payload

VARIABLE pipe     \* pipe[l]: the cells written to link l and not yet read

-----------------------------------------------------------------------------
(* Data types *)

PayloadOrGarbage == Payload \cup {Garbage}

\* main.h.  The fields new and is_valid are always set together (linkReceive)
\* before they are tested, so is_valid stands for both.
packetBuffer ==
  [src_addr : Int, dest_addr : Int, length : Int,
   payload : PayloadOrGarbage, is_valid : {0, 1}]

\* Memory nothing has been stored in yet.
Uninitialised ==
  [src_addr |-> -1, dest_addr |-> -1, length |-> 0,
   payload |-> Garbage, is_valid |-> 0]

Cell == [kind : {"num"}, val : Nat] \cup [kind : {"byte"}, val : PayloadOrGarbage]

-----------------------------------------------------------------------------
(* Words *)

\* int2Ascii: a negative value gives the empty string, hence no word at all.
int2Ascii(v) == IF v < 0 THEN << >> ELSE << [kind |-> "num", val |-> v] >>

\* Where the words of c begin: a byte cell continues the word of a byte cell.
WordStarts(c) ==
  { i \in DOMAIN c : i = 1 \/ c[i].kind = "num" \/ c[i-1].kind = "num" }

\* The position of the k-th word of c, or -1 if c has fewer words.
point2Word(c, k) ==
  LET IsKth(i) == Cardinality({ j \in WordStarts(c) : j <= i }) = k
  IN  IF \E i \in WordStarts(c) : IsKth(i)
      THEN CHOOSE i \in WordStarts(c) : IsKth(i)
      ELSE -1

\* ascii2Int applied to the k-th word: -1 for an empty word and for a word
\* without digits, as the letters of an encoded payload are.
WordValue(c, k) ==
  LET i == point2Word(c, k)
  IN  IF i # -1 /\ c[i].kind = "num" THEN c[i].val ELSE -1

\* The payload is looked for one word early, and what is there is taken for it.
WordPayload_Early(c, len) ==
  LET i == point2Word(c, 3)
  IN  IF i # -1 /\ len > 0 THEN c[i].val ELSE Garbage

\* The payload that decoding len bytes of the fourth word gives.
WordPayload(c, len) ==
  LET i == point2Word(c, 4)
  IN  IF /\ i # -1 /\ len > 0 /\ i + len - 1 <= Len(c)
         /\ \A j \in i .. i + len - 1 : c[j].kind = "byte"
      THEN c[i].val
      ELSE Garbage

-----------------------------------------------------------------------------
(* Sending and receiving *)

\* The three checks that abort linkSend.
Sendable(p) == p.is_valid # 0 /\ p.length > 0 /\ p.length <= PAYLOAD_LENGTH

\* The text linkSend builds in sendbuff.
Encode(p) ==
  int2Ascii(p.dest_addr) \o int2Ascii(p.src_addr) \o int2Ascii(p.length)
    \o [i \in 1 .. p.length |-> [kind |-> "byte", val |-> p.payload]]

\* A nonblocking write, far below PIPE_BUF, is all or nothing; linkSend does
\* not look at its result.
Write(s, msg) == IF Len(s) + Len(msg) <= PipeMax THEN s \o msg ELSE s

\* The contents of a link's pipe after linkSend(link, p).
linkSend(s, p) == IF Sendable(p) THEN Write(s, Encode(p)) ELSE s

\* What a read takes from a pipe holding s, and what it leaves.
ReadLen(s) == IF Len(s) <= ReadMax THEN Len(s) ELSE ReadMax
ReadCells(s) == SubSeq(s, 1, ReadLen(s))
Unread(s) == SubSeq(s, ReadLen(s) + 1, Len(s))

\* The packet linkReceive stores in pbuff when the pipe holds s.
linkReceive_Swapped(s) ==
  IF s = << >>
  THEN Uninitialised
  ELSE LET c == ReadCells(s)
       IN  [dest_addr |-> WordValue(c, 2), src_addr |-> WordValue(c, 1),
            length |-> WordValue(c, 3),
            payload |-> WordPayload(c, WordValue(c, 3)), is_valid |-> 1]

linkReceive(s) ==
  IF s = << >>
  THEN Uninitialised
  ELSE LET c == ReadCells(s)
       IN  [dest_addr |-> WordValue(c, 1), src_addr |-> WordValue(c, 2),
            length |-> WordValue(c, 3),
            payload |-> WordPayload(c, WordValue(c, 3)), is_valid |-> 1]

\* The zero that ends what was read is put past the end of buffer[].  What is
\* there, unused bytes or other memory, is up to the compiler.
Fills(s) == Len(s) >= ReadMax

\* Decoding wrote past the end of payload[]: the loop of linkReceive trusts
\* the length it has read, and the zero after them needs a byte more.
Overruns_NoSpare(p) == p.length >= PAYLOAD_LENGTH
Overruns(p) == p.length > PAYLOAD_LENGTH
=============================================================================
