------------------------------ MODULE TextLink ------------------------------
(***************************************************************************)
(* One link at the level of characters: a node that sends (linkSend) and a *)
(* node that reads (linkReceive), with the sizes of the code.  Reads that   *)
(* fill the buffer are in Link; here MaxWaiting keeps away from them.      *)
(***************************************************************************)
EXTENDS Codec

CONSTANTS
  Packets,    \* the packets the sender is told to send
  READ_SIZE,  \* bytes linkReceive reads at most, and the size of buffer[]
  MaxWaiting  \* bound on the packets that wait for the reader

ASSUME TextAssumption == READ_SIZE \in Nat \ {0} /\ MaxWaiting \in Nat

VARIABLES
  text,   \* the characters in the pipe
  unread, \* the packets they were made from
  pbuff   \* the packet buffer of the reader

vars == << text, unread, pbuff >>

\* A packet buffer nothing has been received into.
NoPacket ==
  [dest_addr |-> -1, src_addr |-> -1, length |-> 0, payload |-> << >>, is_valid |-> 0]

Init ==
  /\ text = << >>
  /\ unread = << >>
  /\ pbuff = NoPacket

\* A packet that fails a check is not sent.
linkSend(p) ==
  /\ Len(unread) < MaxWaiting
  /\ Sendable(p)
  /\ text' = text \o Encode(p)
  /\ unread' = Append(unread, p)
  /\ UNCHANGED pbuff

\* The read takes what is there, up to READ_SIZE.
linkReceive ==
  /\ text # << >>
  /\ LET size == IF Len(text) < READ_SIZE THEN Len(text) ELSE READ_SIZE
     IN  /\ pbuff' = Decode(SubSeq(text, 1, size))
         /\ text' = SubSeq(text, size + 1, Len(text))
  /\ unread' = << >>

linkReceiveNothing ==
  /\ text = << >>
  /\ pbuff' = [pbuff EXCEPT !.is_valid = 0]
  /\ UNCHANGED << text, unread >>

Next == (\E p \in Packets : linkSend(p)) \/ linkReceive \/ linkReceiveNothing

Spec == Init /\ [][Next]_vars

-----------------------------------------------------------------------------
\* link.c:38: "decoded to get the original values": what has been received is
\* a packet that was sent.
Restored == pbuff.is_valid = 1 => pbuff \in Packets

\* link.c:35-40: numbers, words and letters are put together and taken apart so
\* that a reader gets the packets that were sent, the first of each read.
Abstract == INSTANCE PacketLink WITH
  Message <- { p \in Packets : Sendable(p) }, Empty <- NoPacket, waiting <- unread

ImplementsLink == Abstract!LinkSpec

-----------------------------------------------------------------------------
\* What the proofs assume of the packets that are sent: numbers are not negative,
\* bytes are restorable, and all that may wait is less than a read takes.
TextPacket ==
  { p \in [dest_addr : Nat, src_addr : Nat, length : Nat,
           payload : Seq(Restorable), is_valid : {1}] : p.length = Len(p.payload) }
TextFits ==
  \A p \in Packets :
    (p.is_valid # 0 /\ p.length > 0 /\ p.length <= PAYLOAD_LENGTH) =>
      p \in TextPacket /\ MaxWaiting * Len(Encode(p)) < READ_SIZE
=============================================================================
