------------------------------- MODULE MCText -------------------------------
(***************************************************************************)
(* A link with the sizes of the code.  The packets have short and long     *)
(* addresses and lengths, each restorable byte somewhere, and there is one *)
(* for each check that linkSend makes.                                     *)
(***************************************************************************)
EXTENDS TextLink

Packet(dest, src, payload) ==
  [dest_addr |-> dest, src_addr |-> src, length |-> Len(payload),
   payload |-> payload, is_valid |-> 1]

MCLong == Packet(10000, 9999, [i \in 1 .. 200 |-> IF i > 128 THEN 16 * (i % 8) - 128 ELSE i - 1])
MCTooLong == Packet(10000, 9999, [i \in 1 .. 300 |-> 97])

MCPackets ==
  { Packet(0, 7, << 65 >>), Packet(120, 21, << 0, 127, 48, 32, 10, -128, -16 >>),
    Packet(9, 10, [i \in 1 .. 10 |-> 47 + i]), MCLong,
    MCTooLong, Packet(1, 1, << >>), [Packet(2, 3, << 66 >>) EXCEPT !.is_valid = 0] }

\* A file with an umlaut in it.
MCUmlaut == { Packet(1, 0, << 97 >>), Packet(1, 0, << -61, -68 >>) }
                \cup { Packet(d, 0, << 98 >>) : d \in 1 .. 3 }

\* The numbers a user can type are read as they were written.
ASSUME \A v \in 0 .. 10000 : ascii2Int(int2Ascii(v)) = v

\* What is proved about links of text applies to these packets.
ASSUME Packets = MCPackets => TextFits
=============================================================================
