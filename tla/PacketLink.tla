----------------------------- MODULE PacketLink -----------------------------
(***************************************************************************)
(* What a link promises: a packet that is sent waits in the link, and the  *)
(* next read hands out, unchanged, the first of those that wait.  The rest *)
(* of them are lost with it.                                               *)
(***************************************************************************)
EXTENDS Sequences

CONSTANTS
  Message, \* the packets that can be sent
  Empty    \* the packet buffer of the reader at the start

VARIABLES
  waiting, \* the packets sent and not yet read
  pbuff    \* the packet buffer of the reader

Init == waiting = << >> /\ pbuff = Empty

Send == /\ \E p \in Message : waiting' = Append(waiting, p)
        /\ UNCHANGED pbuff

Receive == /\ waiting # << >>
           /\ pbuff' = Head(waiting)
           /\ waiting' = << >>

\* A read that finds nothing marks the buffer invalid.
ReceiveNothing == /\ waiting = << >>
                  /\ pbuff' = [pbuff EXCEPT !.is_valid = 0]
                  /\ UNCHANGED waiting

Next == Send \/ Receive \/ ReceiveNothing

LinkSpec == Init /\ [][Next]_<< waiting, pbuff >>
=============================================================================
