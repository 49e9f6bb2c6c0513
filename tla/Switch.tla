------------------------------- MODULE Switch -------------------------------
(***************************************************************************)
(* switch.c: the processes of the switches.  switchMain loops for ever: it *)
(* reads each incoming link once, in order (switchStoreIncomingPackets),   *)
(* takes one packet from its queue and sends it on one link or on all but  *)
(* one (switchSendOutPacket), and sleeps.  A step of a process does at     *)
(* most one read or write of a pipe, with the local computation next to    *)
(* it; between two steps any other process may run.                        *)
(*                                                                         *)
(* A packet that overruns its buffer, or a table entry past the last slot, *)
(* is written over other memory of the process, and so may be the zero     *)
(* after a read that fills its buffer.  What such a process does next is   *)
(* not modelled: its pc becomes "corrupt" and it takes no step.            *)
(*                                                                         *)
(* A definition named X_Slip stands next to a definition X and is what a   *)
(* slip in the code would make of it; nothing uses it.                     *)
(***************************************************************************)
EXTENDS Link, PacketQueue, ForwardingTable

CONSTANTS
  Switches,  \* the switch processes
  inLinks,   \* inLinks[w]: the links switch w reads, in its order
  outLinks,  \* outLinks[w]: the links switch w writes, in its order
  MAXTABLE   \* slots of a forwarding table (10, switch.h)

\* What switchSetupLinks produces for every topology main accepts in which no
\* switch overruns its arrays of 10 links: as many outgoing as incoming links, the
\* i-th of each joining the same neighbour.
ASSUME SwitchAssumption ==
  /\ inLinks \in [Switches -> Seq(Links)]
  /\ outLinks \in [Switches -> Seq(Links)]
  /\ \A w \in Switches : Len(inLinks[w]) = Len(outLinks[w]) /\ Len(inLinks[w]) <= 10
  /\ MAXTABLE \in Nat

VARIABLES
  queue,     \* queue[w]: packetQueue of switch w
  table,     \* table[w]: forwardingTable of switch w
  pc,        \* pc[w]: the loop switch w is in, "corrupt" or "dead"
  idx,       \* idx[w]: the loop's index, counted from 1
  outPacket, \* outPacket[w], outLink[w]: the variables of switchMain
  outLink

switchVars == << queue, table, pc, idx, outPacket, outLink >>

SwitchTypeOK ==
  /\ queue \in [Switches -> PacketQueueType(packetBuffer)]
  /\ table \in [Switches -> Seq(TableEntry)]
  /\ pc \in [Switches -> {"store", "send", "corrupt", "dead"}]
  /\ idx \in [Switches -> Nat \ {0}]
  /\ outPacket \in [Switches -> packetBuffer]
  /\ outLink \in [Switches -> Int]

-----------------------------------------------------------------------------
(* switchInit; outPacket and outLink have no value yet. *)

SwitchInit ==
  /\ queue = [w \in Switches |-> queueInit(Uninitialised)]
  /\ table = [w \in Switches |-> tableInit]
  /\ pc = [w \in Switches |-> "store"]
  /\ idx = [w \in Switches |-> 1]
  /\ outPacket = [w \in Switches |-> Uninitialised]
  /\ outLink = [w \in Switches |-> -1]

-----------------------------------------------------------------------------
(* switchStoreIncomingPackets *)

\* Switch w is about to read its incoming link number idx[w].
Polling(w) == pc[w] = "store" /\ idx[w] <= Len(inLinks[w])

\* The whole pass over the incoming links is done.
Polled(w) == pc[w] = "store" /\ idx[w] > Len(inLinks[w])

\* The table after a packet p has come in on link number i.
Learn_Dest(t, p, i) == tableUpdate(t, p.is_valid, p.dest_addr, i)
Learn_Prev(t, p, i) == tableUpdate(t, p.is_valid, p.src_addr, i - 1)
Learn(t, p, i) == tableUpdate(t, p.is_valid, p.src_addr, i)

SwitchCorrupt(w) ==
  /\ pc' = [pc EXCEPT ![w] = "corrupt"]
  /\ UNCHANGED << queue, table, idx >>

\* The packet is stored and its source learned, or memory is overwritten.
SwitchStore(w, p) ==
  IF Overruns(p) \/ Len(Learn(table[w], p, idx[w])) > MAXTABLE
  THEN SwitchCorrupt(w)
  ELSE /\ queue' = [queue EXCEPT ![w] = queuePush(@, p)]
       /\ table' = [table EXCEPT ![w] = Learn(@, p, idx[w])]
       /\ idx' = [idx EXCEPT ![w] = @ + 1]
       /\ UNCHANGED pc

SwitchReceive(w) ==
  /\ Polling(w)
  /\ LET l == inLinks[w][idx[w]]
     IN  /\ pipe[l] # << >>
         /\ pipe' = [pipe EXCEPT ![l] = Unread(@)]
         /\ \/ \E p \in {linkReceive(pipe[l])} : SwitchStore(w, p)
            \/ Fills(pipe[l]) /\ SwitchCorrupt(w)
  /\ UNCHANGED << outPacket, outLink >>

\* The read finds nothing: is_valid is 0 and the packet is not stored.
SwitchReceiveNothing_Stuck(w) ==
  /\ Polling(w)
  /\ pipe[inLinks[w][idx[w]]] = << >>
  /\ UNCHANGED << pipe, switchVars >>

SwitchReceiveNothing(w) ==
  /\ Polling(w)
  /\ pipe[inLinks[w][idx[w]]] = << >>
  /\ idx' = [idx EXCEPT ![w] = @ + 1]
  /\ UNCHANGED << pipe, queue, table, pc, outPacket, outLink >>

-----------------------------------------------------------------------------
(* switchMain *)

\* The queue is empty: sleep and start the next pass.
SwitchIdle(w) ==
  /\ Polled(w)
  /\ queueIsEmpty(queue[w])
  /\ idx' = [idx EXCEPT ![w] = 1]
  /\ UNCHANGED << pipe, queue, table, pc, outPacket, outLink >>

\* Take the next packet and look its destination up; a packet without a
\* source address is dropped.
SwitchNextPacket(w) ==
  /\ Polled(w)
  /\ ~queueIsEmpty(queue[w])
  /\ LET p == queueHead(queue[w])
     IN  /\ queue' = [queue EXCEPT ![w] = queuePop(@)]
         /\ outPacket' = [outPacket EXCEPT ![w] = p]
         /\ outLink' = [outLink EXCEPT ![w] = tableGetOutLink(table[w], p.dest_addr)]
         /\ pc' = [pc EXCEPT ![w] = IF p.src_addr # -1 THEN "send" ELSE "store"]
         /\ idx' = [idx EXCEPT ![w] = 1]
  /\ UNCHANGED << pipe, table >>

-----------------------------------------------------------------------------
(* switchSendOutPacket *)

\* linkSend on outgoing link number i of switch w.
Transmit(w, i) ==
  pipe' = [pipe EXCEPT ![outLinks[w][i]] = linkSend(@, outPacket[w])]

\* The destination is known: send on its link.
SwitchUnicast(w) ==
  /\ pc[w] = "send"
  /\ outLink[w] # -1
  /\ Transmit(w, outLink[w])
  /\ pc' = [pc EXCEPT ![w] = "store"]
  /\ UNCHANGED << queue, table, idx, outPacket, outLink >>

\* The link the table gives, now, for the packet's source address.
srcLink_Dest(w) == tableGetOutLink(table[w], outPacket[w].dest_addr)
srcLink_Next(w) == tableGetOutLink(table[w], outPacket[w].src_addr) + 1
srcLink(w) == tableGetOutLink(table[w], outPacket[w].src_addr)

\* It is not: one round of the loop over all links, which leaves srcLink out.
SwitchFlood(w) ==
  /\ pc[w] = "send"
  /\ outLink[w] = -1
  /\ idx[w] <= Len(outLinks[w])
  /\ IF idx[w] # srcLink(w) THEN Transmit(w, idx[w]) ELSE UNCHANGED pipe
  /\ idx' = [idx EXCEPT ![w] = @ + 1]
  /\ UNCHANGED << queue, table, pc, outPacket, outLink >>

SwitchFloodEnd(w) ==
  /\ pc[w] = "send"
  /\ outLink[w] = -1
  /\ idx[w] > Len(outLinks[w])
  /\ pc' = [pc EXCEPT ![w] = "store"]
  /\ idx' = [idx EXCEPT ![w] = 1]
  /\ UNCHANGED << pipe, queue, table, outPacket, outLink >>

-----------------------------------------------------------------------------
SwitchStep(w) ==
  \/ SwitchReceive(w)
  \/ SwitchReceiveNothing(w)
  \/ SwitchIdle(w)
  \/ SwitchNextPacket(w)
  \/ SwitchUnicast(w)
  \/ SwitchFlood(w)
  \/ SwitchFloodEnd(w)

\* The queues implement bounded first-in first-out buffers.
Fifo == INSTANCE BoundedFifo WITH
  Owner <- Switches, Item <- packetBuffer, Capacity <- MAXQUEUE,
  fifo <- [w \in Switches |-> Contents(queue[w])], out <- outPacket
=============================================================================
