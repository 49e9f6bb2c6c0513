----------------------------- MODULE PacketQueue -----------------------------
(***************************************************************************)
(* The PacketQueue of switch.c: a ring of MAXQUEUE packets in which head   *)
(* and tail are indices and size counts the packets, operators on the      *)
(* record the C functions get a pointer to.                                *)
(*                                                                         *)
(* A definition named X_Slip stands next to a definition X and is what a   *)
(* slip in the code would make of it; nothing uses it.                     *)
(***************************************************************************)
EXTENDS Integers, Sequences

CONSTANT MAXQUEUE \* slots of the ring (5, switch.h)

ASSUME QueueAssumption == MAXQUEUE \in Nat \ {0}

Slots == 0 .. MAXQUEUE - 1

\* The rings of packets from a set Packet.
PacketQueueType(Packet) ==
  [head : Slots, tail : -1 .. MAXQUEUE - 1, size : 0 .. MAXQUEUE,
   packets : [Slots -> Packet]]

-----------------------------------------------------------------------------
(* Operations *)

\* packets is left as it was: p stands for what the memory held.
queueInit(p) ==
  [head |-> 0, tail |-> -1, size |-> 0, packets |-> [i \in Slots |-> p]]

queueIsFull_Early(q) == q.size = MAXQUEUE - 1
queueIsFull(q) == q.size = MAXQUEUE
queueIsEmpty(q) == q.size = 0

\* A packet pushed on a full queue is dropped.
queuePush_NoWrap(q, p) ==
  IF queueIsFull(q)
  THEN q
  ELSE [q EXCEPT !.tail = @ + 1, !.packets[q.tail + 1] = p, !.size = @ + 1]

queuePush(q, p) ==
  LET tail == (q.tail + 1) % MAXQUEUE
  IN  IF queueIsFull(q)
      THEN q
      ELSE [head |-> q.head, tail |-> tail, size |-> q.size + 1,
            packets |-> [q.packets EXCEPT ![tail] = p]]

\* queuePop returns the packet at the head and moves the head on.
queueHead_Last(q) == q.packets[q.tail]
queueHead(q) == q.packets[q.head]

queuePop_HeadStays(q) ==
  IF queueIsEmpty(q) THEN q ELSE [q EXCEPT !.size = @ - 1]

queuePop_SizeStays(q) ==
  IF queueIsEmpty(q) THEN q ELSE [q EXCEPT !.head = (@ + 1) % MAXQUEUE]

queuePop(q) ==
  IF queueIsEmpty(q)
  THEN q
  ELSE [head |-> (q.head + 1) % MAXQUEUE, tail |-> q.tail, size |-> q.size - 1,
        packets |-> q.packets]

-----------------------------------------------------------------------------
(* What the ring stands for *)

\* The i-th packet (i = 0 for the next to be popped) lies in this slot.
SlotOf(q, i) == (q.head + i) % MAXQUEUE

\* The packets in the queue, in the order in which they will be popped.
Contents(q) == [i \in 1 .. q.size |-> q.packets[SlotOf(q, i - 1)]]

\* head, tail and size agree: tail is the slot of the last packet.
RingConsistent(q) == (q.tail + 1) % MAXQUEUE = (q.head + q.size) % MAXQUEUE
=============================================================================
