---------------------------- MODULE Switch_proof ----------------------------
(***************************************************************************)
(* Proofs about the switches for every topology, every bound and whatever  *)
(* is read from the pipes: packets that were cut and packets of garbage,   *)
(* too.  Who else writes the pipes is left open.                           *)
(***************************************************************************)
EXTENDS Switch, Link_proof, WellFoundedInduction

-----------------------------------------------------------------------------
(* What the operations of the ring do to the sequence it stands for. *)

\* An index that has run at most once round the ring.
LEMMA ModOnce ==
  ASSUME NEW a \in Nat, a < 2 * MAXQUEUE
  PROVE  a % MAXQUEUE = IF a < MAXQUEUE THEN a ELSE a - MAXQUEUE
  BY QueueAssumption

\* An index is reduced to a slot of the ring.
LEMMA ModInSlots ==
  ASSUME NEW a \in Nat
  PROVE  a % MAXQUEUE \in Slots
  BY QueueAssumption DEF Slots

\* The first j slots counted from d are other slots than the one after them.
LEMMA ModDistinct ==
  ASSUME NEW d \in Slots, NEW j \in 0 .. MAXQUEUE - 1, NEW i \in 0 .. j - 1
  PROVE  (d + i) % MAXQUEUE # (d + j) % MAXQUEUE
<1>1. /\ d + i \in Nat /\ d + i < 2 * MAXQUEUE
      /\ d + j \in Nat /\ d + j < 2 * MAXQUEUE
  BY QueueAssumption DEF Slots
<1>2. /\ (d + i) % MAXQUEUE = IF d + i < MAXQUEUE THEN d + i ELSE d + i - MAXQUEUE
      /\ (d + j) % MAXQUEUE = IF d + j < MAXQUEUE THEN d + j ELSE d + j - MAXQUEUE
  BY <1>1, ModOnce, QueueAssumption DEF Slots
<1> QED  BY <1>2, QueueAssumption DEF Slots

\* Counting i slots from the slot after d is counting i + 1 from d.
LEMMA ModNext ==
  ASSUME NEW d \in Slots, NEW i \in 0 .. MAXQUEUE - 1
  PROVE  (((d + 1) % MAXQUEUE) + i) % MAXQUEUE = (d + (i + 1)) % MAXQUEUE
<1> USE QueueAssumption DEF Slots
<1>1. (d + (i + 1)) % MAXQUEUE
        = IF d + (i + 1) < MAXQUEUE THEN d + (i + 1) ELSE d + (i + 1) - MAXQUEUE
  BY ModOnce
<1>2. CASE d + 1 < MAXQUEUE
  <2>1. (d + 1) % MAXQUEUE = d + 1
    BY <1>2
  <2>2. (d + 1) + i = d + (i + 1)
    OBVIOUS
  <2> QED  BY <2>1, <2>2
<1>3. CASE d + 1 = MAXQUEUE
  <2>1. (d + 1) % MAXQUEUE = 0
    BY <1>3
  <2>2. (0 + i) % MAXQUEUE = i
    OBVIOUS
  <2>3. d + (i + 1) - MAXQUEUE = i /\ ~(d + (i + 1) < MAXQUEUE)
    BY <1>3
  <2> QED  BY <1>1, <2>1, <2>2, <2>3
<1> QED  BY <1>2, <1>3

\* The slot after slot d + i is slot d + (i + 1).
LEMMA ModAfter ==
  ASSUME NEW d \in Slots, NEW i \in 0 .. MAXQUEUE - 1
  PROVE  (((d + i) % MAXQUEUE) + 1) % MAXQUEUE = (d + (i + 1)) % MAXQUEUE
<1> USE QueueAssumption DEF Slots
<1>1. (d + (i + 1)) % MAXQUEUE
        = IF d + (i + 1) < MAXQUEUE THEN d + (i + 1) ELSE d + (i + 1) - MAXQUEUE
  BY ModOnce
<1>2. (d + i) % MAXQUEUE = IF d + i < MAXQUEUE THEN d + i ELSE d + i - MAXQUEUE
  BY ModOnce
<1>3. CASE d + i < MAXQUEUE
  <2>1. (d + i) + 1 = d + (i + 1)
    OBVIOUS
  <2> QED  BY <1>2, <1>3, <2>1
<1>4. CASE ~(d + i < MAXQUEUE)
  <2>1. d + i - MAXQUEUE + 1 \in 0 .. MAXQUEUE - 1
    BY <1>4
  <2>2. (d + i - MAXQUEUE + 1) % MAXQUEUE = d + i - MAXQUEUE + 1
    BY <2>1
  <2> QED  BY <1>1, <1>2, <1>4, <2>2
<1> QED  BY <1>3, <1>4

\* The rings that the operations keep: well typed, and with a tail that agrees
\* with head and size.
IsRing(q, P) == q \in PacketQueueType(P) /\ RingConsistent(q)

\* The contents are a sequence of packets, as long as size says.
LEMMA ContentsSeq ==
  ASSUME NEW P, NEW q, IsRing(q, P)
  PROVE  Contents(q) \in Seq(P) /\ Len(Contents(q)) = q.size
<1>1. /\ q.head \in Slots /\ q.size \in Nat /\ q.size <= MAXQUEUE
      /\ q.packets \in [Slots -> P]
  BY QueueAssumption DEF IsRing, PacketQueueType
<1>2. ASSUME NEW i \in 1 .. q.size  PROVE  q.packets[SlotOf(q, i - 1)] \in P
  <2>1. q.head + (i - 1) \in Nat
    BY <1>1, QueueAssumption DEF Slots
  <2>2. SlotOf(q, i - 1) \in Slots
    BY <2>1, ModInSlots DEF SlotOf
  <2> QED  BY <1>1, <2>2
<1>3. Contents(q) \in [1 .. q.size -> P]
  BY <1>2 DEF Contents
<1> QED  BY <1>1, <1>3

\* queueInit gives an empty ring.
LEMMA InitRing ==
  ASSUME NEW P, NEW p \in P
  PROVE  IsRing(queueInit(p), P) /\ Contents(queueInit(p)) = << >>
<1>1. queueInit(p) \in PacketQueueType(P)
  BY QueueAssumption DEF queueInit, PacketQueueType, Slots
<1>2. RingConsistent(queueInit(p))
  BY QueueAssumption DEF RingConsistent, queueInit
<1>3. Contents(queueInit(p)) = << >>
  BY DEF Contents, queueInit
<1> QED  BY <1>1, <1>2, <1>3 DEF IsRing

\* Pushing on a ring that is not full appends to what it stands for, and
\* pushing on a full one changes nothing.
LEMMA PushRing ==
  ASSUME NEW P, NEW q, IsRing(q, P), NEW p \in P
  PROVE  /\ IsRing(queuePush(q, p), P)
         /\ Contents(queuePush(q, p)) =
              IF q.size = MAXQUEUE THEN Contents(q) ELSE Append(Contents(q), p)
<1> DEFINE t == (q.tail + 1) % MAXQUEUE
           r == [head |-> q.head, tail |-> t, size |-> q.size + 1,
                 packets |-> [q.packets EXCEPT ![t] = p]]
<1>1. CASE q.size = MAXQUEUE
  BY <1>1 DEF queuePush, queueIsFull
<1>2. CASE q.size # MAXQUEUE
  <2>1. queuePush(q, p) = r
    BY <1>2 DEF queuePush, queueIsFull
  <2>2. /\ r.head = q.head /\ r.tail = t /\ r.size = q.size + 1
        /\ r.packets = [q.packets EXCEPT ![t] = p]
    OBVIOUS
  <2>3. /\ q.head \in Slots /\ q.tail \in -1 .. MAXQUEUE - 1
        /\ q.size \in 0 .. MAXQUEUE - 1 /\ q.packets \in [Slots -> P]
    BY <1>2, QueueAssumption DEF IsRing, PacketQueueType
  <2>4. t = (q.head + q.size) % MAXQUEUE
    BY DEF IsRing, RingConsistent
  <2> HIDE DEF t
  <2>5. t \in Slots
    <3>1. q.head + q.size \in Nat
      BY <2>3, QueueAssumption DEF Slots
    <3> QED  BY <2>4, <3>1, ModInSlots
  <2>6. r \in PacketQueueType(P)
    <3>1. /\ t \in -1 .. MAXQUEUE - 1 /\ q.size + 1 \in 0 .. MAXQUEUE
          /\ [q.packets EXCEPT ![t] = p] \in [Slots -> P]
      BY <2>3, <2>5, QueueAssumption DEF Slots
    <3> QED  BY <2>3, <3>1 DEF PacketQueueType
  <2> HIDE DEF r
  <2>7. RingConsistent(r)
    <3>1. (t + 1) % MAXQUEUE = (q.head + (q.size + 1)) % MAXQUEUE
      BY <2>3, <2>4, ModAfter, QueueAssumption
    <3> QED  BY <2>2, <3>1 DEF RingConsistent
  <2>8. Contents(r) = Append(Contents(q), p)
    <3>1. /\ Contents(q) \in Seq(P) /\ Len(Contents(q)) = q.size
          /\ Contents(r) \in Seq(P) /\ Len(Contents(r)) = q.size + 1
      BY <2>2, <2>6, <2>7, ContentsSeq DEF IsRing
    <3>2. /\ Append(Contents(q), p) \in Seq(P)
          /\ Len(Append(Contents(q), p)) = q.size + 1
          /\ \A i \in 1 .. q.size : Append(Contents(q), p)[i] = Contents(q)[i]
          /\ Append(Contents(q), p)[q.size + 1] = p
      BY <3>1, AppendProperties
    <3>3. ASSUME NEW i \in 1 .. q.size
          PROVE  Contents(r)[i] = Contents(q)[i]
      <4>1. /\ q.head + (i - 1) \in Nat
            /\ q.size \in 0 .. MAXQUEUE - 1 /\ i - 1 \in 0 .. q.size - 1
        BY <2>3, QueueAssumption DEF Slots
      <4>2. SlotOf(q, i - 1) \in Slots /\ SlotOf(q, i - 1) # t
        BY <4>1, <2>3, <2>4, ModInSlots, ModDistinct DEF SlotOf
      <4>3. SlotOf(r, i - 1) = SlotOf(q, i - 1)
        BY <2>2 DEF SlotOf
      <4>4. Contents(q)[i] = q.packets[SlotOf(q, i - 1)]
        BY DEF Contents
      <4>5. i \in 1 .. q.size + 1
        BY <2>3, QueueAssumption
      <4>6. Contents(r)[i] = r.packets[SlotOf(r, i - 1)]
        BY <2>2, <4>5 DEF Contents
      <4> QED  BY <2>2, <2>3, <4>2, <4>3, <4>4, <4>6
    <3>4. Contents(r)[q.size + 1] = p
      <4>1. q.size + 1 \in 1 .. q.size + 1 /\ (q.size + 1) - 1 = q.size
        BY <2>3, QueueAssumption
      <4>2. Contents(r)[q.size + 1] = r.packets[SlotOf(r, q.size)]
        BY <2>2, <4>1 DEF Contents
      <4>3. SlotOf(r, q.size) = t
        BY <2>2, <2>4 DEF SlotOf
      <4> QED  BY <2>2, <2>3, <2>5, <4>2, <4>3
    <3>5. ASSUME NEW i \in 1 .. q.size + 1
          PROVE  Contents(r)[i] = Append(Contents(q), p)[i]
      <4>1. i \in 1 .. q.size \/ i = q.size + 1
        BY <2>3, QueueAssumption
      <4> QED  BY <3>2, <3>3, <3>4, <4>1
    <3> QED  BY <3>1, <3>2, <3>5, SeqEqual
  <2> QED  BY <1>2, <2>1, <2>6, <2>7, <2>8 DEF IsRing
<1> QED  BY <1>1, <1>2

\* Popping takes the first packet of what the ring stands for.
LEMMA PopRing ==
  ASSUME NEW P, NEW q, IsRing(q, P), q.size # 0
  PROVE  /\ IsRing(queuePop(q), P)
         /\ Contents(q) # << >>
         /\ queueHead(q) \in P
         /\ queueHead(q) = Head(Contents(q))
         /\ Contents(queuePop(q)) = Tail(Contents(q))
<1> DEFINE h == (q.head + 1) % MAXQUEUE
           r == [head |-> h, tail |-> q.tail, size |-> q.size - 1,
                 packets |-> q.packets]
<1>1. queuePop(q) = r
  BY DEF queuePop, queueIsEmpty
<1>2. /\ q.head \in Slots /\ q.tail \in -1 .. MAXQUEUE - 1
      /\ q.size \in 1 .. MAXQUEUE /\ q.packets \in [Slots -> P]
      /\ q \in PacketQueueType(P)
      /\ (q.tail + 1) % MAXQUEUE = (q.head + q.size) % MAXQUEUE
  BY QueueAssumption DEF IsRing, PacketQueueType, RingConsistent
<1>3. r.head = h /\ r.tail = q.tail /\ r.size = q.size - 1 /\ r.packets = q.packets
  OBVIOUS
<1>4. h \in Slots
  BY <1>2, QueueAssumption DEF Slots
<1>5. ASSUME NEW i \in 0 .. q.size - 1
      PROVE  (h + i) % MAXQUEUE = (q.head + (i + 1)) % MAXQUEUE
  BY <1>2, ModNext, QueueAssumption
<1> HIDE DEF h
<1>6. r \in PacketQueueType(P)
  <2>1. q.size - 1 \in 0 .. MAXQUEUE
    BY <1>2, QueueAssumption
  <2> QED  BY <1>2, <1>4, <2>1 DEF PacketQueueType
<1> HIDE DEF r
<1>7. q.size - 1 \in 0 .. q.size - 1 /\ (q.size - 1) + 1 = q.size
  BY <1>2, QueueAssumption
<1>8. RingConsistent(r)
  <2>1. (h + (q.size - 1)) % MAXQUEUE = (q.head + ((q.size - 1) + 1)) % MAXQUEUE
    BY <1>5, <1>7
  <2> QED  BY <1>2, <1>3, <1>7, <2>1 DEF RingConsistent
<1>9. IsRing(r, P)
  BY <1>6, <1>8 DEF IsRing
<1>10. /\ Contents(q) \in Seq(P) /\ Len(Contents(q)) = q.size
       /\ Contents(r) \in Seq(P) /\ Len(Contents(r)) = q.size - 1
  BY <1>3, <1>9, ContentsSeq
<1>11. Contents(q) # << >>
  BY <1>2, <1>10, QueueAssumption
<1>12. Head(Contents(q)) = q.packets[q.head] /\ q.packets[q.head] \in P
  <2>1. q.head % MAXQUEUE = q.head /\ q.head + (1 - 1) = q.head
    <3> DEFINE d == q.head
    <3>1. d \in 0 .. MAXQUEUE - 1
      BY <1>2 DEF Slots
    <3> HIDE DEF d
    <3>2. d % MAXQUEUE = d /\ d + (1 - 1) = d
      BY <3>1, QueueAssumption
    <3> QED  BY <3>2 DEF d
  <2>2. Contents(q)[1] = q.packets[q.head]
    BY <1>2, <2>1, QueueAssumption DEF Contents, SlotOf
  <2> QED  BY <1>2, <1>10, <1>11, <2>2
<1>13. Contents(r) = Tail(Contents(q))
  <2>1. /\ Tail(Contents(q)) \in Seq(P) /\ Len(Tail(Contents(q))) = q.size - 1
        /\ \A i \in 1 .. q.size - 1 : Tail(Contents(q))[i] = Contents(q)[i + 1]
    BY <1>10, <1>11, HeadTailProperties
  <2>2. ASSUME NEW i \in 1 .. q.size - 1
        PROVE  Contents(r)[i] = Contents(q)[i + 1]
    <3>1. Contents(q)[i + 1] = q.packets[(q.head + ((i + 1) - 1)) % MAXQUEUE]
      BY <1>2, QueueAssumption DEF Contents, SlotOf
    <3>2. Contents(r)[i] = q.packets[(h + (i - 1)) % MAXQUEUE]
      BY <1>2, <1>3, QueueAssumption DEF Contents, SlotOf
    <3>3. i - 1 \in 0 .. q.size - 1 /\ (i + 1) - 1 = (i - 1) + 1
      BY <1>2, QueueAssumption
    <3> QED  BY <3>1, <3>2, <3>3, <1>5
  <2> QED  BY <1>10, <2>1, <2>2, SeqEqual
<1> QED  BY <1>1, <1>9, <1>11, <1>12, <1>13 DEF queueHead

-----------------------------------------------------------------------------
(* Forwarding tables *)

\* Addresses have one entry each.
DistinctAddrs(t) ==
  \A i, j \in DOMAIN t : t[i].dest_addr = t[j].dest_addr => i = j

\* Among positions there is a first one.
LEMMA FirstPosition ==
  ASSUME NEW T, T \subseteq Nat, T # {}
  PROVE  \E i \in T : \A j \in Nat : j < i => j \notin T
<1>1. \E i \in T : \A j \in T : ~ (<< j, i >> \in OpToRel(<, Nat))
  BY NatLessThanWellFounded, WFMin
<1> QED  BY <1>1 DEF OpToRel

\* The search finds an entry for the address if there is one.
LEMMA IndexFound ==
  ASSUME NEW t \in Seq(TableEntry), NEW a
  PROVE  /\ a \in KnownAddrs(t) =>
              /\ tableEntryIndex(t, a) \in DOMAIN t
              /\ t[tableEntryIndex(t, a)].dest_addr = a
         /\ a \notin KnownAddrs(t) => tableEntryIndex(t, a) = -1
<1> DEFINE T == { i \in DOMAIN t : t[i].dest_addr = a }
<1>1. DOMAIN t = 1 .. Len(t) /\ Len(t) \in Nat
  BY LenProperties
<1>2. CASE a \in KnownAddrs(t)
  <2>1. T \subseteq Nat /\ T # {}
    BY <1>1, <1>2 DEF KnownAddrs
  <2>2. PICK i \in T : \A j \in Nat : j < i => j \notin T
    BY <2>1, FirstPosition
  <2>3. /\ i \in DOMAIN t /\ t[i].dest_addr = a
        /\ \A j \in 1 .. i - 1 : ~(t[j].dest_addr = a)
    BY <1>1, <2>2
  <2>4. \E k \in DOMAIN t : t[k].dest_addr = a
    BY <2>3
  <2>5. tableEntryIndex(t, a) =
          CHOOSE k \in DOMAIN t :
            t[k].dest_addr = a /\ \A j \in 1 .. k - 1 : ~(t[j].dest_addr = a)
    BY <2>4 DEF tableEntryIndex
  <2> QED  BY <1>2, <2>3, <2>5
<1>3. CASE a \notin KnownAddrs(t)
  BY <1>3 DEF tableEntryIndex, KnownAddrs
<1> QED  BY <1>2, <1>3

\* Updating a table: the address is known from then on, and no address is
\* forgotten, entered twice or given an entry of another link.
LEMMA UpdateTable ==
  ASSUME NEW t \in Seq(TableEntry), NEW a \in Int, NEW n \in Nat \ {0}
  PROVE  LET u == tableUpdate(t, 1, a, n)
         IN  /\ u \in Seq(TableEntry)
             /\ KnownAddrs(u) = KnownAddrs(t) \cup {a}
             /\ DistinctAddrs(t) => DistinctAddrs(u)
             /\ \A i \in DOMAIN u :
                  \/ u[i] = [valid |-> 1, dest_addr |-> a, linkOutNum |-> n]
                  \/ \E j \in DOMAIN t : u[i] = t[j]
<1> DEFINE e == [valid |-> 1, dest_addr |-> a, linkOutNum |-> n]
           k == tableEntryIndex(t, a)
           u == tableUpdate(t, 1, a, n)
<1>1. DOMAIN t = 1 .. Len(t) /\ Len(t) \in Nat /\ \A i \in DOMAIN t : t[i] \in TableEntry
  BY LenProperties, ElementOfSeq
<1>2. e \in TableEntry /\ e.dest_addr = a /\ e.linkOutNum = n
  BY DEF TableEntry
<1>3. CASE a \notin KnownAddrs(t)
  <2>1. u = Append(t, e)
    BY <1>1, <1>3, IndexFound DEF tableUpdate, tableAddEntry
  <2>2. /\ u \in Seq(TableEntry) /\ Len(u) = Len(t) + 1
        /\ \A i \in 1 .. Len(t) : u[i] = t[i]
        /\ u[Len(t) + 1] = e
    BY <1>2, <2>1, AppendProperties
  <2>3. DOMAIN u = 1 .. Len(t) + 1
    BY <2>2, LenProperties
  <2> HIDE DEF u, e
  <2>4. KnownAddrs(u) = KnownAddrs(t) \cup {a}
    BY <1>1, <1>2, <2>2, <2>3 DEF KnownAddrs
  <2>5. DistinctAddrs(t) => DistinctAddrs(u)
    BY <1>1, <1>2, <1>3, <2>2, <2>3 DEF KnownAddrs, DistinctAddrs
  <2>6. \A i \in DOMAIN u : u[i] = e \/ \E j \in DOMAIN t : u[i] = t[j]
    BY <1>1, <2>2, <2>3
  <2> QED  BY <2>2, <2>4, <2>5, <2>6 DEF u, e
<1>4. CASE a \in KnownAddrs(t)
  <2>1. k \in DOMAIN t /\ t[k].dest_addr = a
    BY <1>4, IndexFound
  <2>2. u = [t EXCEPT ![k] = [valid |-> 1, dest_addr |-> t[k].dest_addr, linkOutNum |-> n]]
    BY <1>1, <2>1 DEF tableUpdate, tableUpdateEntry
  <2>3. u = [t EXCEPT ![k] = e]
    BY <2>1, <2>2
  <2> HIDE DEF k
  <2>4. /\ u \in Seq(TableEntry) /\ Len(u) = Len(t)
        /\ \A i \in 1 .. Len(t) : u[i] = IF i = k THEN e ELSE t[i]
    BY <1>1, <1>2, <2>1, <2>3, ExceptSeq
  <2>5. DOMAIN u = 1 .. Len(t)
    BY <2>4, LenProperties
  <2> HIDE DEF u, e
  <2>6. \A i \in DOMAIN u : u[i].dest_addr = t[i].dest_addr
    BY <1>1, <1>2, <2>1, <2>4, <2>5
  <2>7. KnownAddrs(u) = KnownAddrs(t) \cup {a}
    BY <1>1, <1>4, <2>5, <2>6 DEF KnownAddrs
  <2>8. DistinctAddrs(t) => DistinctAddrs(u)
    BY <1>1, <2>5, <2>6 DEF DistinctAddrs
  <2>9. \A i \in DOMAIN u : u[i] = e \/ \E j \in DOMAIN t : u[i] = t[j]
    BY <1>1, <2>4, <2>5
  <2> QED  BY <2>4, <2>7, <2>8, <2>9 DEF u, e
<1> QED  BY <1>3, <1>4

\* A lookup gives the link of the address's entry, or -1.
LEMMA LookupTable ==
  ASSUME NEW t \in Seq(TableEntry), NEW a
  PROVE  \/ tableGetOutLink(t, a) = -1 /\ a \notin KnownAddrs(t)
         \/ \E i \in DOMAIN t :
              t[i].dest_addr = a /\ t[i].linkOutNum = tableGetOutLink(t, a)
  BY IndexFound, LenProperties DEF tableGetOutLink

-----------------------------------------------------------------------------
(* The invariant *)

\* The inductive invariant, for the variables of one switch.
Good(w, q, t, c, i, p, o) ==
  /\ IsRing(q, packetBuffer)
  /\ t \in Seq(TableEntry)
  /\ DistinctAddrs(t)
  /\ \A k \in DOMAIN t : t[k].linkOutNum \in DOMAIN inLinks[w]
  /\ c \in {"store", "send", "corrupt", "dead"}
  /\ i \in Nat \ {0} /\ i <= Len(inLinks[w]) + 1
  /\ p \in packetBuffer
  /\ o \in Int /\ (o # -1 => o \in DOMAIN outLinks[w])
  /\ \A k \in 1 .. Len(Contents(q)) : Contents(q)[k].src_addr \in KnownAddrs(t)
  /\ c = "send" => p.src_addr \in KnownAddrs(t)

SwitchInv ==
  /\ pipe \in [Links -> Seq(Cell)]
  /\ SwitchTypeOK
  /\ \A w \in Switches :
       Good(w, queue[w], table[w], pc[w], idx[w], outPacket[w], outLink[w])

-----------------------------------------------------------------------------
\* The links of a switch.
LEMMA LinksOf ==
  ASSUME NEW w \in Switches
  PROVE  /\ inLinks[w] \in Seq(Links) /\ outLinks[w] \in Seq(Links)
         /\ Len(inLinks[w]) \in Nat
         /\ DOMAIN inLinks[w] = 1 .. Len(inLinks[w])
         /\ DOMAIN outLinks[w] = 1 .. Len(inLinks[w])
         /\ \A i \in 1 .. Len(inLinks[w]) :
              inLinks[w][i] \in Links /\ outLinks[w][i] \in Links
<1>1. /\ inLinks[w] \in Seq(Links) /\ outLinks[w] \in Seq(Links)
      /\ Len(inLinks[w]) = Len(outLinks[w])
  BY SwitchAssumption
<1> QED  BY <1>1, LenProperties, ElementOfSeq

\* The type of the memory nothing is stored in.
LEMMA UninitialisedType == Uninitialised \in packetBuffer
  BY DEF Uninitialised, packetBuffer, PayloadOrGarbage

\* If a step gives the variables of switch v good values and leaves those of
\* the other switches alone, all switches are good after it.
LEMMA OneSwitch ==
  ASSUME SwitchInv, NEW v \in Switches,
         NEW q, NEW t, NEW c, NEW i, NEW p, NEW o,
         Good(v, q, t, c, i, p, o),
         queue' = [queue EXCEPT ![v] = q],
         table' = [table EXCEPT ![v] = t],
         pc' = [pc EXCEPT ![v] = c],
         idx' = [idx EXCEPT ![v] = i],
         outPacket' = [outPacket EXCEPT ![v] = p],
         outLink' = [outLink EXCEPT ![v] = o]
  PROVE  /\ SwitchTypeOK'
         /\ \A w \in Switches :
              Good(w, queue'[w], table'[w], pc'[w], idx'[w], outPacket'[w], outLink'[w])
<1>1. SwitchTypeOK
  BY DEF SwitchInv
<1>2. SwitchTypeOK'
  BY <1>1 DEF SwitchTypeOK, Good, IsRing
<1>3. ASSUME NEW w \in Switches
      PROVE  Good(w, queue'[w], table'[w], pc'[w], idx'[w], outPacket'[w], outLink'[w])
  <2>1. CASE w = v
    BY <2>1, <1>1 DEF SwitchTypeOK
  <2>2. CASE w # v
    <3>1. /\ queue'[w] = queue[w] /\ table'[w] = table[w] /\ pc'[w] = pc[w]
          /\ idx'[w] = idx[w] /\ outPacket'[w] = outPacket[w]
          /\ outLink'[w] = outLink[w]
      BY <2>2, <1>1 DEF SwitchTypeOK
    <3> QED  BY <3>1 DEF SwitchInv
  <2> QED  BY <2>1, <2>2
<1> QED  BY <1>2, <1>3

\* A variable left alone is one that gets its own value at v.
LEMMA Unchanged ==
  ASSUME SwitchInv, NEW v \in Switches
  PROVE  /\ queue = [queue EXCEPT ![v] = queue[v]]
         /\ table = [table EXCEPT ![v] = table[v]]
         /\ pc = [pc EXCEPT ![v] = pc[v]]
         /\ idx = [idx EXCEPT ![v] = idx[v]]
         /\ outPacket = [outPacket EXCEPT ![v] = outPacket[v]]
         /\ outLink = [outLink EXCEPT ![v] = outLink[v]]
  BY DEF SwitchInv, SwitchTypeOK

-----------------------------------------------------------------------------
\* Switches that have just been initialised satisfy the invariant.
LEMMA InitSwitchInv ==
  ASSUME SwitchInit, pipe = [l \in Links |-> << >>]
  PROVE  SwitchInv
<1>1. IsRing(queueInit(Uninitialised), packetBuffer)
      /\ Contents(queueInit(Uninitialised)) = << >>
  BY InitRing, UninitialisedType
<1>2. pipe \in [Links -> Seq(Cell)]
  BY EmptySeq
<1>3. SwitchTypeOK
  BY <1>1, UninitialisedType DEF SwitchInit, SwitchTypeOK, IsRing, tableInit
<1>4. ASSUME NEW w \in Switches
      PROVE  Good(w, queue[w], table[w], pc[w], idx[w], outPacket[w], outLink[w])
  <2>1. /\ queue[w] = queueInit(Uninitialised) /\ table[w] = << >>
        /\ pc[w] = "store" /\ idx[w] = 1 /\ outPacket[w] = Uninitialised
        /\ outLink[w] = -1
    BY DEF SwitchInit, tableInit
  <2>2. << >> \in Seq(TableEntry) /\ DistinctAddrs(<< >>) /\ Len(<< >>) = 0
    BY EmptySeq DEF DistinctAddrs
  <2> QED  BY <1>1, <2>1, <2>2, LinksOf, UninitialisedType DEF Good
<1> QED  BY <1>2, <1>3, <1>4 DEF SwitchInv

-----------------------------------------------------------------------------
(* One lemma for every action. *)

\* A packet that has come in on link number i is stored and learned from.
LEMMA StoreGood ==
  ASSUME SwitchInv, NEW v \in Switches, Polling(v),
         NEW p \in packetBuffer, p.is_valid = 1
  PROVE  Good(v, queuePush(queue[v], p), Learn(table[v], p, idx[v]),
              pc[v], idx[v] + 1, outPacket[v], outLink[v])
<1> DEFINE q == queuePush(queue[v], p)
           t == Learn(table[v], p, idx[v])
<1>1. Good(v, queue[v], table[v], pc[v], idx[v], outPacket[v], outLink[v])
  BY DEF SwitchInv
<1>2. p.src_addr \in Int
  BY DEF packetBuffer
<1>3. /\ t \in Seq(TableEntry) /\ DistinctAddrs(t)
      /\ KnownAddrs(t) = KnownAddrs(table[v]) \cup {p.src_addr}
      /\ \A k \in DOMAIN t :
           t[k].linkOutNum = idx[v] \/ \E j \in DOMAIN table[v] : t[k] = table[v][j]
  <2>1. table[v] \in Seq(TableEntry) /\ DistinctAddrs(table[v]) /\ idx[v] \in Nat \ {0}
    BY <1>1 DEF Good
  <2>2. /\ t \in Seq(TableEntry) /\ DistinctAddrs(t)
        /\ KnownAddrs(t) = KnownAddrs(table[v]) \cup {p.src_addr}
        /\ \A k \in DOMAIN t :
             \/ t[k] = [valid |-> 1, dest_addr |-> p.src_addr, linkOutNum |-> idx[v]]
             \/ \E j \in DOMAIN table[v] : t[k] = table[v][j]
    BY <1>2, <2>1, UpdateTable DEF Learn
  <2> QED  BY <2>2
<1>4. idx[v] \in DOMAIN inLinks[v] /\ idx[v] + 1 <= Len(inLinks[v]) + 1
  BY <1>1, LinksOf DEF Good, Polling
<1>5. /\ IsRing(q, packetBuffer)
      /\ Contents(q) = Contents(queue[v]) \/ Contents(q) = Append(Contents(queue[v]), p)
      /\ Contents(queue[v]) \in Seq(packetBuffer)
  BY <1>1, PushRing, ContentsSeq DEF Good
<1> HIDE DEF q, t
<1>6. ASSUME NEW k \in 1 .. Len(Contents(q))
      PROVE  Contents(q)[k].src_addr \in KnownAddrs(t)
  <2>1. CASE Contents(q) = Contents(queue[v])
    BY <1>1, <1>3, <2>1 DEF Good
  <2>2. CASE Contents(q) = Append(Contents(queue[v]), p)
    <3>1. /\ Len(Contents(q)) = Len(Contents(queue[v])) + 1
          /\ Len(Contents(queue[v])) \in Nat
          /\ \A j \in 1 .. Len(Contents(queue[v])) : Contents(q)[j] = Contents(queue[v])[j]
          /\ Contents(q)[Len(Contents(queue[v])) + 1] = p
      BY <1>5, <2>2, AppendProperties, LenProperties
    <3>2. CASE k \in 1 .. Len(Contents(queue[v]))
      BY <1>1, <1>3, <3>1, <3>2 DEF Good
    <3>3. CASE k = Len(Contents(queue[v])) + 1
      BY <1>3, <3>1, <3>3
    <3> QED  BY <3>1, <3>2, <3>3
  <2> QED  BY <1>5, <2>1, <2>2
<1>7. Good(v, q, t, pc[v], idx[v] + 1, outPacket[v], outLink[v])
  <2>1. \A k \in DOMAIN t : t[k].linkOutNum \in DOMAIN inLinks[v]
    BY <1>1, <1>3, <1>4 DEF Good
  <2>2. pc[v] = "send" => outPacket[v].src_addr \in KnownAddrs(t)
    BY <1>1, <1>3 DEF Good
  <2>3. idx[v] + 1 \in Nat \ {0}
    BY <1>1 DEF Good
  <2> QED  BY <1>1, <1>3, <1>4, <1>5, <1>6, <2>1, <2>2, <2>3 DEF Good
<1> QED  BY <1>7 DEF q, t

\* Reading a link either stops a switch or stores a packet whose source is in
\* the table.
LEMMA ReceiveInv ==
  ASSUME SwitchInv, NEW v \in Switches, SwitchReceive(v)
  PROVE  SwitchInv'
<1> DEFINE l == inLinks[v][idx[v]]
           p == linkReceive(pipe[l])
<1>1. Good(v, queue[v], table[v], pc[v], idx[v], outPacket[v], outLink[v])
  BY DEF SwitchInv
<1>2. /\ Polling(v) /\ pipe[l] # << >>
      /\ SwitchStore(v, p) \/ SwitchCorrupt(v)
      /\ pipe' = [pipe EXCEPT ![l] = Unread(pipe[l])]
      /\ outPacket' = outPacket /\ outLink' = outLink
  BY DEF SwitchReceive
<1>3. l \in Links
  BY <1>1, <1>2, LinksOf DEF Good, Polling
<1>4. pipe \in [Links -> Seq(Cell)] /\ pipe[l] \in Seq(Cell)
  BY <1>3 DEF SwitchInv
<1>5. pipe' \in [Links -> Seq(Cell)]
  BY <1>2, <1>3, <1>4, ReadType
<1>6. p \in packetBuffer /\ p.is_valid = 1
  BY <1>2, <1>4, ReceiveType
<1> HIDE DEF l, p
<1>7. CASE SwitchCorrupt(v)
  <2>1. pc' = [pc EXCEPT ![v] = "corrupt"]
    BY <1>7 DEF SwitchCorrupt
  <2>2. Good(v, queue[v], table[v], "corrupt", idx[v], outPacket[v], outLink[v])
    BY <1>1 DEF Good
  <2>3. /\ queue' = [queue EXCEPT ![v] = queue[v]]
        /\ table' = [table EXCEPT ![v] = table[v]]
        /\ idx' = [idx EXCEPT ![v] = idx[v]]
        /\ outPacket' = [outPacket EXCEPT ![v] = outPacket[v]]
        /\ outLink' = [outLink EXCEPT ![v] = outLink[v]]
    BY <1>2, <1>7, Unchanged DEF SwitchCorrupt
  <2>4. /\ SwitchTypeOK'
        /\ \A w \in Switches :
             Good(w, queue'[w], table'[w], pc'[w], idx'[w], outPacket'[w], outLink'[w])
    BY <2>1, <2>2, <2>3, OneSwitch
  <2> QED  BY <1>5, <2>4 DEF SwitchInv
<1>8. CASE ~SwitchCorrupt(v)
  <2>1. /\ queue' = [queue EXCEPT ![v] = queuePush(queue[v], p)]
        /\ table' = [table EXCEPT ![v] = Learn(table[v], p, idx[v])]
        /\ idx' = [idx EXCEPT ![v] = idx[v] + 1]
        /\ pc' = pc
    BY <1>2, <1>8 DEF SwitchStore
  <2>2. Good(v, queuePush(queue[v], p), Learn(table[v], p, idx[v]),
             pc[v], idx[v] + 1, outPacket[v], outLink[v])
    BY <1>2, <1>6, StoreGood
  <2>3. /\ pc' = [pc EXCEPT ![v] = pc[v]]
        /\ outPacket' = [outPacket EXCEPT ![v] = outPacket[v]]
        /\ outLink' = [outLink EXCEPT ![v] = outLink[v]]
    BY <1>2, <2>1, Unchanged
  <2>4. /\ SwitchTypeOK'
        /\ \A w \in Switches :
             Good(w, queue'[w], table'[w], pc'[w], idx'[w], outPacket'[w], outLink'[w])
    BY <2>1, <2>2, <2>3, OneSwitch
  <2> QED  BY <1>5, <2>4 DEF SwitchInv
<1> QED  BY <1>7, <1>8

\* An empty read moves the index on.
LEMMA ReceiveNothingInv ==
  ASSUME SwitchInv, NEW v \in Switches, SwitchReceiveNothing(v)
  PROVE  SwitchInv'
<1>1. Good(v, queue[v], table[v], pc[v], idx[v], outPacket[v], outLink[v])
  BY DEF SwitchInv
<1>2. Polling(v) /\ idx' = [idx EXCEPT ![v] = idx[v] + 1] /\ pipe' = pipe
  BY DEF SwitchReceiveNothing
<1>3. Good(v, queue[v], table[v], pc[v], idx[v] + 1, outPacket[v], outLink[v])
  BY <1>1, <1>2, LinksOf DEF Good, Polling
<1>4. /\ queue' = [queue EXCEPT ![v] = queue[v]]
      /\ table' = [table EXCEPT ![v] = table[v]]
      /\ pc' = [pc EXCEPT ![v] = pc[v]]
      /\ outPacket' = [outPacket EXCEPT ![v] = outPacket[v]]
      /\ outLink' = [outLink EXCEPT ![v] = outLink[v]]
  BY Unchanged DEF SwitchReceiveNothing
<1>5. /\ SwitchTypeOK'
      /\ \A w \in Switches :
           Good(w, queue'[w], table'[w], pc'[w], idx'[w], outPacket'[w], outLink'[w])
  BY <1>2, <1>3, <1>4, OneSwitch
<1> QED  BY <1>2, <1>5 DEF SwitchInv

\* Sleeping sets the index back.
LEMMA IdleInv ==
  ASSUME SwitchInv, NEW v \in Switches, SwitchIdle(v)
  PROVE  SwitchInv'
<1>1. Good(v, queue[v], table[v], pc[v], idx[v], outPacket[v], outLink[v])
  BY DEF SwitchInv
<1>2. idx' = [idx EXCEPT ![v] = 1] /\ pipe' = pipe
  BY DEF SwitchIdle
<1>3. Good(v, queue[v], table[v], pc[v], 1, outPacket[v], outLink[v])
  BY <1>1, LinksOf DEF Good
<1>4. /\ queue' = [queue EXCEPT ![v] = queue[v]]
      /\ table' = [table EXCEPT ![v] = table[v]]
      /\ pc' = [pc EXCEPT ![v] = pc[v]]
      /\ outPacket' = [outPacket EXCEPT ![v] = outPacket[v]]
      /\ outLink' = [outLink EXCEPT ![v] = outLink[v]]
  BY Unchanged DEF SwitchIdle
<1>5. /\ SwitchTypeOK'
      /\ \A w \in Switches :
           Good(w, queue'[w], table'[w], pc'[w], idx'[w], outPacket'[w], outLink'[w])
  BY <1>2, <1>3, <1>4, OneSwitch
<1> QED  BY <1>2, <1>5 DEF SwitchInv

\* The packet taken is one of the queue, so its source is known, and the link
\* looked up for it is one of the switch.
LEMMA NextPacketInv ==
  ASSUME SwitchInv, NEW v \in Switches, SwitchNextPacket(v)
  PROVE  SwitchInv'
<1> DEFINE p == queueHead(queue[v])
           q == queuePop(queue[v])
           o == tableGetOutLink(table[v], p.dest_addr)
           c == IF p.src_addr # -1 THEN "send" ELSE "store"
<1>1. Good(v, queue[v], table[v], pc[v], idx[v], outPacket[v], outLink[v])
  BY DEF SwitchInv
<1>2. /\ queue[v].size # 0 /\ pipe' = pipe
      /\ queue' = [queue EXCEPT ![v] = q]
      /\ outPacket' = [outPacket EXCEPT ![v] = p]
      /\ outLink' = [outLink EXCEPT ![v] = o]
      /\ pc' = [pc EXCEPT ![v] = c]
      /\ idx' = [idx EXCEPT ![v] = 1]
  BY DEF SwitchNextPacket, queueIsEmpty
<1>3. /\ IsRing(q, packetBuffer) /\ p \in packetBuffer
      /\ Contents(queue[v]) # << >>
      /\ p = Head(Contents(queue[v]))
      /\ Contents(q) = Tail(Contents(queue[v]))
      /\ Contents(queue[v]) \in Seq(packetBuffer)
  BY <1>1, <1>2, PopRing, ContentsSeq DEF Good
<1>4. o \in Int /\ (o # -1 => o \in DOMAIN outLinks[v])
  <2>1. /\ table[v] \in Seq(TableEntry)
        /\ \A k \in DOMAIN table[v] : table[v][k].linkOutNum \in DOMAIN inLinks[v]
    BY <1>1 DEF Good
  <2>2. o = -1 \/ o \in DOMAIN inLinks[v]
    BY <2>1, LookupTable
  <2> QED  BY <2>2, LinksOf
<1>5. c \in {"store", "send", "corrupt"}
  OBVIOUS
<1> HIDE DEF q, o, c
<1>6. \A k \in 1 .. Len(Contents(queue[v])) :
        Contents(queue[v])[k].src_addr \in KnownAddrs(table[v])
  BY <1>1 DEF Good
<1>7. p.src_addr \in KnownAddrs(table[v])
  <2>1. 1 \in 1 .. Len(Contents(queue[v])) /\ p = Contents(queue[v])[1]
    BY <1>3, HeadTailProperties, EmptySeq, LenProperties
  <2> QED  BY <1>6, <2>1
<1> HIDE DEF p
<1>8. \A k \in 1 .. Len(Contents(q)) : Contents(q)[k].src_addr \in KnownAddrs(table[v])
  <2>1. /\ Len(Contents(q)) = Len(Contents(queue[v])) - 1
        /\ Len(Contents(queue[v])) \in Nat
        /\ \A k \in 1 .. Len(Contents(q)) : Contents(q)[k] = Contents(queue[v])[k + 1]
    BY <1>3, HeadTailProperties, LenProperties
  <2> QED  BY <1>6, <2>1
<1>9. Good(v, q, table[v], c, 1, p, o)
  <2>1. /\ table[v] \in Seq(TableEntry) /\ DistinctAddrs(table[v])
        /\ \A k \in DOMAIN table[v] : table[v][k].linkOutNum \in DOMAIN inLinks[v]
    BY <1>1 DEF Good
  <2>2. 1 \in Nat \ {0} /\ 1 <= Len(inLinks[v]) + 1
    BY LinksOf
  <2> QED  BY <1>3, <1>4, <1>5, <1>7, <1>8, <2>1, <2>2 DEF Good
<1>10. table' = [table EXCEPT ![v] = table[v]]
  BY Unchanged DEF SwitchNextPacket
<1>11. /\ SwitchTypeOK'
       /\ \A w \in Switches :
            Good(w, queue'[w], table'[w], pc'[w], idx'[w], outPacket'[w], outLink'[w])
  BY <1>2, <1>9, <1>10, OneSwitch
<1> QED  BY <1>2, <1>11 DEF SwitchInv

\* Sending on a link of the switch writes cells to it.
LEMMA TransmitType ==
  ASSUME SwitchInv, NEW v \in Switches, NEW i \in DOMAIN outLinks[v], Transmit(v, i)
  PROVE  pipe' \in [Links -> Seq(Cell)]
<1> DEFINE l == outLinks[v][i]
<1>1. l \in Links
  BY LinksOf
<1>2. outPacket[v] \in packetBuffer /\ pipe \in [Links -> Seq(Cell)]
  BY DEF SwitchInv, SwitchTypeOK
<1>3. linkSend(pipe[l], outPacket[v]) \in Seq(Cell)
  BY <1>1, <1>2, SendType
<1>4. pipe' = [pipe EXCEPT ![l] = linkSend(pipe[l], outPacket[v])]
  BY DEF Transmit
<1> QED  BY <1>1, <1>2, <1>3, <1>4

\* Sending on the link that was looked up ends the pass.
LEMMA UnicastInv ==
  ASSUME SwitchInv, NEW v \in Switches, SwitchUnicast(v)
  PROVE  SwitchInv'
<1>1. Good(v, queue[v], table[v], pc[v], idx[v], outPacket[v], outLink[v])
  BY DEF SwitchInv
<1>2. pipe' \in [Links -> Seq(Cell)]
  BY <1>1, TransmitType DEF SwitchUnicast, Good
<1>3. Good(v, queue[v], table[v], "store", idx[v], outPacket[v], outLink[v])
  BY <1>1 DEF Good
<1>4. /\ queue' = [queue EXCEPT ![v] = queue[v]]
      /\ table' = [table EXCEPT ![v] = table[v]]
      /\ pc' = [pc EXCEPT ![v] = "store"]
      /\ idx' = [idx EXCEPT ![v] = idx[v]]
      /\ outPacket' = [outPacket EXCEPT ![v] = outPacket[v]]
      /\ outLink' = [outLink EXCEPT ![v] = outLink[v]]
  BY Unchanged DEF SwitchUnicast
<1>5. /\ SwitchTypeOK'
      /\ \A w \in Switches :
           Good(w, queue'[w], table'[w], pc'[w], idx'[w], outPacket'[w], outLink'[w])
  BY <1>3, <1>4, OneSwitch
<1> QED  BY <1>2, <1>5 DEF SwitchInv

\* A round of the loop over all links sends on one of them, or on none.
LEMMA FloodInv ==
  ASSUME SwitchInv, NEW v \in Switches, SwitchFlood(v)
  PROVE  SwitchInv'
<1>1. Good(v, queue[v], table[v], pc[v], idx[v], outPacket[v], outLink[v])
  BY DEF SwitchInv
<1>2. /\ idx[v] \in Nat \ {0} /\ idx[v] <= Len(outLinks[v])
      /\ idx[v] \in DOMAIN outLinks[v] /\ Len(outLinks[v]) = Len(inLinks[v])
  BY <1>1, LinksOf, LenProperties, SwitchAssumption DEF SwitchFlood, Good
<1>3. pipe' \in [Links -> Seq(Cell)]
  <2>1. CASE idx[v] # srcLink(v)
    BY <1>2, <2>1, TransmitType DEF SwitchFlood
  <2>2. CASE idx[v] = srcLink(v)
    BY <2>2 DEF SwitchFlood, SwitchInv
  <2> QED  BY <2>1, <2>2
<1>4. Good(v, queue[v], table[v], pc[v], idx[v] + 1, outPacket[v], outLink[v])
  BY <1>1, <1>2, LinksOf DEF Good
<1>5. /\ queue' = [queue EXCEPT ![v] = queue[v]]
      /\ table' = [table EXCEPT ![v] = table[v]]
      /\ pc' = [pc EXCEPT ![v] = pc[v]]
      /\ idx' = [idx EXCEPT ![v] = idx[v] + 1]
      /\ outPacket' = [outPacket EXCEPT ![v] = outPacket[v]]
      /\ outLink' = [outLink EXCEPT ![v] = outLink[v]]
  BY Unchanged DEF SwitchFlood
<1>6. /\ SwitchTypeOK'
      /\ \A w \in Switches :
           Good(w, queue'[w], table'[w], pc'[w], idx'[w], outPacket'[w], outLink'[w])
  BY <1>4, <1>5, OneSwitch
<1> QED  BY <1>3, <1>6 DEF SwitchInv

\* The loop over all links ends.
LEMMA FloodEndInv ==
  ASSUME SwitchInv, NEW v \in Switches, SwitchFloodEnd(v)
  PROVE  SwitchInv'
<1>1. Good(v, queue[v], table[v], pc[v], idx[v], outPacket[v], outLink[v])
  BY DEF SwitchInv
<1>2. Good(v, queue[v], table[v], "store", 1, outPacket[v], outLink[v])
  BY <1>1, LinksOf DEF Good
<1>3. /\ queue' = [queue EXCEPT ![v] = queue[v]]
      /\ table' = [table EXCEPT ![v] = table[v]]
      /\ pc' = [pc EXCEPT ![v] = "store"]
      /\ idx' = [idx EXCEPT ![v] = 1]
      /\ outPacket' = [outPacket EXCEPT ![v] = outPacket[v]]
      /\ outLink' = [outLink EXCEPT ![v] = outLink[v]]
  BY Unchanged DEF SwitchFloodEnd
<1>4. /\ SwitchTypeOK'
      /\ \A w \in Switches :
           Good(w, queue'[w], table'[w], pc'[w], idx'[w], outPacket'[w], outLink'[w])
  BY <1>2, <1>3, OneSwitch
<1> QED  BY <1>4 DEF SwitchInv, SwitchFloodEnd

\* Every step of a switch keeps the invariant.
LEMMA SwitchStepInv ==
  ASSUME SwitchInv, NEW v \in Switches, SwitchStep(v)
  PROVE  SwitchInv'
  BY ReceiveInv, ReceiveNothingInv, IdleInv, NextPacketInv, UnicastInv,
     FloodInv, FloodEndInv DEF SwitchStep

-----------------------------------------------------------------------------
(* The queues implement bounded first-in first-out buffers. *)

\* The mapping: what each ring stands for.
fifoOf == [w \in Switches |-> Contents(queue[w])]

\* A step of switch v that changes its queue to q changes that buffer only.
LEMMA OneFifo ==
  ASSUME SwitchInv, NEW v \in Switches, NEW q, queue' = [queue EXCEPT ![v] = q]
  PROVE  fifoOf' = [fifoOf EXCEPT ![v] = Contents(q)]
<1>1. ASSUME NEW w \in Switches
      PROVE  fifoOf'[w] = [fifoOf EXCEPT ![v] = Contents(q)][w]
  BY DEF fifoOf, SwitchInv, SwitchTypeOK
<1> QED  BY <1>1 DEF fifoOf

\* Storing a packet puts it in the buffer, or drops it if the buffer is full.
LEMMA ReceiveFifo ==
  ASSUME SwitchInv, NEW v \in Switches, SwitchReceive(v)
  PROVE  Fifo!Put(v) \/ UNCHANGED << fifoOf, outPacket >>
<1> DEFINE p == linkReceive(pipe[inLinks[v][idx[v]]])
           q == queuePush(queue[v], p)
<1>1. IsRing(queue[v], packetBuffer)
  BY DEF SwitchInv, Good
<1>2. p \in packetBuffer
  <2>1. inLinks[v][idx[v]] \in Links
    <3>1. Good(v, queue[v], table[v], pc[v], idx[v], outPacket[v], outLink[v])
      BY DEF SwitchInv
    <3> QED  BY <3>1, LinksOf DEF Good, SwitchReceive, Polling
  <2> QED  BY <2>1, ReceiveType DEF SwitchInv
<1>3. (SwitchStore(v, p) \/ SwitchCorrupt(v)) /\ outPacket' = outPacket
  BY DEF SwitchReceive
<1> HIDE DEF p
<1>4. CASE queue' = queue
  BY <1>3, <1>4 DEF fifoOf
<1>5. CASE queue' = [queue EXCEPT ![v] = q]
  <2>1. fifoOf' = [fifoOf EXCEPT ![v] = Contents(q)]
    BY <1>5, OneFifo
  <2>2. fifoOf[v] = Contents(queue[v])
    BY DEF fifoOf
  <2>3. fifoOf[v] \in Seq(packetBuffer) /\ Len(fifoOf[v]) = queue[v].size
    BY <1>1, <2>2, ContentsSeq
  <2>4. queue[v].size \in 0 .. MAXQUEUE
    BY <1>1 DEF IsRing, PacketQueueType
  <2>5. CASE queue[v].size = MAXQUEUE
    <3>1. Contents(q) = Contents(queue[v])
      BY <1>1, <1>2, <2>5, PushRing
    <3>2. [fifoOf EXCEPT ![v] = fifoOf[v]] = fifoOf
      BY DEF fifoOf
    <3> QED  BY <1>3, <2>1, <2>2, <3>1, <3>2
  <2>6. CASE queue[v].size # MAXQUEUE
    <3>1. Contents(q) = Append(fifoOf[v], p)
      BY <1>1, <1>2, <2>2, <2>6, PushRing
    <3>2. fifoOf' = [fifoOf EXCEPT ![v] = Append(fifoOf[v], p)]
      BY <2>1, <3>1
    <3>3. fifoOf'[v] = Append(fifoOf[v], p)
      BY <3>2 DEF fifoOf
    <3>4. /\ Len(fifoOf'[v]) = Len(fifoOf[v]) + 1
          /\ fifoOf'[v][Len(fifoOf[v]) + 1] = p
      BY <1>2, <2>3, <3>3, AppendProperties
    <3>5. Len(fifoOf[v]) < MAXQUEUE
      BY <2>3, <2>4, <2>6, QueueAssumption
    <3> QED  BY <1>2, <1>3, <3>2, <3>4, <3>5 DEF Fifo!Put, fifoOf
  <2> QED  BY <2>5, <2>6
<1> QED  BY <1>3, <1>4, <1>5 DEF SwitchStore, SwitchCorrupt

\* Taking the next packet takes the oldest of the buffer.
LEMMA NextPacketFifo ==
  ASSUME SwitchInv, NEW v \in Switches, SwitchNextPacket(v)
  PROVE  Fifo!Take(v)
<1> DEFINE p == queueHead(queue[v])
           q == queuePop(queue[v])
<1>1. IsRing(queue[v], packetBuffer)
  BY DEF SwitchInv, Good
<1>2. /\ queue[v].size # 0
      /\ queue' = [queue EXCEPT ![v] = q]
      /\ outPacket' = [outPacket EXCEPT ![v] = p]
  BY DEF SwitchNextPacket, queueIsEmpty
<1>3. fifoOf[v] = Contents(queue[v])
  BY DEF fifoOf
<1>4. fifoOf[v] # << >> /\ p = Head(fifoOf[v]) /\ Contents(q) = Tail(fifoOf[v])
  BY <1>1, <1>2, <1>3, PopRing
<1> HIDE DEF p, q
<1>5. fifoOf' = [fifoOf EXCEPT ![v] = Tail(fifoOf[v])]
  BY <1>2, <1>4, OneFifo
<1>6. outPacket' = [outPacket EXCEPT ![v] = Head(fifoOf[v])]
  BY <1>2, <1>4
<1> QED  BY <1>4, <1>5, <1>6 DEF Fifo!Take, fifoOf

\* Initially the buffers are empty.
LEMMA InitFifo == SwitchInit => Fifo!FifoInit
<1> SUFFICES ASSUME SwitchInit  PROVE Fifo!FifoInit
  OBVIOUS
<1>1. \A w \in Switches : Contents(queue[w]) = << >>
  BY InitRing, UninitialisedType DEF SwitchInit
<1>2. outPacket \in [Switches -> packetBuffer]
  BY UninitialisedType DEF SwitchInit
<1> QED  BY <1>1, <1>2 DEF Fifo!FifoInit

\* A step of a switch is one of its buffer, or none.
LEMMA SwitchStepFifo ==
  ASSUME SwitchInv, NEW v \in Switches, SwitchStep(v)
  PROVE  [Fifo!FifoNext]_(Fifo!fifoVars)
<1>1. CASE SwitchReceive(v)
  BY <1>1, ReceiveFifo DEF Fifo!FifoNext, Fifo!fifoVars, fifoOf
<1>2. CASE SwitchNextPacket(v)
  BY <1>2, NextPacketFifo DEF Fifo!FifoNext
<1>3. CASE SwitchReceiveNothing(v) \/ SwitchIdle(v) \/ SwitchUnicast(v)
             \/ SwitchFlood(v) \/ SwitchFloodEnd(v)
  <2>1. queue' = queue /\ outPacket' = outPacket
    BY <1>3 DEF SwitchReceiveNothing, SwitchIdle, SwitchUnicast, SwitchFlood,
                SwitchFloodEnd
  <2> QED  BY <2>1 DEF Fifo!fifoVars
<1> QED  BY <1>1, <1>2, <1>3 DEF SwitchStep
=============================================================================
