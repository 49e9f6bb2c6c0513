--------------------------- MODULE SwitchNet_proof ---------------------------
(***************************************************************************)
(* Proofs about SwitchNet for every topology, every bound and any packets. *)
(***************************************************************************)
EXTENDS SwitchNet, Switch_proof

Inv == SwitchInv /\ sent \in [HostOut -> Seq(packetBuffer)]

\* The initial states satisfy the invariant.
LEMMA InitInv == Init => Inv
  BY InitSwitchInv, EmptySeq DEF Init, Inv

\* What a host sends is a packet, and cells on its link.
LEMMA TransmitInv ==
  ASSUME Inv, NEW h \in HostOut, hostTransmitPacket(h)
  PROVE  Inv'
<1>1. PICK src \in SrcAddrs[h], dest \in DestAddrs, len \in 1 .. PAYLOAD_LENGTH :
        LET p == [src_addr |-> src, dest_addr |-> dest, length |-> len,
                  payload |-> [from |-> h, seq |-> Len(sent[h]) + 1],
                  is_valid |-> 1]
        IN  /\ sent' = [sent EXCEPT ![h] = Append(@, p)]
            /\ pipe' = [pipe EXCEPT ![h] = linkSend(@, p)]
  BY DEF hostTransmitPacket
<1> DEFINE p == [src_addr |-> src, dest_addr |-> dest, length |-> len,
                 payload |-> [from |-> h, seq |-> Len(sent[h]) + 1],
                 is_valid |-> 1]
<1>2. /\ pipe \in [Links -> Seq(Cell)] /\ sent \in [HostOut -> Seq(packetBuffer)]
      /\ h \in Links
  BY NetAssumption DEF Inv, SwitchInv
<1>3. p.payload \in Payload
  <2>1. Len(sent[h]) + 1 \in 1 .. MaxSend[h]
    BY <1>2, LenProperties, NetAssumption DEF hostTransmitPacket
  <2>2. p.payload \in [from : {h}, seq : 1 .. MaxSend[h]]
    BY <2>1
  <2> QED  BY <2>2, NetAssumption DEF Tag
<1>4. p \in packetBuffer
  <2>1. src \in Int /\ dest \in Int /\ len \in Int
    BY NetAssumption, LinkAssumption
  <2> QED  BY <1>3, <2>1 DEF packetBuffer, PayloadOrGarbage
<1>5. sent' \in [HostOut -> Seq(packetBuffer)]
  <2> HIDE DEF p
  <2>1. Append(sent[h], p) \in Seq(packetBuffer)
    BY <1>2, <1>4, AppendProperties
  <2>2. sent' = [sent EXCEPT ![h] = Append(sent[h], p)]
    BY <1>1 DEF p
  <2> QED  BY <1>2, <2>1, <2>2
<1>6. pipe' \in [Links -> Seq(Cell)]
  <2> HIDE DEF p
  <2>1. linkSend(pipe[h], p) \in Seq(Cell)
    BY <1>2, <1>4, SendType
  <2>2. pipe' = [pipe EXCEPT ![h] = linkSend(pipe[h], p)]
    BY <1>1 DEF p
  <2> QED  BY <1>2, <2>1, <2>2
<1>7. UNCHANGED switchVars
  BY DEF hostTransmitPacket
<1> QED  BY <1>5, <1>6, <1>7 DEF Inv, SwitchInv, SwitchTypeOK, switchVars

\* Every step of a host or a switch, and every stutter, keeps the invariant.
LEMMA NextInv ==
  ASSUME Inv, [Next]_vars
  PROVE  Inv'
<1>1. CASE UNCHANGED vars
  BY <1>1 DEF vars, switchVars, Inv, SwitchInv, SwitchTypeOK
<1>2. CASE \E h \in HostOut : hostTransmitPacket(h)
  BY <1>2, TransmitInv
<1>3. ASSUME NEW v \in Switches, SwitchStep(v), UNCHANGED sent
      PROVE  Inv'
  BY <1>3, SwitchStepInv DEF Inv
<1> QED  BY <1>1, <1>2, <1>3 DEF Next

\* The invariant holds in every reachable state.
LEMMA InvAlways == Spec => []Inv
  BY InitInv, NextInv, PTL DEF Spec

\* switch.h, main.h: every variable keeps its type, the rings' indices their
\* range, whatever is read from the pipes.
THEOREM TypeCorrect == Spec => []TypeOK
<1>1. Inv => TypeOK
  BY DEF Inv, SwitchInv, TypeOK
<1> QED  BY <1>1, InvAlways, PTL

\* switch.c:97, 140: a switch that sends a packet on all links always knows
\* which link to leave out.
THEOREM SourceIsKnown == Spec => []SourceKnown
<1>1. Inv => SourceKnown
  BY DEF Inv, SwitchInv, Good, SourceKnown
<1> QED  BY <1>1, InvAlways, PTL

\* switch.c:226-247: no sequence of updates enters an address twice.
THEOREM OneEntryPerAddress == Spec => []TableDistinct
<1>1. Inv => TableDistinct
  BY DEF Inv, SwitchInv, Good, DistinctAddrs, TableDistinct
<1> QED  BY <1>1, InvAlways, PTL

\* switch.c:135, 148: no link is used that the switch does not have, although
\* indices of incoming links are used for outgoing ones.
THEOREM LinksExist == Spec => []IndexInRange
<1>1. Inv => IndexInRange
  BY LinksOf DEF Inv, SwitchInv, Good, IndexInRange
<1> QED  BY <1>1, InvAlways, PTL

\* switch.c:160-201: whatever is read from the pipes, the ring of each switch
\* is a first-in first-out buffer of at most MAXQUEUE packets.
THEOREM QueuesImplementFifos == Spec => QueuesAreFifos
<1>1. Init => Fifo!FifoInit
  BY InitFifo DEF Init
<1>2. Inv /\ [Next]_vars => [Fifo!FifoNext]_(Fifo!fifoVars)
  <2> SUFFICES ASSUME Inv, [Next]_vars  PROVE [Fifo!FifoNext]_(Fifo!fifoVars)
    OBVIOUS
  <2>1. CASE UNCHANGED vars \/ \E h \in HostOut : hostTransmitPacket(h)
    <3>1. queue' = queue /\ outPacket' = outPacket
      BY <2>1 DEF vars, switchVars, hostTransmitPacket
    <3> QED  BY <3>1 DEF Fifo!fifoVars
  <2>2. ASSUME NEW v \in Switches, SwitchStep(v)
        PROVE  [Fifo!FifoNext]_(Fifo!fifoVars)
    BY <2>2, SwitchStepFifo DEF Inv
  <2> QED  BY <2>1, <2>2 DEF Next
<1> QED  BY <1>1, <1>2, InvAlways, PTL DEF Spec, QueuesAreFifos, Fifo!FifoSpec
-----------------------------------------------------------------------------
(* Reads that find whole packets *)

\* No read of a switch fills its buffer: all that waits is less than it can take.
WholeReads ==
  \A w \in Switches : \A i \in DOMAIN inLinks[w] : Len(pipe[inLinks[w][i]]) < ReadMax

\* The packets the host on link h sends, and those of all hosts.
Of(h) == { p \in WholePacket : p.src_addr \in SrcAddrs[h] }
Addrs == UNION { SrcAddrs[h] : h \in HostOut }
Proper == { p \in WholePacket : p.src_addr \in Addrs }

\* What is found in a pipe begins with such a packet.
WholePipes ==
  /\ \A l \in Links : BeginsWith(Proper, pipe[l])
  /\ \A h \in HostOut : BeginsWith(Of(h), pipe[h])

\* The link o is what a lookup of the address a in the table t gives.
LookedUp(t, a, o) ==
  \/ o = -1 /\ a \notin KnownAddrs(t)
  \/ \E i \in DOMAIN t : t[i].dest_addr = a /\ t[i].linkOutNum = o

\* No table entry of a host's port is for an address that is not the host's.
PortsTruthful(w, t) ==
  \A i \in DOMAIN t :
    LET h == inLinks[w][t[i].linkOutNum]
    IN  h \in HostOut => t[i].dest_addr \in SrcAddrs[h]

\* The inductive invariant for the variables of one switch.
WholeSwitch(w, q, t, c, p, o) ==
  /\ PortsTruthful(w, t)
  /\ KnownAddrs(t) \subseteq Addrs
  /\ \A k \in 1 .. Len(Contents(q)) : Contents(q)[k] \in Proper
  /\ c = "send" => p \in Proper /\ LookedUp(t, p.dest_addr, o)

Whole ==
  /\ WholePipes
  /\ \A w \in Switches :
       WholeSwitch(w, queue[w], table[w], pc[w], outPacket[w], outLink[w])

-----------------------------------------------------------------------------
\* Hosts' packets are among those of all.
LEMMA ProperPackets ==
  /\ Proper \subseteq WholePacket
  /\ \A h \in HostOut : Of(h) \subseteq Proper /\ Of(h) \subseteq WholePacket
  BY DEF Proper, Of, Addrs

\* Initially there is nothing anywhere.
LEMMA InitWhole == Init => Whole
<1> SUFFICES ASSUME Init  PROVE Whole
  OBVIOUS
<1>1. WholePipes
  BY NetAssumption DEF Init, WholePipes, BeginsWith
<1>2. ASSUME NEW w \in Switches
      PROVE  WholeSwitch(w, queue[w], table[w], pc[w], outPacket[w], outLink[w])
  <2>1. /\ queue[w] = queueInit(Uninitialised) /\ table[w] = << >> /\ pc[w] = "store"
    BY DEF Init, SwitchInit, tableInit
  <2>2. Contents(queue[w]) = << >>
    BY <2>1, InitRing, UninitialisedType
  <2>3. Len(Contents(queue[w])) = 0 /\ KnownAddrs(table[w]) = {}
    BY <2>1, <2>2 DEF KnownAddrs
  <2> QED  BY <2>1, <2>3 DEF WholeSwitch, PortsTruthful
<1> QED  BY <1>1, <1>2 DEF Whole

\* What a host sends is a packet of its own.
LEMMA TransmitWhole ==
  ASSUME Inv, Whole, NEW h \in HostOut, hostTransmitPacket(h)
  PROVE  Whole'
<1>1. PICK src \in SrcAddrs[h], dest \in DestAddrs, len \in 1 .. PAYLOAD_LENGTH :
        pipe' = [pipe EXCEPT ![h] =
          linkSend(@, [src_addr |-> src, dest_addr |-> dest, length |-> len,
                       payload |-> [from |-> h, seq |-> Len(sent[h]) + 1],
                       is_valid |-> 1])]
  BY DEF hostTransmitPacket
<1> DEFINE tag == [from |-> h, seq |-> Len(sent[h]) + 1]
           p == [src_addr |-> src, dest_addr |-> dest, length |-> len,
                 payload |-> tag, is_valid |-> 1]
<1>2. pipe \in [Links -> Seq(Cell)] /\ h \in Links /\ sent \in [HostOut -> Seq(packetBuffer)]
  BY NetAssumption DEF Inv, SwitchInv
<1>3. tag \in Payload
  <2>1. Len(sent[h]) + 1 \in 1 .. MaxSend[h]
    BY <1>2, LenProperties, NetAssumption DEF hostTransmitPacket
  <2>2. tag \in [from : {h}, seq : 1 .. MaxSend[h]]
    BY <2>1
  <2> QED  BY <2>2, NetAssumption DEF Tag
<1> HIDE DEF tag
<1>4. p \in Of(h)
  <2>1. src \in Nat /\ dest \in Nat /\ len \in Int /\ len > 0 /\ len <= PAYLOAD_LENGTH
    BY NetAssumption, LinkAssumption
  <2> QED  BY <1>3, <2>1 DEF Of, WholePacket, Sendable, packetBuffer, PayloadOrGarbage
<1> HIDE DEF p
<1>5. pipe' = [pipe EXCEPT ![h] = linkSend(pipe[h], p)]
  BY <1>1 DEF p, tag
<1>6. /\ BeginsWith(Of(h), linkSend(pipe[h], p))
      /\ BeginsWith(Proper, linkSend(pipe[h], p))
  <2>1. /\ BeginsWith(Of(h), pipe[h]) /\ BeginsWith(Proper, pipe[h])
        /\ pipe[h] \in Seq(Cell) /\ p \in Proper
    BY <1>2, <1>4, ProperPackets DEF Whole, WholePipes
  <2> QED  BY <1>4, <2>1, ProperPackets, SendBegins
<1>7. WholePipes'
  BY <1>2, <1>5, <1>6 DEF Whole, WholePipes
<1>8. UNCHANGED switchVars
  BY DEF hostTransmitPacket
<1> QED  BY <1>7, <1>8 DEF Whole, switchVars

-----------------------------------------------------------------------------
\* A step of a switch leaves the variables of the others alone.
LEMMA OthersKeep ==
  ASSUME Inv, NEW v \in Switches, SwitchStep(v), NEW w \in Switches, w # v
  PROVE  /\ queue'[w] = queue[w] /\ table'[w] = table[w] /\ pc'[w] = pc[w]
         /\ idx'[w] = idx[w] /\ outPacket'[w] = outPacket[w] /\ outLink'[w] = outLink[w]
<1>1. SwitchTypeOK
  BY DEF Inv, SwitchInv
<1>2. CASE SwitchReceive(v)
  <2>1. (\E p : SwitchStore(v, p)) \/ SwitchCorrupt(v)
    BY <1>2 DEF SwitchReceive
  <2> QED  BY <1>1, <1>2, <2>1 DEF SwitchReceive, SwitchStore, SwitchCorrupt, SwitchTypeOK
<1>3. CASE SwitchReceiveNothing(v) \/ SwitchIdle(v) \/ SwitchFlood(v)
  BY <1>1, <1>3 DEF SwitchReceiveNothing, SwitchIdle, SwitchFlood, SwitchTypeOK
<1>4. CASE SwitchNextPacket(v)
  BY <1>1, <1>4 DEF SwitchNextPacket, SwitchTypeOK
<1>5. CASE SwitchUnicast(v) \/ SwitchFloodEnd(v)
  BY <1>1, <1>5 DEF SwitchUnicast, SwitchFloodEnd, SwitchTypeOK
<1> QED  BY <1>2, <1>3, <1>4, <1>5 DEF SwitchStep

\* So it is enough to look at that switch.
LEMMA OneWhole ==
  ASSUME Inv, Whole, NEW v \in Switches, SwitchStep(v), WholePipes',
         WholeSwitch(v, queue'[v], table'[v], pc'[v], outPacket'[v], outLink'[v])
  PROVE  Whole'
<1>1. ASSUME NEW w \in Switches
      PROVE  WholeSwitch(w, queue'[w], table'[w], pc'[w], outPacket'[w], outLink'[w])
  <2>1. CASE w = v
    BY <2>1
  <2>2. CASE w # v
    BY <2>2, OthersKeep DEF Whole
  <2> QED  BY <2>1, <2>2
<1> QED  BY <1>1 DEF Whole

\* What comes in on a link.
LEMMA ComesIn ==
  ASSUME Inv, Whole, WholeReads, NEW v \in Switches, Polling(v),
         pipe[inLinks[v][idx[v]]] # << >>
  PROVE  LET l == inLinks[v][idx[v]]
             p == linkReceive(pipe[l])
         IN  /\ l \in Links /\ idx[v] \in DOMAIN inLinks[v] /\ idx[v] \in Nat \ {0}
             /\ p \in Proper
             /\ l \in HostOut => p.src_addr \in SrcAddrs[l]
             /\ Unread(pipe[l]) = << >> /\ ~Fills(pipe[l])
<1> DEFINE l == inLinks[v][idx[v]]
<1>1. /\ idx[v] \in DOMAIN inLinks[v] /\ l \in Links /\ idx[v] \in Nat \ {0}
      /\ pipe[l] \in Seq(Cell)
  <2>1. Good(v, queue[v], table[v], pc[v], idx[v], outPacket[v], outLink[v])
    BY DEF Inv, SwitchInv
  <2>2. idx[v] \in DOMAIN inLinks[v] /\ l \in Links /\ idx[v] \in Nat \ {0}
    BY <2>1, LinksOf DEF Good, Polling
  <2> QED  BY <2>2 DEF Inv, SwitchInv
<1>2. Len(pipe[l]) <= ReadMax /\ ~Fills(pipe[l])
  <2>1. Len(pipe[l]) < ReadMax /\ Len(pipe[l]) \in Nat
    BY <1>1 DEF WholeReads
  <2> QED  BY <2>1, LinkAssumption DEF Fills
<1>3. BeginsWith(Proper, pipe[l]) /\ (l \in HostOut => BeginsWith(Of(l), pipe[l]))
  BY <1>1 DEF Whole, WholePipes
<1> HIDE DEF l
<1>4. pipe[l] # << >>
  BY DEF l
<1>5. linkReceive(pipe[l]) \in Proper /\ Unread(pipe[l]) = << >>
  BY <1>1, <1>2, <1>3, <1>4, ReceiveBegins, ProperPackets
<1>6. ASSUME l \in HostOut  PROVE linkReceive(pipe[l]).src_addr \in SrcAddrs[l]
  <2>1. linkReceive(pipe[l]) \in Of(l)
    BY <1>1, <1>2, <1>3, <1>4, <1>6, ReceiveBegins, ProperPackets
  <2> QED  BY <2>1 DEF Of
<1> QED  BY <1>1, <1>2, <1>5, <1>6 DEF l

\* Learning keeps a table truthful.
LEMMA LearnWhole ==
  ASSUME NEW w \in Switches, NEW t \in Seq(TableEntry), NEW p \in Proper,
         NEW i \in Nat \ {0}, PortsTruthful(w, t), KnownAddrs(t) \subseteq Addrs,
         inLinks[w][i] \in HostOut => p.src_addr \in SrcAddrs[inLinks[w][i]]
  PROVE  PortsTruthful(w, Learn(t, p, i)) /\ KnownAddrs(Learn(t, p, i)) \subseteq Addrs
<1> DEFINE u == Learn(t, p, i)
<1>1. p.is_valid = 1 /\ p.src_addr \in Int /\ p.src_addr \in Addrs
  BY DEF Proper, WholePacket, packetBuffer, Sendable
<1>2. /\ KnownAddrs(u) = KnownAddrs(t) \cup {p.src_addr}
      /\ \A k \in DOMAIN u :
           \/ u[k] = [valid |-> 1, dest_addr |-> p.src_addr, linkOutNum |-> i]
           \/ \E j \in DOMAIN t : u[k] = t[j]
  <2>1. u = tableUpdate(t, 1, p.src_addr, i)
    BY <1>1 DEF Learn
  <2> HIDE DEF u
  <2> QED  BY <1>1, <2>1, UpdateTable
<1> HIDE DEF u
<1>3. PortsTruthful(w, u)
  BY <1>2 DEF PortsTruthful
<1> QED  BY <1>1, <1>2, <1>3 DEF u

\* A packet is stored and learned from, and the pipe is empty after that; or the
\* switch stops.
LEMMA ReceiveWhole ==
  ASSUME Inv, Whole, WholeReads, NEW v \in Switches, SwitchReceive(v)
  PROVE  Whole'
<1> DEFINE l == inLinks[v][idx[v]]
           p == linkReceive(pipe[l])
<1>0. /\ Polling(v) /\ pipe[l] # << >> /\ (SwitchStore(v, p) \/ Fills(pipe[l]))
      /\ pipe' = [pipe EXCEPT ![l] = Unread(pipe[l])]
      /\ outPacket' = outPacket /\ outLink' = outLink
  BY DEF SwitchReceive
<1>1. /\ Polling(v) /\ pipe[l] # << >> /\ SwitchStore(v, p)
      /\ pipe' = [pipe EXCEPT ![l] = Unread(pipe[l])]
      /\ outPacket' = outPacket /\ outLink' = outLink
  BY <1>0, ComesIn
<1>2. /\ l \in Links /\ idx[v] \in DOMAIN inLinks[v] /\ idx[v] \in Nat \ {0}
      /\ p \in Proper
      /\ l \in HostOut => p.src_addr \in SrcAddrs[l]
      /\ Unread(pipe[l]) = << >>
  BY <1>1, ComesIn
<1> HIDE DEF p
<1>3. WholePipes'
  <2>1. pipe \in [Links -> Seq(Cell)]
    BY DEF Inv, SwitchInv
  <2>2. \A k \in Links : pipe'[k] = IF k = l THEN << >> ELSE pipe[k]
    BY <1>1, <1>2, <2>1
  <2>3. BeginsWith(Proper, << >>) /\ \A h \in HostOut : BeginsWith(Of(h), << >>)
    BY DEF BeginsWith
  <2> QED  BY <2>2, <2>3, NetAssumption DEF Whole, WholePipes
<1>4. /\ Good(v, queue[v], table[v], pc[v], idx[v], outPacket[v], outLink[v])
      /\ WholeSwitch(v, queue[v], table[v], pc[v], outPacket[v], outLink[v])
      /\ SwitchTypeOK
  BY DEF Inv, SwitchInv, Whole
<1>5. pc[v] = "store"
  BY <1>1 DEF Polling
<1>6. CASE Overruns(p) \/ Len(Learn(table[v], p, idx[v])) > MAXTABLE
  <2>1. pc'[v] = "corrupt" /\ queue' = queue /\ table' = table
    BY <1>1, <1>4, <1>6 DEF SwitchStore, SwitchCorrupt, SwitchTypeOK
  <2>2. WholeSwitch(v, queue'[v], table'[v], pc'[v], outPacket'[v], outLink'[v])
    BY <1>4, <2>1 DEF WholeSwitch
  <2> QED  BY <1>3, <2>2, OneWhole DEF SwitchStep
<1>7. CASE ~(Overruns(p) \/ Len(Learn(table[v], p, idx[v])) > MAXTABLE)
  <2> DEFINE q == queuePush(queue[v], p)
             t == Learn(table[v], p, idx[v])
  <2>1. queue'[v] = q /\ table'[v] = t /\ pc'[v] = "store"
    BY <1>1, <1>4, <1>5, <1>7 DEF SwitchStore, SwitchTypeOK
  <2>2. PortsTruthful(v, t) /\ KnownAddrs(t) \subseteq Addrs
    BY <1>2, <1>4, LearnWhole DEF Good, WholeSwitch
  <2>3. /\ Contents(q) = Contents(queue[v]) \/ Contents(q) = Append(Contents(queue[v]), p)
        /\ Contents(queue[v]) \in Seq(packetBuffer) /\ p \in packetBuffer
    <3>1. p \in packetBuffer
      BY <1>2 DEF Proper, WholePacket
    <3> QED  BY <1>4, <3>1, PushRing, ContentsSeq DEF Good
  <2> HIDE DEF q, t
  <2>4. \A k \in 1 .. Len(Contents(q)) : Contents(q)[k] \in Proper
    <3>1. CASE Contents(q) = Contents(queue[v])
      BY <1>4, <3>1 DEF WholeSwitch
    <3>2. CASE Contents(q) = Append(Contents(queue[v]), p)
      <4>1. /\ Len(Contents(q)) = Len(Contents(queue[v])) + 1
            /\ Len(Contents(queue[v])) \in Nat
            /\ \A j \in 1 .. Len(Contents(queue[v])) : Contents(q)[j] = Contents(queue[v])[j]
            /\ Contents(q)[Len(Contents(queue[v])) + 1] = p
        BY <2>3, <3>2, AppendProperties, LenProperties
      <4>2. \A j \in 1 .. Len(Contents(queue[v])) : Contents(q)[j] \in Proper
        BY <1>4, <4>1 DEF WholeSwitch
      <4> QED  BY <1>2, <4>1, <4>2
    <3> QED  BY <2>3, <3>1, <3>2
  <2>5. WholeSwitch(v, queue'[v], table'[v], pc'[v], outPacket'[v], outLink'[v])
    BY <2>1, <2>2, <2>4 DEF WholeSwitch
  <2> QED  BY <1>3, <2>5, OneWhole DEF SwitchStep
<1> QED  BY <1>6, <1>7

\* The link looked up is remembered with the packet.
LEMMA NextPacketWhole ==
  ASSUME Inv, Whole, NEW v \in Switches, SwitchNextPacket(v)
  PROVE  Whole'
<1> DEFINE p == queueHead(queue[v])
           q == queuePop(queue[v])
           o == tableGetOutLink(table[v], p.dest_addr)
<1>1. /\ Good(v, queue[v], table[v], pc[v], idx[v], outPacket[v], outLink[v])
      /\ WholeSwitch(v, queue[v], table[v], pc[v], outPacket[v], outLink[v])
      /\ SwitchTypeOK
  BY DEF Inv, SwitchInv, Whole
<1>2. /\ queue[v].size # 0 /\ pipe' = pipe /\ table' = table
      /\ queue'[v] = q /\ outPacket'[v] = p /\ outLink'[v] = o
  BY <1>1 DEF SwitchNextPacket, queueIsEmpty, SwitchTypeOK
<1>3. /\ Contents(queue[v]) # << >> /\ p = Head(Contents(queue[v]))
      /\ Contents(q) = Tail(Contents(queue[v]))
      /\ Contents(queue[v]) \in Seq(packetBuffer)
  BY <1>1, <1>2, PopRing, ContentsSeq DEF Good
<1>4. LookedUp(table[v], p.dest_addr, o)
  BY <1>1, LookupTable DEF Good, LookedUp
<1> HIDE DEF p, q, o
<1>5. /\ Len(Contents(q)) = Len(Contents(queue[v])) - 1
      /\ Len(Contents(queue[v])) \in Nat \ {0} /\ p = Contents(queue[v])[1]
      /\ \A k \in 1 .. Len(Contents(q)) : Contents(q)[k] = Contents(queue[v])[k + 1]
  BY <1>3, HeadTailProperties, LenProperties, EmptySeq
<1>6. p \in Proper /\ \A k \in 1 .. Len(Contents(q)) : Contents(q)[k] \in Proper
  BY <1>1, <1>5 DEF WholeSwitch
<1>7. WholeSwitch(v, queue'[v], table'[v], pc'[v], outPacket'[v], outLink'[v])
  BY <1>1, <1>2, <1>4, <1>6 DEF WholeSwitch
<1>8. WholePipes'
  BY <1>2 DEF Whole, WholePipes
<1> QED  BY <1>7, <1>8, OneWhole DEF SwitchStep

\* A switch writes whole packets, and never a link of a host.
LEMMA WriteWhole ==
  ASSUME Inv, Whole, NEW v \in Switches, pc[v] = "send",
         NEW i \in DOMAIN outLinks[v], Transmit(v, i)
  PROVE  WholePipes'
<1> DEFINE l == outLinks[v][i]
<1>1. /\ l \in Links /\ l \notin HostOut /\ pipe \in [Links -> Seq(Cell)]
      /\ pipe[l] \in Seq(Cell)
  BY LinksOf, NetAssumption DEF Inv, SwitchInv
<1>2. outPacket[v] \in Proper /\ BeginsWith(Proper, pipe[l])
  BY <1>1 DEF Whole, WholePipes, WholeSwitch
<1>3. pipe' = [pipe EXCEPT ![l] = linkSend(pipe[l], outPacket[v])]
  BY DEF Transmit
<1> HIDE DEF l
<1>4. BeginsWith(Proper, linkSend(pipe[l], outPacket[v]))
  BY <1>1, <1>2, ProperPackets, SendBegins
<1>5. \A k \in Links : pipe'[k] = IF k = l THEN linkSend(pipe[l], outPacket[v]) ELSE pipe[k]
  BY <1>1, <1>3
<1> QED  BY <1>1, <1>4, <1>5, NetAssumption DEF Whole, WholePipes

\* Sending leaves queues and tables alone.
LEMMA SendWhole ==
  ASSUME Inv, Whole, NEW v \in Switches,
         SwitchUnicast(v) \/ SwitchFlood(v) \/ SwitchFloodEnd(v)
  PROVE  Whole'
<1>1. /\ Good(v, queue[v], table[v], pc[v], idx[v], outPacket[v], outLink[v])
      /\ WholeSwitch(v, queue[v], table[v], pc[v], outPacket[v], outLink[v])
      /\ SwitchTypeOK /\ pc[v] = "send"
  BY DEF Inv, SwitchInv, Whole, SwitchUnicast, SwitchFlood, SwitchFloodEnd
<1>2. WholePipes'
  <2>1. CASE SwitchUnicast(v)
    BY <1>1, <2>1, WriteWhole DEF SwitchUnicast, Good
  <2>2. CASE SwitchFlood(v)
    <3>1. CASE idx[v] # srcLink(v)
      <4>1. idx[v] \in DOMAIN outLinks[v]
        BY <1>1, <2>2, LinksOf, SwitchAssumption DEF SwitchFlood, Good
      <4> QED  BY <1>1, <2>2, <3>1, <4>1, WriteWhole DEF SwitchFlood
    <3>2. CASE idx[v] = srcLink(v)
      BY <2>2, <3>2 DEF SwitchFlood, Whole, WholePipes
    <3> QED  BY <3>1, <3>2
  <2>3. CASE SwitchFloodEnd(v)
    BY <2>3 DEF SwitchFloodEnd, Whole, WholePipes
  <2> QED  BY <2>1, <2>2, <2>3
<1>3. /\ queue' = queue /\ table' = table /\ outPacket' = outPacket /\ outLink' = outLink
      /\ pc'[v] \in {"send", "store"}
  BY <1>1 DEF SwitchUnicast, SwitchFlood, SwitchFloodEnd, SwitchTypeOK
<1>4. WholeSwitch(v, queue'[v], table'[v], pc'[v], outPacket'[v], outLink'[v])
  BY <1>1, <1>3 DEF WholeSwitch
<1> QED  BY <1>2, <1>4, OneWhole DEF SwitchStep

\* Every step keeps it so, if reads find whole packets.
LEMMA NextWhole ==
  ASSUME Inv, Whole, WholeReads, [Next]_vars
  PROVE  Whole'
<1>1. CASE UNCHANGED vars
  BY <1>1 DEF vars, switchVars, Whole, WholePipes
<1>2. CASE \E h \in HostOut : hostTransmitPacket(h)
  BY <1>2, TransmitWhole
<1>3. ASSUME NEW v \in Switches, SwitchStep(v)
      PROVE  Whole'
  <2>1. CASE SwitchReceive(v)
    BY <2>1, ReceiveWhole
  <2>2. CASE SwitchReceiveNothing(v) \/ SwitchIdle(v)
    BY <2>2 DEF SwitchReceiveNothing, SwitchIdle, Whole, WholePipes
  <2>3. CASE SwitchNextPacket(v)
    BY <2>3, NextPacketWhole
  <2>4. CASE SwitchUnicast(v) \/ SwitchFlood(v) \/ SwitchFloodEnd(v)
    BY <2>4, SendWhole
  <2> QED  BY <1>3, <2>1, <2>2, <2>3, <2>4 DEF SwitchStep
<1> QED  BY <1>1, <1>2, <1>3 DEF Next

\* The invariant holds as long as reads find whole packets.
LEMMA WholeAlways == Spec /\ []WholeReads => []Whole
  BY InitWhole, NextWhole, InvAlways, PTL DEF Spec

\* switch.c:97, 122: if reads find whole packets, no switch has an entry that
\* sends a packet to a host next to it which does not use the address, at any
\* speed and although entries for other switches can be wrong.
THEOREM NeighboursAreKnown == Spec /\ []WholeReads => []HostPortsTruthful
<1>1. Whole => HostPortsTruthful
  BY DEF Whole, WholeSwitch, PortsTruthful, HostPortsTruthful
<1> QED  BY <1>1, WholeAlways, PTL

\* switch.c:97, 122: where all neighbours of switches are hosts, whole tables
\* are right.
THEOREM StarTablesAreTrue ==
  ASSUME \A w \in Switches : \A i \in DOMAIN inLinks[w] : inLinks[w][i] \in HostOut
  PROVE  Spec /\ []WholeReads => []TableTruthful
<1>1. Inv /\ Whole => TableTruthful
  <2> SUFFICES ASSUME Inv, Whole, NEW w \in Switches, NEW i \in DOMAIN table[w]
               PROVE  \E h \in Behind[inLinks[w][table[w][i].linkOutNum]] :
                        table[w][i].dest_addr \in SrcAddrs[h]
    BY DEF TableTruthful
  <2>1. inLinks[w][table[w][i].linkOutNum] \in HostOut
    BY DEF Inv, SwitchInv, Good
  <2>2. Behind[inLinks[w][table[w][i].linkOutNum]] = {inLinks[w][table[w][i].linkOutNum]}
    BY <2>1, NetAssumption
  <2> QED  BY <2>1, <2>2 DEF Whole, WholeSwitch, PortsTruthful
<1> QED  BY <1>1, WholeAlways, InvAlways, PTL


-----------------------------------------------------------------------------
(* Where packets are sent *)

\* What a switch writes goes to the host on its port i only if the lookup gave
\* that port, or none.
LEMMA WritesPort ==
  ASSUME Inv, [Next]_vars, NEW w \in Switches, NEW i \in DOMAIN outLinks[w],
         inLinks[w][i] \in HostOut, pipe'[outLinks[w][i]] # pipe[outLinks[w][i]]
  PROVE  pc[w] = "send" /\ outLink[w] \in {-1, i}
<1> DEFINE l == outLinks[w][i]
<1>1. pipe \in [Links -> Seq(Cell)] /\ l \in Links /\ l \notin HostOut
  BY LinksOf, NetAssumption DEF Inv, SwitchInv
<1>2. ~ UNCHANGED vars
  BY DEF vars
<1>3. ASSUME NEW h \in HostOut, hostTransmitPacket(h)  PROVE FALSE
  BY <1>1, <1>3 DEF hostTransmitPacket
<1>4. ASSUME NEW v \in Switches, SwitchStep(v)
      PROVE  pc[w] = "send" /\ outLink[w] \in {-1, i}
  <2>1. ASSUME NEW j \in DOMAIN outLinks[v], Transmit(v, j)  PROVE v = w /\ j = i
    <3>1. outLinks[v][j] = l
      BY <1>1, <2>1 DEF Transmit
    <3> QED  BY <3>1, NetAssumption
  <2>2. Good(v, queue[v], table[v], pc[v], idx[v], outPacket[v], outLink[v])
    BY DEF Inv, SwitchInv
  <2>3. CASE SwitchReceive(v)
    <3>1. idx[v] \in DOMAIN inLinks[v]
      BY <2>2, <2>3, LinksOf DEF SwitchReceive, Polling, Good
    <3>2. inLinks[v][idx[v]] = outLinks[w][i]
      BY <1>1, <2>3 DEF SwitchReceive
    <3>3. \A j \in DOMAIN inLinks[v] :
            outLinks[w][i] = inLinks[v][j] => inLinks[w][i] \notin HostOut
      <4>1. DOMAIN inLinks[v] = DOMAIN outLinks[v]
        BY LinksOf
      <4> QED  BY <4>1, NetAssumption
    <3> QED  BY <3>1, <3>2, <3>3
  <2>4. CASE SwitchUnicast(v)
    <3>1. v = w /\ outLink[v] = i
      BY <2>1, <2>2, <2>4 DEF SwitchUnicast, Good
    <3> QED  BY <2>4, <3>1 DEF SwitchUnicast
  <2>5. CASE SwitchFlood(v)
    <3>1. idx[v] # srcLink(v) /\ Transmit(v, idx[v])
      BY <2>5 DEF SwitchFlood
    <3>2. idx[v] \in DOMAIN outLinks[v]
      BY <2>2, <2>5, LinksOf, SwitchAssumption DEF SwitchFlood, Good
    <3>3. v = w
      BY <2>1, <3>1, <3>2
    <3> QED  BY <2>5, <3>3 DEF SwitchFlood
  <2>6. CASE SwitchReceiveNothing(v) \/ SwitchIdle(v) \/ SwitchNextPacket(v)
               \/ SwitchFloodEnd(v)
    BY <2>6 DEF SwitchReceiveNothing, SwitchIdle, SwitchNextPacket, SwitchFloodEnd
  <2> QED  BY <1>4, <2>3, <2>4, <2>5, <2>6 DEF SwitchStep
<1> QED  BY <1>2, <1>3, <1>4 DEF Next

\* switch.c:132-151: if reads find whole packets, a host gets packets for other
\* addresses only from a switch that has not heard of the address, whatever the
\* tables say at the time it sends.
THEOREM OthersAreSpared == Spec /\ []WholeReads => SpareTheOthers
<1>1. ASSUME Inv, Whole, [Next]_vars, NEW w \in Switches, NEW i \in DOMAIN outLinks[w],
             inLinks[w][i] \in HostOut, pipe'[outLinks[w][i]] # pipe[outLinks[w][i]],
             outPacket[w].dest_addr \notin SrcAddrs[inLinks[w][i]]
      PROVE  outPacket[w].dest_addr \notin KnownAddrs(table[w])
  <2>1. pc[w] = "send" /\ outLink[w] \in {-1, i}
    BY <1>1, WritesPort
  <2>2. /\ PortsTruthful(w, table[w])
        /\ LookedUp(table[w], outPacket[w].dest_addr, outLink[w])
    BY <1>1, <2>1 DEF Whole, WholeSwitch
  <2>3. CASE outLink[w] = -1 /\ outPacket[w].dest_addr \notin KnownAddrs(table[w])
    BY <2>3
  <2>4. ASSUME NEW k \in DOMAIN table[w], table[w][k].dest_addr = outPacket[w].dest_addr,
               table[w][k].linkOutNum = outLink[w]
        PROVE  FALSE
    <3>1. outLink[w] = i
      <4>1. table[w][k].linkOutNum \in DOMAIN inLinks[w]
        BY <1>1 DEF Inv, SwitchInv, Good
      <4> QED  BY <2>1, <2>4, <4>1, LinksOf
    <3> QED  BY <1>1, <2>2, <2>4, <3>1 DEF PortsTruthful
  <2> QED  BY <2>2, <2>3, <2>4 DEF LookedUp
<1>2. Inv /\ Whole /\ [Next]_vars =>
        [\A w \in Switches : \A i \in DOMAIN outLinks[w] :
           LET l == outLinks[w][i]
           IN  /\ inLinks[w][i] \in HostOut
               /\ pipe'[l] # pipe[l]
               /\ outPacket[w].dest_addr \notin SrcAddrs[inLinks[w][i]]
               => outPacket[w].dest_addr \notin KnownAddrs(table[w])]_vars
  BY <1>1
<1> QED  BY <1>2, WholeAlways, InvAlways, PTL DEF Spec, SpareTheOthers

-----------------------------------------------------------------------------
(* Arrays *)

\* A table has no more entries than there are addresses.
LEMMA TableFits ==
  ASSUME NEW t \in Seq(TableEntry), DistinctAddrs(t), NEW A, IsFiniteSet(A),
         KnownAddrs(t) \subseteq A
  PROVE  Len(t) <= Cardinality(A)
<1> DEFINE S == 1 .. Len(t)
           f == [i \in S |-> t[i].dest_addr]
<1>1. DOMAIN t = S /\ Len(t) \in Nat /\ Cardinality(A) \in Nat
  BY LenProperties, FS_CardinalityType
<1>2. f \in [S -> A]
  BY <1>1 DEF KnownAddrs
<1>3. \A i, j \in S : f[i] = f[j] => i = j
  BY <1>1 DEF DistinctAddrs
<1>4. IsFiniteSet(S) /\ Cardinality(S) = Len(t)
  <2>1. 1 \in Int /\ Len(t) \in Int
    BY <1>1
  <2>2. IsFiniteSet(1 .. Len(t))
    BY <2>1, FS_Interval
  <2>3. Cardinality(1 .. Len(t)) = IF 1 > Len(t) THEN 0 ELSE Len(t) - 1 + 1
    BY <2>1, FS_Interval
  <2> QED  BY <1>1, <2>2, <2>3
<1> HIDE DEF S, f
<1>5. ~(Cardinality(A) < Cardinality(S))
  BY <1>2, <1>3, <1>4, FS_PigeonHole
<1> QED  BY <1>1, <1>4, <1>5

\* All neighbours of switches are hosts.
Star == \A w \in Switches : \A i \in DOMAIN inLinks[w] : inLinks[w][i] \in HostOut

\* The hosts have sent little, from few addresses.
LittleSent ==
  /\ \A h \in HostOut : Len(sent[h]) * (3 + PAYLOAD_LENGTH) < ReadMax
  /\ Cardinality(SentAddrs) <= MAXTABLE

\* The packets from those addresses.
HeardOf == { p \in WholePacket : p.src_addr \in SentAddrs }

\* What waits on a host's link is part of what the host has sent.
PipesShort == \A h \in HostOut : Len(pipe[h]) <= Len(sent[h]) * (3 + PAYLOAD_LENGTH)

\* Nothing but such packets was sent or learned from, and no array overrun.
Sound ==
  /\ \A h \in HostOut : BeginsWith(HeardOf, pipe[h])
  /\ \A w \in Switches : KnownAddrs(table[w]) \subseteq SentAddrs /\ pc[w] # "corrupt"

FewInv == IsFiniteSet(SentAddrs) /\ PipesShort /\ (LittleSent => Sound)

\* Initially nothing has been sent.
LEMMA InitFew == Init => FewInv
<1> SUFFICES ASSUME Init  PROVE FewInv
  OBVIOUS
<1>1. \A h \in HostOut : sent[h] = << >> /\ pipe[h] = << >>
  BY NetAssumption DEF Init
<1>2. SentAddrs = {}
  BY <1>1 DEF SentAddrs
<1>3. IsFiniteSet(SentAddrs)
  BY <1>2, FS_EmptySet
<1>4. PipesShort
  <2>1. 0 <= 0 * (3 + PAYLOAD_LENGTH)
    BY LinkAssumption
  <2> QED  BY <1>1, <2>1 DEF PipesShort
<1>5. Sound
  <2>1. ASSUME NEW w \in Switches  PROVE KnownAddrs(table[w]) = {} /\ pc[w] = "store"
    BY DEF Init, SwitchInit, tableInit, KnownAddrs
  <2> QED  BY <1>1, <2>1 DEF Sound, BeginsWith
<1> QED  BY <1>3, <1>4, <1>5 DEF FewInv

\* The packet a host sends: its cells and its address are added to those before.
LEMMA TransmitAdds ==
  ASSUME Inv, NEW h \in HostOut, hostTransmitPacket(h)
  PROVE  \E p \in WholePacket :
           /\ sent' = [sent EXCEPT ![h] = Append(sent[h], p)]
           /\ pipe' = [pipe EXCEPT ![h] = linkSend(pipe[h], p)]
           /\ SentAddrs' = SentAddrs \cup {p.src_addr}
           /\ p.length <= PAYLOAD_LENGTH
<1>1. PICK src \in SrcAddrs[h], dest \in DestAddrs, len \in 1 .. PAYLOAD_LENGTH :
        LET p == [src_addr |-> src, dest_addr |-> dest, length |-> len,
                  payload |-> [from |-> h, seq |-> Len(sent[h]) + 1],
                  is_valid |-> 1]
        IN  /\ sent' = [sent EXCEPT ![h] = Append(@, p)]
            /\ pipe' = [pipe EXCEPT ![h] = linkSend(@, p)]
  BY DEF hostTransmitPacket
<1> DEFINE tag == [from |-> h, seq |-> Len(sent[h]) + 1]
           p == [src_addr |-> src, dest_addr |-> dest, length |-> len,
                 payload |-> tag, is_valid |-> 1]
<1>2. pipe \in [Links -> Seq(Cell)] /\ h \in Links /\ sent \in [HostOut -> Seq(packetBuffer)]
  BY NetAssumption DEF Inv, SwitchInv
<1>3. tag \in Payload
  <2>1. Len(sent[h]) + 1 \in 1 .. MaxSend[h]
    BY <1>2, LenProperties, NetAssumption DEF hostTransmitPacket
  <2>2. tag \in [from : {h}, seq : 1 .. MaxSend[h]]
    BY <2>1
  <2> QED  BY <2>2, NetAssumption DEF Tag
<1> HIDE DEF tag
<1>4. p \in WholePacket /\ p.length <= PAYLOAD_LENGTH
  <2>1. src \in Nat /\ dest \in Nat /\ len \in Int /\ len > 0 /\ len <= PAYLOAD_LENGTH
    BY NetAssumption, LinkAssumption
  <2> QED  BY <1>3, <2>1 DEF WholePacket, Sendable, packetBuffer, PayloadOrGarbage
<1>5. /\ sent' = [sent EXCEPT ![h] = Append(sent[h], p)]
      /\ pipe' = [pipe EXCEPT ![h] = linkSend(pipe[h], p)]
  BY <1>1 DEF tag
<1>6. p \in packetBuffer
  BY <1>4 DEF WholePacket
<1> HIDE DEF p
<1>7. SentAddrs' = SentAddrs \cup {p.src_addr}
  <2> DEFINE A(g) == { sent[g][k].src_addr : k \in DOMAIN sent[g] }
             B(g) == { sent'[g][k].src_addr : k \in DOMAIN sent'[g] }
  <2>1. ASSUME NEW g \in HostOut, g # h  PROVE B(g) = A(g)
    BY <1>2, <1>5, <2>1
  <2>2. B(h) = A(h) \cup {p.src_addr}
    <3>1. sent'[h] = Append(sent[h], p) /\ sent[h] \in Seq(packetBuffer)
      BY <1>2, <1>5
    <3>2. /\ DOMAIN Append(sent[h], p) = DOMAIN sent[h] \cup {Len(sent[h]) + 1}
          /\ \A k \in DOMAIN sent[h] : Append(sent[h], p)[k] = sent[h][k]
          /\ Append(sent[h], p)[Len(sent[h]) + 1] = p
      <4>1. Len(sent[h]) \in Nat /\ DOMAIN sent[h] = 1 .. Len(sent[h])
        BY <3>1, LenProperties
      <4> QED  BY <1>6, <3>1, <4>1, AppendProperties
    <3> QED  BY <3>1, <3>2
  <2> HIDE DEF A, B
  <2>3. UNION { B(g) : g \in HostOut } = (UNION { A(g) : g \in HostOut }) \cup {p.src_addr}
    BY <2>1, <2>2
  <2> QED  BY <2>3 DEF A, B, SentAddrs
<1> QED  BY <1>4, <1>5, <1>7

\* More packets are no fewer, of no fewer addresses.
LEMMA TransmitFew ==
  ASSUME Inv, FewInv, NEW h \in HostOut, hostTransmitPacket(h)
  PROVE  FewInv'
<1>1. PICK p \in WholePacket :
        /\ sent' = [sent EXCEPT ![h] = Append(sent[h], p)]
        /\ pipe' = [pipe EXCEPT ![h] = linkSend(pipe[h], p)]
        /\ SentAddrs' = SentAddrs \cup {p.src_addr}
        /\ p.length <= PAYLOAD_LENGTH
  BY TransmitAdds
<1>2. /\ pipe \in [Links -> Seq(Cell)] /\ sent \in [HostOut -> Seq(packetBuffer)]
      /\ h \in Links /\ HostOut \subseteq Links /\ p \in packetBuffer /\ Sendable(p)
  BY NetAssumption DEF Inv, SwitchInv, WholePacket
<1>3. /\ pipe'[h] = linkSend(pipe[h], p)
      /\ \A g \in HostOut \ {h} : pipe'[g] = pipe[g] /\ sent'[g] = sent[g]
  BY <1>1, <1>2
<1>4. /\ Len(sent[h]) \in Nat /\ Len(sent'[h]) = Len(sent[h]) + 1
      /\ Len(sent'[h]) * (3 + PAYLOAD_LENGTH)
           = Len(sent[h]) * (3 + PAYLOAD_LENGTH) + (3 + PAYLOAD_LENGTH)
  <2>1. Len(sent[h]) \in Nat /\ Len(sent'[h]) = Len(sent[h]) + 1
    BY <1>1, <1>2, AppendProperties, LenProperties
  <2> DEFINE n == Len(sent[h])
             c == 3 + PAYLOAD_LENGTH
  <2>2. n \in Int /\ c \in Int
    BY <2>1, LinkAssumption
  <2> HIDE DEF n, c
  <2>3. (n + 1) * c = n * c + c
    BY <2>2
  <2> QED  BY <2>1, <2>3 DEF n, c
<1>5. IsFiniteSet(SentAddrs') /\ Cardinality(SentAddrs) <= Cardinality(SentAddrs')
  <2>1. IsFiniteSet(SentAddrs')
    BY <1>1, FS_AddElement DEF FewInv
  <2>2. SentAddrs \in SUBSET SentAddrs'
    BY <1>1
  <2> QED  BY <2>1, <2>2, FS_Subset
<1>6. PipesShort'
  <2>1. Len(pipe'[h]) <= Len(pipe[h]) + 3 + PAYLOAD_LENGTH
    <3>1. Encode(p) \in Seq(Cell) /\ Len(Encode(p)) = 3 + p.length /\ pipe[h] \in Seq(Cell)
      BY <1>2, EncodeCells
    <3>2. linkSend(pipe[h], p) \in {pipe[h], pipe[h] \o Encode(p)}
      BY DEF linkSend, Write
    <3>3. Len(pipe[h] \o Encode(p)) = Len(pipe[h]) + 3 + p.length
      <4>1. Len(pipe[h] \o Encode(p)) = Len(pipe[h]) + Len(Encode(p))
        BY <3>1, ConcatProperties
      <4>2. Len(pipe[h]) \in Nat /\ p.length \in Int
        BY <1>2, <3>1, LenProperties DEF packetBuffer
      <4>3. Len(Encode(p)) = 3 + p.length
        BY <3>1
      <4> DEFINE a == Len(pipe[h])
                 b == Len(Encode(p))
                 c == Len(pipe[h] \o Encode(p))
      <4>4. c = a + b /\ b = 3 + p.length /\ a \in Int /\ p.length \in Int
        BY <4>1, <4>2, <4>3
      <4> HIDE DEF a, b, c
      <4>5. c = a + 3 + p.length
        BY <4>4
      <4> QED  BY <4>5 DEF a, c
    <3>4. Len(pipe[h]) \in Nat /\ p.length \in Int
      BY <1>2, <3>1, LenProperties DEF packetBuffer
    <3> QED  BY <1>1, <1>3, <3>2, <3>3, <3>4, LinkAssumption
  <2>2. Len(pipe'[h]) <= Len(sent'[h]) * (3 + PAYLOAD_LENGTH)
    <3> DEFINE m == Len(sent[h]) * (3 + PAYLOAD_LENGTH)
               n == Len(sent'[h]) * (3 + PAYLOAD_LENGTH)
    <3>1. Len(pipe[h]) <= m
      BY DEF FewInv, PipesShort
    <3>2. m \in Int /\ n \in Int
      BY <1>4, LinkAssumption
    <3>3. n = m + (3 + PAYLOAD_LENGTH)
      BY <1>4
    <3>4. Len(pipe[h]) \in Nat /\ Len(pipe'[h]) \in Nat
      <4>1. pipe[h] \in Seq(Cell) /\ pipe'[h] \in Seq(Cell)
        BY <1>2, <1>3, SendType
      <4> QED  BY <4>1, LenProperties
    <3> HIDE DEF m, n
    <3>5. Len(pipe'[h]) <= n
      BY <2>1, <3>1, <3>2, <3>3, <3>4, LinkAssumption
    <3> QED  BY <3>5 DEF n
  <2> QED  BY <1>3, <2>2 DEF FewInv, PipesShort
<1>7. ASSUME LittleSent'  PROVE Sound'
  <2>1. LittleSent
    <3>1. Len(sent[h]) * (3 + PAYLOAD_LENGTH) < ReadMax
      <4> DEFINE m == Len(sent[h]) * (3 + PAYLOAD_LENGTH)
      <4>1. m + (3 + PAYLOAD_LENGTH) < ReadMax
        BY <1>4, <1>7 DEF LittleSent
      <4>2. m \in Int
        BY <1>4, LinkAssumption
      <4> HIDE DEF m
      <4>3. m < ReadMax
        BY <4>1, <4>2, LinkAssumption
      <4> QED  BY <4>3 DEF m
    <3>2. \A g \in HostOut \ {h} : Len(sent[g]) * (3 + PAYLOAD_LENGTH) < ReadMax
      BY <1>3, <1>7 DEF LittleSent
    <3>3. Cardinality(SentAddrs) <= MAXTABLE
      <4>1. Cardinality(SentAddrs') <= MAXTABLE
        BY <1>7 DEF LittleSent
      <4>2. Cardinality(SentAddrs) \in Nat /\ Cardinality(SentAddrs') \in Nat
        BY <1>5, FS_CardinalityType DEF FewInv
      <4> QED  BY <1>5, <4>1, <4>2, SwitchAssumption
    <3> QED  BY <3>1, <3>2, <3>3 DEF LittleSent
  <2>2. Sound
    BY <2>1 DEF FewInv
  <2>3. HeardOf \subseteq HeardOf' /\ p \in HeardOf' /\ HeardOf' \subseteq WholePacket
    BY <1>1 DEF HeardOf
  <2>4. \A g \in HostOut : BeginsWith(HeardOf', pipe[g])
    BY <2>2, <2>3 DEF Sound, BeginsWith
  <2>5. BeginsWith(HeardOf', pipe'[h])
    <3> DEFINE P == HeardOf'
    <3>1. P \subseteq WholePacket /\ p \in P /\ BeginsWith(P, pipe[h]) /\ pipe[h] \in Seq(Cell)
      BY <1>2, <2>3, <2>4
    <3> HIDE DEF P
    <3>2. BeginsWith(P, linkSend(pipe[h], p))
      BY <3>1, SendBegins
    <3> QED  BY <1>3, <3>2 DEF P
  <2>6. \A g \in HostOut : BeginsWith(HeardOf', pipe'[g])
    BY <1>3, <2>4, <2>5
  <2>7. table' = table /\ pc' = pc
    BY DEF hostTransmitPacket, switchVars
  <2> QED  BY <1>1, <2>2, <2>6, <2>7 DEF Sound
<1> QED  BY <1>5, <1>6, <1>7 DEF FewInv

\* What a switch reads then is a packet it has room for.
LEMMA ReceiveFew ==
  ASSUME Star, Inv, FewInv, LittleSent, NEW v \in Switches, SwitchReceive(v)
  PROVE  /\ \A h \in HostOut : pipe'[h] \in {pipe[h], << >>}
         /\ KnownAddrs(table'[v]) \subseteq SentAddrs /\ pc'[v] # "corrupt"
<1> DEFINE l == inLinks[v][idx[v]]
           p == linkReceive(pipe[l])
           t == Learn(table[v], p, idx[v])
<1>1. /\ Polling(v) /\ pipe[l] # << >> /\ (SwitchStore(v, p) \/ Fills(pipe[l]))
      /\ pipe' = [pipe EXCEPT ![l] = Unread(pipe[l])]
  BY DEF SwitchReceive
<1>2. /\ Good(v, queue[v], table[v], pc[v], idx[v], outPacket[v], outLink[v])
      /\ SwitchTypeOK /\ pipe \in [Links -> Seq(Cell)] /\ Sound
      /\ sent \in [HostOut -> Seq(packetBuffer)]
  BY DEF Inv, SwitchInv, FewInv
<1>3. /\ idx[v] \in DOMAIN inLinks[v] /\ l \in Links /\ idx[v] \in Nat \ {0}
      /\ l \in HostOut
  BY <1>1, <1>2, LinksOf DEF Good, Polling, Star
<1>4. Len(pipe[l]) < ReadMax /\ Len(pipe[l]) \in Nat
  <2> DEFINE m == Len(sent[l]) * (3 + PAYLOAD_LENGTH)
  <2>1. Len(pipe[l]) <= m /\ m < ReadMax
    BY <1>3 DEF FewInv, PipesShort, LittleSent
  <2>2. Len(pipe[l]) \in Nat /\ m \in Int
    BY <1>2, <1>3, LenProperties, LinkAssumption
  <2> HIDE DEF m
  <2> QED  BY <2>1, <2>2, LinkAssumption
<1>5. p \in HeardOf /\ Unread(pipe[l]) = << >>
  <2>1. HeardOf \subseteq WholePacket /\ BeginsWith(HeardOf, pipe[l]) /\ pipe[l] \in Seq(Cell)
    BY <1>2, <1>3 DEF Sound, HeardOf
  <2>2. Len(pipe[l]) <= ReadMax
    BY <1>4, LinkAssumption
  <2> QED  BY <1>1, <2>1, <2>2, ReceiveBegins
<1> HIDE DEF p
<1>6. SwitchStore(v, p)
  BY <1>1, <1>4, LinkAssumption DEF Fills
<1>7. /\ p.is_valid = 1 /\ p.src_addr \in SentAddrs /\ p.src_addr \in Int
      /\ p.length \in Int /\ p.length <= PAYLOAD_LENGTH
  BY <1>5 DEF HeardOf, WholePacket, packetBuffer, Sendable
<1>8. KnownAddrs(t) \subseteq SentAddrs /\ Len(t) <= MAXTABLE /\ Len(t) \in Nat
  <2>1. t = tableUpdate(table[v], 1, p.src_addr, idx[v])
    BY <1>7 DEF Learn
  <2> HIDE DEF t
  <2>2. /\ t \in Seq(TableEntry) /\ DistinctAddrs(t)
        /\ KnownAddrs(t) = KnownAddrs(table[v]) \cup {p.src_addr}
    <3>1. table[v] \in Seq(TableEntry) /\ DistinctAddrs(table[v])
      BY <1>2 DEF Good
    <3> QED  BY <1>3, <1>7, <2>1, <3>1, UpdateTable
  <2>3. KnownAddrs(t) \subseteq SentAddrs
    BY <1>2, <1>7, <2>2 DEF Sound
  <2>4. Len(t) <= Cardinality(SentAddrs)
    BY <2>2, <2>3, TableFits DEF FewInv
  <2>5. Cardinality(SentAddrs) <= MAXTABLE /\ Cardinality(SentAddrs) \in Nat /\ Len(t) \in Nat
    BY <2>2, FS_CardinalityType, LenProperties DEF LittleSent, FewInv
  <2> QED  BY <2>3, <2>4, <2>5, SwitchAssumption
<1> HIDE DEF t
<1>9. ~Overruns(p) /\ ~(Len(t) > MAXTABLE)
  BY <1>7, <1>8, LinkAssumption, SwitchAssumption DEF Overruns
<1>10. pc' = pc /\ table' = [table EXCEPT ![v] = t]
  BY <1>6, <1>9 DEF SwitchStore, t
<1>11. KnownAddrs(table'[v]) \subseteq SentAddrs /\ pc'[v] # "corrupt"
  BY <1>2, <1>8, <1>10 DEF Sound, SwitchTypeOK
<1>12. \A h \in HostOut : pipe'[h] \in {pipe[h], << >>}
  BY <1>1, <1>2, <1>3, <1>5, NetAssumption
<1> QED  BY <1>11, <1>12

\* The other steps of a switch leave the links it reads alone, and its table.
LEMMA OtherStepFew ==
  ASSUME Inv, NEW v \in Switches, SwitchStep(v), ~SwitchReceive(v)
  PROVE  /\ \A h \in HostOut : pipe'[h] = pipe[h]
         /\ table' = table /\ pc'[v] \in {"send", "store"}
<1>1. /\ SwitchTypeOK /\ pipe \in [Links -> Seq(Cell)] /\ HostOut \subseteq Links
      /\ Good(v, queue[v], table[v], pc[v], idx[v], outPacket[v], outLink[v])
  BY NetAssumption DEF Inv, SwitchInv
<1>2. CASE SwitchReceiveNothing(v) \/ SwitchIdle(v)
  BY <1>1, <1>2 DEF SwitchReceiveNothing, SwitchIdle, Polling, Polled
<1>3. CASE SwitchNextPacket(v) \/ SwitchFloodEnd(v)
  BY <1>1, <1>3 DEF SwitchNextPacket, SwitchFloodEnd, SwitchTypeOK
<1>4. ASSUME NEW i \in DOMAIN outLinks[v], Transmit(v, i)
      PROVE  \A h \in HostOut : pipe'[h] = pipe[h]
  <2>1. outLinks[v][i] \notin HostOut
    BY NetAssumption
  <2> QED  BY <1>1, <1>4, <2>1 DEF Transmit
<1>5. CASE SwitchUnicast(v)
  <2>1. outLink[v] \in DOMAIN outLinks[v] /\ Transmit(v, outLink[v])
    BY <1>1, <1>5 DEF SwitchUnicast, Good
  <2> QED  BY <1>1, <1>4, <1>5, <2>1 DEF SwitchUnicast, SwitchTypeOK
<1>6. CASE SwitchFlood(v)
  <2>1. idx[v] \in DOMAIN outLinks[v]
    BY <1>1, <1>6, LinksOf, SwitchAssumption DEF SwitchFlood, Good
  <2>2. Transmit(v, idx[v]) \/ pipe' = pipe
    BY <1>6 DEF SwitchFlood
  <2>3. \A h \in HostOut : pipe'[h] = pipe[h]
    BY <1>4, <2>1, <2>2
  <2> QED  BY <1>1, <1>6, <2>3 DEF SwitchFlood
<1> QED  BY <1>2, <1>3, <1>5, <1>6 DEF SwitchStep

\* So no step of a switch changes it.
LEMMA StepFew ==
  ASSUME Star, Inv, FewInv, NEW v \in Switches, SwitchStep(v), UNCHANGED sent
  PROVE  FewInv'
<1>1. SentAddrs' = SentAddrs /\ (LittleSent' <=> LittleSent) /\ HeardOf' = HeardOf
  BY DEF SentAddrs, LittleSent, HeardOf
<1>2. \A h \in HostOut : pipe'[h] = pipe[h] \/ Len(pipe'[h]) <= Len(pipe[h])
  <2>1. CASE SwitchReceive(v)
    <3> DEFINE l == inLinks[v][idx[v]]
    <3>1. pipe' = [pipe EXCEPT ![l] = Unread(pipe[l])] /\ pipe \in [Links -> Seq(Cell)]
      BY <2>1 DEF SwitchReceive, Inv, SwitchInv
    <3> HIDE DEF l
    <3>2. \A h \in HostOut : pipe'[h] = pipe[h] \/ pipe'[h] = Unread(pipe[h])
      BY <3>1, NetAssumption
    <3>3. \A s \in Seq(Cell) : Len(Unread(s)) <= Len(s)
      <4> SUFFICES ASSUME NEW s \in Seq(Cell)  PROVE Len(Unread(s)) <= Len(s)
        OBVIOUS
      <4>1. ReadLen(s) \in 0 .. Len(s) /\ Len(s) \in Nat
        BY LenProperties, LinkAssumption DEF ReadLen
      <4>2. Len(SubSeq(s, ReadLen(s) + 1, Len(s))) =
              IF ReadLen(s) + 1 <= Len(s) THEN Len(s) - (ReadLen(s) + 1) + 1 ELSE 0
        BY <4>1, SubSeqProperties
      <4> QED  BY <4>1, <4>2 DEF Unread
    <3> QED  BY <3>1, <3>2, <3>3, NetAssumption
  <2>2. CASE ~SwitchReceive(v)
    BY <2>2, OtherStepFew
  <2> QED  BY <2>1, <2>2
<1>3. PipesShort'
  <2> SUFFICES ASSUME NEW h \in HostOut
               PROVE  Len(pipe'[h]) <= Len(sent[h]) * (3 + PAYLOAD_LENGTH)
    BY DEF PipesShort
  <2> DEFINE m == Len(sent[h]) * (3 + PAYLOAD_LENGTH)
  <2>1. Len(pipe[h]) <= m
    BY DEF FewInv, PipesShort
  <2>2. Len(pipe[h]) \in Nat /\ Len(pipe'[h]) \in Nat /\ m \in Int
    <3>1. /\ pipe[h] \in Seq(Cell) /\ pipe'[h] \in Seq(Cell)
          /\ sent[h] \in Seq(packetBuffer)
      BY SwitchStepInv, NetAssumption DEF Inv, SwitchInv
    <3> QED  BY <3>1, LenProperties, LinkAssumption
  <2> HIDE DEF m
  <2>3. Len(pipe'[h]) <= m
    BY <1>2, <2>1, <2>2
  <2> QED  BY <2>3 DEF m
<1>4. ASSUME LittleSent  PROVE Sound'
  <2>1. Sound
    BY <1>4 DEF FewInv
  <2>2. /\ \A h \in HostOut : pipe'[h] \in {pipe[h], << >>}
        /\ KnownAddrs(table'[v]) \subseteq SentAddrs /\ pc'[v] # "corrupt"
    <3>1. CASE SwitchReceive(v)
      BY <1>4, <3>1, ReceiveFew
    <3>2. CASE ~SwitchReceive(v)
      BY <2>1, <3>2, OtherStepFew DEF Sound
    <3> QED  BY <3>1, <3>2
  <2>3. \A h \in HostOut : BeginsWith(HeardOf, pipe'[h])
    BY <2>1, <2>2 DEF Sound, BeginsWith
  <2>4. ASSUME NEW w \in Switches
        PROVE  KnownAddrs(table'[w]) \subseteq SentAddrs /\ pc'[w] # "corrupt"
    <3>1. CASE w = v
      BY <2>2, <3>1
    <3>2. CASE w # v
      BY <2>1, <3>2, OthersKeep DEF Sound
    <3> QED  BY <3>1, <3>2
  <2> QED  BY <1>1, <2>3, <2>4 DEF Sound
<1> QED  BY <1>1, <1>3, <1>4 DEF FewInv

\* link.c:125, 149, switch.c:257: nothing checks these indices, yet where all
\* neighbours of switches are hosts, no switch writes past the end of an array before
\* a host has sent as many packets as can fill a read, or the hosts together have
\* used more addresses than a table has slots.
THEOREM FewFitTheArrays == ASSUME Star  PROVE Spec => []FewAreSafe
<1>1. ASSUME Inv, FewInv, [Next]_vars
      PROVE  FewInv'
  <2>1. CASE UNCHANGED vars
    <3>1. UNCHANGED << pipe, table, pc, sent >>
      BY <2>1 DEF vars, switchVars
    <3>2. SentAddrs' = SentAddrs /\ (LittleSent' <=> LittleSent) /\ HeardOf' = HeardOf
      BY <3>1 DEF SentAddrs, LittleSent, HeardOf
    <3>3. (PipesShort' <=> PipesShort) /\ (Sound' <=> Sound)
      BY <3>1, <3>2 DEF PipesShort, Sound
    <3> QED  BY <1>1, <3>2, <3>3 DEF FewInv
  <2>2. CASE \E h \in HostOut : hostTransmitPacket(h)
    BY <1>1, <2>2, TransmitFew
  <2>3. ASSUME NEW v \in Switches, SwitchStep(v), UNCHANGED sent
        PROVE  FewInv'
    BY <1>1, <2>3, StepFew
  <2> QED  BY <1>1, <2>1, <2>2, <2>3 DEF Next
<1>2. FewInv => FewAreSafe
  BY DEF FewInv, LittleSent, Sound, FewAreSafe
<1> QED  BY <1>1, <1>2, InitFew, InvAlways, PTL DEF Spec
=============================================================================
