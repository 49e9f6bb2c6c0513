---------------------------- MODULE Delivery_proof ----------------------------
(***************************************************************************)
(* What becomes of packets, proved for every number of hosts, addresses    *)
(* and packets.  First for hosts that send at any time: for trees of       *)
(* switches, then for stars, in which all neighbours of switches are       *)
(* hosts; reads are taken to find whole packets, and packets still run     *)
(* together in a pipe and are lost.  Last for trees of switches whose      *)
(* hosts send one packet at a time, see CalmTree in SwitchNet: nothing is  *)
(* taken of reads then.                                                    *)
(***************************************************************************)
EXTENDS SwitchNet_proof

-----------------------------------------------------------------------------
(* What a step of a switch does to its queue, its packet and the pipes *)

\* The packet p comes in on the link that is read: into the queue, or nowhere.
Arrives(v, p) ==
  LET l == inLinks[v][idx[v]]
      Q == Contents(queue[v])
  IN  /\ pc[v] = "store" /\ idx[v] \in DOMAIN inLinks[v] /\ l \in Links
      /\ pipe[l] # << >> /\ p = linkReceive(pipe[l])
      /\ \A k \in Links : pipe'[k] = IF k = l THEN Unread(pipe[l]) ELSE pipe[k]
      /\ outPacket'[v] = outPacket[v] /\ outLink'[v] = outLink[v]
      /\ \/ pc'[v] = "corrupt" /\ queue'[v] = queue[v] /\ table'[v] = table[v]
         \/ /\ pc'[v] = "store"
            /\ table'[v] = Learn(table[v], p, idx[v])
            /\ Contents(queue'[v]) = IF Len(Q) = MAXQUEUE THEN Q ELSE Append(Q, p)

\* The next packet is taken out of the queue and looked up.
Takes(v) ==
  LET p == Head(Contents(queue[v]))
  IN  /\ pc[v] = "store" /\ Contents(queue[v]) # << >>
      /\ pipe' = pipe /\ table'[v] = table[v]
      /\ Contents(queue'[v]) = Tail(Contents(queue[v]))
      /\ outPacket'[v] = p /\ idx'[v] = 1
      /\ pc'[v] = IF p.src_addr # -1 THEN "send" ELSE "store"
      /\ LookedUp(table[v], p.dest_addr, outLink'[v])

\* The packet is sent on the i-th link: the one looked up, or one of all.
Writes(v, i) ==
  /\ pc[v] = "send" /\ i \in DOMAIN outLinks[v]
  /\ \A k \in Links :
       pipe'[k] = IF k = outLinks[v][i] THEN linkSend(pipe[k], outPacket[v]) ELSE pipe[k]
  /\ queue'[v] = queue[v] /\ table'[v] = table[v]
  /\ outPacket'[v] = outPacket[v] /\ outLink'[v] = outLink[v]
  /\ \/ outLink[v] = i /\ pc'[v] = "store"
     \/ /\ outLink[v] = -1 /\ idx[v] = i /\ i # srcLink(v)
        /\ pc'[v] = "send" /\ idx'[v] = i + 1

\* Nothing happens but that the switch goes on to another link or the next loop.
Rests(v) ==
  /\ pipe' = pipe /\ queue'[v] = queue[v] /\ table'[v] = table[v]
  /\ outPacket'[v] = outPacket[v] /\ outLink'[v] = outLink[v]
  /\ \/ pc[v] = "store" /\ pc'[v] = "store"
     \/ /\ pc[v] = "send" /\ outLink[v] = -1 /\ idx[v] = srcLink(v)
        /\ pc'[v] = "send" /\ idx'[v] = idx[v] + 1
     \/ /\ pc[v] = "send" /\ outLink[v] = -1 /\ idx[v] > Len(inLinks[v])
        /\ pc'[v] = "store"

\* There are no other steps.
LEMMA StepCases ==
  ASSUME Inv, NEW v \in Switches, SwitchStep(v)
  PROVE  \/ \E p : Arrives(v, p)
         \/ Takes(v)
         \/ \E i \in DOMAIN outLinks[v] : Writes(v, i)
         \/ Rests(v)
<1>1. /\ Good(v, queue[v], table[v], pc[v], idx[v], outPacket[v], outLink[v])
      /\ SwitchTypeOK /\ pipe \in [Links -> Seq(Cell)]
  BY DEF Inv, SwitchInv
<1>2. ASSUME SwitchReceive(v)  PROVE \E p : Arrives(v, p)
  <2> DEFINE l == inLinks[v][idx[v]]
             p == linkReceive(pipe[l])
             Q == Contents(queue[v])
  <2>1. /\ Polling(v) /\ pipe[l] # << >> /\ (SwitchStore(v, p) \/ SwitchCorrupt(v))
        /\ pipe' = [pipe EXCEPT ![l] = Unread(pipe[l])]
        /\ outPacket' = outPacket /\ outLink' = outLink
    BY <1>2 DEF SwitchReceive
  <2>2. pc[v] = "store" /\ idx[v] \in DOMAIN inLinks[v] /\ l \in Links
    BY <1>1, <2>1, LinksOf DEF Good, Polling
  <2>3. \A k \in Links : pipe'[k] = IF k = l THEN Unread(pipe[l]) ELSE pipe[k]
    BY <1>1, <2>1, <2>2
  <2>4. p \in packetBuffer
    BY <1>1, <2>2, ReceiveType
  <2> HIDE DEF p
  <2>5. \/ pc'[v] = "corrupt" /\ queue'[v] = queue[v] /\ table'[v] = table[v]
        \/ /\ pc'[v] = "store"
           /\ table'[v] = Learn(table[v], p, idx[v])
           /\ Contents(queue'[v]) = IF Len(Q) = MAXQUEUE THEN Q ELSE Append(Q, p)
    <3>1. CASE pc' = [pc EXCEPT ![v] = "corrupt"] /\ queue' = queue /\ table' = table
      BY <1>1, <3>1 DEF SwitchTypeOK
    <3>2. CASE /\ pc' = pc /\ queue' = [queue EXCEPT ![v] = queuePush(@, p)]
               /\ table' = [table EXCEPT ![v] = Learn(@, p, idx[v])]
      <4>1. queue'[v] = queuePush(queue[v], p)
        BY <1>1, <3>2 DEF SwitchTypeOK
      <4>2. /\ Contents(queuePush(queue[v], p)) =
                 IF queue[v].size = MAXQUEUE THEN Q ELSE Append(Q, p)
            /\ Len(Q) = queue[v].size
        BY <1>1, <2>4, PushRing, ContentsSeq DEF Good
      <4>3. table'[v] = Learn(table[v], p, idx[v])
        BY <1>1, <3>2 DEF SwitchTypeOK
      <4> QED  BY <2>2, <3>2, <4>1, <4>2, <4>3
    <3> QED  BY <2>1, <3>1, <3>2 DEF SwitchStore, SwitchCorrupt
  <2>6. Arrives(v, p)
    BY <2>1, <2>2, <2>3, <2>5 DEF Arrives, p
  <2> QED  BY <2>6
<1>3. ASSUME SwitchNextPacket(v)  PROVE Takes(v)
  <2> DEFINE p == queueHead(queue[v])
             q == queuePop(queue[v])
             o == tableGetOutLink(table[v], p.dest_addr)
  <2>1. /\ pc[v] = "store" /\ queue[v].size # 0 /\ pipe' = pipe /\ table' = table
        /\ queue'[v] = q /\ outPacket'[v] = p /\ outLink'[v] = o /\ idx'[v] = 1
        /\ pc'[v] = IF p.src_addr # -1 THEN "send" ELSE "store"
    BY <1>1, <1>3 DEF SwitchNextPacket, Polled, queueIsEmpty, SwitchTypeOK
  <2>2. /\ Contents(queue[v]) # << >> /\ p = Head(Contents(queue[v]))
        /\ Contents(q) = Tail(Contents(queue[v]))
    BY <1>1, <2>1, PopRing DEF Good
  <2>3. LookedUp(table[v], p.dest_addr, o)
    BY <1>1, LookupTable DEF Good, LookedUp
  <2> HIDE DEF p, q, o
  <2> QED  BY <2>1, <2>2, <2>3 DEF Takes
<1>4. ASSUME NEW i \in DOMAIN outLinks[v], Transmit(v, i)
      PROVE  \A k \in Links :
               pipe'[k] = IF k = outLinks[v][i] THEN linkSend(pipe[k], outPacket[v])
                          ELSE pipe[k]
  BY <1>1, <1>4 DEF Transmit
<1>5. ASSUME SwitchUnicast(v)  PROVE Writes(v, outLink[v]) /\ outLink[v] \in DOMAIN outLinks[v]
  <2>1. outLink[v] \in DOMAIN outLinks[v] /\ Transmit(v, outLink[v])
    BY <1>1, <1>5 DEF SwitchUnicast, Good
  <2> QED  BY <1>1, <1>4, <1>5, <2>1 DEF SwitchUnicast, Writes, SwitchTypeOK
<1>6. ASSUME SwitchFlood(v)  PROVE (idx[v] \in DOMAIN outLinks[v] /\ Writes(v, idx[v])) \/ Rests(v)
  <2>1. idx[v] \in DOMAIN outLinks[v]
    BY <1>1, <1>6, LinksOf, SwitchAssumption DEF SwitchFlood, Good
  <2>2. CASE idx[v] # srcLink(v)
    <3>1. Transmit(v, idx[v])
      BY <1>6, <2>2 DEF SwitchFlood
    <3> QED  BY <1>1, <1>4, <1>6, <2>1, <2>2, <3>1 DEF SwitchFlood, Writes, SwitchTypeOK
  <2>3. CASE idx[v] = srcLink(v)
    BY <1>1, <1>6, <2>3 DEF SwitchFlood, Rests, SwitchTypeOK
  <2> QED  BY <2>2, <2>3
<1>7. ASSUME SwitchReceiveNothing(v) \/ SwitchIdle(v) \/ SwitchFloodEnd(v)  PROVE Rests(v)
  <2>1. Len(inLinks[v]) = Len(outLinks[v])
    BY SwitchAssumption
  <2> QED  BY <1>1, <1>7, <2>1 DEF SwitchReceiveNothing, SwitchIdle, SwitchFloodEnd, Rests,
              SwitchTypeOK, Polling, Polled
<1> QED  BY <1>2, <1>3, <1>5, <1>6, <1>7 DEF SwitchStep

-----------------------------------------------------------------------------
(* Packets that hosts have sent *)

\* Each host's history: packets of its own, with their numbers for tags.
History ==
  \A h \in HostOut :
    /\ Len(sent[h]) <= MaxSend[h]
    /\ \A k \in 1 .. Len(sent[h]) :
         /\ sent[h][k] \in Of(h)
         /\ sent[h][k].payload = [from |-> h, seq |-> k]

\* The packets sent so far, and those of S that come from the host on link h.
Sent ==
  { p \in Proper : p.payload \in Tag /\ IsSent(p.payload) /\ p = TheSent(p.payload) }
SentBy(S, h) == { p \in S : p.payload.from = h }

\* Everything on the way or at its end is a packet of S.
GenuinePipe(S, l, s) ==
  /\ MadeOf(S, s)
  /\ BeginsWith(S, s)
  /\ l \in HostOut => BeginsWith(SentBy(S, l), s)

GenuineSwitch(S, Q, c, p) ==
  /\ \A k \in 1 .. Len(Q) : Q[k] \in S
  /\ c = "send" => p \in S

Genuine ==
  /\ History
  /\ \A l \in Links : GenuinePipe(Sent, l, pipe[l])
  /\ \A w \in Switches :
       GenuineSwitch(Sent, Contents(queue[w]), pc[w], outPacket[w])

\* A packet sent is its sender's, and the only one with its tag.
LEMMA SentPackets ==
  ASSUME Inv, History
  PROVE  /\ Sent \subseteq WholePacket
         /\ \A p \in Sent :
              /\ p.payload \in Tag /\ p.payload.from \in HostOut
              /\ p.payload.seq \in 1 .. Len(sent[p.payload.from])
              /\ p = TheSent(p.payload)
              /\ p.src_addr \in SrcAddrs[p.payload.from]
         /\ \A p, q \in Sent : p.payload = q.payload => p = q
         /\ \A t \in Tag : IsSent(t) => TheSent(t) \in Sent /\ TheSent(t).payload = t
<1>1. ASSUME NEW t \in Tag
      PROVE  t.from \in HostOut /\ t = [from |-> t.from, seq |-> t.seq]
  BY DEF Tag
<1>2. ASSUME NEW t \in Tag, IsSent(t)
      PROVE  /\ t.seq \in 1 .. Len(sent[t.from])
             /\ TheSent(t) \in Of(t.from)
             /\ TheSent(t).payload = t
  <2>1. sent[t.from] \in Seq(packetBuffer)
    BY <1>1 DEF Inv
  <2>2. DOMAIN sent[t.from] = 1 .. Len(sent[t.from])
    BY <2>1, LenProperties
  <2>3. t.seq \in 1 .. Len(sent[t.from])
    BY <1>2, <2>2 DEF IsSent
  <2> QED  BY <1>1, <2>3 DEF History, TheSent
<1>3. ASSUME NEW t \in Tag, IsSent(t)  PROVE TheSent(t) \in Sent
  <2>1. TheSent(t) \in Proper
    BY <1>1, <1>2, <1>3, ProperPackets
  <2> QED  BY <1>2, <1>3, <2>1 DEF Sent
<1>4. ASSUME NEW p \in Sent
      PROVE  /\ p.payload \in Tag /\ IsSent(p.payload) /\ p = TheSent(p.payload)
             /\ p \in WholePacket
  BY ProperPackets DEF Sent
<1>5. ASSUME NEW p \in Sent
      PROVE  /\ p.payload.from \in HostOut
             /\ p.payload.seq \in 1 .. Len(sent[p.payload.from])
             /\ p.src_addr \in SrcAddrs[p.payload.from]
  <2>1. TheSent(p.payload) \in Of(p.payload.from)
    BY <1>2, <1>4
  <2> QED  BY <1>1, <1>2, <1>4, <2>1 DEF Of
<1> QED  BY <1>2, <1>3, <1>4, <1>5

\* What is a packet of S is one of a larger set.
LEMMA GenuineGrows ==
  ASSUME NEW S, NEW T, S \subseteq T
  PROVE  /\ \A l, s : GenuinePipe(S, l, s) => GenuinePipe(T, l, s)
         /\ \A Q, c, p : GenuineSwitch(S, Q, c, p) => GenuineSwitch(T, Q, c, p)
<1>1. \A l : SentBy(S, l) \subseteq SentBy(T, l)
  BY DEF SentBy
<1>2. \A A, B, s : A \subseteq B /\ BeginsWith(A, s) => BeginsWith(B, s)
  BY DEF BeginsWith
<1>3. \A s : MadeOf(S, s) => MadeOf(T, s)
  BY DEF MadeOf
<1>4. \A l, s : GenuinePipe(S, l, s) => GenuinePipe(T, l, s)
  BY <1>1, <1>2, <1>3 DEF GenuinePipe
<1>5. \A Q, c, p : GenuineSwitch(S, Q, c, p) => GenuineSwitch(T, Q, c, p)
  BY DEF GenuineSwitch
<1> QED  BY <1>4, <1>5

\* Nothing is on the way in an empty pipe.
LEMMA EmptyGenuine ==
  ASSUME NEW S, NEW l
  PROVE  GenuinePipe(S, l, << >>)
<1>1. PayloadsIn(<< >>) = {}
  BY DEF PayloadsIn, WordStarts
<1> QED  BY <1>1 DEF GenuinePipe, MadeOf, BeginsWith

\* Sending a packet of S keeps a pipe genuine, if it is the sender's pipe or
\* nobody's.
LEMMA SendGenuine ==
  ASSUME NEW S, S \subseteq WholePacket, NEW l, NEW s \in Seq(Cell), GenuinePipe(S, l, s),
         NEW p \in S, l \in HostOut => p.payload.from = l
  PROVE  GenuinePipe(S, l, linkSend(s, p))
<1>1. MadeOf(S, linkSend(s, p)) /\ BeginsWith(S, linkSend(s, p))
  BY SendMadeOf, SendBegins DEF GenuinePipe
<1>2. ASSUME l \in HostOut  PROVE BeginsWith(SentBy(S, l), linkSend(s, p))
  <2>1. p \in SentBy(S, l) /\ SentBy(S, l) \subseteq WholePacket
    BY <1>2 DEF SentBy
  <2> QED  BY <1>2, <2>1, SendBegins DEF GenuinePipe
<1> QED  BY <1>1, <1>2 DEF GenuinePipe

-----------------------------------------------------------------------------
\* Initially nothing has been sent.
LEMMA InitGenuine == Init => Genuine
<1> SUFFICES ASSUME Init  PROVE Genuine
  OBVIOUS
<1>1. History
  BY NetAssumption DEF Init, History
<1>2. \A l \in Links : GenuinePipe(Sent, l, pipe[l])
  BY EmptyGenuine DEF Init
<1>3. ASSUME NEW w \in Switches
      PROVE  GenuineSwitch(Sent, Contents(queue[w]), pc[w], outPacket[w])
  <2>1. queue[w] = queueInit(Uninitialised) /\ pc[w] = "store"
    BY DEF Init, SwitchInit
  <2>2. Contents(queue[w]) = << >>
    BY <2>1, InitRing, UninitialisedType
  <2> QED  BY <2>1, <2>2 DEF GenuineSwitch
<1> QED  BY <1>1, <1>2, <1>3 DEF Genuine

\* A host sends a packet of its own with the next number.
LEMMA TransmitSent ==
  ASSUME Inv, History, NEW h \in HostOut, hostTransmitPacket(h)
  PROVE  \E p \in Of(h) :
           /\ p.payload = [from |-> h, seq |-> Len(sent[h]) + 1]
           /\ sent' = [sent EXCEPT ![h] = Append(@, p)]
           /\ \A k \in Links : pipe'[k] = IF k = h THEN linkSend(pipe[k], p) ELSE pipe[k]
           /\ UNCHANGED switchVars
           /\ History'
           /\ Sent' = Sent \cup {p}
<1>1. PICK src \in SrcAddrs[h], dest \in DestAddrs, len \in 1 .. PAYLOAD_LENGTH :
        LET p == [src_addr |-> src, dest_addr |-> dest, length |-> len,
                  payload |-> [from |-> h, seq |-> Len(sent[h]) + 1],
                  is_valid |-> 1]
        IN  /\ sent' = [sent EXCEPT ![h] = Append(@, p)]
            /\ pipe' = [pipe EXCEPT ![h] = linkSend(@, p)]
  BY DEF hostTransmitPacket
<1> DEFINE n == Len(sent[h])
           tag == [from |-> h, seq |-> n + 1]
           p == [src_addr |-> src, dest_addr |-> dest, length |-> len,
                 payload |-> tag, is_valid |-> 1]
<1>2. /\ pipe \in [Links -> Seq(Cell)] /\ h \in Links
      /\ sent \in [HostOut -> Seq(packetBuffer)]
      /\ n \in Nat /\ n + 1 <= MaxSend[h] /\ n + 1 \in 1 .. MaxSend[h]
  <2>1. n \in Nat /\ n < MaxSend[h] /\ MaxSend[h] \in Nat
    BY LenProperties, NetAssumption DEF Inv, hostTransmitPacket
  <2> QED  BY <2>1, NetAssumption DEF Inv, SwitchInv
<1>3. tag \in Tag /\ tag \in Payload
  <2>1. tag \in [from : {h}, seq : 1 .. MaxSend[h]]
    BY <1>2
  <2> QED  BY <2>1, NetAssumption DEF Tag
<1> HIDE DEF tag
<1>4. p \in Of(h)
  <2>1. src \in Nat /\ dest \in Nat /\ len \in Int /\ len > 0 /\ len <= PAYLOAD_LENGTH
    BY NetAssumption, LinkAssumption
  <2> QED  BY <1>3, <2>1 DEF Of, WholePacket, Sendable, packetBuffer, PayloadOrGarbage
<1>5. p.payload = tag
  OBVIOUS
<1>6. sent' = [sent EXCEPT ![h] = Append(sent[h], p)] /\ pipe' = [pipe EXCEPT ![h] = linkSend(pipe[h], p)]
  BY <1>1 DEF tag
<1> HIDE DEF p, n
<1>7. \A k \in Links : pipe'[k] = IF k = h THEN linkSend(pipe[k], p) ELSE pipe[k]
  BY <1>2, <1>6
<1>8. /\ sent'[h] = Append(sent[h], p)
      /\ \A g \in HostOut : g # h => sent'[g] = sent[g]
  BY <1>2, <1>6
<1>9. /\ Len(sent'[h]) = n + 1
      /\ \A k \in 1 .. n : sent'[h][k] = sent[h][k]
      /\ sent'[h][n + 1] = p
  <2>1. p \in packetBuffer /\ sent[h] \in Seq(packetBuffer)
    BY <1>2, <1>4 DEF Of, WholePacket
  <2> QED  BY <1>8, <2>1, AppendProperties DEF n
<1>10. History'
  <2> SUFFICES ASSUME NEW g \in HostOut
               PROVE  /\ Len(sent'[g]) <= MaxSend[g]
                      /\ \A k \in 1 .. Len(sent'[g]) :
                           /\ sent'[g][k] \in Of(g)
                           /\ sent'[g][k].payload = [from |-> g, seq |-> k]
    BY DEF History, Of
  <2>1. CASE g # h
    BY <1>8, <2>1 DEF History
  <2>2. CASE g = h
    <3>1. \A k \in 1 .. n : sent[h][k] \in Of(h) /\ sent[h][k].payload = [from |-> h, seq |-> k]
      BY DEF History, n
    <3>2. \A k \in 1 .. n + 1 : k \in 1 .. n \/ k = n + 1
      BY <1>2
    <3> QED  BY <1>2, <1>4, <1>5, <1>9, <2>2, <3>1, <3>2 DEF tag
  <2> QED  BY <2>1, <2>2
<1>11. \A g \in HostOut : \A k :
         k \in DOMAIN sent'[g] <=> k \in DOMAIN sent[g] \/ (g = h /\ k = n + 1)
  <2> SUFFICES ASSUME NEW g \in HostOut, NEW k
               PROVE  k \in DOMAIN sent'[g] <=> k \in DOMAIN sent[g] \/ (g = h /\ k = n + 1)
    OBVIOUS
  <2>1. CASE g # h
    BY <1>8, <2>1
  <2>2. CASE g = h
    <3>1. sent[h] \in Seq(packetBuffer) /\ sent'[h] \in Seq(packetBuffer)
      BY <1>2, <1>4, <1>8, AppendProperties DEF Of, WholePacket
    <3>2. DOMAIN sent[h] = 1 .. n /\ DOMAIN sent'[h] = 1 .. n + 1
      BY <1>9, <3>1, LenProperties DEF n
    <3> QED  BY <1>2, <2>2, <3>2
  <2> QED  BY <2>1, <2>2
<1>12. ASSUME NEW q \in Proper, q.payload \in Tag
       PROVE  (IsSent(q.payload) /\ q = TheSent(q.payload))' <=>
                (IsSent(q.payload) /\ q = TheSent(q.payload)) \/ q = p
  <2> DEFINE t == q.payload
  <2>1. t.from \in HostOut /\ t = [from |-> t.from, seq |-> t.seq]
    BY <1>12 DEF Tag
  <2>2. n + 1 \notin DOMAIN sent[h]
    BY <1>2, LenProperties DEF n
  <2>3. \A k \in DOMAIN sent[h] : k \in 1 .. n
    BY <1>2, LenProperties DEF n
  <2>4. CASE t.seq \in DOMAIN sent[t.from]
    <3>1. sent'[t.from][t.seq] = sent[t.from][t.seq]
      BY <1>8, <1>9, <2>1, <2>3, <2>4
    <3>2. q # p
      BY <1>5, <2>2, <2>4 DEF tag
    <3> QED  BY <1>11, <2>1, <2>4, <3>1, <3>2 DEF IsSent, TheSent
  <2>5. CASE t.from = h /\ t.seq = n + 1
    BY <1>9, <1>11, <2>1, <2>2, <2>5 DEF IsSent, TheSent
  <2>6. CASE t.seq \notin DOMAIN sent[t.from] /\ ~(t.from = h /\ t.seq = n + 1)
    <3>1. q # p
      BY <1>5, <2>6 DEF tag
    <3> QED  BY <1>11, <2>1, <2>6, <3>1 DEF IsSent, TheSent
  <2> QED  BY <2>4, <2>5, <2>6
<1>13. Sent' = Sent \cup {p}
  <2>1. p \in Proper /\ p.payload \in Tag
    BY <1>3, <1>4, <1>5, ProperPackets
  <2> QED  BY <1>12, <2>1 DEF Sent, Proper, Addrs
<1>14. UNCHANGED switchVars
  BY DEF hostTransmitPacket
<1>15. p.payload = [from |-> h, seq |-> Len(sent[h]) + 1]
  BY <1>5 DEF tag, n
<1> QED  BY <1>4, <1>6, <1>7, <1>10, <1>13, <1>14, <1>15

\* That keeps everything genuine.
LEMMA TransmitGenuine ==
  ASSUME Inv, Genuine, NEW h \in HostOut, hostTransmitPacket(h)
  PROVE  Genuine'
<1>1. History
  BY DEF Genuine
<1>2. PICK p \in Of(h) :
        /\ p.payload = [from |-> h, seq |-> Len(sent[h]) + 1]
        /\ \A k \in Links : pipe'[k] = IF k = h THEN linkSend(pipe[k], p) ELSE pipe[k]
        /\ UNCHANGED switchVars
        /\ History'
        /\ Sent' = Sent \cup {p}
  BY <1>1, TransmitSent
<1>3. Sent \subseteq Sent' /\ p \in Sent' /\ Sent' \subseteq WholePacket
  BY <1>1, <1>2, SentPackets, ProperPackets
<1>4. ASSUME NEW l \in Links  PROVE GenuinePipe(Sent', l, pipe'[l])
  <2>1. GenuinePipe(Sent, l, pipe[l])
    BY DEF Genuine
  <2>2. GenuinePipe(Sent', l, pipe[l])
    BY <1>3, <2>1, GenuineGrows
  <2>3. CASE l = h
    <3>1. pipe[l] \in Seq(Cell) /\ p.payload.from = l
      BY <1>2, <2>3 DEF Inv, SwitchInv
    <3>2. GenuinePipe(Sent', l, linkSend(pipe[l], p))
      BY <1>3, <2>2, <3>1, SendGenuine
    <3> QED  BY <1>2, <2>3, <3>2
  <2>4. CASE l # h
    BY <1>2, <2>2, <2>4
  <2> QED  BY <2>3, <2>4
<1>5. ASSUME NEW w \in Switches
      PROVE  GenuineSwitch(Sent', Contents(queue'[w]), pc'[w], outPacket'[w])
  <2>1. GenuineSwitch(Sent, Contents(queue[w]), pc[w], outPacket[w])
    BY DEF Genuine
  <2>2. queue' = queue /\ pc' = pc /\ outPacket' = outPacket
    BY <1>2 DEF switchVars
  <2>3. GenuineSwitch(Sent', Contents(queue[w]), pc[w], outPacket[w])
    BY <1>3, <2>1, GenuineGrows
  <2> QED  BY <2>2, <2>3
<1>6. \A w \in Switches :
        GenuineSwitch(Sent, Contents(queue[w]), pc[w], outPacket[w])'
  BY <1>5 DEF Contents, SlotOf
<1> QED  BY <1>2, <1>4, <1>6 DEF Genuine

\* What a switch reads is a packet that was sent, and by the host on the link if
\* there is one; a read leaves nothing.
LEMMA ArrivesSent ==
  ASSUME Inv, Genuine, WholeReads, NEW v \in Switches, NEW p, Arrives(v, p),
         NEW P, P \subseteq Sent, BeginsWith(P, pipe[inLinks[v][idx[v]]])
  PROVE  p \in P /\ Unread(pipe[inLinks[v][idx[v]]]) = << >>
<1> DEFINE l == inLinks[v][idx[v]]
<1>1. /\ l \in Links /\ pipe[l] # << >> /\ p = linkReceive(pipe[l])
      /\ Len(pipe[l]) < ReadMax
  BY DEF Arrives, WholeReads
<1>2. pipe[l] \in Seq(Cell) /\ P \subseteq WholePacket /\ Len(pipe[l]) <= ReadMax
  <2>1. pipe[l] \in Seq(Cell)
    BY <1>1 DEF Inv, SwitchInv
  <2> QED  BY <1>1, <2>1, LenProperties, LinkAssumption, SentPackets DEF Inv, Genuine
<1> HIDE DEF l
<1> QED  BY <1>1, <1>2, ReceiveBegins DEF l

\* Switches pass on what came in, unchanged.
LEMMA SwitchGenuine ==
  ASSUME Inv, Genuine, WholeReads, NEW v \in Switches, SwitchStep(v), sent' = sent
  PROVE  Genuine'
<1>1. /\ History /\ \A l \in Links : GenuinePipe(Sent, l, pipe[l])
      /\ \A w \in Switches : GenuineSwitch(Sent, Contents(queue[w]), pc[w], outPacket[w])
      /\ Sent \subseteq WholePacket
      /\ pipe \in [Links -> Seq(Cell)]
  BY SentPackets DEF Genuine, Inv, SwitchInv
<1>2. GenuineSwitch(Sent, Contents(queue[v]), pc[v], outPacket[v])
  BY <1>1
<1>3. Contents(queue[v]) \in Seq(packetBuffer)
  <2>1. IsRing(queue[v], packetBuffer)
    BY DEF Inv, SwitchInv, Good
  <2> QED  BY <2>1, ContentsSeq
<1> DEFINE Q == Contents(queue[v])
           R == Contents(queue'[v])
           Kept == /\ \A l \in Links : GenuinePipe(Sent, l, pipe'[l])
                   /\ GenuineSwitch(Sent, R, pc'[v], outPacket'[v])
<1> HIDE DEF Q, R
<1>4. ASSUME NEW p, Arrives(v, p)  PROVE Kept
  <2> DEFINE l == inLinks[v][idx[v]]
  <2>1. l \in Links
    BY <1>4 DEF Arrives
  <2>2. p \in Sent /\ Unread(pipe[l]) = << >>
    <3>1. BeginsWith(Sent, pipe[l])
      BY <1>1, <2>1 DEF GenuinePipe
    <3> QED  BY <1>4, <3>1, ArrivesSent
  <2>3. \A k \in Links : pipe'[k] = IF k = l THEN << >> ELSE pipe[k]
    BY <1>4, <2>2 DEF Arrives
  <2>4. \A k \in Links : GenuinePipe(Sent, k, pipe'[k])
    BY <1>1, <2>3, EmptyGenuine
  <2>5. \/ pc'[v] = "corrupt" /\ R = Q
        \/ pc'[v] = "store" /\ (R = Q \/ R = Append(Q, p))
    BY <1>4 DEF Arrives, Q, R
  <2>6. CASE R = Q
    BY <1>2, <2>4, <2>5, <2>6 DEF GenuineSwitch, Q
  <2>7. CASE R = Append(Q, p)
    <3>1. /\ Len(R) = Len(Q) + 1 /\ Len(Q) \in Nat
          /\ \A k \in 1 .. Len(Q) : R[k] = Q[k]
          /\ R[Len(Q) + 1] = p
      <4>1. Q \in Seq(packetBuffer) /\ p \in packetBuffer
        BY <1>1, <1>3, <2>2 DEF WholePacket, Q
      <4> QED  BY <2>7, <4>1, AppendProperties, LenProperties
    <3>2. \A k \in 1 .. Len(R) : k \in 1 .. Len(Q) \/ k = Len(Q) + 1
      BY <3>1
    <3>3. \A k \in 1 .. Len(Q) : Q[k] \in Sent
      BY <1>2 DEF GenuineSwitch, Q
    <3>4. \A k \in 1 .. Len(R) : R[k] \in Sent
      BY <2>2, <3>1, <3>2, <3>3
    <3> QED  BY <2>4, <2>5, <3>4 DEF GenuineSwitch
  <2> QED  BY <2>5, <2>6, <2>7
<1>5. ASSUME Takes(v)  PROVE Kept
  <2>1. /\ Q # << >> /\ R = Tail(Q) /\ outPacket'[v] = Head(Q) /\ pipe' = pipe
        /\ Q \in Seq(packetBuffer)
    BY <1>3, <1>5 DEF Takes, Q, R
  <2>2. /\ Len(R) = Len(Q) - 1 /\ Len(Q) \in Nat \ {0}
        /\ outPacket'[v] = Q[1]
        /\ \A k \in 1 .. Len(R) : R[k] = Q[k + 1]
    BY <2>1, HeadTailProperties, LenProperties, EmptySeq
  <2>3. \A k \in 1 .. Len(Q) : Q[k] \in Sent
    BY <1>2 DEF GenuineSwitch, Q
  <2>4. 1 \in 1 .. Len(Q) /\ \A k \in 1 .. Len(R) : k + 1 \in 1 .. Len(Q)
    BY <2>2
  <2>5. outPacket'[v] \in Sent /\ \A k \in 1 .. Len(R) : R[k] \in Sent
    BY <2>2, <2>3, <2>4
  <2> QED  BY <1>1, <2>1, <2>5 DEF GenuineSwitch
<1>6. ASSUME NEW i \in DOMAIN outLinks[v], Writes(v, i)  PROVE Kept
  <2> DEFINE l == outLinks[v][i]
             p == outPacket[v]
  <2>1. l \in Links /\ l \notin HostOut
    BY LinksOf, NetAssumption
  <2>2. p \in Sent
    BY <1>2, <1>6 DEF Writes, GenuineSwitch
  <2>3. \A k \in Links : pipe'[k] = IF k = l THEN linkSend(pipe[k], p) ELSE pipe[k]
    BY <1>6 DEF Writes
  <2> HIDE DEF l, p
  <2>4. GenuinePipe(Sent, l, linkSend(pipe[l], p))
    BY <1>1, <2>1, <2>2, SendGenuine
  <2>5. \A k \in Links : GenuinePipe(Sent, k, pipe'[k])
    BY <1>1, <2>3, <2>4
  <2>6. R = Q /\ outPacket'[v] = p /\ pc[v] = "send"
    BY <1>6 DEF Writes, Q, R, p
  <2> QED  BY <1>2, <2>2, <2>5, <2>6 DEF GenuineSwitch, Q
<1>7. ASSUME Rests(v)  PROVE Kept
  <2>1. R = Q /\ pipe' = pipe /\ outPacket'[v] = outPacket[v] /\ (pc'[v] = "send" => pc[v] = "send")
    BY <1>7 DEF Rests, Q, R
  <2> QED  BY <1>1, <1>2, <2>1 DEF GenuineSwitch, Q
<1>8. Kept
  BY <1>4, <1>5, <1>6, <1>7, StepCases
<1>9. History' /\ Sent' = Sent
  BY <1>1 DEF History, Sent, Proper, Of, Addrs, IsSent, TheSent
<1>10. ASSUME NEW w \in Switches
       PROVE  GenuineSwitch(Sent, Contents(queue'[w]), pc'[w], outPacket'[w])
  <2>1. CASE w = v
    BY <1>8, <2>1 DEF R
  <2>2. CASE w # v
    BY <1>1, <2>2, OthersKeep
  <2> QED  BY <2>1, <2>2
<1>11. \A w \in Switches :
         GenuineSwitch(Sent, Contents(queue[w]), pc[w], outPacket[w])'
  BY <1>9, <1>10 DEF Contents, SlotOf
<1> QED  BY <1>8, <1>9, <1>11 DEF Genuine

\* So it is after every step.
LEMMA NextGenuine ==
  ASSUME Inv, Genuine, WholeReads, [Next]_vars
  PROVE  Genuine'
<1>1. CASE UNCHANGED vars
  BY <1>1 DEF vars, switchVars, Genuine, History, Sent, Proper, Of, Addrs, IsSent, TheSent,
              Contents, SlotOf
<1>2. CASE \E h \in HostOut : hostTransmitPacket(h)
  BY <1>2, TransmitGenuine
<1>3. ASSUME NEW v \in Switches, SwitchStep(v), UNCHANGED sent
      PROVE  Genuine'
  BY <1>3, SwitchGenuine
<1> QED  BY <1>1, <1>2, <1>3 DEF Next

LEMMA GenuineAlways == Spec /\ []WholeReads => []Genuine
  BY InitGenuine, NextGenuine, InvAlways, PTL DEF Spec

\* link.c:38: in any tree and at any speed, if reads find whole packets, a host
\* gets packets that hosts have sent, header and payload unchanged, and no other
\* payload, although packets run together on the way.
THEOREM NothingIsFabricated == Spec /\ []WholeReads => []NoFabrication
<1>1. Inv /\ Genuine => NoFabrication
  <2> SUFFICES ASSUME Inv, Genuine, NEW l \in HostIn, NEW i \in Payloads(l)
               PROVE  LET t == pipe[l][i].val
                      IN  /\ t \in Tag
                          /\ t.seq \in DOMAIN sent[t.from]
                          /\ SubSeq(pipe[l], i - 3, i + TheSent(t).length - 1)
                               = Encode(TheSent(t))
    BY DEF NoFabrication
  <2>1. i \in PayloadsIn(pipe[l]) /\ MadeOf(Sent, pipe[l])
    BY DEF Payloads, PayloadsIn, Genuine, GenuinePipe, HostIn
  <2>2. PICK p \in Sent : PacketAt(pipe[l], i, p)
    BY <2>1 DEF MadeOf
  <2>3. /\ pipe[l][i].val = p.payload
        /\ SubSeq(pipe[l], i - 3, i + p.length - 1) = Encode(p)
    BY <2>2 DEF PacketAt
  <2>4. p.payload \in Tag /\ IsSent(p.payload) /\ p = TheSent(p.payload)
    BY DEF Sent
  <2> QED  BY <2>3, <2>4 DEF IsSent
<1> QED  BY <1>1, GenuineAlways, InvAlways, PTL

-----------------------------------------------------------------------------
(* Stars *)

\* What waits in the links a switch reads, and what was sent on those it writes.
Inputs(w) == [j \in DOMAIN inLinks[w] |-> pipe[inLinks[w][j]]]
Outputs(w) == [i \in DOMAIN outLinks[w] |-> pipe[outLinks[w][i]]]

\* No link is in two places.
LEMMA LinkEnds ==
  ASSUME Star
  PROVE  /\ \A w \in Switches :
              /\ DOMAIN outLinks[w] = DOMAIN inLinks[w]
              /\ DOMAIN inLinks[w] = 1 .. Len(inLinks[w]) /\ Len(inLinks[w]) \in Nat
              /\ \A i \in DOMAIN inLinks[w] : outLinks[w][i] \in Links
              /\ \A i \in DOMAIN inLinks[w] : inLinks[w][i] \in Links
         /\ \A v, w \in Switches : \A i \in DOMAIN inLinks[v], j \in DOMAIN inLinks[w] :
              /\ inLinks[v][i] = inLinks[w][j] => v = w /\ i = j
              /\ outLinks[v][i] = outLinks[w][j] => v = w /\ i = j
              /\ inLinks[v][i] # outLinks[w][j]
<1>1. \A w \in Switches :
        /\ DOMAIN outLinks[w] = DOMAIN inLinks[w]
        /\ DOMAIN inLinks[w] = 1 .. Len(inLinks[w]) /\ Len(inLinks[w]) \in Nat
        /\ \A i \in DOMAIN inLinks[w] : outLinks[w][i] \in Links
        /\ \A i \in DOMAIN inLinks[w] : inLinks[w][i] \in Links
  BY LinksOf
<1>2. ASSUME NEW v \in Switches, NEW w \in Switches,
             NEW i \in DOMAIN inLinks[v], NEW j \in DOMAIN inLinks[w]
      PROVE  /\ inLinks[v][i] = inLinks[w][j] => v = w /\ i = j
             /\ outLinks[v][i] = outLinks[w][j] => v = w /\ i = j
             /\ inLinks[v][i] # outLinks[w][j]
  <2>1. i \in DOMAIN outLinks[v] /\ j \in DOMAIN outLinks[w]
    BY <1>1
  <2>2. inLinks[v][i] = inLinks[w][j] => v = w /\ i = j
    BY TreeAssumption
  <2>3. outLinks[v][i] = outLinks[w][j] => v = w /\ i = j
    BY <2>1, NetAssumption
  <2>4. inLinks[v][i] \in HostOut /\ outLinks[w][j] \notin HostOut
    BY <2>1, NetAssumption DEF Star
  <2> QED  BY <2>2, <2>3, <2>4
<1> QED  BY <1>1, <1>2

\* The link to a host, when the host is next to a switch.
LEMMA BackLink ==
  ASSUME NEW w \in Switches, NEW i \in DOMAIN outLinks[w]
  PROVE  Back(inLinks[w][i]) = outLinks[w][i]
<1>1. outLinks[w][i] \in Links /\ i \in DOMAIN inLinks[w]
  BY LinksOf
<1>2. ASSUME NEW v \in Switches, NEW j \in DOMAIN outLinks[v], inLinks[v][j] = inLinks[w][i]
      PROVE  outLinks[v][j] = outLinks[w][i]
  <2>1. j \in DOMAIN inLinks[v]
    BY LinksOf
  <2> QED  BY <1>1, <1>2, <2>1, TreeAssumption
<1> QED  BY <1>1, <1>2 DEF Back

\* A packet that comes in empties the switch's link and no other.
LEMMA ArrivesAt ==
  ASSUME Star, Inv, Genuine, WholeReads, NEW v \in Switches, NEW p, Arrives(v, p)
  PROVE  \E j \in DOMAIN inLinks[v] :
           /\ Inputs(v)[j] # << >>
           /\ Inputs(v)' = [Inputs(v) EXCEPT ![j] = << >>] /\ Outputs(v)' = Outputs(v)
           /\ \A w \in Switches :
                w # v => Inputs(w)' = Inputs(w) /\ Outputs(w)' = Outputs(w)
           /\ \A P : P \subseteq Sent /\ BeginsWith(P, Inputs(v)[j]) => p \in P
<1> DEFINE j == idx[v]
           l == inLinks[v][j]
<1>1. j \in DOMAIN inLinks[v] /\ l \in Links /\ pipe[l] # << >>
      /\ \A k \in Links : pipe'[k] = IF k = l THEN Unread(pipe[l]) ELSE pipe[k]
  BY DEF Arrives
<1>2. BeginsWith(Sent, pipe[l])
  BY <1>1 DEF Genuine, GenuinePipe
<1>3. Unread(pipe[l]) = << >>
  BY <1>2, ArrivesSent
<1>4. \A k \in Links : pipe'[k] = IF k = l THEN << >> ELSE pipe[k]
  BY <1>1, <1>3
<1>5. Inputs(v)[j] = pipe[l]
  BY <1>1 DEF Inputs
<1>6. \A P : P \subseteq Sent /\ BeginsWith(P, pipe[l]) => p \in P
  BY ArrivesSent
<1> HIDE DEF j
<1>7. Inputs(v)' = [Inputs(v) EXCEPT ![j] = << >>]
  <2>1. \A k \in DOMAIN inLinks[v] : pipe'[inLinks[v][k]] = IF k = j THEN << >> ELSE pipe[inLinks[v][k]]
    BY <1>1, <1>4, LinkEnds
  <2> QED  BY <1>1, <2>1 DEF Inputs
<1>8. Outputs(v)' = Outputs(v)
  <2>1. \A k \in DOMAIN outLinks[v] : pipe'[outLinks[v][k]] = pipe[outLinks[v][k]]
    BY <1>1, <1>4, LinkEnds
  <2> QED  BY <2>1 DEF Outputs
<1>9. ASSUME NEW w \in Switches, w # v
      PROVE  Inputs(w)' = Inputs(w) /\ Outputs(w)' = Outputs(w)
  <2>1. \A k \in DOMAIN inLinks[w] : pipe'[inLinks[w][k]] = pipe[inLinks[w][k]]
    BY <1>1, <1>4, <1>9, LinkEnds
  <2>2. \A k \in DOMAIN outLinks[w] : pipe'[outLinks[w][k]] = pipe[outLinks[w][k]]
    BY <1>1, <1>4, <1>9, LinkEnds
  <2> QED  BY <2>1, <2>2 DEF Inputs, Outputs
<1> QED  BY <1>1, <1>5, <1>6, <1>7, <1>8, <1>9

\* A packet that is sent changes that output and nothing else.
LEMMA WritesTo ==
  ASSUME Star, NEW v \in Switches, NEW i \in DOMAIN outLinks[v], Writes(v, i)
  PROVE  /\ Inputs(v)' = Inputs(v)
         /\ Outputs(v)' = [Outputs(v) EXCEPT ![i] = linkSend(@, outPacket[v])]
         /\ \A w \in Switches :
              w # v => Inputs(w)' = Inputs(w) /\ Outputs(w)' = Outputs(w)
<1> DEFINE l == outLinks[v][i]
<1>1. /\ l \in Links
      /\ \A k \in Links : pipe'[k] = IF k = l THEN linkSend(pipe[k], outPacket[v]) ELSE pipe[k]
  BY LinkEnds DEF Writes
<1>2. Inputs(v)' = Inputs(v)
  <2>1. \A k \in DOMAIN inLinks[v] : pipe'[inLinks[v][k]] = pipe[inLinks[v][k]]
    BY <1>1, LinkEnds
  <2> QED  BY <2>1 DEF Inputs
<1>3. Outputs(v)' = [Outputs(v) EXCEPT ![i] = linkSend(@, outPacket[v])]
  <2>1. \A k \in DOMAIN outLinks[v] :
          pipe'[outLinks[v][k]] =
            IF k = i THEN linkSend(pipe[outLinks[v][i]], outPacket[v]) ELSE pipe[outLinks[v][k]]
    BY <1>1, LinkEnds
  <2> QED  BY <2>1 DEF Outputs
<1>4. ASSUME NEW w \in Switches, w # v
      PROVE  Inputs(w)' = Inputs(w) /\ Outputs(w)' = Outputs(w)
  <2>1. \A k \in DOMAIN inLinks[w] : pipe'[inLinks[w][k]] = pipe[inLinks[w][k]]
    BY <1>1, LinkEnds
  <2>2. \A k \in DOMAIN outLinks[w] : pipe'[outLinks[w][k]] = pipe[outLinks[w][k]]
    BY <1>1, <1>4, LinkEnds
  <2> QED  BY <2>1, <2>2 DEF Inputs, Outputs
<1> QED  BY <1>2, <1>3, <1>4

-----------------------------------------------------------------------------
(* The order of the packets of one host *)

\* In A are earlier packets than in B, as far as they come from the same host.
Before(A, B) == \A a \in A, b \in B : a.from = b.from => a.seq < b.seq

\* The payloads in s lie in the order in which they were sent.
Ordered(s) ==
  \A i, j \in PayloadsIn(s) :
    i < j /\ s[i].val.from = s[j].val.from => s[i].val.seq < s[j].val.seq

\* The tags of what is in a queue, being sent, or was sent on some output, and of
\* all that has come in at a switch and was not lost.
TagsOf(Q) == { Q[k].payload : k \in 1 .. Len(Q) }
Sending(c, p) == IF c = "send" THEN {p.payload} ELSE {}
OutTags(out) == UNION { TagsIn(out[k]) : k \in DOMAIN out }
Passed(out, Q, c, p) == TagsOf(Q) \cup Sending(c, p) \cup OutTags(out)

\* Within a switch: what it has sent on a link came before what it is sending,
\* unless it has sent that on the link, and that before what it has queued.
InRow(out, Q, c, p, o, i) ==
  /\ \A k \in DOMAIN out : Ordered(out[k]) /\ Before(TagsIn(out[k]), TagsOf(Q))
  /\ \A a, b \in 1 .. Len(Q) : a < b => Before({Q[a].payload}, {Q[b].payload})
  /\ Before(Sending(c, p), TagsOf(Q))
  /\ c = "send" => \A k \in DOMAIN out : (o # -1 \/ i <= k) => Before(TagsIn(out[k]), {p.payload})

\* Of the packets in S from h, those after all in A.
New(S, h, A) == { q \in SentBy(S, h) : Before(A, {q.payload}) }

\* What is found at a switch's inputs, if anything, is a packet after all that
\* have come in there, of which A are the tags.
Fresh(S, w, in, A) == \A j \in DOMAIN inLinks[w] : BeginsWith(New(S, inLinks[w][j], A), in[j])

InOrderAt(w) ==
  /\ InRow(Outputs(w), Contents(queue[w]), pc[w], outPacket[w], outLink[w], idx[w])
  /\ Fresh(Sent, w, Inputs(w), Passed(Outputs(w), Contents(queue[w]), pc[w], outPacket[w]))

AllInOrder == \A w \in Switches : InOrderAt(w)

-----------------------------------------------------------------------------
\* The more has passed, the fewer are new; packets of others do not count.
LEMMA NewParts ==
  ASSUME NEW S, NEW h, NEW A
  PROVE  /\ New(S, h, A) \subseteq S
         /\ \A T, B : S \subseteq T /\ B \subseteq A => New(S, h, A) \subseteq New(T, h, B)
         /\ \A t : t.from # h => New(S, h, A) \subseteq New(S, h, A \cup {t})
  BY DEF New, SentBy, Before

\* So what was found fresh remains so.
LEMMA FreshParts ==
  ASSUME NEW S, NEW T, S \subseteq T, NEW A, NEW B, B \subseteq A, NEW w, NEW in, Fresh(S, w, in, A)
  PROVE  Fresh(T, w, in, B)
<1>1. ASSUME NEW j \in DOMAIN inLinks[w]
      PROVE  BeginsWith(New(T, inLinks[w][j], B), in[j])
  <2>1. New(S, inLinks[w][j], A) \subseteq New(T, inLinks[w][j], B)
    BY NewParts
  <2>2. BeginsWith(New(S, inLinks[w][j], A), in[j])
    BY DEF Fresh
  <2> HIDE DEF New
  <2> QED  BY <2>1, <2>2 DEF BeginsWith
<1> QED  BY <1>1 DEF Fresh

\* A later packet sent on a link lies behind the others.
LEMMA SendOrdered ==
  ASSUME NEW s \in Seq(Cell), NEW p \in WholePacket, Ordered(s),
         Before(TagsIn(s), {p.payload})
  PROVE  Ordered(linkSend(s, p))
<1> DEFINE c == s \o Encode(p)
           n == Len(s)
<1>1. /\ n \in Nat
      /\ \A i \in 1 .. n : c[i] = s[i]
      /\ PayloadsIn(s) \subseteq 1 .. n
      /\ PayloadsIn(c) = PayloadsIn(s) \cup {n + 4}
      /\ c[n + 4].val = p.payload
  BY AppendPayload
<1>2. linkSend(s, p) = s \/ linkSend(s, p) = c
  BY DEF linkSend, Write
<1> HIDE DEF c, n
<1>3. Ordered(c)
  <2> SUFFICES ASSUME NEW i \in PayloadsIn(c), NEW j \in PayloadsIn(c), i < j,
                      c[i].val.from = c[j].val.from
               PROVE  c[i].val.seq < c[j].val.seq
    BY DEF Ordered
  <2>1. i \in PayloadsIn(s)
    BY <1>1
  <2>2. c[i] = s[i]
    BY <1>1, <2>1
  <2>3. CASE j \in PayloadsIn(s)
    <3>1. c[j] = s[j]
      BY <1>1, <2>3
    <3> QED  BY <2>1, <2>2, <2>3, <3>1 DEF Ordered
  <2>4. CASE j = n + 4
    <3>1. s[i].val \in TagsIn(s)
      BY <2>1 DEF TagsIn
    <3> QED  BY <1>1, <2>2, <2>4, <3>1 DEF Before
  <2> QED  BY <1>1, <2>3, <2>4
<1> QED  BY <1>2, <1>3 DEF c

\* The tags of a longer queue.
LEMMA TagsAppend ==
  ASSUME NEW Q \in Seq(packetBuffer), NEW q \in packetBuffer
  PROVE  TagsOf(Append(Q, q)) = TagsOf(Q) \cup {q.payload}
<1> DEFINE R == Append(Q, q)
           n == Len(Q)
<1>1. n \in Nat /\ Len(R) = n + 1 /\ (\A k \in 1 .. n : R[k] = Q[k]) /\ R[n + 1] = q
  BY AppendProperties, LenProperties
<1> HIDE DEF R, n
<1>2. \A k \in 1 .. Len(R) : k \in 1 .. n \/ k = n + 1
  BY <1>1
<1>3. 1 .. n \subseteq 1 .. Len(R) /\ n + 1 \in 1 .. Len(R)
  BY <1>1
<1>4. TagsOf(R) = TagsOf(Q) \cup {q.payload}
  BY <1>1, <1>2, <1>3 DEF TagsOf, n
<1> QED  BY <1>4 DEF R

\* A packet after all that have passed is put in the queue.
LEMMA RowArrives ==
  ASSUME NEW out, NEW Q \in Seq(packetBuffer), NEW p, NEW o, NEW i,
         InRow(out, Q, "store", p, o, i), NEW q \in packetBuffer,
         Before(Passed(out, Q, "store", p), {q.payload}), NEW c, c # "send", NEW j
  PROVE  InRow(out, Append(Q, q), c, p, o, j)
<1> DEFINE R == Append(Q, q)
           n == Len(Q)
<1>1. n \in Nat /\ Len(R) = n + 1 /\ (\A k \in 1 .. n : R[k] = Q[k]) /\ R[n + 1] = q
  BY AppendProperties, LenProperties
<1> HIDE DEF R, n
<1>2. \A k \in 1 .. Len(R) : k \in 1 .. n \/ k = n + 1
  BY <1>1
<1>3. TagsOf(R) = TagsOf(Q) \cup {q.payload}
  BY TagsAppend DEF R
<1>4. Before(OutTags(out), {q.payload}) /\ Before(TagsOf(Q), {q.payload})
  BY DEF Passed, Before
<1>5. ASSUME NEW k \in DOMAIN out  PROVE Ordered(out[k]) /\ Before(TagsIn(out[k]), TagsOf(R))
  <2>1. TagsIn(out[k]) \subseteq OutTags(out)
    BY DEF OutTags
  <2>2. Before(TagsIn(out[k]), {q.payload})
    BY <1>4, <2>1 DEF Before
  <2>3. Ordered(out[k]) /\ Before(TagsIn(out[k]), TagsOf(Q))
    BY DEF InRow
  <2> QED  BY <1>3, <2>2, <2>3 DEF Before
<1>6. ASSUME NEW a \in 1 .. Len(R), NEW b \in 1 .. Len(R), a < b
      PROVE  Before({R[a].payload}, {R[b].payload})
  <2>1. a \in 1 .. n
    BY <1>1, <1>2, <1>6
  <2>2. CASE b \in 1 .. n
    BY <1>1, <1>6, <2>1, <2>2 DEF InRow, n
  <2>3. CASE b = n + 1
    <3>1. R[a].payload \in TagsOf(Q) /\ R[b] = q
      BY <1>1, <2>1, <2>3 DEF TagsOf, n
    <3> QED  BY <1>4, <3>1 DEF Before
  <2> QED  BY <1>2, <2>2, <2>3
<1>7. Before(Sending(c, p), TagsOf(R))
  BY DEF Sending, Before
<1>8. InRow(out, R, c, p, o, j)
  BY <1>5, <1>6, <1>7 DEF InRow
<1> QED  BY <1>8 DEF R

\* The first packet is taken out of the queue.
LEMMA RowTakes ==
  ASSUME NEW out, NEW Q \in Seq(packetBuffer), Q # << >>, NEW p, NEW o, NEW i,
         InRow(out, Q, "store", p, o, i), NEW c, NEW m, NEW j
  PROVE  /\ InRow(out, Tail(Q), c, Head(Q), m, j)
         /\ Passed(out, Tail(Q), c, Head(Q)) \subseteq Passed(out, Q, "store", p)
<1> DEFINE R == Tail(Q)
           q == Head(Q)
           n == Len(Q)
<1>1. /\ n \in Nat \ {0} /\ Len(R) = n - 1 /\ q = Q[1]
      /\ \A k \in 1 .. Len(R) : R[k] = Q[k + 1]
  BY HeadTailProperties, LenProperties, EmptySeq
<1> HIDE DEF R, q, n
<1>2. 1 \in 1 .. n /\ \A k \in 1 .. Len(R) : k + 1 \in 1 .. n /\ 1 < k + 1
  BY <1>1
<1>3. TagsOf(R) \subseteq TagsOf(Q) /\ q.payload \in TagsOf(Q)
  BY <1>1, <1>2 DEF TagsOf, n
<1>4. ASSUME NEW k \in DOMAIN out
      PROVE  /\ Ordered(out[k]) /\ Before(TagsIn(out[k]), TagsOf(R))
             /\ Before(TagsIn(out[k]), {q.payload})
  <2>1. Ordered(out[k]) /\ Before(TagsIn(out[k]), TagsOf(Q))
    BY DEF InRow
  <2> QED  BY <1>3, <2>1 DEF Before
<1>5. ASSUME NEW a \in 1 .. Len(R), NEW b \in 1 .. Len(R), a < b
      PROVE  Before({R[a].payload}, {R[b].payload})
  <2>1. a + 1 \in 1 .. n /\ b + 1 \in 1 .. n /\ a + 1 < b + 1
    BY <1>1, <1>5
  <2>2. Before({Q[a + 1].payload}, {Q[b + 1].payload})
    BY <2>1 DEF InRow, n
  <2> QED  BY <1>1, <2>2
<1>6. Before({q.payload}, TagsOf(R))
  <2>1. ASSUME NEW k \in 1 .. Len(R)  PROVE Before({q.payload}, {R[k].payload})
    <3>1. Before({Q[1].payload}, {Q[k + 1].payload})
      BY <1>2 DEF InRow, n
    <3> QED  BY <1>1, <3>1
  <2> QED  BY <2>1 DEF Before, TagsOf
<1>7. Before(Sending(c, q), TagsOf(R))
  BY <1>6 DEF Sending, Before
<1>8. InRow(out, R, c, q, m, j)
  BY <1>4, <1>5, <1>7 DEF InRow
<1>9. Passed(out, R, c, q) \subseteq Passed(out, Q, "store", p)
  BY <1>3 DEF Passed, Sending
<1> QED  BY <1>8, <1>9 DEF R, q

\* The packet is sent on one link.
LEMMA RowWrites ==
  ASSUME NEW D, NEW out \in [D -> Seq(Cell)], NEW Q \in Seq(packetBuffer),
         NEW p \in WholePacket, NEW o, NEW i \in Int, InRow(out, Q, "send", p, o, i),
         NEW k \in D, D \subseteq Int, o # -1 \/ i = k, NEW c, NEW j \in Int,
         c # "send" \/ (o = -1 /\ j = k + 1)
  PROVE  LET new == [out EXCEPT ![k] = linkSend(@, p)]
         IN  /\ InRow(new, Q, c, p, o, j)
             /\ Passed(new, Q, c, p) \subseteq Passed(out, Q, "send", p)
<1> DEFINE new == [out EXCEPT ![k] = linkSend(@, p)]
<1>1. /\ DOMAIN out = D /\ DOMAIN new = D
      /\ new[k] = linkSend(out[k], p)
      /\ \A m \in D : m # k => new[m] = out[m]
  OBVIOUS
<1> HIDE DEF new
<1>2. /\ Before(TagsIn(out[k]), {p.payload}) /\ Ordered(out[k])
      /\ Before({p.payload}, TagsOf(Q))
  <2>1. k \in DOMAIN out /\ (o # -1 \/ i <= k)
    BY <1>1
  <2> QED  BY <2>1 DEF InRow, Sending
<1>3. TagsIn(new[k]) \subseteq TagsIn(out[k]) \cup {p.payload}
  <2>1. out[k] \in Seq(Cell)
    OBVIOUS
  <2> QED  BY <1>1, <2>1, SendTags
<1>4. Ordered(new[k])
  BY <1>1, <1>2, SendOrdered
<1>5. Before(TagsIn(new[k]), TagsOf(Q))
  <2>1. Before(TagsIn(out[k]), TagsOf(Q))
    BY <1>1 DEF InRow
  <2>2. Before(TagsIn(out[k]) \cup {p.payload}, TagsOf(Q))
    BY <1>2, <2>1 DEF Before
  <2> QED  BY <1>3, <2>2 DEF Before
<1>6. \A m \in D : Ordered(new[m]) /\ Before(TagsIn(new[m]), TagsOf(Q))
  BY <1>1, <1>4, <1>5 DEF InRow
<1>7. Before(Sending(c, p), TagsOf(Q))
  BY <1>2 DEF Sending, Before
<1>8. ASSUME c = "send", NEW m \in D, o # -1 \/ j <= m
      PROVE  Before(TagsIn(new[m]), {p.payload})
  <2>1. m # k /\ i <= m
    BY <1>8
  <2> QED  BY <1>1, <2>1 DEF InRow
<1>9. InRow(new, Q, c, p, o, j)
  BY <1>1, <1>6, <1>7, <1>8 DEF InRow
<1>10. OutTags(new) \subseteq OutTags(out) \cup {p.payload}
  BY <1>1, <1>3 DEF OutTags
<1>11. Passed(new, Q, c, p) \subseteq Passed(out, Q, "send", p)
  BY <1>10 DEF Passed, Sending
<1> QED  BY <1>9, <1>11 DEF new

-----------------------------------------------------------------------------
\* Initially there is nothing to be out of order.
LEMMA InitOrder == Init => AllInOrder
<1> SUFFICES ASSUME Init, NEW w \in Switches  PROVE InOrderAt(w)
  BY DEF AllInOrder
<1>1. /\ queue[w] = queueInit(Uninitialised) /\ pc[w] = "store"
      /\ \A l \in Links : pipe[l] = << >>
  BY DEF Init, SwitchInit
<1>2. Contents(queue[w]) = << >> /\ Len(<< >>) = 0
  BY <1>1, InitRing, UninitialisedType
<1>3. Ordered(<< >>) /\ TagsIn(<< >>) = {}
  BY DEF Ordered, TagsIn, PayloadsIn, WordStarts
<1>4. \A i \in DOMAIN Outputs(w) : Outputs(w)[i] = << >>
  BY <1>1, LinksOf DEF Outputs
<1>5. \A j \in DOMAIN inLinks[w] : Inputs(w)[j] = << >>
  BY <1>1, LinksOf DEF Inputs
<1>6. InRow(Outputs(w), << >>, "store", outPacket[w], outLink[w], idx[w])
  BY <1>2, <1>3, <1>4 DEF InRow, Before, Sending
<1>7. \A A : Fresh(Sent, w, Inputs(w), A)
  BY <1>5 DEF Fresh, BeginsWith
<1> QED  BY <1>1, <1>2, <1>6, <1>7 DEF InOrderAt

\* All that has passed a switch was sent.
LEMMA PassedSent ==
  ASSUME Genuine, NEW w \in Switches
  PROVE  \A a \in Passed(Outputs(w), Contents(queue[w]), pc[w], outPacket[w]) :
           \E q \in Sent : q.payload = a
<1>1. GenuineSwitch(Sent, Contents(queue[w]), pc[w], outPacket[w])
  BY DEF Genuine
<1>2. \A a \in TagsOf(Contents(queue[w])) : \E q \in Sent : q.payload = a
  BY <1>1 DEF TagsOf, GenuineSwitch
<1>3. \A a \in Sending(pc[w], outPacket[w]) : \E q \in Sent : q.payload = a
  BY <1>1 DEF Sending, GenuineSwitch
<1>4. ASSUME NEW i \in DOMAIN outLinks[w], NEW a \in TagsIn(Outputs(w)[i])
      PROVE  \E q \in Sent : q.payload = a
  <2>1. Outputs(w)[i] = pipe[outLinks[w][i]] /\ outLinks[w][i] \in Links
    BY LinksOf DEF Outputs
  <2>2. MadeOf(Sent, pipe[outLinks[w][i]])
    BY <2>1 DEF Genuine, GenuinePipe
  <2>3. PICK k \in PayloadsIn(pipe[outLinks[w][i]]) : a = pipe[outLinks[w][i]][k].val
    BY <1>4, <2>1 DEF TagsIn
  <2>4. PICK q \in Sent : PacketAt(pipe[outLinks[w][i]], k, q)
    BY <2>2 DEF MadeOf
  <2> QED  BY <2>3, <2>4 DEF PacketAt
<1>5. DOMAIN Outputs(w) = DOMAIN outLinks[w]
  BY DEF Outputs
<1> QED  BY <1>2, <1>3, <1>4, <1>5 DEF Passed, OutTags

\* What a host sends is newer than all that has passed.
LEMMA TransmitOrder ==
  ASSUME Star, Inv, Genuine, AllInOrder, NEW h \in HostOut, hostTransmitPacket(h)
  PROVE  AllInOrder'
<1>1. History
  BY DEF Genuine
<1>2. PICK p \in Of(h) :
        /\ p.payload = [from |-> h, seq |-> Len(sent[h]) + 1]
        /\ \A k \in Links : pipe'[k] = IF k = h THEN linkSend(pipe[k], p) ELSE pipe[k]
        /\ UNCHANGED switchVars
        /\ Sent' = Sent \cup {p}
        /\ History'
  BY <1>1, TransmitSent
<1>3. /\ Sent \subseteq Sent' /\ p \in Sent' /\ Sent' \subseteq WholePacket
      /\ pipe \in [Links -> Seq(Cell)]
  BY <1>1, <1>2, SentPackets, ProperPackets DEF Inv, SwitchInv
<1>4. ASSUME NEW w \in Switches
      PROVE  InOrderAt(w)'
  <2> DEFINE A == Passed(Outputs(w), Contents(queue[w]), pc[w], outPacket[w])
  <2>1. /\ InRow(Outputs(w), Contents(queue[w]), pc[w], outPacket[w], outLink[w], idx[w])
        /\ Fresh(Sent, w, Inputs(w), A)
    BY DEF AllInOrder, InOrderAt
  <2>2. /\ queue' = queue /\ pc' = pc /\ outPacket' = outPacket /\ outLink' = outLink
        /\ idx' = idx
    BY <1>2 DEF switchVars
  <2>3. Outputs(w)' = Outputs(w)
    <3>1. \A i \in DOMAIN outLinks[w] : pipe'[outLinks[w][i]] = pipe[outLinks[w][i]]
      BY <1>2, LinksOf, NetAssumption
    <3> QED  BY <3>1 DEF Outputs
  <2>4. Before(A, {p.payload})
    <3> SUFFICES ASSUME NEW a \in A, a.from = h  PROVE a.seq < Len(sent[h]) + 1
      BY <1>2 DEF Before
    <3>1. PICK q \in Sent : q.payload = a
      BY PassedSent
    <3>2. a.seq \in 1 .. Len(sent[h])
      BY <1>1, <3>1, SentPackets
    <3>3. Len(sent[h]) \in Nat
      BY LenProperties DEF Inv
    <3> QED  BY <3>2, <3>3
  <2> HIDE DEF A
  <2>5. Fresh(Sent', w, Inputs(w), A)
    BY <1>3, <2>1, FreshParts
  <2>6. ASSUME NEW j \in DOMAIN inLinks[w]
        PROVE  BeginsWith(New(Sent', inLinks[w][j], A), pipe'[inLinks[w][j]])
    <3>1. BeginsWith(New(Sent', inLinks[w][j], A), pipe[inLinks[w][j]]) /\ inLinks[w][j] \in Links
      BY <2>5, LinkEnds DEF Fresh, Inputs
    <3>2. CASE inLinks[w][j] # h
      BY <1>2, <3>1, <3>2
    <3>3. CASE inLinks[w][j] = h
      <4>1. p \in New(Sent', h, A) /\ New(Sent', h, A) \subseteq WholePacket
        <5>1. p \in Sent' /\ p.payload.from = h
          BY <1>2, <1>3
        <5>2. New(Sent', h, A) \subseteq Sent'
          BY DEF New, SentBy
        <5> QED  BY <1>3, <2>4, <5>1, <5>2 DEF New, SentBy
      <4>2. BeginsWith(New(Sent', h, A), pipe[h]) /\ pipe[h] \in Seq(Cell)
        BY <1>3, <3>1, <3>3
      <4>3. BeginsWith(New(Sent', h, A), linkSend(pipe[h], p))
        BY <4>1, <4>2, SendBegins
      <4> QED  BY <1>2, <3>1, <3>3, <4>3
    <3> QED  BY <3>2, <3>3
  <2>7. Fresh(Sent', w, Inputs(w)', A)
    BY <2>6 DEF Fresh, Inputs
  <2>8. /\ InRow(Outputs(w)', Contents(queue'[w]), pc'[w], outPacket'[w], outLink'[w], idx'[w])
        /\ Fresh(Sent', w, Inputs(w)',
                 Passed(Outputs(w)', Contents(queue'[w]), pc'[w], outPacket'[w]))
    BY <2>1, <2>2, <2>3, <2>7 DEF A
  <2> QED  BY <2>8 DEF InOrderAt, Contents, SlotOf, InRow, Fresh, New, SentBy, Passed, OutTags
<1> QED  BY <1>4 DEF AllInOrder

\* A switch keeps the order of each host's packets.
LEMMA SwitchOrder ==
  ASSUME Star, Inv, Genuine, AllInOrder, WholeReads, NEW v \in Switches, SwitchStep(v),
         sent' = sent
  PROVE  AllInOrder'
<1> DEFINE in == Inputs(v)
           out == Outputs(v)
           Q == Contents(queue[v])
           R == Contents(queue'[v])
           c == pc[v]
           p == outPacket[v]
           o == outLink[v]
           i == idx[v]
           A == Passed(out, Q, c, p)
           Row == InRow(Outputs(v)', R, pc'[v], outPacket'[v], outLink'[v], idx'[v])
           New2 == Fresh(Sent, v, Inputs(v)', Passed(Outputs(v)', R, pc'[v], outPacket'[v]))
           Others == \A w \in Switches :
                       w # v => Inputs(w)' = Inputs(w) /\ Outputs(w)' = Outputs(w)
           Kept == Row /\ New2 /\ Others
<1>1. InRow(out, Q, c, p, o, i) /\ Fresh(Sent, v, in, A)
  BY DEF AllInOrder, InOrderAt
<1>2. /\ Q \in Seq(packetBuffer) /\ Sent \subseteq WholePacket
      /\ out \in [DOMAIN inLinks[v] -> Seq(Cell)] /\ DOMAIN inLinks[v] \subseteq Int
      /\ DOMAIN outLinks[v] = DOMAIN inLinks[v] /\ DOMAIN in = DOMAIN inLinks[v]
      /\ i \in Int
  <2>1. IsRing(queue[v], packetBuffer) /\ pipe \in [Links -> Seq(Cell)] /\ idx[v] \in Nat
    BY DEF Inv, SwitchInv, Good
  <2>2. out \in [DOMAIN inLinks[v] -> Seq(Cell)] /\ DOMAIN in = DOMAIN inLinks[v]
    BY <2>1, LinkEnds DEF Inputs, Outputs
  <2> QED  BY <2>1, <2>2, ContentsSeq, LinkEnds, SentPackets DEF Genuine
<1>3. GenuineSwitch(Sent, Q, c, p)
  BY DEF Genuine
<1> HIDE DEF in, out, Q, R
<1>4. ASSUME NEW q, Arrives(v, q)  PROVE Kept
  <2>1. PICK j \in DOMAIN inLinks[v] :
          /\ Inputs(v)' = [in EXCEPT ![j] = << >>] /\ Outputs(v)' = out
          /\ Others
          /\ \A P : P \subseteq Sent /\ BeginsWith(P, in[j]) => q \in P
    BY <1>4, ArrivesAt DEF in, out
  <2>2. q \in New(Sent, inLinks[v][j], A)
    <3>1. BeginsWith(New(Sent, inLinks[v][j], A), in[j])
      BY <1>1 DEF Fresh
    <3>2. New(Sent, inLinks[v][j], A) \subseteq Sent
      BY DEF New, SentBy
    <3> QED  BY <2>1, <3>1, <3>2
  <2>3. q \in packetBuffer /\ q.payload.from = inLinks[v][j] /\ Before(A, {q.payload})
    BY <1>2, <2>2 DEF New, SentBy, WholePacket
  <2>4. /\ c = "store" /\ outPacket'[v] = p /\ outLink'[v] = o
        /\ pc'[v] # "send"
        /\ R = Q \/ R = Append(Q, q)
    BY <1>4 DEF Arrives, Q, R
  <2>5. Fresh(Sent, v, [in EXCEPT ![j] = << >>], A \cup {q.payload})
    <3> SUFFICES ASSUME NEW k \in DOMAIN inLinks[v]
                 PROVE  BeginsWith(New(Sent, inLinks[v][k], A \cup {q.payload}),
                                   [in EXCEPT ![j] = << >>][k])
      BY DEF Fresh
    <3>1. CASE k = j
      BY <1>2, <3>1 DEF BeginsWith
    <3>2. CASE k # j
      <4>1. [in EXCEPT ![j] = << >>][k] = in[k]
        BY <1>2, <3>2
      <4>2. inLinks[v][k] # inLinks[v][j]
        BY <3>2, LinkEnds
      <4>3. New(Sent, inLinks[v][k], A) \subseteq New(Sent, inLinks[v][k], A \cup {q.payload})
        BY <2>3, <4>2, NewParts
      <4>4. BeginsWith(New(Sent, inLinks[v][k], A), in[k])
        BY <1>1 DEF Fresh
      <4> QED  BY <4>1, <4>3, <4>4 DEF BeginsWith
    <3> QED  BY <3>1, <3>2
  <2>6. CASE R = Q
    <3>1. InRow(out, Q, pc'[v], p, o, idx'[v])
      BY <1>1, <2>4 DEF InRow, Sending, Before
    <3>2. Passed(out, Q, pc'[v], p) \subseteq A \cup {q.payload}
      BY <2>4 DEF Passed, Sending
    <3> QED  BY <2>1, <2>4, <2>5, <2>6, <3>1, <3>2, FreshParts
  <2>7. CASE R = Append(Q, q)
    <3>1. InRow(out, Append(Q, q), pc'[v], p, o, idx'[v])
      <4>1. InRow(out, Q, "store", p, o, i) /\ Before(Passed(out, Q, "store", p), {q.payload})
        BY <1>1, <2>3, <2>4
      <4>2. Q \in Seq(packetBuffer) /\ q \in packetBuffer /\ pc'[v] # "send"
        BY <1>2, <2>3, <2>4
      <4> HIDE DEF p, o, i
      <4> QED  BY <4>1, <4>2, RowArrives
    <3>2. Passed(out, R, pc'[v], p) \subseteq A \cup {q.payload}
      BY <1>2, <2>3, <2>4, <2>7, TagsAppend DEF Passed, Sending
    <3> QED  BY <2>1, <2>4, <2>5, <2>7, <3>1, <3>2, FreshParts
  <2> QED  BY <2>4, <2>6, <2>7
<1>5. ASSUME pipe' = pipe
      PROVE  Inputs(v)' = in /\ Outputs(v)' = out /\ Others
  BY <1>5 DEF Inputs, Outputs, in, out
<1>6. ASSUME Takes(v)  PROVE Kept
  <2>1. /\ c = "store" /\ Q # << >> /\ R = Tail(Q) /\ outPacket'[v] = Head(Q)
        /\ pipe' = pipe
    BY <1>6 DEF Takes, Q, R
  <2>2. /\ InRow(out, R, pc'[v], Head(Q), outLink'[v], idx'[v])
        /\ Passed(out, R, pc'[v], Head(Q)) \subseteq A
    BY <1>1, <1>2, <2>1, RowTakes
  <2>3. Fresh(Sent, v, in, Passed(out, R, pc'[v], Head(Q)))
    BY <1>1, <2>2, FreshParts
  <2> QED  BY <1>5, <2>1, <2>2, <2>3
<1>7. ASSUME NEW k \in DOMAIN outLinks[v], Writes(v, k)  PROVE Kept
  <2> DEFINE new == [out EXCEPT ![k] = linkSend(@, p)]
  <2>1. Inputs(v)' = in /\ Outputs(v)' = new /\ Others
    BY <1>7, WritesTo DEF in, out
  <2>2. /\ c = "send" /\ R = Q /\ outPacket'[v] = p /\ outLink'[v] = o
        /\ o # -1 \/ i = k
        /\ pc'[v] # "send" \/ (o = -1 /\ idx'[v] = k + 1)
    <3>1. k # -1
      BY <1>2, LinkEnds
    <3> QED  BY <1>7, <3>1 DEF Writes, Q, R
  <2>3. p \in WholePacket
    BY <1>2, <1>3, <2>2 DEF GenuineSwitch
  <2>4. idx'[v] \in Int
    BY SwitchStepInv DEF Inv, SwitchInv, Good
  <2>5. /\ InRow(new, Q, pc'[v], p, o, idx'[v])
        /\ Passed(new, Q, pc'[v], p) \subseteq A
    <3>1. InRow(out, Q, "send", p, o, i) /\ Passed(out, Q, "send", p) = A
      BY <1>1, <2>2
    <3>2. k \in DOMAIN inLinks[v]
      BY <1>2
    <3>3. /\ out \in [DOMAIN inLinks[v] -> Seq(Cell)] /\ Q \in Seq(packetBuffer)
          /\ i \in Int /\ DOMAIN inLinks[v] \subseteq Int
      BY <1>2
    <3>4. o # -1 \/ i = k
      BY <2>2
    <3>5. pc'[v] # "send" \/ (o = -1 /\ idx'[v] = k + 1)
      BY <2>2
    <3> HIDE DEF c, p, o, i, A
    <3> QED  BY <2>3, <2>4, <3>1, <3>2, <3>3, <3>4, <3>5, RowWrites
  <2>6. Fresh(Sent, v, in, Passed(new, Q, pc'[v], p))
    <3> HIDE DEF c, p, o, i, A, new
    <3> QED  BY <1>1, <2>5, FreshParts
  <2> QED  BY <2>1, <2>2, <2>5, <2>6
<1>8. ASSUME Rests(v)  PROVE Kept
  <2>1. /\ R = Q /\ outPacket'[v] = p /\ outLink'[v] = o /\ pipe' = pipe
        /\ pc'[v] = "send" => c = "send" /\ o = -1 /\ idx'[v] = i + 1
    BY <1>8 DEF Rests, Q, R
  <2>2. InRow(out, Q, pc'[v], p, o, idx'[v])
    <3>1. CASE pc'[v] # "send"
      BY <1>1, <3>1 DEF InRow, Sending, Before
    <3>2. CASE pc'[v] = "send"
      <4>1. \A k \in DOMAIN out : idx'[v] <= k => i <= k
        BY <1>2, <2>1, <3>2
      <4> QED  BY <1>1, <2>1, <3>2, <4>1 DEF InRow
    <3> QED  BY <3>1, <3>2
  <2>3. Passed(out, Q, pc'[v], p) \subseteq A
    BY <2>1 DEF Passed, Sending
  <2>4. Fresh(Sent, v, in, Passed(out, Q, pc'[v], p))
    BY <1>1, <2>3, FreshParts
  <2> QED  BY <1>5, <2>1, <2>2, <2>4
<1>9. Kept
  BY <1>4, <1>6, <1>7, <1>8, StepCases
<1>10. Sent' = Sent
  BY DEF Sent, Proper, Addrs, IsSent, TheSent
<1>11. ASSUME NEW w \in Switches
       PROVE  /\ InRow(Outputs(w)', Contents(queue'[w]), pc'[w], outPacket'[w], outLink'[w], idx'[w])
              /\ Fresh(Sent, w, Inputs(w)',
                       Passed(Outputs(w)', Contents(queue'[w]), pc'[w], outPacket'[w]))
  <2>1. CASE w = v
    BY <1>9, <2>1 DEF R
  <2>2. CASE w # v
    <3>1. Inputs(w)' = Inputs(w) /\ Outputs(w)' = Outputs(w)
      BY <1>9, <2>2
    <3>2. /\ queue'[w] = queue[w] /\ pc'[w] = pc[w] /\ idx'[w] = idx[w]
          /\ outPacket'[w] = outPacket[w] /\ outLink'[w] = outLink[w]
      BY <2>2, OthersKeep
    <3> QED  BY <3>1, <3>2 DEF AllInOrder, InOrderAt
  <2> QED  BY <2>1, <2>2
<1>12. ASSUME NEW w \in Switches  PROVE InOrderAt(w)'
  BY <1>10, <1>11 DEF InOrderAt, Contents, SlotOf, InRow, Fresh, New, SentBy, Passed, OutTags
<1> QED  BY <1>12 DEF AllInOrder

\* So does every step.
LEMMA NextOrder ==
  ASSUME Star, Inv, Genuine, AllInOrder, WholeReads, [Next]_vars
  PROVE  AllInOrder'
<1>1. CASE UNCHANGED vars
  <2>1. /\ \A w \in Switches : Inputs(w)' = Inputs(w) /\ Outputs(w)' = Outputs(w)
        /\ Sent' = Sent
        /\ queue' = queue /\ pc' = pc /\ idx' = idx /\ outPacket' = outPacket
        /\ outLink' = outLink
    BY <1>1 DEF vars, switchVars, Inputs, Outputs, Sent, Proper, Addrs, IsSent, TheSent
  <2>2. ASSUME NEW w \in Switches  PROVE InOrderAt(w)'
    <3>1. /\ InRow(Outputs(w)', Contents(queue'[w]), pc'[w], outPacket'[w], outLink'[w], idx'[w])
          /\ Fresh(Sent, w, Inputs(w)',
                   Passed(Outputs(w)', Contents(queue'[w]), pc'[w], outPacket'[w]))
      BY <2>1 DEF AllInOrder, InOrderAt
    <3> QED  BY <2>1, <3>1 DEF InOrderAt, Contents, SlotOf, InRow, Fresh, New, SentBy, Passed,
                               OutTags
  <2> QED  BY <2>2 DEF AllInOrder
<1>2. CASE \E h \in HostOut : hostTransmitPacket(h)
  BY <1>2, TransmitOrder
<1>3. ASSUME NEW v \in Switches, SwitchStep(v), UNCHANGED sent
      PROVE  AllInOrder'
  BY <1>3, SwitchOrder
<1> QED  BY <1>1, <1>2, <1>3 DEF Next

LEMMA OrderAlways == ASSUME Star  PROVE Spec /\ []WholeReads => []AllInOrder
<1>1. Inv /\ Genuine /\ AllInOrder /\ WholeReads /\ [Next]_vars => AllInOrder'
  BY NextOrder
<1> QED  BY <1>1, InitOrder, InvAlways, GenuineAlways, PTL DEF Spec

\* A link to a host in a star is an output of its switch.
LEMMA HostInOutput ==
  ASSUME NEW l \in HostIn
  PROVE  \E w \in Switches : \E i \in DOMAIN outLinks[w] :
           /\ outLinks[w][i] = l /\ inLinks[w][i] \in HostOut
           /\ Outputs(w)[i] = pipe[l] /\ DOMAIN Outputs(w) = DOMAIN outLinks[w]
           /\ Payloads(l) = PayloadsIn(pipe[l])
  BY DEF HostIn, Outputs, Payloads, PayloadsIn

\* switch.c:160-196: in a star, at any speed, if reads find whole packets, a host
\* gets no packet twice, and those of one host in the order in which they were
\* sent, although flooding takes many steps in which tables and queues change.
THEOREM OrderIsKept == ASSUME Star  PROVE Spec /\ []WholeReads => []InOrder
<1>1. AllInOrder => InOrder
  <2> SUFFICES ASSUME AllInOrder, NEW l \in HostIn, NEW i \in Payloads(l), NEW j \in Payloads(l),
                      i < j, pipe[l][i].val.from = pipe[l][j].val.from
               PROVE  pipe[l][i].val.seq < pipe[l][j].val.seq
    BY DEF InOrder
  <2>1. PICK w \in Switches : \E k \in DOMAIN outLinks[w] :
          /\ Outputs(w)[k] = pipe[l] /\ DOMAIN Outputs(w) = DOMAIN outLinks[w]
          /\ Payloads(l) = PayloadsIn(pipe[l])
    BY HostInOutput
  <2>2. InRow(Outputs(w), Contents(queue[w]), pc[w], outPacket[w], outLink[w], idx[w])
    BY DEF AllInOrder, InOrderAt
  <2>3. Ordered(pipe[l])
    BY <2>1, <2>2 DEF InRow
  <2> QED  BY <2>1, <2>3 DEF Ordered
<1> QED  BY <1>1, OrderAlways, PTL

-----------------------------------------------------------------------------
(* Never back to the sender *)

\* The link that flooding leaves out is the sender's, and the link that was
\* looked up is that of a host with the address.
LEMMA SwitchKnows ==
  ASSUME Star, OwnAddrs, Inv, Whole, Genuine, NEW v \in Switches, pc[v] = "send"
  PROVE  /\ outPacket[v] \in Sent
         /\ srcLink(v) \in DOMAIN inLinks[v]
         /\ inLinks[v][srcLink(v)] = outPacket[v].payload.from
         /\ outLink[v] # -1 =>
              /\ outLink[v] \in DOMAIN inLinks[v]
              /\ outPacket[v].dest_addr \in SrcAddrs[inLinks[v][outLink[v]]]
<1> DEFINE p == outPacket[v]
           t == table[v]
<1>1. /\ Good(v, queue[v], t, pc[v], idx[v], p, outLink[v])
      /\ WholeSwitch(v, queue[v], t, pc[v], p, outLink[v])
      /\ GenuineSwitch(Sent, Contents(queue[v]), pc[v], p)
  BY DEF Inv, SwitchInv, Whole, Genuine
<1>2. /\ p \in Sent /\ p.src_addr \in KnownAddrs(t) /\ t \in Seq(TableEntry)
      /\ LookedUp(t, p.dest_addr, outLink[v])
      /\ \A k \in DOMAIN t : /\ t[k].linkOutNum \in DOMAIN inLinks[v]
                             /\ t[k].dest_addr \in SrcAddrs[inLinks[v][t[k].linkOutNum]]
                             /\ inLinks[v][t[k].linkOutNum] \in HostOut
  BY <1>1 DEF Good, WholeSwitch, GenuineSwitch, PortsTruthful, Star
<1>3. p.payload.from \in HostOut /\ p.src_addr \in SrcAddrs[p.payload.from]
  BY <1>2, SentPackets DEF Genuine
<1>4. PICK k \in DOMAIN t : t[k].dest_addr = p.src_addr /\ t[k].linkOutNum = srcLink(v)
  BY <1>2, LookupTable DEF srcLink
<1>5. inLinks[v][srcLink(v)] = p.payload.from
  BY <1>2, <1>3, <1>4 DEF OwnAddrs
<1>6. ASSUME outLink[v] # -1
      PROVE  /\ outLink[v] \in DOMAIN inLinks[v]
             /\ p.dest_addr \in SrcAddrs[inLinks[v][outLink[v]]]
  BY <1>2, <1>6 DEF LookedUp
<1> QED  BY <1>2, <1>4, <1>5, <1>6

\* On the link to its sender a packet is found only if it is for the sender.
Homeward ==
  \A w \in Switches : \A i \in DOMAIN outLinks[w] : \A p \in Sent :
    /\ p.payload \in TagsIn(pipe[outLinks[w][i]])
    /\ p.payload.from = inLinks[w][i]
    => p.dest_addr \in SrcAddrs[inLinks[w][i]]

\* A switch keeps it so.
LEMMA SwitchHomeward ==
  ASSUME Star, OwnAddrs, Inv, Whole, Genuine, Homeward, WholeReads,
         NEW v \in Switches, SwitchStep(v), sent' = sent
  PROVE  Homeward'
<1>1. Sent' = Sent
  BY DEF Sent, Proper, Addrs, IsSent, TheSent
<1>2. CASE \E i \in DOMAIN outLinks[v] : Writes(v, i)
  <2>1. PICK i \in DOMAIN outLinks[v] : Writes(v, i)
    BY <1>2
  <2> DEFINE p == outPacket[v]
             l == outLinks[v][i]
  <2>2. /\ l \in Links /\ i \in DOMAIN inLinks[v] /\ pipe[l] \in Seq(Cell)
        /\ pc[v] = "send" /\ (outLink[v] = i \/ (outLink[v] = -1 /\ i # srcLink(v)))
        /\ \A k \in Links : pipe'[k] = IF k = l THEN linkSend(pipe[k], p) ELSE pipe[k]
    BY <2>1, LinkEnds DEF Writes, Inv, SwitchInv
  <2>3. p \in Sent /\ p \in WholePacket
    BY <2>2, SwitchKnows, SentPackets DEF Genuine
  <2>4. p.payload.from = inLinks[v][i] => p.dest_addr \in SrcAddrs[inLinks[v][i]]
    <3>1. CASE outLink[v] = i /\ i # -1
      BY <2>2, <3>1, SwitchKnows
    <3>2. CASE i # srcLink(v)
      BY <2>2, <3>2, SwitchKnows, LinkEnds
    <3>3. i # -1
      BY <2>2, LinkEnds
    <3> QED  BY <2>2, <3>1, <3>2, <3>3
  <2> HIDE DEF p
  <2>5. TagsIn(linkSend(pipe[l], p)) \subseteq TagsIn(pipe[l]) \cup {p.payload}
    BY <2>2, <2>3, SendTags
  <2>6. \A q \in Sent : q.payload = p.payload => q = p
    BY <2>3, SentPackets DEF Genuine
  <2> SUFFICES ASSUME NEW w \in Switches, NEW j \in DOMAIN outLinks[w], NEW q \in Sent,
                      q.payload \in TagsIn(pipe'[outLinks[w][j]]),
                      q.payload.from = inLinks[w][j]
               PROVE  q.dest_addr \in SrcAddrs[inLinks[w][j]]
    BY <1>1 DEF Homeward, TagsIn, PayloadsIn, WordStarts
  <2>7. outLinks[w][j] \in Links
    BY LinkEnds
  <2>8. CASE q.payload \in TagsIn(pipe[outLinks[w][j]])
    BY <2>8 DEF Homeward
  <2>9. CASE outLinks[w][j] = l /\ q.payload = p.payload
    <3>1. w = v /\ j = i
      BY <2>9, NetAssumption
    <3> QED  BY <2>4, <2>6, <2>9, <3>1
  <2> QED  BY <2>2, <2>5, <2>7, <2>8, <2>9
<1>3. CASE ~\E i \in DOMAIN outLinks[v] : Writes(v, i)
  <2>1. ASSUME NEW w \in Switches, NEW j \in DOMAIN outLinks[w]
        PROVE  pipe'[outLinks[w][j]] = pipe[outLinks[w][j]]
    <3>1. CASE pipe' = pipe
      BY <3>1
    <3>2. ASSUME NEW q, Arrives(v, q)  PROVE Outputs(w)' = Outputs(w)
      BY <3>2, ArrivesAt
    <3>3. Outputs(w)' = Outputs(w) \/ pipe' = pipe
      BY <1>3, <3>2, StepCases DEF Takes, Rests
    <3>4. Outputs(w)' = Outputs(w) => pipe'[outLinks[w][j]] = pipe[outLinks[w][j]]
      <4>1. Outputs(w)'[j] = pipe'[outLinks[w][j]] /\ Outputs(w)[j] = pipe[outLinks[w][j]]
        BY DEF Outputs
      <4> QED  BY <4>1
    <3> QED  BY <3>1, <3>3, <3>4
  <2> QED  BY <1>1, <2>1 DEF Homeward, TagsIn, PayloadsIn, WordStarts
<1> QED  BY <1>2, <1>3

\* A host does not write the links to hosts, and what it sends is new.
LEMMA TransmitHomeward ==
  ASSUME Star, Inv, Genuine, Homeward, NEW h \in HostOut, hostTransmitPacket(h)
  PROVE  Homeward'
<1>1. PICK p \in Of(h) :
        /\ p.payload = [from |-> h, seq |-> Len(sent[h]) + 1]
        /\ \A k \in Links : pipe'[k] = IF k = h THEN linkSend(pipe[k], p) ELSE pipe[k]
        /\ Sent' = Sent \cup {p}
  BY TransmitSent DEF Genuine
<1> SUFFICES ASSUME NEW w \in Switches, NEW i \in DOMAIN outLinks[w], NEW q \in Sent',
                    q.payload \in TagsIn(pipe[outLinks[w][i]]),
                    q.payload.from = inLinks[w][i]
             PROVE  q.dest_addr \in SrcAddrs[inLinks[w][i]]
  <2>1. \A w \in Switches : \A i \in DOMAIN outLinks[w] : pipe'[outLinks[w][i]] = pipe[outLinks[w][i]]
    BY <1>1, LinksOf, NetAssumption
  <2> QED  BY <2>1 DEF Homeward, TagsIn, PayloadsIn, WordStarts
<1>2. q # p
  <2>1. /\ pipe[outLinks[w][i]] = Outputs(w)[i] /\ i \in DOMAIN Outputs(w)
    BY DEF Outputs
  <2>2. q.payload \in Passed(Outputs(w), Contents(queue[w]), pc[w], outPacket[w])
    BY <2>1 DEF Passed, OutTags
  <2>3. PICK r \in Sent : r.payload = q.payload
    BY <2>2, PassedSent
  <2>4. r.payload.seq \in 1 .. Len(sent[r.payload.from])
    BY SentPackets DEF Genuine
  <2>5. Len(sent[h]) \in Nat
    BY LenProperties DEF Inv
  <2> QED  BY <1>1, <2>3, <2>4, <2>5
<1> QED  BY <1>1, <1>2 DEF Homeward

\* switch.c:137: in a star where each host has its own addresses, at any speed, if
\* reads find whole packets, a host gets a packet back only if it sent it to itself.
THEOREM NothingIsEchoed ==
  ASSUME Star, OwnAddrs
  PROVE  Spec /\ []WholeReads => []NoEcho
<1>1. Init => Homeward
  <2> SUFFICES ASSUME Init, NEW w \in Switches, NEW i \in DOMAIN outLinks[w]
               PROVE  TagsIn(pipe[outLinks[w][i]]) = {}
    BY DEF Homeward
  <2>1. pipe[outLinks[w][i]] = << >>
    BY LinksOf DEF Init
  <2> QED  BY <2>1 DEF TagsIn, PayloadsIn, WordStarts
<1>2. ASSUME Inv, Whole, Genuine, Homeward, WholeReads, [Next]_vars
      PROVE  Homeward'
  <2>1. CASE UNCHANGED vars
    <3>1. pipe' = pipe /\ Sent' = Sent
      BY <2>1 DEF vars, Sent, Proper, Addrs, IsSent, TheSent
    <3> QED  BY <1>2, <3>1 DEF Homeward, TagsIn, PayloadsIn, WordStarts
  <2>2. CASE \E h \in HostOut : hostTransmitPacket(h)
    BY <1>2, <2>2, TransmitHomeward
  <2>3. ASSUME NEW v \in Switches, SwitchStep(v), UNCHANGED sent
        PROVE  Homeward'
    BY <1>2, <2>3, SwitchHomeward
  <2> QED  BY <1>2, <2>1, <2>2, <2>3 DEF Next
<1>3. Inv /\ Genuine /\ Homeward => NoEcho
  <2> SUFFICES ASSUME Inv, Genuine, Homeward, NEW h \in HostOut, NEW i \in Payloads(Back(h)),
                      pipe[Back(h)][i].val.from = h
               PROVE  TheSent(pipe[Back(h)][i].val).dest_addr \in SrcAddrs[h]
    BY DEF NoEcho
  <2>1. PICK w \in Switches : \E k \in DOMAIN inLinks[w] : inLinks[w][k] = h
    BY TreeAssumption
  <2> PICK k \in DOMAIN inLinks[w] : inLinks[w][k] = h
    BY <2>1
  <2>2. k \in DOMAIN outLinks[w] /\ Back(h) = outLinks[w][k] /\ Back(h) \in Links
    BY <2>1, BackLink, LinksOf
  <2>3. i \in PayloadsIn(pipe[Back(h)]) /\ MadeOf(Sent, pipe[Back(h)])
    BY <2>2 DEF Payloads, PayloadsIn, Genuine, GenuinePipe
  <2>4. PICK p \in Sent : PacketAt(pipe[Back(h)], i, p)
    BY <2>3 DEF MadeOf
  <2>5. /\ pipe[Back(h)][i].val = p.payload /\ p.payload \in TagsIn(pipe[Back(h)])
        /\ TheSent(p.payload) = p
    BY <2>3, <2>4 DEF PacketAt, TagsIn, Sent
  <2> QED  BY <2>1, <2>2, <2>5 DEF Homeward
<1> QED  BY <1>1, <1>2, <1>3, InvAlways, WholeAlways, GenuineAlways, PTL DEF Spec

-----------------------------------------------------------------------------
(* Nothing is lost while little is sent *)

\* What FewAreKept assumes of the past: no host has sent two packets, and all fit
\* a queue.
SentTags == { t \in Tag : IsSent(t) }
Few ==
  /\ \A h \in HostOut : Len(sent[h]) <= 1
  /\ Cardinality(SentTags) <= MAXQUEUE

\* The packet q is for the host on link h.
IsFor(q, h) ==
  /\ h # q.payload.from
  /\ q.dest_addr \in SrcAddrs[h] \/ \A g \in HostOut : q.dest_addr \notin SrcAddrs[g]

\* Where q can be: alone in its sender's pipe, in the queue, being sent on the
\* links it has not been sent on yet, or at the end of all it has to go to.
Waits(w, in, q) == \E j \in DOMAIN in : inLinks[w][j] = q.payload.from /\ in[j] = Encode(q)
IsQueued(Q, q) == \E k \in 1 .. Len(Q) : Q[k] = q
IsSending(w, out, c, p, o, i, q) ==
  /\ c = "send" /\ p = q
  /\ \A k \in DOMAIN out :
       IsFor(q, inLinks[w][k]) => q.payload \in TagsIn(out[k]) \/ o # -1 \/ i <= k
IsDone(w, out, q) ==
  \A k \in DOMAIN out : IsFor(q, inLinks[w][k]) => q.payload \in TagsIn(out[k])

\* All packets of S are in one of these places.
Kept(w, S, in, out, Q, c, p, o, i) ==
  c # "corrupt" =>
    \A q \in S : \/ Waits(w, in, q)
                 \/ IsQueued(Q, q)
                 \/ IsSending(w, out, c, p, o, i, q)
                 \/ IsDone(w, out, q)

\* The links a switch writes hold no more than the packets sent on them, and those
\* it reads at most one.
Room(out) == \A k \in DOMAIN out : Len(out[k]) <= (3 + PAYLOAD_LENGTH) * Cardinality(TagsIn(out[k]))
Short(in) == \A j \in DOMAIN in : Len(in[j]) <= 3 + PAYLOAD_LENGTH

-----------------------------------------------------------------------------
\* The tags of packets that are the first of their hosts are finitely many.
LEMMA FewTags ==
  ASSUME NEW T, T \subseteq Tag, \A t \in T : t.seq = 1
  PROVE  IsFiniteSet(T)
<1> DEFINE f == [t \in T |-> t.from]
<1>1. \A t \in Tag : t.from \in HostOut /\ t = [from |-> t.from, seq |-> t.seq]
  BY DEF Tag
<1>2. f \in [T -> HostOut]
  BY <1>1
<1>3. \A s, t \in T : f[s] = f[t] => s = t
  BY <1>1
<1> HIDE DEF f
<1>4. f \in Injection(T, HostOut)
  BY <1>2, <1>3 DEF Injection, IsInjective
<1> QED  BY <1>4, FS_Injection, TreeAssumption

\* What has been sent, if no host has sent two packets.
LEMMA FewSent ==
  ASSUME Inv, History, \A h \in HostOut : Len(sent[h]) <= 1
  PROVE  /\ IsFiniteSet(SentTags)
         /\ SentTags = { q.payload : q \in Sent }
         /\ \A h \in HostOut, q \in Sent : q.payload.from = h => Len(sent[h]) = 1
<1>1. \A h \in HostOut : Len(sent[h]) \in Nat
  BY LenProperties DEF Inv
<1>2. \A t \in SentTags : TheSent(t) \in Sent /\ TheSent(t).payload = t
  BY SentPackets DEF SentTags
<1>3. \A q \in Sent : q.payload \in SentTags
  BY DEF Sent, SentTags
<1>4. SentTags = { q.payload : q \in Sent }
  BY <1>2, <1>3
<1>5. ASSUME NEW t \in SentTags  PROVE t.seq = 1
  <2>1. t.from \in HostOut /\ t.seq \in 1 .. Len(sent[t.from])
    BY <1>2, SentPackets
  <2> QED  BY <1>1, <2>1
<1>6. ASSUME NEW h \in HostOut, NEW q \in Sent, q.payload.from = h  PROVE Len(sent[h]) = 1
  <2> DEFINE n == Len(sent[h])
             k == q.payload.seq
  <2>1. k \in 1 .. n
    BY <1>6, SentPackets
  <2>2. n \in Nat /\ n <= 1
    BY <1>1
  <2> HIDE DEF n, k
  <2>3. n = 1
    BY <2>1, <2>2
  <2> QED  BY <2>3 DEF n
<1>7. IsFiniteSet(SentTags)
  BY <1>5, FewTags DEF SentTags
<1> QED  BY <1>4, <1>6, <1>7

\* Histories are of this kind whatever reads find.
LEMMA NextHistory ==
  ASSUME Inv, History, [Next]_vars
  PROVE  History' /\ Sent \subseteq Sent' /\ \A h \in HostOut : Len(sent[h]) <= Len(sent'[h])
<1>1. \A h \in HostOut : Len(sent[h]) \in Nat
  BY LenProperties DEF Inv
<1>2. CASE sent' = sent
  <2>1. Sent' = Sent
    BY <1>2 DEF Sent, Proper, Addrs, IsSent, TheSent
  <2> QED  BY <1>1, <1>2, <2>1 DEF History, Of
<1>3. ASSUME NEW h \in HostOut, hostTransmitPacket(h)
      PROVE  History' /\ Sent \subseteq Sent' /\ \A g \in HostOut : Len(sent[g]) <= Len(sent'[g])
  <2>1. PICK p \in Of(h) :
          /\ sent' = [sent EXCEPT ![h] = Append(@, p)]
          /\ History'
          /\ Sent' = Sent \cup {p}
    BY <1>3, TransmitSent
  <2>2. p \in packetBuffer /\ sent \in [HostOut -> Seq(packetBuffer)]
    BY DEF Of, WholePacket, Inv
  <2>3. Len(Append(sent[h], p)) = Len(sent[h]) + 1
    BY <2>2, AppendProperties
  <2>4. \A g \in HostOut : sent'[g] = IF g = h THEN Append(sent[h], p) ELSE sent[g]
    BY <2>1, <2>2
  <2>5. ASSUME NEW g \in HostOut  PROVE Len(sent[g]) <= Len(sent'[g])
    <3>1. CASE g = h
      <4> DEFINE n == Len(sent[h])
      <4>1. n \in Nat /\ Len(sent'[g]) = n + 1
        BY <1>1, <2>3, <2>4, <3>1
      <4> HIDE DEF n
      <4>2. n <= Len(sent'[g])
        BY <4>1
      <4> QED  BY <3>1, <4>2 DEF n
    <3>2. CASE g # h
      BY <1>1, <2>4, <3>2
    <3> QED  BY <3>1, <3>2
  <2> QED  BY <2>1, <2>5
<1> QED  BY <1>2, <1>3 DEF Next, vars

LEMMA HistoryAlways == Spec => []History
  BY InitGenuine, NextHistory, InvAlways, PTL DEF Spec, Genuine

\* If few have been sent now, few had been before.
LEMMA FewBefore ==
  ASSUME Inv, History, [Next]_vars, Few'
  PROVE  Few
<1>1. History' /\ Sent \subseteq Sent' /\ \A h \in HostOut : Len(sent[h]) <= Len(sent'[h])
  BY NextHistory
<1>2. /\ \A h \in HostOut : Len(sent'[h]) <= 1
      /\ Cardinality(SentTags') <= MAXQUEUE
  BY DEF Few
<1>3. \A h \in HostOut : Len(sent[h]) \in Nat /\ Len(sent'[h]) \in Nat
  BY NextInv, LenProperties DEF Inv
<1>4. \A h \in HostOut : Len(sent[h]) <= 1
  BY <1>1, <1>2, <1>3
<1>5. SentTags \subseteq SentTags'
  <2>1. SentTags = { q.payload : q \in Sent }
    BY <1>4, FewSent
  <2>2. \A q \in Sent' : q.payload \in SentTags'
    BY DEF Sent, SentTags
  <2> QED  BY <1>1, <2>1, <2>2
<1>6. IsFiniteSet(SentTags')
  <2>1. ASSUME NEW t \in SentTags'  PROVE t.seq = 1
    <3>1. t \in Tag /\ t.seq \in DOMAIN sent'[t.from]
      BY <2>1 DEF SentTags, IsSent
    <3>2. t.from \in HostOut
      BY <3>1 DEF Tag
    <3>3. t.seq \in 1 .. Len(sent'[t.from])
      BY <3>1, <3>2, NextInv, LenProperties DEF Inv
    <3> QED  BY <1>2, <1>3, <3>2, <3>3
  <2>2. SentTags' \subseteq Tag
    BY DEF SentTags
  <2> QED  BY <2>1, <2>2, FewTags
<1>7. Cardinality(SentTags) <= MAXQUEUE
  <2>1. SentTags \in SUBSET SentTags'
    BY <1>5
  <2> HIDE DEF SentTags
  <2>2. Cardinality(SentTags) <= Cardinality(SentTags') /\ IsFiniteSet(SentTags)
    BY <1>6, <2>1, FS_Subset
  <2>3. Cardinality(SentTags) \in Nat /\ Cardinality(SentTags') \in Nat
    BY <1>6, <2>2, FS_CardinalityType
  <2> QED  BY <1>2, <2>2, <2>3, QueueAssumption
<1> QED  BY <1>4, <1>7 DEF Few

-----------------------------------------------------------------------------
\* A packet in a queue that grows or loses its head.
LEMMA QueuedAppend ==
  ASSUME NEW Q \in Seq(packetBuffer), NEW q \in packetBuffer
  PROVE  IsQueued(Append(Q, q), q) /\ \A r : IsQueued(Q, r) => IsQueued(Append(Q, q), r)
<1> DEFINE R == Append(Q, q)
           n == Len(Q)
<1>1. n \in Nat /\ Len(R) = n + 1 /\ (\A k \in 1 .. n : R[k] = Q[k]) /\ R[n + 1] = q
  BY AppendProperties, LenProperties
<1> HIDE DEF R, n
<1>2. 1 .. n \subseteq 1 .. Len(R) /\ n + 1 \in 1 .. Len(R)
  BY <1>1
<1>3. IsQueued(R, q) /\ \A r : IsQueued(Q, r) => IsQueued(R, r)
  BY <1>1, <1>2 DEF IsQueued, n
<1> QED  BY <1>3 DEF R

LEMMA QueuedTail ==
  ASSUME NEW Q \in Seq(packetBuffer), Q # << >>
  PROVE  \A r : IsQueued(Q, r) => r = Head(Q) \/ IsQueued(Tail(Q), r)
<1> DEFINE R == Tail(Q)
           n == Len(Q)
<1>1. /\ n \in Nat \ {0} /\ Len(R) = n - 1 /\ Head(Q) = Q[1]
      /\ \A k \in 1 .. Len(R) : R[k] = Q[k + 1]
  BY HeadTailProperties, LenProperties, EmptySeq
<1> HIDE DEF R, n
<1>2. ASSUME NEW k \in 1 .. n, k # 1  PROVE k - 1 \in 1 .. Len(R) /\ R[k - 1] = Q[k]
  <2>1. k - 1 \in 1 .. Len(R) /\ (k - 1) + 1 = k
    BY <1>1, <1>2
  <2> QED  BY <1>1, <2>1
<1>3. ASSUME NEW r, IsQueued(Q, r)  PROVE r = Head(Q) \/ IsQueued(R, r)
  <2>1. PICK k \in 1 .. n : Q[k] = r
    BY <1>3 DEF IsQueued, n
  <2> QED  BY <1>1, <1>2, <2>1 DEF IsQueued
<1> QED  BY <1>3 DEF R

\* The packet that waited is put in the queue.
LEMMA KeptArrives ==
  ASSUME NEW w, NEW S, NEW in, NEW out, NEW Q \in Seq(packetBuffer), NEW p, NEW o, NEW i,
         Kept(w, S, in, out, Q, "store", p, o, i), NEW j \in DOMAIN in, NEW q \in packetBuffer,
         \A r \in S : in[j] = Encode(r) => r = q, NEW m
  PROVE  Kept(w, S, [in EXCEPT ![j] = << >>], out, Append(Q, q), "store", p, o, m)
<1> SUFFICES ASSUME NEW r \in S
             PROVE  \/ Waits(w, [in EXCEPT ![j] = << >>], r)
                    \/ IsQueued(Append(Q, q), r)
                    \/ IsDone(w, out, r)
  BY DEF Kept
<1>1. Waits(w, in, r) \/ IsQueued(Q, r) \/ IsDone(w, out, r)
  BY DEF Kept, IsSending
<1>2. CASE Waits(w, in, r)
  <2>1. PICK k \in DOMAIN in : inLinks[w][k] = r.payload.from /\ in[k] = Encode(r)
    BY <1>2 DEF Waits
  <2>2. CASE k = j
    BY <2>1, <2>2, QueuedAppend
  <2>3. CASE k # j
    <3>1. [in EXCEPT ![j] = << >>][k] = in[k] /\ k \in DOMAIN [in EXCEPT ![j] = << >>]
      BY <2>3
    <3> QED  BY <2>1, <3>1 DEF Waits
  <2> QED  BY <2>2, <2>3
<1>3. CASE IsQueued(Q, r)
  BY <1>3, QueuedAppend
<1> QED  BY <1>1, <1>2, <1>3

\* The first in the queue is taken out and begins to be sent.
LEMMA KeptTakes ==
  ASSUME NEW w, NEW S, NEW in, NEW out, NEW Q \in Seq(packetBuffer), Q # << >>, NEW p, NEW o,
         NEW i, Kept(w, S, in, out, Q, "store", p, o, i),
         \A k \in DOMAIN out : 1 <= k, NEW m
  PROVE  Kept(w, S, in, out, Tail(Q), "send", Head(Q), m, 1)
<1> SUFFICES ASSUME NEW r \in S
             PROVE  \/ Waits(w, in, r)
                    \/ IsQueued(Tail(Q), r)
                    \/ IsSending(w, out, "send", Head(Q), m, 1, r)
                    \/ IsDone(w, out, r)
  BY DEF Kept
<1>1. Waits(w, in, r) \/ IsQueued(Q, r) \/ IsDone(w, out, r)
  BY DEF Kept, IsSending
<1>2. r = Head(Q) => IsSending(w, out, "send", Head(Q), m, 1, r)
  BY DEF IsSending
<1> QED  BY <1>1, <1>2, QueuedTail

\* It is sent on one link: the only one it has to go to, or one of all.
LEMMA KeptWrites ==
  ASSUME NEW w, NEW S, NEW in, NEW out, NEW Q, NEW p, NEW o, NEW i \in Int,
         Kept(w, S, in, out, Q, "send", p, o, i), DOMAIN out \subseteq Int,
         NEW k \in DOMAIN out, NEW new, DOMAIN new = DOMAIN out,
         \A m \in DOMAIN out : TagsIn(out[m]) \subseteq TagsIn(new[m]),
         p.payload \in TagsIn(new[k]), NEW c, NEW j \in Int,
         \/ /\ c = "store"
            /\ \A m \in DOMAIN out : IsFor(p, inLinks[w][m]) => m = k
         \/ c = "send" /\ o = -1 /\ i = k /\ j = k + 1
  PROVE  Kept(w, S, in, new, Q, c, p, o, j)
<1> SUFFICES ASSUME NEW r \in S
             PROVE  \/ Waits(w, in, r)
                    \/ IsQueued(Q, r)
                    \/ IsSending(w, new, c, p, o, j, r)
                    \/ IsDone(w, new, r)
  BY DEF Kept
<1>1. \/ Waits(w, in, r)
      \/ IsQueued(Q, r)
      \/ IsSending(w, out, "send", p, o, i, r)
      \/ IsDone(w, out, r)
  BY DEF Kept
<1>2. CASE IsDone(w, out, r)
  BY <1>2 DEF IsDone
<1>3. CASE IsSending(w, out, "send", p, o, i, r)
  <2>1. r = p
    BY <1>3 DEF IsSending
  <2>2. CASE c = "store" /\ \A m \in DOMAIN out : IsFor(p, inLinks[w][m]) => m = k
    BY <2>1, <2>2 DEF IsDone
  <2>3. CASE c = "send" /\ o = -1 /\ i = k /\ j = k + 1
    <3> SUFFICES ASSUME NEW m \in DOMAIN new, IsFor(r, inLinks[w][m])
                 PROVE  r.payload \in TagsIn(new[m]) \/ j <= m
      BY <2>1, <2>3 DEF IsSending
    <3>1. CASE m = k
      BY <2>1, <3>1
    <3>2. CASE m # k
      <4>1. r.payload \in TagsIn(out[m]) \/ i <= m
        BY <1>3, <2>3 DEF IsSending
      <4>2. i <= m => j <= m
        BY <2>3, <3>2
      <4> QED  BY <4>1, <4>2
    <3> QED  BY <3>1, <3>2
  <2> QED  BY <2>2, <2>3
<1> QED  BY <1>1, <1>2, <1>3

\* It is not sent on the link to its sender, and then is where it has to go to.
LEMMA KeptRests ==
  ASSUME NEW w, NEW S, NEW in, NEW out, NEW Q, NEW c, NEW p, NEW o, NEW i \in Int,
         Kept(w, S, in, out, Q, c, p, o, i), DOMAIN out \subseteq Int, NEW d, NEW j \in Int,
         \/ c = "store" /\ d = "store"
         \/ /\ c = "send" /\ d = "send" /\ j = i + 1
            /\ i \in DOMAIN out => ~IsFor(p, inLinks[w][i])
         \/ c = "send" /\ d = "store" /\ o = -1 /\ \A k \in DOMAIN out : k < i
  PROVE  Kept(w, S, in, out, Q, d, p, o, j)
<1> SUFFICES ASSUME NEW r \in S
             PROVE  \/ Waits(w, in, r)
                    \/ IsQueued(Q, r)
                    \/ IsSending(w, out, d, p, o, j, r)
                    \/ IsDone(w, out, r)
  BY DEF Kept
<1>1. \/ Waits(w, in, r)
      \/ IsQueued(Q, r)
      \/ IsSending(w, out, c, p, o, i, r)
      \/ IsDone(w, out, r)
  BY DEF Kept
<1>2. CASE c = "store"
  BY <1>1, <1>2 DEF IsSending
<1>3. CASE IsSending(w, out, "send", p, o, i, r) /\ d = "send" /\ j = i + 1
             /\ (i \in DOMAIN out => ~IsFor(p, inLinks[w][i]))
  <2> SUFFICES ASSUME NEW m \in DOMAIN out, IsFor(r, inLinks[w][m])
               PROVE  r.payload \in TagsIn(out[m]) \/ o # -1 \/ j <= m
    BY <1>3 DEF IsSending
  <2>1. r = p /\ (r.payload \in TagsIn(out[m]) \/ o # -1 \/ i <= m)
    BY <1>3 DEF IsSending
  <2>2. m # i
    BY <1>3, <2>1
  <2>3. m \in Int
    OBVIOUS
  <2>4. i <= m => j <= m
    BY <1>3, <2>2, <2>3
  <2> QED  BY <2>1, <2>4
<1>4. CASE IsSending(w, out, "send", p, o, i, r) /\ o = -1 /\ \A k \in DOMAIN out : k < i
  <2>1. \A k \in DOMAIN out : ~(i <= k)
    BY <1>4
  <2> QED  BY <1>4, <2>1 DEF IsSending, IsDone
<1> QED  BY <1>1, <1>2, <1>3, <1>4

\* A new packet is put into its sender's empty pipe.
LEMMA KeptTransmit ==
  ASSUME NEW w, NEW S, NEW in, NEW out, NEW Q, NEW c, NEW p, NEW o, NEW i,
         Kept(w, S, in, out, Q, c, p, o, i), S \subseteq WholePacket,
         NEW j \in DOMAIN in, in[j] = << >>, NEW q, inLinks[w][j] = q.payload.from
  PROVE  Kept(w, S \cup {q}, [in EXCEPT ![j] = Encode(q)], out, Q, c, p, o, i)
<1> DEFINE new == [in EXCEPT ![j] = Encode(q)]
<1>1. DOMAIN new = DOMAIN in /\ new[j] = Encode(q) /\ \A k \in DOMAIN in : k # j => new[k] = in[k]
  OBVIOUS
<1> HIDE DEF new
<1>2. Waits(w, new, q)
  BY <1>1 DEF Waits
<1>3. ASSUME NEW r \in S, Waits(w, in, r)  PROVE Waits(w, new, r)
  <2>1. PICK k \in DOMAIN in : inLinks[w][k] = r.payload.from /\ in[k] = Encode(r)
    BY <1>3 DEF Waits
  <2>2. Encode(r) # << >>
    <3>1. Len(Encode(r)) = 3 + r.length /\ r.length \in Nat /\ Len(<< >>) = 0
      BY EncodeCells, EmptySeq
    <3> QED  BY <3>1
  <2> QED  BY <1>1, <2>1, <2>2 DEF Waits
<1>4. Kept(w, S \cup {q}, new, out, Q, c, p, o, i)
  BY <1>2, <1>3 DEF Kept
<1> QED  BY <1>4 DEF new

-----------------------------------------------------------------------------
\* What comes before a tag is not that tag.
LEMMA BeforeDiffers ==
  ASSUME NEW A, NEW t, t.seq \in Int, Before(A, {t})
  PROVE  t \notin A
  BY DEF Before

\* A queue of different packets has room for one more of the few.
LEMMA QueueHasRoom ==
  ASSUME NEW T, IsFiniteSet(T), Cardinality(T) <= MAXQUEUE, NEW Q \in Seq(packetBuffer),
         TagsOf(Q) \subseteq T, NEW t \in T, t \notin TagsOf(Q),
         \A a, b \in 1 .. Len(Q) : a < b => Q[a].payload # Q[b].payload
  PROVE  Len(Q) # MAXQUEUE
<1> DEFINE n == Len(Q)
           U == T \ {t}
           f == [k \in 1 .. n |-> Q[k].payload]
<1>1. n \in Nat
  BY LenProperties
<1>2. f \in [1 .. n -> U]
  BY DEF TagsOf
<1>3. ASSUME NEW a \in 1 .. n, NEW b \in 1 .. n, f[a] = f[b]  PROVE a = b
  <2>1. Q[a].payload = Q[b].payload
    BY <1>3
  <2>2. a < b \/ b < a \/ a = b
    BY <1>1
  <2> QED  BY <2>1, <2>2
<1>4. IsFiniteSet(U) /\ Cardinality(U) = Cardinality(T) - 1
  BY FS_RemoveElement
<1> HIDE DEF f, U
<1>5. f \in Injection(1 .. n, U)
  BY <1>2, <1>3 DEF Injection, IsInjective
<1>6. Cardinality(1 .. n) <= Cardinality(U)
  BY <1>4, <1>5, FS_Injection
<1>7. Cardinality(1 .. n) = n
  <2>1. 1 \in Int /\ n \in Int
    BY <1>1
  <2> HIDE DEF n
  <2>2. Cardinality(1 .. n) = IF 1 > n THEN 0 ELSE n - 1 + 1
    BY <2>1, FS_Interval
  <2> QED  BY <1>1, <2>2
<1>8. Cardinality(T) \in Nat
  BY FS_CardinalityType
<1> HIDE DEF n
<1>9. n < MAXQUEUE
  BY <1>1, <1>4, <1>6, <1>7, <1>8, QueueAssumption
<1> QED  BY <1>1, <1>9, QueueAssumption DEF n

\* So has a pipe in which there are only some of the few.
LEMMA PipeHasRoom ==
  ASSUME NEW T, NEW most \in Nat, IsFiniteSet(T), Cardinality(T) <= most, NEW s \in Seq(Cell),
         TagsIn(s) \subseteq T, NEW p \in WholePacket, p.payload \in T \ TagsIn(s),
         Len(s) <= (3 + PAYLOAD_LENGTH) * Cardinality(TagsIn(s)),
         (3 + PAYLOAD_LENGTH) * most <= PipeMax
  PROVE  LET c == linkSend(s, p)
         IN  /\ TagsIn(c) = TagsIn(s) \cup {p.payload}
             /\ Len(c) <= (3 + PAYLOAD_LENGTH) * Cardinality(TagsIn(c))
<1> DEFINE c == linkSend(s, p)
           A == TagsIn(s)
           u == 3 + PAYLOAD_LENGTH
           a == Cardinality(A)
           n == Len(s)
           m == p.length
<1>1. IsFiniteSet(A) /\ IsFiniteSet(A \cup {p.payload})
  <2>1. A \in SUBSET T
    OBVIOUS
  <2> QED  BY <2>1, FS_Subset, FS_AddElement
<1>2. Cardinality(A \cup {p.payload}) = a + 1 /\ a \in Nat
  BY <1>1, FS_AddElement, FS_CardinalityType
<1>3. a + 1 <= Cardinality(T) /\ Cardinality(T) \in Nat
  <2>1. A \cup {p.payload} \in SUBSET T
    OBVIOUS
  <2> HIDE DEF A, a
  <2> QED  BY <1>2, <2>1, FS_Subset, FS_CardinalityType
<1>4. /\ n \in Nat /\ u \in Nat /\ m \in Nat /\ m <= PAYLOAD_LENGTH /\ 3 + m <= u
      /\ most \in Nat /\ PipeMax \in Nat /\ n <= u * a /\ u * most <= PipeMax
  BY LenProperties, LinkAssumption, QueueAssumption DEF WholePacket, Sendable, packetBuffer
<1>5. \/ c = s /\ n + 3 + m > PipeMax
      \/ Len(c) = n + 3 + m /\ TagsIn(c) = A \cup {p.payload}
  BY SendTags
<1> HIDE DEF c, A, u, a, n, m
<1>6. a + 1 <= most
  BY <1>2, <1>3, <1>4
<1>7. u * (a + 1) = u * a + u
  BY <1>2, <1>4
<1>8. u * (a + 1) <= u * most
  <2>1. \A i, j, k \in Nat : i <= j => k * i <= k * j
    OBVIOUS
  <2> QED  BY <1>2, <1>4, <1>6, <2>1
<1>9. u * a \in Nat /\ u * (a + 1) \in Nat /\ u * most \in Nat
  BY <1>2, <1>4
<1>10. n + 3 + m <= u * (a + 1) /\ n + 3 + m <= PipeMax
  BY <1>4, <1>7, <1>8, <1>9
<1>11. TagsIn(c) = A \cup {p.payload} /\ Len(c) <= u * (a + 1)
  BY <1>4, <1>5, <1>10
<1> QED  BY <1>2, <1>11 DEF c, A, u, a

-----------------------------------------------------------------------------
(* The star with one switch *)

\* One packet does not fill a read, and as many as fit a queue fit a pipe.  In the code, a
\* packet has some 400 bytes, a read takes 1000, five fit a queue, and a pipe
\* holds 65536.
PacketsFit ==
  /\ 3 + PAYLOAD_LENGTH < ReadMax
  /\ (3 + PAYLOAD_LENGTH) * MAXQUEUE <= PipeMax

KeptAt(w) ==
  /\ Room(Outputs(w))
  /\ Short(Inputs(w))
  /\ Kept(w, Sent, Inputs(w), Outputs(w), Contents(queue[w]), pc[w], outPacket[w],
          outLink[w], idx[w])

\* Short pipes are read as a whole.
LEMMA ShortReads ==
  ASSUME NEW w, Switches = {w}, Inv, Short(Inputs(w)), PacketsFit
  PROVE  WholeReads
<1> SUFFICES ASSUME NEW i \in DOMAIN inLinks[w]  PROVE Len(pipe[inLinks[w][i]]) < ReadMax
  BY DEF WholeReads
<1>1. Inputs(w)[i] = pipe[inLinks[w][i]] /\ i \in DOMAIN Inputs(w)
  BY DEF Inputs
<1> DEFINE n == Len(pipe[inLinks[w][i]])
<1>2. n <= 3 + PAYLOAD_LENGTH
  BY <1>1 DEF Short
<1>3. n \in Nat /\ PAYLOAD_LENGTH \in Nat /\ ReadMax \in Nat
  <2>1. w \in Switches
    OBVIOUS
  <2>2. pipe[inLinks[w][i]] \in Seq(Cell)
    BY <2>1, LinksOf DEF Inv, SwitchInv
  <2> QED  BY <2>2, LenProperties, LinkAssumption
<1> HIDE DEF n
<1>4. n < ReadMax
  BY <1>2, <1>3 DEF PacketsFit
<1> QED  BY <1>4 DEF n

\* Before anything is sent there is nothing to be kept.
LEMMA InitKept ==
  ASSUME NEW w, Switches = {w}, Init
  PROVE  KeptAt(w)
<1>1. w \in Switches /\ \A l \in Links : pipe[l] = << >>
  BY DEF Init
<1>2. Sent = {}
  BY NetAssumption DEF Init, Sent, Tag, IsSent
<1>3. /\ \A k \in DOMAIN Outputs(w) : Outputs(w)[k] = << >>
      /\ \A j \in DOMAIN Inputs(w) : Inputs(w)[j] = << >>
  BY <1>1, LinksOf DEF Inputs, Outputs
<1>4. TagsIn(<< >>) = {} /\ Len(<< >>) = 0
  BY DEF TagsIn, PayloadsIn, WordStarts
<1>5. Cardinality({}) = 0 /\ PAYLOAD_LENGTH \in Nat
  BY FS_EmptySet, LinkAssumption
<1>6. Room(Outputs(w))
  <2>1. (3 + PAYLOAD_LENGTH) * 0 = 0
    BY <1>5
  <2>2. ASSUME NEW k \in DOMAIN Outputs(w)
        PROVE  Len(Outputs(w)[k]) <= (3 + PAYLOAD_LENGTH) * Cardinality(TagsIn(Outputs(w)[k]))
    <3> DEFINE s == Outputs(w)[k]
               T == TagsIn(s)
    <3>1. Len(s) = 0 /\ T = {}
      BY <1>3, <1>4
    <3> HIDE DEF s, T
    <3>2. Cardinality(T) = 0
      BY <1>5, <3>1
    <3>3. Len(s) <= (3 + PAYLOAD_LENGTH) * Cardinality(T)
      BY <2>1, <3>1, <3>2
    <3> QED  BY <3>3 DEF s, T
  <2> QED  BY <2>2 DEF Room
<1>7. Short(Inputs(w))
  <2>1. 0 <= 3 + PAYLOAD_LENGTH
    BY <1>5
  <2> QED  BY <1>3, <1>4, <2>1 DEF Short
<1> QED  BY <1>2, <1>6, <1>7 DEF KeptAt, Kept

\* A host's only packet lies alone in its pipe.
LEMMA TransmitKept ==
  ASSUME Star, NEW w, Switches = {w}, PacketsFit, Inv, Genuine, KeptAt(w),
         NEW h \in HostOut, hostTransmitPacket(h), Few'
  PROVE  KeptAt(w)'
<1>1. PICK q \in Of(h) :
        /\ q.payload = [from |-> h, seq |-> Len(sent[h]) + 1]
        /\ sent' = [sent EXCEPT ![h] = Append(@, q)]
        /\ \A k \in Links : pipe'[k] = IF k = h THEN linkSend(pipe[k], q) ELSE pipe[k]
        /\ UNCHANGED switchVars
        /\ Sent' = Sent \cup {q}
  BY TransmitSent DEF Genuine
<1>2. w \in Switches /\ q \in WholePacket /\ q.payload.from = h
  BY <1>1, ProperPackets
<1>3. PICK j \in DOMAIN inLinks[w] : inLinks[w][j] = h
  BY TreeAssumption
<1>4. Len(sent[h]) = 0
  <2>1. sent[h] \in Seq(packetBuffer) /\ q \in packetBuffer /\ sent \in [HostOut -> Seq(packetBuffer)]
    BY <1>2 DEF Inv, WholePacket
  <2>2. sent'[h] = Append(sent[h], q)
    BY <1>1, <2>1
  <2>3. Len(sent'[h]) = Len(sent[h]) + 1 /\ Len(sent[h]) \in Nat
    BY <2>1, <2>2, AppendProperties, LenProperties
  <2>4. Len(sent'[h]) <= 1
    BY DEF Few
  <2> QED  BY <2>3, <2>4
<1>5. SentBy(Sent, h) = {}
  <2>1. \A r \in Sent : r.payload.seq \in 1 .. Len(sent[r.payload.from])
    BY SentPackets DEF Genuine
  <2>2. 1 .. 0 = {}
    OBVIOUS
  <2> QED  BY <1>4, <2>1, <2>2 DEF SentBy
<1>6. pipe[h] = << >>
  BY <1>5, NetAssumption DEF Genuine, GenuinePipe, BeginsWith
<1>7. linkSend(<< >>, q) = Encode(q) /\ Len(Encode(q)) <= 3 + PAYLOAD_LENGTH
  <2> DEFINE e == Encode(q)
             m == q.length
             u == 3 + PAYLOAD_LENGTH
  <2>1. e \in Seq(Cell) /\ Len(e) = 3 + m /\ m \in Nat /\ m <= PAYLOAD_LENGTH /\ Sendable(q)
    BY <1>2, EncodeCells DEF WholePacket, Sendable
  <2>2. << >> \o e = e /\ Len(<< >>) = 0
    BY <2>1, ConcatEmptySeq, EmptySeq
  <2>3. linkSend(<< >>, q) = IF Len(e) <= PipeMax THEN e ELSE << >>
    <3>1. linkSend(<< >>, q) = IF 0 + Len(e) <= PipeMax THEN << >> \o e ELSE << >>
      BY <2>1, <2>2 DEF linkSend, Write
    <3>2. 0 + Len(e) = Len(e)
      BY <2>1
    <3> QED  BY <2>2, <3>1, <3>2
  <2>4. u * MAXQUEUE <= PipeMax
    BY DEF PacketsFit
  <2>5. u \in Nat /\ MAXQUEUE \in Nat /\ MAXQUEUE >= 1 /\ PipeMax \in Nat /\ 3 + m <= u
    BY <2>1, LinkAssumption, QueueAssumption
  <2> HIDE DEF e, m, u
  <2>6. u <= u * MAXQUEUE
    <3>1. \A i, k \in Nat : 1 <= i => k <= k * i
      OBVIOUS
    <3> QED  BY <2>5, <3>1
  <2>7. Len(e) <= PipeMax /\ Len(e) <= u
    BY <2>1, <2>4, <2>5, <2>6
  <2> QED  BY <2>3, <2>7 DEF e, u
<1> DEFINE in == Inputs(w)
           out == Outputs(w)
           new == [in EXCEPT ![j] = Encode(q)]
<1>8. Outputs(w)' = out
  <2>1. \A i \in DOMAIN outLinks[w] : pipe'[outLinks[w][i]] = pipe[outLinks[w][i]]
    BY <1>1, LinksOf, NetAssumption
  <2> QED  BY <2>1 DEF Outputs
<1>9. Inputs(w)' = new /\ in[j] = << >> /\ j \in DOMAIN in
  <2>1. \A k \in DOMAIN inLinks[w] :
          pipe'[inLinks[w][k]] = IF k = j THEN Encode(q) ELSE pipe[inLinks[w][k]]
    BY <1>1, <1>2, <1>3, <1>6, <1>7, LinkEnds
  <2> QED  BY <1>3, <1>6, <2>1 DEF Inputs
<1>10. /\ Room(out) /\ Short(in)
       /\ Kept(w, Sent, in, out, Contents(queue[w]), pc[w], outPacket[w], outLink[w], idx[w])
  BY DEF KeptAt
<1> HIDE DEF in, out
<1>11. Kept(w, Sent \cup {q}, new, out, Contents(queue[w]), pc[w], outPacket[w],
            outLink[w], idx[w])
  BY <1>2, <1>3, <1>9, <1>10, KeptTransmit, SentPackets DEF Genuine
<1>12. Short(new)
  BY <1>7, <1>10 DEF Short
<1>13. /\ queue' = queue /\ pc' = pc /\ outPacket' = outPacket /\ outLink' = outLink
       /\ idx' = idx
  BY <1>1 DEF switchVars
<1>14. /\ Room(Outputs(w)') /\ Short(Inputs(w)')
       /\ Kept(w, Sent', Inputs(w)', Outputs(w)', Contents(queue'[w]), pc'[w], outPacket'[w],
               outLink'[w], idx'[w])
  BY <1>1, <1>8, <1>9, <1>10, <1>11, <1>12, <1>13
<1> QED  BY <1>14 DEF KeptAt, Contents, SlotOf, Room, Short, Kept, Waits, IsQueued, IsSending,
                      IsDone

\* The facts about the packet that is being sent on a link.
LEMMA WritesNew ==
  ASSUME Star, NEW w \in Switches, Inv, Genuine, AllInOrder,
         \A h \in HostOut : Len(sent[h]) <= 1,
         NEW k \in DOMAIN outLinks[w], pc[w] = "send", outLink[w] # -1 \/ idx[w] = k
  PROVE  LET p == outPacket[w]
             s == Outputs(w)[k]
         IN  /\ s \in Seq(Cell) /\ p \in WholePacket
             /\ TagsIn(s) \subseteq SentTags /\ p.payload \in SentTags \ TagsIn(s)
<1> DEFINE p == outPacket[w]
           out == Outputs(w)
           Q == Contents(queue[w])
<1>1. /\ out[k] \in Seq(Cell) /\ k \in DOMAIN out /\ k \in Int /\ idx[w] \in Int
  BY LinksOf DEF Outputs, Inv, SwitchInv, Good
<1>2. InRow(out, Q, pc[w], p, outLink[w], idx[w])
  BY DEF AllInOrder, InOrderAt
<1>3. p \in Sent /\ p \in WholePacket /\ p.payload.seq \in Int
  <2>1. GenuineSwitch(Sent, Q, pc[w], p)
    BY DEF Genuine
  <2>2. p \in Sent
    BY <2>1 DEF GenuineSwitch
  <2>3. p.payload.seq \in 1 .. Len(sent[p.payload.from]) /\ p \in WholePacket
    BY <2>2, SentPackets DEF Genuine
  <2> QED  BY <2>2, <2>3
<1>4. Before(TagsIn(out[k]), {p.payload})
  <2>1. outLink[w] # -1 \/ idx[w] <= k
    BY <1>1
  <2> HIDE DEF p, out, Q
  <2> QED  BY <1>1, <1>2, <2>1 DEF InRow
<1>5. SentTags = { q.payload : q \in Sent }
  BY FewSent DEF Genuine
<1>6. TagsIn(out[k]) \subseteq SentTags
  <2>1. TagsIn(out[k]) \subseteq Passed(out, Q, pc[w], p)
    BY <1>1 DEF Passed, OutTags
  <2> QED  BY <1>5, <2>1, PassedSent
<1> HIDE DEF p, out
<1>7. p.payload \in SentTags /\ p.payload \notin TagsIn(out[k])
  BY <1>3, <1>4, <1>5, BeforeDiffers
<1> QED  BY <1>1, <1>3, <1>6, <1>7 DEF p, out

\* A switch loses nothing.
LEMMA SwitchKept ==
  ASSUME Star, OwnAddrs, NEW w, Switches = {w}, PacketsFit, Inv, Whole, Genuine, AllInOrder,
         WholeReads, Few, KeptAt(w), SwitchStep(w), sent' = sent
  PROVE  KeptAt(w)'
<1> DEFINE in == Inputs(w)
           out == Outputs(w)
           Q == Contents(queue[w])
           R == Contents(queue'[w])
           c == pc[w]
           p == outPacket[w]
           o == outLink[w]
           i == idx[w]
           D == DOMAIN inLinks[w]
           Goal == /\ Room(Outputs(w)') /\ Short(Inputs(w)')
                   /\ Kept(w, Sent, Inputs(w)', Outputs(w)', R, pc'[w], outPacket'[w],
                           outLink'[w], idx'[w])
<1>1. w \in Switches
  OBVIOUS
<1>2. /\ Room(out) /\ Short(in) /\ Kept(w, Sent, in, out, Q, c, p, o, i)
      /\ InRow(out, Q, c, p, o, i) /\ Fresh(Sent, w, in, Passed(out, Q, c, p))
      /\ GenuineSwitch(Sent, Q, c, p)
  BY <1>1 DEF KeptAt, AllInOrder, InOrderAt, Genuine
<1>3. /\ IsFiniteSet(SentTags) /\ Cardinality(SentTags) <= MAXQUEUE
      /\ SentTags = { q.payload : q \in Sent }
      /\ \A h \in HostOut : Len(sent[h]) <= 1
  BY FewSent DEF Few, Genuine
<1>4. /\ Sent \subseteq WholePacket
      /\ \A q \in Sent : q.payload.seq \in Int /\ q \in packetBuffer
  <2>1. \A q \in Sent : q.payload.seq \in 1 .. Len(sent[q.payload.from]) /\ q \in WholePacket
    BY SentPackets DEF Genuine
  <2> QED  BY <2>1 DEF WholePacket
<1>5. /\ Q \in Seq(packetBuffer) /\ i \in Int /\ D \subseteq Int /\ D = 1 .. Len(inLinks[w])
      /\ DOMAIN in = D /\ DOMAIN out = D /\ DOMAIN outLinks[w] = D
      /\ Len(inLinks[w]) \in Nat /\ idx'[w] \in Int
  <2>1. IsRing(queue[w], packetBuffer) /\ idx[w] \in Int
    BY <1>1 DEF Inv, SwitchInv, Good
  <2>2. idx'[w] \in Int
    BY <1>1, SwitchStepInv DEF Inv, SwitchInv, Good
  <2> QED  BY <1>1, <2>1, <2>2, ContentsSeq, LinkEnds DEF Inputs, Outputs
<1>6. ASSUME NEW q, Arrives(w, q)  PROVE Goal
  <2>1. PICK j \in D :
          /\ in[j] # << >>
          /\ Inputs(w)' = [in EXCEPT ![j] = << >>] /\ Outputs(w)' = out
          /\ \A P : P \subseteq Sent /\ BeginsWith(P, in[j]) => q \in P
    BY <1>1, <1>6, ArrivesAt
  <2>2. /\ c = "store" /\ outPacket'[w] = p /\ outLink'[w] = o
        /\ \/ pc'[w] = "corrupt"
           \/ pc'[w] = "store" /\ R = IF Len(Q) = MAXQUEUE THEN Q ELSE Append(Q, q)
    BY <1>6 DEF Arrives
  <2> HIDE DEF in, out, Q, R, c, p, o, i, D
  <2>3. q \in New(Sent, inLinks[w][j], Passed(out, Q, c, p))
    <3>1. New(Sent, inLinks[w][j], Passed(out, Q, c, p)) \subseteq Sent
      BY DEF New, SentBy
    <3>2. BeginsWith(New(Sent, inLinks[w][j], Passed(out, Q, c, p)), in[j])
      BY <1>2, <2>1 DEF Fresh, D
    <3> QED  BY <2>1, <3>1, <3>2
  <2>4. q \in Sent /\ Before(Passed(out, Q, c, p), {q.payload})
    BY <2>3 DEF New, SentBy
  <2>5. ASSUME NEW r \in Sent, in[j] = Encode(r)  PROVE r = q
    <3>1. Encode(r) = Encode(r) \o << >> /\ << >> \in Seq(Cell)
      BY <1>4, EncodeCells, ConcatEmptySeq, EmptySeq
    <3>2. BeginsWith({r}, in[j])
      BY <2>5, <3>1 DEF BeginsWith
    <3> QED  BY <2>1, <3>2
  <2>6. Len(Q) # MAXQUEUE
    <3>1. TagsOf(Q) \subseteq Passed(out, Q, c, p)
      BY DEF Passed
    <3>2. q.payload \notin TagsOf(Q) /\ q.payload \in SentTags
      BY <1>3, <1>4, <2>4, <3>1, BeforeDiffers
    <3>3. \A k \in 1 .. Len(Q) : Q[k] \in Sent
      BY <1>2 DEF GenuineSwitch
    <3>4. TagsOf(Q) \subseteq SentTags
      BY <1>3, <3>3 DEF TagsOf
    <3>5. ASSUME NEW a \in 1 .. Len(Q), NEW b \in 1 .. Len(Q), a < b
          PROVE  Q[a].payload # Q[b].payload
      <4>1. Before({Q[a].payload}, {Q[b].payload}) /\ Q[b].payload.seq \in Int
        BY <1>2, <1>4, <3>3, <3>5 DEF InRow
      <4> QED  BY <4>1, BeforeDiffers
    <3> QED  BY <1>3, <1>5, <3>2, <3>4, <3>5, QueueHasRoom
  <2>7. Short([in EXCEPT ![j] = << >>])
    <3>1. Len(<< >>) = 0 /\ 0 <= 3 + PAYLOAD_LENGTH
      BY EmptySeq, LinkAssumption
    <3> QED  BY <1>2, <1>5, <3>1 DEF Short
  <2>8. CASE pc'[w] = "corrupt"
    BY <1>2, <2>1, <2>7, <2>8 DEF Kept
  <2>9. CASE pc'[w] = "store" /\ R = Append(Q, q)
    <3>1. Kept(w, Sent, [in EXCEPT ![j] = << >>], out, Append(Q, q), "store", p, o, idx'[w])
      BY <1>2, <1>4, <1>5, <2>1, <2>2, <2>4, <2>5, KeptArrives
    <3> QED  BY <1>2, <2>1, <2>2, <2>7, <2>9, <3>1
  <2> QED  BY <2>2, <2>6, <2>8, <2>9
<1>7. ASSUME pipe' = pipe  PROVE Inputs(w)' = in /\ Outputs(w)' = out
  BY <1>7 DEF Inputs, Outputs
<1>8. ASSUME Takes(w)  PROVE Goal
  <2>1. /\ c = "store" /\ Q # << >> /\ R = Tail(Q) /\ outPacket'[w] = Head(Q) /\ idx'[w] = 1
        /\ pipe' = pipe /\ pc'[w] = IF Head(Q).src_addr # -1 THEN "send" ELSE "store"
    BY <1>8 DEF Takes
  <2> HIDE DEF in, out, Q, R, c, p, o, i, D
  <2>2. Head(Q).src_addr # -1
    <3>1. Head(Q) = Q[1] /\ 1 \in 1 .. Len(Q)
      BY <1>5, <2>1, HeadTailProperties, LenProperties, EmptySeq
    <3>2. Head(Q) \in WholePacket
      BY <1>2, <1>4, <3>1 DEF GenuineSwitch
    <3> QED  BY <3>2 DEF WholePacket
  <2>3. \A k \in DOMAIN out : 1 <= k
    BY <1>5
  <2>4. Kept(w, Sent, in, out, Tail(Q), "send", Head(Q), outLink'[w], 1)
    BY <1>2, <1>5, <2>1, <2>3, KeptTakes
  <2> QED  BY <1>2, <1>7, <2>1, <2>2, <2>4
<1>9. ASSUME NEW k \in DOMAIN outLinks[w], Writes(w, k)  PROVE Goal
  <2> DEFINE new == [out EXCEPT ![k] = linkSend(@, p)]
  <2>1. Inputs(w)' = in /\ Outputs(w)' = new
    BY <1>1, <1>9, WritesTo
  <2>2. /\ c = "send" /\ R = Q /\ outPacket'[w] = p /\ outLink'[w] = o /\ k \in D /\ k # -1
        /\ o # -1 \/ i = k
        /\ \/ o = k /\ pc'[w] = "store"
           \/ o = -1 /\ i = k /\ pc'[w] = "send" /\ idx'[w] = k + 1
    <3>1. k \in D /\ k # -1
      BY <1>5
    <3> QED  BY <1>9, <3>1 DEF Writes
  <2>3. /\ out[k] \in Seq(Cell) /\ p \in WholePacket
        /\ TagsIn(out[k]) \subseteq SentTags /\ p.payload \in SentTags \ TagsIn(out[k])
    BY <1>1, <1>3, <2>2, WritesNew
  <2>4. o = k => \A m \in D : IsFor(p, inLinks[w][m]) => m = k
    <3> SUFFICES ASSUME o = k, NEW m \in D, IsFor(p, inLinks[w][m])  PROVE m = k
      OBVIOUS
    <3>1. inLinks[w][k] \in HostOut /\ inLinks[w][m] \in HostOut
      BY <1>1, <2>2 DEF Star
    <3>2. p.dest_addr \in SrcAddrs[inLinks[w][k]]
      BY <1>1, <2>2, SwitchKnows
    <3>3. p.dest_addr \in SrcAddrs[inLinks[w][m]]
      BY <3>1, <3>2 DEF IsFor
    <3>4. inLinks[w][m] = inLinks[w][k]
      BY <3>1, <3>2, <3>3 DEF OwnAddrs
    <3> QED  BY <1>1, <2>2, <3>4, LinkEnds
  <2> HIDE DEF in, out, Q, R, c, p, o, i
  <2>5. /\ DOMAIN new = DOMAIN out /\ new[k] = linkSend(out[k], p)
        /\ \A m \in DOMAIN out : m # k => new[m] = out[m]
    BY <1>5, <2>2
  <2>6. /\ TagsIn(new[k]) = TagsIn(out[k]) \cup {p.payload}
        /\ Len(new[k]) <= (3 + PAYLOAD_LENGTH) * Cardinality(TagsIn(new[k]))
    <3>1. Len(out[k]) <= (3 + PAYLOAD_LENGTH) * Cardinality(TagsIn(out[k]))
      BY <1>2, <1>5, <2>2 DEF Room
    <3>2. (3 + PAYLOAD_LENGTH) * MAXQUEUE <= PipeMax
      BY DEF PacketsFit
    <3> HIDE DEF new
    <3> QED  BY <1>3, <2>3, <2>5, <3>1, <3>2, QueueAssumption, PipeHasRoom
  <2> HIDE DEF new
  <2>7. Room(new)
    BY <1>2, <2>5, <2>6 DEF Room
  <2>8. Kept(w, Sent, in, new, Q, pc'[w], p, o, idx'[w])
    <3>1. /\ \A m \in DOMAIN out : TagsIn(out[m]) \subseteq TagsIn(new[m])
          /\ p.payload \in TagsIn(new[k])
      BY <2>5, <2>6
    <3>2. k \in DOMAIN out /\ DOMAIN out \subseteq Int
      BY <1>5, <2>2
    <3>3. Kept(w, Sent, in, out, Q, "send", p, o, i)
      BY <1>2, <2>2
    <3>4. \/ /\ pc'[w] = "store"
             /\ \A m \in DOMAIN out : IsFor(p, inLinks[w][m]) => m = k
          \/ pc'[w] = "send" /\ o = -1 /\ i = k /\ idx'[w] = k + 1
      BY <1>5, <2>2, <2>4
    <3> QED  BY <1>5, <2>5, <3>1, <3>2, <3>3, <3>4, KeptWrites
  <2> QED  BY <1>2, <2>1, <2>2, <2>7, <2>8
<1>10. ASSUME Rests(w)  PROVE Goal
  <2>1. R = Q /\ outPacket'[w] = p /\ outLink'[w] = o /\ pipe' = pipe
    BY <1>10 DEF Rests
  <2>2. \/ c = "store" /\ pc'[w] = "store"
        \/ /\ c = "send" /\ pc'[w] = "send" /\ idx'[w] = i + 1
           /\ i \in DOMAIN out => ~IsFor(p, inLinks[w][i])
        \/ c = "send" /\ pc'[w] = "store" /\ o = -1 /\ \A k \in DOMAIN out : k < i
    <3>1. CASE c = "store" /\ pc'[w] = "store"
      BY <3>1
    <3>2. CASE c = "send" /\ i = srcLink(w) /\ pc'[w] = "send" /\ idx'[w] = i + 1
      <4>1. inLinks[w][i] = p.payload.from
        BY <1>1, <3>2, SwitchKnows
      <4> QED  BY <3>2, <4>1 DEF IsFor
    <3>3. CASE c = "send" /\ o = -1 /\ i > Len(inLinks[w]) /\ pc'[w] = "store"
      <4>1. \A k \in DOMAIN out : k < i
        BY <1>5, <3>3
      <4> QED  BY <3>3, <4>1
    <3> QED  BY <1>10, <3>1, <3>2, <3>3 DEF Rests
  <2> HIDE DEF in, out, Q, R, c, p, o, i, D
  <2>3. Kept(w, Sent, in, out, Q, pc'[w], p, o, idx'[w])
    BY <1>2, <1>5, <2>2, KeptRests
  <2> QED  BY <1>2, <1>7, <2>1, <2>3
<1>11. Goal
  BY <1>1, <1>6, <1>8, <1>9, <1>10, StepCases
<1>12. Sent' = Sent
  BY DEF Sent, Proper, Addrs, IsSent, TheSent
<1> QED  BY <1>11, <1>12 DEF KeptAt, Contents, SlotOf, Room, Short, Kept, Waits, IsQueued,
                             IsSending, IsDone

\* The invariant: as long as little was sent, all that was proved above for reads
\* that find whole packets holds, and nothing is lost.
LEMMA FewAlways ==
  ASSUME Star, OwnAddrs, NEW w, Switches = {w}, PacketsFit
  PROVE  Spec => [](Few => Whole /\ Genuine /\ AllInOrder /\ KeptAt(w))
<1> DEFINE All == Whole /\ Genuine /\ AllInOrder /\ KeptAt(w)
<1>1. Init => All
  BY InitWhole, InitGenuine, InitOrder, InitKept
<1>2. ASSUME Inv, History, Few => All, [Next]_vars, Few'
      PROVE  All'
  <2>1. Few /\ Whole /\ Genuine /\ AllInOrder /\ KeptAt(w)
    BY <1>2, FewBefore
  <2>2. WholeReads
    BY <1>2, <2>1, ShortReads DEF KeptAt
  <2>3. Whole' /\ Genuine' /\ AllInOrder'
    BY <1>2, <2>1, <2>2, NextWhole, NextGenuine, NextOrder
  <2>4. KeptAt(w)'
    <3>1. CASE UNCHANGED vars
      <4>1. Sent' = Sent /\ Inputs(w)' = Inputs(w) /\ Outputs(w)' = Outputs(w)
        BY <3>1 DEF vars, Sent, Proper, Addrs, IsSent, TheSent, Inputs, Outputs
      <4>2. /\ queue' = queue /\ pc' = pc /\ outPacket' = outPacket /\ outLink' = outLink
            /\ idx' = idx
        BY <3>1 DEF vars, switchVars
      <4>3. /\ Room(Outputs(w)') /\ Short(Inputs(w)')
            /\ Kept(w, Sent', Inputs(w)', Outputs(w)', Contents(queue'[w]), pc'[w], outPacket'[w],
                    outLink'[w], idx'[w])
        BY <2>1, <4>1, <4>2 DEF KeptAt
      <4> QED  BY <4>3 DEF KeptAt, Contents, SlotOf, Room, Short, Kept, Waits, IsQueued,
                           IsSending, IsDone
    <3>2. CASE \E h \in HostOut : hostTransmitPacket(h)
      BY <1>2, <2>1, <3>2, TransmitKept
    <3>3. ASSUME NEW v \in Switches, SwitchStep(v), UNCHANGED sent
          PROVE  KeptAt(w)'
      <4>1. SwitchStep(w)
        BY <3>3
      <4> QED  BY <1>2, <2>1, <2>2, <3>3, <4>1, SwitchKept
    <3> QED  BY <1>2, <3>1, <3>2, <3>3 DEF Next
  <2> QED  BY <2>3, <2>4
<1> QED  BY <1>1, <1>2, InvAlways, HistoryAlways, PTL DEF Spec

\* link.c:116, switch.c:118, 160: in a star with one switch where each host has its
\* own addresses, if no host has sent two packets and a queue has room for all that
\* were sent, none is lost: when nothing is on its way, each has come to every host
\* it is for, however the hosts, reads and writes interleave.
THEOREM FewAreDelivered ==
  ASSUME Star, OwnAddrs, NEW w, Switches = {w}, PacketsFit
  PROVE  Spec => []FewAreKept
<1>1. ASSUME Inv, History, Few => Whole /\ Genuine /\ AllInOrder /\ KeptAt(w)
      PROVE  FewAreKept
  <2> SUFFICES ASSUME Few, Quiet, NEW t \in Tag, IsSent(t), NEW h \in Audience(t)
               PROVE  t \in Received(Back(h))
    BY DEF FewAreKept, Few, SentTags, NoneLost, IsForwarded
  <2>1. w \in Switches /\ Genuine /\ KeptAt(w)
    BY <1>1
  <2>2. TheSent(t) \in Sent /\ TheSent(t).payload = t /\ TheSent(t) \in WholePacket
    BY <1>1, SentPackets
  <2> DEFINE q == TheSent(t)
             in == Inputs(w)
             out == Outputs(w)
             Q == Contents(queue[w])
  <2>3. h \in HostOut /\ IsFor(q, h)
    BY <2>2 DEF Audience, Has, IsFor
  <2>4. PICK k \in DOMAIN inLinks[w] : inLinks[w][k] = h
    BY <2>3, TreeAssumption
  <2>5. /\ k \in DOMAIN out /\ out[k] = pipe[Back(h)] /\ Back(h) = outLinks[w][k]
    BY <2>1, <2>4, BackLink, LinkEnds DEF Outputs
  <2>6. /\ pc[w] = "store" /\ Len(Q) = 0
        /\ \A j \in DOMAIN in : in[j] = << >>
    <3>1. pc[w] = "store" /\ queueIsEmpty(queue[w])
      BY <2>1 DEF Quiet
    <3>2. Len(Q) = 0
      <4>1. IsRing(queue[w], packetBuffer)
        BY <1>1, <2>1 DEF Inv, SwitchInv, Good
      <4> QED  BY <3>1, <4>1, ContentsSeq DEF queueIsEmpty
    <3>3. ASSUME NEW j \in DOMAIN inLinks[w]  PROVE pipe[inLinks[w][j]] = << >>
      <4>1. inLinks[w][j] \in Links /\ inLinks[w][j] \notin HostIn
        <5>1. \A v \in Switches : DOMAIN outLinks[v] = DOMAIN inLinks[v]
          BY LinkEnds
        <5> QED  BY <2>1, <5>1, LinkEnds DEF HostIn
      <4> QED  BY <4>1 DEF Quiet
    <3> QED  BY <3>1, <3>2, <3>3 DEF Inputs
  <2>7. \/ Waits(w, in, q) \/ IsQueued(Q, q)
        \/ IsSending(w, out, pc[w], outPacket[w], outLink[w], idx[w], q) \/ IsDone(w, out, q)
    BY <2>1, <2>2, <2>6 DEF KeptAt, Kept
  <2>8. ~Waits(w, in, q)
    <3>1. Encode(q) # << >>
      <4>1. Len(Encode(q)) = 3 + q.length /\ q.length \in Nat /\ Len(<< >>) = 0
        BY <2>2, EncodeCells, EmptySeq
      <4> QED  BY <4>1
    <3> QED  BY <2>6, <3>1 DEF Waits
  <2>9. IsDone(w, out, q)
    BY <2>6, <2>7, <2>8 DEF IsQueued, IsSending
  <2>10. t \in TagsIn(pipe[Back(h)])
    BY <2>2, <2>3, <2>4, <2>5, <2>9 DEF IsDone
  <2> QED  BY <2>10 DEF Received, Payloads, TagsIn, PayloadsIn
<1> QED  BY <1>1, FewAlways, InvAlways, HistoryAlways, PTL

-----------------------------------------------------------------------------
(* Ways through a tree *)

\* The links beyond a link are the smallest closed set.
LEMMA BeyondLink ==
  ASSUME NEW l \in Links
  PROVE  /\ l \in Beyond(l) /\ Beyond(l) \subseteq Links /\ Closed(Beyond(l))
         /\ \A S \in SUBSET Links : l \in S /\ Closed(S) => Beyond(l) \subseteq S
         /\ \A m \in Beyond(l) : Beyond(m) \subseteq Beyond(l)
<1>1. l \in Beyond(l) /\ Beyond(l) \subseteq Links
  BY DEF Beyond
<1>2. Closed(Beyond(l))
  BY DEF Closed, Beyond
<1>3. \A S \in SUBSET Links : l \in S /\ Closed(S) => Beyond(l) \subseteq S
  BY DEF Beyond
<1>4. \A m \in Beyond(l) : Beyond(m) \subseteq Beyond(l)
  <2>1. Beyond(l) \in SUBSET Links
    BY <1>1
  <2> QED  BY <1>2, <2>1 DEF Beyond
<1> QED  BY <1>1, <1>2, <1>3, <1>4

\* The ports of switches: no link is at two places, links to and from a switch are
\* paired, and hosts' links are neither read by hosts nor written by switches.
LEMMA Ports ==
  /\ HostOut \subseteq Links /\ HostIn \subseteq Links
  /\ \A w \in Switches :
       /\ DOMAIN outLinks[w] = DOMAIN inLinks[w]
       /\ \A i \in DOMAIN inLinks[w] :
            /\ i \in Int /\ i # -1 /\ inLinks[w][i] \in Links /\ outLinks[w][i] \in Links
            /\ inLinks[w][i] \notin HostIn /\ outLinks[w][i] \notin HostOut
            /\ outLinks[w][i] \in HostIn <=> inLinks[w][i] \in HostOut
            /\ Back(inLinks[w][i]) = outLinks[w][i]
  /\ \A v, w \in Switches : \A i \in DOMAIN inLinks[v], j \in DOMAIN inLinks[w] :
       /\ inLinks[v][i] = inLinks[w][j] => v = w /\ i = j
       /\ outLinks[v][i] = outLinks[w][j] => v = w /\ i = j
       /\ outLinks[v][i] = inLinks[w][j] => outLinks[w][j] = inLinks[v][i]
  /\ \A h \in HostOut : \E w \in Switches : \E i \in DOMAIN inLinks[w] : inLinks[w][i] = h
<1>1. \A w \in Switches : /\ DOMAIN outLinks[w] = DOMAIN inLinks[w]
                          /\ \A i \in DOMAIN inLinks[w] :
                               /\ i \in Int /\ i # -1
                               /\ inLinks[w][i] \in Links /\ outLinks[w][i] \in Links
  <2> SUFFICES ASSUME NEW w \in Switches
               PROVE  /\ DOMAIN outLinks[w] = DOMAIN inLinks[w]
                      /\ \A i \in DOMAIN inLinks[w] :
                               /\ i \in Int /\ i # -1
                               /\ inLinks[w][i] \in Links /\ outLinks[w][i] \in Links
    OBVIOUS
  <2> QED  BY LinksOf
<1>2. HostOut \subseteq Links /\ HostIn \subseteq Links
  BY NetAssumption DEF HostIn
<1>3. \A v, w \in Switches : \A i \in DOMAIN inLinks[v], j \in DOMAIN inLinks[w] :
       /\ inLinks[v][i] = inLinks[w][j] => v = w /\ i = j
       /\ outLinks[v][i] = inLinks[w][j] => outLinks[w][j] = inLinks[v][i]
  BY <1>1, TreeAssumption
<1>4. \A v, w \in Switches : \A i \in DOMAIN inLinks[v], j \in DOMAIN inLinks[w] :
       /\ outLinks[v][i] = outLinks[w][j] => v = w /\ i = j
       /\ outLinks[v][i] = inLinks[w][j] => inLinks[v][i] \notin HostOut
       /\ outLinks[v][i] \notin HostOut
  BY <1>1, NetAssumption
<1>5. ASSUME NEW w \in Switches, NEW i \in DOMAIN inLinks[w]
      PROVE  /\ inLinks[w][i] \notin HostIn
             /\ outLinks[w][i] \in HostIn <=> inLinks[w][i] \in HostOut
             /\ Back(inLinks[w][i]) = outLinks[w][i]
  BY <1>1, <1>4, BackLink DEF HostIn
<1>6. \A h \in HostOut : \E w \in Switches : \E i \in DOMAIN inLinks[w] : inLinks[w][i] = h
  BY TreeAssumption
<1> QED  BY <1>1, <1>2, <1>3, <1>4, <1>5, <1>6

\* The first step of a way.
LEMMA FirstStep ==
  ASSUME NEW l \in Links, NEW m \in Beyond(l), m # l
  PROVE  \E w \in Switches : \E i, j \in DOMAIN inLinks[w] :
           i # j /\ inLinks[w][i] = l /\ m \in Beyond(outLinks[w][j])
<1> DEFINE Next1(n) == \E w \in Switches : \E i, j \in DOMAIN inLinks[w] :
                         i # j /\ inLinks[w][i] = l /\ n \in Beyond(outLinks[w][j])
           S == { n \in Links : n = l \/ Next1(n) }
<1>1. \A w \in Switches : \A j \in DOMAIN inLinks[w] :
        /\ outLinks[w][j] \in Links /\ outLinks[w][j] \in Beyond(outLinks[w][j])
        /\ Closed(Beyond(outLinks[w][j]))
  BY Ports, BeyondLink
<1> HIDE DEF Next1
<1>2. ASSUME NEW k \in S, NEW n \in Links, Onward(k, n)  PROVE n \in S
  <2>1. CASE k = l
    <3>1. Next1(n)
      BY <1>1, <1>2, <2>1 DEF Onward, Next1
    <3> QED  BY <3>1
  <2>2. CASE Next1(k)
    <3>1. Next1(n)
      BY <1>1, <1>2, <2>2 DEF Closed, Next1
    <3> QED  BY <3>1
  <2> QED  BY <2>1, <2>2
<1>3. Closed(S) /\ l \in S /\ S \in SUBSET Links
  BY <1>2 DEF Closed
<1> HIDE DEF S
<1>4. m \in S
  BY <1>3, BeyondLink
<1> QED  BY <1>4 DEF S, Next1

\* The last step of a way.
LEMMA LastStep ==
  ASSUME NEW l \in Links, NEW w \in Switches, NEW j \in DOMAIN inLinks[w],
         outLinks[w][j] \in Beyond(l), outLinks[w][j] # l
  PROVE  \E i \in DOMAIN inLinks[w] : i # j /\ inLinks[w][i] \in Beyond(l)
<1> SUFFICES ASSUME \A i \in DOMAIN inLinks[w] : i # j => inLinks[w][i] \notin Beyond(l)
             PROVE  FALSE
  OBVIOUS
<1> DEFINE S == Beyond(l) \ {outLinks[w][j]}
<1>1. ASSUME NEW k \in S, NEW n \in Links, Onward(k, n)  PROVE n \in S
  <2>1. n \in Beyond(l)
    BY <1>1, BeyondLink DEF Closed
  <2>2. n # outLinks[w][j]
    BY <1>1, Ports DEF Onward
  <2> QED  BY <2>1, <2>2
<1>2. Closed(S) /\ l \in S /\ S \in SUBSET Links
  BY <1>1, BeyondLink DEF Closed
<1> QED  BY <1>2, BeyondLink

\* What a host sends comes to a switch on one port, which it does not leave by, and
\* to no place that a host sends from.
LEMMA OneWay ==
  ASSUME NEW h \in HostOut
  PROVE  /\ \A l \in Beyond(h) : h \in Behind[l]
         /\ \A g \in HostOut : g \in Beyond(h) => g = h
         /\ \A w \in Switches : \A i, j \in DOMAIN inLinks[w] :
              inLinks[w][i] \in Beyond(h) /\ inLinks[w][j] \in Beyond(h) => i = j
         /\ \A w \in Switches : \A i \in DOMAIN inLinks[w] :
              inLinks[w][i] \in Beyond(h) => outLinks[w][i] \notin Beyond(h)
<1>1. h \in Links
  BY Ports
<1>2. \A l \in Beyond(h) : h \in Behind[l]
  <2> DEFINE S == { l \in Links : h \in Behind[l] }
  <2>1. ASSUME NEW k \in S, NEW n \in Links, Onward(k, n)  PROVE n \in S
    <3>1. PICK w \in Switches : \E i, j \in DOMAIN inLinks[w] :
            i # j /\ inLinks[w][i] = k /\ outLinks[w][j] = n
      BY <2>1 DEF Onward
    <3>2. PICK i \in DOMAIN inLinks[w] : \E j \in DOMAIN inLinks[w] :
            i # j /\ inLinks[w][i] = k /\ outLinks[w][j] = n
      BY <3>1
    <3>3. PICK j \in DOMAIN inLinks[w] : i # j /\ inLinks[w][i] = k /\ outLinks[w][j] = n
      BY <3>2
    <3>4. Behind[n] = UNION { Behind[inLinks[w][a]] : a \in DOMAIN inLinks[w] \ {j} }
      BY <3>3, Ports, NetAssumption
    <3> QED  BY <3>3, <3>4
  <2>2. Closed(S) /\ h \in S /\ S \in SUBSET Links
    BY <1>1, <2>1, NetAssumption DEF Closed
  <2> HIDE DEF S
  <2>3. Beyond(h) \subseteq S
    BY <1>1, <2>2, BeyondLink
  <2> QED  BY <2>3 DEF S
<1>3. ASSUME NEW g \in HostOut, g \in Beyond(h), g # h  PROVE FALSE
  <2> DEFINE S == Beyond(h) \ {g}
  <2>1. ASSUME NEW k \in S, NEW n \in Links, Onward(k, n)  PROVE n \in S
    <3>1. n \in Beyond(h)
      BY <1>1, <2>1, BeyondLink DEF Closed
    <3>2. n \notin HostOut
      BY <2>1, Ports DEF Onward
    <3> QED  BY <3>1, <3>2
  <2>2. Closed(S) /\ h \in S /\ S \in SUBSET Links
    BY <1>1, <1>3, <2>1, BeyondLink DEF Closed
  <2> QED  BY <1>1, <1>3, <2>2, BeyondLink
<1>4. ASSUME NEW w \in Switches, NEW i \in DOMAIN inLinks[w], NEW j \in DOMAIN inLinks[w],
             inLinks[w][i] \in Beyond(h), inLinks[w][j] \in Beyond(h)
      PROVE  i = j
  BY <1>2, <1>4, TreeAssumption
<1>5. ASSUME NEW w \in Switches, NEW i \in DOMAIN inLinks[w], inLinks[w][i] \in Beyond(h),
             outLinks[w][i] \in Beyond(h)
      PROVE  FALSE
  <2>1. outLinks[w][i] # h
    BY Ports
  <2>2. PICK k \in DOMAIN inLinks[w] : k # i /\ inLinks[w][k] \in Beyond(h)
    BY <1>1, <1>5, <2>1, LastStep
  <2> QED  BY <1>4, <1>5, <2>2
<1> QED  BY <1>2, <1>3, <1>4, <1>5

\* Nor does it come back to a link it has gone on from.
LEMMA NoReturn ==
  ASSUME NEW h \in HostOut, NEW w \in Switches,
         NEW i \in DOMAIN inLinks[w], NEW j \in DOMAIN inLinks[w], i # j,
         inLinks[w][i] \in Beyond(h)
  PROVE  /\ outLinks[w][j] \in Beyond(h) /\ Beyond(outLinks[w][j]) \subseteq Beyond(h)
         /\ inLinks[w][i] \notin Beyond(outLinks[w][j])
<1> DEFINE Good1(l) == \A m \in Links : Onward(l, m) => l \notin Beyond(m)
           G == { l \in Beyond(h) : Good1(l) }
<1>1. h \in Links /\ h \in Beyond(h) /\ Beyond(h) \subseteq Links /\ Closed(Beyond(h))
  BY Ports, BeyondLink
<1>2. ASSUME NEW m \in Links, Onward(h, m), h \in Beyond(m)  PROVE FALSE
  <2>1. m # h
    BY <1>2, Ports DEF Onward
  <2> DEFINE S == Beyond(m) \ {h}
  <2>2. ASSUME NEW k \in S, NEW n \in Links, Onward(k, n)  PROVE n \in S
    <3>1. n \in Beyond(m)
      BY <2>2, BeyondLink DEF Closed
    <3>2. n \notin HostOut
      BY <2>2, Ports DEF Onward
    <3> QED  BY <3>1, <3>2
  <2>3. Closed(S) /\ m \in S /\ S \in SUBSET Links
    BY <2>1, <2>2, BeyondLink DEF Closed
  <2> QED  BY <1>2, <2>3, BeyondLink
<1>3. ASSUME NEW l \in G, NEW m \in Links, Onward(l, m)  PROVE m \in G
  <2>1. l \in Beyond(h) /\ l \in Links /\ Good1(l) /\ m \in Beyond(h)
    BY <1>1, <1>3 DEF Closed
  <2>2. l \notin Beyond(m)
    BY <1>3, <2>1
  <2>3. l # m
    BY <2>2, BeyondLink
  <2>4. ASSUME NEW n \in Links, Onward(m, n), m \in Beyond(n)  PROVE FALSE
    <3>1. PICK v \in Switches : \E a, b \in DOMAIN inLinks[v] :
            a # b /\ inLinks[v][a] = l /\ outLinks[v][b] = m
      BY <1>3 DEF Onward
    <3>2. PICK a \in DOMAIN inLinks[v] : \E b \in DOMAIN inLinks[v] :
            a # b /\ inLinks[v][a] = l /\ outLinks[v][b] = m
      BY <3>1
    <3>3. PICK b \in DOMAIN inLinks[v] : a # b /\ inLinks[v][a] = l /\ outLinks[v][b] = m
      BY <3>2
    <3>4. m # n
      <4>1. SUFFICES ASSUME m = n  PROVE FALSE
        OBVIOUS
      <4>2. PICK u \in Switches : \E c, d \in DOMAIN inLinks[u] :
              c # d /\ inLinks[u][c] = m /\ outLinks[u][d] = m
        BY <2>4, <4>1 DEF Onward
      <4>3. PICK c \in DOMAIN inLinks[u] : \E d \in DOMAIN inLinks[u] :
              c # d /\ inLinks[u][c] = m /\ outLinks[u][d] = m
        BY <4>2
      <4>4. u = v
        BY <3>3, <4>3, Ports
      <4>5. a = c
        BY <2>1, <3>3, <4>3, <4>4, OneWay
      <4> QED  BY <2>3, <3>3, <4>3, <4>4, <4>5
    <3>5. n \in Beyond(m) /\ Beyond(n) \subseteq Beyond(m) /\ Beyond(m) \subseteq Beyond(h)
      BY <1>1, <2>1, <2>4, BeyondLink DEF Closed
    <3>6. PICK c \in DOMAIN inLinks[v] : c # b /\ inLinks[v][c] \in Beyond(n)
      BY <2>4, <3>3, <3>4, LastStep
    <3>7. a = c
      BY <2>1, <3>3, <3>5, <3>6, OneWay
    <3> QED  BY <2>2, <3>3, <3>5, <3>6, <3>7
  <2> QED  BY <2>1, <2>4
<1>4. h \in G
  BY <1>1, <1>2
<1>5. G \in SUBSET Links /\ Closed(G)
  BY <1>1, <1>3 DEF Closed
<1>6. Beyond(h) \subseteq G
  <2> HIDE DEF G
  <2> QED  BY <1>1, <1>4, <1>5, BeyondLink
<1>7. Onward(inLinks[w][i], outLinks[w][j]) /\ outLinks[w][j] \in Links
  BY Ports DEF Onward
<1>8. inLinks[w][i] \notin Beyond(outLinks[w][j])
  BY <1>6, <1>7
<1>9. outLinks[w][j] \in Beyond(h)
  BY <1>1, <1>7 DEF Closed
<1> QED  BY <1>1, <1>8, <1>9, BeyondLink

\* Where packets of a host come in is the way to it.
LEMMA WayBack ==
  ASSUME NEW g \in HostOut, NEW w \in Switches, NEW j \in DOMAIN inLinks[w],
         inLinks[w][j] \in Beyond(g)
  PROVE  Back(g) \in Beyond(outLinks[w][j])
<1> DEFINE Leads(l) == \A v \in Switches : \A k \in DOMAIN inLinks[v] :
                         inLinks[v][k] = l => Back(g) \in Beyond(outLinks[v][k])
           S == { l \in Links : Leads(l) }
<1>1. Leads(g)
  BY Ports, BeyondLink
<1>2. ASSUME NEW l \in S, NEW m \in Links, Onward(l, m)  PROVE m \in S
  <2>1. PICK u \in Switches : \E a, b \in DOMAIN inLinks[u] :
          a # b /\ inLinks[u][a] = l /\ outLinks[u][b] = m
    BY <1>2 DEF Onward
  <2>2. PICK a \in DOMAIN inLinks[u] : \E b \in DOMAIN inLinks[u] :
          a # b /\ inLinks[u][a] = l /\ outLinks[u][b] = m
    BY <2>1
  <2>3. PICK b \in DOMAIN inLinks[u] : a # b /\ inLinks[u][a] = l /\ outLinks[u][b] = m
    BY <2>2
  <2>4. Back(g) \in Beyond(outLinks[u][a])
    BY <2>3
  <2>5. ASSUME NEW v \in Switches, NEW k \in DOMAIN inLinks[v], inLinks[v][k] = m
        PROVE  Back(g) \in Beyond(outLinks[v][k])
    <3>1. outLinks[v][k] = inLinks[u][b] /\ outLinks[v][k] \in Links /\ outLinks[u][a] \in Links
      BY <2>3, <2>5, Ports
    <3>2. Onward(outLinks[v][k], outLinks[u][a])
      BY <2>3, <3>1 DEF Onward
    <3>3. outLinks[u][a] \in Beyond(outLinks[v][k])
      BY <3>1, <3>2, BeyondLink DEF Closed
    <3> QED  BY <2>4, <3>1, <3>3, BeyondLink
  <2> QED  BY <2>5
<1>3. g \in S /\ S \in SUBSET Links /\ Closed(S) /\ g \in Links
  BY <1>1, <1>2, Ports DEF Closed
<1> HIDE DEF S
<1>4. inLinks[w][j] \in S
  BY <1>3, BeyondLink
<1> QED  BY <1>4 DEF S

\* What comes in on a link does not come from behind the link the other way.
LEMMA ApartBehind ==
  ASSUME NEW w \in Switches, NEW j \in DOMAIN inLinks[w], NEW g \in Behind[inLinks[w][j]]
  PROVE  g \notin Behind[outLinks[w][j]]
<1>1. Behind[outLinks[w][j]] =
        UNION { Behind[inLinks[w][k]] : k \in DOMAIN inLinks[w] \ {j} }
  BY Ports, NetAssumption
<1> QED  BY <1>1, TreeAssumption

-----------------------------------------------------------------------------
\* A table that has learned gives the new link for the source, and for other
\* addresses what it gave before.
LEMMA LearnLookup ==
  ASSUME NEW t \in Seq(TableEntry), DistinctAddrs(t), NEW p \in WholePacket, NEW n \in Nat \ {0}
  PROVE  LET u == Learn(t, p, n)
         IN  /\ u \in Seq(TableEntry)
             /\ KnownAddrs(u) = KnownAddrs(t) \cup {p.src_addr}
             /\ tableGetOutLink(u, p.src_addr) = n
             /\ \A b, o : b # p.src_addr /\ LookedUp(u, b, o) => LookedUp(t, b, o)
             /\ \A k \in DOMAIN u :
                  \/ u[k].dest_addr = p.src_addr /\ u[k].linkOutNum = n
                  \/ u[k].dest_addr # p.src_addr /\ \E j \in DOMAIN t : u[k] = t[j]
<1> DEFINE a == p.src_addr
           u == Learn(t, p, n)
<1>1. a \in Int /\ u = tableUpdate(t, 1, a, n)
  BY DEF WholePacket, packetBuffer, Sendable, Learn
<1>2. /\ u \in Seq(TableEntry) /\ KnownAddrs(u) = KnownAddrs(t) \cup {a}
      /\ DistinctAddrs(u)
      /\ \A k \in DOMAIN u :
           \/ u[k] = [valid |-> 1, dest_addr |-> a, linkOutNum |-> n]
           \/ \E j \in DOMAIN t : u[k] = t[j]
  BY <1>1, UpdateTable
<1>3. \E k \in DOMAIN u : u[k].dest_addr = a /\ u[k].linkOutNum = n
  <2> DEFINE e == [valid |-> 1, dest_addr |-> a, linkOutNum |-> n]
             i == tableEntryIndex(t, a)
  <2>1. e \in TableEntry /\ e.dest_addr = a /\ e.linkOutNum = n
    BY <1>1 DEF TableEntry
  <2>2. DOMAIN t = 1 .. Len(t) /\ Len(t) \in Nat
    BY LenProperties
  <2>3. CASE a \notin KnownAddrs(t)
    <3>1. u = Append(t, e)
      BY <1>1, <2>3, IndexFound DEF tableUpdate, tableAddEntry
    <3>2. u[Len(t) + 1] = e /\ Len(u) = Len(t) + 1 /\ DOMAIN u = 1 .. Len(u)
      BY <1>2, <2>1, <3>1, AppendProperties, LenProperties
    <3> HIDE DEF u, e
    <3> QED  BY <2>1, <2>2, <3>2
  <2>4. CASE a \in KnownAddrs(t)
    <3>1. i \in DOMAIN t /\ t[i].dest_addr = a
      BY <2>4, IndexFound
    <3>2. u = [t EXCEPT ![i] = [valid |-> 1, dest_addr |-> t[i].dest_addr, linkOutNum |-> n]]
      BY <1>1, <2>2, <3>1 DEF tableUpdate, tableUpdateEntry
    <3> HIDE DEF i
    <3>3. i \in DOMAIN u /\ u[i] = e
      BY <3>1, <3>2
    <3> HIDE DEF u, e
    <3> QED  BY <2>1, <3>3
  <2> QED  BY <2>3, <2>4
<1> HIDE DEF u, a
<1>4. \A k \in DOMAIN u : u[k].dest_addr = a => u[k].linkOutNum = n
  BY <1>2, <1>3 DEF DistinctAddrs
<1>5. tableGetOutLink(u, a) = n
  <2>1. \/ tableGetOutLink(u, a) = -1 /\ a \notin KnownAddrs(u)
        \/ \E i \in DOMAIN u : u[i].dest_addr = a /\ u[i].linkOutNum = tableGetOutLink(u, a)
    BY <1>2, LookupTable
  <2> QED  BY <1>2, <1>4, <2>1
<1>6. \A k \in DOMAIN u :
        \/ u[k].dest_addr = a /\ u[k].linkOutNum = n
        \/ u[k].dest_addr # a /\ \E j \in DOMAIN t : u[k] = t[j]
  BY <1>2, <1>4
<1>7. ASSUME NEW b, NEW o, b # a, LookedUp(u, b, o)  PROVE LookedUp(t, b, o)
  <2>1. CASE o = -1 /\ b \notin KnownAddrs(u)
    BY <1>2, <2>1 DEF LookedUp
  <2>2. CASE \E i \in DOMAIN u : u[i].dest_addr = b /\ u[i].linkOutNum = o
    <3>1. PICK i \in DOMAIN u : u[i].dest_addr = b /\ u[i].linkOutNum = o
      BY <2>2
    <3>2. PICK j \in DOMAIN t : u[i] = t[j]
      BY <1>6, <1>7, <3>1
    <3> QED  BY <3>1, <3>2 DEF LookedUp
  <2> QED  BY <1>7, <2>1, <2>2 DEF LookedUp
<1> QED  BY <1>2, <1>5, <1>6, <1>7 DEF u, a

-----------------------------------------------------------------------------
(* One packet at a time *)

Held(w) == Contents(queue[w])
Busy(w) == Held(w) # << >> \/ pc[w] = "send"
Intact == \A w \in Switches : pc[w] # "corrupt"

\* The packet q has come to the host on link g.
Got(q, g) == q.payload \in TagsIn(pipe[Back(g)])

\* The packet p has not been on the links of S nor in the switches that read them.
Clean(p, S) ==
  \A l \in S :
    /\ p.payload \notin TagsIn(pipe[l])
    /\ \A w \in Switches : \A i \in DOMAIN inLinks[w] : inLinks[w][i] = l => ~Busy(w)

\* What comes in at w on its link i may still go out on link j.
Due(w, i, j) ==
  /\ i # j
  /\ \/ pipe[inLinks[w][i]] # << >>
     \/ Held(w) # << >>
     \/ pc[w] = "send" /\ (outLink[w] = j \/ (outLink[w] = -1 /\ idx[w] <= j))

\* The packet p of the host on link h is the only one on its way.  It is in pipes,
Alone(h, p) ==
  \A l \in Links \ HostIn : pipe[l] = << >> \/ (l \in Beyond(h) /\ pipe[l] = Encode(p))

\* and in switches that have learned where it came in.
InPlace(h, p) ==
  \A w \in Switches :
    /\ Held(w) \in {<< >>, << p >>}
    /\ pc[w] = "send" => /\ Held(w) = << >> /\ outPacket[w] = p
                         /\ LookedUp(table[w], p.dest_addr, outLink[w])
    /\ Busy(w) => \E i \in DOMAIN inLinks[w] :
                    /\ inLinks[w][i] \in Beyond(h) /\ pipe[inLinks[w][i]] = << >>
                    /\ tableGetOutLink(table[w], p.src_addr) = i

\* It has not been where it may still go,
Ahead(h, p) ==
  \A w \in Switches : \A i, j \in DOMAIN inLinks[w] :
    inLinks[w][i] \in Beyond(h) /\ Due(w, i, j) => Clean(p, Beyond(outLinks[w][j]))

\* nor back to its sender, which may have sent it to itself.
Unanswered(h, p) ==
  \A w \in Switches : \A i \in DOMAIN inLinks[w] :
    /\ inLinks[w][i] = h
    /\ \/ pipe[h] # << >>
       \/ Held(w) # << >>
       \/ pc[w] = "send" /\ outLink[w] = i
    => p.payload \notin TagsIn(pipe[outLinks[w][i]])

\* Where it comes in from another switch, that is not the way to its destination.
Headed(h, p) ==
  \A w \in Switches : \A i \in DOMAIN inLinks[w] :
    /\ inLinks[w][i] \in Beyond(h) \ {h}
    /\ pipe[inLinks[w][i]] # << >> \/ Busy(w)
    => p.src_addr # p.dest_addr /\ ~LookedUp(table[w], p.dest_addr, i)

\* The switch that has sent it knows its source.
Learned(h, p) ==
  \A v, w \in Switches : \A j \in DOMAIN inLinks[v], i \in DOMAIN inLinks[w] :
    outLinks[v][j] = inLinks[w][i] /\ pipe[inLinks[w][i]] # << >>
    => p.src_addr \in KnownAddrs(table[v])

\* It has come or will come to all it is for, unless a table was full.
Coming(h, g) ==
  \E w \in Switches : \E i, j \in DOMAIN inLinks[w] :
    inLinks[w][i] \in Beyond(h) /\ Due(w, i, j) /\ Back(g) \in Beyond(outLinks[w][j])
Comes(h, p) ==
  Intact => \A g \in HostOut : IsFor(p, g) => Got(p, g) \/ Coming(h, g)

\* All others have come.
Settled(S) == Intact => \A q \in S : \A g \in HostOut : IsFor(q, g) => Got(q, g)

\* It is the last its host has sent.
Newest(h, p) == p \in Sent /\ p.payload = [from |-> h, seq |-> Len(sent[h])]

OnWay(h, p) ==
  /\ Newest(h, p)
  /\ Alone(h, p) /\ InPlace(h, p) /\ Ahead(h, p) /\ Unanswered(h, p)
  /\ Headed(h, p) /\ Learned(h, p) /\ Comes(h, p) /\ Settled(Sent \ {p})

\* A table sends towards a host from which packets have come in there.
Tables ==
  \A w \in Switches : \A k \in DOMAIN table[w] : \E g \in HostOut :
    /\ table[w][k].dest_addr \in SrcAddrs[g]
    /\ inLinks[w][table[w][k].linkOutNum] \in Beyond(g)

\* What a table knows of what comes in from another switch, that switch knows too.
Heard ==
  \A v, w \in Switches : \A j \in DOMAIN inLinks[v], i \in DOMAIN inLinks[w] :
    outLinks[v][j] = inLinks[w][i] =>
      \A k \in DOMAIN table[w] :
        table[w][k].linkOutNum = i => table[w][k].dest_addr \in KnownAddrs(table[v])

\* What has come to hosts.
Ends ==
  /\ \A l \in HostIn :
       /\ Ordered(pipe[l]) /\ TagsIn(pipe[l]) \subseteq SentTags
       /\ Len(pipe[l]) <= (3 + PAYLOAD_LENGTH) * Cardinality(TagsIn(pipe[l]))
  /\ \A g \in HostOut : \A t \in TagsIn(pipe[Back(g)]) : t.from = g => Has(g, t)

Calm ==
  /\ Tables /\ Heard /\ Ends
  /\ (Quiet /\ Settled(Sent)) \/ \E h \in HostOut : \E p \in Sent : OnWay(h, p)

-----------------------------------------------------------------------------
\* The tag of a packet alone in a pipe, and what a read of it gives.
LEMMA AloneInPipe ==
  ASSUME NEW p \in WholePacket, 3 + PAYLOAD_LENGTH < ReadMax
  PROVE  /\ p.payload \in TagsIn(Encode(p)) /\ Encode(p) # << >>
         /\ linkReceive(Encode(p)) = p /\ Unread(Encode(p)) = << >>
         /\ TagsIn(<< >>) = {}
<1> DEFINE e == Encode(p)
<1>1. /\ e \in Seq(Cell) /\ Len(e) = 3 + p.length /\ p.length \in Nat \ {0}
  BY EncodeCells
<1>2. p.length <= PAYLOAD_LENGTH
  BY DEF WholePacket, Sendable
<1>3. << >> \o e = e /\ e \o << >> = e /\ << >> \in Seq(Cell)
  BY <1>1, ConcatEmptySeq, EmptySeq
<1>4. Len(<< >>) = 0 /\ PayloadsIn(<< >>) = {} /\ TagsIn(<< >>) = {}
  BY DEF PayloadsIn, WordStarts, TagsIn
<1>5. p.payload \in TagsIn(e)
  <2>1. PayloadsIn(<< >> \o e) = PayloadsIn(<< >>) \cup {Len(<< >>) + 4}
        /\ (<< >> \o e)[Len(<< >>) + 4].val = p.payload
    BY <1>3, AppendPayload
  <2>2. 4 \in PayloadsIn(e) /\ e[4].val = p.payload
    BY <1>3, <1>4, <2>1
  <2> HIDE DEF e
  <2> QED  BY <2>2 DEF TagsIn
<1>6. Len(e) <= ReadMax /\ e # << >>
  <2>1. \A n \in Nat : n <= PAYLOAD_LENGTH => 3 + n <= ReadMax
    BY LinkAssumption
  <2>2. Len(e) <= ReadMax /\ Len(e) # 0
    BY <1>1, <1>2, <2>1
  <2> HIDE DEF e
  <2> QED  BY <1>4, <2>2
<1>7. BeginsWith({p}, e)
  BY <1>3 DEF BeginsWith
<1> HIDE DEF e
<1>8. linkReceive(e) \in {p} /\ Unread(e) = << >>
  BY <1>1, <1>6, <1>7, ReceiveBegins
<1> QED  BY <1>4, <1>5, <1>6, <1>8 DEF e

\* What each step needs to know of the state before it.
LEMMA CalmFacts ==
  ASSUME Inv, History, CalmTree, NEW h \in HostOut, NEW p, OnWay(h, p)
  PROVE  /\ p \in WholePacket /\ p \in packetBuffer /\ p \in Sent /\ p.payload.from = h
         /\ p.payload \in Tag /\ p.src_addr \in SrcAddrs[h] /\ p.src_addr # -1
         /\ p = TheSent(p.payload)
         /\ h \in Links /\ h \in Beyond(h) /\ Beyond(h) \subseteq Links
         /\ p.payload \in TagsIn(Encode(p)) /\ Encode(p) # << >>
         /\ linkReceive(Encode(p)) = p /\ Unread(Encode(p)) = << >>
         /\ TagsIn(<< >>) = {}
         /\ pipe \in [Links -> Seq(Cell)]
         /\ \A w \in Switches :
              /\ Good(w, queue[w], table[w], pc[w], idx[w], outPacket[w], outLink[w])
              /\ Held(w) \in Seq(packetBuffer)
<1>1. p \in Sent /\ p.payload = [from |-> h, seq |-> Len(sent[h])]
  BY DEF OnWay, Newest
<1>2. /\ p \in WholePacket /\ p.payload.from = h /\ p.payload \in Tag
      /\ p.src_addr \in SrcAddrs[h] /\ p = TheSent(p.payload)
  BY <1>1, SentPackets
<1>3. p.src_addr # -1 /\ p \in packetBuffer
  BY <1>2 DEF WholePacket, packetBuffer
<1>4. h \in Links /\ h \in Beyond(h) /\ Beyond(h) \subseteq Links
  BY Ports, BeyondLink
<1>5. /\ p.payload \in TagsIn(Encode(p)) /\ Encode(p) # << >>
      /\ linkReceive(Encode(p)) = p /\ Unread(Encode(p)) = << >>
      /\ TagsIn(<< >>) = {}
  BY <1>2, AloneInPipe DEF CalmTree
<1>6. ASSUME NEW w \in Switches
      PROVE  /\ Good(w, queue[w], table[w], pc[w], idx[w], outPacket[w], outLink[w])
             /\ Held(w) \in Seq(packetBuffer)
  <2>1. /\ Good(w, queue[w], table[w], pc[w], idx[w], outPacket[w], outLink[w])
        /\ IsRing(queue[w], packetBuffer)
    BY DEF Inv, SwitchInv, Good
  <2> QED  BY <2>1, ContentsSeq DEF Held
<1>7. pipe \in [Links -> Seq(Cell)]
  BY DEF Inv, SwitchInv
<1> QED  BY <1>1, <1>2, <1>3, <1>4, <1>5, <1>6, <1>7

\* A step of one switch leaves the others alone.
LEMMA OthersHold ==
  ASSUME Inv, NEW v \in Switches, SwitchStep(v), NEW w \in Switches, w # v
  PROVE  /\ Held(w)' = Held(w) /\ table'[w] = table[w] /\ pc'[w] = pc[w]
         /\ idx'[w] = idx[w] /\ outPacket'[w] = outPacket[w] /\ outLink'[w] = outLink[w]
         /\ Busy(w)' = Busy(w)
<1>1. /\ queue'[w] = queue[w] /\ table'[w] = table[w] /\ pc'[w] = pc[w]
      /\ idx'[w] = idx[w] /\ outPacket'[w] = outPacket[w] /\ outLink'[w] = outLink[w]
  BY OthersKeep
<1>2. Held(w)' = Held(w)
  BY <1>1 DEF Held, Contents, SlotOf
<1>3. Busy(w)' = Busy(w)
  BY <1>1, <1>2 DEF Busy
<1> QED  BY <1>1, <1>2, <1>3

\* If no clean link and no switch at its end gets anything, all stays clean.
LEMMA CleanStays ==
  ASSUME NEW p, NEW S, Clean(p, S),
         \A l \in S : TagsIn(pipe'[l]) \subseteq TagsIn(pipe[l]),
         \A l \in S : \A w \in Switches : \A i \in DOMAIN inLinks[w] :
           inLinks[w][i] = l /\ Busy(w)' => Busy(w)
  PROVE  Clean(p, S)'
<1> QED  BY DEF Clean, TagsIn, PayloadsIn, WordStarts

-----------------------------------------------------------------------------
\* What holds of sent packets holds as long as no host sends.
LEMMA SentStays ==
  ASSUME sent' = sent
  PROVE  /\ Sent' = Sent /\ SentTags' = SentTags
         /\ \A h, p : Newest(h, p) => Newest(h, p)'
         /\ \A g, t : Has(g, t)' <=> Has(g, t)
<1>1. Sent' = Sent /\ SentTags' = SentTags
  BY DEF Sent, Proper, Addrs, IsSent, TheSent, SentTags
<1> QED  BY <1>1 DEF Newest, Has, TheSent

\* What has come to a host stays there.
LEMMA GotStays ==
  ASSUME \A l \in HostIn : TagsIn(pipe[l]) \subseteq TagsIn(pipe'[l])
  PROVE  /\ \A x : \A g \in HostOut : Got(x, g) => Got(x, g)'
         /\ (Intact' => Intact) => \A S : Settled(S) => Settled(S)'
<1>1. ASSUME NEW x, NEW g \in HostOut, Got(x, g)  PROVE Got(x, g)'
  <2>1. Back(g) \in HostIn
    BY Ports
  <2> QED  BY <1>1, <2>1 DEF Got, TagsIn, PayloadsIn, WordStarts
<1> QED  BY <1>1 DEF Settled

\* What is coming goes on coming, or has come.
LEMMA ComesStays ==
  ASSUME NEW h, NEW p, Comes(h, p), Intact' => Intact,
         \A g \in HostOut : Got(p, g) => Got(p, g)',
         ASSUME NEW g \in HostOut, NEW w \in Switches,
                NEW a \in DOMAIN inLinks[w], NEW b \in DOMAIN inLinks[w], IsFor(p, g), Intact',
                inLinks[w][a] \in Beyond(h), Due(w, a, b), Back(g) \in Beyond(outLinks[w][b])
         PROVE  Got(p, g)' \/ Coming(h, g)'
  PROVE  Comes(h, p)'
<1> SUFFICES ASSUME Intact', NEW g \in HostOut, IsFor(p, g), ~Got(p, g)'
             PROVE  Coming(h, g)'
  BY DEF Comes
<1>1. Coming(h, g)
  BY DEF Comes
<1>2. PICK w \in Switches : \E a, b \in DOMAIN inLinks[w] :
        inLinks[w][a] \in Beyond(h) /\ Due(w, a, b) /\ Back(g) \in Beyond(outLinks[w][b])
  BY <1>1 DEF Coming
<1>3. PICK a \in DOMAIN inLinks[w] : \E b \in DOMAIN inLinks[w] :
        inLinks[w][a] \in Beyond(h) /\ Due(w, a, b) /\ Back(g) \in Beyond(outLinks[w][b])
  BY <1>2
<1>4. PICK b \in DOMAIN inLinks[w] :
        inLinks[w][a] \in Beyond(h) /\ Due(w, a, b) /\ Back(g) \in Beyond(outLinks[w][b])
  BY <1>3
<1> QED  BY <1>4

\* The packet comes in, and the switch learns where.
LEMMA CalmArrives ==
  ASSUME Inv, History, CalmTree, Tables, Heard,
         NEW h \in HostOut, NEW p, OnWay(h, p),
         NEW v \in Switches, SwitchStep(v), sent' = sent, NEW q, Arrives(v, q)
  PROVE  /\ OnWay(h, p)' /\ Tables' /\ Heard'
         /\ \A l \in HostIn : pipe'[l] = pipe[l]
<1> DEFINE i == idx[v]
           l == inLinks[v][i]
<1>1. /\ p \in WholePacket /\ p \in Sent /\ p.payload.from = h /\ p.src_addr \in SrcAddrs[h]
      /\ Beyond(h) \subseteq Links
      /\ p.payload \in TagsIn(Encode(p)) /\ Encode(p) # << >>
      /\ linkReceive(Encode(p)) = p /\ Unread(Encode(p)) = << >>
      /\ TagsIn(<< >>) = {}
      /\ Good(v, queue[v], table[v], pc[v], idx[v], outPacket[v], outLink[v])
  BY CalmFacts
<1>2. /\ Alone(h, p) /\ InPlace(h, p) /\ Ahead(h, p) /\ Unanswered(h, p)
      /\ Headed(h, p) /\ Learned(h, p) /\ Comes(h, p) /\ Settled(Sent \ {p})
      /\ Newest(h, p)
  BY DEF OnWay
<1>3. /\ pc[v] = "store" /\ i \in DOMAIN inLinks[v] /\ l \in Links /\ l \notin HostIn
      /\ pipe[l] # << >> /\ q = linkReceive(pipe[l])
  BY Ports DEF Arrives
<1>4. l \in Beyond(h) /\ pipe[l] = Encode(p) /\ q = p
  BY <1>1, <1>2, <1>3 DEF Alone
<1>5. \A k \in Links : pipe'[k] = IF k = l THEN << >> ELSE pipe[k]
  BY <1>1, <1>4 DEF Arrives
<1>6. ASSUME NEW k \in DOMAIN inLinks[v], inLinks[v][k] \in Beyond(h)  PROVE k = i
  BY <1>3, <1>4, <1>6, OneWay
<1>7. Held(v) = << >> /\ ~Busy(v)
  <2>1. ~Busy(v)
    BY <1>2, <1>3, <1>6 DEF InPlace
  <2> QED  BY <2>1 DEF Busy
<1>8. \/ Held(v)' = << >> /\ pc'[v] = "corrupt" /\ table'[v] = table[v]
      \/ Held(v)' = << p >> /\ pc'[v] = "store" /\ table'[v] = Learn(table[v], p, i)
  <2>1. \/ pc'[v] = "corrupt" /\ queue'[v] = queue[v] /\ table'[v] = table[v]
        \/ /\ pc'[v] = "store"
           /\ table'[v] = Learn(table[v], p, i)
           /\ Contents(queue'[v]) =
                IF Len(Contents(queue[v])) = MAXQUEUE THEN Contents(queue[v])
                ELSE Append(Contents(queue[v]), p)
    BY <1>4 DEF Arrives
  <2>2. Contents(queue[v]) = << >> /\ Len(<< >>) = 0 /\ MAXQUEUE # 0
    BY <1>7, QueueAssumption DEF Held
  <2>3. Append(<< >>, p) = << p >>
    OBVIOUS
  <2>4. CASE pc'[v] = "corrupt" /\ queue'[v] = queue[v] /\ table'[v] = table[v]
    BY <2>2, <2>4 DEF Held, Contents, SlotOf
  <2>5. CASE pc'[v] = "store" /\ table'[v] = Learn(table[v], p, i)
             /\ Contents(queue'[v]) = << p >>
    <3>1. Held(v)' = << p >>
      BY <2>5 DEF Held, Contents, SlotOf
    <3> QED  BY <2>5, <3>1
  <2> QED  BY <2>1, <2>2, <2>3, <2>4, <2>5
<1>9. ASSUME NEW w \in Switches, w # v
      PROVE  /\ Held(w)' = Held(w) /\ table'[w] = table[w] /\ pc'[w] = pc[w]
             /\ idx'[w] = idx[w] /\ outPacket'[w] = outPacket[w] /\ outLink'[w] = outLink[w]
             /\ Busy(w)' = Busy(w)
  BY <1>9, OthersHold
<1>10. /\ i \in Nat \ {0} /\ table[v] \in Seq(TableEntry) /\ DistinctAddrs(table[v])
  BY <1>1 DEF Good
<1>11. LET u == Learn(table[v], p, i)
       IN  /\ KnownAddrs(u) = KnownAddrs(table[v]) \cup {p.src_addr}
           /\ tableGetOutLink(u, p.src_addr) = i
           /\ \A b, o : b # p.src_addr /\ LookedUp(u, b, o) => LookedUp(table[v], b, o)
           /\ \A k \in DOMAIN u :
                \/ u[k].dest_addr = p.src_addr /\ u[k].linkOutNum = i
                \/ u[k].dest_addr # p.src_addr /\ \E j \in DOMAIN table[v] : u[k] = table[v][j]
  BY <1>1, <1>10, LearnLookup
<1>12. \A w \in Switches : KnownAddrs(table[w]) \subseteq KnownAddrs(table'[w])
  BY <1>8, <1>9, <1>11
<1>13. \A k \in HostIn : pipe'[k] = pipe[k]
  BY <1>3, <1>5, Ports
<1> HIDE DEF i, l
<1>14. \A w \in Switches : \A a \in DOMAIN inLinks[w] :
         inLinks[w][a] \in Links /\ (w # v => inLinks[w][a] # l)
  BY <1>3, Ports DEF l
<1>15. \A w \in Switches : \A a \in DOMAIN inLinks[w] :
         w # v => pipe'[inLinks[w][a]] = pipe[inLinks[w][a]]
  BY <1>5, <1>14
<1>16. Alone(h, p)'
  BY <1>2, <1>5 DEF Alone
<1>17. InPlace(h, p)'
  <2> SUFFICES ASSUME NEW w \in Switches
               PROVE  /\ Held(w)' \in {<< >>, << p >>}
                      /\ pc'[w] = "send" => /\ Held(w)' = << >> /\ outPacket'[w] = p
                                            /\ LookedUp(table'[w], p.dest_addr, outLink'[w])
                      /\ Busy(w)' => \E a \in DOMAIN inLinks[w] :
                                       /\ inLinks[w][a] \in Beyond(h) /\ pipe'[inLinks[w][a]] = << >>
                                       /\ tableGetOutLink(table'[w], p.src_addr) = a
    BY DEF InPlace
  <2>1. CASE w = v
    <3>1. Busy(v)' => Held(v)' = << p >> /\ table'[v] = Learn(table[v], p, i)
      BY <1>8 DEF Busy
    <3>2. inLinks[v][i] \in Beyond(h) /\ pipe'[inLinks[v][i]] = << >> /\ i \in DOMAIN inLinks[v]
      BY <1>3, <1>4, <1>5 DEF l
    <3> QED  BY <1>8, <1>11, <2>1, <3>1, <3>2
  <2>2. CASE w # v
    BY <1>2, <1>9, <1>15, <2>2 DEF InPlace
  <2> QED  BY <2>1, <2>2
<1>18. Ahead(h, p)'
  <2> SUFFICES ASSUME NEW w \in Switches, NEW a \in DOMAIN inLinks[w], NEW b \in DOMAIN inLinks[w],
                      inLinks[w][a] \in Beyond(h), Due(w, a, b)'
               PROVE  Clean(p, Beyond(outLinks[w][b]))'
    BY DEF Ahead
  <2>1. a # b
    BY DEF Due
  <2>2. Due(w, a, b)
    <3>1. CASE w = v
      <4>1. a = i
        BY <1>6, <3>1
      <4> QED  BY <1>3, <2>1, <3>1, <4>1 DEF Due, l
    <3>2. CASE w # v
      BY <1>9, <1>15, <3>2 DEF Due
    <3> QED  BY <3>1, <3>2
  <2>3. Clean(p, Beyond(outLinks[w][b]))
    BY <1>2, <2>2 DEF Ahead
  <2>4. Beyond(outLinks[w][b]) \subseteq Beyond(h)
    BY <2>1, NoReturn
  <2>5. l \notin Beyond(outLinks[w][b])
    BY <1>1, <1>4, <2>3 DEF Clean
  <2>6. \A k \in Beyond(outLinks[w][b]) : pipe'[k] = pipe[k]
    BY <1>1, <1>5, <2>4, <2>5
  <2>7. ASSUME NEW k \in Beyond(outLinks[w][b]), NEW u \in Switches, NEW c \in DOMAIN inLinks[u],
               inLinks[u][c] = k, Busy(u)'
        PROVE  Busy(u)
    <3>1. u # v
      BY <1>6, <2>4, <2>5, <2>7 DEF l
    <3> QED  BY <1>9, <2>7, <3>1
  <2> QED  BY <2>3, <2>6, <2>7, CleanStays
<1>19. Unanswered(h, p)'
  <2> SUFFICES ASSUME NEW w \in Switches, NEW a \in DOMAIN inLinks[w], inLinks[w][a] = h,
                      \/ pipe'[h] # << >>
                      \/ Held(w)' # << >>
                      \/ pc'[w] = "send" /\ outLink'[w] = a
               PROVE  p.payload \notin TagsIn(pipe'[outLinks[w][a]])
    BY DEF Unanswered, TagsIn, PayloadsIn, WordStarts
  <2>1. pipe'[outLinks[w][a]] = pipe[outLinks[w][a]]
    BY <1>13, Ports
  <2>2. CASE w = v
    <3>1. pipe[h] # << >>
      BY <1>3, <1>6, <2>2, CalmFacts DEF l
    <3> QED  BY <1>2, <2>1, <3>1 DEF Unanswered
  <2>3. CASE w # v
    <3>1. pipe'[h] = pipe[h]
      BY <1>15, <2>3
    <3> QED  BY <1>2, <1>9, <2>1, <2>3, <3>1 DEF Unanswered
  <2> QED  BY <2>2, <2>3
<1>20. Headed(h, p)'
  <2> SUFFICES ASSUME NEW w \in Switches, NEW a \in DOMAIN inLinks[w],
                      inLinks[w][a] \in Beyond(h) \ {h},
                      pipe'[inLinks[w][a]] # << >> \/ Busy(w)'
               PROVE  p.src_addr # p.dest_addr /\ ~LookedUp(table'[w], p.dest_addr, a)
    BY DEF Headed
  <2>1. CASE w = v
    <3>1. a = i /\ inLinks[v][a] = l
      BY <1>6, <2>1 DEF l
    <3>2. p.src_addr # p.dest_addr /\ ~LookedUp(table[v], p.dest_addr, a)
      BY <1>2, <1>3, <2>1, <3>1 DEF Headed
    <3> QED  BY <1>8, <1>11, <2>1, <3>2
  <2>2. CASE w # v
    BY <1>2, <1>9, <1>15, <2>2 DEF Headed
  <2> QED  BY <2>1, <2>2
<1>21. Learned(h, p)'
  <2> SUFFICES ASSUME NEW u \in Switches, NEW w \in Switches, NEW j \in DOMAIN inLinks[u],
                      NEW a \in DOMAIN inLinks[w], outLinks[u][j] = inLinks[w][a],
                      pipe'[inLinks[w][a]] # << >>
               PROVE  p.src_addr \in KnownAddrs(table'[u])
    BY DEF Learned, KnownAddrs
  <2>1. pipe[inLinks[w][a]] # << >>
    BY <1>5, <1>14
  <2>2. p.src_addr \in KnownAddrs(table[u])
    BY <1>2, <2>1 DEF Learned
  <2> QED  BY <1>12, <2>2
<1>22. Intact' => Intact /\ Held(v)' = << p >>
  <2> SUFFICES ASSUME Intact'  PROVE Intact /\ Held(v)' = << p >>
    OBVIOUS
  <2>1. pc'[v] # "corrupt"
    BY DEF Intact
  <2> QED  BY <1>3, <1>8, <1>9, <2>1 DEF Intact
<1>23. /\ \A x : \A g \in HostOut : Got(x, g) => Got(x, g)'
       /\ Settled(Sent \ {p}) => Settled(Sent \ {p})'
  <2>1. \A k \in HostIn : TagsIn(pipe[k]) \subseteq TagsIn(pipe'[k])
    BY <1>13
  <2>2. Sent' = Sent
    BY SentStays
  <2>3. \A S : Settled(S) => Settled(S)'
    BY <1>22, <2>1, GotStays
  <2> QED  BY <2>1, <2>2, <2>3, GotStays DEF Settled
<1>24. Comes(h, p)'
  <2>1. ASSUME NEW g \in HostOut, NEW w \in Switches,
               NEW a \in DOMAIN inLinks[w], NEW b \in DOMAIN inLinks[w], IsFor(p, g), Intact',
               inLinks[w][a] \in Beyond(h), Due(w, a, b), Back(g) \in Beyond(outLinks[w][b])
        PROVE  Got(p, g)' \/ Coming(h, g)'
    <3>1. a # b
      BY <2>1 DEF Due
    <3>2. Due(w, a, b)'
      <4>1. CASE w = v
        <5>1. << p >> # << >>
          OBVIOUS
        <5>2. Held(v)' # << >>
          BY <1>22, <2>1, <5>1
        <5> QED  BY <3>1, <4>1, <5>2 DEF Due
      <4>2. CASE w # v
        BY <1>9, <1>15, <2>1, <4>2 DEF Due
      <4> QED  BY <4>1, <4>2
    <3> QED  BY <2>1, <3>2 DEF Coming
  <2> QED  BY <1>2, <1>22, <1>23, <2>1, ComesStays
<1>25. Newest(h, p)'
  BY <1>2, SentStays
<1>26. OnWay(h, p)'
  BY <1>2, <1>16, <1>17, <1>18, <1>19, <1>20, <1>21, <1>23, <1>24, <1>25 DEF OnWay
<1>27. Tables'
  <2> SUFFICES ASSUME NEW w \in Switches, NEW k \in DOMAIN table'[w]
               PROVE  \E g \in HostOut :
                        /\ table'[w][k].dest_addr \in SrcAddrs[g]
                        /\ inLinks[w][table'[w][k].linkOutNum] \in Beyond(g)
    BY DEF Tables
  <2>1. CASE table'[w] = table[w]
    BY <2>1 DEF Tables
  <2>2. CASE w = v /\ table'[v] = Learn(table[v], p, i)
    <3>1. CASE table'[w][k].dest_addr = p.src_addr /\ table'[w][k].linkOutNum = i
      BY <1>1, <1>4, <2>2, <3>1 DEF l
    <3>2. CASE \E j \in DOMAIN table[v] : table'[w][k] = table[v][j]
      BY <2>2, <3>2 DEF Tables
    <3> QED  BY <1>11, <2>2, <3>1, <3>2
  <2> QED  BY <1>8, <1>9, <2>1, <2>2
<1>28. Heard'
  <2> SUFFICES ASSUME NEW u \in Switches, NEW w \in Switches, NEW j \in DOMAIN inLinks[u],
                      NEW a \in DOMAIN inLinks[w], outLinks[u][j] = inLinks[w][a],
                      NEW k \in DOMAIN table'[w], table'[w][k].linkOutNum = a
               PROVE  table'[w][k].dest_addr \in KnownAddrs(table'[u])
    BY DEF Heard, KnownAddrs
  <2>1. CASE table'[w] = table[w]
    BY <1>12, <2>1 DEF Heard
  <2>2. CASE w = v /\ table'[v] = Learn(table[v], p, i)
    <3>1. CASE table'[w][k].dest_addr = p.src_addr /\ table'[w][k].linkOutNum = i
      <4>1. p.src_addr \in KnownAddrs(table[u])
        BY <1>2, <1>3, <2>2, <3>1 DEF Learned, l
      <4> QED  BY <1>12, <3>1, <4>1
    <3>2. CASE \E n \in DOMAIN table[v] : table'[w][k] = table[v][n]
      BY <1>12, <2>2, <3>2 DEF Heard
    <3> QED  BY <1>11, <2>2, <3>1, <3>2
  <2> QED  BY <1>8, <1>9, <2>1, <2>2
<1> QED  BY <1>13, <1>26, <1>27, <1>28

\* The packet is taken out of the queue and looked up: not towards where it came
\* in, unless back to its sender.
LEMMA CalmTakes ==
  ASSUME Inv, History, CalmTree, Tables,
         NEW h \in HostOut, NEW p, OnWay(h, p),
         NEW v \in Switches, SwitchStep(v), sent' = sent, Takes(v)
  PROVE  OnWay(h, p)' /\ pipe' = pipe /\ table'[v] = table[v]
<1>1. /\ p \in WholePacket /\ p \in Sent /\ p.payload.from = h /\ p.src_addr # -1
      /\ Good(v, queue[v], table[v], pc[v], idx[v], outPacket[v], outLink[v])
  BY CalmFacts
<1>2. /\ Alone(h, p) /\ InPlace(h, p) /\ Ahead(h, p) /\ Unanswered(h, p)
      /\ Headed(h, p) /\ Learned(h, p) /\ Comes(h, p) /\ Settled(Sent \ {p})
      /\ Newest(h, p)
  BY DEF OnWay
<1>3. /\ Held(v) = << p >> /\ Held(v) # << >> /\ Busy(v)
  <2>1. Held(v) # << >>
    BY DEF Takes, Held
  <2> QED  BY <1>2, <2>1 DEF InPlace, Busy
<1>4. /\ pipe' = pipe /\ table'[v] = table[v] /\ pc[v] = "store" /\ pc'[v] = "send"
      /\ outPacket'[v] = p /\ idx'[v] = 1
      /\ LookedUp(table[v], p.dest_addr, outLink'[v])
  <2>1. Head(Contents(queue[v])) = p
    BY <1>3 DEF Held
  <2> QED  BY <1>1, <2>1 DEF Takes
<1>5. Held(v)' = << >> /\ Busy(v)'
  <2>1. Contents(queue'[v]) = << >>
    BY <1>3 DEF Takes, Held
  <2>2. Held(v)' = << >>
    BY <2>1 DEF Held, Contents, SlotOf
  <2> QED  BY <1>4, <2>2 DEF Busy
<1>6. PICK r \in DOMAIN inLinks[v] :
        /\ inLinks[v][r] \in Beyond(h) /\ pipe[inLinks[v][r]] = << >>
        /\ tableGetOutLink(table[v], p.src_addr) = r
  BY <1>2, <1>3 DEF InPlace
<1>7. ASSUME NEW a \in DOMAIN inLinks[v], inLinks[v][a] \in Beyond(h)  PROVE a = r
  BY <1>6, <1>7, OneWay
<1>8. ASSUME NEW w \in Switches, w # v
      PROVE  /\ Held(w)' = Held(w) /\ table'[w] = table[w] /\ pc'[w] = pc[w]
             /\ idx'[w] = idx[w] /\ outPacket'[w] = outPacket[w] /\ outLink'[w] = outLink[w]
             /\ Busy(w)' = Busy(w)
  BY <1>8, OthersHold
<1>9. \A w \in Switches : table'[w] = table[w] /\ (Busy(w)' <=> Busy(w))
  BY <1>3, <1>4, <1>5, <1>8
<1>10. Alone(h, p)'
  BY <1>2, <1>4 DEF Alone
<1>11. InPlace(h, p)'
  <2> SUFFICES ASSUME NEW w \in Switches
               PROVE  /\ Held(w)' \in {<< >>, << p >>}
                      /\ pc'[w] = "send" => /\ Held(w)' = << >> /\ outPacket'[w] = p
                                            /\ LookedUp(table'[w], p.dest_addr, outLink'[w])
                      /\ Busy(w)' => \E a \in DOMAIN inLinks[w] :
                                       /\ inLinks[w][a] \in Beyond(h) /\ pipe'[inLinks[w][a]] = << >>
                                       /\ tableGetOutLink(table'[w], p.src_addr) = a
    BY DEF InPlace
  <2>1. CASE w = v
    BY <1>4, <1>5, <1>6, <2>1
  <2>2. CASE w # v
    BY <1>2, <1>4, <1>8, <2>2 DEF InPlace
  <2> QED  BY <2>1, <2>2
<1>12. Ahead(h, p)'
  <2> SUFFICES ASSUME NEW w \in Switches, NEW a \in DOMAIN inLinks[w], NEW b \in DOMAIN inLinks[w],
                      inLinks[w][a] \in Beyond(h), Due(w, a, b)'
               PROVE  Clean(p, Beyond(outLinks[w][b]))'
    BY DEF Ahead
  <2>1. Due(w, a, b)
    <3>1. CASE w = v
      BY <1>3, <3>1 DEF Due
    <3>2. CASE w # v
      BY <1>4, <1>8, <3>2 DEF Due
    <3> QED  BY <3>1, <3>2
  <2>2. Clean(p, Beyond(outLinks[w][b]))
    BY <1>2, <2>1 DEF Ahead
  <2> QED  BY <1>4, <1>9, <2>2, CleanStays
<1>13. Unanswered(h, p)'
  <2> SUFFICES ASSUME NEW w \in Switches, NEW a \in DOMAIN inLinks[w], inLinks[w][a] = h,
                      \/ pipe'[h] # << >>
                      \/ Held(w)' # << >>
                      \/ pc'[w] = "send" /\ outLink'[w] = a
               PROVE  p.payload \notin TagsIn(pipe'[outLinks[w][a]])
    BY DEF Unanswered, TagsIn, PayloadsIn, WordStarts
  <2>1. \/ pipe[h] # << >>
        \/ Held(w) # << >>
        \/ pc[w] = "send" /\ outLink[w] = a
    BY <1>3, <1>4, <1>8
  <2> QED  BY <1>2, <1>4, <2>1 DEF Unanswered
<1>14. Headed(h, p)' /\ Learned(h, p)'
  BY <1>2, <1>4, <1>9 DEF Headed, Learned, KnownAddrs
<1>15. Intact' => Intact
  BY <1>4, <1>8 DEF Intact
<1>16. /\ \A g \in HostOut : Got(p, g) => Got(p, g)'
       /\ Settled(Sent \ {p}) => Settled(Sent \ {p})'
  <2>1. \A k \in HostIn : TagsIn(pipe[k]) \subseteq TagsIn(pipe'[k])
    BY <1>4
  <2>2. Sent' = Sent
    BY SentStays
  <2>3. \A S : Settled(S) => Settled(S)'
    BY <1>15, <2>1, GotStays
  <2> QED  BY <2>1, <2>2, <2>3, GotStays DEF Settled
<1>17. Comes(h, p)'
  <2>1. ASSUME NEW g \in HostOut, NEW w \in Switches,
               NEW a \in DOMAIN inLinks[w], NEW b \in DOMAIN inLinks[w], IsFor(p, g), Intact',
               inLinks[w][a] \in Beyond(h), Due(w, a, b), Back(g) \in Beyond(outLinks[w][b])
        PROVE  Got(p, g)' \/ Coming(h, g)'
    <3>1. CASE w # v
      <4>1. Due(w, a, b)'
        BY <1>4, <1>8, <2>1, <3>1 DEF Due
      <4> QED  BY <2>1, <4>1 DEF Coming
    <3>2. CASE w = v /\ outLink'[v] = -1
      <4>1. a = r /\ b # r /\ idx'[v] <= b
        <5>1. a = r /\ a # b
          BY <1>7, <2>1, <3>2 DEF Due
        <5>2. DOMAIN inLinks[v] = 1 .. Len(inLinks[v])
          BY LinksOf
        <5> QED  BY <1>4, <3>2, <5>1, <5>2
      <4>2. Due(w, a, b)'
        BY <1>4, <3>2, <4>1 DEF Due
      <4> QED  BY <2>1, <4>2 DEF Coming
    <3>3. CASE w = v /\ outLink'[v] # -1
      <4>1. PICK k \in DOMAIN table[v] :
              table[v][k].dest_addr = p.dest_addr /\ table[v][k].linkOutNum = outLink'[v]
        BY <1>4, <3>3 DEF LookedUp
      <4>2. PICK f \in HostOut : p.dest_addr \in SrcAddrs[f] /\ inLinks[v][outLink'[v]] \in Beyond(f)
        BY <4>1 DEF Tables
      <4>3. PICK o \in DOMAIN inLinks[v] : o = outLink'[v] /\ o = table[v][k].linkOutNum
        BY <1>1, <4>1 DEF Good
      <4>4. g # h /\ p.dest_addr \in SrcAddrs[g]
        BY <1>1, <2>1, <4>2 DEF IsFor
      <4>5. f = g
        BY <4>2, <4>4 DEF CalmTree, OwnAddrs
      <4>6. o # r
        <5>1. SUFFICES ASSUME o = r  PROVE FALSE
          OBVIOUS
        <5>2. CASE inLinks[v][r] = h
          BY <4>2, <4>3, <4>4, <4>5, <5>1, <5>2, OneWay
        <5>3. CASE inLinks[v][r] # h
          <6>1. ~LookedUp(table[v], p.dest_addr, r)
            BY <1>2, <1>3, <1>6, <5>3 DEF Headed
          <6> QED  BY <4>1, <4>3, <5>1, <6>1 DEF LookedUp
        <5> QED  BY <5>2, <5>3
      <4>7. Back(g) \in Beyond(outLinks[v][o])
        BY <4>2, <4>3, <4>5, WayBack
      <4>8. Due(v, r, o)'
        BY <1>4, <4>3, <4>6 DEF Due
      <4> QED  BY <1>6, <4>3, <4>7, <4>8 DEF Coming
    <3> QED  BY <3>1, <3>2, <3>3
  <2> QED  BY <1>2, <1>15, <1>16, <2>1, ComesStays
<1>18. Newest(h, p)'
  BY <1>2, SentStays
<1> QED  BY <1>2, <1>4, <1>10, <1>11, <1>12, <1>13, <1>14, <1>16, <1>17, <1>18 DEF OnWay

\* The switch leaves out where the packet came in, or ends sending it.
LEMMA CalmRests ==
  ASSUME Inv, History, CalmTree,
         NEW h \in HostOut, NEW p, OnWay(h, p),
         NEW v \in Switches, SwitchStep(v), sent' = sent, Rests(v)
  PROVE  OnWay(h, p)' /\ pipe' = pipe /\ table'[v] = table[v]
<1>1. /\ p \in WholePacket /\ p \in Sent /\ p.payload.from = h
      /\ Good(v, queue[v], table[v], pc[v], idx[v], outPacket[v], outLink[v])
  BY CalmFacts
<1>2. /\ Alone(h, p) /\ InPlace(h, p) /\ Ahead(h, p) /\ Unanswered(h, p)
      /\ Headed(h, p) /\ Learned(h, p) /\ Comes(h, p) /\ Settled(Sent \ {p})
      /\ Newest(h, p)
  BY DEF OnWay
<1>3. /\ pipe' = pipe /\ queue'[v] = queue[v] /\ table'[v] = table[v]
      /\ outPacket'[v] = outPacket[v] /\ outLink'[v] = outLink[v]
      /\ \/ pc[v] = "store" /\ pc'[v] = "store"
         \/ /\ pc[v] = "send" /\ outLink[v] = -1 /\ idx[v] = srcLink(v)
            /\ pc'[v] = "send" /\ idx'[v] = idx[v] + 1
         \/ /\ pc[v] = "send" /\ outLink[v] = -1 /\ idx[v] > Len(inLinks[v])
            /\ pc'[v] = "store"
  BY DEF Rests
<1>4. Held(v)' = Held(v)
  BY <1>3 DEF Held, Contents, SlotOf
<1>5. (Busy(v)' => Busy(v)) /\ (pc'[v] = "send" => pc[v] = "send")
  BY <1>3, <1>4 DEF Busy
<1>6. ASSUME NEW w \in Switches, w # v
      PROVE  /\ Held(w)' = Held(w) /\ table'[w] = table[w] /\ pc'[w] = pc[w]
             /\ idx'[w] = idx[w] /\ outPacket'[w] = outPacket[w] /\ outLink'[w] = outLink[w]
             /\ Busy(w)' = Busy(w)
  BY <1>6, OthersHold
<1>7. \A w \in Switches : table'[w] = table[w] /\ (Busy(w)' => Busy(w))
  BY <1>3, <1>5, <1>6
<1>8. ASSUME NEW a \in DOMAIN inLinks[v], NEW b \in DOMAIN inLinks[v], inLinks[v][a] \in Beyond(h)
      PROVE  Due(v, a, b)' <=> Due(v, a, b)
  <2>1. DOMAIN inLinks[v] = 1 .. Len(inLinks[v]) /\ Len(inLinks[v]) \in Nat /\ idx[v] \in Nat
    BY <1>1, LinksOf DEF Good
  <2>2. CASE pc[v] = "store" /\ pc'[v] = "store"
    BY <1>3, <1>4, <2>2 DEF Due
  <2>3. CASE /\ pc[v] = "send" /\ outLink[v] = -1 /\ idx[v] = srcLink(v)
             /\ pc'[v] = "send" /\ idx'[v] = idx[v] + 1
    <3>1. outPacket[v] = p /\ Busy(v)
      BY <1>2, <2>3 DEF InPlace, Busy
    <3>2. srcLink(v) = a
      BY <1>2, <1>8, <3>1, OneWay DEF InPlace, srcLink
    <3>3. a # b => (idx'[v] <= b <=> idx[v] <= b)
      BY <2>1, <2>3, <3>2
    <3> QED  BY <1>3, <1>4, <2>3, <3>3 DEF Due
  <2>4. CASE /\ pc[v] = "send" /\ outLink[v] = -1 /\ idx[v] > Len(inLinks[v])
             /\ pc'[v] = "store"
    <3>1. outLink[v] # b /\ ~(idx[v] <= b)
      BY <2>1, <2>4
    <3> QED  BY <1>3, <1>4, <2>4, <3>1 DEF Due
  <2> QED  BY <1>3, <2>2, <2>3, <2>4
<1>9. ASSUME NEW w \in Switches, NEW a \in DOMAIN inLinks[w], NEW b \in DOMAIN inLinks[w],
             inLinks[w][a] \in Beyond(h)
      PROVE  Due(w, a, b)' <=> Due(w, a, b)
  <2>1. CASE w = v
    BY <1>8, <1>9, <2>1
  <2>2. CASE w # v
    BY <1>3, <1>6, <2>2 DEF Due
  <2> QED  BY <2>1, <2>2
<1>10. Alone(h, p)'
  BY <1>2, <1>3 DEF Alone
<1>11. InPlace(h, p)'
  <2> SUFFICES ASSUME NEW w \in Switches
               PROVE  /\ Held(w)' \in {<< >>, << p >>}
                      /\ pc'[w] = "send" => /\ Held(w)' = << >> /\ outPacket'[w] = p
                                            /\ LookedUp(table'[w], p.dest_addr, outLink'[w])
                      /\ Busy(w)' => \E a \in DOMAIN inLinks[w] :
                                       /\ inLinks[w][a] \in Beyond(h) /\ pipe'[inLinks[w][a]] = << >>
                                       /\ tableGetOutLink(table'[w], p.src_addr) = a
    BY DEF InPlace
  <2>1. CASE w = v
    BY <1>2, <1>3, <1>4, <1>5, <2>1 DEF InPlace
  <2>2. CASE w # v
    BY <1>2, <1>3, <1>6, <2>2 DEF InPlace
  <2> QED  BY <2>1, <2>2
<1>12. Ahead(h, p)'
  <2> SUFFICES ASSUME NEW w \in Switches, NEW a \in DOMAIN inLinks[w], NEW b \in DOMAIN inLinks[w],
                      inLinks[w][a] \in Beyond(h), Due(w, a, b)'
               PROVE  Clean(p, Beyond(outLinks[w][b]))'
    BY DEF Ahead
  <2>1. Clean(p, Beyond(outLinks[w][b]))
    BY <1>2, <1>9 DEF Ahead
  <2> QED  BY <1>3, <1>7, <2>1, CleanStays
<1>13. Unanswered(h, p)'
  <2> SUFFICES ASSUME NEW w \in Switches, NEW a \in DOMAIN inLinks[w], inLinks[w][a] = h,
                      \/ pipe'[h] # << >>
                      \/ Held(w)' # << >>
                      \/ pc'[w] = "send" /\ outLink'[w] = a
               PROVE  p.payload \notin TagsIn(pipe'[outLinks[w][a]])
    BY DEF Unanswered, TagsIn, PayloadsIn, WordStarts
  <2>1. \/ pipe[h] # << >>
        \/ Held(w) # << >>
        \/ pc[w] = "send" /\ outLink[w] = a
    BY <1>3, <1>4, <1>5, <1>6
  <2> QED  BY <1>2, <1>3, <2>1 DEF Unanswered
<1>14. Headed(h, p)' /\ Learned(h, p)'
  BY <1>2, <1>3, <1>7 DEF Headed, Learned, KnownAddrs
<1>15. Intact' => Intact
  BY <1>3, <1>6 DEF Intact
<1>16. /\ \A g \in HostOut : Got(p, g) => Got(p, g)'
       /\ Settled(Sent \ {p}) => Settled(Sent \ {p})'
  <2>1. \A k \in HostIn : TagsIn(pipe[k]) \subseteq TagsIn(pipe'[k])
    BY <1>3
  <2>2. Sent' = Sent
    BY SentStays
  <2>3. \A S : Settled(S) => Settled(S)'
    BY <1>15, <2>1, GotStays
  <2> QED  BY <2>1, <2>2, <2>3, GotStays DEF Settled
<1>17. Comes(h, p)'
  <2>1. ASSUME NEW g \in HostOut, NEW w \in Switches,
               NEW a \in DOMAIN inLinks[w], NEW b \in DOMAIN inLinks[w], IsFor(p, g), Intact',
               inLinks[w][a] \in Beyond(h), Due(w, a, b), Back(g) \in Beyond(outLinks[w][b])
        PROVE  Got(p, g)' \/ Coming(h, g)'
    <3>1. Due(w, a, b)'
      BY <1>9, <2>1
    <3> QED  BY <2>1, <3>1 DEF Coming
  <2> QED  BY <1>2, <1>15, <1>16, <2>1, ComesStays
<1>18. Newest(h, p)'
  BY <1>2, SentStays
<1> QED  BY <1>2, <1>3, <1>10, <1>11, <1>12, <1>13, <1>14, <1>16, <1>17, <1>18 DEF OnWay

\* There are finitely many tags.
LEMMA TagsFinite == IsFiniteSet(Tag)
<1> DEFINE Part(h) == [from : {h}, seq : 1 .. MaxSend[h]]
           Parts == { Part(h) : h \in HostOut }
           F == [h \in HostOut |-> Part(h)]
<1>1. ASSUME NEW h \in HostOut  PROVE IsFiniteSet(Part(h))
  <2> DEFINE n == MaxSend[h]
             f == [k \in 1 .. n |-> [from |-> h, seq |-> k]]
  <2>1. 1 \in Int /\ n \in Int
    BY NetAssumption
  <2> HIDE DEF n
  <2>2. IsFiniteSet(1 .. n)
    BY <2>1, FS_Interval
  <2>3. f \in Surjection(1 .. n, Part(h))
    BY DEF Surjection, n
  <2> HIDE DEF f, Part
  <2> QED  BY <2>2, <2>3, FS_Surjection
<1>2. F \in Surjection(HostOut, Parts)
  BY DEF Surjection
<1>3. IsFiniteSet(Parts)
  <2> HIDE DEF F, Parts
  <2> QED  BY <1>2, TreeAssumption, FS_Surjection
<1>4. \A T \in Parts : IsFiniteSet(T)
  BY <1>1
<1>5. Tag = UNION Parts
  BY DEF Tag
<1> HIDE DEF Parts
<1> QED  BY <1>3, <1>4, <1>5, FS_UNION

\* Where a packet that is sent comes from, where it goes, and that there is room.
LEMMA WritesCalm ==
  ASSUME Inv, History, CalmTree, Ends,
         NEW h \in HostOut, NEW p, OnWay(h, p),
         NEW v \in Switches, NEW i \in DOMAIN outLinks[v], Writes(v, i)
  PROVE  LET m == outLinks[v][i]
         IN  /\ outPacket[v] = p /\ Held(v) = << >> /\ i \in DOMAIN inLinks[v] /\ m \in Links
             /\ LookedUp(table[v], p.dest_addr, outLink[v])
             /\ p.payload \notin TagsIn(pipe[m])
             /\ TagsIn(pipe'[m]) = TagsIn(pipe[m]) \cup {p.payload}
             /\ m \notin HostIn => pipe'[m] = Encode(p)
             /\ m \in HostIn =>
                  Len(pipe'[m]) <= (3 + PAYLOAD_LENGTH) * Cardinality(TagsIn(pipe'[m]))
             /\ \E r \in DOMAIN inLinks[v] :
                  /\ inLinks[v][r] \in Beyond(h) /\ pipe[inLinks[v][r]] = << >>
                  /\ tableGetOutLink(table[v], p.src_addr) = r
                  /\ i # r => Due(v, r, i) /\ Clean(p, Beyond(m)) /\ m \in Beyond(h)
                  /\ i = r => inLinks[v][r] = h /\ m \in HostIn /\ outLink[v] = i
<1> DEFINE m == outLinks[v][i]
<1>1. /\ p \in WholePacket /\ p.payload \in Tag /\ h \in Links
      /\ Encode(p) # << >> /\ p.payload \in TagsIn(Encode(p)) /\ TagsIn(<< >>) = {}
      /\ pipe \in [Links -> Seq(Cell)]
      /\ Good(v, queue[v], table[v], pc[v], idx[v], outPacket[v], outLink[v])
  BY CalmFacts
<1>2. Alone(h, p) /\ InPlace(h, p) /\ Ahead(h, p) /\ Unanswered(h, p) /\ Headed(h, p)
  BY DEF OnWay
<1>3. /\ i \in DOMAIN inLinks[v] /\ m \in Links /\ i \in Int /\ i # -1
      /\ m \in HostIn <=> inLinks[v][i] \in HostOut
  BY Ports
<1>4. /\ pc[v] = "send" /\ pipe'[m] = linkSend(pipe[m], outPacket[v])
      /\ \/ outLink[v] = i
         \/ outLink[v] = -1 /\ idx[v] = i /\ i # srcLink(v)
  BY <1>3 DEF Writes
<1>5. /\ outPacket[v] = p /\ Held(v) = << >> /\ Busy(v)
      /\ LookedUp(table[v], p.dest_addr, outLink[v])
  BY <1>2, <1>4 DEF InPlace, Busy
<1>6. PICK r \in DOMAIN inLinks[v] :
        /\ inLinks[v][r] \in Beyond(h) /\ pipe[inLinks[v][r]] = << >>
        /\ tableGetOutLink(table[v], p.src_addr) = r
  BY <1>2, <1>5 DEF InPlace
<1> HIDE DEF m
<1>7. ASSUME i # r  PROVE Due(v, r, i) /\ Clean(p, Beyond(m)) /\ m \in Beyond(h)
  <2>1. Due(v, r, i)
    BY <1>3, <1>4, <1>7 DEF Due
  <2>2. Clean(p, Beyond(m))
    BY <1>2, <1>3, <1>6, <2>1 DEF Ahead, m
  <2>3. m \in Beyond(h)
    BY <1>3, <1>6, <1>7, NoReturn DEF m
  <2> QED  BY <2>1, <2>2, <2>3
<1>8. ASSUME i = r  PROVE inLinks[v][r] = h /\ m \in HostIn /\ outLink[v] = i
  <2>1. outLink[v] = i
    BY <1>4, <1>5, <1>6, <1>8 DEF srcLink
  <2>2. inLinks[v][r] = h
    <3>1. LookedUp(table[v], p.dest_addr, r)
      BY <1>5, <1>8, <2>1
    <3> QED  BY <1>2, <1>5, <1>6, <3>1 DEF Headed
  <2> QED  BY <1>3, <1>8, <2>1, <2>2
<1>9. p.payload \notin TagsIn(pipe[m])
  <2>1. CASE i # r
    <3>1. m \in Beyond(m)
      BY <1>3, BeyondLink
    <3> QED  BY <1>7, <2>1, <3>1 DEF Clean
  <2>2. CASE i = r
    BY <1>2, <1>3, <1>4, <1>8, <2>2 DEF Unanswered, m
  <2> QED  BY <2>1, <2>2
<1>10. p.length \in Nat /\ p.length <= PAYLOAD_LENGTH
  BY EncodeCells, <1>1 DEF WholePacket, Sendable
<1>11. ASSUME m \notin HostIn
       PROVE  pipe'[m] = Encode(p) /\ TagsIn(pipe'[m]) = TagsIn(pipe[m]) \cup {p.payload}
  <2>1. pipe[m] = << >>
    BY <1>1, <1>2, <1>3, <1>9, <1>11 DEF Alone
  <2>2. Len(<< >>) = 0 /\ << >> \in Seq(Cell)
    BY EmptySeq
  <2>3. Len(<< >>) + 3 + p.length <= PipeMax
    <3>1. 3 + PAYLOAD_LENGTH <= PipeMax /\ PAYLOAD_LENGTH \in Nat /\ PipeMax \in Nat
      BY LinkAssumption DEF CalmTree
    <3> QED  BY <1>10, <2>2, <3>1
  <2>4. linkSend(<< >>, p) = << >> \o Encode(p)
        /\ TagsIn(linkSend(<< >>, p)) = TagsIn(<< >>) \cup {p.payload}
    <3>1. ~(Len(<< >>) + 3 + p.length > PipeMax)
      BY <1>10, <2>2, <2>3, LinkAssumption
    <3> QED  BY <1>1, <2>2, <3>1, SendTags
  <2>5. << >> \o Encode(p) = Encode(p)
    BY <1>1, EncodeCells, ConcatEmptySeq
  <2> QED  BY <1>4, <1>5, <2>1, <2>4, <2>5
<1>12. ASSUME m \in HostIn
       PROVE  /\ TagsIn(pipe'[m]) = TagsIn(pipe[m]) \cup {p.payload}
              /\ Len(pipe'[m]) <= (3 + PAYLOAD_LENGTH) * Cardinality(TagsIn(pipe'[m]))
  <2>1. /\ TagsIn(pipe[m]) \subseteq Tag /\ pipe[m] \in Seq(Cell)
        /\ Len(pipe[m]) <= (3 + PAYLOAD_LENGTH) * Cardinality(TagsIn(pipe[m]))
    BY <1>1, <1>3, <1>12 DEF Ends, SentTags
  <2>2. /\ IsFiniteSet(Tag) /\ Cardinality(Tag) \in Nat /\ Cardinality(Tag) <= Cardinality(Tag)
        /\ (3 + PAYLOAD_LENGTH) * Cardinality(Tag) <= PipeMax
    BY TagsFinite, FS_CardinalityType DEF CalmTree
  <2>3. p.payload \in Tag \ TagsIn(pipe[m])
    BY <1>1, <1>9
  <2> QED  BY <1>1, <1>4, <1>5, <2>1, <2>2, <2>3, PipeHasRoom
<1> QED  BY <1>3, <1>5, <1>6, <1>7, <1>8, <1>9, <1>11, <1>12 DEF m

\* The packet is sent where it has not been, or back to its sender, once.
LEMMA CalmWrites ==
  ASSUME Inv, History, CalmTree, Tables, Heard, Ends,
         NEW h \in HostOut, NEW p, OnWay(h, p),
         NEW v \in Switches, SwitchStep(v), sent' = sent,
         NEW i \in DOMAIN outLinks[v], Writes(v, i)
  PROVE  OnWay(h, p)' /\ table'[v] = table[v]
<1> DEFINE m == outLinks[v][i]
<1>1. /\ p \in WholePacket /\ p \in Sent /\ p.payload.from = h /\ p.src_addr \in SrcAddrs[h]
      /\ Beyond(h) \subseteq Links /\ Encode(p) # << >>
      /\ Good(v, queue[v], table[v], pc[v], idx[v], outPacket[v], outLink[v])
  BY CalmFacts
<1>2. /\ Alone(h, p) /\ InPlace(h, p) /\ Ahead(h, p) /\ Unanswered(h, p)
      /\ Headed(h, p) /\ Learned(h, p) /\ Comes(h, p) /\ Settled(Sent \ {p})
      /\ Newest(h, p)
  BY DEF OnWay
<1>3. /\ outPacket[v] = p /\ Held(v) = << >> /\ i \in DOMAIN inLinks[v] /\ m \in Links
      /\ LookedUp(table[v], p.dest_addr, outLink[v])
      /\ TagsIn(pipe'[m]) = TagsIn(pipe[m]) \cup {p.payload}
      /\ m \notin HostIn => pipe'[m] = Encode(p)
      /\ \E r \in DOMAIN inLinks[v] :
           /\ inLinks[v][r] \in Beyond(h) /\ pipe[inLinks[v][r]] = << >>
           /\ tableGetOutLink(table[v], p.src_addr) = r
           /\ i # r => Due(v, r, i) /\ Clean(p, Beyond(m)) /\ m \in Beyond(h)
           /\ i = r => inLinks[v][r] = h /\ m \in HostIn /\ outLink[v] = i
  BY WritesCalm
<1>4. PICK r \in DOMAIN inLinks[v] :
        /\ inLinks[v][r] \in Beyond(h) /\ pipe[inLinks[v][r]] = << >>
        /\ tableGetOutLink(table[v], p.src_addr) = r
        /\ i # r => Due(v, r, i) /\ Clean(p, Beyond(m)) /\ m \in Beyond(h)
        /\ i = r => inLinks[v][r] = h /\ m \in HostIn /\ outLink[v] = i
  BY <1>3
<1>5. /\ \A k \in Links : k # m => pipe'[k] = pipe[k]
      /\ queue'[v] = queue[v] /\ table'[v] = table[v]
      /\ outPacket'[v] = outPacket[v] /\ outLink'[v] = outLink[v]
      /\ pc[v] = "send" /\ pc'[v] \in {"send", "store"}
      /\ \/ outLink[v] = i /\ pc'[v] = "store"
         \/ outLink[v] = -1 /\ idx[v] = i /\ pc'[v] = "send" /\ idx'[v] = i + 1
  BY DEF Writes
<1>6. Held(v)' = << >> /\ Busy(v) /\ i \in Int /\ r \in Int /\ i # -1 /\ r # -1
  <2>1. Held(v)' = Held(v)
    BY <1>5 DEF Held, Contents, SlotOf
  <2> QED  BY <1>3, <1>5, <2>1, Ports DEF Busy
<1>7. ASSUME NEW w \in Switches, w # v
      PROVE  /\ Held(w)' = Held(w) /\ table'[w] = table[w] /\ pc'[w] = pc[w]
             /\ idx'[w] = idx[w] /\ outPacket'[w] = outPacket[w] /\ outLink'[w] = outLink[w]
             /\ Busy(w)' = Busy(w)
  BY <1>7, OthersHold
<1>8. \A w \in Switches : table'[w] = table[w] /\ (Busy(w)' => Busy(w))
  BY <1>5, <1>6, <1>7
<1>9. ASSUME NEW w \in Switches, NEW a \in DOMAIN inLinks[w], inLinks[w][a] = m
      PROVE  /\ ~Busy(w) /\ i # r /\ m \notin HostIn /\ m \in Beyond(h) /\ Clean(p, Beyond(m))
             /\ pipe'[m] = Encode(p) /\ inLinks[v][i] \notin HostOut
  <2>1. m \notin HostIn
    BY <1>9, Ports
  <2>2. i # r /\ Clean(p, Beyond(m)) /\ m \in Beyond(h) /\ m \in Beyond(m)
    BY <1>3, <1>4, <2>1, BeyondLink
  <2>3. ~Busy(w)
    BY <1>9, <2>2 DEF Clean
  <2>4. inLinks[v][i] \notin HostOut
    BY <1>3, <2>1, Ports
  <2> QED  BY <1>3, <2>1, <2>2, <2>3, <2>4
<1>10. ASSUME NEW w \in Switches, NEW a \in DOMAIN inLinks[w], inLinks[w][a] # m
       PROVE  pipe'[inLinks[w][a]] = pipe[inLinks[w][a]]
  BY <1>5, <1>10, Ports
<1>11. ASSUME NEW a \in DOMAIN inLinks[v], inLinks[v][a] \in Beyond(h)  PROVE a = r
  BY <1>4, <1>11, OneWay
<1>12. inLinks[v][r] # m /\ pipe'[inLinks[v][r]] = << >>
  BY <1>4, <1>6, <1>9, <1>10
<1> HIDE DEF m
<1>13. Alone(h, p)'
  <2>1. m \notin HostIn => m \in Beyond(h) /\ pipe'[m] = Encode(p)
    BY <1>3, <1>4
  <2> QED  BY <1>2, <1>5, <2>1 DEF Alone
<1>14. InPlace(h, p)'
  <2> SUFFICES ASSUME NEW w \in Switches
               PROVE  /\ Held(w)' \in {<< >>, << p >>}
                      /\ pc'[w] = "send" => /\ Held(w)' = << >> /\ outPacket'[w] = p
                                            /\ LookedUp(table'[w], p.dest_addr, outLink'[w])
                      /\ Busy(w)' => \E a \in DOMAIN inLinks[w] :
                                       /\ inLinks[w][a] \in Beyond(h) /\ pipe'[inLinks[w][a]] = << >>
                                       /\ tableGetOutLink(table'[w], p.src_addr) = a
    BY DEF InPlace
  <2>1. CASE w = v
    BY <1>3, <1>4, <1>5, <1>6, <1>12, <2>1
  <2>2. CASE w # v
    <3>1. /\ Held(w)' \in {<< >>, << p >>}
          /\ pc'[w] = "send" => /\ Held(w)' = << >> /\ outPacket'[w] = p
                                /\ LookedUp(table'[w], p.dest_addr, outLink'[w])
      BY <1>2, <1>7, <2>2 DEF InPlace
    <3>2. ASSUME Busy(w)'
          PROVE  \E a \in DOMAIN inLinks[w] :
                    /\ inLinks[w][a] \in Beyond(h) /\ pipe'[inLinks[w][a]] = << >>
                    /\ tableGetOutLink(table'[w], p.src_addr) = a
      <4>1. Busy(w)
        BY <1>8, <3>2
      <4>2. PICK a \in DOMAIN inLinks[w] :
              /\ inLinks[w][a] \in Beyond(h) /\ pipe[inLinks[w][a]] = << >>
              /\ tableGetOutLink(table[w], p.src_addr) = a
        BY <1>2, <4>1 DEF InPlace
      <4>3. pipe'[inLinks[w][a]] = << >>
        BY <1>9, <1>10, <4>1, <4>2
      <4> QED  BY <1>8, <4>2, <4>3
    <3> QED  BY <3>1, <3>2
  <2> QED  BY <2>1, <2>2
<1>15. ASSUME NEW w \in Switches, NEW a \in DOMAIN inLinks[w], NEW b \in DOMAIN inLinks[w],
              inLinks[w][a] # m, Due(w, a, b)'
       PROVE  Due(w, a, b)
  <2>1. pipe'[inLinks[w][a]] = pipe[inLinks[w][a]]
    BY <1>10, <1>15
  <2>2. CASE w = v
    <3>1. outLink[v] = -1 /\ idx'[v] = i + 1 /\ idx'[v] <= b => idx[v] <= b
      <4>1. b \in Int
        BY Ports
      <4> QED  BY <1>5, <1>6, <4>1
    <3> QED  BY <1>3, <1>5, <1>6, <1>15, <2>1, <2>2, <3>1 DEF Due
  <2>3. CASE w # v
    BY <1>7, <1>15, <2>1, <2>3 DEF Due
  <2> QED  BY <2>2, <2>3
<1>16. Ahead(h, p)'
  <2> SUFFICES ASSUME NEW w \in Switches, NEW a \in DOMAIN inLinks[w], NEW b \in DOMAIN inLinks[w],
                      inLinks[w][a] \in Beyond(h), Due(w, a, b)'
               PROVE  Clean(p, Beyond(outLinks[w][b]))'
    BY DEF Ahead
  <2> DEFINE n == outLinks[w][b]
  <2>1. a # b /\ n \in Links /\ n \in Beyond(n) /\ Beyond(n) \subseteq Links
    BY Ports, BeyondLink DEF Due
  <2>2. Clean(p, Beyond(n)) /\ m \notin Beyond(n)
    <3>1. CASE inLinks[w][a] = m
      <4>1. Clean(p, Beyond(m)) /\ Closed(Beyond(m)) /\ m \in Beyond(m)
        BY <1>3, <1>9, <3>1, BeyondLink
      <4>2. m \notin Beyond(n)
        BY <2>1, <3>1, NoReturn
      <4>3. n \in Beyond(m)
        BY <2>1, <3>1, <4>1 DEF Closed, Onward
      <4>4. Beyond(n) \subseteq Beyond(m)
        BY <1>3, <4>3, BeyondLink
      <4> QED  BY <4>1, <4>2, <4>4 DEF Clean
    <3>2. CASE inLinks[w][a] # m
      <4>1. Clean(p, Beyond(n))
        BY <1>2, <1>15, <3>2 DEF Ahead
      <4>2. SUFFICES ASSUME m \in Beyond(n)  PROVE FALSE
        BY <4>1
      <4>3. CASE m = n
        <5>1. w = v /\ b = i
          BY <1>3, <4>3, Ports DEF m
        <5>2. a = r
          BY <1>11, <5>1
        <5>3. b \in Int /\ ~(i + 1 <= i)
          BY <1>6, <5>1
        <5>4. ~Due(v, r, i)'
          BY <1>5, <1>6, <1>12, <2>1, <5>1, <5>2, <5>3 DEF Due
        <5> QED  BY <5>1, <5>2, <5>4
      <4>4. CASE m # n
        <5>1. \E k \in DOMAIN inLinks[v] : k # i /\ inLinks[v][k] \in Beyond(n)
          BY <1>3, <2>1, <4>2, <4>4, LastStep DEF m
        <5>2. ~Busy(v)
          BY <4>1, <5>1 DEF Clean
        <5> QED  BY <1>6, <5>2
      <4> QED  BY <4>3, <4>4
    <3> QED  BY <3>1, <3>2
  <2> HIDE DEF n
  <2>3. \A l \in Beyond(n) : TagsIn(pipe'[l]) \subseteq TagsIn(pipe[l])
    BY <1>5, <2>1, <2>2
  <2>4. Clean(p, Beyond(n))'
    BY <1>8, <2>2, <2>3, CleanStays
  <2> QED  BY <2>4 DEF n
<1>17. Unanswered(h, p)'
  <2> SUFFICES ASSUME NEW w \in Switches, NEW a \in DOMAIN inLinks[w], inLinks[w][a] = h,
                      \/ pipe'[h] # << >>
                      \/ Held(w)' # << >>
                      \/ pc'[w] = "send" /\ outLink'[w] = a
               PROVE  p.payload \notin TagsIn(pipe'[outLinks[w][a]])
    BY DEF Unanswered, TagsIn, PayloadsIn, WordStarts
  <2>1. h # m
    BY <1>3, Ports DEF m
  <2>2. outLinks[w][a] # m
    <3>1. SUFFICES ASSUME outLinks[w][a] = m  PROVE FALSE
      OBVIOUS
    <3>2. w = v /\ a = i
      BY <1>3, <3>1, Ports DEF m
    <3>3. h \in Beyond(h)
      BY Ports, BeyondLink
    <3>4. i = r
      BY <1>11, <3>2, <3>3
    <3>5. pc'[v] = "store" /\ pipe'[h] = << >>
      BY <1>4, <1>5, <1>6, <1>12, <3>4
    <3> QED  BY <1>6, <3>2, <3>5
  <2>3. pipe'[outLinks[w][a]] = pipe[outLinks[w][a]] /\ pipe'[h] = pipe[h]
    BY <1>5, <2>1, <2>2, Ports
  <2>4. \/ pipe[h] # << >>
        \/ Held(w) # << >>
        \/ pc[w] = "send" /\ outLink[w] = a
    BY <1>3, <1>5, <1>6, <1>7, <2>3
  <2> QED  BY <1>2, <2>3, <2>4 DEF Unanswered
<1>18. ASSUME NEW w \in Switches, NEW a \in DOMAIN inLinks[w], inLinks[w][a] = m
       PROVE  p.src_addr # p.dest_addr /\ ~LookedUp(table[w], p.dest_addr, a)
  <2>1. i # r /\ a # -1
    BY <1>9, <1>18, Ports
  <2>2. \A k \in DOMAIN table[v] : table[v][k].linkOutNum # -1
    BY <1>1, Ports DEF Good
  <2>3. CASE outLink[v] = -1
    <3>1. p.dest_addr \notin KnownAddrs(table[v])
      BY <1>3, <2>2, <2>3 DEF LookedUp
    <3>2. p.src_addr \in KnownAddrs(table[v])
      BY <1>1, <1>3, <1>5 DEF Good
    <3>3. \A k \in DOMAIN table[w] : table[w][k].linkOutNum = a =>
            table[w][k].dest_addr \in KnownAddrs(table[v])
      BY <1>3, <1>18 DEF Heard, m
    <3> QED  BY <2>1, <3>1, <3>2, <3>3 DEF LookedUp
  <2>4. CASE outLink[v] = i
    <3>1. PICK k \in DOMAIN table[v] :
            table[v][k].dest_addr = p.dest_addr /\ table[v][k].linkOutNum = i
      BY <1>3, <1>6, <2>4 DEF LookedUp
    <3>2. PICK g \in HostOut : p.dest_addr \in SrcAddrs[g] /\ inLinks[v][i] \in Beyond(g)
      BY <3>1 DEF Tables
    <3>3. g # h
      BY <1>3, <1>11, <2>1, <3>2
    <3>4. p.src_addr # p.dest_addr
      BY <1>1, <3>2, <3>3 DEF CalmTree, OwnAddrs
    <3>5. ASSUME LookedUp(table[w], p.dest_addr, a)  PROVE FALSE
      <4>1. PICK n \in DOMAIN table[w] :
              table[w][n].dest_addr = p.dest_addr /\ table[w][n].linkOutNum = a
        BY <2>1, <3>5 DEF LookedUp
      <4>2. PICK f \in HostOut : p.dest_addr \in SrcAddrs[f] /\ inLinks[w][a] \in Beyond(f)
        BY <4>1 DEF Tables
      <4>3. f = g
        BY <3>2, <4>2 DEF CalmTree, OwnAddrs
      <4>4. g \in Behind[inLinks[v][i]] /\ g \in Behind[m]
        BY <1>18, <3>2, <4>2, <4>3, OneWay
      <4> QED  BY <1>3, <4>4, ApartBehind DEF m
    <3> QED  BY <3>4, <3>5
  <2> QED  BY <1>5, <2>3, <2>4
<1>19. Headed(h, p)'
  <2> SUFFICES ASSUME NEW w \in Switches, NEW a \in DOMAIN inLinks[w],
                      inLinks[w][a] \in Beyond(h) \ {h},
                      pipe'[inLinks[w][a]] # << >> \/ Busy(w)'
               PROVE  p.src_addr # p.dest_addr /\ ~LookedUp(table'[w], p.dest_addr, a)
    BY DEF Headed
  <2>1. CASE inLinks[w][a] = m
    BY <1>8, <1>18, <2>1
  <2>2. CASE inLinks[w][a] # m
    BY <1>2, <1>8, <1>10, <2>2 DEF Headed
  <2> QED  BY <2>1, <2>2
<1>20. Learned(h, p)'
  <2> SUFFICES ASSUME NEW u \in Switches, NEW w \in Switches, NEW j \in DOMAIN inLinks[u],
                      NEW a \in DOMAIN inLinks[w], outLinks[u][j] = inLinks[w][a],
                      pipe'[inLinks[w][a]] # << >>
               PROVE  p.src_addr \in KnownAddrs(table'[u])
    BY DEF Learned, KnownAddrs
  <2>1. CASE inLinks[w][a] = m
    <3>1. u = v
      BY <1>3, <2>1, Ports DEF m
    <3>2. p.src_addr \in KnownAddrs(table[v])
      BY <1>1, <1>3, <1>5 DEF Good
    <3> QED  BY <1>8, <3>1, <3>2
  <2>2. CASE inLinks[w][a] # m
    BY <1>2, <1>8, <1>10, <2>2 DEF Learned
  <2> QED  BY <2>1, <2>2
<1>21. Intact' => Intact
  BY <1>5, <1>7 DEF Intact
<1>22. /\ \A g \in HostOut : Got(p, g) => Got(p, g)'
       /\ Settled(Sent \ {p}) => Settled(Sent \ {p})'
  <2>1. HostIn \subseteq Links
    BY Ports
  <2>2. \A k \in HostIn : TagsIn(pipe[k]) \subseteq TagsIn(pipe'[k])
    BY <1>3, <1>5, <2>1
  <2>3. Sent' = Sent
    BY SentStays
  <2>4. \A S : Settled(S) => Settled(S)'
    BY <1>21, <2>2, GotStays
  <2> QED  BY <2>2, <2>3, <2>4, GotStays DEF Settled
<1>23. Comes(h, p)'
  <2>1. ASSUME NEW g \in HostOut, NEW w \in Switches,
               NEW a \in DOMAIN inLinks[w], NEW b \in DOMAIN inLinks[w], IsFor(p, g), Intact',
               inLinks[w][a] \in Beyond(h), Due(w, a, b), Back(g) \in Beyond(outLinks[w][b])
        PROVE  Got(p, g)' \/ Coming(h, g)'
    <3>1. SUFFICES ASSUME ~Due(w, a, b)'  PROVE Got(p, g)' \/ Coming(h, g)'
      BY <2>1 DEF Coming
    <3>2. w = v
      <4>1. SUFFICES ASSUME w # v  PROVE Due(w, a, b)'
        BY <3>1
      <4>2. pipe[inLinks[w][a]] # << >> => pipe'[inLinks[w][a]] # << >>
        BY <1>1, <1>9, <1>10
      <4> QED  BY <1>7, <2>1, <4>1, <4>2 DEF Due
    <3>3. a = r /\ b # r
      BY <1>11, <2>1, <3>2 DEF Due
    <3>4. b = i
      <4>1. outLink[v] = b \/ (outLink[v] = -1 /\ idx[v] <= b)
        BY <1>3, <1>4, <2>1, <3>2, <3>3 DEF Due
      <4>2. b \in Int /\ b # -1
        BY <3>2, Ports
      <4>3. CASE outLink[v] = i
        BY <1>6, <4>1, <4>3
      <4>4. CASE outLink[v] = -1 /\ idx[v] = i /\ pc'[v] = "send" /\ idx'[v] = i + 1
        <5>1. i <= b
          BY <4>1, <4>2, <4>4
        <5>2. ~(i + 1 <= b)
          BY <1>5, <3>1, <3>2, <3>3, <4>4 DEF Due
        <5> QED  BY <1>6, <4>2, <5>1, <5>2
      <4> QED  BY <1>5, <4>3, <4>4
    <3>5. Back(g) \in Beyond(m) /\ m \in Beyond(h)
      BY <1>4, <2>1, <3>2, <3>3, <3>4 DEF m
    <3>6. CASE Back(g) = m
      <4>1. p.payload \in TagsIn(pipe'[m])
        BY <1>3
      <4> QED  BY <3>6, <4>1 DEF Got, TagsIn, PayloadsIn, WordStarts
    <3>7. CASE Back(g) # m
      <4>1. PICK u \in Switches : \E c, d \in DOMAIN inLinks[u] :
              c # d /\ inLinks[u][c] = m /\ Back(g) \in Beyond(outLinks[u][d])
        BY <1>3, <3>5, <3>7, FirstStep
      <4>2. PICK c \in DOMAIN inLinks[u] : \E d \in DOMAIN inLinks[u] :
              c # d /\ inLinks[u][c] = m /\ Back(g) \in Beyond(outLinks[u][d])
        BY <4>1
      <4>3. PICK d \in DOMAIN inLinks[u] :
              c # d /\ inLinks[u][c] = m /\ Back(g) \in Beyond(outLinks[u][d])
        BY <4>2
      <4>4. pipe'[inLinks[u][c]] # << >>
        BY <1>1, <1>9, <4>3
      <4>5. Due(u, c, d)'
        BY <4>3, <4>4 DEF Due
      <4> QED  BY <3>5, <4>3, <4>5 DEF Coming
    <3> QED  BY <3>6, <3>7
  <2> QED  BY <1>2, <1>21, <1>22, <2>1, ComesStays
<1>24. Newest(h, p)'
  BY <1>2, SentStays
<1> QED  BY <1>2, <1>5, <1>13, <1>14, <1>16, <1>17, <1>19, <1>20, <1>22, <1>23, <1>24 DEF OnWay

-----------------------------------------------------------------------------
\* What has come to hosts stays as it is if nothing comes.
LEMMA EndsStay ==
  ASSUME Ends, sent' = sent, \A l \in HostIn : pipe'[l] = pipe[l]
  PROVE  Ends'
<1>1. SentTags' = SentTags /\ \A g, t : Has(g, t)' <=> Has(g, t)
  BY SentStays
<1>2. \A g \in HostOut : Back(g) \in HostIn
  BY Ports
<1>3. \A l \in HostIn : /\ Ordered(pipe[l]) /\ TagsIn(pipe[l]) \subseteq SentTags
                        /\ Len(pipe[l]) <= (3 + PAYLOAD_LENGTH) * Cardinality(TagsIn(pipe[l]))
  BY DEF Ends
<1>4. \A l \in HostIn : /\ Ordered(pipe'[l]) /\ TagsIn(pipe'[l]) \subseteq SentTags'
                        /\ Len(pipe'[l]) <= (3 + PAYLOAD_LENGTH) * Cardinality(TagsIn(pipe'[l]))
  BY <1>1, <1>3
<1>5. \A g \in HostOut : \A t \in TagsIn(pipe'[Back(g)]) : t.from = g => Has(g, t)'
  BY <1>1, <1>2 DEF Ends
<1> QED  BY <1>4, <1>5 DEF Ends, Ordered, TagsIn, PayloadsIn, WordStarts

\* A packet comes to a host after those its sender has sent before, and to its
\* sender only if it is for that address.
LEMMA EndsWrites ==
  ASSUME Inv, History, CalmTree, Tables, Ends,
         NEW h \in HostOut, NEW p, OnWay(h, p),
         NEW v \in Switches, sent' = sent, NEW i \in DOMAIN outLinks[v], Writes(v, i)
  PROVE  Ends'
<1> DEFINE m == outLinks[v][i]
<1>1. /\ p \in WholePacket /\ p \in Sent /\ p.payload.from = h /\ p.payload \in Tag
      /\ p = TheSent(p.payload) /\ pipe \in [Links -> Seq(Cell)] /\ h \in Beyond(h)
  BY CalmFacts
<1>2. /\ outPacket[v] = p /\ i \in DOMAIN inLinks[v] /\ m \in Links
      /\ LookedUp(table[v], p.dest_addr, outLink[v])
      /\ p.payload \notin TagsIn(pipe[m])
      /\ TagsIn(pipe'[m]) = TagsIn(pipe[m]) \cup {p.payload}
      /\ m \in HostIn =>
           Len(pipe'[m]) <= (3 + PAYLOAD_LENGTH) * Cardinality(TagsIn(pipe'[m]))
      /\ \E r \in DOMAIN inLinks[v] :
           /\ inLinks[v][r] \in Beyond(h)
           /\ i = r => inLinks[v][r] = h /\ outLink[v] = i
  BY WritesCalm
<1>3. \A k \in Links : pipe'[k] = IF k = m THEN linkSend(pipe[k], p) ELSE pipe[k]
  BY <1>2 DEF Writes
<1>4. SentTags' = SentTags /\ \A g, t : Has(g, t)' <=> Has(g, t)
  BY SentStays
<1>5. p.payload \in SentTags /\ p.payload = [from |-> h, seq |-> Len(sent[h])]
  BY <1>1 DEF Sent, SentTags, OnWay, Newest
<1> HIDE DEF m
<1>6. ASSUME NEW l \in HostIn
      PROVE  /\ Ordered(pipe'[l]) /\ TagsIn(pipe'[l]) \subseteq SentTags'
             /\ Len(pipe'[l]) <= (3 + PAYLOAD_LENGTH) * Cardinality(TagsIn(pipe'[l]))
  <2>1. /\ Ordered(pipe[l]) /\ TagsIn(pipe[l]) \subseteq SentTags
        /\ Len(pipe[l]) <= (3 + PAYLOAD_LENGTH) * Cardinality(TagsIn(pipe[l]))
    BY DEF Ends
  <2>2. l \in Links
    BY Ports
  <2>3. CASE l # m
    BY <1>3, <1>4, <2>1, <2>2, <2>3
  <2>4. CASE l = m
    <3>1. Before(TagsIn(pipe[m]), {p.payload})
      <4> SUFFICES ASSUME NEW t \in TagsIn(pipe[m]), t.from = p.payload.from
                   PROVE  t.seq < p.payload.seq
        BY DEF Before
      <4>1. t \in Tag /\ IsSent(t) /\ t # p.payload
        BY <1>2, <2>1, <2>4 DEF SentTags
      <4>2. TheSent(t) \in Sent /\ TheSent(t).payload = t
        BY <4>1, SentPackets
      <4>3. t.seq \in 1 .. Len(sent[h])
        BY <1>1, <4>2, SentPackets
      <4>4. t = [from |-> t.from, seq |-> t.seq]
        BY <4>1 DEF Tag
      <4>5. t.seq # Len(sent[h]) /\ Len(sent[h]) \in Nat
        BY <1>1, <1>5, <4>1, <4>4, LenProperties DEF Inv
      <4> QED  BY <1>5, <4>3, <4>5
    <3>2. Ordered(linkSend(pipe[m], p))
      BY <1>1, <1>2, <2>1, <2>4, <3>1, SendOrdered
    <3> QED  BY <1>2, <1>3, <1>4, <1>5, <2>1, <2>4, <3>2
  <2> QED  BY <2>3, <2>4
<1>7. ASSUME NEW g \in HostOut, NEW t \in TagsIn(pipe'[Back(g)]), t.from = g
      PROVE  Has(g, t)'
  <2>1. Back(g) \in HostIn /\ Back(g) \in Links
    BY Ports
  <2>2. CASE t \in TagsIn(pipe[Back(g)])
    BY <1>4, <1>7, <2>2 DEF Ends
  <2>3. CASE t \notin TagsIn(pipe[Back(g)])
    <3>1. Back(g) = m /\ t = p.payload
      BY <1>2, <1>3, <2>1, <2>3
    <3>2. g = h /\ inLinks[v][i] = h
      <4>1. g = h
        BY <1>1, <1>7, <3>1
      <4>2. PICK w \in Switches : \E a \in DOMAIN inLinks[w] : inLinks[w][a] = h
        BY Ports
      <4>3. PICK a \in DOMAIN inLinks[w] : inLinks[w][a] = h
        BY <4>2
      <4>4. outLinks[w][a] = outLinks[v][i]
        BY <3>1, <4>1, <4>3, Ports DEF m
      <4>5. w = v /\ a = i
        BY <1>2, <4>4, Ports
      <4> QED  BY <4>1, <4>3, <4>5
    <3>3. PICK r \in DOMAIN inLinks[v] :
            /\ inLinks[v][r] \in Beyond(h)
            /\ i = r => inLinks[v][r] = h /\ outLink[v] = i
      BY <1>2
    <3>4. i = r
      BY <1>1, <1>2, <3>2, <3>3, OneWay
    <3>5. PICK k \in DOMAIN table[v] :
            table[v][k].dest_addr = p.dest_addr /\ table[v][k].linkOutNum = i
      <4>1. outLink[v] = i /\ i # -1
        BY <1>2, <3>3, <3>4, Ports
      <4> QED  BY <1>2, <4>1 DEF LookedUp
    <3>6. PICK f \in HostOut : p.dest_addr \in SrcAddrs[f] /\ inLinks[v][i] \in Beyond(f)
      BY <3>5 DEF Tables
    <3>7. f = h
      BY <3>2, <3>6, OneWay
    <3>8. Has(g, t)
      BY <1>1, <3>1, <3>2, <3>6, <3>7 DEF Has
    <3> QED  BY <1>4, <3>8
  <2> QED  BY <2>2, <2>3
<1> QED  BY <1>6, <1>7 DEF Ends, Ordered, TagsIn, PayloadsIn, WordStarts

-----------------------------------------------------------------------------
\* When nothing is on its way everything has come.
LEMMA QuietSettled ==
  ASSUME Inv, Calm, Quiet
  PROVE  /\ \A w \in Switches : Held(w) = << >> /\ pc[w] = "store" /\ ~Busy(w)
         /\ \A w \in Switches : \A i \in DOMAIN inLinks[w] : pipe[inLinks[w][i]] = << >>
         /\ Intact /\ Settled(Sent)
<1>1. ASSUME NEW w \in Switches
      PROVE  Held(w) = << >> /\ pc[w] = "store" /\ ~Busy(w)
  <2>1. pc[w] = "store" /\ queue[w].size = 0 /\ IsRing(queue[w], packetBuffer)
    BY DEF Quiet, queueIsEmpty, Inv, SwitchInv, Good
  <2>2. Contents(queue[w]) \in Seq(packetBuffer) /\ Len(Contents(queue[w])) = 0
    BY <2>1, ContentsSeq
  <2>3. Held(w) = << >>
    BY <2>2, EmptySeq DEF Held
  <2> QED  BY <2>1, <2>3 DEF Busy
<1>2. \A w \in Switches : \A i \in DOMAIN inLinks[w] : pipe[inLinks[w][i]] = << >>
  BY Ports DEF Quiet
<1>3. Intact
  BY <1>1 DEF Intact
<1>4. Settled(Sent)
  <2>1. SUFFICES ASSUME NEW h \in HostOut, NEW p, OnWay(h, p)  PROVE Settled(Sent)
    BY DEF Calm
  <2>2. \A g : ~Coming(h, g)
    BY <1>1, <1>2 DEF Coming, Due
  <2>3. \A g \in HostOut : IsFor(p, g) => Got(p, g)
    BY <1>3, <2>1, <2>2 DEF OnWay, Comes
  <2> QED  BY <2>1, <2>3 DEF OnWay, Settled
<1> QED  BY <1>1, <1>2, <1>3, <1>4

\* A host sends only when nothing is on its way, and then that packet alone is.
LEMMA CalmTransmit ==
  ASSUME Inv, History, CalmTree, Calm, NEW h \in HostOut, hostTransmitPacket(h)
  PROVE  Calm'
<1>1. PICK p \in Of(h) :
        /\ p.payload = [from |-> h, seq |-> Len(sent[h]) + 1]
        /\ sent' = [sent EXCEPT ![h] = Append(@, p)]
        /\ \A k \in Links : pipe'[k] = IF k = h THEN linkSend(pipe[k], p) ELSE pipe[k]
        /\ UNCHANGED switchVars
        /\ History'
        /\ Sent' = Sent \cup {p}
  BY TransmitSent
<1>2. Tables /\ Heard /\ Ends
  BY DEF Calm
<1>3. Quiet
  BY DEF hostTransmitPacket, MaySend, CalmTree
<1>4. /\ \A w \in Switches : Held(w) = << >> /\ pc[w] = "store" /\ ~Busy(w)
      /\ \A w \in Switches : \A i \in DOMAIN inLinks[w] : pipe[inLinks[w][i]] = << >>
      /\ Intact /\ Settled(Sent)
  BY <1>3, QuietSettled
<1>5. /\ queue' = queue /\ table' = table /\ pc' = pc /\ idx' = idx
      /\ outPacket' = outPacket /\ outLink' = outLink
  BY <1>1 DEF switchVars
<1>6. \A w \in Switches : Held(w)' = << >> /\ pc'[w] = "store" /\ ~Busy(w)'
  <2>1. \A w \in Switches : Held(w)' = << >>
    BY <1>4, <1>5 DEF Held, Contents, SlotOf
  <2> QED  BY <1>4, <1>5, <2>1 DEF Busy
<1>7. /\ p \in WholePacket /\ h \in Links /\ h \in Beyond(h) /\ h \notin HostIn
      /\ pipe \in [Links -> Seq(Cell)] /\ Len(sent[h]) \in Nat /\ sent[h] \in Seq(packetBuffer)
      /\ sent \in [HostOut -> Seq(packetBuffer)]
  <2>1. p \in WholePacket /\ sent[h] \in Seq(packetBuffer)
    BY DEF Of, Inv
  <2>2. h \notin HostIn
    <3>1. PICK w \in Switches : \E i \in DOMAIN inLinks[w] : inLinks[w][i] = h
      BY Ports
    <3> QED  BY <3>1, Ports
  <2> QED  BY <2>1, <2>2, Ports, BeyondLink, LenProperties DEF Inv, SwitchInv
<1>8. Encode(p) # << >> /\ TagsIn(<< >>) = {}
  BY <1>7, AloneInPipe DEF CalmTree
<1>9. pipe'[h] = Encode(p)
  <2>1. pipe[h] = << >>
    BY <1>3, <1>7 DEF Quiet
  <2>2. Len(<< >>) = 0 /\ << >> \in Seq(Cell)
    BY EmptySeq
  <2>3. ~(Len(<< >>) + 3 + p.length > PipeMax)
    <3>1. 3 + PAYLOAD_LENGTH <= PipeMax /\ PAYLOAD_LENGTH \in Nat /\ PipeMax \in Nat
      BY LinkAssumption DEF CalmTree
    <3>2. p.length \in Nat /\ p.length <= PAYLOAD_LENGTH
      BY <1>7, EncodeCells DEF WholePacket, Sendable
    <3> QED  BY <2>2, <3>1, <3>2
  <2>4. linkSend(<< >>, p) = << >> \o Encode(p)
    BY <1>7, <2>2, <2>3, SendTags
  <2>5. << >> \o Encode(p) = Encode(p)
    BY <1>7, EncodeCells, ConcatEmptySeq
  <2> QED  BY <1>1, <1>7, <2>1, <2>4, <2>5
<1>10. \A k \in Links : k # h => pipe'[k] = pipe[k]
  BY <1>1
<1>11. \A k \in Links \ HostIn : k # h => pipe'[k] = << >>
  BY <1>3, <1>10 DEF Quiet
<1>12. \A t \in SentTags : /\ t # p.payload /\ t \in SentTags'
                           /\ \A g : Has(g, t)' <=> Has(g, t)
  <2> SUFFICES ASSUME NEW t \in SentTags
               PROVE  /\ t # p.payload /\ t \in SentTags'
                      /\ \A g : Has(g, t)' <=> Has(g, t)
    OBVIOUS
  <2>1. t \in Tag /\ IsSent(t)
    BY DEF SentTags
  <2>2. TheSent(t) \in Sent /\ TheSent(t).payload = t
    BY <2>1, SentPackets
  <2>3. t.from \in HostOut /\ t.seq \in 1 .. Len(sent[t.from])
    BY <2>2, SentPackets
  <2>4. t # p.payload
    <3>1. SUFFICES ASSUME t.from = h  PROVE t.seq # Len(sent[h]) + 1
      BY <1>1
    <3> QED  BY <1>7, <2>3, <3>1
  <2>5. t.seq \in DOMAIN sent'[t.from] /\ sent'[t.from][t.seq] = sent[t.from][t.seq]
    <3>1. CASE t.from = h
      <4>1. sent'[h] = Append(sent[h], p) /\ p \in packetBuffer
        BY <1>1, <1>7 DEF WholePacket
      <4>2. /\ Append(sent[h], p) \in Seq(packetBuffer)
            /\ Len(Append(sent[h], p)) = Len(sent[h]) + 1
            /\ \A k \in 1 .. Len(sent[h]) : Append(sent[h], p)[k] = sent[h][k]
        BY <1>7, <4>1, AppendProperties
      <4>3. DOMAIN Append(sent[h], p) = 1 .. Len(sent[h]) + 1
        BY <4>2, LenProperties
      <4> QED  BY <1>7, <2>3, <3>1, <4>1, <4>2, <4>3
    <3>2. CASE t.from # h
      <4>1. sent'[t.from] = sent[t.from]
        BY <1>1, <1>7, <2>3, <3>2
      <4> QED  BY <2>1, <4>1 DEF IsSent
    <3> QED  BY <3>1, <3>2
  <2> QED  BY <2>1, <2>4, <2>5 DEF SentTags, IsSent, Has, TheSent
<1>13. p \notin Sent /\ p \in Sent' /\ Sent' \ {p} = Sent
  <2>1. p \notin Sent
    <3>1. SUFFICES ASSUME p \in Sent  PROVE FALSE
      OBVIOUS
    <3>2. p.payload \in SentTags
      BY <3>1 DEF Sent, SentTags
    <3> QED  BY <1>12, <3>2
  <2> QED  BY <1>1, <2>1
<1>14. \A l \in Links : l # h => p.payload \notin TagsIn(pipe'[l])
  <2> SUFFICES ASSUME NEW l \in Links, l # h  PROVE p.payload \notin TagsIn(pipe'[l])
    OBVIOUS
  <2>1. CASE l \in HostIn
    BY <1>2, <1>10, <1>12, <2>1 DEF Ends
  <2>2. CASE l \notin HostIn
    BY <1>8, <1>11, <2>2
  <2> QED  BY <2>1, <2>2
<1>15. Newest(h, p)'
  <2>1. Len(sent'[h]) = Len(sent[h]) + 1
    BY <1>1, <1>7, AppendProperties DEF WholePacket
  <2> QED  BY <1>1, <1>13, <2>1 DEF Newest
<1>16. Alone(h, p)'
  BY <1>7, <1>9, <1>11 DEF Alone
<1>17. InPlace(h, p)'
  BY <1>6 DEF InPlace
<1>18. ASSUME NEW w \in Switches, NEW a \in DOMAIN inLinks[w], pipe'[inLinks[w][a]] # << >>
       PROVE  inLinks[w][a] = h
  BY <1>11, <1>18, Ports
<1>19. Ahead(h, p)'
  <2> SUFFICES ASSUME NEW w \in Switches, NEW a \in DOMAIN inLinks[w], NEW b \in DOMAIN inLinks[w],
                      inLinks[w][a] \in Beyond(h), Due(w, a, b)'
               PROVE  Clean(p, Beyond(outLinks[w][b]))'
    BY DEF Ahead
  <2>1. inLinks[w][a] = h /\ a # b
    <3>1. pipe'[inLinks[w][a]] # << >> /\ a # b
      BY <1>6 DEF Due
    <3> QED  BY <1>18, <3>1
  <2>2. h \notin Beyond(outLinks[w][b]) /\ Beyond(outLinks[w][b]) \subseteq Links
    BY <2>1, NoReturn, BeyondLink, Ports
  <2>3. \A l \in Beyond(outLinks[w][b]) : p.payload \notin TagsIn(pipe'[l])
    BY <1>14, <2>2
  <2> QED  BY <1>6, <2>3 DEF Clean, TagsIn, PayloadsIn, WordStarts
<1>20. Unanswered(h, p)'
  <2>1. \A w \in Switches : \A a \in DOMAIN inLinks[w] :
          p.payload \notin TagsIn(pipe'[outLinks[w][a]])
    BY <1>14, Ports
  <2> QED  BY <2>1 DEF Unanswered, TagsIn, PayloadsIn, WordStarts
<1>21. Headed(h, p)'
  BY <1>6, <1>18 DEF Headed
<1>22. Learned(h, p)'
  <2>1. \A u, w \in Switches : \A j \in DOMAIN inLinks[u], a \in DOMAIN inLinks[w] :
          outLinks[u][j] = inLinks[w][a] => pipe'[inLinks[w][a]] = << >>
    BY <1>18, Ports
  <2> QED  BY <2>1 DEF Learned
<1>23. Comes(h, p)'
  <2> SUFFICES ASSUME NEW g \in HostOut, IsFor(p, g)  PROVE Coming(h, g)'
    BY DEF Comes
  <2>1. g # h
    BY <1>1 DEF IsFor
  <2>2. Back(g) \in Beyond(h) /\ Back(g) # h
    <3>1. Back(g) \in HostIn
      BY Ports
    <3> QED  BY <1>7, <2>1, <3>1 DEF CalmTree
  <2>3. PICK u \in Switches : \E c, d \in DOMAIN inLinks[u] :
          c # d /\ inLinks[u][c] = h /\ Back(g) \in Beyond(outLinks[u][d])
    BY <1>7, <2>2, FirstStep
  <2>4. PICK c \in DOMAIN inLinks[u] : \E d \in DOMAIN inLinks[u] :
          c # d /\ inLinks[u][c] = h /\ Back(g) \in Beyond(outLinks[u][d])
    BY <2>3
  <2>5. PICK d \in DOMAIN inLinks[u] :
          c # d /\ inLinks[u][c] = h /\ Back(g) \in Beyond(outLinks[u][d])
    BY <2>4
  <2>6. Due(u, c, d)'
    BY <1>8, <1>9, <2>5 DEF Due
  <2> QED  BY <1>7, <2>5, <2>6 DEF Coming
<1>24. Settled(Sent \ {p})'
  <2>1. Settled(Sent)
    BY <1>4
  <2>2. \A l \in HostIn : pipe'[l] = pipe[l]
    BY <1>7, <1>10, Ports
  <2>3. \A l \in HostIn : TagsIn(pipe[l]) \subseteq TagsIn(pipe'[l])
    BY <2>2
  <2>4. \A S : Settled(S) => Settled(S)'
    BY <1>4, <2>3, GotStays
  <2> QED  BY <1>13, <2>1, <2>4 DEF Settled
<1>25. OnWay(h, p)'
  BY <1>15, <1>16, <1>17, <1>19, <1>20, <1>21, <1>22, <1>23, <1>24 DEF OnWay
<1>26. Tables' /\ Heard'
  BY <1>2, <1>5 DEF Tables, Heard, KnownAddrs
<1>27. Ends'
  <2>1. \A l \in HostIn : pipe'[l] = pipe[l]
    BY <1>7, <1>10, Ports
  <2>2. \A g \in HostOut : Back(g) \in HostIn
    BY Ports
  <2>3. \A l \in HostIn : /\ Ordered(pipe'[l]) /\ TagsIn(pipe'[l]) \subseteq SentTags'
                          /\ Len(pipe'[l]) <= (3 + PAYLOAD_LENGTH) * Cardinality(TagsIn(pipe'[l]))
    BY <1>2, <1>12, <2>1 DEF Ends
  <2>4. \A g \in HostOut : \A t \in TagsIn(pipe'[Back(g)]) : t.from = g => Has(g, t)'
    BY <1>2, <1>12, <2>1, <2>2 DEF Ends
  <2> QED  BY <2>3, <2>4 DEF Ends, Ordered, TagsIn, PayloadsIn, WordStarts
<1> QED  BY <1>13, <1>25, <1>26, <1>27 DEF Calm

\* A switch passes the packet on, or has nothing to do.
LEMMA CalmSwitch ==
  ASSUME Inv, History, CalmTree, Calm, NEW v \in Switches, SwitchStep(v), sent' = sent
  PROVE  Calm'
<1>1. Tables /\ Heard /\ Ends /\ Sent' = Sent
  BY SentStays DEF Calm
<1>2. ASSUME table'[v] = table[v]  PROVE Tables' /\ Heard'
  <2>1. \A w \in Switches : table'[w] = table[w]
    BY <1>2, OthersKeep
  <2> QED  BY <1>1, <2>1 DEF Tables, Heard, KnownAddrs
<1>3. ASSUME NEW h \in HostOut, NEW p \in Sent, OnWay(h, p)  PROVE Calm'
  <2>1. ASSUME NEW q, Arrives(v, q)  PROVE OnWay(h, p)' /\ Tables' /\ Heard' /\ Ends'
    <3>1. OnWay(h, p)' /\ Tables' /\ Heard' /\ \A l \in HostIn : pipe'[l] = pipe[l]
      BY <1>1, <1>3, <2>1, CalmArrives
    <3> QED  BY <1>1, <3>1, EndsStay
  <2>2. CASE Takes(v)
    <3>1. OnWay(h, p)' /\ pipe' = pipe /\ table'[v] = table[v]
      BY <1>1, <1>3, <2>2, CalmTakes
    <3> QED  BY <1>1, <1>2, <1>3, <3>1, EndsStay DEF Calm
  <2>3. ASSUME NEW i \in DOMAIN outLinks[v], Writes(v, i)
        PROVE  OnWay(h, p)' /\ Tables' /\ Heard' /\ Ends'
    <3>1. OnWay(h, p)' /\ table'[v] = table[v]
      BY <1>1, <1>3, <2>3, CalmWrites
    <3>2. Ends'
      BY <1>1, <1>3, <2>3, EndsWrites
    <3> QED  BY <1>2, <3>1, <3>2
  <2>4. CASE Rests(v)
    <3>1. OnWay(h, p)' /\ pipe' = pipe /\ table'[v] = table[v]
      BY <1>3, <2>4, CalmRests
    <3> QED  BY <1>1, <1>2, <1>3, <3>1, EndsStay DEF Calm
  <2> QED  BY <1>1, <1>3, <2>1, <2>2, <2>3, <2>4, StepCases DEF Calm
<1>4. CASE Quiet /\ Settled(Sent)
  <2>1. /\ \A w \in Switches : Held(w) = << >> /\ pc[w] = "store" /\ ~Busy(w)
        /\ \A w \in Switches : \A i \in DOMAIN inLinks[w] : pipe[inLinks[w][i]] = << >>
        /\ Intact
    BY <1>4, QuietSettled
  <2>2. Rests(v)
    BY <2>1, StepCases DEF Arrives, Takes, Writes, Held
  <2>3. /\ pipe' = pipe /\ queue'[v] = queue[v] /\ table'[v] = table[v] /\ pc'[v] = "store"
    BY <2>1, <2>2 DEF Rests
  <2>4. \A w \in Switches : pc'[w] = "store" /\ queue'[w] = queue[w]
    BY <2>1, <2>3, OthersKeep
  <2>5. Quiet'
    BY <1>4, <2>3, <2>4 DEF Quiet, queueIsEmpty
  <2>6. Settled(Sent)'
    <3>1. \A l \in HostIn : TagsIn(pipe[l]) \subseteq TagsIn(pipe'[l])
      BY <2>3
    <3>2. \A S : Settled(S) => Settled(S)'
      BY <2>1, <3>1, GotStays
    <3> QED  BY <1>1, <1>4, <3>2 DEF Settled
  <2>7. Ends'
    BY <1>1, <2>3, EndsStay
  <2> QED  BY <1>2, <2>3, <2>5, <2>6, <2>7 DEF Calm
<1> QED  BY <1>3, <1>4 DEF Calm

\* Nothing has been sent, so nothing is on its way.
LEMMA InitCalm == Init => Calm
<1> SUFFICES ASSUME Init  PROVE Calm
  OBVIOUS
<1>1. /\ \A l \in Links : pipe[l] = << >>
      /\ \A w \in Switches : /\ queue[w] = queueInit(Uninitialised) /\ table[w] = << >>
                             /\ pc[w] = "store"
      /\ \A h \in HostOut : sent[h] = << >>
  BY DEF Init, SwitchInit, tableInit
<1>2. PayloadsIn(<< >>) = {} /\ TagsIn(<< >>) = {} /\ Len(<< >>) = 0 /\ DOMAIN << >> = {}
  BY DEF PayloadsIn, WordStarts, TagsIn
<1>3. SentTags = {} /\ Sent = {}
  <2>1. \A t \in Tag : t.from \in HostOut
    BY DEF Tag
  <2>2. \A t \in Tag : ~IsSent(t)
    BY <1>1, <1>2, <2>1 DEF IsSent
  <2> QED  BY <2>2 DEF SentTags, Sent
<1>4. Tables /\ Heard
  BY <1>1, <1>2 DEF Tables, Heard
<1>5. Ends
  <2>1. HostIn \subseteq Links /\ \A g \in HostOut : Back(g) \in HostIn
    BY Ports
  <2>2. Ordered(<< >>)
    BY <1>2 DEF Ordered
  <2>3. Cardinality({}) = 0 /\ 0 <= (3 + PAYLOAD_LENGTH) * 0
    BY FS_EmptySet, LinkAssumption
  <2> QED  BY <1>1, <1>2, <2>1, <2>2, <2>3 DEF Ends
<1>6. Quiet
  BY <1>1 DEF Quiet, queueIsEmpty, queueInit
<1>7. Settled(Sent)
  BY <1>3 DEF Settled
<1> QED  BY <1>4, <1>5, <1>6, <1>7 DEF Calm

\* So it is always.
LEMMA CalmAlways == ASSUME CalmTree  PROVE Spec => []Calm
<1>1. ASSUME Inv, History, Calm, [Next]_vars  PROVE Calm'
  <2>1. CASE UNCHANGED vars
    <3>1. /\ pipe' = pipe /\ queue' = queue /\ table' = table /\ pc' = pc /\ idx' = idx
          /\ outPacket' = outPacket /\ outLink' = outLink /\ sent' = sent
      BY <2>1 DEF vars, switchVars
    <3>2. Tables' /\ Heard'
      BY <1>1, <3>1 DEF Calm, Tables, Heard, KnownAddrs
    <3>3. Ends'
      BY <1>1, <3>1, EndsStay DEF Calm
    <3>4. Sent' = Sent /\ \A h, p : Newest(h, p) => Newest(h, p)'
      BY <3>1, SentStays
    <3>5. Intact' = Intact /\ \A S : Settled(S) => Settled(S)'
      <4>1. Intact' = Intact
        BY <3>1 DEF Intact
      <4> QED  BY <3>1, <4>1, GotStays
    <3>6. Quiet /\ Settled(Sent) => (Quiet /\ Settled(Sent))'
      <4>1. Quiet => Quiet'
        BY <3>1 DEF Quiet, queueIsEmpty
      <4> QED  BY <3>4, <3>5, <4>1 DEF Settled
    <3>7. ASSUME NEW h \in HostOut, NEW p \in Sent, OnWay(h, p)  PROVE OnWay(h, p)'
      <4>1. \A w \in Switches : Held(w)' = Held(w) /\ Busy(w)' = Busy(w)
        BY <3>1 DEF Held, Busy, Contents, SlotOf
      <4>2. \A w, i, j : w \in Switches => (Due(w, i, j)' <=> Due(w, i, j))
        BY <3>1, <4>1 DEF Due
      <4>3. \A g : Got(p, g)' <=> Got(p, g)
        BY <3>1 DEF Got, TagsIn, PayloadsIn, WordStarts
      <4>4. \A S : Clean(p, S) => Clean(p, S)'
        BY <3>1, <4>1 DEF Clean, TagsIn, PayloadsIn, WordStarts
      <4>5. Alone(h, p)' /\ InPlace(h, p)' /\ Headed(h, p)' /\ Learned(h, p)'
        BY <3>1, <3>7, <4>1 DEF OnWay, Alone, InPlace, Headed, Learned, KnownAddrs
      <4>6. Ahead(h, p)'
        BY <3>7, <4>2, <4>4 DEF OnWay, Ahead
      <4>7. Unanswered(h, p)'
        BY <3>1, <3>7, <4>1 DEF OnWay, Unanswered, TagsIn, PayloadsIn, WordStarts
      <4>8. Comes(h, p)'
        BY <3>5, <3>7, <4>2, <4>3 DEF OnWay, Comes, Coming
      <4>9. Settled(Sent \ {p})'
        BY <3>4, <3>5, <3>7 DEF OnWay, Settled
      <4> QED  BY <3>4, <3>7, <4>5, <4>6, <4>7, <4>8, <4>9 DEF OnWay
    <3> QED  BY <1>1, <3>2, <3>3, <3>4, <3>6, <3>7 DEF Calm
  <2>2. CASE \E h \in HostOut : hostTransmitPacket(h)
    BY <1>1, <2>2, CalmTransmit
  <2>3. ASSUME NEW v \in Switches, SwitchStep(v), UNCHANGED sent  PROVE Calm'
    BY <1>1, <2>3, CalmSwitch
  <2> QED  BY <1>1, <2>1, <2>2, <2>3 DEF Next
<1> QED  BY <1>1, InitCalm, InvAlways, HistoryAlways, PTL DEF Spec

\* switch.c:122: in a calm tree, however many switches there are, a table sends a
\* packet for an address towards the host that has it, whatever has come in before.
THEOREM TreeTablesAreTrue == ASSUME CalmTree  PROVE Spec => []TableTruthful
<1>1. ASSUME Inv, Calm  PROVE TableTruthful
  <2> SUFFICES ASSUME NEW w \in Switches, NEW k \in DOMAIN table[w]
               PROVE  \E h \in Behind[inLinks[w][table[w][k].linkOutNum]] :
                        table[w][k].dest_addr \in SrcAddrs[h]
    BY DEF TableTruthful
  <2>1. PICK g \in HostOut : /\ table[w][k].dest_addr \in SrcAddrs[g]
                             /\ inLinks[w][table[w][k].linkOutNum] \in Beyond(g)
    BY <1>1 DEF Calm, Tables
  <2> QED  BY <2>1, OneWay
<1> QED  BY <1>1, CalmAlways, InvAlways, PTL

\* switch.c:160-196: in a calm tree every host gets the packets of another host in
\* the order in which they were sent, and none twice, on whatever way.
THEOREM TreeKeepsOrder == ASSUME CalmTree  PROVE Spec => []InOrder
<1>1. ASSUME Calm  PROVE InOrder
  <2>1. \A l \in HostIn : Ordered(pipe[l])
    BY <1>1 DEF Calm, Ends
  <2> QED  BY <2>1 DEF InOrder, Ordered, Payloads, PayloadsIn
<1> QED  BY <1>1, CalmAlways, PTL

\* switch.c:137: in a calm tree no switch sends a packet back towards its sender,
\* unless the sender has sent it to itself.
THEOREM TreeEchoesNothing == ASSUME CalmTree  PROVE Spec => []NoEcho
<1>1. ASSUME Calm  PROVE NoEcho
  <2> SUFFICES ASSUME NEW h \in HostOut, NEW i \in Payloads(Back(h)),
                      pipe[Back(h)][i].val.from = h
               PROVE  TheSent(pipe[Back(h)][i].val).dest_addr \in SrcAddrs[h]
    BY DEF NoEcho
  <2>1. pipe[Back(h)][i].val \in TagsIn(pipe[Back(h)])
    BY DEF Payloads, PayloadsIn, TagsIn
  <2> QED  BY <1>1, <2>1 DEF Calm, Ends, Has
<1> QED  BY <1>1, CalmAlways, PTL

\* switch.c:118, 160: in a calm tree nothing is lost: whenever nothing is on its
\* way, every packet ever sent has come to every host it is for.
THEOREM NothingIsLost == ASSUME CalmTree  PROVE Spec => []NoneLost
<1>1. ASSUME Inv, History, Calm  PROVE NoneLost
  <2> SUFFICES ASSUME Quiet, NEW t \in Tag, IsSent(t), NEW g \in Audience(t)
               PROVE  t \in Received(Back(g))
    BY DEF NoneLost, IsForwarded
  <2>1. Intact /\ Settled(Sent)
    BY <1>1, QuietSettled
  <2>2. TheSent(t) \in Sent /\ TheSent(t).payload = t
    BY <1>1, SentPackets
  <2>3. g \in HostOut /\ IsFor(TheSent(t), g)
    BY <2>2 DEF Audience, Has, IsFor
  <2>4. t \in TagsIn(pipe[Back(g)])
    BY <2>1, <2>2, <2>3 DEF Settled, Got
  <2> QED  BY <2>4 DEF Received, Payloads, TagsIn, PayloadsIn
<1> QED  BY <1>1, CalmAlways, InvAlways, HistoryAlways, PTL
=============================================================================
