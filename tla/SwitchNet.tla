------------------------------ MODULE SwitchNet ------------------------------
(***************************************************************************)
(* The switches in a tree of links whose ends are hosts.  Of a host, only  *)
(* hostTransmitPacket is here: it sends what it likes, at any time.  Hosts *)
(* do not read, so the pipe of a link to a host is the history of all that *)
(* was sent to it.                                                         *)
(***************************************************************************)
EXTENDS Switch

CONSTANTS
  HostOut,   \* the links hosts write (their link_out)
  SrcAddrs,  \* SrcAddrs[h]: the network addresses the host on link h uses
  DestAddrs, \* the addresses packets are sent to
  MaxSend,   \* MaxSend[h]: bound on the packets sent on link h
  Pace,      \* when a host may send, see MaySend
  Behind     \* Behind[l]: the host links whose packets can come in on link l

VARIABLE sent \* sent[h]: the packets the host on link h has sent, in order

vars == << pipe, switchVars, sent >>

\* A packet's payload says which packet it is.
Tag == UNION { [from : {h}, seq : 1 .. MaxSend[h]] : h \in HostOut }

\* What comes in on a link from a switch came into that switch on another port.
\* A link has one writer, and no switch reads the link to a host.
ASSUME NetAssumption ==
  /\ HostOut \subseteq Links
  /\ Tag \subseteq Payload
  /\ SrcAddrs \in [HostOut -> SUBSET Nat]
  /\ DestAddrs \subseteq Nat
  /\ MaxSend \in [HostOut -> Nat]
  /\ Pace \in {"any", "network"}
  /\ Behind \in [Links -> SUBSET HostOut]
  /\ \A h \in HostOut : Behind[h] = {h}
  /\ \A w \in Switches : \A i \in DOMAIN outLinks[w] :
       /\ outLinks[w][i] \notin HostOut
       /\ Behind[outLinks[w][i]] =
            UNION { Behind[inLinks[w][j]] : j \in DOMAIN inLinks[w] \ {i} }
  /\ \A v, w \in Switches : \A i \in DOMAIN outLinks[v], j \in DOMAIN outLinks[w] :
       /\ outLinks[v][i] = outLinks[w][j] => v = w /\ i = j
       /\ outLinks[v][i] = inLinks[w][j] => inLinks[v][i] \notin HostOut

\* A link has one reader, every host is next to a switch, two neighbours are joined
\* by a link each way, and the links are those of a tree: what hosts send comes in
\* on one port.
ASSUME TreeAssumption ==
  /\ IsFiniteSet(HostOut)
  /\ \A v, w \in Switches : \A i \in DOMAIN inLinks[v], j \in DOMAIN inLinks[w] :
       inLinks[v][i] = inLinks[w][j] => v = w /\ i = j
  /\ \A v, w \in Switches : \A i \in DOMAIN outLinks[v], j \in DOMAIN outLinks[w] :
       outLinks[v][i] = inLinks[w][j] => outLinks[w][j] = inLinks[v][i]
  /\ \A h \in HostOut : \E w \in Switches : \E i \in DOMAIN inLinks[w] : inLinks[w][i] = h
  /\ \A w \in Switches : \A i, j \in DOMAIN inLinks[w] :
       i # j => Behind[inLinks[w][i]] \cap Behind[inLinks[w][j]] = {}

\* The links to hosts, which nobody reads.
HostIn ==
  { l \in Links : \E w \in Switches :
      \E i \in DOMAIN outLinks[w] : outLinks[w][i] = l /\ inLinks[w][i] \in HostOut }

\* No packet is on its way to a switch or in one.
Quiet ==
  /\ \A w \in Switches : pc[w] = "store" /\ queueIsEmpty(queue[w])
  /\ \A l \in Links \ HostIn : pipe[l] = << >>

\* The user types commands and the nodes sleep 10 ms between passes: a host may
\* send at any time, but hardly does before its last packet has come to its end.
MaySend == Pace = "any" \/ Quiet

-----------------------------------------------------------------------------
Init ==
  /\ pipe = [l \in Links |-> << >>]
  /\ SwitchInit
  /\ sent = [h \in HostOut |-> << >>]

\* hostTransmitPacket, with a send buffer that holds an uploaded file.
hostTransmitPacket(h) ==
  /\ Len(sent[h]) < MaxSend[h]
  /\ MaySend
  /\ \E src \in SrcAddrs[h], dest \in DestAddrs, len \in 1 .. PAYLOAD_LENGTH :
       LET p == [src_addr |-> src, dest_addr |-> dest, length |-> len,
                 payload |-> [from |-> h, seq |-> Len(sent[h]) + 1],
                 is_valid |-> 1]
       IN  /\ sent' = [sent EXCEPT ![h] = Append(@, p)]
           /\ pipe' = [pipe EXCEPT ![h] = linkSend(@, p)]
  /\ UNCHANGED switchVars

Next ==
  \/ \E h \in HostOut : hostTransmitPacket(h)
  \/ \E w \in Switches : SwitchStep(w) /\ UNCHANGED sent

Spec == Init /\ [][Next]_vars

\* A switch never blocks: its reads are nonblocking and its sleep ends.
Fairness == \A w \in Switches : WF_vars(SwitchStep(w) /\ UNCHANGED sent)

FairSpec == Spec /\ Fairness

-----------------------------------------------------------------------------
(* Invariants *)

\* Every variable has its type; the ring indices stay within their arrays.
TypeOK ==
  /\ pipe \in [Links -> Seq(Cell)]
  /\ SwitchTypeOK
  /\ sent \in [HostOut -> Seq(packetBuffer)]

\* switch.c:97, 140: whatever arrives, cut or whole, a packet in the queue has
\* its source in the table, so that the loop over all links always leaves one
\* out.
SourceKnown ==
  \A w \in Switches :
    /\ \A k \in 1 .. Len(Contents(queue[w])) :
         Contents(queue[w])[k].src_addr \in KnownAddrs(table[w])
    /\ pc[w] = "send" => outPacket[w].src_addr \in KnownAddrs(table[w])

\* switch.c:226-247: no address has two entries, of which tableGetOutLink would
\* go on using the first while tableUpdate keeps the other up to date.
TableDistinct ==
  \A w \in Switches : \A i, j \in DOMAIN table[w] :
    table[w][i].dest_addr = table[w][j].dest_addr => i = j

\* switch.c:135, 148: a table entry, used as an index of outLinks, was an
\* index of inLinks, and a switch sends on a link that exists.
IndexInRange ==
  \A w \in Switches :
    /\ \A i \in DOMAIN table[w] : table[w][i].linkOutNum \in DOMAIN inLinks[w]
    /\ outLink[w] # -1 => outLink[w] \in DOMAIN outLinks[w]
    /\ idx[w] <= Len(inLinks[w]) + 1

\* The addresses packets were sent from so far.
SentAddrs == UNION { { sent[h][k].src_addr : k \in DOMAIN sent[h] } : h \in HostOut }

\* link.c:125, 149, switch.c:257: nothing keeps a switch from writing past the end
\* of an array, but it takes more than a few packets: as long as all that a host
\* has sent is less than a read takes, and no more addresses were used than a table
\* has slots, no switch next to hosts only does, however they interleave.
FewAreSafe ==
  /\ \A h \in HostOut : Len(sent[h]) * (3 + PAYLOAD_LENGTH) < ReadMax
  /\ Cardinality(SentAddrs) <= MAXTABLE
  => \A w \in Switches : pc[w] # "corrupt"

\* switch.c:122: the table sends a packet for an address towards a host that
\* uses this address.
TableTruthful ==
  \A w \in Switches : \A i \in DOMAIN table[w] :
    \E h \in Behind[inLinks[w][table[w][i].linkOutNum]] :
      table[w][i].dest_addr \in SrcAddrs[h]

\* The part of it that concerns the hosts next to a switch.
HostPortsTruthful ==
  \A w \in Switches : \A i \in DOMAIN table[w] :
    LET h == inLinks[w][table[w][i].linkOutNum]
    IN  h \in HostOut => table[w][i].dest_addr \in SrcAddrs[h]

\* The link to the host that writes link h.
Back(h) ==
  CHOOSE l \in Links : \E w \in Switches :
    \E i \in DOMAIN outLinks[w] : outLinks[w][i] = l /\ inLinks[w][i] = h

\* Where the payloads of the packets sent to a host begin.
Payloads(l) == { i \in WordStarts(pipe[l]) : pipe[l][i].kind = "byte" }

\* The packet with the tag t.
TheSent(t) == sent[t.from][t.seq]

\* link.c:38: what is decoded is what was encoded, so that all a host ever
\* gets are packets that hosts have sent, header and payload unchanged.
NoFabrication ==
  \A l \in HostIn : \A i \in Payloads(l) :
    LET t == pipe[l][i].val
    IN  /\ t \in Tag
        /\ t.seq \in DOMAIN sent[t.from]
        /\ SubSeq(pipe[l], i - 3, i + TheSent(t).length - 1) = Encode(TheSent(t))

\* switch.c:160-196: a host gets no packet twice, and those of one host in the
\* order in which they were sent.
InOrder ==
  \A l \in HostIn : \A i, j \in Payloads(l) :
    /\ i < j
    /\ pipe[l][i].val.from = pipe[l][j].val.from
    => pipe[l][i].val.seq < pipe[l][j].val.seq

\* switch.c:137: "send to all links except for the incoming link": a host gets
\* its own packet back only if it sent it to its own address.
NoEcho ==
  \A h \in HostOut : \A i \in Payloads(Back(h)) :
    LET t == pipe[Back(h)][i].val
    IN  t.from = h => TheSent(t).dest_addr \in SrcAddrs[h]

\* The tags of the packets in a queue, and of those sent to a host.
Queued(w) == { Contents(queue[w])[k].payload : k \in DOMAIN Contents(queue[w]) }
Received(l) == { pipe[l][i].val : i \in Payloads(l) }

\* The hosts a packet is for: those that have the address it was sent to, or
\* everybody if nobody has it; never its sender.
Has(h, t) == TheSent(t).dest_addr \in SrcAddrs[h]
Audience(t) ==
  { h \in HostOut \ {t.from} : Has(h, t) \/ \A g \in HostOut : ~Has(g, t) }

IsSent(t) == t.seq \in DOMAIN sent[t.from]
IsForwarded(t) ==
  IsSent(t) /\ \A h \in Audience(t) : t \in Received(Back(h))

\* switch.c:118, 160: if nothing is sent before the last packet has come to its
\* end, nothing is lost: when nothing is on its way, every packet has come to all
\* it is for.
NoneLost == Quiet => \A t \in Tag : IsSent(t) => IsForwarded(t)

\* link.c:116, switch.c:118, 160: what can be lost are packets that run together
\* in a pipe or do not fit a queue.  If no host has sent two, and a queue has
\* room for all, then none is, however the switches and the hosts interleave.
FewAreKept ==
  /\ \A h \in HostOut : Len(sent[h]) <= 1
  /\ Cardinality({ t \in Tag : IsSent(t) }) <= MAXQUEUE
  => NoneLost

-----------------------------------------------------------------------------
(* Action and liveness properties *)

\* switch.c:132-151: a packet goes to a host that does not have its address
\* only while the switch has not heard of the address.
SpareTheOthers ==
  [][\A w \in Switches : \A i \in DOMAIN outLinks[w] :
       LET l == outLinks[w][i]
       IN  /\ inLinks[w][i] \in HostOut
           /\ pipe'[l] # pipe[l]
           /\ outPacket[w].dest_addr \notin SrcAddrs[inLinks[w][i]]
           => outPacket[w].dest_addr \notin KnownAddrs(table[w])]_vars

\* switch.c:80-106: a packet in a queue reaches the host it is for.
QueuedIsForwarded ==
  \A t \in Tag : (\E w \in Switches : t \in Queued(w)) ~> IsForwarded(t)

\* switch.c:80-106, 137: in a tree flooding dies out, and so does forwarding:
\* some time after the last packet was sent nothing is on its way, for ever.
ComesToRest == <>[]Quiet

\* switch.c:160-201: whatever comes in, each ring is a bounded queue.
QueuesAreFifos == Fifo!FifoSpec

-----------------------------------------------------------------------------
(* Calm trees *)

\* What comes in on link l may go out on link m.
Onward(l, m) ==
  \E w \in Switches : \E i, j \in DOMAIN inLinks[w] :
    i # j /\ inLinks[w][i] = l /\ outLinks[w][j] = m
Closed(S) == \A l \in S, m \in Links : Onward(l, m) => m \in S

\* The links that what is on link l can come to, l among them.
Beyond(l) == { m \in Links : \A S \in SUBSET Links : l \in S /\ Closed(S) => m \in S }

\* No address is used by two hosts.
OwnAddrs == \A g, h \in HostOut : g # h => SrcAddrs[g] \cap SrcAddrs[h] = {}

\* What the proofs about trees assume beyond TreeAssumption: one packet is on its way
\* at a time, all hosts are joined and their addresses differ, a packet fits a read,
\* and all that can be sent fit the pipe of a link to a host, which nobody reads here.
CalmTree ==
  /\ Pace = "network" /\ OwnAddrs
  /\ \A g, h \in HostOut : g # h => Back(g) \in Beyond(h)
  /\ 3 + PAYLOAD_LENGTH < ReadMax /\ 3 + PAYLOAD_LENGTH <= PipeMax
  /\ (3 + PAYLOAD_LENGTH) * Cardinality(Tag) <= PipeMax
=============================================================================
