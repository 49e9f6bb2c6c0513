---------------------------- MODULE Network_proof ----------------------------
(***************************************************************************)
(* The dialogue, the deaths of processes and the files in the whole        *)
(* program, proved for any hosts, switches and links.  Most of it is from  *)
(* Console_proof: a switch takes no part in the dialogue, and passes on    *)
(* what it gets.                                                           *)
(***************************************************************************)
EXTENDS Network, Console_proof, Switch_proof

\* A step of the program is one of the console, or leaves what the dialogue is
\* about as it is.
LEMMA StepCases ==
  ASSUME [NetNext]_netVars
  PROVE  \/ [Next]_vars
         \/ (\E w \in Switches : NetSwitchStep(w))
              /\ UNCHANGED << toHost, fromHost, hostVars, managerVars >>
  BY DEF NetNext, netVars, NetHostStep, NetSwitchStep, NetQuit, Next

\* The console's invariant is one of the program.
LEMMA NetNextInv ==
  ASSUME Inv, [NetNext]_netVars
  PROVE  Inv'
<1>1. CASE UNCHANGED << toHost, fromHost, hostVars, managerVars >>
  BY <1>1 DEF hostVars, managerVars, Inv, Conversation, Silent, Pending
<1> QED  BY <1>1, NextInv, StepCases

\* man.c:107-147: with switches between the hosts, too, commands and replies
\* take turns.
THEOREM NetTakeTurns == NetSpec => []Conversation
<1>1. Inv => Conversation
  BY DEF Inv
<1>2. NetInit => Inv
  BY InitInv DEF NetInit
<1> QED  BY <1>1, <1>2, NetNextInv, PTL DEF NetSpec

-----------------------------------------------------------------------------
(* Deaths *)

\* A host that has died left no message behind, which is why the manager waits
\* for ever.
Mourned ==
  /\ DeathHoldsUp
  /\ \A h \in Hosts : hostPc[h] = "dead" => Silent(h)

LEMMA InitMourned == NetInit => Mourned
  BY DEF NetInit, Init, HostInit, ManagerInit, SwitchInit, Mourned, DeathHoldsUp, HeldUp

\* A step of a host changes the state of no other.
LEMMA OthersStay ==
  ASSUME Inv, NEW g \in Hosts, HostStep(g), NEW h \in Hosts, h # g
  PROVE  hostPc'[h] = hostPc[h] /\ toHost'[h] = toHost[h] /\ fromHost'[h] = fromHost[h]
<1>1. CASE HostCommand(g)
  <2>1. Head(toHost[g]) \in Command /\ HostExecute(g, Head(toHost[g]))
    <3>1. toHost[g] \in Seq(Command) /\ toHost[g] # << >>
      BY <1>1 DEF HostCommand, Inv
    <3> QED  BY <1>1, <3>1, HeadTailProperties DEF HostCommand
  <2>2. \E s : hostPc' = [hostPc EXCEPT ![g] = s]
    BY <2>1, ExecuteAnswers DEF Answer
  <2> QED  BY <1>1, <2>2 DEF HostCommand, Inv
<1>2. CASE HostNoCommand(g) \/ hostReplySend(g)
  BY <1>2 DEF HostNoCommand, hostReplySend, Inv
<1>3. CASE HostReceive(g)
  BY <1>3 DEF HostReceive, HostStore, HostFilled, Inv
<1> QED  BY <1>1, <1>2, <1>3 DEF HostStep

\* A host that has died takes no step, and one that dies does so over the
\* command the manager waits for.
LEMMA HostStepDeath ==
  ASSUME Inv, NEW g \in Hosts, HostStep(g)
  PROVE  /\ hostPc[g] # "dead"
         /\ hostPc'[g] = "dead" => manPc = "wait" /\ g = currhost /\ Silent(g)'
<1>1. hostPc[g] # "dead"
  BY DEF HostStep, HostCommand, HostNoCommand, hostReplySend, HostReceive
<1>2. CASE HostCommand(g)
  <2>1. /\ manPc = "wait" /\ g = currhost /\ fromHost[g] = << >>
        /\ toHost' = [toHost EXCEPT ![g] = << >>] /\ fromHost' = fromHost
    BY <1>2, CommandIsPending DEF HostCommand
  <2> QED  BY <1>1, <2>1 DEF Silent, Inv
<1>3. CASE HostNoCommand(g) \/ hostReplySend(g) \/ HostReceive(g)
  BY <1>1, <1>3 DEF HostNoCommand, hostReplySend, HostReceive, HostStore, HostFilled, Inv
<1> QED  BY <1>1, <1>2, <1>3 DEF HostStep

LEMMA HostStepMourned ==
  ASSUME Inv, Mourned, NEW g \in Hosts, NetHostStep(g)
  PROVE  Mourned'
<1>1. HostStep(g) /\ UNCHANGED << currhost, manPc, pc >>
  BY DEF NetHostStep, managerVars, switchVars
<1>2. ASSUME NEW h \in Hosts, hostPc'[h] = "dead"
      PROVE  Silent(h)'
  <2>1. CASE h = g
    BY <1>1, <1>2, <2>1, HostStepDeath
  <2>2. CASE h # g
    BY <1>1, <1>2, <2>2, OthersStay DEF Mourned, Silent
  <2> QED  BY <2>1, <2>2
<1>3. CASE HeldUp
  <2>1. manPc = "wait" => currhost # g /\ currhost \in Hosts
    BY <1>1, <1>3, HostStepDeath DEF HeldUp, Inv
  <2>2. HeldUp'
    BY <1>1, <1>3, <2>1, OthersStay DEF HeldUp
  <2> QED  BY <1>2, <2>2 DEF Mourned, DeathHoldsUp
<1>4. CASE ~HeldUp
  <2>1. (\A h \in Hosts : hostPc[h] # "dead") /\ \A w \in Switches : pc[w] # "dead"
    BY <1>4 DEF Mourned, DeathHoldsUp
  <2>2. ASSUME NEW h \in Hosts, hostPc'[h] = "dead"
        PROVE  HeldUp'
    <3>1. h = g
      BY <1>1, <2>1, <2>2, OthersStay
    <3> QED  BY <1>1, <2>2, <3>1, HostStepDeath DEF HeldUp
  <2> QED  BY <1>1, <1>2, <2>1, <2>2 DEF Mourned, DeathHoldsUp
<1> QED  BY <1>3, <1>4

\* A switch dies only if the process that reads its link has died before.
LEMMA SwitchStepMourned ==
  ASSUME Mourned, SwitchInv, NEW w \in Switches, NetSwitchStep(w)
  PROVE  Mourned'
<1>1. UNCHANGED << toHost, fromHost, hostPc, currhost, manPc >>
  BY DEF NetSwitchStep, hostVars, managerVars
<1>2. \A h \in Hosts : hostPc'[h] = "dead" => Silent(h)'
  BY <1>1 DEF Mourned, Silent
<1>3. HeldUp' <=> HeldUp
  BY <1>1 DEF HeldUp
<1>4. CASE SwitchKilled(w)
  <2>1. (\E h \in Hosts : hostPc[h] = "dead") \/ \E v \in Switches : pc[v] = "dead"
    BY <1>4 DEF SwitchKilled, Signalled, Readerless
  <2> QED  BY <1>2, <1>3, <2>1 DEF Mourned, DeathHoldsUp
<1>5. CASE SwitchStep(w)
  <2>1. pc' = pc \/ \E s \in {"store", "send", "corrupt"} : pc' = [pc EXCEPT ![w] = s]
    BY <1>5 DEF SwitchStep, SwitchReceive, SwitchStore, SwitchCorrupt, SwitchReceiveNothing,
                SwitchIdle, SwitchNextPacket, SwitchUnicast, SwitchFlood, SwitchFloodEnd
  <2>2. \A v \in Switches : pc'[v] = "dead" => pc[v] = "dead"
    BY <2>1 DEF SwitchInv, SwitchTypeOK
  <2> QED  BY <1>1, <1>2, <1>3, <2>2 DEF Mourned, DeathHoldsUp
<1> QED  BY <1>4, <1>5 DEF NetSwitchStep

\* The manager goes on only while everyone is alive.
LEMMA ManagerStepMourned ==
  ASSUME Inv, Mourned, (ManagerStep /\ UNCHANGED switchVars) \/ NetQuit
  PROVE  Mourned'
<1>1. CASE NetQuit
  <2>1. /\ manPc = "prompt" /\ manPc' = "quit"
        /\ toHost' = toHost /\ fromHost' = fromHost
        /\ hostPc' = [h \in Hosts |-> "dead"]
    BY <1>1 DEF NetQuit, Quit, managerQuit
  <2>2. \A h \in Hosts : Silent(h)'
    BY <2>1 DEF Inv, Conversation, Silent
  <2> QED  BY <2>1, <2>2 DEF Mourned, DeathHoldsUp, HeldUp
<1>2. CASE manPc = "prompt" /\ ManagerStep /\ UNCHANGED switchVars
  <2>1. hostPc' = hostPc /\ pc' = pc
    BY <1>2 DEF ManagerStep, hostVars, switchVars
  <2>2. (\A h \in Hosts : hostPc[h] # "dead") /\ \A w \in Switches : pc[w] # "dead"
    BY <1>2 DEF Mourned, DeathHoldsUp, HeldUp
  <2> QED  BY <2>1, <2>2 DEF Mourned, DeathHoldsUp
<1>3. CASE manWaitForReply /\ UNCHANGED << hostVars, switchVars >>
  <2>1. manPc = "wait" /\ fromHost[currhost] # << >> /\ hostPc' = hostPc /\ pc' = pc
    BY <1>3 DEF manWaitForReply, hostVars, switchVars
  <2>2. hostPc[currhost] # "dead"
    BY <2>1 DEF Inv, Mourned, Silent
  <2>3. ~HeldUp
    BY <2>1, <2>2 DEF HeldUp
  <2> QED  BY <2>1, <2>3 DEF Mourned, DeathHoldsUp
<1> QED  BY <1>1, <1>2, <1>3 DEF ManagerStep, manCommandSend, manChangeHost

-----------------------------------------------------------------------------
(* Types *)

\* What switch w has cannot change by its death.
LEMMA SwitchKilledInv ==
  ASSUME SwitchInv, NEW w \in Switches, SwitchKilled(w)
  PROVE  SwitchInv'
<1>1. Good(w, queue[w], table[w], "dead", idx[w], outPacket[w], outLink[w])
  BY DEF SwitchInv, SwitchKilled, Signalled, NextPort, Good
<1>2. /\ queue' = [queue EXCEPT ![w] = queue[w]]
      /\ table' = [table EXCEPT ![w] = table[w]]
      /\ pc' = [pc EXCEPT ![w] = "dead"]
      /\ idx' = [idx EXCEPT ![w] = idx[w]]
      /\ outPacket' = [outPacket EXCEPT ![w] = outPacket[w]]
      /\ outLink' = [outLink EXCEPT ![w] = outLink[w]]
      /\ pipe' = pipe
  BY Unchanged DEF SwitchKilled
<1> QED  BY <1>1, <1>2, OneSwitch DEF SwitchInv

\* Everything together.
NetInv == Inv /\ Data /\ SwitchInv /\ Mourned

LEMMA InitNetInv == NetInit => NetInv
  BY InitInv, InitData, InitSwitchInv, InitMourned DEF NetInit, NetInv, Init

LEMMA NetNextNetInv ==
  ASSUME NetInv, [NetNext]_netVars
  PROVE  NetInv'
<1> USE DEF NetInv
<1>1. CASE UNCHANGED netVars
  BY <1>1 DEF netVars, vars, hostVars, managerVars, switchVars, Inv, Conversation,
     Silent, Pending, Data, HostData, SwitchInv, SwitchTypeOK, Mourned,
     DeathHoldsUp, HeldUp
<1>2. ASSUME NEW w \in Switches, NetSwitchStep(w)
      PROVE  NetInv'
  <2>1. Inv' /\ Mourned'
    BY <1>2, NetNextInv, SwitchStepMourned
  <2>2. SwitchInv'
    BY <1>2, SwitchStepInv, SwitchKilledInv DEF NetSwitchStep
  <2>3. Data'
    BY <1>2, <2>2 DEF NetSwitchStep, hostVars, managerVars, SwitchInv, Data, HostData
  <2> QED  BY <2>1, <2>2, <2>3
<1>3. ASSUME [Next]_vars, UNCHANGED switchVars, Mourned'
      PROVE  NetInv'
  <2>1. Inv' /\ Data'
    BY <1>3, NextInv, NextData
  <2>2. SwitchInv'
    BY <1>3, <2>1 DEF switchVars, SwitchInv, SwitchTypeOK, Data
  <2> QED  BY <1>3, <2>1, <2>2
<1>4. ASSUME NEW h \in Hosts, NetHostStep(h)
      PROVE  NetInv'
  <2>1. [Next]_vars /\ UNCHANGED switchVars
    BY <1>4 DEF NetHostStep, Next
  <2> QED  BY <1>3, <1>4, <2>1, HostStepMourned
<1>5. CASE ManagerStep /\ UNCHANGED switchVars
  BY <1>3, <1>5, ManagerStepMourned DEF Next
<1>6. CASE NetQuit
  <2>1. Inv' /\ Data' /\ Mourned'
    BY <1>6, NextInv, NextData, ManagerStepMourned DEF NetQuit, Next
  <2>2. /\ pc' = [w \in Switches |-> "dead"]
        /\ UNCHANGED << pipe, queue, table, idx, outPacket, outLink >>
    BY <1>6 DEF NetQuit, Quit
  <2>3. SwitchTypeOK'
    BY <2>2 DEF SwitchInv, SwitchTypeOK
  <2>4. ASSUME NEW w \in Switches
        PROVE  Good(w, queue'[w], table'[w], pc'[w], idx'[w], outPacket'[w], outLink'[w])
    BY <2>2 DEF SwitchInv, Good
  <2> QED  BY <2>1, <2>2, <2>3, <2>4 DEF SwitchInv
<1> QED  BY <1>1, <1>2, <1>4, <1>5, <1>6 DEF NetNext

LEMMA NetInvAlways == NetSpec => []NetInv
  BY InitNetInv, NetNextNetInv, PTL DEF NetSpec

\* host.c, man.c, switch.c: every variable of the program keeps its type.
THEOREM NetTypeCorrect == NetSpec => []NetTypeOK
<1>1. NetInv => NetTypeOK
  BY TypesFromInv DEF NetInv, SwitchInv, NetTypeOK
<1> QED  BY <1>1, NetInvAlways, PTL

\* host.c:424, link.c:238: whoever has died, the manager is waiting for a host
\* that died first, and gives no command any more.
THEOREM TheFirstDeathHoldsUp == NetSpec => []DeathHoldsUp
<1>1. NetInv => DeathHoldsUp
  BY DEF NetInv, Mourned
<1> QED  BY <1>1, NetInvAlways, PTL

\* link.c:238: a host is never killed by what it is told to send.
THEOREM NoHostKilledSending == NetSpec => []HostsSendSafely
<1>1. NetInv => HostsSendSafely
  <2> SUFFICES ASSUME NetInv, NEW h \in Hosts, toHost[h] # << >>,
                      Readerless(linkOut[h])
               PROVE  hostPc[h] = "dead"
    BY DEF HostsSendSafely
  <2>1. manPc = "wait" /\ h = currhost
    BY CommandIsPending DEF NetInv
  <2>2. HeldUp
    BY DEF NetInv, Mourned, DeathHoldsUp, Readerless
  <2> QED  BY <2>1, <2>2 DEF HeldUp
<1> QED  BY <1>1, NetInvAlways, PTL

-----------------------------------------------------------------------------
(* Files that come through switches *)

\* No read fills its buffer: all that waits is less than it can take.
WholeReads == \A l \in Links : Len(pipe[l]) < ReadMax

\* A switch passes on nothing but copies.
SwitchCopies ==
  \A w \in Switches :
    /\ \A k \in DOMAIN Contents(queue[w]) : Contents(queue[w])[k] \in CopyPackets
    /\ pc[w] = "send" => outPacket[w] \in CopyPackets

NetCopies == CopyInv /\ SwitchCopies

\* What has no effect on hosts keeps to copies if it does so in the links.
LEMMA LinksCopy ==
  ASSUME CopyInv, UNCHANGED hostVars, \A l \in Links : BeginsWith(CopyPackets, pipe'[l])
  PROVE  CopyInv'
  BY DEF CopyInv, FilesAreCopies, hostVars

\* If only switch v has changed, only it is to be looked at.
LEMMA OneSwitchCopies ==
  ASSUME SwitchInv, SwitchCopies, NEW v \in Switches, NEW q, NEW c, NEW p,
         queue' = [queue EXCEPT ![v] = q], pc' = [pc EXCEPT ![v] = c],
         outPacket' = [outPacket EXCEPT ![v] = p],
         \A k \in DOMAIN Contents(q) : Contents(q)[k] \in CopyPackets,
         c = "send" => p \in CopyPackets
  PROVE  SwitchCopies'
<1> SUFFICES ASSUME NEW w \in Switches
             PROVE  /\ \A k \in DOMAIN Contents(queue'[w]) : Contents(queue'[w])[k] \in CopyPackets
                    /\ pc'[w] = "send" => outPacket'[w] \in CopyPackets
  BY DEF SwitchCopies
<1>1. CASE w = v
  <2>1. queue'[w] = q /\ pc'[w] = c /\ outPacket'[w] = p
    BY <1>1 DEF SwitchInv, SwitchTypeOK
  <2> QED  BY <2>1
<1>2. CASE w # v
  <2>1. queue'[w] = queue[w] /\ pc'[w] = pc[w] /\ outPacket'[w] = outPacket[w]
    BY <1>2 DEF SwitchInv, SwitchTypeOK
  <2> QED  BY <2>1 DEF SwitchCopies
<1> QED  BY <1>1, <1>2

\* Reading a link: a copy goes into the queue.
LEMMA SwitchReceiveCopy ==
  ASSUME SwitchInv, NetCopies, WholeReads, NEW v \in Switches, SwitchReceive(v),
         UNCHANGED hostVars
  PROVE  NetCopies'
<1> DEFINE l == inLinks[v][idx[v]]
           s == pipe[l]
           p == linkReceive(s)
           q == queuePush(queue[v], p)
<1>1. /\ Polling(v) /\ s # << >> /\ (SwitchStore(v, p) \/ SwitchCorrupt(v))
      /\ outPacket' = outPacket /\ pipe' = [pipe EXCEPT ![l] = Unread(s)]
  BY DEF SwitchReceive
<1>2. l \in Links /\ pipe \in [Links -> Seq(Cell)] /\ s \in Seq(Cell)
  <2>1. idx[v] \in 1 .. Len(inLinks[v])
    BY <1>1 DEF Polling, SwitchInv, SwitchTypeOK
  <2> QED  BY <2>1, LinksOf DEF SwitchInv
<1>3. p \in CopyPackets /\ Unread(s) = << >>
  <2>1. CopyPackets \subseteq WholePacket
    BY DEF CopyPackets
  <2>2. BeginsWith(CopyPackets, s) /\ Len(s) <= ReadMax
    <3>1. BeginsWith(CopyPackets, s) /\ Len(s) < ReadMax
      BY <1>2 DEF NetCopies, CopyInv, WholeReads
    <3> HIDE DEF s
    <3> QED  BY <1>2, <3>1, LenProperties, LinkAssumption
  <2> HIDE DEF s
  <2> QED  BY <1>1, <1>2, <2>1, <2>2, ReceiveBegins
<1>4. CopyInv'
  <2>1. \A k \in Links : pipe'[k] = pipe[k] \/ pipe'[k] = << >>
    BY <1>1, <1>2, <1>3
  <2>2. \A k \in Links : BeginsWith(CopyPackets, pipe'[k])
    BY <2>1 DEF NetCopies, CopyInv, BeginsWith
  <2> QED  BY <2>2, LinksCopy DEF NetCopies
<1>5. IsRing(queue[v], packetBuffer) /\ p \in packetBuffer
  BY <1>3 DEF SwitchInv, Good, CopyPackets, WholePacket, Sendable
<1>6. /\ \A k \in DOMAIN Contents(queue[v]) : Contents(queue[v])[k] \in CopyPackets
      /\ pc[v] = "store"
  BY <1>1 DEF NetCopies, SwitchCopies, Polling
<1> HIDE DEF p, l, s
<1>7. \A k \in DOMAIN Contents(q) : Contents(q)[k] \in CopyPackets
  <2>1. Contents(q) = Contents(queue[v]) \/ Contents(q) = Append(Contents(queue[v]), p)
    BY <1>5, PushRing
  <2>2. Contents(queue[v]) \in Seq(packetBuffer)
    BY <1>5, ContentsSeq
  <2> DEFINE Q == Contents(queue[v])
  <2>3. \A k \in DOMAIN Append(Q, p) :
          (k \in DOMAIN Q /\ Append(Q, p)[k] = Q[k]) \/ Append(Q, p)[k] = p
    <3> HIDE DEF Q
    <3>1. Q \in Seq(packetBuffer)
      BY <2>2 DEF Q
    <3>2. DOMAIN Append(Q, p) = 1 .. Len(Q) + 1 /\ DOMAIN Q = 1 .. Len(Q)
          /\ Len(Q) \in Nat
      BY <3>1, <1>5, AppendProperties, LenProperties
    <3> QED  BY <3>1, <3>2, <1>5, AppendProperties
  <2> QED  BY <1>3, <1>6, <2>1, <2>3
<1>8. SwitchCopies'
  <2>1. /\ queue = [queue EXCEPT ![v] = queue[v]]
        /\ outPacket = [outPacket EXCEPT ![v] = outPacket[v]]
        /\ pc = [pc EXCEPT ![v] = pc[v]]
    BY Unchanged
  <2>2. \/ queue' = [queue EXCEPT ![v] = q] /\ pc' = pc
        \/ queue' = queue /\ pc' = [pc EXCEPT ![v] = "corrupt"]
    BY <1>1 DEF SwitchStore, SwitchCorrupt
  <2>3. SwitchCopies
    BY DEF NetCopies
  <2> HIDE DEF q
  <2>4. CASE queue' = [queue EXCEPT ![v] = q] /\ pc' = pc
    BY <1>1, <1>6, <1>7, <2>1, <2>3, <2>4, OneSwitchCopies
  <2>5. CASE queue' = queue /\ pc' = [pc EXCEPT ![v] = "corrupt"]
    BY <1>1, <1>6, <2>1, <2>3, <2>5, OneSwitchCopies
  <2> QED  BY <2>2, <2>4, <2>5
<1> QED  BY <1>4, <1>8 DEF NetCopies

\* Taking a packet out of the queue: a copy is what is sent next.
LEMMA SwitchNextCopy ==
  ASSUME SwitchInv, SwitchCopies, NEW v \in Switches, SwitchNextPacket(v)
  PROVE  SwitchCopies'
<1> DEFINE p == queueHead(queue[v])
           q == queuePop(queue[v])
           Q == Contents(queue[v])
<1>1. IsRing(queue[v], packetBuffer) /\ queue[v].size # 0
  BY DEF SwitchInv, Good, SwitchNextPacket, queueIsEmpty
<1>2. Q # << >> /\ p = Head(Q) /\ Contents(q) = Tail(Q) /\ Q \in Seq(packetBuffer)
  BY <1>1, PopRing, ContentsSeq
<1>3. \A k \in DOMAIN Q : Q[k] \in CopyPackets
  BY DEF SwitchCopies
<1>4. \E c : /\ queue' = [queue EXCEPT ![v] = q] /\ pc' = [pc EXCEPT ![v] = c]
             /\ outPacket' = [outPacket EXCEPT ![v] = p]
  BY DEF SwitchNextPacket
<1> HIDE DEF p, q, Q
<1>5. p \in CopyPackets /\ \A k \in DOMAIN Tail(Q) : Tail(Q)[k] \in CopyPackets
  <2>1. Len(Q) \in Nat /\ Len(Q) >= 1 /\ DOMAIN Q = 1 .. Len(Q)
    BY <1>2, LenProperties, EmptySeq
  <2>2. /\ Head(Q) = Q[1] /\ Tail(Q) \in Seq(packetBuffer) /\ Len(Tail(Q)) = Len(Q) - 1
        /\ \A k \in 1 .. Len(Tail(Q)) : Tail(Q)[k] = Q[k + 1]
    BY <1>2, HeadTailProperties
  <2>3. DOMAIN Tail(Q) = 1 .. Len(Tail(Q))
    BY <2>2, LenProperties
  <2> QED  BY <1>2, <1>3, <2>1, <2>2, <2>3
<1>6. \A k \in DOMAIN Contents(q) : Contents(q)[k] \in CopyPackets
  BY <1>2, <1>5
<1> QED  BY <1>4, <1>5, <1>6, OneSwitchCopies

\* Sending: the link keeps to copies.
LEMMA SwitchSendCopy ==
  ASSUME SwitchInv, NetCopies, NEW v \in Switches, NEW i \in DOMAIN outLinks[v],
         pc[v] = "send", Transmit(v, i), UNCHANGED hostVars
  PROVE  CopyInv'
<1> DEFINE l == outLinks[v][i]
<1>1. l \in Links /\ pipe \in [Links -> Seq(Cell)] /\ outPacket[v] \in CopyPackets
  BY LinksOf DEF SwitchInv, NetCopies, SwitchCopies
<1>2. pipe' = [pipe EXCEPT ![l] = linkSend(pipe[l], outPacket[v])]
  BY DEF Transmit
<1>3. \A k \in Links : BeginsWith(CopyPackets, pipe[k])
  BY DEF NetCopies, CopyInv
<1>4. BeginsWith(CopyPackets, linkSend(pipe[l], outPacket[v]))
  <2>1. CopyPackets \subseteq WholePacket
    BY DEF CopyPackets
  <2> HIDE DEF l
  <2> QED  BY <1>1, <1>3, <2>1, SendBegins
<1>5. \A k \in Links : BeginsWith(CopyPackets, pipe'[k])
  BY <1>1, <1>2, <1>3, <1>4
<1> QED  BY <1>5, LinksCopy DEF NetCopies

\* Whatever a switch does, it keeps to copies.
LEMMA NetSwitchCopy ==
  ASSUME SwitchInv, NetCopies, WholeReads, NEW v \in Switches, NetSwitchStep(v)
  PROVE  NetCopies'
<1>1. UNCHANGED hostVars
  BY DEF NetSwitchStep
<1>2. /\ queue = [queue EXCEPT ![v] = queue[v]]
      /\ pc = [pc EXCEPT ![v] = pc[v]]
      /\ outPacket = [outPacket EXCEPT ![v] = outPacket[v]]
  BY Unchanged
<1>3. /\ SwitchCopies
      /\ \A k \in DOMAIN Contents(queue[v]) : Contents(queue[v])[k] \in CopyPackets
      /\ pc[v] = "send" => outPacket[v] \in CopyPackets
  BY DEF NetCopies, SwitchCopies
<1>4. ASSUME UNCHANGED << queue, outPacket >>, NEW c \in {pc[v], "store", "dead"},
             pc' = [pc EXCEPT ![v] = c]
      PROVE  SwitchCopies'
  <2>1. c = "send" => outPacket[v] \in CopyPackets
    BY <1>3, <1>4
  <2> QED  BY <1>2, <1>3, <1>4, <2>1, OneSwitchCopies
<1>5. ASSUME UNCHANGED pipe  PROVE CopyInv'
  BY <1>1, <1>5, LinksCopy DEF NetCopies, CopyInv
<1>6. Good(v, queue[v], table[v], pc[v], idx[v], outPacket[v], outLink[v])
  BY DEF SwitchInv
<1>7. CASE SwitchReceive(v)
  BY <1>1, <1>7, SwitchReceiveCopy
<1>8. CASE SwitchNextPacket(v)
  BY <1>3, <1>5, <1>8, SwitchNextCopy DEF SwitchNextPacket, NetCopies
<1>9. CASE SwitchKilled(v) \/ SwitchReceiveNothing(v) \/ SwitchIdle(v) \/ SwitchFloodEnd(v)
  <2>1. UNCHANGED << pipe, queue, outPacket >>
        /\ \E c \in {pc[v], "store", "dead"} : pc' = [pc EXCEPT ![v] = c]
    BY <1>2, <1>9 DEF SwitchKilled, SwitchReceiveNothing, SwitchIdle, SwitchFloodEnd
  <2> QED  BY <1>4, <1>5, <2>1 DEF NetCopies
<1>10. CASE SwitchUnicast(v)
  <2>1. outLink[v] \in DOMAIN outLinks[v] /\ pc[v] = "send" /\ Transmit(v, outLink[v])
        /\ UNCHANGED << queue, outPacket >> /\ pc' = [pc EXCEPT ![v] = "store"]
    BY <1>6, <1>10 DEF SwitchUnicast, Good
  <2> QED  BY <1>1, <1>4, <2>1, SwitchSendCopy DEF NetCopies
<1>11. CASE SwitchFlood(v)
  <2>1. idx[v] \in DOMAIN outLinks[v] /\ pc[v] = "send"
        /\ UNCHANGED << queue, outPacket, pc >>
    BY <1>6, <1>11, LinksOf DEF SwitchFlood, Good
  <2>2. UNCHANGED pipe \/ Transmit(v, idx[v])
    BY <1>11 DEF SwitchFlood
  <2> QED  BY <1>1, <1>2, <1>4, <1>5, <2>1, <2>2, SwitchSendCopy DEF NetCopies
<1> QED  BY <1>7, <1>8, <1>9, <1>10, <1>11 DEF NetSwitchStep, SwitchStep

\* Whatever happens, everyone keeps to copies.
LEMMA NetNextCopy ==
  ASSUME NetInv, NetCopies, WholeReads, [NetNext]_netVars
  PROVE  NetCopies'
<1>1. WholeLinks
  BY HostAssumption DEF WholeReads, WholeLinks
<1>2. ASSUME [Next]_vars, UNCHANGED << queue, outPacket >>,
             \A w \in Switches : pc'[w] = "send" => pc[w] = "send"
      PROVE  NetCopies'
  <2>1. CopyInv'
    BY <1>1, <1>2, NextCopy DEF NetInv, NetCopies
  <2> QED  BY <1>2, <2>1 DEF NetCopies, SwitchCopies
<1>3. CASE UNCHANGED netVars
  BY <1>2, <1>3 DEF netVars, switchVars
<1>4. ASSUME NEW h \in Hosts, NetHostStep(h)
      PROVE  NetCopies'
  <2>1. [Next]_vars /\ UNCHANGED switchVars
    BY <1>4 DEF NetHostStep, Next
  <2> QED  BY <1>2, <2>1 DEF switchVars
<1>5. ASSUME NEW w \in Switches, NetSwitchStep(w)
      PROVE  NetCopies'
  BY <1>5, NetSwitchCopy DEF NetInv
<1>6. CASE ManagerStep /\ UNCHANGED switchVars
  BY <1>2, <1>6 DEF switchVars, Next
<1>7. CASE NetQuit
  <2>1. /\ [Next]_vars /\ UNCHANGED << queue, outPacket >>
        /\ \A w \in Switches : pc'[w] = "dead"
    BY <1>7 DEF NetQuit, Next
  <2> QED  BY <1>2, <2>1
<1> QED  BY <1>3, <1>4, <1>5, <1>6, <1>7 DEF NetNext

\* host.c:338-437, switch.c:80-163: what comes to a file through switches, too, is
\* what was in some file or in a send buffer that was never filled (host.c:126), if
\* reads find whole packets.
THEOREM NetDownloadsAreCopies == NetSpec /\ []WholeReads => []FilesAreCopies
<1>1. NetInit => NetCopies
  <2> SUFFICES ASSUME NetInit  PROVE NetCopies
    OBVIOUS
  <2>1. CopyInv
    BY InitCopy DEF NetInit
  <2>2. \A w \in Switches : queue[w] = queueInit(Uninitialised) /\ pc[w] = "store"
    BY DEF NetInit, SwitchInit
  <2>3. Contents(queueInit(Uninitialised)) = << >>
    BY InitRing, UninitialisedType
  <2> QED  BY <2>1, <2>2, <2>3 DEF NetCopies, SwitchCopies
<1>2. NetCopies => FilesAreCopies
  BY DEF NetCopies, CopyInv
<1> QED  BY <1>1, <1>2, NetInvAlways, NetNextCopy, PTL DEF NetSpec
=============================================================================
