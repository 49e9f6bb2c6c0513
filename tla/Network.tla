------------------------------- MODULE Network -------------------------------
(***************************************************************************)
(* The whole program: the manager, the hosts and the switches, joined by   *)
(* links.  Console is the part of it without switches.                     *)
(*                                                                         *)
(* Each end of a link is open in one process only (see Setup).  When the   *)
(* process that reads a link has died, a write to the link raises SIGPIPE, *)
(* which nobody handles, and the writer dies as well.                      *)
(***************************************************************************)
EXTENDS Console, Switch

netVars == << vars, switchVars >>

NetInit == Init /\ SwitchInit

-----------------------------------------------------------------------------
\* The process that reads link l has died.
Readerless(l) ==
  \/ \E h \in Hosts : linkIn[h] = l /\ hostPc[h] = "dead"
  \/ \E w \in Switches : pc[w] = "dead" /\ \E i \in DOMAIN inLinks[w] : inLinks[w][i] = l

\* The number of the link that switch w is about to send on, if any.
NextPort(w) ==
  IF pc[w] # "send" THEN {}
  ELSE IF outLink[w] # -1 THEN {outLink[w]}
  ELSE {idx[w]} \cap (DOMAIN outLinks[w] \ {srcLink(w)})

\* linkSend gets as far as the write, and the write raises SIGPIPE.
Signalled(w) ==
  Sendable(outPacket[w]) /\ \E i \in NextPort(w) : Readerless(outLinks[w][i])

SwitchKilled(w) ==
  /\ Signalled(w)
  /\ pc' = [pc EXCEPT ![w] = "dead"]
  /\ UNCHANGED << pipe, queue, table, idx, outPacket, outLink >>

NetSwitchStep(w) ==
  /\ SwitchKilled(w) \/ (~Signalled(w) /\ SwitchStep(w))
  /\ UNCHANGED << toHost, fromHost, hostVars, managerVars >>

NetHostStep(h) == HostStep(h) /\ UNCHANGED << managerVars, switchVars >>

\* kill(0, SIGKILL) reaches the switches, too.
NetQuit ==
  /\ Quit
  /\ pc' = [w \in Switches |-> "dead"]
  /\ UNCHANGED << queue, table, idx, outPacket, outLink >>

NetNext ==
  \/ \E h \in Hosts : NetHostStep(h)
  \/ \E w \in Switches : NetSwitchStep(w)
  \/ ManagerStep /\ UNCHANGED switchVars
  \/ NetQuit

NetSpec == NetInit /\ [][NetNext]_netVars

\* No loop of a node blocks, and the manager goes on polling.
NetFairness ==
  /\ \A h \in Hosts : WF_netVars(NetHostStep(h))
  /\ \A w \in Switches : WF_netVars(NetSwitchStep(w))
  /\ WF_netVars(manWaitForReply /\ UNCHANGED << hostVars, pipe, switchVars >>)

NetFairSpec == NetSpec /\ NetFairness

-----------------------------------------------------------------------------
(* Invariants *)

\* Every variable has its type.
NetTypeOK == TypeOK /\ SwitchTypeOK

\* The user cannot go on after a host has died.
HeldUp == manPc = "quit" \/ (manPc = "wait" /\ hostPc[currhost] = "dead")

\* host.c:424, link.c:238: whichever process has died, the first was a host
\* that the manager is waiting for; so no other host is told to send any more.
DeathHoldsUp ==
  (\E h \in Hosts : hostPc[h] = "dead") \/ (\E w \in Switches : pc[w] = "dead")
    => HeldUp

\* link.c:238: no host is killed by what it sends: when it is told to transmit,
\* the process that reads its link is alive.
HostsSendSafely ==
  \A h \in Hosts :
    toHost[h] # << >> /\ hostPc[h] # "dead" => ~Readerless(linkOut[h])

-----------------------------------------------------------------------------
(* Liveness *)

\* Host g has sent a packet for address a, and nothing else is on its way; the
\* tables say where the hosts are.
OnItsWay(g, a) ==
  /\ \A l \in Links : pipe[l] = << >> <=> l # linkOut[g]
  /\ \A w \in Switches : pc[w] = "store" /\ queueIsEmpty(queue[w])
  /\ \A w \in Switches : \A i \in DOMAIN table[w] : \E k \in Hosts :
       /\ table[w][i].dest_addr = netaddr[k]
       /\ outLinks[w][table[w][i].linkOutNum] = linkIn[k]
  /\ linkReceive(pipe[linkOut[g]]).dest_addr = a

\* Host h, and no other, has the address a.
Owner(h, a) == \A k \in Hosts : netaddr[k] = a <=> k = h

\* link.c, switch.c:80-106, host.c:228-243: a packet comes to the host that has
\* its address, however many switches pass it on and whatever the others do,
\* unless the user gives the address away or a node dies.
Delivered ==
  \A h \in Hosts : \A a \in NetAddrs :
    Owner(h, a) /\ (\E g \in Hosts \ {h} : OnItsWay(g, a))
      ~> new[h] = 1 \/ ~Owner(h, a) \/ \E k \in Hosts : hostPc[k] = "dead"
=============================================================================
