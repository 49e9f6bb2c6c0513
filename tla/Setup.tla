-------------------------------- MODULE Setup --------------------------------
(***************************************************************************)
(* main.c, net.c: main creates all pipes, forks a process per node, in the *)
(* order of their ids, and becomes the manager.  A child inherits all that *)
(* is open in its parent at the time of the fork, and closes what it does  *)
(* not need; so does the parent after the last fork.                       *)
(*                                                                         *)
(* A write to a pipe that no process has open for reading kills the writer *)
(* (SIGPIPE).  Of the main loops of the processes only this is here: who   *)
(* writes to whom, once there is something to write.                       *)
(*                                                                         *)
(* A definition named X_Slip stands next to a definition X and is what a   *)
(* slip in the code would make of it; nothing uses it.                     *)
(***************************************************************************)
EXTENDS Integers

CONSTANTS
  numhosts, numswitches,
  Links,       \* the links
  linkSrc,     \* the src_physId of each link, which writes it
  linkDest     \* its dest_physId, which reads it

HostIds == 0 .. numhosts - 1
Nodes == 0 .. numhosts + numswitches - 1

\* The manager, or what becomes of it.
parent == -1
Processes == Nodes \cup {parent}

ASSUME SetupAssumption ==
  /\ numhosts \in Nat \ {0}
  /\ numswitches \in Nat
  /\ linkSrc \in [Links -> Nodes]
  /\ linkDest \in [Links -> Nodes]

\* The ends of all pipes.
LinkEnd == [pipe : {"link"}, of : Links, end : {"read", "write"}]
ManEnd == [pipe : {"toHost", "fromHost"}, of : HostIds, end : {"read", "write"}]
End == LinkEnd \cup ManEnd

VARIABLES
  open,   \* open[p]: the ends that process p has open
  pc,     \* pc[p]: what process p does next, or how it has ended
  physid, \* the next node to fork
  busy    \* the nodes that have something to send

setupVars == << open, pc, physid, busy >>

SetupTypeOK ==
  /\ open \in [Processes -> SUBSET End]
  /\ pc \in [Processes -> {"none", "fork", "connections", "links", "loop",
                           "failed", "crashed", "killed", "quit"}]
  /\ physid \in 0 .. numhosts + numswitches
  /\ busy \subseteq Nodes

\* netCreateConnections, netCreateLinks
Init ==
  /\ open = [p \in Processes |-> IF p = parent THEN End ELSE {}]
  /\ pc = [p \in Processes |-> IF p = parent THEN "fork" ELSE "none"]
  /\ physid = 0
  /\ busy = {}

-----------------------------------------------------------------------------
(* The ends that each function of net.c closes *)

netCloseConnections(h) ==
  { e \in ManEnd : \/ e.of # h
                   \/ e.pipe = "fromHost" /\ e.end = "read"
                   \/ e.pipe = "toHost" /\ e.end = "write" }

netCloseNonincidentLinks(n) ==
  { e \in LinkEnd : \/ linkSrc[e.of] # n /\ e.end = "write"
                    \/ linkDest[e.of] # n /\ e.end = "read" }

netCloseLinks == LinkEnd

netCloseManConnections ==
  { e \in ManEnd : \/ e.pipe = "toHost" /\ e.end = "read"
                   \/ e.pipe = "fromHost" /\ e.end = "write" }

netCloseAllManConnections_WriteOnly == { e \in ManEnd : e.end = "write" }
netCloseAllManConnections == ManEnd

-----------------------------------------------------------------------------
(* main *)

\* A host closes connections first, a switch links.
Start(n) == IF n < numhosts THEN "connections" ELSE "links"

\* The loop over the nodes goes on.
MoreNodes_Past == physid <= numhosts + numswitches
MoreNodes == physid < numhosts + numswitches

Fork_CloseAlong ==
  /\ pc[parent] = "fork"
  /\ MoreNodes
  /\ open' = [open EXCEPT
                ![physid] = open[parent],
                ![parent] = @ \ { e \in LinkEnd : physid \in {linkSrc[e.of], linkDest[e.of]} }]
  /\ pc' = [pc EXCEPT ![physid] = Start(physid)]
  /\ physid' = physid + 1
  /\ UNCHANGED busy

Fork ==
  /\ pc[parent] = "fork"
  /\ MoreNodes
  /\ open' = [open EXCEPT ![physid] = open[parent]]
  /\ pc' = [pc EXCEPT ![physid] = Start(physid)]
  /\ physid' = physid + 1
  /\ UNCHANGED busy

\* main returns, and leaves the nodes it has forked behind.
ForkFails ==
  /\ pc[parent] = "fork"
  /\ MoreNodes
  /\ pc' = [pc EXCEPT ![parent] = "failed"]
  /\ open' = [open EXCEPT ![parent] = {}]
  /\ UNCHANGED << physid, busy >>

ForksDone ==
  /\ pc[parent] = "fork"
  /\ ~MoreNodes
  /\ pc' = [pc EXCEPT ![parent] = "links"]
  /\ UNCHANGED << open, physid, busy >>

\* Process p closes the ends in E and goes on.
Closes(p, from, E, to) ==
  /\ pc[p] = from
  /\ open' = [open EXCEPT ![p] = @ \ E]
  /\ pc' = [pc EXCEPT ![p] = to]
  /\ UNCHANGED << physid, busy >>

ParentCloses ==
  \/ Closes(parent, "links", netCloseLinks, "connections")
  \/ Closes(parent, "connections", netCloseManConnections, "loop")

HostCloses(h) ==
  \/ Closes(h, "connections", netCloseConnections(h), "links")
  \/ Closes(h, "links", netCloseNonincidentLinks(h), "loop")

SwitchCloses(w) ==
  \/ Closes(w, "links", netCloseNonincidentLinks(w), "connections")
  \/ Closes(w, "connections", netCloseAllManConnections, "loop")

-----------------------------------------------------------------------------
(* The main loops *)

Ended(p) == pc[p] \in {"failed", "crashed", "killed", "quit"}

\* What goes into the pipe; nobody has it open for reading.
Readerless(kind, i) ==
  \A p \in Processes : [pipe |-> kind, of |-> i, end |-> "read"] \notin open[p]

\* Process p ends in some way, and the ends it has open are closed.
Ends(p, how) ==
  /\ pc' = [pc EXCEPT ![p] = how]
  /\ open' = [open EXCEPT ![p] = {}]
  /\ UNCHANGED << physid, busy >>

\* Process p writes to a pipe, and gives q something to do.
Writes(p, kind, i, q) ==
  /\ pc[p] = "loop"
  /\ [pipe |-> kind, of |-> i, end |-> "write"] \in open[p]
  /\ IF Readerless(kind, i) THEN Ends(p, "killed")
     ELSE busy' = busy \cup ({q} \cap Nodes) /\ UNCHANGED << open, pc, physid >>

\* The user gives a command to a host; not once a host has crashed, since the
\* manager is waiting for its reply (Network: DeathHoldsUp).
ManagerWrites(h) ==
  /\ \A k \in HostIds : pc[k] # "crashed"
  /\ Writes(parent, "toHost", h, h)

HostReplies(h) == h \in busy /\ Writes(h, "fromHost", h, parent)

NodeSends(l) ==
  /\ linkSrc[l] \in busy
  /\ Writes(linkSrc[l], "link", l, linkDest[l])

\* A host stops in the middle of a command.
HostCrashes(h) == h \in busy /\ pc[h] = "loop" /\ Ends(h, "crashed")

\* The user quits: kill(0, SIGKILL).
Quit ==
  /\ pc[parent] = "loop"
  /\ \A k \in HostIds : pc[k] # "crashed"
  /\ pc' = [p \in Processes |-> "quit"]
  /\ open' = [p \in Processes |-> {}]
  /\ UNCHANGED << physid, busy >>

-----------------------------------------------------------------------------
NodeCloses(n) == IF n \in HostIds THEN HostCloses(n) ELSE SwitchCloses(n)

Next ==
  \/ Fork \/ ForkFails \/ ForksDone \/ ParentCloses
  \/ \E n \in Nodes : NodeCloses(n)
  \/ \E h \in HostIds : ManagerWrites(h) \/ HostReplies(h) \/ HostCrashes(h)
  \/ \E l \in Links : NodeSends(l)
  \/ Quit

Spec == Init /\ [][Next]_setupVars

-----------------------------------------------------------------------------
(* Properties *)

\* The process that uses an end of a pipe.
User(e) ==
  CASE e.pipe = "link" /\ e.end = "read" -> linkDest[e.of]
    [] e.pipe = "link" /\ e.end = "write" -> linkSrc[e.of]
    [] e.pipe = "toHost" /\ e.end = "read" -> e.of
    [] e.pipe = "toHost" /\ e.end = "write" -> parent
    [] e.pipe = "fromHost" /\ e.end = "read" -> parent
    [] e.pipe = "fromHost" /\ e.end = "write" -> e.of

\* Processes that have come to their main loops.
SetUp == \A p \in Processes : pc[p] = "loop" \/ Ended(p)

\* net.c:108-127, 216-257: when all processes are in their main loops, every
\* end of a pipe is open in the process that uses it, unless it has ended, and
\* in no other: neither a packet nor the death of a node can go unnoticed.
EndsInPlace ==
  SetUp => \A e \in End : \A p \in Processes :
    e \in open[p] <=> p = User(e) /\ ~Ended(p)

\* net.c:216, link.c:238: however the forks and the main loops of the processes
\* overlap, and even if a fork fails, a process is killed by a write only if the
\* one it writes to had ended: the first to end was a host that crashed.
KilledByTheDead ==
  [][\A n \in Processes : pc[n] # "killed" /\ pc'[n] = "killed" =>
       \E l \in Links : linkSrc[l] = n /\ pc[linkDest[l]] \in {"crashed", "killed"}]_setupVars
=============================================================================
