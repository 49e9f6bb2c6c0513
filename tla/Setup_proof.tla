----------------------------- MODULE Setup_proof -----------------------------
(***************************************************************************)
(* Theorems about Setup, for every number of hosts and switches and every  *)
(* set of links between them.                                              *)
(***************************************************************************)
EXTENDS Setup, TLAPS

\* The ends process p uses.
Own(p) == { e \in End : User(e) = p }

\* What a process has open at each point of its way.
NodeOpens(n) ==
  CASE pc[n] = "connections" -> IF n < numhosts THEN End
                                ELSE End \ netCloseNonincidentLinks(n)
    [] pc[n] = "links" -> IF n < numhosts THEN End \ netCloseConnections(n) ELSE End
    [] pc[n] = "loop" -> Own(n)
    [] OTHER -> {}

ParentOpens ==
  CASE pc[parent] \in {"fork", "links"} -> End
    [] pc[parent] = "connections" -> End \ netCloseLinks
    [] pc[parent] = "loop" -> Own(parent)
    [] OTHER -> {}

\* Where the processes are, and who may have something to send.
Progress ==
  /\ \A n \in Nodes : pc[n] \in {"none", "connections", "links", "loop",
                                 "crashed", "killed", "quit"}
  /\ pc[parent] \in {"fork", "links", "connections", "loop", "failed", "quit"}
  /\ \A n \in Nodes : n < physid <=> pc[n] # "none"
  /\ pc[parent] \in {"links", "connections", "loop", "quit"}
       => physid = numhosts + numswitches
  /\ pc[parent] = "quit" => \A n \in Nodes : pc[n] = "quit"
  /\ (\E n \in Nodes : pc[n] = "quit") => pc[parent] = "quit"
  /\ busy # {} => pc[parent] \in {"loop", "quit"}
  /\ (\E n \in Nodes : pc[n] \in {"crashed", "killed"}) => \E h \in HostIds : pc[h] = "crashed"

Inv ==
  /\ SetupTypeOK
  /\ \A n \in Nodes : open[n] = NodeOpens(n)
  /\ open[parent] = ParentOpens
  /\ Progress

-----------------------------------------------------------------------------
\* The ids of the nodes, and that of the parent is none of them.
LEMMA NodeIds ==
  /\ Nodes \subseteq Int /\ HostIds \subseteq Nodes
  /\ parent \notin Nodes /\ parent \in Processes /\ Nodes \subseteq Processes
  /\ \A n \in Nodes : n \in HostIds <=> n < numhosts
  /\ \A n \in Nodes : n \in Processes \ {parent} /\ n < numhosts + numswitches
  /\ \A p \in Processes : p = parent \/ p \in Nodes
BY SetupAssumption DEF Nodes, HostIds, parent, Processes

\* Every end is used by a process.
LEMMA UserOfEnd ==
  ASSUME NEW e \in End
  PROVE  /\ User(e) \in Processes
         /\ e \in LinkEnd => User(e) = IF e.end = "read" THEN linkDest[e.of] ELSE linkSrc[e.of]
         /\ e \in ManEnd =>
              User(e) = IF e.pipe = "toHost" <=> e.end = "read" THEN e.of ELSE parent
<1>1. e \in LinkEnd \/ e \in ManEnd
  BY DEF End
<1>2. CASE e \in LinkEnd
  <2>1. e.pipe = "link" /\ e.of \in Links /\ e.end \in {"read", "write"}
    BY <1>2 DEF LinkEnd
  <2>2. e \notin ManEnd
    BY <2>1 DEF ManEnd
  <2>3. User(e) = IF e.end = "read" THEN linkDest[e.of] ELSE linkSrc[e.of]
    BY <2>1 DEF User
  <2>4. linkDest[e.of] \in Nodes /\ linkSrc[e.of] \in Nodes
    BY <2>1, SetupAssumption
  <2> QED
    BY <2>2, <2>3, <2>4, NodeIds
<1>3. CASE e \in ManEnd
  <2>1. e.pipe \in {"toHost", "fromHost"} /\ e.of \in HostIds /\ e.end \in {"read", "write"}
    BY <1>3 DEF ManEnd
  <2>2. e \notin LinkEnd
    BY <2>1 DEF LinkEnd
  <2>3. User(e) = IF e.pipe = "toHost" <=> e.end = "read" THEN e.of ELSE parent
    BY <2>1 DEF User
  <2> QED
    BY <2>1, <2>2, <2>3, NodeIds
<1> QED
  BY <1>1, <1>2, <1>3

\* What is left open is what the process uses.
LEMMA HostKeepsOwn ==
  ASSUME NEW h \in HostIds
  PROVE  (End \ netCloseConnections(h)) \ netCloseNonincidentLinks(h) = Own(h)
<1> SUFFICES ASSUME NEW e \in End
             PROVE  e \notin netCloseConnections(h) /\ e \notin netCloseNonincidentLinks(h)
                      <=> User(e) = h
  BY DEF Own
<1>1. h # parent
  BY NodeIds
<1>2. CASE e \in LinkEnd
  <2>1. e.pipe = "link" /\ e.end \in {"read", "write"}
    BY <1>2 DEF LinkEnd
  <2>2. e \notin netCloseConnections(h)
    BY <2>1 DEF netCloseConnections, ManEnd
  <2> QED
    BY <1>2, <2>1, <2>2, UserOfEnd DEF netCloseNonincidentLinks
<1>3. CASE e \in ManEnd
  <2>1. e.pipe \in {"toHost", "fromHost"} /\ e.end \in {"read", "write"}
    BY <1>3 DEF ManEnd
  <2>2. e \notin netCloseNonincidentLinks(h)
    BY <2>1 DEF netCloseNonincidentLinks, LinkEnd
  <2> QED
    BY <1>1, <1>3, <2>1, <2>2, UserOfEnd DEF netCloseConnections
<1> QED
  BY <1>2, <1>3 DEF End

LEMMA SwitchKeepsOwn ==
  ASSUME NEW w \in Nodes \ HostIds
  PROVE  (End \ netCloseNonincidentLinks(w)) \ netCloseAllManConnections = Own(w)
<1> SUFFICES ASSUME NEW e \in End
             PROVE  e \notin netCloseNonincidentLinks(w) /\ e \notin ManEnd <=> User(e) = w
  BY DEF Own, netCloseAllManConnections
<1>1. w # parent /\ w \notin HostIds
  BY NodeIds
<1>2. CASE e \in LinkEnd
  <2>1. e.pipe = "link" /\ e.end \in {"read", "write"}
    BY <1>2 DEF LinkEnd
  <2>2. e \notin ManEnd
    BY <2>1 DEF ManEnd
  <2> QED
    BY <1>2, <2>1, <2>2, UserOfEnd DEF netCloseNonincidentLinks
<1>3. CASE e \in ManEnd
  <2>1. e.of \in HostIds
    BY <1>3 DEF ManEnd
  <2> QED
    BY <1>1, <1>3, <2>1, UserOfEnd
<1> QED
  BY <1>2, <1>3 DEF End

LEMMA ParentKeepsOwn == (End \ netCloseLinks) \ netCloseManConnections = Own(parent)
<1> SUFFICES ASSUME NEW e \in End
             PROVE  e \notin LinkEnd /\ e \notin netCloseManConnections <=> User(e) = parent
  BY DEF Own, netCloseLinks
<1>1. CASE e \in LinkEnd
  <2>1. e.of \in Links
    BY <1>1 DEF LinkEnd
  <2>2. linkSrc[e.of] # parent /\ linkDest[e.of] # parent
    BY <2>1, SetupAssumption, NodeIds
  <2> QED
    BY <1>1, <2>2, UserOfEnd
<1>2. CASE e \in ManEnd
  <2>1. e.pipe \in {"toHost", "fromHost"} /\ e.end \in {"read", "write"} /\ e.of \in HostIds
    BY <1>2 DEF ManEnd
  <2>2. e \notin LinkEnd /\ e.of # parent
    BY <2>1, NodeIds DEF LinkEnd
  <2> QED
    BY <1>2, <2>1, <2>2, UserOfEnd DEF netCloseManConnections
<1> QED
  BY <1>1, <1>2 DEF End

-----------------------------------------------------------------------------
LEMMA InitInv == Init => Inv
<1> SUFFICES ASSUME Init PROVE Inv
  OBVIOUS
<1> USE NodeIds DEF Init
<1>1. \A p \in Processes : pc[p] = IF p = parent THEN "fork" ELSE "none"
  OBVIOUS
<1>2. SetupTypeOK
  BY SetupAssumption DEF SetupTypeOK
<1>3. \A n \in Nodes : open[n] = NodeOpens(n)
  BY <1>1 DEF NodeOpens
<1>4. open[parent] = ParentOpens
  BY <1>1 DEF ParentOpens
<1>5. Progress
  BY <1>1, SetupAssumption DEF Progress, Nodes
<1> QED
  BY <1>2, <1>3, <1>4, <1>5 DEF Inv

LEMMA StutterInv == Inv /\ UNCHANGED setupVars => Inv'
BY DEF Inv, setupVars, SetupTypeOK, NodeOpens, ParentOpens, Progress, Own

\* A child starts with all that is open.
LEMMA ForkInv == Inv /\ Fork => Inv'
<1> SUFFICES ASSUME Inv, Fork PROVE Inv'
  OBVIOUS
<1> USE NodeIds
<1>1. physid \in Nodes /\ physid \in Processes /\ physid # parent
  BY SetupAssumption DEF Inv, SetupTypeOK, Fork, MoreNodes, Nodes, parent, Processes
<1>2. pc[parent] = "fork" /\ open[parent] = End
  BY DEF Fork, Inv, ParentOpens
<1>3. /\ pc' = [pc EXCEPT ![physid] = Start(physid)]
      /\ open' = [open EXCEPT ![physid] = End]
      /\ physid' = physid + 1 /\ busy' = busy
      /\ physid < numhosts + numswitches
  BY <1>2 DEF Fork, MoreNodes
<1>4. Start(physid) \in {"connections", "links"}
  BY DEF Start
<1>5. SetupTypeOK'
  BY <1>1, <1>3, <1>4, SetupAssumption DEF Inv, SetupTypeOK
<1>6. pc'[parent] = pc[parent] /\ open'[parent] = open[parent]
  BY <1>1, <1>3 DEF Inv, SetupTypeOK
<1>7. \A n \in Nodes \ {physid} : pc'[n] = pc[n] /\ open'[n] = open[n]
  BY <1>1, <1>3 DEF Inv, SetupTypeOK
<1>8. pc'[physid] = Start(physid) /\ open'[physid] = End
  BY <1>1, <1>3 DEF Inv, SetupTypeOK
<1>9. ASSUME NEW n \in Nodes PROVE open'[n] = NodeOpens(n)'
  <2>1. CASE n = physid
    BY <1>8, <2>1 DEF NodeOpens, Start
  <2>2. CASE n # physid
    BY <1>7, <2>2 DEF Inv, NodeOpens
  <2> QED
    BY <2>1, <2>2
<1>10. open'[parent] = ParentOpens'
  BY <1>6 DEF Inv, ParentOpens
<1>11. Progress'
  <2>1. \A n \in Nodes : n < physid' <=> n < physid \/ n = physid
    BY <1>1, <1>3 DEF Nodes
  <2>2. pc[physid] = "none"
    BY <1>1 DEF Inv, Progress, Nodes
  <2>3. \A n \in Nodes : n < physid' <=> pc'[n] # "none"
    BY <1>4, <1>7, <1>8, <2>1 DEF Inv, Progress
  <2>4. \A n \in Nodes : \A s \in {"crashed", "killed", "quit"} : pc'[n] = s <=> pc[n] = s
    BY <1>4, <1>7, <1>8, <2>2
  <2>5. \A n \in Nodes : pc'[n] = pc[n] \/ pc'[n] \in {"connections", "links"}
    BY <1>4, <1>7, <1>8
  <2> QED
    BY <1>2, <1>3, <1>6, <2>3, <2>4, <2>5 DEF Inv, Progress
<1> QED
  BY <1>5, <1>9, <1>10, <1>11 DEF Inv

LEMMA ParentInv == Inv /\ (ForkFails \/ ForksDone \/ ParentCloses) => Inv'
<1> SUFFICES ASSUME Inv, ForkFails \/ ForksDone \/ ParentCloses PROVE Inv'
  OBVIOUS
<1> USE NodeIds
<1>0. ~MoreNodes => physid = numhosts + numswitches
  BY SetupAssumption DEF Inv, SetupTypeOK, MoreNodes
<1>1. /\ UNCHANGED << physid, busy >>
      /\ \/ /\ pc[parent] = "fork" /\ physid < numhosts + numswitches
            /\ pc' = [pc EXCEPT ![parent] = "failed"]
            /\ open' = [open EXCEPT ![parent] = {}]
         \/ /\ pc[parent] = "fork" /\ physid = numhosts + numswitches
            /\ pc' = [pc EXCEPT ![parent] = "links"]
            /\ open' = open
         \/ /\ pc[parent] = "links"
            /\ pc' = [pc EXCEPT ![parent] = "connections"]
            /\ open' = [open EXCEPT ![parent] = @ \ netCloseLinks]
         \/ /\ pc[parent] = "connections"
            /\ pc' = [pc EXCEPT ![parent] = "loop"]
            /\ open' = [open EXCEPT ![parent] = @ \ netCloseManConnections]
  <2>1. CASE ForkFails
    BY <2>1 DEF ForkFails, MoreNodes
  <2>2. CASE ForksDone
    BY <1>0, <2>2 DEF ForksDone
  <2>3. CASE ParentCloses
    BY <2>3 DEF ParentCloses, Closes
  <2> QED  BY <2>1, <2>2, <2>3
<1>2. SetupTypeOK'
  BY <1>1 DEF Inv, SetupTypeOK
<1>3. \A n \in Nodes : pc'[n] = pc[n] /\ open'[n] = open[n]
  BY <1>1 DEF Inv, SetupTypeOK
<1>4. \A n \in Nodes : open'[n] = NodeOpens(n)'
  BY <1>3 DEF Inv, NodeOpens
<1>5. open'[parent] = ParentOpens'
  <2>1. DOMAIN open = Processes /\ DOMAIN pc = Processes
    BY DEF Inv, SetupTypeOK
  <2>2. open[parent] = ParentOpens
    BY DEF Inv
  <2> QED
    BY <1>1, <2>1, <2>2, ParentKeepsOwn DEF ParentOpens, Own
<1>6. Progress'
  BY <1>1, <1>3 DEF Inv, Progress, SetupTypeOK
<1> QED
  BY <1>2, <1>4, <1>5, <1>6 DEF Inv

LEMMA NodeClosesInv == ASSUME NEW n \in Nodes PROVE Inv /\ NodeCloses(n) => Inv'
<1> SUFFICES ASSUME Inv, NodeCloses(n) PROVE Inv'
  OBVIOUS
<1> USE NodeIds
<1>1. PICK E, to :
        /\ pc' = [pc EXCEPT ![n] = to]
        /\ open' = [open EXCEPT ![n] = @ \ E]
        /\ UNCHANGED << physid, busy >>
        /\ IF n < numhosts
           THEN \/ pc[n] = "connections" /\ E = netCloseConnections(n) /\ to = "links"
                \/ pc[n] = "links" /\ E = netCloseNonincidentLinks(n) /\ to = "loop"
           ELSE \/ pc[n] = "links" /\ E = netCloseNonincidentLinks(n) /\ to = "connections"
                \/ pc[n] = "connections" /\ E = netCloseAllManConnections /\ to = "loop"
  BY DEF NodeCloses, HostCloses, SwitchCloses, Closes
<1>2. to \in {"connections", "links", "loop"} /\ pc[n] \in {"connections", "links"}
  BY <1>1
<1>3. SetupTypeOK'
  BY <1>1, <1>2 DEF Inv, SetupTypeOK
<1>4. /\ \A k \in Nodes \ {n} : pc'[k] = pc[k] /\ open'[k] = open[k]
      /\ pc'[parent] = pc[parent] /\ open'[parent] = open[parent]
      /\ pc'[n] = to /\ open'[n] = open[n] \ E
  BY <1>1 DEF Inv, SetupTypeOK
<1>5. ASSUME NEW k \in Nodes PROVE open'[k] = NodeOpens(k)'
  <2>1. CASE k # n
    BY <1>4, <2>1 DEF Inv, NodeOpens
  <2>2. open[n] = NodeOpens(n)
    BY DEF Inv
  <2>3. CASE k = n /\ n < numhosts
    BY <1>1, <1>4, <2>2, <2>3, HostKeepsOwn DEF NodeOpens, Own
  <2>4. CASE k = n /\ ~(n < numhosts)
    <3>1. n \in Nodes \ HostIds
      BY <2>4
    <3>2. (End \ netCloseNonincidentLinks(n)) \ netCloseAllManConnections = Own(n)
      BY <3>1, SwitchKeepsOwn
    <3>3. CASE pc[n] = "links"
      BY <1>1, <1>4, <2>2, <2>4, <3>3 DEF NodeOpens
    <3>4. CASE pc[n] = "connections"
      BY <1>1, <1>4, <2>2, <2>4, <3>2, <3>4 DEF NodeOpens, Own
    <3> QED
      BY <1>2, <3>3, <3>4
  <2> QED
    BY <2>1, <2>3, <2>4
<1>6. open'[parent] = ParentOpens'
  BY <1>4 DEF Inv, ParentOpens
<1>7. Progress'
  BY <1>1, <1>2, <1>4 DEF Inv, Progress
<1> QED
  BY <1>3, <1>5, <1>6, <1>7 DEF Inv

\* A node's main loop ends; one that is killed is not the first.
LEMMA EndsInv ==
  ASSUME NEW n \in Nodes, NEW how \in {"crashed", "killed"},
         Inv, pc[n] = "loop", Ends(n, how),
         how = "crashed" => n \in HostIds,
         how = "killed" => \E h \in HostIds : pc[h] = "crashed"
  PROVE  Inv'
<1> USE NodeIds
<1>1. SetupTypeOK'
  BY DEF Ends, Inv, SetupTypeOK
<1>2. /\ \A k \in Nodes \ {n} : pc'[k] = pc[k] /\ open'[k] = open[k]
      /\ pc'[parent] = pc[parent] /\ open'[parent] = open[parent]
      /\ pc'[n] = how /\ open'[n] = {}
      /\ UNCHANGED << physid, busy >>
  BY DEF Ends, Inv, SetupTypeOK
<1>3. ASSUME NEW k \in Nodes PROVE open'[k] = NodeOpens(k)'
  <2>1. CASE k # n
    BY <1>2, <2>1 DEF Inv, NodeOpens
  <2>2. CASE k = n
    BY <1>2, <2>2 DEF NodeOpens
  <2> QED
    BY <2>1, <2>2
<1>4. open'[parent] = ParentOpens'
  BY <1>2 DEF Inv, ParentOpens
<1>5. Progress'
  <2>1. \E h \in HostIds : pc'[h] = "crashed"
    BY <1>2
  <2>2. \A k \in Nodes : pc'[k] = pc[k] \/ (k = n /\ pc'[k] = how)
    BY <1>2
  <2>3. pc[parent] # "quit"
    BY DEF Inv, Progress
  <2> QED
    BY <1>2, <2>1, <2>2, <2>3 DEF Inv, Progress
<1> QED
  BY <1>1, <1>3, <1>4, <1>5 DEF Inv

\* There is nothing to send before the manager is in its loop.
LEMMA BusyThenManaged ==
  ASSUME Inv, NEW n \in busy, pc[n] = "loop"
  PROVE  n \in Nodes /\ pc[parent] = "loop"
BY DEF Inv, SetupTypeOK, Progress

\* Once the manager is in its loop, a pipe has no reader only if the reader has
\* ended.
LEMMA LinkHasReader ==
  ASSUME Inv, pc[parent] = "loop", NEW l \in Links, Readerless("link", l)
  PROVE  pc[linkDest[l]] \in {"crashed", "killed"}
<1> USE NodeIds
<1> DEFINE n == linkDest[l]
           e == [pipe |-> "link", of |-> l, end |-> "read"]
<1>1. n \in Nodes
  BY SetupAssumption
<1>2. e \in LinkEnd /\ e \in End /\ User(e) = n
  BY DEF LinkEnd, End, User
<1>3. e \notin NodeOpens(n)
  BY <1>1 DEF Readerless, Inv
<1>4. e \notin netCloseNonincidentLinks(n) /\ e \notin netCloseConnections(n)
  BY DEF netCloseNonincidentLinks, netCloseConnections, ManEnd
<1>5. pc[n] \notin {"connections", "links", "loop"}
  BY <1>2, <1>3, <1>4 DEF NodeOpens, Own
<1>6. pc[n] \notin {"none", "quit"}
  BY <1>1 DEF Inv, Progress
<1> QED
  BY <1>1, <1>5, <1>6 DEF Inv, Progress

LEMMA ToHostHasReader ==
  ASSUME Inv, pc[parent] = "loop", NEW h \in HostIds, \A k \in HostIds : pc[k] # "crashed"
  PROVE  ~Readerless("toHost", h)
<1> USE NodeIds
<1> DEFINE e == [pipe |-> "toHost", of |-> h, end |-> "read"]
<1>1. e \in ManEnd /\ e \in End /\ User(e) = h
  BY DEF ManEnd, End, User
<1>2. e \notin netCloseNonincidentLinks(h) /\ e \notin netCloseConnections(h)
  BY DEF netCloseNonincidentLinks, netCloseConnections, LinkEnd
<1>3. pc[h] \in {"connections", "links", "loop"}
  BY DEF Inv, Progress
<1>4. e \in NodeOpens(h)
  BY <1>1, <1>2, <1>3 DEF NodeOpens, Own
<1> QED
  BY <1>4 DEF Readerless, Inv

LEMMA FromHostHasReader ==
  ASSUME Inv, pc[parent] = "loop", NEW h \in HostIds
  PROVE  ~Readerless("fromHost", h)
<1> USE NodeIds
<1> DEFINE e == [pipe |-> "fromHost", of |-> h, end |-> "read"]
<1>1. e \in End /\ User(e) = parent
  BY DEF ManEnd, End, User
<1>2. e \in ParentOpens
  BY <1>1 DEF ParentOpens, Own
<1> QED
  BY <1>2 DEF Readerless, Inv

\* A write that reaches its reader opens, closes and ends nothing.
LEMMA ReachesInv ==
  ASSUME Inv, pc[parent] = "loop", NEW q, busy' = busy \cup ({q} \cap Nodes),
         UNCHANGED << open, pc, physid >>
  PROVE  Inv'
<1> USE NodeIds
<1>1. \A n \in Nodes : NodeOpens(n)' = NodeOpens(n)
  BY DEF NodeOpens, Own
<1>2. ParentOpens' = ParentOpens
  BY DEF ParentOpens, Own
<1> QED
  BY <1>1, <1>2 DEF Inv, SetupTypeOK, Progress

LEMMA LoopInv ==
  ASSUME NEW h \in HostIds
  PROVE  Inv /\ (ManagerWrites(h) \/ HostReplies(h) \/ HostCrashes(h)) => Inv'
<1> SUFFICES ASSUME Inv, ManagerWrites(h) \/ HostReplies(h) \/ HostCrashes(h) PROVE Inv'
  OBVIOUS
<1>1. CASE ManagerWrites(h)
  <2>1. pc[parent] = "loop"
    BY <1>1 DEF ManagerWrites, Writes
  <2>2. ~Readerless("toHost", h)
    BY <1>1, <2>1, ToHostHasReader DEF ManagerWrites
  <2> QED
    BY <1>1, <2>1, <2>2, ReachesInv DEF ManagerWrites, Writes
<1>2. CASE HostReplies(h)
  <2>1. pc[parent] = "loop"
    BY <1>2, BusyThenManaged DEF HostReplies, Writes
  <2>2. ~Readerless("fromHost", h)
    BY <2>1, FromHostHasReader
  <2> QED
    BY <1>2, <2>1, <2>2, ReachesInv DEF HostReplies, Writes
<1>3. CASE HostCrashes(h)
  BY <1>3, EndsInv, NodeIds DEF HostCrashes
<1> QED
  BY <1>1, <1>2, <1>3

\* A node that is killed was writing to one that had ended.
LEMMA KilledSender ==
  ASSUME NEW l \in Links, Inv, NodeSends(l), Readerless("link", l)
  PROVE  /\ linkSrc[l] \in Nodes /\ pc[linkSrc[l]] = "loop" /\ Ends(linkSrc[l], "killed")
         /\ pc[linkDest[l]] \in {"crashed", "killed"}
         /\ \E h \in HostIds : pc[h] = "crashed"
<1>1. pc[linkSrc[l]] = "loop" /\ Ends(linkSrc[l], "killed") /\ linkSrc[l] \in busy
  BY DEF NodeSends, Writes
<1>2. linkSrc[l] \in Nodes /\ pc[parent] = "loop"
  BY <1>1, BusyThenManaged
<1>3. pc[linkDest[l]] \in {"crashed", "killed"} /\ linkDest[l] \in Nodes
  BY <1>2, LinkHasReader, SetupAssumption
<1>4. \E h \in HostIds : pc[h] = "crashed"
  BY <1>3 DEF Inv, Progress
<1> QED
  BY <1>1, <1>2, <1>3, <1>4

LEMMA NodeSendsInv == ASSUME NEW l \in Links PROVE Inv /\ NodeSends(l) => Inv'
<1> SUFFICES ASSUME Inv, NodeSends(l) PROVE Inv'
  OBVIOUS
<1>1. CASE Readerless("link", l)
  BY <1>1, KilledSender, EndsInv
<1>2. CASE ~Readerless("link", l)
  <2>1. pc[parent] = "loop"
    BY BusyThenManaged DEF NodeSends, Writes
  <2> QED
    BY <1>2, <2>1, ReachesInv DEF NodeSends, Writes
<1> QED
  BY <1>1, <1>2

LEMMA QuitInv == Inv /\ Quit => Inv'
<1> SUFFICES ASSUME Inv, Quit PROVE Inv'
  OBVIOUS
<1> USE NodeIds
<1>1. \A p \in Processes : pc'[p] = "quit" /\ open'[p] = {}
  BY DEF Quit
<1>2. SetupTypeOK'
  BY DEF Quit, Inv, SetupTypeOK
<1>3. \A n \in Nodes : open'[n] = NodeOpens(n)'
  BY <1>1 DEF NodeOpens
<1>4. open'[parent] = ParentOpens'
  BY <1>1 DEF ParentOpens
<1>5. Progress'
  <2>1. physid' = numhosts + numswitches
    BY DEF Quit, Inv, Progress
  <2> QED
    BY <1>1, <2>1 DEF Progress
<1> QED
  BY <1>2, <1>3, <1>4, <1>5 DEF Inv

LEMMA NextInv == Inv /\ [Next]_setupVars => Inv'
<1> SUFFICES ASSUME Inv, [Next]_setupVars PROVE Inv'
  OBVIOUS
<1>1. CASE Fork
  BY <1>1, ForkInv
<1>2. CASE ForkFails \/ ForksDone \/ ParentCloses
  BY <1>2, ParentInv
<1>3. ASSUME NEW n \in Nodes, NodeCloses(n) PROVE Inv'
  BY <1>3, NodeClosesInv
<1>4. ASSUME NEW h \in HostIds, ManagerWrites(h) \/ HostReplies(h) \/ HostCrashes(h)
      PROVE  Inv'
  BY <1>4, LoopInv
<1>5. ASSUME NEW l \in Links, NodeSends(l) PROVE Inv'
  BY <1>5, NodeSendsInv
<1>6. CASE Quit
  BY <1>6, QuitInv
<1>7. CASE UNCHANGED setupVars
  BY <1>7, StutterInv
<1> QED
  BY <1>1, <1>2, <1>3, <1>4, <1>5, <1>6, <1>7 DEF Next

LEMMA InvAlways == Spec => []Inv
BY InitInv, NextInv, PTL DEF Spec

-----------------------------------------------------------------------------
\* net.c:51-135: every variable keeps its type, whichever processes fail or die:
\* no process closes or uses an end that is not one of the network's.
THEOREM SetupTypeCorrect == Spec => []SetupTypeOK
<1>1. Inv => SetupTypeOK
  BY DEF Inv
<1> QED  BY <1>1, InvAlways, PTL

\* net.c:108-127, 216-257: when all are in their main loops, every end of a pipe
\* is open in the process that uses it, unless it has ended, and in no other.
THEOREM EndsAreInPlace == Spec => []EndsInPlace
<1>1. Inv => EndsInPlace
  <2> SUFFICES ASSUME Inv, SetUp, NEW e \in End, NEW p \in Processes
               PROVE  e \in open[p] <=> p = User(e) /\ ~Ended(p)
    BY DEF EndsInPlace
  <2>1. open[p] = IF pc[p] = "loop" THEN Own(p) ELSE {}
    <3>1. pc[p] = "loop" \/ Ended(p)
      BY DEF SetUp
    <3>2. CASE p = parent
      BY <3>1, <3>2 DEF Inv, ParentOpens, Ended
    <3>3. CASE p \in Nodes
      BY <3>1, <3>3 DEF Inv, NodeOpens, Ended
    <3> QED
      BY <3>2, <3>3, NodeIds
  <2>2. pc[p] = "loop" <=> ~Ended(p)
    BY DEF SetUp, Ended
  <2> QED
    BY <2>1, <2>2 DEF Own
<1> QED
  BY <1>1, InvAlways, PTL

\* net.c:216, link.c:238: however forks and main loops overlap, and even if a
\* fork fails, a write kills a process only if its reader had ended before.
THEOREM OnlyTheDeadKill == Spec => KilledByTheDead
<1> DEFINE Kills(n) == pc[n] # "killed" /\ pc'[n] = "killed"
<1>1. ASSUME Inv, [Next]_setupVars, NEW n \in Processes, Kills(n)
      PROVE  \E l \in Links :
               linkSrc[l] = n /\ pc[linkDest[l]] \in {"crashed", "killed"}
  <2>0. DOMAIN pc = Processes
    BY <1>1 DEF Inv, SetupTypeOK
  <2>1. ASSUME NEW l \in Links, NodeSends(l) PROVE linkSrc[l] = n /\ Readerless("link", l)
    <3>1. CASE Readerless("link", l)
      BY <1>1, <2>0, <2>1, <3>1 DEF NodeSends, Writes, Ends
    <3>2. CASE ~Readerless("link", l)
      BY <1>1, <2>1, <3>2 DEF NodeSends, Writes
    <3> QED
      BY <3>1, <3>2
  <2>2. ASSUME NEW l \in Links, NodeSends(l)
        PROVE  linkSrc[l] = n /\ pc[linkDest[l]] \in {"crashed", "killed"}
    BY <1>1, <2>1, <2>2, KilledSender
  <2>3. ASSUME NEW h \in HostIds, ManagerWrites(h) PROVE FALSE
    <3>1. ~Readerless("toHost", h)
      BY <1>1, <2>3, ToHostHasReader DEF ManagerWrites, Writes
    <3> QED
      BY <1>1, <2>3, <3>1 DEF ManagerWrites, Writes
  <2>4. ASSUME NEW h \in HostIds, HostReplies(h) PROVE FALSE
    <3>1. pc[parent] = "loop"
      BY <1>1, <2>4, BusyThenManaged DEF HostReplies, Writes
    <3>2. ~Readerless("fromHost", h)
      BY <1>1, <3>1, FromHostHasReader
    <3> QED
      BY <1>1, <2>4, <3>2 DEF HostReplies, Writes
  <2>5. ASSUME NEW h \in HostIds, HostCrashes(h) PROVE FALSE
    BY <1>1, <2>0, <2>5 DEF HostCrashes, Ends
  <2>6. ~Quit
    BY <1>1 DEF Quit
  <2>7. ~(Fork \/ ForkFails \/ ForksDone \/ ParentCloses)
    BY <1>1, <2>0 DEF Fork, ForkFails, ForksDone, ParentCloses, Closes, Start
  <2>8. ASSUME NEW k \in Nodes, NodeCloses(k) PROVE FALSE
    BY <1>1, <2>0, <2>8 DEF NodeCloses, HostCloses, SwitchCloses, Closes
  <2>9. ~UNCHANGED setupVars
    BY <1>1 DEF setupVars
  <2> QED
    BY <1>1, <2>2, <2>3, <2>4, <2>5, <2>6, <2>7, <2>8, <2>9 DEF Next
<1>2. Inv /\ [Next]_setupVars
        => [\A n \in Processes : pc[n] # "killed" /\ pc'[n] = "killed" =>
              \E l \in Links : linkSrc[l] = n
                /\ pc[linkDest[l]] \in {"crashed", "killed"}]_setupVars
  BY <1>1
<1> QED
  BY <1>2, InvAlways, PTL DEF Spec, KilledByTheDead
=============================================================================
