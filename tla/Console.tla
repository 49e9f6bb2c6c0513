------------------------------ MODULE Console ------------------------------
(***************************************************************************)
(* The manager and the hosts, which links join in pairs without a switch,  *)
(* as in the README: commands and replies, uploads, transmissions and      *)
(* downloads, until the user quits.                                        *)
(*                                                                         *)
(* A definition named X_Slip stands next to a definition X and is what a   *)
(* slip in the code would make of it; nothing uses it.                     *)
(***************************************************************************)
EXTENDS Host, Manager

vars == << pipe, toHost, fromHost, hostVars, managerVars >>

Init ==
  /\ pipe = [l \in Links |-> << >>]
  /\ ConnectionsInit
  /\ HostInit
  /\ ManagerInit

\* kill(0, SIGKILL) reaches the whole process group.
Quit ==
  /\ managerQuit
  /\ hostPc' = [h \in Hosts |-> "dead"]
  /\ UNCHANGED << pipe, netaddr, mainDir, sendPacketBuff, rcvPacketBuff, new,
                  replyMsg, leaked, files >>

\* The end of the file, which a read finds once a host has died, is taken for a
\* reply.
ManagerStep_EndOfFile ==
  /\ \/ \E c \in Menu[currhost] : manCommandSend(c)
     \/ \E h \in Hosts : manChangeHost(h)
     \/ manWaitForReply
     \/ /\ manPc = "wait" /\ hostPc[currhost] = "dead"
        /\ manPc' = "prompt"
        /\ UNCHANGED << currhost, cmd, toHost, fromHost >>
  /\ UNCHANGED << hostVars, pipe >>

ManagerStep ==
  /\ \/ \E c \in Menu[currhost] : manCommandSend(c)
     \/ \E h \in Hosts : manChangeHost(h)
     \/ manWaitForReply
  /\ UNCHANGED << hostVars, pipe >>

Next ==
  \/ \E h \in Hosts : HostStep(h) /\ UNCHANGED managerVars
  \/ ManagerStep
  \/ Quit

Spec == Init /\ [][Next]_vars

-----------------------------------------------------------------------------
(* Invariants *)

\* Every variable has its type; no host opens more files than it can.
TypeOK ==
  /\ pipe \in [Links -> Seq(Cell)]
  /\ toHost \in [Hosts -> Seq(Command)]
  /\ fromHost \in [Hosts -> Seq(Reply)]
  /\ HostTypeOK
  /\ currhost \in Hosts
  /\ manPc \in {"prompt", "wait", "quit"}
  /\ cmd \in Command \cup {NoArg}

\* No command is on its way to host h, and no reply on its way back.
Silent(h) == toHost[h] = << >> /\ fromHost[h] = << >> /\ hostPc[h] # "reply"

\* The last command given is in one place: on its way, being answered, or
\* answered; or the host stopped over it.
Pending(h) ==
  \/ toHost[h] = << cmd >> /\ fromHost[h] = << >> /\ hostPc[h] # "reply"
  \/ toHost[h] = << >> /\ fromHost[h] = << >> /\ hostPc[h] = "reply"
       /\ replyMsg[h].to = cmd.name
  \/ toHost[h] = << >> /\ hostPc[h] # "reply"
       /\ Len(fromHost[h]) = 1 /\ fromHost[h][1].to = cmd.name
  \/ Silent(h) /\ hostPc[h] = "dead"

\* man.c:107-147: commands and replies take turns.  A reply is never taken for
\* the reply to another command, no command waits while the user is at the
\* prompt, and hosts the manager is not connected to have nothing to do.
Conversation ==
  \A h \in Hosts :
    IF manPc = "wait" /\ h = currhost THEN Pending(h) ELSE Silent(h)

\* The files that downloads can make: what there was at the start, a copy of what
\* the memory of a send buffer happened to hold, and the empty file.
ThatOf(p) == [length |-> p.length, payload |-> p.payload]
Copies ==
  { Disk[y] : y \in RealDirs \X Names } \cup { ThatOf(p) : p \in { q \in FreshSend : Sendable(q) } }
    \cup {Empty}

\* host.c:338-437: a file is one there was, of that length and with those contents,
\* whatever was uploaded over what, joined in a pipe or replaced in a buffer; except
\* that a transmission before an upload sends what the buffer held (host.c:126), and
\* a second download of a packet empties the file (host.c:429).
FilesAreCopies == \A x \in RealDirs \X Names : files[x] \in Copies

-----------------------------------------------------------------------------
(* Action and liveness properties *)

\* What the user sets, and nobody else does.
Settings(h) == << netaddr[h], mainDir[h], sendPacketBuff[h] >>

\* man.c:101, host.c:190: a host changes its settings only while the user is
\* connected to it and waiting.
InForeground ==
  [][\A h \in Hosts :
       Settings(h)' # Settings(h) => manPc = "wait" /\ currhost = h]_vars

\* host.c:97: a host replies to each command, unless the command stops it.
AnsweredOrDead ==
  manPc = "wait" ~> manPc = "prompt" \/ hostPc[currhost] = "dead"

\* src/README:44-50: "Before downloading it checks if doesn't already have a new
\* packet in its receive packet buffer.  If there's still a new packet then the
\* incoming packet is lost": a new packet is never replaced.
NewPacketKept ==
  [][\A h \in Hosts :
       new[h] = 1 /\ new'[h] = 1 => rcvPacketBuff'[h] = rcvPacketBuff[h]]_vars
=============================================================================
