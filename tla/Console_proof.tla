---------------------------- MODULE Console_proof ----------------------------
(***************************************************************************)
(* The dialogue of the manager with the hosts, proved for any number of    *)
(* hosts, any commands and whatever comes in on the links.                 *)
(***************************************************************************)
EXTENDS Console, Link_proof

\* The types the dialogue needs, and the dialogue itself.
Inv ==
  /\ toHost \in [Hosts -> Seq(Command)]
  /\ fromHost \in [Hosts -> Seq(Reply)]
  /\ hostPc \in [Hosts -> {"command", "reply", "receive", "dead", "corrupt"}]
  /\ replyMsg \in [Hosts -> Reply]
  /\ currhost \in Hosts
  /\ Conversation

-----------------------------------------------------------------------------
\* The initial states satisfy the invariant.
LEMMA InitInv == Init => Inv
<1> SUFFICES ASSUME Init  PROVE Inv
  OBVIOUS
<1> USE DEF Init, ConnectionsInit, HostInit, ManagerInit
<1>1. [to |-> "GetHostState", done |-> FALSE] \in Reply
  <2> DEFINE c == [name |-> "GetHostState", arg |-> NoArg]
  <2>1. c \in Command /\ c.name = "GetHostState"
    BY DEF Command
  <2> HIDE DEF c
  <2> QED  BY <2>1 DEF Reply
<1>2. currhost \in Hosts
  BY ManagerLinkAssumption
<1>3. Conversation
  BY DEF Conversation, Silent
<1> QED  BY <1>1, <1>2, <1>3 DEF Inv

\* Executing a command ends in an answer to it, or in the host's death.
LEMMA ExecuteAnswers ==
  ASSUME NEW h \in Hosts, NEW c \in Command, HostExecute(h, c)
  PROVE  \/ \E done \in BOOLEAN : Answer(h, c.name, done)
         \/ hostPc' = [hostPc EXCEPT ![h] = "dead"] /\ replyMsg' = replyMsg
<1>1. CASE c.name = "SetNetAddr" /\ hostSetNetAddr(h, c.arg)
  BY <1>1 DEF hostSetNetAddr
<1>2. CASE c.name = "SetMainDir" /\ hostSetMainDir(h, c.arg)
  BY <1>2 DEF hostSetMainDir
<1>3. CASE c.name = "ClearRcvFlg" /\ hostClearRcvFlg(h)
  BY <1>3 DEF hostClearRcvFlg
<1>4. CASE c.name = "UploadPacket" /\ hostUploadPacket(h, c.arg)
  BY <1>4 DEF hostUploadPacket, hostUploadAborted, hostUploadDone
<1>5. CASE c.name = "DownloadPacket" /\ hostDownloadPacket(h, c.arg)
  BY <1>5 DEF hostDownloadPacket, hostDownloadAborted, hostDownloadCrash,
              hostDownloadDone
<1>6. CASE c.name = "TransmitPacket" /\ hostTransmitPacket(h, c.arg)
  BY <1>6 DEF hostTransmitPacket
<1>7. CASE c.name = "GetHostState" /\ hostGetHostState(h)
  BY <1>7 DEF hostGetHostState
<1> QED  BY <1>1, <1>2, <1>3, <1>4, <1>5, <1>6, <1>7 DEF HostExecute

\* An answer is well typed.
LEMMA AnswerType ==
  ASSUME NEW c \in Command, NEW done \in BOOLEAN
  PROVE  [to |-> c.name, done |-> done] \in Reply
  BY DEF Reply

\* A host that is reading a command is the one the manager waits for, and the
\* command is the last one given.
LEMMA CommandIsPending ==
  ASSUME Inv, NEW h \in Hosts, toHost[h] # << >>
  PROVE  /\ manPc = "wait" /\ h = currhost
         /\ toHost[h] = << cmd >> /\ fromHost[h] = << >> /\ hostPc[h] # "reply"
  BY DEF Inv, Conversation, Silent, Pending

-----------------------------------------------------------------------------
(* One lemma for every action. *)

\* Reading a command.
LEMMA HostCommandInv ==
  ASSUME Inv, NEW h \in Hosts, HostCommand(h), UNCHANGED managerVars
  PROVE  Inv'
<1>1. /\ manPc = "wait" /\ h = currhost
      /\ toHost[h] = << cmd >> /\ fromHost[h] = << >>
  BY CommandIsPending DEF HostCommand
<1>2. cmd \in Command /\ Head(toHost[h]) = cmd
  <2>1. toHost[h] \in Seq(Command)
    BY DEF Inv
  <2> QED  BY <1>1, <2>1, HeadTailProperties
<1>3. /\ toHost' = [toHost EXCEPT ![h] = << >>] /\ fromHost' = fromHost
      /\ HostExecute(h, cmd)
      /\ currhost' = currhost /\ manPc' = manPc /\ cmd' = cmd
  BY <1>2 DEF HostCommand, managerVars
<1>4. toHost' \in [Hosts -> Seq(Command)] /\ toHost'[h] = << >>
  BY <1>3 DEF Inv
<1>5. ASSUME NEW w \in Hosts, w # h,
             hostPc'[w] = hostPc[w]
      PROVE  Silent(w)'
  BY <1>1, <1>3, <1>5 DEF Inv, Conversation, Silent
<1>6. CASE \E done \in BOOLEAN : Answer(h, cmd.name, done)
  <2>1. PICK done \in BOOLEAN : Answer(h, cmd.name, done)
    BY <1>6
  <2>2. /\ hostPc' \in [Hosts -> {"command", "reply", "receive", "dead", "corrupt"}]
        /\ hostPc'[h] = "reply"
        /\ \A w \in Hosts : w # h => hostPc'[w] = hostPc[w]
    BY <2>1 DEF Answer, Inv
  <2>3. replyMsg' \in [Hosts -> Reply] /\ replyMsg'[h].to = cmd.name
    BY <1>2, <2>1, AnswerType DEF Answer, Inv
  <2>4. Pending(h)'
    BY <1>1, <1>3, <1>4, <2>2, <2>3 DEF Pending
  <2>5. Conversation'
    BY <1>1, <1>3, <1>5, <2>2, <2>4 DEF Conversation
  <2> QED  BY <1>3, <1>4, <2>2, <2>3, <2>5 DEF Inv
<1>7. CASE hostPc' = [hostPc EXCEPT ![h] = "dead"] /\ replyMsg' = replyMsg
  <2>1. /\ hostPc' \in [Hosts -> {"command", "reply", "receive", "dead", "corrupt"}]
        /\ hostPc'[h] = "dead"
        /\ \A w \in Hosts : w # h => hostPc'[w] = hostPc[w]
    BY <1>7 DEF Inv
  <2>2. Pending(h)'
    BY <1>1, <1>3, <1>4, <2>1 DEF Pending, Silent
  <2>3. Conversation'
    BY <1>1, <1>3, <1>5, <2>1, <2>2 DEF Conversation
  <2> QED  BY <1>3, <1>4, <1>7, <2>1, <2>3 DEF Inv
<1> QED  BY <1>2, <1>3, <1>6, <1>7, ExecuteAnswers

\* Going round the loop without a command, or reading the link.
LEMMA HostLoopInv ==
  ASSUME Inv, NEW h \in Hosts, HostNoCommand(h) \/ HostReceive(h),
         UNCHANGED managerVars
  PROVE  Inv'
<1>1. /\ hostPc[h] \in {"command", "receive"}
      /\ toHost' = toHost /\ fromHost' = fromHost /\ replyMsg' = replyMsg
      /\ currhost' = currhost /\ manPc' = manPc /\ cmd' = cmd
      /\ \E s \in {"command", "receive", "corrupt"} :
           hostPc' = [hostPc EXCEPT ![h] = s]
  BY DEF HostNoCommand, HostReceive, HostStore, HostFilled, managerVars
<1>2. /\ hostPc' \in [Hosts -> {"command", "reply", "receive", "dead", "corrupt"}]
      /\ hostPc'[h] \notin {"reply", "dead"}
      /\ \A w \in Hosts : w # h => hostPc'[w] = hostPc[w]
  BY <1>1 DEF Inv
<1>3. ASSUME NEW w \in Hosts
      PROVE  /\ Silent(w) => Silent(w)'
             /\ Pending(w) => Pending(w)'
  BY <1>1, <1>2 DEF Silent, Pending
<1>4. Conversation'
  BY <1>1, <1>3 DEF Inv, Conversation
<1> QED  BY <1>1, <1>2, <1>4 DEF Inv

\* Sending the reply.
LEMMA HostReplyInv ==
  ASSUME Inv, NEW h \in Hosts, hostReplySend(h), UNCHANGED managerVars
  PROVE  Inv'
<1>1. /\ hostPc[h] = "reply"
      /\ toHost' = toHost /\ replyMsg' = replyMsg
      /\ fromHost' = [fromHost EXCEPT ![h] = Append(fromHost[h], replyMsg[h])]
      /\ hostPc' = [hostPc EXCEPT ![h] = "receive"]
      /\ currhost' = currhost /\ manPc' = manPc /\ cmd' = cmd
  BY DEF hostReplySend, managerVars
<1>2. /\ manPc = "wait" /\ h = currhost /\ toHost[h] = << >>
      /\ fromHost[h] = << >> /\ replyMsg[h].to = cmd.name
  BY <1>1 DEF Inv, Conversation, Silent, Pending
<1>3. /\ fromHost[h] \in Seq(Reply) /\ replyMsg[h] \in Reply
      /\ Append(fromHost[h], replyMsg[h]) = << replyMsg[h] >>
  BY <1>2 DEF Inv
<1>4. /\ fromHost' \in [Hosts -> Seq(Reply)] /\ fromHost'[h] = << replyMsg[h] >>
      /\ \A w \in Hosts : w # h => fromHost'[w] = fromHost[w]
  BY <1>1, <1>3 DEF Inv
<1>5. /\ hostPc' \in [Hosts -> {"command", "reply", "receive", "dead", "corrupt"}]
      /\ hostPc'[h] = "receive"
      /\ \A w \in Hosts : w # h => hostPc'[w] = hostPc[w]
  BY <1>1 DEF Inv
<1>6. Pending(h)'
  BY <1>1, <1>2, <1>4, <1>5 DEF Pending
<1>7. ASSUME NEW w \in Hosts, w # h
      PROVE  Silent(w)'
  BY <1>1, <1>2, <1>4, <1>5, <1>7 DEF Inv, Conversation, Silent
<1>8. Conversation'
  BY <1>1, <1>2, <1>6, <1>7 DEF Conversation
<1> QED  BY <1>1, <1>4, <1>5, <1>8 DEF Inv

\* Giving a command.
LEMMA CommandSendInv ==
  ASSUME Inv, NEW c \in Menu[currhost], manCommandSend(c), UNCHANGED hostVars
  PROVE  Inv'
<1>1. /\ manPc = "prompt" /\ manPc' = "wait" /\ cmd' = c
      /\ toHost' = [toHost EXCEPT ![currhost] = Append(toHost[currhost], c)]
      /\ currhost' = currhost /\ fromHost' = fromHost
      /\ hostPc' = hostPc /\ replyMsg' = replyMsg
  BY DEF manCommandSend, hostVars
<1>2. c \in Command /\ currhost \in Hosts
  BY MenuAssumption DEF Inv
<1>3. \A w \in Hosts : Silent(w)
  BY <1>1 DEF Inv, Conversation
<1>4. /\ toHost[currhost] \in Seq(Command)
      /\ Append(toHost[currhost], c) = << c >>
  <2>1. toHost[currhost] = << >>
    BY <1>2, <1>3 DEF Silent
  <2> QED  BY <1>2, <2>1 DEF Inv
<1>5. /\ toHost' \in [Hosts -> Seq(Command)] /\ toHost'[currhost] = << c >>
      /\ \A w \in Hosts : w # currhost => toHost'[w] = toHost[w]
  BY <1>1, <1>2, <1>4 DEF Inv
<1>6. Pending(currhost)'
  BY <1>1, <1>2, <1>3, <1>5 DEF Pending, Silent
<1>7. ASSUME NEW w \in Hosts, w # currhost
      PROVE  Silent(w)'
  BY <1>1, <1>3, <1>5, <1>7 DEF Silent
<1>8. Conversation'
  BY <1>1, <1>6, <1>7 DEF Conversation
<1> QED  BY <1>1, <1>5, <1>8 DEF Inv

\* Getting the reply.
LEMMA WaitInv ==
  ASSUME Inv, manWaitForReply, UNCHANGED hostVars
  PROVE  Inv'
<1>1. /\ manPc = "wait" /\ manPc' = "prompt" /\ fromHost[currhost] # << >>
      /\ fromHost' = [fromHost EXCEPT ![currhost] = << >>]
      /\ currhost' = currhost /\ cmd' = cmd /\ toHost' = toHost
      /\ hostPc' = hostPc /\ replyMsg' = replyMsg
  BY DEF manWaitForReply, hostVars
<1>2. /\ fromHost' \in [Hosts -> Seq(Reply)] /\ fromHost'[currhost] = << >>
      /\ \A w \in Hosts : w # currhost => fromHost'[w] = fromHost[w]
  BY <1>1 DEF Inv
<1>3. toHost[currhost] = << >> /\ hostPc[currhost] # "reply"
  BY <1>1 DEF Inv, Conversation, Pending, Silent
<1>4. ASSUME NEW w \in Hosts
      PROVE  Silent(w)'
  BY <1>1, <1>2, <1>3 DEF Inv, Conversation, Silent
<1> QED  BY <1>1, <1>2, <1>4 DEF Inv, Conversation

\* Connecting to another host, and quitting.
LEMMA ChangeHostOrQuitInv ==
  ASSUME Inv,
         ((\E h \in Hosts : manChangeHost(h)) /\ UNCHANGED hostVars) \/ Quit
  PROVE  Inv'
<1>1. /\ manPc = "prompt" /\ manPc' # "wait"
      /\ toHost' = toHost /\ fromHost' = fromHost /\ replyMsg' = replyMsg
      /\ currhost' \in Hosts
      /\ hostPc' = hostPc \/ hostPc' = [h \in Hosts |-> "dead"]
  BY DEF manChangeHost, Quit, managerQuit, hostVars, Inv
<1>2. ASSUME NEW w \in Hosts
      PROVE  Silent(w)'
  BY <1>1 DEF Inv, Conversation, Silent
<1>3. hostPc' \in [Hosts -> {"command", "reply", "receive", "dead", "corrupt"}]
  BY <1>1 DEF Inv
<1> QED  BY <1>1, <1>2, <1>3 DEF Inv, Conversation

-----------------------------------------------------------------------------
\* Every step keeps the invariant.
LEMMA NextInv ==
  ASSUME Inv, [Next]_vars
  PROVE  Inv'
<1>1. CASE UNCHANGED vars
  BY <1>1 DEF vars, hostVars, managerVars, Inv, Conversation, Silent, Pending
<1>2. ASSUME NEW h \in Hosts, HostStep(h), UNCHANGED managerVars
      PROVE  Inv'
  BY <1>2, HostCommandInv, HostLoopInv, HostReplyInv DEF HostStep
<1>3. CASE ManagerStep
  BY <1>3, CommandSendInv, WaitInv, ChangeHostOrQuitInv DEF ManagerStep
<1>4. CASE Quit
  BY <1>4, ChangeHostOrQuitInv
<1> QED  BY <1>1, <1>2, <1>3, <1>4 DEF Next

\* man.c:107-147: commands and replies take turns for ever, so that no reply
\* is taken for the reply to another command.
THEOREM TakeTurns == Spec => []Conversation
<1>1. Inv => Conversation
  BY DEF Inv
<1> QED  BY <1>1, InitInv, NextInv, PTL DEF Spec

-----------------------------------------------------------------------------
(* The types of the rest of the state.  A file is as long as it can be     *)
(* because a host that decodes too long a packet does not store it.        *)

HostData ==
  /\ netaddr \in [Hosts -> NetAddrs \cup Hosts]
  /\ mainDir \in [Hosts -> Dirs \cup {NoDir}]
  /\ sendPacketBuff \in [Hosts -> packetBuffer]
  /\ rcvPacketBuff \in [Hosts -> packetBuffer]
  /\ \A h \in Hosts : ~Overruns(rcvPacketBuff[h])
  /\ new \in [Hosts -> {0, 1}]
  /\ leaked \in [Hosts -> 0 .. MaxOpen]
  /\ files \in [RealDirs \X Names -> File]

Data ==
  /\ pipe \in [Links -> Seq(Cell)]
  /\ HostData
  /\ manPc \in {"prompt", "wait", "quit"}
  /\ cmd \in Command \cup {NoArg}

\* The two invariants together say that the state has its type.
LEMMA TypesFromInv == Inv /\ Data => TypeOK
  BY DEF Inv, Data, HostData, TypeOK, HostTypeOK

\* At the start.
LEMMA InitData == Init => Data
<1> SUFFICES ASSUME Init  PROVE Data
  OBVIOUS
<1>1. pipe \in [Links -> Seq(Cell)]
  BY DEF Init
<1>2. Uninitialised \in packetBuffer /\ ~Overruns(Uninitialised)
  BY LinkAssumption DEF Uninitialised, packetBuffer, PayloadOrGarbage, Overruns
<1>3. HostData
  BY <1>2, HostAssumption DEF Init, HostInit, HostData
<1> QED  BY <1>1, <1>3 DEF Init, ManagerInit, Data

\* A command with an address, a directory or a file name has one.
LEMMA CommandArgument ==
  ASSUME NEW c \in Command
  PROVE  /\ c.name \in {"SetNetAddr", "TransmitPacket"} => c.arg \in NetAddrs
         /\ c.name = "SetMainDir" => c.arg \in Dirs
         /\ c.name \in {"UploadPacket", "DownloadPacket"} => c.arg \in Names
  BY DEF Command

\* Uploading: the send buffer holds what is in the file.
LEMMA UploadData ==
  ASSUME Data, NEW h \in Hosts, NEW name \in Names, hostUploadPacket(h, name)
  PROVE  HostData' /\ pipe' = pipe
<1>1. CASE hostUploadAborted(h, name)
  <2>1. leaked' \in [Hosts -> 0 .. MaxOpen]
    BY <1>1, HostAssumption DEF hostUploadAborted, CanOpen, Data, HostData
  <2> QED  BY <1>1, <2>1 DEF hostUploadAborted, Data, HostData
<1>2. CASE hostUploadDone(h, name)
  <2> DEFINE f == files[<< mainDir[h], name >>]
             p == [sendPacketBuff[h] EXCEPT !.is_valid = 1, !.length = f.length,
                                            !.payload = f.payload]
  <2>1. f \in File
    BY <1>2 DEF hostUploadDone, CanOpen, Data, HostData
  <2>2. f.length \in Int /\ f.payload \in PayloadOrGarbage
    BY <2>1, LinkAssumption DEF File
  <2>3. sendPacketBuff[h] \in packetBuffer
    BY DEF Data, HostData
  <2>4. sendPacketBuff' = [sendPacketBuff EXCEPT ![h] = p]
    BY <1>2 DEF hostUploadDone
  <2> HIDE DEF f
  <2>5. p \in packetBuffer
    BY <2>2, <2>3 DEF packetBuffer
  <2> HIDE DEF p
  <2> QED  BY <1>2, <2>4, <2>5 DEF hostUploadDone, Data, HostData
<1> QED  BY <1>1, <1>2 DEF hostUploadPacket

\* Downloading: a file is never longer than a payload.
LEMMA DownloadData ==
  ASSUME Data, NEW h \in Hosts, NEW name \in Names, hostDownloadPacket(h, name)
  PROVE  HostData' /\ pipe' = pipe
<1>1. CASE hostDownloadAborted(h) \/ hostDownloadCrash(h)
  BY <1>1 DEF hostDownloadAborted, hostDownloadCrash, Data, HostData
<1>2. CASE hostDownloadDone(h, name)
  <2> DEFINE p == rcvPacketBuff[h]
             f == IF new[h] = 1 /\ p.length > 0
                  THEN [length |-> p.length, payload |-> p.payload] ELSE Empty
  <2>1. /\ p.length \in Int /\ p.length <= PAYLOAD_LENGTH
        /\ p.payload \in PayloadOrGarbage
    BY LinkAssumption DEF Data, HostData, packetBuffer, Overruns
  <2>2. f \in File
    BY <2>1, LinkAssumption DEF File, Empty, PayloadOrGarbage
  <2>3. files' = [files EXCEPT ![<< mainDir[h], name >>] = f]
    BY <1>2 DEF hostDownloadDone
  <2> HIDE DEF f
  <2>4. files' \in [RealDirs \X Names -> File]
    BY <2>2, <2>3 DEF Data, HostData
  <2>5. new' \in [Hosts -> {0, 1}]
    BY <1>2 DEF hostDownloadDone, Data, HostData
  <2> QED  BY <1>2, <2>4, <2>5 DEF hostDownloadDone, Data, HostData
<1> QED  BY <1>1, <1>2 DEF hostDownloadPacket

\* Addresses, typed or initial, are natural numbers.
LEMMA AddressesAreNatural ==
  ASSUME NEW v \in NetAddrs \cup Hosts
  PROVE  v \in Nat
<1>1. CASE v \in NetAddrs
  <2>1. v \in 0 .. 10000
    BY <1>1, ManagerLinkAssumption
  <2> QED  BY <2>1
<1>2. CASE v \in Hosts
  BY <1>2, ManagerLinkAssumption
<1> QED  BY <1>1, <1>2

\* Transmitting: the pipe gets cells.
LEMMA TransmitData ==
  ASSUME Data, NEW h \in Hosts, NEW a \in NetAddrs, hostTransmitPacket(h, a)
  PROVE  HostData' /\ pipe' \in [Links -> Seq(Cell)]
<1> DEFINE p == [sendPacketBuff[h] EXCEPT !.dest_addr = a, !.src_addr = netaddr[h]]
<1>1. a \in Int /\ netaddr[h] \in Int
  <2>1. netaddr[h] \in NetAddrs \cup Hosts
    BY DEF Data, HostData
  <2> QED  BY <2>1, AddressesAreNatural
<1>2. sendPacketBuff[h] \in packetBuffer
  BY DEF Data, HostData
<1>3. p \in packetBuffer
  BY <1>1, <1>2 DEF packetBuffer
<1>4. /\ sendPacketBuff' = [sendPacketBuff EXCEPT ![h] = p]
      /\ pipe' = [pipe EXCEPT ![linkOut[h]] = linkSend(pipe[linkOut[h]], p)]
  BY DEF hostTransmitPacket
<1> HIDE DEF p
<1>5. linkOut[h] \in Links /\ pipe[linkOut[h]] \in Seq(Cell)
  BY HostAssumption DEF Data
<1>6. linkSend(pipe[linkOut[h]], p) \in Seq(Cell)
  BY <1>3, <1>5, SendType
<1>7. pipe' \in [Links -> Seq(Cell)]
  BY <1>4, <1>5, <1>6 DEF Data
<1> QED  BY <1>3, <1>4, <1>7 DEF hostTransmitPacket, Data, HostData

\* Whatever the command, the data keep their types.
LEMMA ExecuteData ==
  ASSUME Data, NEW h \in Hosts, NEW c \in Command, HostExecute(h, c)
  PROVE  HostData' /\ pipe' \in [Links -> Seq(Cell)]
<1>1. CASE c.name = "SetNetAddr" /\ hostSetNetAddr(h, c.arg)
  BY <1>1, CommandArgument DEF hostSetNetAddr, Data, HostData
<1>2. CASE c.name = "SetMainDir" /\ hostSetMainDir(h, c.arg)
  BY <1>2, CommandArgument DEF hostSetMainDir, Data, HostData
<1>3. CASE c.name = "ClearRcvFlg" /\ hostClearRcvFlg(h)
  <2>1. rcvPacketBuff[h] \in packetBuffer /\ ~Overruns(rcvPacketBuff[h])
    BY DEF Data, HostData
  <2>2. /\ [rcvPacketBuff[h] EXCEPT !.is_valid = 0] \in packetBuffer
        /\ ~Overruns([rcvPacketBuff[h] EXCEPT !.is_valid = 0])
    BY <2>1 DEF packetBuffer, Overruns
  <2>3. rcvPacketBuff' =
          [rcvPacketBuff EXCEPT ![h] = [rcvPacketBuff[h] EXCEPT !.is_valid = 0]]
    BY <1>3 DEF hostClearRcvFlg
  <2>4. /\ rcvPacketBuff' \in [Hosts -> packetBuffer]
        /\ \A g \in Hosts : ~Overruns(rcvPacketBuff'[g])
    BY <2>2, <2>3 DEF Data, HostData
  <2> QED  BY <1>3, <2>4 DEF hostClearRcvFlg, Data, HostData
<1>4. CASE c.name = "UploadPacket" /\ hostUploadPacket(h, c.arg)
  BY <1>4, CommandArgument, UploadData DEF Data
<1>5. CASE c.name = "DownloadPacket" /\ hostDownloadPacket(h, c.arg)
  BY <1>5, CommandArgument, DownloadData DEF Data
<1>6. CASE c.name = "TransmitPacket" /\ hostTransmitPacket(h, c.arg)
  BY <1>6, CommandArgument, TransmitData
<1>7. CASE c.name = "GetHostState" /\ hostGetHostState(h)
  BY <1>7 DEF hostGetHostState, Data, HostData
<1> QED  BY <1>1, <1>2, <1>3, <1>4, <1>5, <1>6, <1>7 DEF HostExecute

\* Reading the link: what is stored is a packet that fits.
LEMMA HostReceiveData ==
  ASSUME Data, NEW h \in Hosts, HostReceive(h)
  PROVE  HostData' /\ pipe' \in [Links -> Seq(Cell)]
<1> DEFINE s == pipe[linkIn[h]]
           p == linkReceive(s)
<1>1. linkIn[h] \in Links /\ s \in Seq(Cell)
  BY HostAssumption DEF Data
<1>2. pipe' = [pipe EXCEPT ![linkIn[h]] = Unread(s)]
  BY DEF HostReceive
<1>3. pipe' \in [Links -> Seq(Cell)]
  BY <1>1, <1>2, ReadType DEF Data
<1>4. p \in packetBuffer
  BY <1>1, ReceiveType
<1>. HostFilled(h) \/ HostStore(h, p)
  BY DEF HostReceive
<1> HIDE DEF p
<1>5. /\ \/ rcvPacketBuff' = rcvPacketBuff
         \/ ~Overruns(p) /\ rcvPacketBuff' = [rcvPacketBuff EXCEPT ![h] = p]
      /\ new' = new \/ new' = [new EXCEPT ![h] = 1]
      /\ UNCHANGED << netaddr, mainDir, sendPacketBuff, leaked, files >>
  BY DEF HostReceive, HostStore, HostFilled
<1>6. /\ rcvPacketBuff' \in [Hosts -> packetBuffer]
      /\ \A g \in Hosts : ~Overruns(rcvPacketBuff'[g])
  <2>1. /\ rcvPacketBuff \in [Hosts -> packetBuffer]
        /\ \A g \in Hosts : ~Overruns(rcvPacketBuff[g])
    BY DEF Data, HostData
  <2>2. CASE rcvPacketBuff' = rcvPacketBuff
    BY <2>1, <2>2
  <2>3. CASE ~Overruns(p) /\ rcvPacketBuff' = [rcvPacketBuff EXCEPT ![h] = p]
    BY <1>4, <2>1, <2>3
  <2> QED  BY <1>5, <2>2, <2>3
<1>7. new' \in [Hosts -> {0, 1}]
  BY <1>5 DEF Data, HostData
<1> QED  BY <1>3, <1>5, <1>6, <1>7 DEF Data, HostData

\* Every step keeps the types.
LEMMA NextData ==
  ASSUME Inv, Data, [Next]_vars
  PROVE  Data'
<1>1. CASE UNCHANGED vars
  BY <1>1 DEF vars, hostVars, managerVars, Data, HostData
<1>2. ASSUME NEW h \in Hosts, HostCommand(h), UNCHANGED managerVars
      PROVE  Data'
  <2>1. Head(toHost[h]) \in Command /\ HostExecute(h, Head(toHost[h]))
    <3>1. toHost[h] \in Seq(Command) /\ toHost[h] # << >>
      BY <1>2 DEF HostCommand, Inv
    <3> QED  BY <1>2, <3>1, HeadTailProperties DEF HostCommand
  <2> QED  BY <1>2, <2>1, ExecuteData DEF Data, managerVars
<1>3. ASSUME NEW h \in Hosts, HostReceive(h), UNCHANGED managerVars
      PROVE  Data'
  BY <1>3, HostReceiveData DEF Data, managerVars
<1>4. ASSUME NEW h \in Hosts, HostNoCommand(h) \/ hostReplySend(h),
             UNCHANGED managerVars
      PROVE  Data'
  BY <1>4 DEF HostNoCommand, hostReplySend, managerVars, Data, HostData
<1>5. CASE ManagerStep
  <2>1. UNCHANGED << hostVars, pipe >>
    BY <1>5 DEF ManagerStep
  <2>2. manPc' \in {"prompt", "wait", "quit"} /\ cmd' \in Command \cup {NoArg}
    BY <1>5, MenuAssumption
       DEF ManagerStep, manCommandSend, manChangeHost, manWaitForReply, Data, Inv
  <2> QED  BY <2>1, <2>2 DEF hostVars, Data, HostData
<1>6. CASE Quit
  BY <1>6 DEF Quit, managerQuit, Data, HostData
<1> QED  BY <1>1, <1>2, <1>3, <1>4, <1>5, <1>6 DEF Next, HostStep

\* host.c and man.c: every variable has its type, whatever the user types and
\* whatever comes in.
THEOREM TypeCorrect == Spec => []TypeOK
  BY InitInv, InitData, NextInv, NextData, TypesFromInv, PTL DEF Spec

-----------------------------------------------------------------------------
\* man.c:101, host.c:190: a host changes its settings only while the user is
\* connected to it and waiting.
THEOREM SettingsInForeground == Spec => InForeground
<1>1. Inv /\ Data /\ [Next]_vars =>
        [\A h \in Hosts :
           Settings(h)' # Settings(h) => manPc = "wait" /\ currhost = h]_vars
  <2> SUFFICES ASSUME Inv, Data, [Next]_vars, NEW h \in Hosts,
                      Settings(h)' # Settings(h)
               PROVE  manPc = "wait" /\ currhost = h
    OBVIOUS
  <2>1. CASE UNCHANGED vars \/ ManagerStep \/ Quit
    BY <2>1 DEF vars, hostVars, ManagerStep, Quit, Settings
  <2>2. ASSUME NEW g \in Hosts, HostNoCommand(g) \/ hostReplySend(g) \/ HostReceive(g)
        PROVE  FALSE
    BY <2>2 DEF HostNoCommand, hostReplySend, HostReceive, Settings
  <2>3. ASSUME NEW g \in Hosts, HostCommand(g)
        PROVE  manPc = "wait" /\ currhost = h
    <3>1. manPc = "wait" /\ currhost = g
      BY <2>3, CommandIsPending DEF HostCommand
    <3>2. g = h
      BY <2>3 DEF HostCommand, HostExecute, Settings, Data, HostData,
         hostSetNetAddr, hostSetMainDir, hostClearRcvFlg, hostUploadPacket,
         hostUploadAborted, hostUploadDone, hostDownloadPacket,
         hostDownloadAborted, hostDownloadCrash, hostDownloadDone,
         hostTransmitPacket, hostGetHostState
    <3> QED  BY <3>1, <3>2
  <2> QED  BY <2>1, <2>2, <2>3 DEF Next, HostStep
<1> QED
  BY <1>1, InitInv, InitData, NextInv, NextData, PTL DEF Spec, InForeground

-----------------------------------------------------------------------------
(* What ends up in a file *)

\* No read of a host fills its buffer: all that waits is less than it can take.
WholeLinks == \A h \in Hosts : Len(pipe[linkIn[h]]) < ReadMax

\* A packet with the contents of a file there may be.
IsCopy(p) == ThatOf(p) \in Copies

CopyPackets == { p \in WholePacket : IsCopy(p) }

\* The contents of a file can be in a file, in a send buffer, in a link and in a
\* receive buffer, and whatever can be sent or written to a file is such a copy.
CopyInv ==
  /\ FilesAreCopies
  /\ \A h \in Hosts : Sendable(sendPacketBuff[h]) => IsCopy(sendPacketBuff[h])
  /\ \A l \in Links : BeginsWith(CopyPackets, pipe[l])
  /\ \A h \in Hosts :
       new[h] = 1 /\ rcvPacketBuff[h].length > 0 => IsCopy(rcvPacketBuff[h])

\* At the start there is nothing new, and nothing to send but what there happens to
\* be in a send buffer.
LEMMA InitCopy == Init => CopyInv
<1> SUFFICES ASSUME Init  PROVE CopyInv
  OBVIOUS
<1>1. FilesAreCopies
  BY DEF Init, HostInit, FilesAreCopies, Copies
<1>2. \A h \in Hosts :
        new[h] = 0 /\ (Sendable(sendPacketBuff[h]) => IsCopy(sendPacketBuff[h]))
  <2>1. \A h \in Hosts : new[h] = 0 /\ sendPacketBuff[h] \in FreshSend
    BY DEF Init, HostInit
  <2>2. \A p \in FreshSend : Sendable(p) => IsCopy(p)
    BY DEF IsCopy, Copies
  <2> QED  BY <2>1, <2>2
<1>3. \A l \in Links : BeginsWith(CopyPackets, pipe[l])
  BY DEF Init, BeginsWith
<1> QED  BY <1>1, <1>2, <1>3 DEF CopyInv

\* Uploading: the file is a copy, and so is the send buffer.
LEMMA UploadCopy ==
  ASSUME Data, CopyInv, NEW h \in Hosts, NEW name \in Names, hostUploadPacket(h, name)
  PROVE  CopyInv'
<1>1. CASE hostUploadAborted(h, name)
  BY <1>1 DEF hostUploadAborted, CopyInv, FilesAreCopies
<1>2. CASE hostUploadDone(h, name)
  <2> DEFINE f == files[<< mainDir[h], name >>]
             p == [sendPacketBuff[h] EXCEPT !.is_valid = 1, !.length = f.length,
                                            !.payload = f.payload]
  <2>1. << mainDir[h], name >> \in RealDirs \X Names /\ f.length \in 1 .. PAYLOAD_LENGTH
    BY <1>2 DEF hostUploadDone, CanOpen
  <2>2. f \in Copies /\ f = [length |-> f.length, payload |-> f.payload]
    <3>1. f \in Copies
      BY <2>1 DEF CopyInv, FilesAreCopies
    <3>2. f \in File
      BY <2>1 DEF Data, HostData
    <3> QED  BY <3>1, <3>2 DEF File
  <2>3. sendPacketBuff' = [sendPacketBuff EXCEPT ![h] = p]
    BY <1>2 DEF hostUploadDone
  <2>4. sendPacketBuff \in [Hosts -> packetBuffer]
    BY DEF Data, HostData
  <2> HIDE DEF f
  <2>5. p.length = f.length /\ p.payload = f.payload
    BY <2>4 DEF packetBuffer
  <2> HIDE DEF p
  <2>6. IsCopy(p)
    BY <2>2, <2>5 DEF IsCopy, ThatOf
  <2>7. \A g \in Hosts : Sendable(sendPacketBuff'[g]) => IsCopy(sendPacketBuff'[g])
    BY <2>3, <2>4, <2>6 DEF CopyInv
  <2>8. UNCHANGED << files, pipe, new, rcvPacketBuff >>
    BY <1>2 DEF hostUploadDone
  <2> QED  BY <2>7, <2>8 DEF CopyInv, FilesAreCopies
<1> QED  BY <1>1, <1>2 DEF hostUploadPacket

\* Downloading: the file is a copy or empty, and nothing is new after it.
LEMMA DownloadCopy ==
  ASSUME Data, CopyInv, NEW h \in Hosts, NEW name \in Names, hostDownloadPacket(h, name)
  PROVE  CopyInv'
<1>1. CASE hostDownloadAborted(h) \/ hostDownloadCrash(h)
  BY <1>1 DEF hostDownloadAborted, hostDownloadCrash, CopyInv, FilesAreCopies
<1>2. CASE hostDownloadDone(h, name)
  <2> DEFINE p == rcvPacketBuff[h]
             f == IF new[h] = 1 /\ p.length > 0
                  THEN [length |-> p.length, payload |-> p.payload] ELSE Empty
  <2>1. f \in Copies
    <3>1. CASE new[h] = 1 /\ p.length > 0
      <4>1. ThatOf(p) \in Copies /\ f = ThatOf(p)
        BY <3>1 DEF CopyInv, IsCopy, ThatOf
      <4> QED  BY <4>1
    <3>2. CASE ~(new[h] = 1 /\ p.length > 0)
      <4>1. f = Empty
        BY <3>2
      <4>2. Empty \in Copies
        BY DEF Copies
      <4> QED  BY <4>1, <4>2
    <3> QED  BY <3>1, <3>2
  <2>2. files' = [files EXCEPT ![<< mainDir[h], name >>] = f]
    BY <1>2 DEF hostDownloadDone
  <2> HIDE DEF f
  <2>3. FilesAreCopies'
    <3>1. files \in [RealDirs \X Names -> File]
      BY DEF Data, HostData
    <3>2. ASSUME NEW x \in RealDirs \X Names
          PROVE  files'[x] = files[x] \/ files'[x] = f
      BY <2>2, <3>1
    <3> QED  BY <2>1, <3>2 DEF CopyInv, FilesAreCopies
  <2>4. \A g \in Hosts : new'[g] = 1 => new[g] = 1
    BY <1>2 DEF hostDownloadDone, Data, HostData
  <2>5. UNCHANGED << sendPacketBuff, rcvPacketBuff, pipe >>
    BY <1>2 DEF hostDownloadDone
  <2> QED  BY <2>3, <2>4, <2>5 DEF CopyInv
<1> QED  BY <1>1, <1>2 DEF hostDownloadPacket

\* Transmitting: what is sent is what the send buffer holds.
LEMMA TransmitCopy ==
  ASSUME Data, CopyInv, NEW h \in Hosts, NEW a \in NetAddrs, hostTransmitPacket(h, a)
  PROVE  CopyInv'
<1> DEFINE b == sendPacketBuff[h]
           p == [b EXCEPT !.dest_addr = a, !.src_addr = netaddr[h]]
<1>1. a \in Nat /\ netaddr[h] \in Nat
  <2>1. netaddr[h] \in NetAddrs \cup Hosts
    BY DEF Data, HostData
  <2> QED  BY <2>1, AddressesAreNatural
<1>2. b \in packetBuffer /\ sendPacketBuff \in [Hosts -> packetBuffer]
  BY DEF Data, HostData
<1>3. /\ sendPacketBuff' = [sendPacketBuff EXCEPT ![h] = p]
      /\ pipe' = [pipe EXCEPT ![linkOut[h]] = linkSend(pipe[linkOut[h]], p)]
      /\ UNCHANGED << files, new, rcvPacketBuff >>
  BY DEF hostTransmitPacket
<1>4. Sendable(b) => IsCopy(b)
  BY DEF CopyInv
<1> HIDE DEF b
<1>5. /\ p \in packetBuffer /\ p.length = b.length /\ p.payload = b.payload
      /\ p.is_valid = b.is_valid /\ p.dest_addr = a /\ p.src_addr = netaddr[h]
  <2> DEFINE n == netaddr[h]
  <2>1. a \in Int /\ n \in Int
    BY <1>1
  <2> HIDE DEF n
  <2>2. ASSUME NEW r \in packetBuffer
        PROVE  LET q == [r EXCEPT !.dest_addr = a, !.src_addr = n]
               IN  /\ q \in packetBuffer /\ q.length = r.length
                   /\ q.payload = r.payload /\ q.is_valid = r.is_valid
                   /\ q.dest_addr = a /\ q.src_addr = n
    BY <2>1 DEF packetBuffer
  <2> QED  BY <1>2, <2>2 DEF n
<1> HIDE DEF p
<1>6. Sendable(p) => IsCopy(p)
  BY <1>4, <1>5 DEF Sendable, IsCopy, ThatOf
<1>7. Sendable(p) => p \in CopyPackets
  BY <1>1, <1>5, <1>6 DEF CopyPackets, WholePacket
<1>8. linkOut[h] \in Links /\ pipe \in [Links -> Seq(Cell)]
  BY HostAssumption DEF Data
<1>9. BeginsWith(CopyPackets, linkSend(pipe[linkOut[h]], p))
  <2>1. CopyPackets \subseteq WholePacket
    BY DEF CopyPackets
  <2> QED  BY <1>7, <1>8, <2>1, SendBegins DEF CopyInv
<1>10. \A l \in Links : BeginsWith(CopyPackets, pipe'[l])
  BY <1>3, <1>8, <1>9 DEF CopyInv
<1>11. \A g \in Hosts : Sendable(sendPacketBuff'[g]) => IsCopy(sendPacketBuff'[g])
  BY <1>2, <1>3, <1>6 DEF CopyInv
<1> QED  BY <1>3, <1>10, <1>11 DEF CopyInv, FilesAreCopies

\* Whatever the command, what is passed on are copies.
LEMMA ExecuteCopy ==
  ASSUME Data, CopyInv, NEW h \in Hosts, NEW c \in Command, HostExecute(h, c)
  PROVE  CopyInv'
<1>1. CASE c.name = "SetNetAddr" /\ hostSetNetAddr(h, c.arg)
  BY <1>1 DEF hostSetNetAddr, CopyInv, FilesAreCopies
<1>2. CASE c.name = "SetMainDir" /\ hostSetMainDir(h, c.arg)
  BY <1>2 DEF hostSetMainDir, CopyInv, FilesAreCopies
<1>3. CASE c.name = "ClearRcvFlg" /\ hostClearRcvFlg(h)
  <2>1. /\ \A g \in Hosts : new'[g] = 1 => g # h /\ new[g] = 1
        /\ \A g \in Hosts : g # h => rcvPacketBuff'[g] = rcvPacketBuff[g]
        /\ UNCHANGED << files, sendPacketBuff, pipe >>
    BY <1>3 DEF hostClearRcvFlg, Data, HostData
  <2> QED  BY <2>1 DEF CopyInv, FilesAreCopies
<1>4. CASE c.name = "UploadPacket" /\ hostUploadPacket(h, c.arg)
  BY <1>4, CommandArgument, UploadCopy
<1>5. CASE c.name = "DownloadPacket" /\ hostDownloadPacket(h, c.arg)
  BY <1>5, CommandArgument, DownloadCopy
<1>6. CASE c.name = "TransmitPacket" /\ hostTransmitPacket(h, c.arg)
  BY <1>6, CommandArgument, TransmitCopy
<1>7. CASE c.name = "GetHostState" /\ hostGetHostState(h)
  BY <1>7 DEF hostGetHostState, CopyInv, FilesAreCopies
<1> QED  BY <1>1, <1>2, <1>3, <1>4, <1>5, <1>6, <1>7 DEF HostExecute

\* Reading the link: a packet that is stored is the copy that was sent first.
LEMMA ReceiveCopy ==
  ASSUME Data, CopyInv, WholeLinks, NEW h \in Hosts, HostReceive(h)
  PROVE  CopyInv'
<1> DEFINE s == pipe[linkIn[h]]
           p == linkReceive(s)
<1>1. /\ linkIn[h] \in Links /\ pipe \in [Links -> Seq(Cell)] /\ s \in Seq(Cell)
      /\ Len(s) < ReadMax /\ BeginsWith(CopyPackets, s)
  BY HostAssumption DEF Data, WholeLinks, CopyInv
<1>2. /\ pipe' = [pipe EXCEPT ![linkIn[h]] = Unread(s)]
      /\ UNCHANGED << files, sendPacketBuff >>
  BY DEF HostReceive
<1>0. Len(s) \in Nat /\ Len(s) <= ReadMax /\ ~Fills(s)
  BY <1>1, LenProperties, LinkAssumption DEF Fills
<1>3. LET ForMe == p.dest_addr = netaddr[h] /\ p.is_valid = 1 /\ ~Overruns(p)
      IN  /\ rcvPacketBuff' =
               IF ForMe THEN [rcvPacketBuff EXCEPT ![h] = p] ELSE rcvPacketBuff
          /\ new' = IF ForMe THEN [new EXCEPT ![h] = 1] ELSE new
  BY <1>0 DEF HostReceive, HostStore, HostFilled
<1>4. CASE s = << >>
  <2>1. p.is_valid = 0
    BY <1>4 DEF linkReceive, Uninitialised
  <2>2. rcvPacketBuff' = rcvPacketBuff /\ new' = new
    BY <1>3, <2>1
  <2>3. Unread(s) = s
    <3>1. Unread(s) \in Seq(Cell) /\ Unread(s) = << >>
      BY <1>4, LinkAssumption DEF Unread, ReadLen
    <3> QED  BY <1>4, <3>1
  <2>4. pipe' = pipe
    BY <1>1, <1>2, <2>3
  <2> QED  BY <1>2, <2>2, <2>4 DEF CopyInv, FilesAreCopies
<1>5. CASE s # << >>
  <2> HIDE DEF s
  <2>1. p \in CopyPackets /\ Unread(s) = << >>
    <3>1. CopyPackets \subseteq WholePacket
      BY DEF CopyPackets
    <3> QED  BY <1>0, <1>1, <1>5, <3>1, ReceiveBegins
  <2>2. IsCopy(p)
    BY <2>1 DEF CopyPackets
  <2> HIDE DEF p
  <2>3. \A l \in Links : BeginsWith(CopyPackets, pipe'[l])
    <3>1. \A l \in Links : pipe'[l] = pipe[l] \/ pipe'[l] = << >>
      BY <1>1, <1>2, <2>1
    <3> QED  BY <3>1 DEF CopyInv, BeginsWith
  <2>4. \/ rcvPacketBuff' = rcvPacketBuff /\ new' = new
        \/ rcvPacketBuff' = [rcvPacketBuff EXCEPT ![h] = p] /\ new' = [new EXCEPT ![h] = 1]
    BY <1>3
  <2>5. \A g \in Hosts :
          \/ rcvPacketBuff'[g] = rcvPacketBuff[g] /\ new'[g] = new[g]
          \/ rcvPacketBuff'[g] = p
    BY <2>4 DEF Data, HostData
  <2> QED  BY <1>2, <2>2, <2>3, <2>5 DEF CopyInv, FilesAreCopies
<1> QED  BY <1>4, <1>5

\* Every step keeps to copies.
LEMMA NextCopy ==
  ASSUME Inv, Data, CopyInv, WholeLinks, [Next]_vars
  PROVE  CopyInv'
<1>1. CASE UNCHANGED vars
  BY <1>1 DEF vars, hostVars, CopyInv, FilesAreCopies
<1>2. ASSUME NEW h \in Hosts, HostCommand(h)
      PROVE  CopyInv'
  <2>1. toHost[h] \in Seq(Command) /\ toHost[h] # << >>
    BY <1>2 DEF HostCommand, Inv
  <2>2. Head(toHost[h]) \in Command /\ HostExecute(h, Head(toHost[h]))
    BY <1>2, <2>1, HeadTailProperties DEF HostCommand
  <2> QED  BY <2>2, ExecuteCopy
<1>3. ASSUME NEW h \in Hosts, HostNoCommand(h) \/ hostReplySend(h)
      PROVE  CopyInv'
  BY <1>3 DEF HostNoCommand, hostReplySend, CopyInv, FilesAreCopies
<1>4. ASSUME NEW h \in Hosts, HostReceive(h)
      PROVE  CopyInv'
  BY <1>4, ReceiveCopy
<1>5. CASE ManagerStep
  BY <1>5 DEF ManagerStep, hostVars, CopyInv, FilesAreCopies
<1>6. CASE Quit
  BY <1>6 DEF Quit, CopyInv, FilesAreCopies
<1> QED  BY <1>1, <1>2, <1>3, <1>4, <1>5, <1>6 DEF Next, HostStep

\* host.c:338-437: if reads find whole packets, what uploads, transmissions and
\* downloads put in files is what was in some file, or what the memory of a send
\* buffer held that was never filled (host.c:126).
THEOREM DownloadsAreCopies == Spec /\ []WholeLinks => []FilesAreCopies
<1>1. CopyInv => FilesAreCopies
  BY DEF CopyInv
<1> QED
  BY <1>1, InitCopy, InitInv, InitData, NextInv, NextData, NextCopy, PTL DEF Spec
=============================================================================
