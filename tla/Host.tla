-------------------------------- MODULE Host --------------------------------
(***************************************************************************)
(* host.c: the processes of the hosts.  hostMain loops for ever: it reads  *)
(* the connection from the manager once, executes the command it finds and *)
(* replies, reads its incoming link once, and sleeps.                      *)
(*                                                                         *)
(* A step reads one pipe and executes what it has read; the reply is a     *)
(* step of its own.  The link a command is sent on is written in the step  *)
(* that reads the command: the manager, who alone uses the pipe it was     *)
(* read from, is waiting for the reply then.                               *)
(*                                                                         *)
(* A definition named X_Slip stands next to a definition X and is what a   *)
(* slip in the code would make of it; nothing uses it.                     *)
(***************************************************************************)
EXTENDS Link, ManagerLink

CONSTANTS
  linkIn,    \* linkIn[h]: the link_in of host h
  linkOut,   \* linkOut[h]: its link_out
  RealDirs,  \* the directories there are
  NoDir,     \* "main directory name is empty"
  Disk,      \* the files at the start
  FreshSend, \* what the memory of a send buffer may hold at the start
  MaxOpen    \* files a process can have open besides its pipes (about 1000)

\* A file: length -1 if there is none, PAYLOAD_LENGTH + 1 for any file that is
\* too long to send.
File == [length : -1 .. PAYLOAD_LENGTH + 1, payload : PayloadOrGarbage]
Empty == [length |-> 0, payload |-> Garbage]

ASSUME HostAssumption ==
  /\ linkIn \in [Hosts -> Links]
  /\ linkOut \in [Hosts -> Links]
  /\ RealDirs \subseteq Dirs
  /\ NoDir \notin Dirs
  /\ Disk \in [RealDirs \X Names -> File]
  /\ FreshSend # {} /\ FreshSend \subseteq packetBuffer
  /\ MaxOpen \in Nat

VARIABLES
  netaddr, mainDir, \* fields of hostState; mainDir is NoDir for main_dir_valid = 0
  sendPacketBuff,
  rcvPacketBuff,
  new,              \* new[h]: rcvPacketBuff.new of host h
  hostPc,           \* where a host is in its loop, or "dead" or "corrupt"
  replyMsg,         \* replyMsg[h]: the reply_msg of hostMain
  leaked,           \* leaked[h]: files opened and never closed
  files             \* the files in the directories

hostVars == << netaddr, mainDir, sendPacketBuff, rcvPacketBuff, new, hostPc,
               replyMsg, leaked, files >>

HostTypeOK ==
  /\ netaddr \in [Hosts -> NetAddrs \cup Hosts]
  /\ mainDir \in [Hosts -> Dirs \cup {NoDir}]
  /\ sendPacketBuff \in [Hosts -> packetBuffer]
  /\ rcvPacketBuff \in [Hosts -> packetBuffer]
  /\ new \in [Hosts -> {0, 1}]
  /\ hostPc \in [Hosts -> {"command", "reply", "receive", "dead", "corrupt"}]
  /\ replyMsg \in [Hosts -> Reply]
  /\ leaked \in [Hosts -> 0 .. MaxOpen]
  /\ files \in [RealDirs \X Names -> File]

-----------------------------------------------------------------------------
\* hostInit: the receive buffer is initialised twice, the send buffer never.
HostInit ==
  /\ netaddr = [h \in Hosts |-> h]
  /\ mainDir = [h \in Hosts |-> NoDir]
  /\ sendPacketBuff \in [Hosts -> FreshSend]
  /\ rcvPacketBuff = [h \in Hosts |-> Uninitialised]
  /\ new = [h \in Hosts |-> 0]
  /\ hostPc = [h \in Hosts |-> "command"]
  /\ replyMsg = [h \in Hosts |-> [to |-> "GetHostState", done |-> FALSE]]
  /\ leaked = [h \in Hosts |-> 0]
  /\ files = Disk

-----------------------------------------------------------------------------
(* The commands; each leaves a message for hostReplySend. *)

Answer(h, name, done) ==
  /\ hostPc' = [hostPc EXCEPT ![h] = "reply"]
  /\ replyMsg' = [replyMsg EXCEPT ![h] = [to |-> name, done |-> done]]

hostSetNetAddr(h, a) ==
  /\ netaddr' = [netaddr EXCEPT ![h] = a]
  /\ Answer(h, "SetNetAddr", TRUE)
  /\ UNCHANGED << mainDir, sendPacketBuff, rcvPacketBuff, new, leaked, files, pipe >>

hostSetMainDir(h, d) ==
  /\ mainDir' = [mainDir EXCEPT ![h] = d]
  /\ Answer(h, "SetMainDir", TRUE)
  /\ UNCHANGED << netaddr, sendPacketBuff, rcvPacketBuff, new, leaked, files, pipe >>

hostClearRcvFlg(h) ==
  /\ rcvPacketBuff' = [rcvPacketBuff EXCEPT ![h].is_valid = 0]
  /\ new' = [new EXCEPT ![h] = 0]
  /\ Answer(h, "ClearRcvFlg", TRUE)
  /\ UNCHANGED << netaddr, mainDir, sendPacketBuff, leaked, files, pipe >>

\* fopen can work for a file of this name in the host's directory.
CanOpen(h) == mainDir[h] \in RealDirs /\ leaked[h] < MaxOpen

\* The file cannot be opened, or is empty or too big; the last two are not
\* closed again.
hostUploadAborted(h, name) ==
  LET f == files[<< mainDir[h], name >>]
      Opens == CanOpen(h) /\ f.length # -1
  IN  /\ Opens => f.length \notin 1 .. PAYLOAD_LENGTH
      /\ leaked' = IF Opens THEN [leaked EXCEPT ![h] = @ + 1] ELSE leaked
      /\ Answer(h, "UploadPacket", FALSE)
      /\ UNCHANGED << netaddr, mainDir, sendPacketBuff, rcvPacketBuff, new, files, pipe >>

hostUploadDone_OldLength(h, name) ==
  LET f == files[<< mainDir[h], name >>]
  IN  /\ CanOpen(h)
      /\ f.length \in 1 .. PAYLOAD_LENGTH
      /\ sendPacketBuff' =
           [sendPacketBuff EXCEPT ![h] =
              [@ EXCEPT !.is_valid = 1, !.payload = f.payload,
                        !.length = IF @ > f.length THEN @ ELSE f.length]]
      /\ Answer(h, "UploadPacket", TRUE)
      /\ UNCHANGED << netaddr, mainDir, rcvPacketBuff, new, leaked, files, pipe >>

hostUploadDone(h, name) ==
  LET f == files[<< mainDir[h], name >>]
  IN  /\ CanOpen(h)
      /\ f.length \in 1 .. PAYLOAD_LENGTH
      /\ sendPacketBuff' =
           [sendPacketBuff EXCEPT ![h] =
              [@ EXCEPT !.is_valid = 1, !.length = f.length, !.payload = f.payload]]
      /\ Answer(h, "UploadPacket", TRUE)
      /\ UNCHANGED << netaddr, mainDir, rcvPacketBuff, new, leaked, files, pipe >>

hostUploadPacket(h, name) == hostUploadAborted(h, name) \/ hostUploadDone(h, name)

\* There is nothing to download, or no directory to put it in.
hostDownloadAborted(h) ==
  /\ rcvPacketBuff[h].is_valid = 0 \/ mainDir[h] = NoDir
  /\ Answer(h, "DownloadPacket", FALSE)
  /\ UNCHANGED << netaddr, mainDir, sendPacketBuff, rcvPacketBuff, new, leaked,
                  files, pipe >>

\* fopen fails, and the null pointer it returns is used.
hostDownloadCrash(h) ==
  /\ rcvPacketBuff[h].is_valid # 0 /\ mainDir[h] # NoDir
  /\ ~CanOpen(h)
  /\ hostPc' = [hostPc EXCEPT ![h] = "dead"]
  /\ UNCHANGED << netaddr, mainDir, sendPacketBuff, rcvPacketBuff, new, replyMsg,
                  leaked, files, pipe >>

\* Opening the file empties it; the payload is written only while it is new,
\* and a length below zero writes nothing.
hostDownloadDone(h, name) ==
  /\ rcvPacketBuff[h].is_valid # 0 /\ mainDir[h] # NoDir
  /\ CanOpen(h)
  /\ LET p == rcvPacketBuff[h]
     IN  files' = [files EXCEPT ![<< mainDir[h], name >>] =
                     IF new[h] = 1 /\ p.length > 0
                     THEN [length |-> p.length, payload |-> p.payload]
                     ELSE Empty]
  /\ new' = [new EXCEPT ![h] = 0]
  /\ Answer(h, "DownloadPacket", TRUE)
  /\ UNCHANGED << netaddr, mainDir, sendPacketBuff, rcvPacketBuff, leaked, pipe >>

hostDownloadPacket(h, name) ==
  hostDownloadAborted(h) \/ hostDownloadCrash(h) \/ hostDownloadDone(h, name)

\* The reply is "Packet sent" even if linkSend aborts.
hostTransmitPacket(h, a) ==
  LET p == [sendPacketBuff[h] EXCEPT !.dest_addr = a, !.src_addr = netaddr[h]]
  IN  /\ sendPacketBuff' = [sendPacketBuff EXCEPT ![h] = p]
      /\ pipe' = [pipe EXCEPT ![linkOut[h]] = linkSend(@, p)]
      /\ Answer(h, "TransmitPacket", TRUE)
      /\ UNCHANGED << netaddr, mainDir, rcvPacketBuff, new, leaked, files >>

hostGetHostState(h) ==
  /\ Answer(h, "GetHostState", TRUE)
  /\ UNCHANGED << netaddr, mainDir, sendPacketBuff, rcvPacketBuff, new, leaked,
                  files, pipe >>

-----------------------------------------------------------------------------
(* hostMain *)

HostExecute(h, c) ==
  \/ c.name = "SetNetAddr" /\ hostSetNetAddr(h, c.arg)
  \/ c.name = "SetMainDir" /\ hostSetMainDir(h, c.arg)
  \/ c.name = "ClearRcvFlg" /\ hostClearRcvFlg(h)
  \/ c.name = "UploadPacket" /\ hostUploadPacket(h, c.arg)
  \/ c.name = "DownloadPacket" /\ hostDownloadPacket(h, c.arg)
  \/ c.name = "TransmitPacket" /\ hostTransmitPacket(h, c.arg)
  \/ c.name = "GetHostState" /\ hostGetHostState(h)

\* Read the connection from the manager and execute the command in it.
HostCommand(h) ==
  /\ hostPc[h] = "command"
  /\ toHost[h] # << >>
  /\ toHost' = [toHost EXCEPT ![h] = << >>]
  /\ HostExecute(h, Head(toHost[h]))
  /\ UNCHANGED fromHost

HostNoCommand(h) ==
  /\ hostPc[h] = "command"
  /\ toHost[h] = << >>
  /\ hostPc' = [hostPc EXCEPT ![h] = "receive"]
  /\ UNCHANGED << netaddr, mainDir, sendPacketBuff, rcvPacketBuff, new, replyMsg,
                  leaked, files, pipe, toHost, fromHost >>

hostReplySend_IfDone(h) ==
  /\ hostPc[h] = "reply"
  /\ fromHost' = IF replyMsg[h].done
                 THEN [fromHost EXCEPT ![h] = Append(@, replyMsg[h])] ELSE fromHost
  /\ hostPc' = [hostPc EXCEPT ![h] = "receive"]
  /\ UNCHANGED << netaddr, mainDir, sendPacketBuff, rcvPacketBuff, new, replyMsg,
                  leaked, files, pipe, toHost >>

hostReplySend(h) ==
  /\ hostPc[h] = "reply"
  /\ fromHost' = [fromHost EXCEPT ![h] = Append(@, replyMsg[h])]
  /\ hostPc' = [hostPc EXCEPT ![h] = "receive"]
  /\ UNCHANGED << netaddr, mainDir, sendPacketBuff, rcvPacketBuff, new, replyMsg,
                  leaked, files, pipe, toHost >>

\* Read the incoming link.  A packet for this host is stored whether or not the
\* one before it has been downloaded.
HostStore(h, p) ==
  LET ForMe == p.dest_addr = netaddr[h] /\ p.is_valid = 1 /\ ~Overruns(p)
  IN  /\ rcvPacketBuff' =
           IF ForMe THEN [rcvPacketBuff EXCEPT ![h] = p] ELSE rcvPacketBuff
      /\ new' = IF ForMe THEN [new EXCEPT ![h] = 1] ELSE new
      /\ hostPc' = [hostPc EXCEPT ![h] =
                      IF Overruns(p) THEN "corrupt" ELSE "command"]

\* The read fills buffer[], and the zero after it falls on other memory.
HostFilled(h) ==
  /\ Fills(pipe[linkIn[h]])
  /\ hostPc' = [hostPc EXCEPT ![h] = "corrupt"]
  /\ UNCHANGED << rcvPacketBuff, new >>

HostReceive(h) ==
  /\ hostPc[h] = "receive"
  /\ pipe' = [pipe EXCEPT ![linkIn[h]] = Unread(@)]
  /\ HostFilled(h) \/ \E p \in {linkReceive(pipe[linkIn[h]])} : HostStore(h, p)
  /\ UNCHANGED << netaddr, mainDir, sendPacketBuff, replyMsg, leaked, files,
                  toHost, fromHost >>

HostStep(h) ==
  HostCommand(h) \/ HostNoCommand(h) \/ hostReplySend(h) \/ HostReceive(h)
=============================================================================
