------------------------------ MODULE MCConsole ------------------------------
(***************************************************************************)
(* Hosts 0 and 1, joined without a switch.  The user sends the files of    *)
(* host 0 to host 1.                                                       *)
(***************************************************************************)
EXTENDS Console, Topology, TLC

CONSTANTS dir, missing, f1, f2, big, junk

MCLines == << <<0, 1>> >>

MCLinks == {0, 1}
MCHosts == {0, 1}
MClinkIn == (0 :> 1) @@ (1 :> 0)
MClinkOut == (0 :> 0) @@ (1 :> 1)

\* This is what the program makes of the line.
ASSUME
  /\ MCLinks = linkIDs(MCLines)
  /\ \A h \in MCHosts : /\ MClinkIn[h] = netHostInLink(MCLines, h)
                        /\ MClinkOut[h] = netHostOutLink(MCLines, h)

MCPayload == {f1, f2, junk}
MCDirs == {dir, missing}
MCOneDir == {dir}
MCNames == {f1, f2, big}
MCDisk ==
  (<< dir, f1 >> :> [length |-> 1, payload |-> f1])
    @@ (<< dir, f2 >> :> [length |-> 2, payload |-> f2])
    @@ (<< dir, big >> :> [length |-> 3, payload |-> Garbage])

\* A send buffer that nobody has initialised holds a packet by chance, or none.
MCJunk == {[Uninitialised EXCEPT !.length = 1, !.payload = junk, !.is_valid = 1]}
MCNothing == {Uninitialised}

Give(name, args) == [name : {name}, arg : args]

\* Host 0 sends; host 1 receives, and uploads a file that is too big.
MCMenu ==
  (0 :> Give("SetMainDir", {dir}) \cup Give("UploadPacket", {f1, f2})
          \cup Give("TransmitPacket", {1}) \cup Give("GetHostState", {NoArg}))
  @@
  (1 :> Give("SetMainDir", {dir}) \cup Give("UploadPacket", {big})
          \cup Give("SetNetAddr", {0, 1}) \cup Give("ClearRcvFlg", {NoArg})
          \cup Give("DownloadPacket", {f1}))

\* Just what it takes to send and to download.
MCShortMenu ==
  (0 :> Give("SetMainDir", {dir}) \cup Give("UploadPacket", {f1, f2})
          \cup Give("TransmitPacket", {1}))
  @@
  (1 :> Give("SetMainDir", MCDirs) \cup Give("DownloadPacket", {f1}))
=============================================================================
