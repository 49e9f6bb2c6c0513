----------------------------- MODULE MCNetwork -----------------------------
(***************************************************************************)
(* Hosts 0 and 1 at switch 2.                                              *)
(***************************************************************************)
EXTENDS Network, Topology, TLC

CONSTANTS dir, missing, f1, f2, junk

MCLines == << <<0, 2>>, <<1, 2>> >>

MCLinks == 0 .. 3
MCHosts == {0, 1}
MCSwitches == {2}
MClinkIn == (0 :> 1) @@ (1 :> 3)
MClinkOut == (0 :> 0) @@ (1 :> 2)
MCinLinks == 2 :> << 0, 2 >>
MCoutLinks == 2 :> << 1, 3 >>

\* This is what the program makes of the lines.
ASSUME
  /\ MCLinks = linkIDs(MCLines)
  /\ \A h \in MCHosts : /\ MClinkIn[h] = netHostInLink(MCLines, h)
                        /\ MClinkOut[h] = netHostOutLink(MCLines, h)
  /\ \A w \in MCSwitches : /\ MCinLinks[w] = switchInLinks(MCLines, w)
                           /\ MCoutLinks[w] = switchOutLinks(MCLines, w)

MCPayload == {f1, f2, junk}
MCDirs == {dir, missing}
MCOneDir == {dir}
MCNames == {f1, f2}
MCDisk ==
  (<< dir, f1 >> :> [length |-> 1, payload |-> f1])
    @@ (<< dir, f2 >> :> [length |-> -1, payload |-> Garbage])

\* A send buffer that nobody has initialised holds a packet by chance, or none.
MCJunk == {[Uninitialised EXCEPT !.length = 2, !.payload = junk, !.is_valid = 1]}
MCNothing == {Uninitialised}

Give(name, args) == [name : {name}, arg : args]

\* Host 0 sends, host 1 receives and may go to a missing directory.
MCMenu ==
  (0 :> Give("SetMainDir", {dir}) \cup Give("UploadPacket", {f1})
          \cup Give("TransmitPacket", {1}))
  @@
  (1 :> Give("SetMainDir", {missing, dir}) \cup Give("DownloadPacket", {f2})
          \cup Give("SetNetAddr", {0, 1}))

\* One file; the address 5 is nobody's until host 1 gets it, and a download of
\* host 1 kills it.
MCLiveMenu ==
  (0 :> Give("SetMainDir", {dir}) \cup Give("UploadPacket", {f1})
          \cup Give("TransmitPacket", {5}))
  @@
  (1 :> Give("SetMainDir", {missing}) \cup Give("DownloadPacket", {f2})
          \cup Give("SetNetAddr", {5}))
=============================================================================
