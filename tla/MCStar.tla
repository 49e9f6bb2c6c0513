------------------------------- MODULE MCStar -------------------------------
(***************************************************************************)
(* testNetwork-1.dat: switch 3 and hosts 0..2.  The links hosts write are  *)
(* 0, 2 and 5.                                                             *)
(***************************************************************************)
EXTENDS SwitchNet, Topology, TLC

MCLines == << <<0, 3>>, <<1, 3>>, <<3, 2>> >>

MCLinks == 0 .. 5
MCSwitches == {3}
MCinLinks == 3 :> << 0, 2, 5 >>
MCoutLinks == 3 :> << 1, 3, 4 >>
MCHostOut == {0, 2, 5}

\* This is what the program makes of the lines.
ASSUME
  /\ MCLinks = linkIDs(MCLines)
  /\ \A w \in MCSwitches : /\ MCinLinks[w] = switchInLinks(MCLines, w)
                           /\ MCoutLinks[w] = switchOutLinks(MCLines, w)
  /\ MCHostOut = { netHostOutLink(MCLines, h) : h \in 0 .. 2 }

MCBehind ==
  (0 :> {0}) @@ (1 :> {2, 5}) @@ (2 :> {2}) @@ (3 :> {0, 5}) @@ (4 :> {0, 2})
    @@ (5 :> {5})
MCPayload == [from : MCHostOut, seq : 1 .. 4]

\* Each host has the address of its physical id; the address 7 is nobody's.
MCStable == (0 :> {0}) @@ (2 :> {1}) @@ (5 :> {2})
MCDest == {0, 1, 7}
MCOneDest == {1}

\* For reads that cut a packet: one host sends often, and its address can be
\* taken for the length of a payload.
MCCutAddrs == (0 :> {1, 3}) @@ (2 :> {0}) @@ (5 :> {2})
MCCutSend == (0 :> 4) @@ (2 :> 1) @@ (5 :> 0)

MCFour == (0 :> 2) @@ (2 :> 1) @@ (5 :> 1)
=============================================================================
