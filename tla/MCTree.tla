------------------------------- MODULE MCTree -------------------------------
(***************************************************************************)
(* Two switches, 3 and 4, with hosts 0 and 1 at the first and host 2 at    *)
(* the second.  The links hosts write are 0, 2 and 4.                      *)
(***************************************************************************)
EXTENDS SwitchNet, Topology, TLC

MCLines == << <<0, 3>>, <<1, 3>>, <<2, 4>>, <<3, 4>> >>

MCLinks == 0 .. 7
MCSwitches == {3, 4}
MCinLinks == (3 :> << 0, 2, 7 >>) @@ (4 :> << 4, 6 >>)
MCoutLinks == (3 :> << 1, 3, 6 >>) @@ (4 :> << 5, 7 >>)
MCHostOut == {0, 2, 4}

\* This is what the program makes of the lines.
ASSUME
  /\ MCLinks = linkIDs(MCLines)
  /\ \A w \in MCSwitches : /\ MCinLinks[w] = switchInLinks(MCLines, w)
                           /\ MCoutLinks[w] = switchOutLinks(MCLines, w)
  /\ MCHostOut = { netHostOutLink(MCLines, h) : h \in 0 .. 2 }

MCBehind ==
  (0 :> {0}) @@ (1 :> {2, 4}) @@ (2 :> {2}) @@ (3 :> {0, 4})
    @@ (4 :> {4}) @@ (5 :> {0, 2}) @@ (6 :> {0, 2}) @@ (7 :> {4})
MCPayload == [from : MCHostOut, seq : 1 .. 2]

\* Each host has the address of its physical id; the address 7 is nobody's.
MCStable == (0 :> {0}) @@ (2 :> {1}) @@ (4 :> {2})
MCDest == {0, 1, 2, 7}

MCThree == (0 :> 1) @@ (2 :> 1) @@ (4 :> 1)
MCFour == (0 :> 2) @@ (2 :> 1) @@ (4 :> 1)

\* What is proved about calm trees applies to this one.
ASSUME Pace = "network" => CalmTree
=============================================================================
