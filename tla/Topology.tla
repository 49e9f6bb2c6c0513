------------------------------ MODULE Topology ------------------------------
(***************************************************************************)
(* What main makes of the lines of a topology file, each of which names    *)
(* the two nodes of a connection (main.c, net.c, and switchSetupLinks of   *)
(* switch.c).  A topology t is the sequence of its lines; links count from *)
(* 0 as in the code, and so do the nodes, first the hosts.                 *)
(***************************************************************************)
EXTENDS Integers, Sequences
LOCAL INSTANCE SequencesExt
LOCAL INSTANCE FiniteSets
LOCAL INSTANCE FiniteSetsExt

\* Every connection is two links.
numlinks(t) == 2 * Len(t)
linkIDs(t) == 0 .. numlinks(t) - 1

\* netSetNetworkTopology: links 2k and 2k + 1 are those of the k-th line, there
\* and back.
Line(t, l) == t[l \div 2 + 1]
src_physId(t, l) == IF l % 2 = 0 THEN Line(t, l)[1] ELSE Line(t, l)[2]
dest_physId(t, l) == IF l % 2 = 0 THEN Line(t, l)[2] ELSE Line(t, l)[1]

LinksTo(t, n) == { l \in linkIDs(t) : dest_physId(t, l) = n }
LinksFrom(t, n) == { l \in linkIDs(t) : src_physId(t, l) = n }

\* switchSetupLinks: all links from and to the switch, in increasing order.
switchInLinks(t, w) == SetToSortSeq(LinksTo(t, w), <)
switchOutLinks(t, w) == SetToSortSeq(LinksFrom(t, w), <)

\* inLinks[] and outLinks[] have 10 elements; those of further neighbours are
\* written past them.
switchOverruns(t, w) == Cardinality(LinksTo(t, w)) > 10 \/ Cardinality(LinksFrom(t, w)) > 10

\* The last link found; numlinks, an index past the last link, if there is
\* none.
netHostInLink(t, h) == Max(LinksTo(t, h) \cup {IF LinksTo(t, h) = {} THEN numlinks(t) ELSE 0})
netHostOutLink(t, h) == Max(LinksFrom(t, h) \cup {IF LinksFrom(t, h) = {} THEN numlinks(t) ELSE 0})
=============================================================================
