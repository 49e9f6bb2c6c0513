---------------------------- MODULE TopologyFile ----------------------------
(***************************************************************************)
(* mainSetTopology of main.c: how main reads the topology file.  The first *)
(* three lines have the numbers of hosts, switches and connections; each   *)
(* further line names two nodes.  A file is the sequence of its            *)
(* characters, and there is at least one.                                  *)
(*                                                                         *)
(* The check at the end compares pointers with 0 and never fails, so that  *)
(* main goes on with whatever numbers these operators give.                *)
(***************************************************************************)
EXTENDS Codec

MAX_LINE == 100
MAX_TOPOLOGY == 100 \* the size of src_ids[] and dest_ids[]
MAXHOSTS == 100     \* that of manager_links_array.links[]
MAXLINKS == 100     \* that of links_array.link[]
Newline == 10

\* What the calls of fgets return: a line with its newline, or as much of it as
\* line[] can hold.
Complete(line) == Last(line) = Newline \/ Len(line) = MAX_LINE - 1

fgetsLines(file) ==
  LET Add(lines, c) ==
        IF lines = << >> \/ Complete(Last(lines))
        THEN Append(lines, << c >>)
        ELSE Front(lines) \o << Append(Last(lines), c) >>
  IN  FoldLeft(Add, << >>, file)

Number(line, k) == ascii2Int(findWord(line, k))

\* Where the file has no such line, line[] still holds the last one.
Header(file, k) ==
  LET lines == fgetsLines(file)
  IN  Number(lines[IF k <= Len(lines) THEN k ELSE Len(lines)], 1)

numhostsIn(file) == Header(file, 1)
numswitchesIn(file) == Header(file, 2)
numlinksIn(file) == 2 * Header(file, 3)

\* The pairs that src_ids[] and dest_ids[] get.
Ids(file) ==
  LET lines == fgetsLines(file)
  IN  [i \in 1 .. Len(lines) - 3 |-> << Number(lines[i + 3], 1), Number(lines[i + 3], 2) >>]

\* What the arrays of main cannot hold is written past them: pairs of ids, the
\* manager's connections, and links, of which every connection makes two.
IdsOverrun(file) == Len(Ids(file)) > MAX_TOPOLOGY
HostsOverrun(file) == numhostsIn(file) > MAXHOSTS
LinksOverrun(file) == numlinksIn(file) > MAXLINKS
Overruns(file) == IdsOverrun(file) \/ HostsOverrun(file) \/ LinksOverrun(file)

\* netSetNetworkTopology takes as many pairs as the third line says; if there
\* are fewer, it takes what was in the arrays before.
Determined(file) == ~Overruns(file) /\ numlinksIn(file) \div 2 <= Len(Ids(file))
Connections(file) == SubSeq(Ids(file), 1, numlinksIn(file) \div 2)
=============================================================================
