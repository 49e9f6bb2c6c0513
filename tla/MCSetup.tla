------------------------------ MODULE MCSetup ------------------------------
(***************************************************************************)
(* Hosts 0 and 1 at switch 3, host 2 at switch 4, and the switches joined. *)
(***************************************************************************)
EXTENDS Setup, Topology, TLC
LOCAL INSTANCE SequencesExt

MCLines == << <<0, 3>>, <<1, 3>>, <<2, 4>>, <<3, 4>> >>

MCLinks == 0 .. 7
MCsrc == (0 :> 0) @@ (1 :> 3) @@ (2 :> 1) @@ (3 :> 3) @@ (4 :> 2) @@ (5 :> 4)
           @@ (6 :> 3) @@ (7 :> 4)
MCdest == (0 :> 3) @@ (1 :> 0) @@ (2 :> 3) @@ (3 :> 1) @@ (4 :> 4) @@ (5 :> 2)
            @@ (6 :> 4) @@ (7 :> 3)

\* This is what the program makes of the lines.
ASSUME
  /\ MCLinks = linkIDs(MCLines)
  /\ \A l \in MCLinks : /\ MCsrc[l] = src_physId(MCLines, l)
                        /\ MCdest[l] = dest_physId(MCLines, l)

-----------------------------------------------------------------------------
(* Reading the file *)

File == INSTANCE TopologyFile WITH PAYLOAD_LENGTH <- 200

Text(v) == File!int2Ascii(v)
TextLine(pair) == Text(pair[1]) \o <<File!Space>> \o Text(pair[2]) \o <<File!Newline>>

\* A file for h hosts, s switches and the connections t, as a user writes it;
\* like testNetwork-1.dat it has a space after the third number.
Written(h, s, t) ==
  Text(h) \o <<File!Newline>> \o Text(s) \o <<File!Newline>>
    \o Text(Len(t)) \o <<File!Space, File!Newline>>
    \o FlattenSeq([k \in DOMAIN t |-> TextLine(t[k])])

\* main gets from the file what was written in it; the last newline may be
\* missing, as it is in both files of the repository.
Reads(file, h, s, t) ==
  /\ File!numhostsIn(file) = h /\ File!numswitchesIn(file) = s
  /\ File!Determined(file) /\ File!Connections(file) = t

ASSUME
  \A h \in {1, 3, 10}, s \in {0, 2} :
    \A t \in {MCLines} \cup UNION { [1 .. n -> {0, 9, 10} \X {3, 11}] : n \in 1 .. 2 } :
      /\ Reads(Written(h, s, t), h, s, t)
      /\ Reads(Front(Written(h, s, t)), h, s, t)

\* 50 connections fill the array of links, 100 hosts that of the manager, and 100
\* lines those of ids, whatever the file announces; one more is written past them.
Lines(n) == [k \in 1 .. n |-> << 0, 1 >>]
Announced(h, c, n) ==
  Text(h) \o <<File!Newline>> \o Text(1) \o <<File!Newline>> \o Text(c)
    \o <<File!Newline>> \o FlattenSeq([k \in DOMAIN Lines(n) |-> TextLine(Lines(n)[k])])
ASSUME
  /\ \A c \in {50, 51} :
       LET file == Written(1, 1, Lines(c))
       IN  (File!Overruns(file) <=> c > 50) /\ (File!Determined(file) <=> c <= 50)
  /\ \A h \in {100, 101} : File!Overruns(Announced(h, 1, 1)) <=> h > 100
  /\ \A n \in {100, 101} : File!Overruns(Announced(1, 1, n)) <=> n > 100

\* A switch has room for ten neighbours, and not for eleven.
ASSUME \A n \in {10, 11} : switchOverruns([k \in 1 .. n |-> << k, 0 >>], 0) <=> n > 10

\* A word that is not a number is accepted, and makes numlinks -2; a minus sign
\* is overlooked; and a file that ends early has its last line read again.
ASSUME LET x == << 120, File!Newline >>
           one == << 49, File!Newline >>
           minus == << 45, 49, File!Newline >>
       IN  /\ File!numlinksIn(one \o one \o x) = -2
           /\ File!numhostsIn(minus) = 1
           /\ File!numswitchesIn(minus) = 1 /\ ~File!Determined(minus)
=============================================================================
