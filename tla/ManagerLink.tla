----------------------------- MODULE ManagerLink -----------------------------
(***************************************************************************)
(* The connection of the manager with each host (net.c, man.h): a pipe for *)
(* commands and a pipe for replies, both nonblocking.  A read takes all    *)
(* that is in the pipe (up to 250 bytes; longer messages are not           *)
(* modelled), and only the first message in it is looked at.               *)
(***************************************************************************)
EXTENDS Integers, Sequences

CONSTANTS
  Hosts,    \* the hosts, by their physical ids, which count from 0
  NetAddrs, \* the network addresses the user types
  Dirs,     \* the directory names the user types
  Names,    \* the file names the user types
  NoArg     \* stands for the argument of a command without one

ASSUME ManagerLinkAssumption ==
  /\ Hosts \subseteq Nat
  /\ 0 \in Hosts
  /\ NetAddrs \subseteq 0 .. 10000

VARIABLES
  toHost,   \* toHost[h]: commands sent to host h and not yet read
  fromHost  \* fromHost[h]: replies sent by host h and not yet read

\* The commands, with the word that follows them.
Command ==
  [name : {"SetNetAddr", "TransmitPacket"}, arg : NetAddrs]
    \cup [name : {"SetMainDir"}, arg : Dirs]
    \cup [name : {"UploadPacket", "DownloadPacket"}, arg : Names]
    \cup [name : {"ClearRcvFlg", "GetHostState"}, arg : {NoArg}]

\* A reply says which command it answers, by its text, and whether the command
\* was aborted.
Reply == [to : { c.name : c \in Command }, done : BOOLEAN]

\* netCreateConnections: no message in any pipe.
ConnectionsInit ==
  /\ toHost = [h \in Hosts |-> << >>]
  /\ fromHost = [h \in Hosts |-> << >>]
=============================================================================
