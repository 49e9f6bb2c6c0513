# net367: a verification project

`net367` simulates a small packet network with processes.  A topology file names
hosts and switches and the connections between them; `main` creates a pair of
pipes per connection, a pair of pipes between the manager and each host, forks
one process per node, and becomes the manager, the console at which the user
tells hosts to upload a file into a packet, transmit it, and download what they
received.  This directory holds TLA+ models of the program, TLC configurations
that check them on small networks, and TLAPS proofs for all sizes.

## Inventory

| Part | Source | State | Operations | What makes it correct |
|---|---|---|---|---|
| Links and the text codec | `link.c`, `utilities.c` | a nonblocking pipe per link | `linkSend`, `linkReceive`, `linkCreate`, `linkClear` | what is decoded is what was encoded; nothing is invented, duplicated or written past a buffer |
| Packet queue | `switch.c:35, 160-217` | a ring with `head`, `tail`, `size` | `queuePush`, `queuePop`, `queueIsFull`, `queueIsEmpty` | a bounded first-in first-out buffer |
| Forwarding table | `switch.c:31, 226-315` | entries (address, link) and `size` | `tableUpdate`, `tableGetOutLink` | one entry per address, pointing towards it; at most `MAXTABLE` entries |
| Switch | `switch.c:21-152` | its queue, table and links, the packet being sent | poll the links, store and learn, send on one link or on all but one | forwards each packet towards its destination once, never back, comes to rest |
| Host | `host.c` | address, directory, send and receive buffer with `new` and `is_valid`, files on disk | seven commands, receive | a packet is stored whole, a command changes what it says and is answered |
| Manager | `man.c` | the current host, the command being waited for | send a command, wait for its reply, change host, quit | takes each reply for the command it answers; never waits for ever |
| Manager connections | `net.c:53-127, 238-257`, `man.h` | two nonblocking pipes per host | write, read all | no message is lost or run together with another |
| Network setup | `net.c`, `switch.c:42-76`, `main.c` | who has which end of which pipe open | create, assign ends, close the others | each node has the links its topology line says; every link has a reader |
| Topology file | `main.c:184-243` | arrays of node ids | read and parse | the arrays describe the file |
| Logger | `logger.c` | `log.txt` | append a line | none that the rest depends on |
| `man2.c`, `testlink.c` | | | a copy of two functions of `man.c`; a manual test | not in the makefile |

Interactions.  The manager and a host share two pipes and take turns on them.
A host writes one link and reads one link; a switch reads and writes as many as
it has neighbours.  No memory is shared: `fork` gives every process its own
copy.  Every read and write is nonblocking and every process loops with a 10 ms
sleep, so any two processes interleave at the granularity of one read or write.

What is hard here.  A pipe is a byte stream, so writes run together and a read
of at most 1000 bytes can end in the middle of a packet.  The length in a
header is trusted.  Queues, tables and pipes have limits and their overflow is
silent or undefined.  A switch decides where to send when it takes a packet out
of its queue, by a table that may have changed since the packet came in.  The
manager waits for replies without a timeout.  Opening a file is not checked.

## Modules

Models, from the bottom up.  A name in the code has the same name in the model.

* `Link`: the links.  A pipe is a sequence of cells, a number (a header word)
  or one byte of a payload.  A read takes up to `ReadMax` cells and decodes the
  first four words of what it got, as `linkReceive` does, so that packets that
  ran together are lost but for the first, and a packet cut in two is decoded
  wrongly.  A payload is a tag; the bytes of a payload repeat it, so that a
  payload that is decoded in full gives the tag back and any other gives
  `Garbage`.  `linkSend` makes its three checks, and drops the packet if the
  pipe has no room for all of it (POSIX: a nonblocking write of at most
  `PIPE_BUF` bytes is all or nothing).
* `Codec`: what `Link` abstracts from, character by character: a byte as two
  letters with the `signed char` of the compiler, numbers as digits, words
  between spaces, the text of a packet and what is made of it again.
* `PacketLink`: what a link promises, an abstract specification: the next read
  hands out the first of the packets that wait, unchanged, and loses the rest.
* `TextLink`: a sender and a reader of one pipe of characters, with the sizes of
  the code.  `Abstract` is the instance of `PacketLink` it implements.
* `PacketQueue`, `ForwardingTable`: the two data structures of a switch, as
  operators on the records the C functions get pointers to.  The ring has the
  indices of the code, starting at `head = 0`, `tail = -1`.
* `BoundedFifo`: what the queue promises, an abstract specification.
* `Switch`: the switch processes.  One step does at most one read or write of a
  pipe, with the local computation around it.  `Fifo` is the instance of
  `BoundedFifo` with the refinement mapping.
* `SwitchNet`: switches joined in a tree, with hosts that send at any time
  (`Pace = "any"`) or not before the network is quiet (`"network"`).
* `ManagerLink`, `Manager`, `Host`: the connections, the console and the hosts,
  with the files on disk.  A command is executed in one step with the read that
  fetched it; its reply is another step.
* `Console`: the manager with hosts joined in pairs, as in `src/README`.
* `Network`: the whole program, `Console` and `Switch` together.  It adds what
  happens when a process has died: a write to a pipe whose reader is gone kills
  the writer (`SwitchKilled`).
* `Setup`: `main` and `net.c` from the creation of the pipes to the main loops:
  who has which end of which pipe open, a fork that fails, nodes that begin to
  work while others are still closing ends, and writes to pipes nobody reads.
* `TopologyFile`: `mainSetTopology`, character by character, on `Codec`.
* `Topology`: the arithmetic of `netSetNetworkTopology`, `switchSetupLinks`,
  `netHostInLink` and `netHostOutLink`.  The MC modules compute from it, by an
  `ASSUME`, that the links they use are those of a topology file.

The modules to check: `MCStar` is `testNetwork-1.dat` (one switch, three hosts),
`MCTree` has two switches and three hosts, `MCConsole` two hosts, `MCNetwork`
two hosts at a switch, `MCText` one link, `MCSetup` the five nodes of `MCTree`.

A definition `X_Slip` next to a definition `X` is what a slip in the code would
make of it.  Nothing uses it; replacing `X` by it shows which property notices.

Correspondence, where names differ: `idx` is the loop variable `i` of
`switchStoreIncomingPackets` and `switchSendOutPacket`, counted from 1; `pc` and
`hostPc` say which loop or which half of the loop a process is in; `new[h]` is
`rcvPacketBuff.new`; `mainDir[h] = NoDir` is `main_dir_valid = 0`; `leaked[h]`
counts the files `hostUploadPacket` opened and did not close; `"corrupt"` is a
process that has written past an array (its further behaviour is undefined and
not modelled) and `"dead"` one that has crashed or been killed.  A read that
fills `buffer[1000]` puts its zero one byte past it (`link.c:125`); whether that
byte is padding or another variable is up to the compiler, so in the model the
process goes on or is `"corrupt"` (`Fills`).  In `Setup`,
`open[p]` is the part of the descriptor table of process `p` that is about
pipes, and `busy` the nodes that something has been sent to.

## Runs

| Run | Module | What it shows |
|---|---|---|
| `star` | `MCStar` | one switch, four packets sent at any speed, reads that find whole packets: the table is right; nothing is fabricated, reordered, duplicated or echoed; packets are kept from hosts they are not for; what is lost is what ran together or did not fit; what is queued is forwarded |
| `star_cut` | `MCStar` | reads that fill the buffer and cut packets in two, lengths and addresses that are something else, more addresses than slots: the switch's data structures stay consistent as long as it runs, the rings implement FIFO buffers, and it takes a read full of packets or more addresses than slots before a switch writes past an array |
| `tree_calm` | `MCTree` | two switches, four packets, two of them of one host, one on its way at a time: tables are right across switches, what a host sends arrives in order, nothing is lost or echoed, the network comes to rest |
| `tree` | `MCTree` | two switches, any speed: what is still true although tables can point the wrong way |
| `tree_livelock` | `MCTree` | *violation*: at any speed a packet can go back and forth between the switches for ever |
| `console` | `MCConsole` | all sequences of 11 different commands for two hosts, in every interleaving: commands and replies take turns, what is in a file is a copy of a file (or of what was in a send buffer nobody had filled), hosts change in the foreground only |
| `console_overwritten` | `MCConsole` | *violation*: a new packet replaces one that was not downloaded |
| `network` | `MCNetwork` | manager, two hosts and a switch, one host crashing and the switch killed by writing to it: the first to die holds up the manager, nobody the user can still command is in danger, and files a switch has passed on are such copies, also when packets from filled and unfilled send buffers are on their way together |
| `network_live` | `MCNetwork` | the same with fairness: a packet gets from one host to the other, and every command is answered unless it stops the host |
| `text_link` | `MCText` | a link of text is a link of packets, for packets of 1 to 200 bytes, addresses of 1 to 5 digits and all bytes the codec restores |
| `text_signed` | `MCText` | *violation*: bytes above 127 are not restored |
| `setup` | `MCSetup` | every order of forks, closings and first writes, with a fork that fails at any point: each end of a pipe is in the end open where it is used and nowhere else; the `ASSUME`s check that topology files are read as they were written, what becomes of invalid ones, and at which sizes the arrays of `main` and of a switch overflow |

Bounds.  `PAYLOAD_LENGTH` is 1 or 2 instead of 200 except in `text_link`: a
payload of one byte is enough unless reads are cut, and then two bytes are the
least that can be cut.  `MAXQUEUE` is 2 (1 in `network_live`) instead of 5:
rings wrap around and overflow (1 in `network` and `network_live`).  `MAXTABLE` is
3 or 2, the number of addresses in use, so a table fills up and any duplicate
entry would overflow it; in `star_cut` the hosts use three addresses and have
two slots, and reads that cut packets make up more.  `ReadMax` is 100 cells where a
read takes everything and 11 in `star_cut`: two packets of five cells and a part of
the third.  There one host sends four packets, from addresses that can be taken
for lengths (`MCCutAddrs`, `MCCutSend`), all to one address, which is enough since
pieces of packets give others.  `PipeMax` is 100 cells in the networks of
switches, where nobody reads the links to hosts (they serve as history); where
hosts read it is 10 or 8 in the console runs, so that a pipe holds two packets, and
5 or 4 in the runs of `MCNetwork`, so that it holds one and the next is lost.
`MaxSend` bounds the packets of each host; with two from one host and one from each
other, packets run together, overtake those of other hosts, fill a queue and
overflow it.  `FreshSend`, what an uninitialised send buffer may hold
(`host.c:126`), is in `console` and `network` a packet that can be sent, of a
length that in `network` no file has, and in the other runs one that cannot, so
that what they are about is a file.  `MaxOpen` is 1: the second file
opened after a leak fails.  The console menus list the commands a user can
give; their number is not bounded.  `READ_SIZE` is the 1000 of the code, and
`MaxWaiting` 2: a third packet of 200 bytes makes a read that is cut or
fills the buffer, which is what `star_cut` is about.  `setup` needs no bound: `busy` is a set.

Deadlock is checked except where the program really may stop: in `star_cut` the
only switch can be `"corrupt"`; in the runs with a console the user can quit or
be left waiting for a dead host; in `setup` likewise.

Fairness.  Weak fairness of each switch, each host and the manager's polling:
their loops contain no blocking call, and a sleep ends.  Nothing is assumed of the user, nor of the hosts' sending in `SwitchNet`.

## What the violations mean

* `tree_livelock`.  `switch.c:80-106` is a loop that passes packets on, and in a
  tree "send to all links except for the incoming link" (`switch.c:137`) should
  make it end.  A packet with a known destination may leave on the link it came
  in on (`switch.c:132-135` do not look).  Switch 3 floods a packet from host 0
  to host 1; while it waits in the queue of switch 4, a packet from host 1
  comes in there and switch 4 learns that host 1 lies behind switch 3; so it
  sends the first packet back, and switch 3 learns that host 0 lies behind
  switch 4.  Nobody has moved, no packet was lost or cut, and the two tables
  now point at each other: the next packet to host 0 never stops.
* `console_overwritten`.  `src/README:44-50` says a packet that comes in while
  there is a new one is lost.  `host.c:237` does not look at the `new` of the
  buffer, only at that of the incoming packet: the older packet is lost.
* `text_signed`.  `link.c:38-40` says that decoding gives "the original
  values".  `char` is signed on the machine the program is written for: a byte
  above 127 is negative, division rounds it towards zero, and its upper letter
  is one too high, unless the byte is a multiple of 16.

## Proofs

Theorems hold for every value of the constants that meets the named assumptions
(`LinkAssumption`, `QueueAssumption`, `SwitchAssumption`, `NetAssumption`,
`TreeAssumption`, `ManagerLinkAssumption`, `MenuAssumption`, `HostAssumption`,
`SetupAssumption`, `CodecAssumption`, `TextAssumption`).

* `Link_proof`: `linkReceive` returns a packet and `linkSend` writes cells
  however the stream is cut.  `FirstPacket`: if a read takes all there is, and
  the pipe begins with a packet, the read gives that packet as it was sent.
  The argument counts words: the first four cells of an encoded packet are the
  first four word beginnings, and any other has more than four before it.
* `Codec_proof`: `ByteRoundTrip`, a byte is restored exactly if it is below 128
  or a multiple of 16; `PayloadRoundTrip`, for payloads of any length;
  `NumberRoundTrip`, for numbers of any size; `PacketRoundTrip`, for packets
  followed by nothing or by other packets.  What is said of all numbers is proved
  by the least number it would not hold for (`Least`), as sets need no induction
  scheme; `digits` is first shown to exist, since a recursive function is a
  `CHOOSE`.  A word is found by its number because putting a space and a word
  after a text adds one word beginning and keeps the others (`WordFound`).
  From these `TextIsLink` (`ImplementsLink`) and `RestorableIsRestored` (`Restored`), if the packets that pass the checks of
  `linkSend` have restorable bytes and addresses that are not negative, and
  `MaxWaiting` of them are shorter than a read (`TextFits`, which TLC evaluates
  for `text_link` by an `ASSUME` in `MCText`; `text_signed` shows that the first
  condition is needed).  The invariant: the text begins with that of the first
  packet that waits (`FirstIsThere`), and all of it is less than a read takes
  (`FewWait`).
* `Switch_proof`: first `PushRing` and `PopRing`: on every consistent ring a push
  appends and a pop takes the head of `Contents`; the arithmetic of `%` is in
  lemmas of its own.  Then the invariant of the switches, whoever else writes the pipes:
  types, ring consistency (`tail` follows from `head` and `size`; without it a
  push could land anywhere), distinct addresses, every queued source known, and
  link numbers within the links.  A source stays known because a table only
  grows, and the entry is there because `SwitchStore` learns in the step that
  queues.  Also that each step of a switch is one of `BoundedFifo` or none.
* `SwitchNet_proof`: from it `TypeCorrect`, `SourceIsKnown`,
  `OneEntryPerAddress`, `LinksExist` and the refinement `QueuesImplementFifos`,
  for any tree of switches and any speed.
* `SwitchNet_proof` too, under the hypothesis `[]WholeReads` (in no pipe that a
  switch reads does ever wait as much as fills its buffer, so reads find whole
  packets; packets still run together and are lost): `NeighboursAreKnown`
  (`HostPortsTruthful`), `StarTablesAreTrue` (`TableTruthful`, if all neighbours
  of switches are hosts) and `OthersAreSpared` (`SpareTheOthers`).
  The invariant `Whole`: what is in a pipe begins with a packet of its writer, so
  by `FirstPacket` each read gives such a packet; what queues hold are such
  packets; and while a packet is being sent, the link in `outLink` is one the
  table still has for its address.
  `FewFitTheArrays` (`FewAreSafe`), if all neighbours of switches are hosts
  (`Star`), takes nothing of reads or of the number of addresses: that a read does
  not fill its buffer and that a table has a slot left follow from how little has
  been sent so far.  The invariant `FewInv`: what waits in a host's pipe is no more
  than the host has sent, and as long as that is little, pipes begin with
  sent packets and tables have the addresses of sent packets only; then the size of
  a table is a pigeonhole.
* `Delivery_proof`: what becomes of packets.
  `NothingIsFabricated` (`NoFabrication`), in any tree at any speed, if reads find
  whole packets.  The invariant `Genuine`: every pipe is made of packets that were
  sent (a payload has its own header before it, whatever else has run together
  with it), and queues and transmissions hold such packets.
  `OrderIsKept` (`InOrder`), if in addition `Star` holds.  In a switch the outputs, the packet being sent and the queue are in
  order (`InRow`), and what waits at an input is a packet after all that has come
  in there (`Fresh`); the second is what makes the first inductive.
  `NothingIsEchoed` (`NoEcho`), if besides no two hosts have an address
  (`OwnAddrs`): the link a packet goes back on is the one the table has for its
  address, and the table is right.
  `FewAreDelivered` (`FewAreKept`), for one switch, without the hypothesis about
  reads, if one packet does not fill a read and as many as the queue takes fit a pipe
  (`PacketsFit`).  The invariant says where each packet is for each host it is for:
  in the sender's pipe, in the queue, being sent and not yet to this host, or
  there.  A queue of different packets of which one more exists is not full, and
  neither is a pipe that has each at most once: two pigeonholes.
  The rest is about trees of any number of switches whose hosts send one packet
  at a time (`CalmTree`), and takes nothing of reads: `TreeTablesAreTrue`
  (`TableTruthful`), `TreeKeepsOrder` (`InOrder`), `TreeEchoesNothing` (`NoEcho`)
  and `NothingIsLost` (`NoneLost`).  `CalmTree` asks, beyond `TreeAssumption`
  (in which the links two neighbours share are a pair), that `Pace` is
  `"network"`, that no two hosts have an address, that hosts are joined by
  switches, that a packet does not fill a read, and that all that can be sent fits the pipe
  of a link to a host, since no host reads in `SwitchNet` (in the code a packet
  takes some 400 bytes, a read 1000 and a pipe 65536, and hosts read).  TLC
  evaluates it for the constants of `tree_calm`, by an `ASSUME` in `MCTree`.
  The graph argument is about `Beyond(l)`, the smallest set of links with `l` that
  is closed under going on through a switch: what a host sends comes to a switch
  on one port and does not leave by it (`OneWay`), it never comes back to a link
  it has gone on from (`NoReturn`), and the port it comes in on leads to its
  sender (`WayBack`).  The invariant `Calm`: an entry points to where a host of that address can
  come from (`Tables`); a switch that has heard of an address on a link from
  another switch was told by it, so that one knows the address too (`Heard`);
  the links to hosts hold whole packets in order, with room (`Ends`); and either
  all is quiet and what was sent has arrived, or there is one packet (`OnWay`).
  Wherever that packet is, the switch has learned where it came in, what lies
  ahead has not seen it, and it has come or is still due to everyone it is for.
  `Heard` is what makes this inductive: without it a switch could send a packet
  back on the link it came in on, as in `tree_livelock`.
* `Console_proof`: `TakeTurns` (commands and replies alternate),
  `TypeCorrect`, `SettingsInForeground`.  `Conversation` is inductive with the
  types because it says for each host where the one command is: sent, being
  answered, answered, or lost with the host.  `DownloadsAreCopies`
  (`FilesAreCopies`), if reads find whole packets, whatever is in a send buffer
  before the first upload (such contents are among the `Copies`): the invariant
  follows a copy from the file or the unfilled buffer to the send buffer, the pipe,
  the receive buffer and the file.
* `Network_proof`: `NetTakeTurns`, `NetTypeCorrect`, `TheFirstDeathHoldsUp`
  and `NoHostKilledSending`, for any hosts and switches.  The invariants of
  `Console_proof` and `Switch_proof` are carried over.  `Mourned` adds that a
  dead host has left no message behind: then the manager cannot stop waiting
  for it, gives no command to anybody else, and so no host transmits.
  `NetDownloadsAreCopies` (`FilesAreCopies`), if reads find whole packets: the
  invariant of `DownloadsAreCopies`, and that switches queue and send nothing but
  copies, which `PushRing` and `PopRing` keep.
* `Setup_proof`: `SetupTypeCorrect`, `EndsAreInPlace` and `OnlyTheDeadKill`, for
  any number of nodes and links.  The inductive invariant gives, for each place in the code a
  process can be at, exactly what it has open.  A process that has not come to
  its main loop still has every end open that another reads, so only the death
  of the reader can leave a pipe without one; the first to die was a host.

Only model-checked: liveness (`ComesToRest`, `QueuedIsForwarded`, `Delivered`,
`AnsweredOrDead`), which TLAPS cannot do with fairness.  In trees of
several switches `TableTruthful`, `InOrder` and `NoEcho` are claimed for one
packet at a time only: at any speed tables may come to point the wrong way, as in
`tree_livelock`.

## Not modelled

* A read in `Link` ends between cells; the real one can also end inside a
  number or between the two letters of a byte, which adds wrong values of the
  same kinds (a wrong number, a garbled payload).
* `reply[-1]` or `command[-1]` when a read finds nothing (`man.c:94`,
  `host.c:264`): one byte outside an array, whose neighbour is the compiler's
  choice.
* Commands and replies longer than 250 bytes, and directory names longer than
  `main_dir`: the menus have none, since the text of a message is not modelled.
* The display of a reply left in memory by an earlier poll (`man.c:141-145`):
  `manWaitForReply` looks at its buffer even if nothing was read.
* Input that is not a number, and the end of the input, at which the console
  prompts for ever (`man.c:183, 437`): reading the terminal is left out.
* Topologies with a cycle, which the assumptions of `SwitchNet` exclude: flooding
  does not end in them, and no comment says they are meant to work.
* What becomes of `main` or a switch that has written past its arrays: more than
  100 hosts, 50 connections (`link[100]`, `link.h:4`) or 100 lines, and a switch
  with more than ten neighbours (`inLinks[10]`, `outLinks[10]`, `switch.h:41-42`).
  `Overruns` and `switchOverruns` say when this happens; the models of the nodes
  start from networks for which it does not.
* Promises the code does not make, so that no property states them: that a packet
  written to a full pipe arrives, what "Packet sent" tells the user (`host.c:316`), and
  what a second download of the same packet should do (`host.c:429`).
* `pipe` failing (`main` stops at once), the logger (nothing depends on it),
  and `man2.c` and `testlink.c` (not in the makefile).

## Plan

What is left, in this order.

1. `TopologyFile`: that a file is read as it was written, for any network, from
   `NumberRoundTrip` and `WordFound`; now by `ASSUME`s in `MCSetup` for some.
2. `NothingIsFabricated` without the hypothesis about reads: which packets can
   be made of the pieces of others when a read cuts them.
