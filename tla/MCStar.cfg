SPECIFICATION FairSpec
CONSTANTS
  Links <- MCLinks
  Payload <- MCPayload
  Garbage = Garbage
  PAYLOAD_LENGTH = 1
  ReadMax = 100
  PipeMax = 100
  MAXQUEUE = 2
  MAXTABLE = 3
  Switches <- MCSwitches
  inLinks <- MCinLinks
  outLinks <- MCoutLinks
  HostOut <- MCHostOut
  SrcAddrs <- MCStable
  DestAddrs <- MCDest
  MaxSend <- MCFour
  Pace = "any"
  Behind <- MCBehind
INVARIANTS
  TableTruthful
  NoFabrication
  InOrder
  NoEcho
  FewAreKept
PROPERTIES
  SpareTheOthers
  QueuedIsForwarded
