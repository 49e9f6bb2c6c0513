SPECIFICATION Spec
CONSTANTS
  Links <- MCLinks
  Payload <- MCPayload
  Garbage = Garbage
  PAYLOAD_LENGTH = 2
  ReadMax = 11
  PipeMax = 100
  MAXQUEUE = 2
  MAXTABLE = 2
  Switches <- MCSwitches
  inLinks <- MCinLinks
  outLinks <- MCoutLinks
  HostOut <- MCHostOut
  SrcAddrs <- MCCutAddrs
  DestAddrs <- MCOneDest
  MaxSend <- MCCutSend
  Pace = "any"
  Behind <- MCBehind
CHECK_DEADLOCK FALSE
INVARIANTS
  TypeOK
  SourceKnown
  TableDistinct
  IndexInRange
  FewAreSafe
PROPERTIES
  QueuesAreFifos
