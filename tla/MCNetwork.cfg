SPECIFICATION NetSpec
CONSTANTS
  Links <- MCLinks
  Payload <- MCPayload
  Garbage = Garbage
  PAYLOAD_LENGTH = 2
  ReadMax = 100
  PipeMax = 5
  MAXQUEUE = 1
  MAXTABLE = 2
  Switches <- MCSwitches
  inLinks <- MCinLinks
  outLinks <- MCoutLinks
  Hosts <- MCHosts
  NetAddrs = {0, 1}
  Dirs <- MCDirs
  Names <- MCNames
  NoArg = NoArg
  Menu <- MCMenu
  linkIn <- MClinkIn
  linkOut <- MClinkOut
  RealDirs <- MCOneDir
  NoDir = NoDir
  Disk <- MCDisk
  FreshSend <- MCJunk
  MaxOpen = 1
  dir = dir
  missing = missing
  f1 = f1
  f2 = f2
  junk = junk
CHECK_DEADLOCK FALSE
INVARIANTS
  NetTypeOK
  Conversation
  DeathHoldsUp
  HostsSendSafely
  FilesAreCopies
