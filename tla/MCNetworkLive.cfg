SPECIFICATION NetFairSpec
CONSTANTS
  Links <- MCLinks
  Payload <- MCPayload
  Garbage = Garbage
  PAYLOAD_LENGTH = 1
  ReadMax = 100
  PipeMax = 4
  MAXQUEUE = 1
  MAXTABLE = 2
  Switches <- MCSwitches
  inLinks <- MCinLinks
  outLinks <- MCoutLinks
  Hosts <- MCHosts
  NetAddrs = {5}
  Dirs <- MCDirs
  Names <- MCNames
  NoArg = NoArg
  Menu <- MCLiveMenu
  linkIn <- MClinkIn
  linkOut <- MClinkOut
  RealDirs <- MCOneDir
  NoDir = NoDir
  Disk <- MCDisk
  FreshSend <- MCNothing
  MaxOpen = 1
  dir = dir
  missing = missing
  f1 = f1
  f2 = f2
  junk = junk
CHECK_DEADLOCK FALSE
PROPERTIES
  Delivered
  AnsweredOrDead
