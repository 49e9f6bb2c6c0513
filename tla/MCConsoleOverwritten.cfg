SPECIFICATION Spec
CONSTANTS
  Links <- MCLinks
  Payload <- MCPayload
  Garbage = Garbage
  PAYLOAD_LENGTH = 2
  ReadMax = 100
  PipeMax = 8
  Hosts <- MCHosts
  NetAddrs = {0, 1}
  Dirs <- MCDirs
  Names <- MCNames
  NoArg = NoArg
  Menu <- MCShortMenu
  linkIn <- MClinkIn
  linkOut <- MClinkOut
  RealDirs <- MCOneDir
  NoDir = NoDir
  Disk <- MCDisk
  FreshSend <- MCNothing
  MaxOpen = 1
  dir = dir
  missing = missing
  f1 = f1
  f2 = f2
  junk = junk
  big = big
CHECK_DEADLOCK FALSE
PROPERTY
  NewPacketKept
