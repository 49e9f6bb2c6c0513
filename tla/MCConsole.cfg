SPECIFICATION Spec
CONSTANTS
  Links <- MCLinks
  Payload <- MCPayload
  Garbage = Garbage
  PAYLOAD_LENGTH = 2
  ReadMax = 100
  PipeMax = 10
  Hosts <- MCHosts
  NetAddrs = {0, 1}
  Dirs <- MCDirs
  Names <- MCNames
  NoArg = NoArg
  Menu <- MCMenu
  linkIn <- MClinkIn
  linkOut <- MClinkOut
  RealDirs <- MCOneDir
  NoDir = NoDir
  Disk <- MCDisk
  FreshSend <- MCJunk
  MaxOpen = 1
  dir = dir
  missing = missing
  f1 = f1
  f2 = f2
  junk = junk
  big = big
CHECK_DEADLOCK FALSE
INVARIANTS
  TypeOK
  Conversation
  FilesAreCopies
PROPERTY
  InForeground
