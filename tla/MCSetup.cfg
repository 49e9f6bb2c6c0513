SPECIFICATION Spec
CONSTANTS
  numhosts = 3
  numswitches = 2
  Links <- MCLinks
  linkSrc <- MCsrc
  linkDest <- MCdest
CHECK_DEADLOCK FALSE
INVARIANTS
  SetupTypeOK
  EndsInPlace
PROPERTIES
  KilledByTheDead
