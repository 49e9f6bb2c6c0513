SPECIFICATION Spec
CONSTANTS
  PAYLOAD_LENGTH = 200
  READ_SIZE = 1000
  MaxWaiting = 2
  Packets <- MCPackets
PROPERTY
  ImplementsLink
