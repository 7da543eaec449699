SPECIFICATION Spec
CONSTANTS
  HostLittleEndian = TRUE
  Packets <- TwoPackets
  MaxSent = 2
  ReadSizes <- EverySize
  JoinOffsets <- SomeJoins
PROPERTY ParsesMostRecent
