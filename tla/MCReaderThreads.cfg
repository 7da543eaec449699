SPECIFICATION Spec
CONSTANTS
  HostLittleEndian = TRUE
  Signedness <- EitherSign
  Packets <- TwoPackets
  Garbage <- Zeroed
  MaxSent = 3
  ReadSizes <- SomeReads
  JoinOffsets <- SomeJoins
INVARIANTS TypeOK NoRace CopiedGenuine NothingParsed
PROPERTY StaysOnFirstFrame
