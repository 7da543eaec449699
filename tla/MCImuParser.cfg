SPECIFICATION FairSpec
CONSTANTS
  HostLittleEndian = TRUE
  Packets <- TwoPackets
  MaxSent = 3
  ReadSizes <- EverySize
  JoinOffsets <- SomeJoins
INVARIANTS TypeOK BroadcastGenuine NoCompleteFrameWaiting BufferBounded RelayInOrder Streaming
PROPERTIES ImplementsRelay FrameIsRelayed
