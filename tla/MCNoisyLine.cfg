SPECIFICATION NoisySpec
CONSTANTS
  HostLittleEndian = TRUE
  Packets <- OnePacket
  MaxSent = 3
  ReadSizes <- SomeReads
  JoinOffsets <- JoinInside
  NoiseRuns <- StrayByte
  LossSizes <- MostOfAFrame
  LineCapacity = 45
  Places <- TwoPlaces
  MaxFaults = 2
INVARIANT OneWrongPacketPerFault
