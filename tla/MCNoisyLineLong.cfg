SPECIFICATION NoisySpec
CONSTANTS
  HostLittleEndian = TRUE
  Packets <- OnePacket
  MaxSent = 2
  ReadSizes <- LongReads
  JoinOffsets <- JoinInside
  NoiseRuns <- LongRun
  LossSizes <- MostOfAFrame
  LineCapacity = 4096
  Places <- TwoPlaces
  MaxFaults = 1
PROPERTY ParsesAtHeader
