SPECIFICATION NoisySpec
CONSTANTS
  HostLittleEndian = TRUE
  Packets <- EndsLikeAHeader
  MaxSent = 2
  ReadSizes <- EdgeReads
  JoinOffsets <- JoinAtStart
  NoiseRuns <- RunToTheEdge
  LossSizes <- MostOfAFrame
  LineCapacity = 4096
  Places <- TwoPlaces
  MaxFaults = 1
INVARIANT TwoWrongPacketsPerFault
PROPERTY ParsesAtHeader
