SPECIFICATION TimedSpec
CONSTANTS
  HostLittleEndian = FALSE
  Packets <- OnePacket
  MaxSent = 13
  ReadSizes <- EverySize
  JoinOffsets <- JoinInside
  Late = 1
  Stall = 20
  InFlight <- Cuts
INVARIANTS Backlog Fresh CatchesUp EveryCycle
PROPERTY ImplementsRelay
