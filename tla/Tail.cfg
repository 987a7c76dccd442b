SPECIFICATION FairSpec
CONSTANTS
  Worlds <- AnyAgent
  ChannelCapacity = 1
  QueueCapacity = 2
  MaxCrashes = 1
INVARIANTS OffsetCoversStored PositionsTrue
PROPERTY EventuallyCaptured
