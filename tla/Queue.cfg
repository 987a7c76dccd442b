SPECIFICATION FairSpec
CONSTANTS
  Senders = {s1, s2}
  Capacity = 2
  ControlCapacity = 2
  Policies = {"block_with_timeout", "drop_oldest"}
  MaxSends = 3
  MaxEvents = 5
INVARIANTS OneFate DroppedIsLoss SenderOrder OverflowAnnounced NoPanic
PROPERTY SendReturns
