SPECIFICATION Spec
CONSTANTS
  a = a
  b = b
  c = c
  d = d
  Ids = {a, b, c, d}
  MainEvents <- LogEvents
  OverflowEvents <- LateOverflow
  Triggers <- NoTriggers
  Files = {}
  BatchSize = 2
  Subs = {}
  SubCapacity = 1
  MaxRedactions = 2
  StartServices = {"rules"}
  MayStop = TRUE
  MaxEvents = 3
  MaxFailures = 1
  MaxRestarts = 1
INVARIANTS ChainVerifies ChainContinues NothingVanishes
PROPERTY LedgerSpec
