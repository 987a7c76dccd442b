SPECIFICATION FairSpec
CONSTANTS
  a = a
  b = b
  c = c
  d = d
  Ids = {a, b, c, d}
  MainEvents <- JudgedEvents
  OverflowEvents <- PlainOverflow
  Triggers <- SomeTriggers
  Files = {}
  BatchSize = 2
  Subs = {s}
  SubCapacity = 1
  MaxRedactions = 2
  StartServices = {"noop"}
  MayStop = FALSE
  MaxEvents = 2
  MaxFailures = 1
  MaxRestarts = 0
INVARIANTS SubscribersFollow StoredFaithfully
PROPERTY EventuallyStored
