SPECIFICATION FairSpec
CONSTANTS
    Daemons = {p1, p2}
    Self = p1
    Clients = {c1}
    Watchers = {w1}
    Threads <- MCThreads
    Blocked = {e1}
    MaxReloads = 1
    EventCapacity = 1
INVARIANTS PathsLeadToDaemon AlertsNotDoubled
PROPERTY ShutdownEnds
CHECK_DEADLOCK FALSE
