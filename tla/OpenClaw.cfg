SPECIFICATION FairSpec
CONSTANTS
    s1 = s1
    s2 = s2
    r1 = r1
    m1 = m1
    m2 = m2
    m3 = m3
    openai = openai
    anthropic = anthropic
    NoModel = NoModel
    NoProvider = NoProvider
    ReplyError = ReplyError
    Sessions <- MCSessions
    Runs = {r1}
    Models = {m1, m2, m3}
    ProviderOf <- MCProviderOf
    Lists <- MCLists
    Events <- MCEvents
    Sources <- MCSources
    Scanned <- MCScanned
    Agents <- MCAgents
    maxRecentChats = 2
    correlationWindow = 1
    MaxRing = 3
    Times = {0, 1, 2, 3}
    EventCapacity = 1
    MaxFrames = 4
    MaxRequests = 2
INVARIANTS MatchExact StatusHonest ForgottenOnlyIfLate RegistryIsUnion
PROPERTY StopReturns
CHECK_DEADLOCK FALSE
