SPECIFICATION ParserSpec
CONSTANTS
    codex1 = codex1
    codex2 = codex2
    claude = claude
    s1 = s1
    s2 = s2
    other = other
    m1 = m1
    m2 = m2
    NoModel = NoModel
    Files <- MCFiles
    CodexFiles <- MCCodexFiles
    SessionIds <- MCSessionIds
    SessionOf <- MCSessionOf
    Models <- MCModels
    MaxBlocks = 2
INVARIANTS EventIdsDistinct TokensOnce ModelCurrent
