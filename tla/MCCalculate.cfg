\* A crash may hit any step; ROLLBACK waits for CALCULATE_DONE.
SPECIFICATION FairSpec
CONSTANTS
    a1 = a1
    a2 = a2
    s1 = s1
    s2 = s2
    Address = {a1, a2}
    Shard = {s1, s2}
    ShardOf <- MCShardOf
    IISSData <- MCIISSData
    Term = 2
    MaxHeight = 6
    MaxCrashes = 2
    RollbackWhileCalculating = FALSE
    NoAccount = NoAccount
    NoData = NoData
INVARIANTS
    CalcTypeOK
    QueryDBServesChain
    CalcDBIsTruth
    KnownAccountsExact
    AnswersOfChain
PROPERTY
    CalculationsFinish
