\* A ROLLBACK that cancels a calculation, without crashes.
SPECIFICATION Spec
CONSTANTS
    a1 = a1
    a2 = a2
    s1 = s1
    s2 = s2
    Address = {a1, a2}
    Shard = {s1, s2}
    ShardOf <- MCShardOf
    IISSData <- MCOneIISSData
    Term = 2
    MaxHeight = 4
    MaxCrashes = 0
    RollbackWhileCalculating = TRUE
    NoAccount = NoAccount
    NoData = NoData
INVARIANTS
    QueryDBServesChain
