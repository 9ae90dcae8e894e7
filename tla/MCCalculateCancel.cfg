\* A crash may hit any step, and ROLLBACK may cancel a calculation.
SPECIFICATION Spec
CONSTANTS
    a1 = a1
    a2 = a2
    s1 = s1
    s2 = s2
    Address = {a1, a2}
    Shard = {s1, s2}
    ShardOf <- MCShardOf
    IISSData <- MCSparseIISSData
    Term = 2
    MaxHeight = 6
    MaxCrashes = 1
    RollbackWhileCalculating = TRUE
    NoAccount = NoAccount
    NoData = NoData
INVARIANTS
    OneBackupGeneration
    
