\* A query of one account beside terms of one block, with backups of one block.
SPECIFICATION QSpec
CONSTANTS
    Address = {a1}
    QueryAddress = {a1}
    Hash = {b1, b2}
    ClaimMinIScore = 2
    ClaimBackupPeriod = 1
    Rewards = {3}
    Term = 1
    MaxHeight = 4
    MaxTx = 2
    NoBackup = NoBackup
INVARIANTS
    QueryHidesNothing
    QueryCountsItsClaim
SYMMETRY Symmetry
