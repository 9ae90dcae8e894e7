\* Terms of two blocks, backups for one block less than two terms, one candidate block.
SPECIFICATION FairSpec
CONSTANTS
    Address = {a1, a2}
    Hash = {b1}
    ClaimMinIScore = 2
    ClaimBackupPeriod = 3
    Rewards = {3}
    Term = 2
    MaxHeight = 7
    MaxTx = 2
    NoBackup = NoBackup

    
PROPERTY
    RequestsAnswered
