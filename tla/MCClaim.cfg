\* Two candidate blocks per height, two claims each; a calculation per block.
SPECIFICATION Spec
CONSTANTS
    Address = {a1, a2}
    Hash = {b1, b2}
    ClaimMinIScore = 2
    ClaimBackupPeriod = 1
    Rewards = {3}
    Term = 1
    MaxHeight = 5
    MaxTx = 2
    NoBackup = NoBackup
SYMMETRY Symmetry
INVARIANTS
    TypeOK
    ClaimDBIsLedger
    RestartAccepted
    BackupsReachBack
    IInv
    
