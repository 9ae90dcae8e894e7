\* Blocks 3 to 6; the smallest delegation does not count.
SPECIFICATION Spec
CONSTANTS
    a1 = a1
    p1 = p1
    p2 = p2
    Account = {a1, p1, p2}
    Candidate <- MCCandidate
    Start = 2
    End = 6
    GVLists <- MCGVLists
    PRepLists <- MCPRepLists
    IScores = {7}
    Delegations <- MCDelegations
    TXLists <- MCTXLists
    BlockLists <- MCBlockLists
    Revisions = {0, 8}
    MinDelegation = 2
    RewardDivider = 4
    Word = 4194304
    NoAccount = NoAccount
INVARIANTS
    
    StatsAreAccounts
    AccountsAtTermEnd
    IssueBounded
    
CHECK_DEADLOCK FALSE
