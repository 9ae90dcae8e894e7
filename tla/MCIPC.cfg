\* A tool that calculates, and ICON Service.
SPECIFICATION Spec
CONSTANTS
    Tool = {t1}
    Service = {s1}
    Calculators = {t1}
    MaxRequests = 2
INVARIANTS
    IPCTypeOK
    CountedTasksFinish
    RollbackNotOvertaken
    ResponseMatches
    
PROPERTIES
    CloseEnds
    ToolsAnswered
CHECK_DEADLOCK FALSE
