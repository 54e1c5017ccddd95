CONSTANTS
    Callers = {p, q}
    Handles <- MCHandles
    Scenarios <- MCScenarios
    MaxFilterOps = 4
    CheckpointCapacity = 3
    MaxStored = 2
    MaxRetained = 1
SPECIFICATION FairSpec
INVARIANTS
    NifTypeOK
    NoWaitCycle
    HistoryFollowsFilter
    FinishedIsPrefix
    EncodedRestores
    PublishUnderLock
    TakenOnce
    SolveSnapshot
PROPERTIES
    PoisonConfined
    CallsReturn
