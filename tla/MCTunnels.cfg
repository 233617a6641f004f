SPECIFICATION FairSpec
CONSTANTS
    Null = Null
    Entries <- MCEntries
    MaxCalls = 2
INVARIANTS
    RunningIsOwned
    StopLeavesNothing
    EndpointsCurrent
PROPERTY
    CallsReturn
CHECK_DEADLOCK FALSE
