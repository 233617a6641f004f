SPECIFICATION Spec
CONSTANTS
    t1 = t1
    t2 = t2
    e1 = e1
    i1 = i1
    TransferIds <- MCTransferIds
    Endpoints <- MCEndpoints
    IrohEndpoints <- MCIrohEndpoints
    ReachableLists <- MCReachableLists
    Submitted <- MCSubmitted
    FailThreshold = 3
    SuccessThreshold = 2
    U8Max = 255
    Limit = 2
INVARIANT
    StatusFollowsProbes
PROPERTIES
    NoSpuriousFlip
    DownIsNoticed
    StopIsReached
CHECK_DEADLOCK FALSE
