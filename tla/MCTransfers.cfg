SPECIFICATION Spec
CONSTANTS
    r1 = r1
    r2 = r2
    r3 = r3
    t1 = t1
    t2 = t2
    alice = alice
    bob = bob
    n1 = n1
    n2 = n2
    h1 = h1
    i1 = i1
    Null = Null
    Requests <- MCRequests
    TransferIds <- MCTransferIds
    Agents <- MCAgents
    Recipients <- MCAgents
    Nonces <- MCNonces
    Endpoints <- MCEndpoints
    HttpsEndpoints <- MCHttpsEndpoints
    IrohEndpoints <- MCIrohEndpoints
    UnknownEndpoints = {}
    Intents <- MCIntents
    SignedIntents <- MCIntents
    ReachableLists <- MCReachableLists
    TrackedEvents <- MCTrackedEvents
    Tier = "dev"
INVARIANTS
    TypeOK
    PickupHasBlob
    AllowedBeforeStored
    BlobIntentOnce
    BlobAccounted
    TicketsBacked
    AuditTruthful
PROPERTIES
    ImplementsLifecycle
    MintedIsResolved
    DeliveredIsFreed
CHECK_DEADLOCK FALSE
