SPECIFICATION Spec
CONSTANTS
    r1 = r1
    r2 = r2
    r3 = r3
    t1 = t1
    t2 = t2
    u1 = u1
    u2 = u2
    n1 = n1
    n2 = n2
    Null = Null
    Requests <- MCRequests
    TransferIds <- MCTransferIds
    Contents <- MCContents
    MaxTransferBytes = 2
    Preloaded <- MCPreloaded
    Urls <- MCUrls
    Tickets <- MCTickets
    Ttl = 1
    Skew = 0
    MaxTime = 2
    MaxLives = 2
INVARIANTS
    ReuseNeedsRestart
    SentAsScanned
    CacheMatchesBlob
SYMMETRY Symmetry
CHECK_DEADLOCK FALSE
