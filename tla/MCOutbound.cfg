SPECIFICATION Spec
CONSTANTS
    hook = hook
    once = once
    op = op
    local = local
    b1 = b1
    b2 = b2
    p0 = p0
    p1 = p1
    p2 = p2
    Loads <- MCLoads
    Jobs <- MCJobs
    JobKind <- MCJobKind
    MaxRetries <- MCMaxRetries
    MaxAttempts = 2
    Timeout = 1
    BackoffUnit = 1
    BaseDelay = 1
    Jitter = 1
    AllowInternal = FALSE
    Batches <- MCBatches
    Probes <- MCProbes
    Permits = 1
    Budget = 3
    RequestTimeout = 2
    MaxTime = 7
    MaxNonceLen = 4
    HexPieces = {"0af1"}
    MaxAgentIdLen = 9
    KeyType <- MCKeyType
    Digest <- MCDigest
    Peers <- MCPeers
    Messages <- MCMessages
    Hosts <- MCHosts
    Answers <- MCAnswers
    CardPlans <- MCCardPlans
    HopPlans <- MCHopPlans
    Tasks <- MCTasks
    Enrolments <- MCEnrolments
    PeerJobs <- MCPeerJobs
    Inbox <- MCInbox
    Signers <- MCSigners
    ControlPlane <- Kim
    MaxChanges = 3
INVARIANTS
    CallsAreBounded
    OverrunBounded
    StaysOutside
    AcceptedWasSigned
    HopsWereSigned
CHECK_DEADLOCK FALSE
