CONSTANTS
    p1 = p1
    p2 = p2
    p3 = p3
    Publishers <- MCPublishers
    Bytes <- MCBytes
    Payload <- MCPayload
    Platforms = {"posix", "nt"}
    MaxRuns = 4
    None = None
    Torn = Torn
SPECIFICATION Spec
INVARIANTS TypeOK CommittedIsExact
PROPERTY ImplementsCommit
CHECK_DEADLOCK FALSE
