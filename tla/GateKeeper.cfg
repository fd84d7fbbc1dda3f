SPECIFICATION Spec
CONSTANTS
    Hosts <- MCHosts
    OfferedHosts <- MCOfferedHosts
    CrossedRoles = TRUE
    HostLen <- MCHostLen
    Truncated <- MCTruncated
    EmptyHost <- MCEmptyHost
    ClientIds = {id1}
    GeneratedIds = {gen1}
    ZeroId = zeroId
    ZeroChallenge = zeroChallenge
    ServerChallenge = serverChallenge
    OfferedVersions = {1, 2, 3, 5}
    ShortBuffers = {8, 24, 32}
    MaxHandle = 3
INVARIANTS
    TypeOK
    HandlesUnique
    HostBinding
    StrictSessionsStayStrict
    VersionWasNegotiated
    HonestAnswerAccepted
PROPERTIES
    ImplementsContexts
CHECK_DEADLOCK FALSE
