SPECIFICATION Spec
CONSTANTS
    Hosts <- MCHosts
    OfferedHosts <- MCOfferedHosts
    CrossedRoles = FALSE
    HostLen <- MCHostLen
    Truncated <- MCTruncated
    EmptyHost <- MCEmptyHost
    ClientIds = {id1}
    GeneratedIds = {gen1, gen2}
    ZeroId = zeroId
    ZeroChallenge = zeroChallenge
    ServerChallenge = serverChallenge
    OfferedVersions = {1, 3}
    ShortBuffers = {}
    MaxHandle = 2
PROPERTIES
    IdentityStable
CHECK_DEADLOCK FALSE
