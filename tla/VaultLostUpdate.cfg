SPECIFICATION Spec
CONSTANTS
    Managers = {m1}
    Tools = {t1}
    Servers = {s1}
    u1 = u1
    u2 = u2
    h1 = h1
    h2 = h2
    k1 = k1
    k2 = k2
    Users <- MCUsers
    Hashes <- MCHashes
    Keys <- MCKeys
    None = None
    OneAtATime = FALSE
    CanFail = FALSE
PROPERTIES
    WritesKeepOthers
CHECK_DEADLOCK FALSE
