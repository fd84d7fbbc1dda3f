SPECIFICATION Spec
CONSTANTS
    Ids <- MCIds
    ZeroId <- MCZeroId
    Accounts = {account}
    Fallback = user
    Addresses = {a1, a2}
    None = None
    MaxHandle = 2
    Conns = {conn1, conn2}
    MaxNative = 1
INVARIANTS
    PrintableAsText
CHECK_DEADLOCK FALSE
