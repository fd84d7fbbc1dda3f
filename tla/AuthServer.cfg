SPECIFICATION Spec
CONSTANTS
    c1 = c1
    c2 = c2
    GateKeeper = GateKeeper
    NTLM = NTLM
    Conn <- MCConn
    Packages <- MCPackages
    None = None
    Fallback = Fallback
    MaxLines = 4
SYMMETRY MCSymmetry
INVARIANTS
    TypeOK
    SessionsAreOwned
    SuccessNamesOwnUser
    EachSuccessHasItsOpening
CHECK_DEADLOCK FALSE
