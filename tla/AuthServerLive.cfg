SPECIFICATION FairSpec
CONSTANTS
    c1 = c1
    c2 = c2
    GateKeeper = GateKeeper
    NTLM = NTLM
    Conn <- MCConn
    Packages = {GateKeeper}
    None = None
    Fallback = Fallback
    MaxLines = 3
PROPERTIES
    LinesAnswered
    SessionsReleased
CHECK_DEADLOCK FALSE
