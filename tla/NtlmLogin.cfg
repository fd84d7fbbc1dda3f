SPECIFICATION Spec
CONSTANTS
    Names <- MCNames
    NameKey <- MCNameKey
    Domains <- MCDomains
    Folded <- MCFolded
    Empty = ""
    Dot = "."
    NonExistent <- MCNonExistent
    Hashes = {hash1, hash2}
    Levels = {guide}
    Challenges = {c1, c2}
    None = None
    MaxHandle = 2
    MaxAccounts = 2
    MaxLogins = 2
INVARIANTS
    TypeOK
    AnswerFitsOneContext
    
PROPERTIES
    ImplementsContexts
CHECK_DEADLOCK FALSE
