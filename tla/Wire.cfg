SPECIFICATION Spec
CONSTANTS
    Bytes <- MCBytes
    Tokens <- MCTokens
    Payloads <- MCPayloads
    Noise <- MCNoise
    None = None
    MaxLines = 2
INVARIANTS
    TypeOK
    HeardAsSaid
    ReadersAgree
CHECK_DEADLOCK FALSE
