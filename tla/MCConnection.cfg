SPECIFICATION FairSpec
CONSTANTS
    c1 = c1
    c2 = c2
    g1 = g1
    g2 = g2
    Conn = {c1, c2}
    Guest = {g1, g2}
    Owners <- MCOwners
    Protected <- MCProtected
    Secrets <- MCSecrets
    PreloadTypes = 1
    MaxApp = 1
    MaxBroken = 1
INVARIANTS
    TypeOK
    ConnectedAgreement
    RejectedNeverConnected
    IdAgreement
    PreloadComplete
    NoUnexpectedMessage
PROPERTIES
    StateMovesForward
    HandshakeEnds
    NoHalfOpen
