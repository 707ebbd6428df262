SPECIFICATION Spec
CONSTANTS
    Ip = {i1, i2}
    Token = {t1, t2}
    InfoHash = {h1, h2}
    NoHash = NoHash
    Int32 = 16
    UInt16 = 4
    SendPort <- MCSendPort
    NamedPort <- MCNamedPort
    PeersKept = 2
    MaxInfoHashes = 1
    MaxNodes = 1
SYMMETRY ServerSymmetry
INVARIANTS TypeOK AnswersLatest
PROPERTIES AnnounceEarned PledgeKept KeepsServingTracked
