CONSTANTS
    Peer = {p1, p2}
    Block = 2
    MaxSize = 7
    Real = 5
SPECIFICATION FairSpec
INVARIANTS TypeOK RightPiecesSuffice HonestNotRefused
PROPERTIES FetchSpecified HonestServed SilentDropped
