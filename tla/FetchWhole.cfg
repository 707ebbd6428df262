CONSTANTS
    Peer = {p1, p2}
    Block = 2
    MaxSize = 5
    Real = 4
SPECIFICATION Spec
INVARIANTS HonestNotRefused
