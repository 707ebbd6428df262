CONSTANTS
    k1 = k1
    k2 = k2
    v1 = v1
    v2 = v2
    r1 = r1
    r2 = r2
    Key = {k1, k2}
    NoKey = NoKey
    View = {v1, v2}
    FirstView = v1
    NoView = NoView
    Row = {r1, r2}
    NoRow = NoRow
    MaxAttempts = 2
    MaxFlight = 2
    MaxMoves = 4
SPECIFICATION FairSpec
INVARIANTS TypeOK OnePoll DialogShowsRow
PROPERTIES PanelSettles DialogEnds
