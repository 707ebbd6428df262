CONSTANTS
    a1 = a1
    a2 = a2
    h1 = h1
    Addr = {a1, a2}
    Prime = {a1}
    InfoHash = {h1}
    NoHash = NoHash
    MaxTransactions = 1
    MaxRetries = 2
    MaxCursor = 2
    MaxNodes = 1
    BlackMax = 1
    Crawl = FALSE
SPECIFICATION FairSpec
INVARIANTS Capacity
PROPERTIES RetriedConcludes
