CONSTANTS
    a1 = a1
    a2 = a2
    h1 = h1
    Addr = {a1, a2}
    Prime = {a1, a2}
    InfoHash = {h1}
    NoHash = NoHash
    MaxTransactions = 2
    MaxRetries = 1
    MaxCursor = 3
    MaxNodes = 2
    BlackMax = 1
    Crawl = TRUE
SYMMETRY AddrSymmetry
SPECIFICATION Spec
INVARIANTS TypeOK IndexPrecise NoDuplicateQuery
PROPERTIES BlacklistEarned RetryBacksOff AnsweredConcludes
