CONSTANTS
    a1 = a1
    a2 = a2
    a3 = a3
    Addr = {a1, a2, a3}
    MaxPrefix = 3
    Ids <- MCIds
    K = 2
    MaxNodes = 3
    NodeExpiry = 0
    MaxClock = 1
SYMMETRY AddrSymmetry
SPECIFICATION Spec
INVARIANTS TypeOK LeafPartition BucketShape CopiesAgree
PROPERTIES InsertPlaces PruneCleansCache
