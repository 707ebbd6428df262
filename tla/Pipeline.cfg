SPECIFICATION FairSpec
CONSTANTS
    h1 = h1
    h2 = h2
    h3 = h3
    InfoHash <- MCInfoHash
    Peer = {p1, p2}
    Listable <- MCListable
    Capacity = 2
    MaxPageSize = 3
    UInt32 = 8
INVARIANTS TypeOK Accounted PagesCover
PROPERTIES StoreKeeps LossHasReason StoredAtLast
