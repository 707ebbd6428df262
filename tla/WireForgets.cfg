CONSTANTS
    Peer = {p1, p2}
    InfoHash = {h1}
    Workers = 1
    QueueSize = 1
    BlackMax = 1
SPECIFICATION FairSpec
PROPERTIES RequestsForgotten
