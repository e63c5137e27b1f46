SPECIFICATION Spec
CONSTANTS
    p1 = p1
    p2 = p2
    i1 = i1
    i2 = i2
    s1 = s1
    NoPid = NoPid
    NoInode = NoInode
    Pids <- TwoPids
    Inodes <- TwoInodes
    Scripts <- OneScript
    Sites <- RestartSite
PROPERTY NotRunningIsTrue
