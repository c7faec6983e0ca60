SPECIFICATION FairSpec
CONSTANTS
    c1 = c1
    c2 = c2
    p1 = p1
    p2 = p2
    s1 = s1
    s2 = s2
    Configs <- One
    Ports = {p1}
    Loaded <- One
    Chronyd <- None
    Failover <- None
    Restarts = TRUE
    Slots = {s1}
PROPERTY
    FreerunAnnounced
