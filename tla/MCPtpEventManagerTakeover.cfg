SPECIFICATION Spec
CONSTANTS
    c1 = c1
    c2 = c2
    p1 = p1
    p2 = p2
    s1 = s1
    s2 = s2
    Configs <- Two
    Ports = {p1}
    Loaded <- Two
    Chronyd <- Ntp
    Failover <- One
    Restarts = TRUE
    Slots = {s1}
INVARIANTS
    E1Announced
    NodeIsWorst
