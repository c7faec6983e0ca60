SPECIFICATION MCSpec
CONSTANTS
    c1 = c1
    c2 = c2
    r1 = r1
    p1 = p1
    a1 = a1
    a2 = a2
    Clients = {c1, c2}
    Resources = {r1}
    Publishers = {p1}
    Apis = {a1, a2}
    SubStores = {1, 2}
    Storages = {"configMap", "noClient"}
    Cap = 1
    FailLimit = 2
    MaxEvents = 2
    Absent = Absent
    Idle = Idle
INVARIANTS TypeOK ConfigMapCatchesUp
PROPERTIES RestartKeepsSubscriptions RemovalHasCause ApiAnswers DeliversInOrder
CHECK_DEADLOCK FALSE
