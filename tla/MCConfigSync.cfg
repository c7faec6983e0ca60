SPECIFICATION FairSpec
CONSTANTS
    p = p
    q = q
    Profiles = {p, q}
    Versions <- MCVersions
    MaxChanges = 3
INVARIANTS TypeOK OneContent CachedTypeIsResolved
PROPERTIES LastContentInForce
CHECK_DEADLOCK FALSE
