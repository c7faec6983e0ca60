\* A T-GM or a T-BC with two clock classes, or a SyncE device with two ports.
CONSTANTS
    Classes = {6, 248}
    Ports = {s1, s2}
    Levels = {1, 32}
SPECIFICATION MCSpec
INVARIANTS TypeOK StatusReachesSubscribers PullAgreesWithPush NodeNeverBetter PortsTypeOK SyncEPullAgrees
PROPERTIES OsNeverAheadOfE1
