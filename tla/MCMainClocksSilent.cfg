\* The same clocks: the FREERUN of a grandmaster that follows the end of ts2phc is
\* never told.
CONSTANTS
    Classes = {6}
    Ports = {s1}
    Levels = {1}
SPECIFICATION MCSpec
INVARIANTS GrandmasterLeavesLocked
