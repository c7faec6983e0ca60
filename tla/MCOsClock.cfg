SPECIFICATION FairSpec
CONSTANTS
    Running <- MCPhc2sys
    Opts <- MCPhc2sys
    MaxGen = 3
    MaxArms = 4
INVARIANTS
    TypeOK
    E3Announced
    UndisciplinedIsFreerun
    UndisciplinedHasEvidence
    WindowNeverStranded
    SeriesShowE3
PROPERTIES
    StaleCallbackInert
    WindowCloses
