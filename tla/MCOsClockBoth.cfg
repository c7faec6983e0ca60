SPECIFICATION Spec
CONSTANTS
    Running <- MCBoth
    Opts <- MCBoth
    MaxGen = 2
    MaxArms = 3
INVARIANTS
    E3Announced
    SeriesShowE3
