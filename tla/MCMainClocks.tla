---------------------------- MODULE MCMainClocks ----------------------------
\* Small instances of MainClocks and SyncEPorts for TLC.  The lines of a clock
\* and those of a SyncE device belong to different configurations and share no
\* state, so that a run looks at the ones or the others.
EXTENDS MainClocks, SyncEPorts

VARIABLE lines

MCvars == <<vars, synceVars, lines>>

MCInit == lines \in {"clock", "synce"} /\ Init /\ SyncEInit

ClockLines == lines = "clock" /\ Next /\ UNCHANGED <<synceVars, lines>>
SyncELines == lines = "synce" /\ SyncENext /\ UNCHANGED <<vars, lines>>

MCSpec == MCInit /\ [][ClockLines \/ SyncELines]_MCvars
=============================================================================
