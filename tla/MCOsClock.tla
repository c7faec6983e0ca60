------------------------------ MODULE MCOsClock ------------------------------
(* Instances of OsClockDiscipline for TLC. *)
EXTENDS OsClockDiscipline

MCPhc2sys == {"phc2sys"}
MCBoth    == {"phc2sys", "chronyd"}
=============================================================================
