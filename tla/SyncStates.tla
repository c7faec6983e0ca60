----------------------------- MODULE SyncStates -----------------------------
(***************************************************************************)
(* The synchronisation states that cloud-event-proxy reports, how two of   *)
(* them combine, and the decision table by which one parsed log sample     *)
(* turns the remembered state of a clock into a new state and, perhaps, an *)
(* event.  Pure operators: the modules with state extend this one.         *)
(***************************************************************************)

\* ptp.SyncState.  NoState is the Go zero value "": nothing reported yet.
FREERUN  == "FREERUN"
HOLDOVER == "HOLDOVER"
LOCKED   == "LOCKED"
NoState  == "none"

SyncState   == {FREERUN, HOLDOVER, LOCKED}
StateOrNone == SyncState \cup {NoState}

\* The two event types whose publication rule differs: E1 (the PTP clock)
\* and E3 (the operating system clock).
PtpStateChange         == "PtpStateChange"
OsClockSyncStateChange == "OsClockSyncStateChange"
EventType == {PtpStateChange, OsClockSyncStateChange}

-----------------------------------------------------------------------------
\* The worst state of a set: the reference definition of an aggregate.
Worst(S) ==
    IF FREERUN \in S THEN FREERUN
    ELSE IF HOLDOVER \in S THEN HOLDOVER
    ELSE IF LOCKED \in S THEN LOCKED
    ELSE NoState

\* OverallState of manager.go: combines two states; NoState is neutral.
OverallState(current, updated) ==
    IF current = NoState \/ updated = FREERUN THEN updated
    ELSE IF updated = HOLDOVER /\ current # FREERUN THEN updated
    ELSE current

-----------------------------------------------------------------------------
(***************************************************************************)
(* GenPTPEvent.  `last' is the remembered state, `clockState' the sampled  *)
(* one, `inRange' whether the sampled offset is below the profile's        *)
(* maximum offset threshold.                                               *)
(***************************************************************************)

\* The state remembered after the call.
GenState(last, clockState, inRange) ==
    IF clockState = NoState THEN last
    ELSE IF clockState # LOCKED \/ inRange THEN clockState
    ELSE IF last = HOLDOVER THEN HOLDOVER
    ELSE FREERUN

\* Whether the call stores a state: the LOCKED branches store only a change,
\* the other two branches always store.
GenStores(last, clockState, inRange) ==
    \/ clockState \in {HOLDOVER, FREERUN}
    \/ GenState(last, clockState, inRange) # last

\* Mutant: the E3 exception of the HOLDOVER to FREERUN rule is forgotten.
GenPublishesNoE3Exception(last, clockState, inRange, eventType) ==
    /\ GenState(last, clockState, inRange) # last
    /\ ~(clockState = FREERUN /\ last = HOLDOVER)

\* Mutant: no event leaves HOLDOVER, not even LOCKED.
GenPublishesNotFromHoldover(last, clockState, inRange, eventType) ==
    /\ GenState(last, clockState, inRange) # last
    /\ ~(last = HOLDOVER /\ eventType = PtpStateChange)

\* Whether the call publishes its new state: on every change, but for E1 going
\* from HOLDOVER to FREERUN, which is left to the holdover timer.
GenPublishes(last, clockState, inRange, eventType) ==
    /\ GenState(last, clockState, inRange) # last
    /\ ~ /\ clockState = FREERUN
         /\ last = HOLDOVER
         /\ eventType = PtpStateChange

\* Whether the call closes the profile's holdover channel.
GenCancels(last, clockState, inRange) ==
    clockState = LOCKED /\ last = HOLDOVER /\ inRange
=============================================================================
