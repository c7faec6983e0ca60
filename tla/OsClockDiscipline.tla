-------------------------- MODULE OsClockDiscipline --------------------------
(***************************************************************************)
(* The operating system clock (CLOCK_REALTIME) of one profile: the         *)
(* selection-window state machine that watches phc2sys, its settle timer,  *)
(* the chronyd path, and the E3 states and metric series they write.       *)
(* phc2sys lines carry the profile's ptp4l.N.config and chronyd lines its  *)
(* chronyd.N.config, so each process has a CLOCK_REALTIME stat of its own; *)
(* they share the profile, its options and the clock_state gauge.  Every   *)
(* log line is handled by ExtractMetrics under extractMu, so a line is one *)
(* atomic step.  The settle timer runs elsewhere: it fires (SettleFires)   *)
(* whether or not the mutex is free, and its callback runs                 *)
(* (SettleCallback) once it has obtained the mutex, perhaps many lines     *)
(* later.  time.Timer.Stop has no effect on a timer that has fired.        *)
(***************************************************************************)
EXTENDS Integers, SyncStates

CONSTANTS
    Running,   \* which of the two OS-clock processes produce log lines
    Opts,      \* which of them the loaded process options of the profile name
    MaxGen,    \* bound: selection windows opened
    MaxArms    \* bound: settle timers started

Process == {"phc2sys", "chronyd"}

\* Options are read from the node profile that also starts the processes, or
\* have not been loaded yet.
ASSUME OsClockAssumption ==
    /\ Running \subseteq Process
    /\ Opts \subseteq Running
    /\ MaxGen \in Nat
    /\ MaxArms \in Nat

VARIABLES
    phase,      \* OsClockDiscipline.phase
    selectGen,  \* OsClockDiscipline.selectGen
    settle,     \* OsClockDiscipline.settle: the timer object, or NoTimer
    callbacks,  \* settle callbacks that have fired and wait for extractMu
    arms,       \* number of timers started so far; names the timers
    crExists,   \* per process: its configuration has a CLOCK_REALTIME stat
    e3,         \* per process: the LastSyncState of that stat
    e3Pub,      \* per process: the state in its last OsClockSyncStateChange event
    series,     \* the CLOCK_REALTIME series of the clock_state gauge
    sourceSeen, \* history: the current selection burst has selected a source
    dismissed   \* history: ... and a line has dismissed the suspicion since

disciplineVars == <<phase, selectGen, settle, arms>>
e3Vars == <<e3, e3Pub, series>>
burstVars == <<sourceSeen, dismissed>>
vars == <<phase, selectGen, settle, callbacks, arms, crExists, e3, e3Pub, series, sourceSeen, dismissed>>

Phase == {"Idle", "Selecting", "SourceSelected", "Undisciplined"}

NoTimer == [id |-> 0, gen |-> 0, fired |-> TRUE]

Timer == [id : Nat, gen : Nat, fired : BOOLEAN]

TypeOK ==
    /\ phase \in Phase
    /\ selectGen \in Nat
    /\ settle \in Timer
    /\ callbacks \subseteq [id : Nat, gen : Nat]
    /\ arms \in Nat
    /\ crExists \in [Process -> BOOLEAN]
    /\ e3 \in [Process -> StateOrNone]
    /\ e3Pub \in [Process -> StateOrNone]
    /\ series \in [Process -> StateOrNone]
    /\ sourceSeen \in BOOLEAN
    /\ dismissed \in BOOLEAN

Init ==
    /\ phase = "Idle"
    /\ selectGen = 0
    /\ settle = NoTimer
    /\ callbacks = {}
    /\ arms = 0
    /\ crExists = [p \in Process |-> FALSE]
    /\ e3 = [p \in Process |-> NoState]
    /\ e3Pub = [p \in Process |-> NoState]
    /\ series = [p \in Process |-> NoState]
    /\ sourceSeen = FALSE
    /\ dismissed = FALSE

-----------------------------------------------------------------------------
(* The methods of OsClockDiscipline, each under its own mutex.             *)

IsWindowOpen == phase \in {"Selecting", "SourceSelected"}

\* stopSettleLocked.
StopSettle == settle' = NoTimer

\* Mutant: the generation counts down.
BeginCountsDown ==
    /\ StopSettle
    /\ selectGen' = selectGen - 1
    /\ phase' = "Selecting"
    /\ UNCHANGED arms

Begin ==
    /\ StopSettle
    /\ selectGen' = selectGen + 1
    /\ phase' = "Selecting"
    /\ UNCHANGED arms

\* Closes an open window; with no window open only the timer is stopped.
Abort ==
    /\ StopSettle
    /\ phase' = IF IsWindowOpen THEN "Idle" ELSE phase
    /\ UNCHANGED <<selectGen, arms>>

\* Starts a timer whose callback captures the current generation.
ArmSettle ==
    /\ arms < MaxArms
    /\ arms' = arms + 1
    /\ settle' = [id |-> arms + 1, gen |-> selectGen, fired |-> FALSE]

\* Mutant: the phase is recorded but no timer is armed.
SourceClockSelectedNoTimer ==
    /\ phase' = "SourceSelected"
    /\ StopSettle
    /\ UNCHANGED <<selectGen, arms>>

SourceClockSelected ==
    /\ phase' = "SourceSelected"
    /\ ArmSettle
    /\ UNCHANGED selectGen

\* Mutant: selecting CLOCK_REALTIME stops the timer but leaves the phase.
SinkClockSelectedKeepsPhase ==
    /\ StopSettle
    /\ UNCHANGED <<phase, selectGen, arms>>

SinkClockSelected ==
    /\ StopSettle
    /\ phase' = "Idle"
    /\ UNCHANGED <<selectGen, arms>>

ReArmSettle ==
    /\ phase = "SourceSelected"
    /\ ArmSettle
    /\ UNCHANGED <<phase, selectGen>>

\* Mutant: an offset sample leaves the Undisciplined phase in place.
ClearOnRealtimeOffsetKeepsUndisciplined ==
    /\ StopSettle
    /\ phase' = IF phase = "Undisciplined" THEN phase ELSE "Idle"
    /\ UNCHANGED <<selectGen, arms>>

ClearOnRealtimeOffset ==
    /\ StopSettle
    /\ phase' = "Idle"
    /\ UNCHANGED <<selectGen, arms>>

\* What Finalise returns: a source was selected and CLOCK_REALTIME was not.
Activates == phase = "SourceSelected"

\* finaliseLocked.
Finalise ==
    /\ StopSettle
    /\ phase' = IF Activates THEN "Undisciplined"
                ELSE IF IsWindowOpen THEN "Idle"
                ELSE phase
    /\ UNCHANGED <<selectGen, arms>>

-----------------------------------------------------------------------------
(* Writing E3.                                                             *)

\* CheckSource: the CLOCK_REALTIME stat of the configuration of process p.
CheckSource(p) == crExists' = [crExists EXCEPT ![p] = TRUE]

\* GenPTPEvent for the CLOCK_REALTIME stat of process p.
GenE3(p, clockState, inRange) ==
    /\ e3' = [e3 EXCEPT ![p] = GenState(@, clockState, inRange)]
    /\ e3Pub' = [e3Pub EXCEPT ![p] =
                   IF GenPublishes(e3[p], clockState, inRange, OsClockSyncStateChange)
                   THEN GenState(e3[p], clockState, inRange) ELSE @]

\* Mutant: the counterpart's series is never removed.
ShowSeriesKeepsBoth(p, s) == series' = [series EXCEPT ![p] = s]

\* UpdateSyncStateMetrics followed by clearStaleClockRealTimeMetric: process p
\* shows s and, when the profile runs both, its counterpart's series goes.
ShowSeries(p, s) ==
    series' = [q \in Process |->
                 IF q = p THEN s
                 ELSE IF Opts = Process THEN NoState
                 ELSE series[q]]

\* Mutant: the metric is updated but the event is skipped.
PublishFreerunUndisciplinedNoEvent ==
    IF "chronyd" \in Opts
    THEN UNCHANGED e3Vars
    ELSE /\ e3' = [e3 EXCEPT !["phc2sys"] = FREERUN]
         /\ e3Pub' = e3Pub
         /\ series' = [series EXCEPT !["phc2sys"] = FREERUN]

\* publishOsClockFreerunUndisciplined: left to chronyd when it is enabled.
PublishFreerunUndisciplined ==
    IF "chronyd" \in Opts
    THEN UNCHANGED e3Vars
    ELSE /\ GenE3("phc2sys", FREERUN, FALSE)
         /\ series' = [series EXCEPT !["phc2sys"] = FREERUN]

-----------------------------------------------------------------------------
(* The phc2sys log lines: handlePhc2sysSyncDirection, and for a            *)
(* CLOCK_REALTIME sample the rest of ExtractMetrics.                       *)

Phc2sysLine ==
    /\ "phc2sys" \in Running
    /\ CheckSource("phc2sys")
    /\ UNCHANGED callbacks

\* "reconfiguring after port state change"
ReconfigureLine ==
    /\ Phc2sysLine
    /\ selectGen < MaxGen
    /\ Begin
    /\ sourceSeen' = FALSE
    /\ dismissed' = FALSE
    /\ UNCHANGED e3Vars

\* "source clock not ready, waiting", "... postponing sync", "no PHC ready, ...";
\* ignored when no window is open.
WaitingLine ==
    /\ Phc2sysLine
    /\ IsWindowOpen
    /\ Abort
    /\ dismissed' = TRUE
    /\ UNCHANGED <<e3Vars, sourceSeen>>

\* "<NIC> as domain source clock", "<NIC> as out-of-domain source clock"
SourceClockLine ==
    /\ Phc2sysLine
    /\ ReArmSettle
    /\ UNCHANGED <<e3Vars, burstVars>>

\* "already selected", or the offset sample of a clock other than
\* CLOCK_REALTIME: the burst is over.
FinalisedLine ==
    /\ Phc2sysLine
    /\ IsWindowOpen
    /\ Finalise
    /\ IF Activates THEN PublishFreerunUndisciplined ELSE UNCHANGED e3Vars
    /\ UNCHANGED burstVars

\* "selecting CLOCK_REALTIME for synchronization", window open or not.
SelectingSinkLine ==
    /\ Phc2sysLine
    /\ SinkClockSelected
    /\ dismissed' = TRUE
    /\ UNCHANGED <<e3Vars, sourceSeen>>

\* "selecting <NIC> for synchronization"; ignored when no window is open.
SelectingSourceLine ==
    /\ Phc2sysLine
    /\ IsWindowOpen
    /\ SourceClockSelected
    /\ sourceSeen' = TRUE
    /\ UNCHANGED <<e3Vars, dismissed>>

\* "CLOCK_REALTIME phc offset ..." whose numbers do not parse: the window is
\* aborted before the sample is rejected.  With no window open it has no effect.
UnparsedSampleLine ==
    /\ Phc2sysLine
    /\ IsWindowOpen
    /\ Abort
    /\ dismissed' = TRUE
    /\ UNCHANGED <<e3Vars, sourceSeen>>

\* "CLOCK_REALTIME phc offset ...": any window and the undisciplined phase are
\* cleared, then E3 is generated from the worse of the sampled state and E1
\* (syncState is that worse state).  The code calls GenPTPEvent once or twice
\* with the same arguments; SyncStatesProofs!GenIdempotent shows that the second
\* call has no effect.
RealtimeOffsetLine(syncState, inRange) ==
    /\ Phc2sysLine
    /\ ClearOnRealtimeOffset
    /\ GenE3("phc2sys", syncState, inRange)
    /\ ShowSeries("phc2sys", GenState(e3["phc2sys"], syncState, inRange))
    /\ dismissed' = TRUE
    /\ UNCHANGED sourceSeen

-----------------------------------------------------------------------------
(* Lines of other processes.                                               *)

\* Mutant: chronyd's handler shows the state and leaves it at that.
ChronydLineNoEvent(syncState) ==
    /\ "chronyd" \in Running
    /\ CheckSource("chronyd")
    /\ IF syncState = NoState
       THEN UNCHANGED e3Vars
       ELSE /\ ShowSeries("chronyd", syncState)
            /\ e3' = [e3 EXCEPT !["chronyd"] = syncState]
            /\ e3Pub' = e3Pub
    /\ UNCHANGED <<disciplineVars, callbacks, burstVars>>

\* chronyd selects a source (LOCKED), reports that it has none (FREERUN) or says
\* something else (NoState).  The offset it is given, 0, is in range.
ChronydLine(syncState) ==
    /\ "chronyd" \in Running
    /\ CheckSource("chronyd")
    /\ IF syncState = NoState
       THEN UNCHANGED e3Vars
       ELSE /\ ShowSeries("chronyd", syncState)
            /\ GenE3("chronyd", syncState, TRUE)
    /\ UNCHANGED <<disciplineVars, callbacks, burstVars>>

\* ParsePTP4l: a port becomes SLAVE, which creates the CLOCK_REALTIME stat of
\* the ptp4l configuration.
PortSlaveLine ==
    /\ CheckSource("phc2sys")
    /\ UNCHANGED <<disciplineVars, callbacks, e3Vars, burstVars>>

\* Mutant: a process going down changes the state but not the series.
ProcessDownLineKeepsSeries(p) ==
    /\ crExists[p]
    /\ Opts = {"phc2sys"}
    /\ GenE3(p, FREERUN, FALSE)
    /\ UNCHANGED <<disciplineVars, callbacks, crExists, series, burstVars>>

\* processDownEvent for a process, ts2phc excepted, of the configuration whose
\* CLOCK_REALTIME stat is p's.  The series shown is always that of phc2sys.
ProcessDownLine(p) ==
    /\ crExists[p]
    /\ Opts = {"phc2sys"}
    /\ GenE3(p, FREERUN, FALSE)
    /\ series' = [series EXCEPT !["phc2sys"] = FREERUN]
    /\ UNCHANGED <<disciplineVars, callbacks, crExists, burstVars>>

-----------------------------------------------------------------------------
(* The settle timer.                                                       *)

\* time.AfterFunc starts the callback goroutine, which waits for extractMu.
SettleFires ==
    /\ ~settle.fired
    /\ settle' = [id |-> settle.id, gen |-> settle.gen, fired |-> TRUE]
    /\ callbacks' = callbacks \cup {[id |-> settle.id, gen |-> settle.gen]}
    /\ UNCHANGED <<phase, selectGen, arms, crExists, e3Vars, burstVars>>

\* Mutant: FinaliseIfGeneration without its generation test.
SettleCallbackAnyGeneration(cb) ==
    /\ callbacks' = callbacks \ {cb}
    /\ Finalise
    /\ IF Activates THEN PublishFreerunUndisciplined ELSE UNCHANGED e3Vars
    /\ UNCHANGED <<crExists, burstVars>>

\* onSettle: FinaliseIfGeneration and, if it activates, publication.
SettleCallback(cb) ==
    /\ callbacks' = callbacks \ {cb}
    /\ IF cb.gen = selectGen
       THEN /\ Finalise
            /\ IF Activates THEN PublishFreerunUndisciplined ELSE UNCHANGED e3Vars
       ELSE UNCHANGED <<disciplineVars, e3Vars>>
    /\ UNCHANGED <<crExists, burstVars>>

Next ==
    \/ ReconfigureLine
    \/ WaitingLine
    \/ SourceClockLine
    \/ FinalisedLine
    \/ SelectingSinkLine
    \/ SelectingSourceLine
    \/ UnparsedSampleLine
    \/ \E syncState \in SyncState, inRange \in BOOLEAN : RealtimeOffsetLine(syncState, inRange)
    \/ \E syncState \in {LOCKED, FREERUN, NoState} : ChronydLine(syncState)
    \/ PortSlaveLine
    \/ \E p \in Running : ProcessDownLine(p)
    \/ SettleFires
    \/ \E cb \in callbacks : SettleCallback(cb)

Spec == Init /\ [][Next]_vars

\* The Go runtime fires an expired timer and a goroutine waiting for a mutex
\* that is released after every line obtains it.  Nothing is assumed of the
\* log lines.
Fairness ==
    /\ WF_vars(SettleFires)
    /\ \A i \in 1..MaxArms, g \in 0..MaxGen :
          LET cb == [id |-> i, gen |-> g]
          IN  WF_vars(cb \in callbacks /\ SettleCallback(cb))

FairSpec == Spec /\ Fairness

-----------------------------------------------------------------------------
(* Properties.                                                             *)

\* E3 is announced: outside a handler the last OsClockSyncStateChange event
\* that a CLOCK_REALTIME stat gave rise to carries the state it remembers,
\* whichever of the writers (offset samples, chronyd, a process going down, the
\* settle callback) changed it, and the two processes never write or announce
\* for each other.
E3Announced == e3Pub = e3

\* While phc2sys is known to leave CLOCK_REALTIME undisciplined, and the options
\* do not leave the clock to chronyd, its E3 is FREERUN: no other line may
\* report it LOCKED again without first clearing the phase.
UndisciplinedIsFreerun ==
    phase = "Undisciplined" /\ "chronyd" \notin Opts => e3["phc2sys"] = FREERUN

\* FREERUN for a selection burst is never raised on stale evidence: since the
\* burst began a source has been selected and no line has shown CLOCK_REALTIME
\* disciplined or the selection incomplete.
UndisciplinedHasEvidence ==
    phase \in {"SourceSelected", "Undisciplined"} => sourceSeen /\ ~dismissed

\* A window with a selected source is never stranded: its timer is still
\* running or a callback that may finalise it waits for the mutex.
WindowNeverStranded ==
    phase = "SourceSelected" =>
        \/ settle.id # 0 /\ ~settle.fired /\ settle.gen = selectGen
        \/ \E cb \in callbacks : cb.gen = selectGen

\* With the options of the running processes loaded, a CLOCK_REALTIME series
\* shows the E3 that its own process remembers, and a profile that runs both
\* phc2sys and chronyd never exposes two series, though the two states behind
\* them live on in separate configurations.
SeriesShowE3 ==
    Opts = Running =>
        /\ \A p \in Process : series[p] \in {NoState, e3[p]}
        /\ Opts = Process => \E p \in Process : series[p] = NoState

\* A callback of an earlier selection window is inert when it finally runs: it
\* neither moves the phase, nor stops the timer of the window that is open now,
\* nor touches E3.
StaleCallbackInert ==
    [][\A cb \in callbacks \ callbacks' :
          cb.gen # selectGen => UNCHANGED <<phase, settle, e3, e3Pub, series>>]_vars

\* A window in which a source was selected does not stay open for ever.
WindowCloses == (phase = "SourceSelected") ~> (phase # "SourceSelected")
=============================================================================
