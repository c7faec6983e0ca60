----------------------- MODULE OsClockDisciplineProofs -----------------------
(***************************************************************************)
(* Proofs about OsClockDiscipline for every set of running processes,      *)
(* every set of loaded options and every bound.                            *)
(***************************************************************************)
EXTENDS OsClockDiscipline, SyncStatesProofs, TLAPS

-----------------------------------------------------------------------------
\* A timer object exists exactly in SourceSelected and belongs to the current
\* window.
TimerOfWindow ==
    /\ phase = "SourceSelected" <=> settle.id # 0
    /\ settle.id # 0 => settle.gen = selectGen
    /\ settle.id = 0 => settle.fired

\* An open window has not been dismissed.
OpenWindowNotDismissed == IsWindowOpen => ~dismissed

\* The phase leaves Idle, and a series appears, only for a running process.
OnlyRunning ==
    /\ phase # "Idle" => "phc2sys" \in Running
    /\ \A p \in Process : p \notin Running => series[p] = NoState

WindowType ==
    /\ phase \in Phase
    /\ selectGen \in Nat
    /\ settle \in Timer
    /\ callbacks \subseteq [id : Nat, gen : Nat]
    /\ arms \in Nat
    /\ crExists \in [Process -> BOOLEAN]
    /\ sourceSeen \in BOOLEAN
    /\ dismissed \in BOOLEAN

\* What is invariant of the selection window, its timer and its callbacks ...
WindowInv ==
    /\ WindowType
    /\ TimerOfWindow
    /\ OpenWindowNotDismissed
    /\ UndisciplinedHasEvidence
    /\ WindowNeverStranded

E3Type ==
    /\ e3 \in [Process -> StateOrNone]
    /\ e3Pub \in [Process -> StateOrNone]
    /\ series \in [Process -> StateOrNone]

\* For E3 GenPTPEvent publishes exactly the changes, so an announced state
\* stays announced.
LEMMA GenE3Announces ==
    ASSUME NEW p \in Process, NEW clockState \in SyncState, NEW inRange \in BOOLEAN,
           E3Type, E3Announced, GenE3(p, clockState, inRange)
    PROVE  E3Announced'
  BY DEF E3Type, E3Announced, GenE3, GenPublishes, PtpStateChange, OsClockSyncStateChange


\* ... and of E3 and its series.
E3Inv ==
    /\ E3Type
    /\ OnlyRunning
    /\ E3Announced
    /\ UndisciplinedIsFreerun
    /\ SeriesShowE3

\* The inductive invariant.
IInv == WindowInv /\ E3Inv

-----------------------------------------------------------------------------
\* Before the first line there is no window, no timer and no E3 state.
LEMMA InitIInv == Init => IInv
  <1> SUFFICES ASSUME Init PROVE IInv
    OBVIOUS
  <1> USE DEF Init, NoTimer
  <1>1. WindowType
    <2>1. settle \in Timer
      BY DEF Timer
    <2>2. crExists \in [Process -> BOOLEAN] /\ sourceSeen \in BOOLEAN /\ dismissed \in BOOLEAN
      BY Zenon
    <2>3. QED
      BY <2>1, <2>2 DEF WindowType, Phase
  <1>2. WindowInv
    BY <1>1 DEF WindowInv, TimerOfWindow, OpenWindowNotDismissed, IsWindowOpen,
                UndisciplinedHasEvidence, WindowNeverStranded
  <1>3. E3Type
    BY DEF E3Type, StateOrNone
  <1>4. E3Inv
    BY <1>3 DEF E3Inv, OnlyRunning, E3Announced, UndisciplinedIsFreerun, SeriesShowE3, Process
  <1>5. QED
    BY <1>2, <1>4 DEF IInv

-----------------------------------------------------------------------------
\* A step that leaves E3 and its series alone, and enters neither Undisciplined
\* nor, without phc2sys, any phase but Idle, keeps what is known of E3.
LEMMA E3Untouched ==
    ASSUME IInv, UNCHANGED e3Vars,
           phase' = "Undisciplined" => phase = "Undisciplined",
           phase' # "Idle" => "phc2sys" \in Running
    PROVE  E3Inv'
  BY DEF IInv, E3Inv, E3Type, OnlyRunning, E3Announced, UndisciplinedIsFreerun, SeriesShowE3,
         e3Vars

\* publishOsClockFreerunUndisciplined, with phc2sys running, announces FREERUN
\* unless chronyd is in charge.
LEMMA UndisciplinedPublished ==
    ASSUME IInv, PublishFreerunUndisciplined, "phc2sys" \in Running
    PROVE  E3Inv'
  <1> USE OsClockAssumption DEF IInv, E3Inv, E3Type, Process
  <1>1. CASE "chronyd" \in Opts
    BY <1>1 DEF PublishFreerunUndisciplined, e3Vars, OnlyRunning, E3Announced,
                UndisciplinedIsFreerun, SeriesShowE3
  <1>2. CASE "chronyd" \notin Opts
    <2>1. e3' = [e3 EXCEPT !["phc2sys"] = FREERUN] /\ e3Pub' = e3'
      BY <1>2 DEF PublishFreerunUndisciplined, GenE3, GenState, GenPublishes, E3Announced,
                  FREERUN, LOCKED, NoState, PtpStateChange, OsClockSyncStateChange
    <2>2. series' = [series EXCEPT !["phc2sys"] = FREERUN]
      BY <1>2 DEF PublishFreerunUndisciplined
    <2>3. FREERUN \in StateOrNone
      BY DEF StateOrNone, SyncState
    <2>4. OnlyRunning'
      BY <2>2 DEF OnlyRunning
    <2>5. SeriesShowE3'
      BY <1>2, <2>1, <2>2 DEF SeriesShowE3, OnlyRunning
    <2>6. QED
      BY <2>1, <2>2, <2>3, <2>4, <2>5 DEF E3Announced, UndisciplinedIsFreerun
  <1>3. QED
    BY <1>1, <1>2

\* A state that process p reports, phc2sys not in the Undisciplined phase, and
\* that its own series shows, keeps E3 announced and the series truthful.
LEMMA SampleShown ==
    ASSUME IInv, NEW p \in Running, NEW s \in SyncState, NEW inRange \in BOOLEAN,
           GenE3(p, s, inRange), ShowSeries(p, GenState(e3[p], s, inRange)),
           phase' = "Undisciplined" => phase = "Undisciplined" /\ p # "phc2sys",
           phase' # "Idle" => "phc2sys" \in Running
    PROVE  E3Inv'
  <1> USE OsClockAssumption DEF IInv, E3Inv
  <1>0. p \in Process
    OBVIOUS
  <1>1. e3'[p] \in SyncState \cup {e3[p]} /\ E3Announced'
    <2>1. OsClockSyncStateChange \in EventType
      BY DEF EventType
    <2>2. QED
      BY <1>0, <2>1, GenEffects, GenE3Announces DEF GenE3, E3Type
  <1>2. e3' = [e3 EXCEPT ![p] = GenState(e3[p], s, inRange)]
    BY DEF GenE3
  <1>3. E3Type'
    BY <1>0, <1>1, <1>2 DEF E3Type, ShowSeries, StateOrNone, E3Announced
  <1>4. OnlyRunning'
    BY DEF ShowSeries, OnlyRunning
  <1>5. SeriesShowE3'
    BY <1>0, <1>2 DEF ShowSeries, SeriesShowE3, OnlyRunning, Process, E3Type
  <1>6. QED
    BY <1>0, <1>1, <1>2, <1>3, <1>4, <1>5 DEF UndisciplinedIsFreerun, E3Type, Process

\* Stopping the timer and leaving the window is safe whatever was armed.
LEMMA WindowLeft ==
    ASSUME IInv, StopSettle, UNCHANGED <<selectGen, arms>>, crExists' \in [Process -> BOOLEAN],
           callbacks' \subseteq callbacks,
           \/ phase' = "Idle" /\ sourceSeen' \in BOOLEAN /\ dismissed' \in BOOLEAN
           \/ /\ phase \in {"SourceSelected", "Undisciplined"}
              /\ phase' = "Undisciplined"
              /\ UNCHANGED <<sourceSeen, dismissed>>
    PROVE  WindowInv'
  <1>1. WindowType'
    BY DEF IInv, WindowInv, WindowType, StopSettle, NoTimer, Timer, Phase
  <1>2. QED
    BY <1>1 DEF IInv, WindowInv, TimerOfWindow, OpenWindowNotDismissed, IsWindowOpen,
                UndisciplinedHasEvidence, WindowNeverStranded, StopSettle, NoTimer

\* A timer armed for the current window keeps the window alive.
LEMMA WindowArmed ==
    ASSUME IInv, ArmSettle, IsWindowOpen, phase' = "SourceSelected",
           UNCHANGED <<selectGen, callbacks, dismissed>>, crExists' \in [Process -> BOOLEAN],
           sourceSeen' = TRUE
    PROVE  WindowInv'
  <1>1. WindowType'
    BY DEF IInv, WindowInv, WindowType, ArmSettle, Timer, Phase
  <1>2. settle'.id # 0 /\ ~settle'.fired /\ settle'.gen = selectGen
    BY DEF ArmSettle, IInv, WindowInv, WindowType
  <1>3. QED
    BY <1>1, <1>2 DEF IInv, WindowInv, TimerOfWindow, OpenWindowNotDismissed, IsWindowOpen,
                UndisciplinedHasEvidence, WindowNeverStranded

\* CheckSource keeps the type of the map of stats.
LEMMA SourceChecked ==
    ASSUME IInv, CheckSource("phc2sys")
    PROVE  crExists' \in [Process -> BOOLEAN]
  BY DEF IInv, WindowInv, WindowType, CheckSource

\* Every log line, timer expiry and settle callback keeps the invariant.
LEMMA NextIInv == IInv /\ [Next]_vars => IInv'
  <1> SUFFICES ASSUME IInv, [Next]_vars
               PROVE  WindowInv' /\ E3Inv'
    BY DEF IInv
  <1>0. "phc2sys" \in Running \/ phase = "Idle"
    BY DEF IInv, E3Inv, OnlyRunning
  <1>1. CASE ReconfigureLine
    <2> USE <1>1 DEF ReconfigureLine, Phc2sysLine, Begin, StopSettle
    <2>1. WindowType'
      <3>1. settle' \in Timer
        BY DEF NoTimer, Timer
      <3>2. crExists' \in [Process -> BOOLEAN] /\ sourceSeen' \in BOOLEAN /\ dismissed' \in BOOLEAN
        BY SourceChecked, Zenon
      <3>3. QED
        BY <3>1, <3>2 DEF IInv, WindowInv, WindowType, Phase
    <2>2. WindowInv'
      BY <2>1 DEF WindowInv, TimerOfWindow, OpenWindowNotDismissed, IsWindowOpen,
                  UndisciplinedHasEvidence, WindowNeverStranded, NoTimer
    <2>3. E3Inv'
      BY E3Untouched
    <2>4. QED
      BY <2>2, <2>3
  <1>2. CASE WaitingLine
    <2> USE <1>2 DEF WaitingLine, Phc2sysLine, Abort
    <2>1. WindowInv'
      BY WindowLeft, SourceChecked DEF IInv, WindowInv, WindowType
    <2>2. E3Inv'
      BY E3Untouched
    <2>3. QED
      BY <2>1, <2>2
  <1>3. CASE SourceClockLine
    <2> USE <1>3 DEF SourceClockLine, Phc2sysLine, ReArmSettle, burstVars
    <2>1. sourceSeen' = TRUE
      BY Zenon DEF IInv, WindowInv, WindowType, UndisciplinedHasEvidence
    <2>2. WindowInv'
      BY <2>1, WindowArmed, SourceChecked DEF IsWindowOpen
    <2>3. E3Inv'
      BY E3Untouched
    <2>4. QED
      BY <2>2, <2>3
  <1>4. CASE FinalisedLine
    <2> USE <1>4 DEF FinalisedLine, Phc2sysLine, Finalise, burstVars
    <2>1. WindowInv'
      BY WindowLeft, SourceChecked DEF Activates, IInv, WindowInv, WindowType
    <2>2. CASE Activates
      BY <2>1, <2>2, UndisciplinedPublished
    <2>3. CASE ~Activates
      BY <2>1, <2>3, E3Untouched
    <2>4. QED
      BY <2>2, <2>3
  <1>5. CASE SelectingSinkLine
    <2> USE <1>5 DEF SelectingSinkLine, Phc2sysLine, SinkClockSelected
    <2>1. WindowInv'
      BY WindowLeft, SourceChecked DEF IInv, WindowInv, WindowType
    <2>2. E3Inv'
      BY E3Untouched
    <2>3. QED
      BY <2>1, <2>2
  <1>6. CASE SelectingSourceLine
    <2> USE <1>6 DEF SelectingSourceLine, Phc2sysLine, SourceClockSelected
    <2>1. WindowInv'
      BY WindowArmed, SourceChecked
    <2>2. E3Inv'
      BY E3Untouched
    <2>3. QED
      BY <2>1, <2>2
  <1>7. CASE UnparsedSampleLine
    <2> USE <1>7 DEF UnparsedSampleLine, Phc2sysLine, Abort
    <2>1. WindowInv'
      BY WindowLeft, SourceChecked DEF IInv, WindowInv, WindowType
    <2>2. E3Inv'
      BY E3Untouched
    <2>3. QED
      BY <2>1, <2>2
  <1>8. ASSUME NEW s \in SyncState, NEW inRange \in BOOLEAN, RealtimeOffsetLine(s, inRange)
        PROVE  WindowInv' /\ E3Inv'
    <2> USE <1>8 DEF RealtimeOffsetLine, Phc2sysLine, ClearOnRealtimeOffset
    <2>1. WindowInv'
      BY WindowLeft, SourceChecked DEF IInv, WindowInv, WindowType
    <2>2. E3Inv'
      BY SampleShown
    <2>3. QED
      BY <2>1, <2>2
  <1>9. ASSUME NEW s \in {LOCKED, FREERUN, NoState}, ChronydLine(s)
        PROVE  WindowInv' /\ E3Inv'
    <2> USE <1>9 DEF ChronydLine
    <2>1. WindowInv'
      BY DEF disciplineVars, burstVars, CheckSource, IInv, WindowInv, WindowType, TimerOfWindow,
             OpenWindowNotDismissed, IsWindowOpen, UndisciplinedHasEvidence, WindowNeverStranded
    <2>2. CASE s = NoState
      BY <1>0, <2>1, <2>2, E3Untouched DEF disciplineVars
    <2>3. CASE s # NoState
      <3>1. s \in SyncState /\ GenState(e3["chronyd"], s, TRUE) = s
        BY <2>3 DEF SyncState, GenState, LOCKED, FREERUN, NoState
      <3>2. E3Inv'
        BY <1>0, <2>3, <3>1, SampleShown DEF disciplineVars
      <3>3. QED
        BY <2>1, <3>2
    <2>4. QED
      BY <2>2, <2>3
  <1>10. CASE PortSlaveLine
    <2> USE <1>10 DEF PortSlaveLine, disciplineVars, CheckSource
    <2>1. WindowInv'
      BY DEF burstVars, IInv, WindowInv, WindowType, TimerOfWindow,
             OpenWindowNotDismissed, IsWindowOpen, UndisciplinedHasEvidence, WindowNeverStranded
    <2>2. E3Inv'
      BY <1>0, E3Untouched
    <2>3. QED
      BY <2>1, <2>2
  <1>11. ASSUME NEW p \in Running, ProcessDownLine(p)
         PROVE  WindowInv' /\ E3Inv'
    <2> USE <1>11 DEF ProcessDownLine, disciplineVars
    <2>1. WindowInv'
      BY DEF burstVars, IInv, WindowInv, WindowType, TimerOfWindow,
             OpenWindowNotDismissed, IsWindowOpen, UndisciplinedHasEvidence, WindowNeverStranded
    <2>2. "chronyd" \notin Opts /\ "phc2sys" \in Running
      BY OsClockAssumption
    <2>3. CASE p = "phc2sys"
      <3>1. PublishFreerunUndisciplined
        BY <2>2, <2>3 DEF PublishFreerunUndisciplined
      <3>2. QED
        BY <2>1, <2>2, <3>1, UndisciplinedPublished
    <2>4. CASE p # "phc2sys"
      <3> USE DEF IInv, E3Inv
      <3>1. p \in Process /\ p = "chronyd" /\ Opts # Running
        BY <2>2, <2>4, OsClockAssumption DEF Process
      <3>2. FREERUN \in SyncState /\ E3Announced'
        BY <3>1, GenE3Announces DEF SyncState
      <3>3. e3' = [e3 EXCEPT ![p] = FREERUN]
        BY DEF GenE3, GenState, FREERUN, LOCKED, NoState
      <3>4. E3Type'
        BY <3>1, <3>2, <3>3 DEF E3Type, StateOrNone, E3Announced
      <3>5. OnlyRunning'
        BY <1>0, <2>2 DEF OnlyRunning, E3Type
      <3>6. QED
        BY <2>1, <3>1, <3>2, <3>3, <3>4, <3>5 DEF UndisciplinedIsFreerun, SeriesShowE3, E3Type
    <2>5. QED
      BY <2>3, <2>4
  <1>12. CASE SettleFires
    <2> USE <1>12 DEF SettleFires
    <2>1. settle.id # 0 /\ settle.gen = selectGen /\ settle.id \in Nat /\ settle.gen \in Nat
      BY DEF IInv, WindowInv, WindowType, TimerOfWindow, Timer
    <2>2. WindowType'
      BY <2>1 DEF IInv, WindowInv, WindowType, Timer, burstVars
    <2>3. \E cb \in callbacks' : cb.gen = selectGen
      <3>1. [id |-> settle.id, gen |-> settle.gen] \in callbacks'
        OBVIOUS
      <3>2. [id |-> settle.id, gen |-> settle.gen].gen = selectGen
        BY <2>1
      <3>3. QED
        BY <3>1, <3>2, Zenon
    <2>4. WindowInv'
      BY <2>1, <2>2, <2>3 DEF burstVars, IInv, WindowInv, TimerOfWindow, OpenWindowNotDismissed,
             IsWindowOpen, UndisciplinedHasEvidence, WindowNeverStranded
    <2>5. E3Inv'
      BY <1>0, E3Untouched
    <2>6. QED
      BY <2>4, <2>5
  <1>13. ASSUME NEW cb \in callbacks, SettleCallback(cb)
         PROVE  WindowInv' /\ E3Inv'
    <2> USE <1>13 DEF SettleCallback, burstVars
    <2>1. CASE cb.gen = selectGen /\ phase \in {"SourceSelected", "Undisciplined"}
      <3>1. WindowInv'
        BY <2>1, WindowLeft DEF Finalise, Activates, IsWindowOpen, IInv, WindowInv, WindowType
      <3>2. "phc2sys" \in Running
        BY <1>0, <2>1
      <3>3. E3Inv'
        BY <2>1, <3>2, UndisciplinedPublished, E3Untouched DEF Finalise, Activates
      <3>4. QED
        BY <3>1, <3>3
    <2>2. CASE cb.gen = selectGen /\ phase \notin {"SourceSelected", "Undisciplined"}
      <3>1. phase' = "Idle"
        BY <2>2 DEF Finalise, Activates, IsWindowOpen, IInv, WindowInv, WindowType, Phase
      <3>2. WindowInv'
        BY <2>2, <3>1, WindowLeft DEF Finalise, IInv, WindowInv, WindowType
      <3>3. E3Inv'
        BY <2>2, <3>1, E3Untouched DEF Activates
      <3>4. QED
        BY <3>2, <3>3
    <2>3. CASE cb.gen # selectGen
      <3>1. WindowInv'
        BY <2>3 DEF disciplineVars, IInv, WindowInv, WindowType, TimerOfWindow,
             OpenWindowNotDismissed, IsWindowOpen, UndisciplinedHasEvidence, WindowNeverStranded
      <3>2. E3Inv'
        BY <1>0, <2>3, E3Untouched DEF disciplineVars
      <3>3. QED
        BY <3>1, <3>2
    <2>4. QED
      BY <2>1, <2>2, <2>3
  <1>14. CASE UNCHANGED vars
    <2>1. WindowInv'
      BY <1>14 DEF vars, IInv, WindowInv, WindowType, TimerOfWindow, OpenWindowNotDismissed,
                   IsWindowOpen, UndisciplinedHasEvidence, WindowNeverStranded
    <2>2. E3Inv'
      BY <1>0, <1>14, E3Untouched DEF vars, e3Vars
    <2>3. QED
      BY <2>1, <2>2
  <1>15. QED
    BY <1>1, <1>2, <1>3, <1>4, <1>5, <1>6, <1>7, <1>8, <1>9, <1>10, <1>11, <1>12, <1>13, <1>14
       DEF Next

-----------------------------------------------------------------------------
\* The inductive invariant holds in every reachable state.
LEMMA SpecIInv == Spec => []IInv
  BY InitIInv, NextIInv, PTL DEF Spec

\* Every behaviour of the OS-clock component is well typed.
THEOREM TypeCorrect == Spec => []TypeOK
  <1>1. IInv => TypeOK
    BY DEF IInv, WindowInv, WindowType, E3Inv, E3Type, TypeOK
  <1>2. QED
    BY SpecIInv, <1>1, PTL

\* Whatever runs and whatever options are loaded, the last E3 event of the
\* ptp4l configuration and that of the chronyd configuration always carry the
\* state that configuration remembers.
THEOREM E3AlwaysAnnounced == Spec => []E3Announced
  <1>1. IInv => E3Announced
    BY DEF IInv, E3Inv
  <1>2. QED
    BY SpecIInv, <1>1, PTL

\* An undisciplined OS clock is FREERUN for as long as the phase lasts.
THEOREM UndisciplinedAlwaysFreerun == Spec => []UndisciplinedIsFreerun
  <1>1. IInv => UndisciplinedIsFreerun
    BY DEF IInv, E3Inv
  <1>2. QED
    BY SpecIInv, <1>1, PTL

\* No order of lines, timer expiries and delayed callbacks raises FREERUN for a
\* burst without evidence from that burst.
THEOREM EvidenceAlways == Spec => []UndisciplinedHasEvidence
  <1>1. IInv => UndisciplinedHasEvidence
    BY DEF IInv, WindowInv
  <1>2. QED
    BY SpecIInv, <1>1, PTL

\* A window with a selected source always has a timer or a callback to end it.
THEOREM NeverStranded == Spec => []WindowNeverStranded
  <1>1. IInv => WindowNeverStranded
    BY DEF IInv, WindowInv
  <1>2. QED
    BY SpecIInv, <1>1, PTL

\* With the loaded options those of the running processes, a series never
\* contradicts the E3 of its own process, and two are never exposed at once.
THEOREM SeriesAlwaysShowE3 == Spec => []SeriesShowE3
  <1>1. IInv => SeriesShowE3
    BY DEF IInv, E3Inv
  <1>2. QED
    BY SpecIInv, <1>1, PTL

\* A settle callback that outlived its selection window changes nothing, in any
\* state and for any number of waiting callbacks.
THEOREM StaleCallbacksAlwaysInert == Spec => StaleCallbackInert
  <1> DEFINE Inert == \A cb \in callbacks \ callbacks' :
                         cb.gen # selectGen => UNCHANGED <<phase, settle, e3, e3Pub, series>>
  <1>1. ASSUME Next PROVE Inert
    <2>1. CASE \E cb \in callbacks : SettleCallback(cb)
      <3>1. PICK cb \in callbacks : SettleCallback(cb)
        BY <2>1
      <3>2. CASE cb.gen = selectGen
        BY <3>1, <3>2 DEF SettleCallback
      <3>3. CASE cb.gen # selectGen
        BY <3>1, <3>3 DEF SettleCallback, disciplineVars, e3Vars
      <3>4. QED
        BY <3>2, <3>3
    <2>2. CASE ~\E cb \in callbacks : SettleCallback(cb)
      <3>1. callbacks \subseteq callbacks'
        BY <1>1, <2>2 DEF Next, ReconfigureLine, WaitingLine, SourceClockLine, FinalisedLine,
           SelectingSinkLine, SelectingSourceLine, UnparsedSampleLine, RealtimeOffsetLine,
           ChronydLine, PortSlaveLine, ProcessDownLine, SettleFires, Phc2sysLine
      <3>2. QED
        BY <3>1
    <2>3. QED
      BY <2>1, <2>2
  <1>2. ASSUME [Next]_vars PROVE [Inert]_vars
    BY <1>1, <1>2
  <1>3. QED
    BY <1>2, PTL DEF Spec, StaleCallbackInert
=============================================================================
