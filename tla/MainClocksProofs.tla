-------------------------- MODULE MainClocksProofs --------------------------
(***************************************************************************)
(* Proofs about MainClocks for every set of clock classes: what was pushed *)
(* agrees with what a GET answers, and E3 is never ahead of E1.            *)
(***************************************************************************)
EXTENDS MainClocks, SyncStatesProofs, TLAPS

\* But for silence, the main clock's stat is what was told and reported last.
StatusInv ==
    ~silent => /\ State(main) # NoState => told = State(main)
               /\ reported # NoState => reported = State(main)

\* The events of a T-BC follow its status.
E1Inv == kind = TBC /\ State(main) # NoState /\ e1 # NoState /\ ~silent => e1 = State(main)

E3Inv == e3 # NoState => e3 = State(os)

GnssInv ==
    gnssTold # NoState => gnss # NoGnss /\ (gnss.state = LOCKED <=> gnssTold = "SYNCHRONIZED")

\* Once the main clock has a class, every class line is about the main clock.
ClassInv == class["main"] # 0 => main # Absent /\ class["main"] = classTold

\* While the node is told to be LOCKED, neither clock is remembered as worse.
NodeInv ==
    node = LOCKED => /\ State(os) \in {LOCKED, NoState}
                     /\ ~silent => State(main) \in {LOCKED, NoState}

\* The inductive invariant.
IInv == TypeOK /\ StatusInv /\ E1Inv /\ E3Inv /\ GnssInv /\ ClassInv /\ NodeInv

-----------------------------------------------------------------------------
\* GenPTPEvent publishes every change of E3.
LEMMA E3PublishesChanges ==
    ASSUME NEW s \in StateOrNone, NEW sample \in SyncState, NEW inRange \in BOOLEAN,
           ~GenPublishes(s, sample, inRange, OsClockSyncStateChange)
    PROVE  GenState(s, sample, inRange) = s
  BY DEF GenPublishes, OsClockSyncStateChange, PtpStateChange

LEMMA GenTyped ==
    ASSUME NEW s \in StateOrNone, NEW sample \in SyncState, NEW inRange \in BOOLEAN
    PROVE  GenState(s, sample, inRange) \in StateOrNone
  BY DEF GenState, StateOrNone, SyncState

\* A node that is LOCKED has no clock that is worse.
LEMMA NodeLocked ==
    ASSUME NEW m, NEW ma, NEW o, NEW s, NodeSyncState(m, ma, o, s) = LOCKED,
           s \in StateOrNone, State(m) \in StateOrNone, State(o) \in StateOrNone
    PROVE  {State(m), State(o), s} \subseteq {LOCKED, NoState}
  BY DEF NodeSyncState, Worst, StateOrNone, SyncState, FREERUN, HOLDOVER, LOCKED, NoState

\* The state of the node is a state.
LEMMA NodeTyped ==
    ASSUME NEW m, NEW ma, NEW o, NEW s
    PROVE  NodeSyncState(m, ma, o, s) \in StateOrNone
  BY DEF NodeSyncState, Worst, StateOrNone, SyncState

LEMMA StateTyped ==
    ASSUME NEW x \in StatState
    PROVE  /\ State(x) \in StateOrNone
           /\ CheckSource(x) \in StateOrNone
           /\ CheckSource(x) # Absent
           /\ State(CheckSource(x)) = State(x)
           /\ x # Absent => CheckSource(x) = x
  BY DEF State, CheckSource, StatState, Absent, StateOrNone, SyncState, FREERUN, HOLDOVER, LOCKED, NoState

\* A stat that holds a state is not a missing one.
LEMMA StateOfState ==
    ASSUME NEW x \in StateOrNone
    PROVE  State(x) = x /\ x # Absent /\ x \in StatState
  BY DEF State, StatState, Absent, StateOrNone, SyncState, FREERUN, HOLDOVER, LOCKED, NoState

\* What the CLOCK_REALTIME line makes of its sample is a state.
LEMMA SampleTyped ==
    ASSUME NEW s \in SyncState, NEW u \in StateOrNone
    PROVE  OverallState(s, u) \in SyncState
  BY DEF OverallState, StateOrNone, SyncState, FREERUN, HOLDOVER, LOCKED, NoState

\* ... and LOCKED only if E1 is, or is not known.
LEMMA SampleLocked ==
    ASSUME NEW s \in SyncState, NEW u \in StateOrNone, OverallState(s, u) = LOCKED
    PROVE  u \in {LOCKED, NoState}
  BY DEF OverallState, StateOrNone, SyncState, FREERUN, HOLDOVER, LOCKED, NoState

-----------------------------------------------------------------------------
LEMMA InitIInv == Init => IInv
  <1> SUFFICES ASSUME Init PROVE IInv
    OBVIOUS
  <1>1. TypeOK
    BY DEF Init, TypeOK, StatState, StateOrNone, NoGnss, GpsState
  <1>2. QED
    BY <1>1 DEF Init, IInv, StatusInv, E1Inv, E3Inv, GnssInv, ClassInv, NodeInv, State, LOCKED, NoState, Absent

\* The source of master offsets stays one of the processes.
LEMMA SourceTyped == TypeOK /\ ValidLine => source' \in {"", "ptp4l", "ts2phc"}
  BY DEF TypeOK, ValidLine

\* What is published is a state.
LEMMA PublishTyped ==
    ASSUME TypeOK, NEW s \in StateOrNone
    PROVE  /\ PublishE1(s) \/ UNCHANGED <<e1, node>> => e1' \in StateOrNone /\ node' \in StateOrNone
           /\ PublishE3(s) \/ UNCHANGED <<e3, node>> => e3' \in StateOrNone /\ node' \in StateOrNone
  <1>1. NodeSyncState(main', master', os', s) \in StateOrNone
    BY NodeTyped
  <1>2. PublishE1(s) => e1' = s /\ node' = NodeSyncState(main', master', os', s)
    BY DEF PublishE1
  <1>3. PublishE3(s) => e3' = s /\ node' = NodeSyncState(main', master', os', s)
    BY DEF PublishE3
  <1>4. e1 \in StateOrNone /\ e3 \in StateOrNone /\ node \in StateOrNone
    BY DEF TypeOK
  <1>5. QED
    BY <1>1, <1>2, <1>3, <1>4

\* A line about neither clock leaves what is told and what is remembered alone.
LEMMA Untouched ==
    ASSUME IInv, TypeOK', UNCHANGED <<kind, e1, e3, node, history>>,
           State(main') = State(main), State(os') = State(os)
    PROVE  StatusInv' /\ E1Inv' /\ E3Inv' /\ NodeInv'
  BY DEF IInv, StatusInv, E1Inv, E3Inv, NodeInv, history, State

LEMMA StatusKeeps ==
    ASSUME IInv, NEW s \in SyncState, StatusLine(s)
    PROVE  IInv'
  <1> USE DEF StatusLine, published, history, stats, masterVars
  <1>0. TypeOK /\ s \in StateOrNone /\ s # NoState
    BY DEF IInv, StateOrNone, SyncState, FREERUN, HOLDOVER, LOCKED, NoState
  <1>1. UNCHANGED <<gnss, gnssTold, class, classTold, nic, master, os, proc, named, slave, kind, e3>>
    BY DEF PublishE1
  <1>2. main' # Absent /\ (main # Absent => main' \in {main, s}) /\ main' \in StatState
    <2>1. main' = s \/ main' = CheckSource(main) \/ (main' = main /\ s = State(main))
      OBVIOUS
    <2>2. main \in StatState
      BY <1>0 DEF TypeOK
    <2>3. QED
      BY <1>0, <2>1, <2>2, StateTyped, StateOfState DEF CheckSource
  <1>3. TypeOK'
    <2>1. {lastGM', told', reported'} \subseteq StateOrNone /\ silent' \in BOOLEAN
      BY <1>0 DEF TypeOK
    <2>2. PublishE1(s) \/ UNCHANGED <<e1, node>>
      OBVIOUS
    <2>3. e1' \in StateOrNone /\ node' \in StateOrNone
      BY <1>0, <2>2, PublishTyped
    <2>4. source' \in {"", "ptp4l", "ts2phc"}
      BY <1>0, SourceTyped
    <2>5. QED
      BY <1>0, <1>1, <1>2, <2>1, <2>3, <2>4 DEF TypeOK
  <1>4. GnssInv' /\ ClassInv' /\ E3Inv'
    BY <1>1, <1>2 DEF IInv, GnssInv, ClassInv, E3Inv, State
  <1>5. CASE kind = TGM /\ nic = Absent
    BY <1>0, <1>1, <1>3, <1>4, <1>5, StateTyped, Untouched DEF IInv, TypeOK
  <1>6. CASE ~(kind = TGM /\ nic = Absent) /\ s = State(main)
    BY <1>0, <1>1, <1>3, <1>4, <1>6 DEF IInv, StatusInv, E1Inv, NodeInv
  <1>7. CASE ~(kind = TGM /\ nic = Absent) /\ s # State(main)
    <2>1. /\ main' = s /\ reported' = s /\ told' = s /\ silent' = FALSE /\ e1' = s
          /\ node' = NodeSyncState(main', master', os', s)
      BY <1>7 DEF PublishE1
    <2>2. State(main') = s /\ State(os') \in StateOrNone
      BY <1>0, <1>1, <2>1, StateOfState, StateTyped DEF TypeOK
    <2>3. StatusInv' /\ E1Inv'
      BY <2>1, <2>2 DEF StatusInv, E1Inv, State
    <2>4. NodeInv'
      BY <1>0, <2>1, <2>2, NodeLocked DEF NodeInv, State
    <2>5. QED
      BY <1>3, <1>4, <2>3, <2>4 DEF IInv
  <1>8. QED
    BY <1>5, <1>6, <1>7

LEMMA CardKeeps ==
    ASSUME IInv, NEW s \in SyncState, NEW inRange \in BOOLEAN, CardLine(s, inRange)
    PROVE  IInv'
  <1> USE DEF CardLine, published, history
  <1>0. TypeOK /\ PtpStateChange \in EventType
    BY DEF IInv, EventType
  <1>1. /\ UNCHANGED <<gnss, gnssTold, class, classTold, main, os, named, slave, kind, lastGM>>
        /\ UNCHANGED <<told, reported, silent, e3>>
    BY DEF PublishE1
  <1>2. GenState(State(nic), s, inRange) \in StateOrNone
    BY <1>0, StateTyped, GenTyped DEF TypeOK
  <1>3. nic' \in StateOrNone /\ nic' \in StatState /\ master' \in StatState
    BY <1>0, <1>2, StateTyped DEF TypeOK, StatState, StateOrNone, SyncState
  <1>4. TypeOK'
    <2>1. e1' \in StateOrNone /\ node' \in StateOrNone
      <3>1. PublishE1(nic') \/ UNCHANGED <<e1, node>>
        OBVIOUS
      <3>2. QED
        BY <1>0, <1>3, <3>1, PublishTyped
    <2>2. source' \in {"", "ptp4l", "ts2phc"} /\ proc' \in {"", "ptp4l", "ts2phc"}
      BY <1>0, SourceTyped
    <2>3. QED
      BY <1>0, <1>1, <1>3, <2>1, <2>2 DEF TypeOK
  <1>5. GnssInv' /\ ClassInv' /\ E3Inv' /\ StatusInv'
    BY <1>1 DEF IInv, GnssInv, ClassInv, E3Inv, StatusInv, State
  <1>6. CASE UNCHANGED published
    BY <1>1, <1>4, <1>5, <1>6, Untouched DEF IInv
  <1>7. CASE kind # TBC /\ PublishE1(nic')
    <2>1. E1Inv'
      BY <1>1, <1>7 DEF E1Inv
    <2>2. NodeInv'
      <3>1. node' = NodeSyncState(main', master', os', nic')
        BY <1>7 DEF PublishE1
      <3>2. State(main') \in StateOrNone /\ State(os') \in StateOrNone
        BY <1>0, <1>1, StateTyped DEF TypeOK
      <3>3. QED
        BY <1>3, <3>1, <3>2, NodeLocked DEF NodeInv, State
    <2>3. QED
      BY <1>4, <1>5, <2>1, <2>2 DEF IInv
  <1>8. QED
    BY <1>6, <1>7

\* The CLOCK_REALTIME line: the sample is E1's, or worse.
LEMMA RealTimeKeeps ==
    ASSUME IInv, NEW s \in SyncState, NEW inRange \in BOOLEAN, ClockRealTimeLine(s, inRange)
    PROVE  IInv'
  <1> USE DEF published, history, masterVars
  <1>0. TypeOK
    BY DEF IInv
  <1> DEFINE forced == IF source' = "ts2phc" /\ lastGM = FREERUN THEN FREERUN ELSE s
             sample == OverallState(forced, MainState)
  <1>1. /\ UNCHANGED <<gnss, gnssTold, class, classTold, main, nic, master, proc, named, slave>>
        /\ UNCHANGED <<kind, lastGM, told, reported, silent, e1>>
        /\ os' = GenState(State(os), sample, inRange)
        /\ ValidLine
        /\ IF GenPublishes(State(os), sample, inRange, OsClockSyncStateChange)
           THEN PublishE3(os')
           ELSE UNCHANGED published
    BY DEF ClockRealTimeLine, PublishE3
  <1>2. forced \in SyncState /\ MainState \in StateOrNone
    BY <1>0, StateTyped DEF TypeOK, MainState, SyncState, StateOrNone
  <1>3. sample \in SyncState
    BY <1>2, SampleTyped
  <1> HIDE DEF forced, sample
  <1>4. os' \in StateOrNone /\ State(os) \in StateOrNone
    BY <1>0, <1>1, <1>3, StateTyped, GenTyped DEF TypeOK
  <1>5. State(os)' = os' /\ os' \in StatState
    BY <1>4, StateOfState DEF State
  <1>6. TypeOK'
    <2>1. e3' \in StateOrNone /\ node' \in StateOrNone
      <3>1. PublishE3(os') \/ UNCHANGED <<e3, node>>
        BY <1>1
      <3>2. QED
        BY <1>0, <1>4, <3>1, PublishTyped
    <2>2. source' \in {"", "ptp4l", "ts2phc"}
      BY <1>0, <1>1, SourceTyped
    <2>3. gnssTold' = gnssTold /\ classTold' = classTold
      BY <1>1
    <2>4. QED
      BY <1>0, <1>1, <1>5, <2>1, <2>2, <2>3 DEF TypeOK
  <1>7. GnssInv' /\ ClassInv' /\ StatusInv' /\ E1Inv'
    BY <1>1 DEF IInv, GnssInv, ClassInv, StatusInv, E1Inv, State
  <1>8. CASE GenPublishes(State(os), sample, inRange, OsClockSyncStateChange)
    <2>1. e3' = os' /\ node' = NodeSyncState(main', master', os', os')
      BY <1>1, <1>8 DEF PublishE3
    <2>2. E3Inv'
      BY <1>5, <2>1 DEF E3Inv
    <2>3. State(main') \in StateOrNone /\ State(os') \in StateOrNone
      BY <1>0, <1>1, <1>4, <1>5, StateTyped, StateOfState DEF TypeOK
    <2>4. NodeInv'
      BY <1>4, <2>1, <2>3, NodeLocked DEF NodeInv, State
    <2>5. QED
      BY <1>6, <1>7, <2>2, <2>4 DEF IInv
  <1>9. CASE ~GenPublishes(State(os), sample, inRange, OsClockSyncStateChange)
    <2>1. os' = State(os) /\ State(os') = State(os)
      BY <1>1, <1>3, <1>4, <1>9, E3PublishesChanges, StateOfState
    <2>2. UNCHANGED <<e3, node>>
      BY <1>1, <1>9
    <2>3. QED
      BY <1>1, <1>6, <1>7, <2>1, <2>2, Untouched DEF IInv
  <1>10. QED
    BY <1>8, <1>9

\* The lines that publish neither E1 nor E3.
LEMMA QuietKeeps ==
    ASSUME IInv, TypeOK', UNCHANGED <<kind, e1, e3, node, history>>,
           State(main') = State(main), State(os') = State(os), main # Absent => main' # Absent,
           GnssInv', UNCHANGED <<class, classTold>>
    PROVE  IInv'
  <1>1. ClassInv'
    BY DEF IInv, ClassInv
  <1>2. QED
    BY <1>1, Untouched DEF IInv

LEMMA MasterOffsetKeeps ==
    ASSUME IInv, NEW s \in SyncState, MasterOffsetLine(s)
    PROVE  IInv'
  <1> USE DEF MasterOffsetLine, published, history
  <1>0. TypeOK /\ source' \in {"", "ptp4l", "ts2phc"}
    BY SourceTyped DEF IInv
  <1>1. master' \in StatState
    BY <1>0, StateTyped DEF TypeOK, StatState, StateOrNone
  <1>2. TypeOK'
    BY <1>0, <1>1 DEF TypeOK
  <1>3. GnssInv'
    BY DEF IInv, GnssInv
  <1>4. QED
    BY <1>2, <1>3, QuietKeeps

LEMMA PortKeeps ==
    ASSUME IInv, NEW role \in PortRole, PortLine(role)
    PROVE  IInv'
  <1> USE DEF PortLine, published, history
  <1>0. TypeOK /\ source' \in {"", "ptp4l", "ts2phc"}
    BY SourceTyped DEF IInv
  <1>1. master' \in StatState
    BY <1>0, StateTyped DEF TypeOK, StatState, StateOrNone, SyncState
  <1>2. os' \in StatState /\ State(os') = State(os)
    BY <1>0, StateTyped DEF TypeOK, StatState
  <1>3. proc' \in {"", "ptp4l", "ts2phc"} /\ slave' \in BOOLEAN
    BY <1>0 DEF TypeOK, ProcessOf
  <1>4. TypeOK'
    BY <1>0, <1>1, <1>2, <1>3 DEF TypeOK
  <1>5. GnssInv'
    BY DEF IInv, GnssInv
  <1>6. QED
    BY <1>2, <1>4, <1>5, QuietKeeps

\* A class line is about "master" until there is a main clock.
LEMMA ClassKeeps ==
    ASSUME IInv, NEW c \in Classes, ClassLine(c)
    PROVE  IInv'
  <1> USE DEF ClassLine, history
  <1>0. TypeOK /\ source' \in {"", "ptp4l", "ts2phc"} /\ c # 0
    BY SourceTyped, ClassesAssumption DEF IInv
  <1>1. master' \in StatState /\ proc' \in {"", "ptp4l", "ts2phc"}
    BY <1>0, StateTyped DEF TypeOK, StatState, ProcessOf
  <1>2. MainClockName \in {"main", "master"} /\ (main # Absent <=> MainClockName = "main")
    BY DEF MainClockName
  <1>3. class' \in [{"main", "master"} -> Classes \cup {0}] /\ classTold' \in Classes \cup {0}
    BY <1>0, <1>2 DEF TypeOK
  <1>4. TypeOK'
    BY <1>0, <1>1, <1>3 DEF TypeOK
  <1>5. ClassInv'
    <2>1. CASE UNCHANGED <<class, classTold>>
      BY <2>1 DEF IInv, ClassInv
    <2>2. CASE class' = [class EXCEPT ![MainClockName] = c] /\ classTold' = c
      BY <1>0, <1>2, <2>2 DEF IInv, ClassInv, TypeOK
    <2>3. QED
      BY <2>1, <2>2
  <1>6. GnssInv'
    BY DEF IInv, GnssInv
  <1>7. QED
    BY <1>4, <1>5, <1>6, Untouched DEF IInv

LEMMA DpllKeeps ==
    ASSUME IInv, DpllLine
    PROVE  IInv'
  <1> USE DEF DpllLine, published, history, masterVars
  <1>0. TypeOK /\ source' \in {"", "ptp4l", "ts2phc"}
    BY SourceTyped DEF IInv
  <1>1. nic' \in StatState
    BY <1>0, StateTyped DEF TypeOK, StatState
  <1>2. TypeOK'
    BY <1>0, <1>1 DEF TypeOK
  <1>3. GnssInv'
    BY DEF IInv, GnssInv
  <1>4. QED
    BY <1>2, <1>3, QuietKeeps

\* A gnss event tells whether the receiver is synchronised, and the next one
\* comes when that changes at the latest.
LEMMA GnssKeeps ==
    ASSUME IInv, NEW d \in GnssDep, GnssLine(d)
    PROVE  IInv'
  <1> USE DEF GnssLine, history, masterVars
  <1>0. TypeOK /\ source' \in {"", "ptp4l", "ts2phc"}
    BY SourceTyped DEF IInv
  <1>1. nic' \in StatState
    BY <1>0, StateTyped DEF TypeOK, StatState
  <1>2. GetGPSFixState(d.fix, d.state) \in GpsState
    BY DEF GetGPSFixState, GpsState
  <1>3. d.state # Absent /\ NoGnss.state = Absent
    BY DEF GnssDep, NoGnss, SyncState, Absent, FREERUN, HOLDOVER, LOCKED
  <1>4. TypeOK'
    BY <1>0, <1>1, <1>2 DEF TypeOK
  <1>5. GnssInv'
    BY <1>0, <1>3 DEF IInv, GnssInv, GetGPSFixState
  <1>6. QED
    BY <1>4, <1>5, QuietKeeps

LEMMA Ts2phcDownKeeps ==
    ASSUME IInv, Ts2phcDown
    PROVE  IInv'
  <1> USE DEF Ts2phcDown, published, masterVars
  <1>0. TypeOK
    BY DEF IInv
  <1>1. main' \in StatState /\ nic' \in StatState /\ silent' \in BOOLEAN
    BY <1>0 DEF TypeOK, StatState, StateOrNone, SyncState
  <1>2. TypeOK'
    BY <1>0, <1>1 DEF TypeOK
  <1>3. main # Absent => main' # Absent
    BY DEF Absent, FREERUN
  <1>4. GnssInv' /\ ClassInv' /\ E3Inv'
    BY <1>3 DEF IInv, GnssInv, ClassInv, E3Inv, State
  <1>5. ~silent' => ~silent /\ State(main') = State(main)
    BY <1>0 DEF TypeOK
  <1>6. StatusInv' /\ E1Inv' /\ NodeInv'
    BY <1>5 DEF IInv, StatusInv, E1Inv, NodeInv, State
  <1>7. QED
    BY <1>2, <1>4, <1>6 DEF IInv

\* GenPTPEvent publishes FREERUN unless the stat is in it, or E1 in HOLDOVER.
LEMMA FallsFreeE3 ==
    ASSUME NEW x \in StatState, x # Absent, ~FallsFree(x, OsClockSyncStateChange)
    PROVE  State(x) = FREERUN
  BY StateTyped, E3PublishesChanges
     DEF FallsFree, GenPublishes, GenState, PtpStateChange, OsClockSyncStateChange, NoState, FREERUN, LOCKED

LEMMA PtpProcessDownKeeps ==
    ASSUME IInv, NEW process \in {"ptp4l", "phc2sys"}, PtpProcessDown(process)
    PROVE  IInv'
  <1> DEFINE tbc == kind = TBC /\ process = "ptp4l" /\ main # Absent
             ofMaster == source = process /\ named
             mainTold == tbc /\ FallsFree(main, PtpStateChange)
             masterTold == ofMaster /\ FallsFree(master, PtpStateChange)
             osTold == FallsFree(os, OsClockSyncStateChange)
  <1>0. TypeOK /\ FREERUN \in StateOrNone /\ State(FREERUN) = FREERUN /\ FREERUN # Absent
    BY StateOfState DEF IInv, StateOrNone, SyncState
  <1>1. /\ main' = IF tbc THEN FREERUN ELSE main
        /\ master' = IF ofMaster THEN FREERUN ELSE master
        /\ os' = IF os = Absent THEN Absent ELSE FREERUN
        /\ e1' = IF mainTold \/ masterTold THEN FREERUN ELSE e1
        /\ e3' = IF osTold THEN FREERUN ELSE e3
        /\ node' = IF mainTold \/ masterTold \/ osTold THEN FREERUN ELSE node
        /\ told' = IF mainTold THEN FREERUN ELSE told
        /\ silent' = IF mainTold THEN FALSE ELSE silent \/ State(main') # State(main)
        /\ reported' = IF tbc THEN NoState ELSE reported
        /\ UNCHANGED <<kind, nic, proc, named, slave, source, lastGM, gnss, class, gnssTold, classTold>>
    BY DEF PtpProcessDown, masterVars
  <1>2. osTold => os # Absent
    BY DEF FallsFree
  <1>3. os # Absent /\ ~osTold => State(os) = FREERUN
    BY <1>0, FallsFreeE3 DEF TypeOK
  <1> HIDE DEF mainTold, masterTold, osTold
  <1>4. TypeOK'
    <2>1. {main', nic', master', os'} \subseteq StatState
      BY <1>0, <1>1 DEF TypeOK, StatState, StateOrNone
    <2>2. {e1', e3', node', lastGM', told', reported'} \subseteq StateOrNone
      BY <1>0, <1>1 DEF TypeOK, StateOrNone
    <2>3. silent' \in BOOLEAN
      BY <1>0, <1>1 DEF TypeOK
    <2>4. QED
      BY <1>0, <1>1, <2>1, <2>2, <2>3 DEF TypeOK
  <1>5. GnssInv' /\ ClassInv'
    BY <1>0, <1>1 DEF IInv, GnssInv, ClassInv
  <1>6. E3Inv'
    BY <1>0, <1>1, <1>2, <1>3 DEF IInv, E3Inv, State
  <1>7. NodeInv'
    <2>1. CASE mainTold \/ masterTold \/ osTold
      BY <1>1, <2>1 DEF NodeInv, FREERUN, LOCKED
    <2>2. CASE ~(mainTold \/ masterTold \/ osTold)
      BY <1>0, <1>1, <1>3, <2>2 DEF IInv, NodeInv, State, FREERUN, LOCKED, NoState
    <2>3. QED
      BY <2>1, <2>2
  <1>8. StatusInv' /\ E1Inv'
    <2>1. CASE mainTold
      <3>1. tbc
        BY <2>1 DEF mainTold
      <3>2. QED
        BY <1>0, <1>1, <2>1, <3>1 DEF StatusInv, E1Inv, State
    <2>2. CASE ~mainTold /\ ~masterTold
      BY <1>0, <1>1, <2>2 DEF IInv, StatusInv, E1Inv, State
    <2>3. CASE ~mainTold /\ masterTold
      <3>1. process = "ptp4l"
        BY <1>0, <2>3 DEF masterTold, TypeOK
      <3>2. kind # TBC \/ main = Absent \/ main' = FREERUN
        BY <1>1, <3>1
      <3>3. E1Inv'
        BY <1>0, <1>1, <2>3, <3>2 DEF E1Inv, State
      <3>4. StatusInv'
        BY <1>0, <1>1, <2>3 DEF IInv, StatusInv, State
      <3>5. QED
        BY <3>3, <3>4
    <2>4. QED
      BY <2>1, <2>2, <2>3
  <1>9. QED
    BY <1>4, <1>5, <1>6, <1>7, <1>8 DEF IInv

LEMMA NextIInv == IInv /\ [Next]_vars => IInv'
  <1> SUFFICES ASSUME IInv, [Next]_vars PROVE IInv'
    OBVIOUS
  <1>1. ASSUME NEW s \in SyncState, StatusLine(s) \/ MasterOffsetLine(s) PROVE IInv'
    BY <1>1, StatusKeeps, MasterOffsetKeeps
  <1>2. ASSUME NEW s \in SyncState, NEW inRange \in BOOLEAN,
               CardLine(s, inRange) \/ ClockRealTimeLine(s, inRange)
        PROVE  IInv'
    BY <1>2, CardKeeps, RealTimeKeeps
  <1>3. ASSUME NEW role \in PortRole, PortLine(role) PROVE IInv'
    BY <1>3, PortKeeps
  <1>4. ASSUME NEW c \in Classes, ClassLine(c) PROVE IInv'
    BY <1>4, ClassKeeps
  <1>5. ASSUME NEW d \in GnssDep, GnssLine(d) PROVE IInv'
    BY <1>5, GnssKeeps
  <1>6. ASSUME NEW process \in {"ptp4l", "phc2sys"}, PtpProcessDown(process) PROVE IInv'
    BY <1>6, PtpProcessDownKeeps
  <1>7. CASE UNCHANGED vars
    <2>1. UNCHANGED <<kind, main, nic, master, os, proc, source, named, slave, lastGM, gnss, class,
                      e1, e3, node, gnssTold, classTold, told, reported, silent>>
      BY <1>7 DEF vars, stats, masterVars, published, history
    <2>2. TypeOK' /\ GnssInv'
      BY <2>1 DEF IInv, TypeOK, GnssInv
    <2>3. QED
      BY <2>1, <2>2, QuietKeeps DEF history
  <1>8. QED
    BY <1>1, <1>2, <1>3, <1>4, <1>5, <1>6, <1>7, DpllKeeps, Ts2phcDownKeeps DEF Next

LEMMA SpecIInv == Spec => []IInv
  BY InitIInv, NextIInv, PTL DEF Spec

-----------------------------------------------------------------------------
\* The variables keep their types through every line and process status.
THEOREM TypeCorrect == Spec => []TypeOK
  <1>1. IInv => TypeOK
    BY DEF IInv
  <1>2. QED
    BY <1>1, SpecIInv, PTL

\* ParseGMLogs and ParseTBCLogs: the subscribers know the last status, whatever
\* lines of other processes come in between, unless a process went down silently.
THEOREM StatusAlwaysReaches == Spec => []StatusReachesSubscribers
  <1>1. IInv => StatusReachesSubscribers
    BY DEF IInv, StatusInv, StatusReachesSubscribers
  <1>2. QED
    BY <1>1, SpecIInv, PTL

\* getCurrentStatOverrideFn and publishEvent never contradict each other.
THEOREM PullAlwaysAgrees == Spec => []PullAgreesWithPush
  <1>1. IInv => PullAgreesWithPush
    <2> SUFFICES ASSUME IInv PROVE PullAgreesWithPush
      OBVIOUS
    <2>1. kind = TBC /\ State(main) # NoState /\ e1 # NoState /\ ~silent => PullLockState = e1
      BY DEF IInv, E1Inv, PullLockState, State
    <2>2. e3 # NoState => PullOsClock = e3
      BY DEF IInv, E3Inv, PullOsClock
    <2>3. gnssTold # NoState => (PullGnss = "SYNCHRONIZED") = (gnssTold = "SYNCHRONIZED")
      BY DEF IInv, GnssInv, PullGnss, GetGPSFixState
    <2>4. class["main"] # 0 => PullClass = classTold
      BY DEF IInv, ClassInv, PullClass, MainClockName
    <2>5. QED
      BY <2>1, <2>2, <2>3, <2>4 DEF PullAgreesWithPush
  <1>2. QED
    BY <1>1, SpecIInv, PTL

\* GetNodeSyncState is recomputed whenever the main clock or CLOCK_REALTIME gets
\* worse: a node that was told to be LOCKED answers LOCKED.
THEOREM NodeNeverBetterAlways == Spec => []NodeNeverBetter
  <1>1. IInv => NodeNeverBetter
    BY DEF IInv, NodeInv, NodeNeverBetter, PullSyncState, PullLockState, PullOsClock,
           OverallState, FREERUN, HOLDOVER, LOCKED, NoState
  <1>2. QED
    BY <1>1, SpecIInv, PTL

\* The phc2sys branch lets E3 become LOCKED only along with E1, and only the
\* phc2sys branch lets it become LOCKED at all.
THEOREM OsAlwaysFollowsE1 == Spec => OsNeverAheadOfE1
  <1> DEFINE Follows == os # LOCKED /\ os' = LOCKED =>
                          main = LOCKED \/ (kind = TGM /\ State(main) = NoState)
  <1>1. ASSUME IInv, [Next]_vars PROVE [Follows]_vars
    <2> SUFFICES ASSUME os # LOCKED, os' = LOCKED
                 PROVE  main = LOCKED \/ (kind = TGM /\ State(main) = NoState)
      OBVIOUS
    <2>1. PICK s \in SyncState, inRange \in BOOLEAN : ClockRealTimeLine(s, inRange)
      <3>1. /\ \A s \in SyncState : ~StatusLine(s) /\ ~MasterOffsetLine(s)
            /\ \A s \in SyncState, inRange \in BOOLEAN : ~CardLine(s, inRange)
            /\ \A c \in Classes : ~ClassLine(c)
            /\ ~DpllLine
            /\ \A d \in GnssDep : ~GnssLine(d)
            /\ ~Ts2phcDown
        BY DEF StatusLine, MasterOffsetLine, CardLine, ClassLine, DpllLine, GnssLine, Ts2phcDown
      <3>2. \A role \in PortRole : ~PortLine(role)
        BY DEF PortLine, CheckSource, LOCKED, NoState
      <3>3. \A process \in {"ptp4l", "phc2sys"} : ~PtpProcessDown(process)
        BY DEF PtpProcessDown, Absent, LOCKED, FREERUN
      <3>4. ~UNCHANGED vars
        BY DEF vars, stats
      <3>5. QED
        BY <1>1, <3>1, <3>2, <3>3, <3>4 DEF Next
    <2> DEFINE forced == IF source' = "ts2phc" /\ lastGM = FREERUN THEN FREERUN ELSE s
    <2>2. /\ State(os) \in StateOrNone /\ State(main) \in StateOrNone /\ kind \in {TGM, TBC}
          /\ State(os) # LOCKED
          /\ State(main) = LOCKED => main = LOCKED
      BY <1>1, StateTyped DEF IInv, TypeOK, State, NoState, LOCKED
    <2>3. forced \in SyncState /\ MainState \in StateOrNone
      BY <2>2 DEF MainState, SyncState, StateOrNone
    <2>4. os' = GenState(State(os), OverallState(forced, MainState), inRange)
      BY <2>1 DEF ClockRealTimeLine
    <2> HIDE DEF forced
    <2>5. OverallState(forced, MainState) = LOCKED
      BY <2>2, <2>3, <2>4, SampleTyped DEF GenState, SyncState, FREERUN, HOLDOVER, LOCKED, NoState
    <2>6. MainState \in {LOCKED, NoState}
      BY <2>3, <2>5, SampleLocked
    <2>7. QED
      BY <2>2, <2>6 DEF MainState, FREERUN, LOCKED, NoState
  <1>2. QED
    BY <1>1, SpecIInv, PTL DEF Spec, OsNeverAheadOfE1
=============================================================================
