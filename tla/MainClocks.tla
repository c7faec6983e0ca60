----------------------------- MODULE MainClocks -----------------------------
(***************************************************************************)
(* A grandmaster (T-GM) or telecom boundary clock (T-BC): its E1 state     *)
(* comes ready made in the status lines of linuxptp-daemon and not from    *)
(* ptp4l offsets.  One configuration with one network card; every line is  *)
(* handled whole under extractMu, and no holdover timer exists here.       *)
(*                                                                         *)
(* What a subscriber is told comes along two paths that share no code: the *)
(* events pushed while lines are parsed, and the CurrentState answers      *)
(* computed on request from the statistics that the lines leave behind.    *)
(***************************************************************************)
EXTENDS Naturals, SyncStates

CONSTANTS Classes   \* the clock classes that ptp4l reports

ASSUME ClassesAssumption == Classes \subseteq Nat \ {0}

Absent == "absent"   \* ptpStats has no entry under the key
TGM == "T-GM"
TBC == "T-BC"

VARIABLES
    kind,      \* the profile's type
    main,      \* state of the stat "GM" or "T-BC"
    nic,       \* state of the card's stat, kept by ts2phc lines
    master,    \* state of the stat "master"
    os,        \* state of the stat CLOCK_REALTIME
    proc,      \* ProcessName of the stat "master"
    source,    \* the package variable masterOffsetSource
    named,     \* the stat "master" has an alias
    slave,     \* the upstream port's recorded role is SLAVE
    lastGM,    \* lastOverallGMState
    gnss,      \* the card's dependency on gnss
    class,     \* ClockClass of the main clock's and of the master's stat, 0: unset
    e1, e3, node, gnssTold, classTold,  \* what was published last, by event type
    told,      \* history: the last E1 published for the main clock's stat
    reported,  \* history: the state in the last status line
    silent     \* history: a process went down, and the main clock's stat was
               \* changed without a publication; nothing published for it since

stats == <<main, nic, master, os>>
masterVars == <<proc, named, slave>>
published == <<e1, e3, node, gnssTold, classTold>>
history == <<told, reported, silent>>
vars == <<kind, stats, masterVars, source, lastGM, gnss, class, published, history>>

StatState == StateOrNone \cup {Absent}
GpsState == {"SYNCHRONIZED", "ACQUIRING-SYNC", "FAILURE-NOFIX"}
GnssDep == [state : SyncState, fix : {0, 3}]
NoGnss == [state |-> Absent, fix |-> 0]

TypeOK ==
    /\ kind \in {TGM, TBC}
    /\ {main, nic, master, os} \subseteq StatState
    /\ {proc, source} \subseteq {"", "ptp4l", "ts2phc"}
    /\ {named, slave, silent} \subseteq BOOLEAN
    /\ gnss \in GnssDep \cup {NoGnss}
    /\ class \in [{"main", "master"} -> Classes \cup {0}]
    /\ {e1, e3, node, lastGM, told, reported} \subseteq StateOrNone
    /\ gnssTold \in GpsState \cup {NoState}
    /\ classTold \in Classes \cup {0}

\* A start: processConfigCreate gives the ports the roles of the files, which is
\* SLAVE unless the file says serverOnly or masterOnly.
Init ==
    /\ kind \in {TGM, TBC}
    /\ main = Absent /\ nic = Absent /\ master = Absent /\ os = Absent
    /\ proc = "" /\ source = "" /\ named = FALSE
    /\ slave \in BOOLEAN
    /\ lastGM = NoState
    /\ gnss = NoGnss
    /\ class = [k \in {"main", "master"} |-> 0]
    /\ e1 = NoState /\ e3 = NoState /\ node = NoState
    /\ gnssTold = NoState /\ classTold = 0
    /\ told = NoState /\ reported = NoState /\ silent = FALSE

-----------------------------------------------------------------------------
\* The state remembered by a stat that may be missing.
State(stat) == IF stat = Absent THEN NoState ELSE stat

\* CheckSource: a missing stat is created.
CheckSource(stat) == IF stat = Absent THEN NoState ELSE stat

\* Mutant: the stat "master" stands for E1 whatever the profile.
NodeSyncStateMaster(m, ma, o, s) == Worst({s, State(ma), State(o)})

\* GetNodeSyncState: the main clock (the stat "master" until there is one),
\* CLOCK_REALTIME, the state being published and, but for a T-BC, "master".
NodeSyncState(m, ma, o, s) ==
    Worst({s, State(m), State(o)} \cup
          (IF kind = TBC /\ m # Absent THEN {} ELSE {State(ma)}))

\* PublishEvent of E1, once the stats have their new values: the state of the
\* node is recomputed with it, and published if it is another.
PublishE1(s) ==
    /\ e1' = s
    /\ node' = NodeSyncState(main', master', os', s)
    /\ UNCHANGED <<e3, gnssTold, classTold>>

PublishE3(s) ==
    /\ e3' = s
    /\ node' = NodeSyncState(main', master', os', s)
    /\ UNCHANGED <<e1, gnssTold, classTold>>

\* Every line but a process status first copies the process of "master".
ValidLine == source' = IF master = Absent THEN source ELSE proc

\* Mutant: the stat "master" is created for phc2sys.
ProcessOfPhc2sys(process) == IF master = Absent THEN "phc2sys" ELSE proc

\* The process of "master" after CheckSource with this one.
ProcessOf(process) == IF master = Absent THEN process ELSE proc

-----------------------------------------------------------------------------
\* Mutant: the grandmaster's state is kept in the card's stat, which the faster
\* ts2phc lines consume.
StatusLineShared(s) ==
    /\ ValidLine
    /\ UNCHANGED <<kind, master, os, masterVars, gnss, class>>
    /\ IF kind = TGM /\ nic = Absent
       THEN main' = CheckSource(main) /\ UNCHANGED <<nic, lastGM, published, history>>
       ELSE /\ reported' = s
            /\ IF s = State(nic)
               THEN main' = CheckSource(main) /\ UNCHANGED <<nic, lastGM, published, told, silent>>
               ELSE /\ main' = s
                    /\ nic' = s
                    /\ lastGM' = IF kind = TGM THEN s ELSE lastGM
                    /\ PublishE1(s)
                    /\ told' = s /\ silent' = FALSE

\* T-GM-STATUS and T-BC-STATUS (ParseGMLogs, ParseTBCLogs): a change is stored
\* and published.  A T-GM status that precedes every line about the card creates
\* its stat and panics on the card's missing one.
StatusLine(s) ==
    /\ ValidLine
    /\ UNCHANGED <<kind, nic, master, os, masterVars, gnss, class>>
    /\ IF kind = TGM /\ nic = Absent
       THEN main' = CheckSource(main) /\ UNCHANGED <<lastGM, published, history>>
       ELSE /\ reported' = s
            /\ IF s = State(main)
               THEN UNCHANGED <<main, lastGM, published, told, silent>>
               ELSE /\ main' = s
                    /\ lastGM' = IF kind = TGM THEN s ELSE lastGM
                    /\ PublishE1(s)
                    /\ told' = s /\ silent' = FALSE

\* A ts2phc offset line for the card.  The test that should leave the events of
\* a T-GM to its status lines looks for the GM dependency on the stat "master",
\* where ParseGMLogs never puts it, so a T-GM generates E1 from the card as well.
CardLine(s, inRange) ==
    /\ ValidLine
    /\ master' = CheckSource(master)
    /\ proc' = "ts2phc"
    /\ UNCHANGED <<main, os>>
    /\ IF kind = TBC
       THEN /\ nic' = IF s # HOLDOVER /\ ~inRange THEN FREERUN ELSE s
            /\ UNCHANGED published
       ELSE /\ nic' = GenState(State(nic), s, inRange)
            /\ IF GenPublishes(State(nic), s, inRange, PtpStateChange)
               THEN PublishE1(nic')
               ELSE UNCHANGED published
    /\ UNCHANGED <<kind, named, slave, lastGM, gnss, class, history>>

\* Mutant: an E1 that has not been reported yet never holds E3 back.
MainStateUnset == State(main)

\* E1 as the phc2sys branch sees it.  Until a status line has set it, it counts as
\* FREERUN for a T-BC.  The same is written for a T-GM, but no profile ever gets
\* the type TGM (GetProfileType knows only TBC), so that nothing is combined.
MainState == IF kind = TBC /\ State(main) = NoState THEN FREERUN ELSE State(main)

\* phc2sys "CLOCK_REALTIME phc offset ...".  A T-GM in FREERUN whose master
\* offsets come from ts2phc forces the sample to FREERUN.
ClockRealTimeLine(s, inRange) ==
    /\ ValidLine
    /\ LET forced == IF source' = "ts2phc" /\ lastGM = FREERUN THEN FREERUN ELSE s
           sample == OverallState(forced, MainState)
       IN  /\ os' = GenState(State(os), sample, inRange)
           /\ UNCHANGED <<main, nic, master>>
           /\ IF GenPublishes(State(os), sample, inRange, OsClockSyncStateChange)
              THEN PublishE3(os')
              ELSE UNCHANGED published
    /\ UNCHANGED <<kind, masterVars, lastGM, gnss, class, history>>

\* ptp4l "master offset ..." of a T-BC: kept for the metrics, never published.
MasterOffsetLine(s) ==
    /\ kind = TBC
    /\ ValidLine
    /\ proc' = "ptp4l"
    /\ named' = (named \/ slave)
    /\ master' = IF slave THEN s ELSE CheckSource(master)
    /\ UNCHANGED <<kind, main, nic, os, slave, lastGM, gnss, class, published, history>>

\* What extractPTP4lEventState makes of a port line; every other role counts for
\* no more than LISTENING here.
PortRole == {"SLAVE", "FAULTY", "LISTENING"}

\* ptp4l "port ... to <role>".  A T-BC never enters HOLDOVER here, and the ports
\* of a T-GM are never SLAVE.
PortLine(role) ==
    /\ role = "SLAVE" => kind = TBC
    /\ ValidLine
    /\ slave' = (role = "SLAVE")
    /\ IF role = "SLAVE" \/ source' = "ts2phc"
       THEN os' = CheckSource(os) /\ proc' = ProcessOf(source')
       ELSE UNCHANGED <<os, proc>>
    /\ master' = IF role = "FAULTY" /\ slave /\ master # Absent /\ named THEN FREERUN
                 ELSE IF role = "SLAVE" \/ source' = "ts2phc" THEN CheckSource(master)
                 ELSE master
    /\ UNCHANGED <<kind, main, nic, named, lastGM, gnss, class, published, history>>

\* The stat GetMainClockName returns.
MainClockName == IF main = Absent THEN "master" ELSE "main"

\* ptp4l CLOCK_CLASS_CHANGE: a change is stored on the main clock and published.
ClassLine(c) ==
    /\ ValidLine
    /\ IF main = Absent
       THEN master' = CheckSource(master) /\ proc' = ProcessOf("ptp4l")
       ELSE UNCHANGED <<master, proc>>
    /\ IF class[MainClockName] = c
       THEN UNCHANGED <<class, classTold>>
       ELSE class' = [class EXCEPT ![MainClockName] = c] /\ classTold' = c
    /\ UNCHANGED <<kind, main, nic, os, named, slave, lastGM, gnss, e1, e3, node, gnssTold, history>>

\* dpll status line: a dependency of the card, which no event depends on.
DpllLine ==
    /\ ValidLine
    /\ nic' = CheckSource(nic)
    /\ UNCHANGED <<kind, main, master, os, masterVars, lastGM, gnss, class, published, history>>

\* GetGPSFixState.
GetGPSFixState(fix, s) ==
    IF s = LOCKED THEN "SYNCHRONIZED" ELSE IF fix = 0 THEN "FAILURE-NOFIX" ELSE "ACQUIRING-SYNC"

\* Mutant: an event is sent for a change of the fix, not of the state.
GnssLineOnFix(d) ==
    /\ ValidLine
    /\ nic' = CheckSource(nic)
    /\ gnss' = d
    /\ gnssTold' = IF gnss # NoGnss /\ gnss.fix = d.fix THEN gnssTold
                   ELSE GetGPSFixState(d.fix, d.state)
    /\ UNCHANGED <<kind, main, master, os, masterVars, lastGM, class, e1, e3, node, classTold, history>>

\* gnss status line: the dependency is replaced, and an event is sent when its
\* sync state is another one.  The node state takes no part.
GnssLine(d) ==
    /\ ValidLine
    /\ nic' = CheckSource(nic)
    /\ gnss' = d
    /\ gnssTold' = IF gnss.state = d.state THEN gnssTold
                   ELSE GetGPSFixState(d.fix, d.state)
    /\ UNCHANGED <<kind, main, master, os, masterVars, lastGM, class, e1, e3, node, classTold, history>>

-----------------------------------------------------------------------------
\* ts2phc went down: every stat but "master" and CLOCK_REALTIME becomes FREERUN,
\* and nothing is published.
Ts2phcDown ==
    /\ main' = IF main = Absent THEN Absent ELSE FREERUN
    /\ nic' = IF nic = Absent THEN Absent ELSE FREERUN
    /\ silent' = (silent \/ State(main') # State(main))
    /\ UNCHANGED <<kind, master, os, masterVars, source, lastGM, gnss, class, published, told, reported>>

\* Whether GenPTPEvent publishes FREERUN for the stat.
FallsFree(stat, eventType) ==
    stat # Absent /\ GenPublishes(State(stat), FREERUN, FALSE, eventType)

\* ptp4l or phc2sys went down: a T-BC without ptp4l, the master whose offsets
\* the process reports and CLOCK_REALTIME go through GenPTPEvent with FREERUN.
PtpProcessDown(process) ==
    LET tbc == kind = TBC /\ process = "ptp4l" /\ main # Absent
        ofMaster == source = process /\ named
        mainTold == tbc /\ FallsFree(main, PtpStateChange)
    IN  /\ main' = IF tbc THEN FREERUN ELSE main
        /\ master' = IF ofMaster THEN FREERUN ELSE master
        /\ os' = IF os = Absent THEN Absent ELSE FREERUN
        /\ e1' = IF mainTold \/ (ofMaster /\ FallsFree(master, PtpStateChange)) THEN FREERUN ELSE e1
        /\ e3' = IF FallsFree(os, OsClockSyncStateChange) THEN FREERUN ELSE e3
        /\ node' = IF mainTold \/ (ofMaster /\ FallsFree(master, PtpStateChange))
                          \/ FallsFree(os, OsClockSyncStateChange)
                   THEN FREERUN ELSE node
        /\ told' = IF mainTold THEN FREERUN ELSE told
        /\ silent' = IF mainTold THEN FALSE ELSE silent \/ State(main') # State(main)
        /\ reported' = IF tbc THEN NoState ELSE reported
        /\ UNCHANGED <<kind, nic, masterVars, source, lastGM, gnss, class, gnssTold, classTold>>

Next ==
    \/ \E s \in SyncState : StatusLine(s) \/ MasterOffsetLine(s)
    \/ \E s \in SyncState, inRange \in BOOLEAN : CardLine(s, inRange) \/ ClockRealTimeLine(s, inRange)
    \/ \E role \in PortRole : PortLine(role)
    \/ \E c \in Classes : ClassLine(c)
    \/ DpllLine
    \/ \E d \in GnssDep : GnssLine(d)
    \/ Ts2phcDown
    \/ \E process \in {"ptp4l", "phc2sys"} : PtpProcessDown(process)

Spec == Init /\ [][Next]_vars

-----------------------------------------------------------------------------
(* getCurrentStatOverrideFn: what a GET of the current state answers.      *)

\* ptp-status/lock-state; NoState: no notification value in the answer.
PullLockState == IF main = Absent THEN State(master) ELSE State(main)

\* sync-status/os-clock-sync-state and sync-status/sync-state.
PullOsClock == State(os)
PullSyncState == OverallState(PullLockState, PullOsClock)

\* gnss-status/gnss-sync-status, and ptp-status/clock-class (0: not found).
PullGnss == IF gnss = NoGnss THEN NoState ELSE GetGPSFixState(gnss.fix, gnss.state)
PullClass == class[MainClockName]

-----------------------------------------------------------------------------
(* Properties.                                                             *)

\* The state in the last status line has reached the subscribers, unless a
\* process-down line changed the remembered state in silence (metrics.go:420).
StatusReachesSubscribers ==
    reported # NoState /\ ~silent => told = reported

\* The part without the exception that matters most, as the comment in
\* processDownEvent has it ("this should generate PTP stat as free run by event
\* manager"): when the last status line of a grandmaster says FREERUN, its
\* subscribers were not told LOCKED last.  Refuted: after ts2phc went down the
\* status is no change any more.
GrandmasterLeavesLocked ==
    kind = TGM /\ reported = FREERUN => told # LOCKED

\* A GET answers what was pushed last: E1 of a T-BC (but for the silence above),
\* E3, whether the GNSS receiver is synchronised, and the clock class once the
\* main clock has one.
PullAgreesWithPush ==
    /\ kind = TBC /\ State(main) # NoState /\ e1 # NoState /\ ~silent => PullLockState = e1
    /\ e3 # NoState => PullOsClock = e3
    /\ gnssTold # NoState => (PullGnss = "SYNCHRONIZED") = (gnssTold = "SYNCHRONIZED")
    /\ class["main"] # 0 => PullClass = classTold

\* While the last node event says LOCKED, a GET of the node state does not answer
\* worse: no change of the main clock or CLOCK_REALTIME goes by without its node
\* event (metrics.go:355 and 420 change stats in silence).
NodeNeverBetter ==
    node = LOCKED /\ main # Absent /\ ~silent => PullSyncState \in {LOCKED, NoState}

\* O-RAN Table 37 as metrics.go:286 quotes it: E3 never becomes LOCKED unless E1
\* is.  A T-BC without a status yet counts as FREERUN; a T-GM should, but its
\* missing E1 holds nothing back.
OsNeverAheadOfE1 ==
    [][os # LOCKED /\ os' = LOCKED =>
         main = LOCKED \/ (kind = TGM /\ State(main) = NoState)]_vars
=============================================================================
