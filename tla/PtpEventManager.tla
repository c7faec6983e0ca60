--------------------------- MODULE PtpEventManager ---------------------------
(***************************************************************************)
(* The event manager of the PTP plugin for ordinary and boundary clocks:   *)
(* how log lines and holdover timers move the PTP state (E1) and the OS    *)
(* clock state (E3) of every ptp4l configuration, and which E1, E3 and     *)
(* node events are published.                                              *)
(*                                                                         *)
(* ExtractMetrics handles one log line at a time under extractMu, but a    *)
(* holdover goroutine (handleHoldOverState) takes no lock across its test, *)
(* its store and its publication, and interleaves with the line that is    *)
(* being handled.  A line is therefore one step that reads the log and the *)
(* remembered state, followed by one step for every later access to state  *)
(* that the goroutines share: store, publish, compare with the node state, *)
(* publish the node state, remember it.  Both kinds of thread run the same *)
(* publication steps.                                                      *)
(*                                                                         *)
(* A profile that also runs chronyd has a second configuration for it,     *)
(* chronyd.N.config, with a CLOCK_REALTIME stat of its own and nothing     *)
(* else: no interface, no master stat, no holdover.                        *)
(***************************************************************************)
EXTENDS Naturals, SyncStates

CONSTANTS
    Configs,   \* the ptp4l configurations, one profile each, and the chronyd ones
    Ports,     \* the ports of a configuration
    Loaded,    \* the configurations whose profile has thresholds and options
    Chronyd,   \* the chronyd configurations
    Failover,  \* the ptp4l configurations that share their profile with one
    Restarts,  \* whether linuxptp-daemon asks for restarts
    Slots      \* bound: holdover goroutines alive at once

Log == "log"             \* the thread that holds extractMu
Default == "default"     \* GetDefaultThreshold: a channel nobody can close
Thread == Slots \cup {Log}

ASSUME ManagerAssumption ==
    /\ Loaded \subseteq Configs
    /\ Chronyd \subseteq Configs
    /\ Failover \subseteq Configs \ Chronyd
    /\ Log \notin Slots
    /\ Default \notin Configs
    /\ Restarts \in BOOLEAN

\* The two clocks of a configuration.
E1 == PtpStateChange
E3 == OsClockSyncStateChange
Clock == Configs \X EventType

VARIABLES
    last,       \* LastSyncState of the master and CLOCK_REALTIME stats
    pub,        \* the state in the last event published for the clock
    master,     \* ProcessName of the master stat, or "absent"
    osKnown,    \* the ptp4l configuration has a CLOCK_REALTIME stat
    aliasKnown, \* the master stat has an alias
    slaves,     \* the ports whose recorded role is SLAVE
    source,     \* the package variable masterOffsetSource
    overall,    \* lastOverallSyncState, in memory and in metrics.json
    nodePub,    \* the state in the last SyncStateChange event
    thr,        \* what every thread is doing
    pending,    \* the line being handled has still to put E3 in FREERUN
    reporter,   \* history: the process that reported CLOCK_REALTIME last, whose
                \* series clearStaleClockRealTimeMetric has left in the gauge
    told,       \* history: the clock of the last event
    disturbed   \* history: two threads have published at the same time, or the
                \* process was restarted in the middle of a publication

statVars == <<master, osKnown, aliasKnown, slaves, source, reporter>>
nodeVars == <<overall, nodePub, told>>
vars == <<last, pub, statVars, nodeVars, thr, pending, disturbed>>

\* A thread: where it is, the clock and state it is publishing, the node state
\* it has computed, and `aux': for the log thread what Store and Finish have to
\* do besides, for a holdover goroutine the threshold whose channel it waits on.
Task(pc, c, ev, s, node, aux) ==
    [pc |-> pc, cfg |-> c, ev |-> ev, state |-> s, node |-> node, aux |-> aux]

Idle == Task("idle", Default, E1, NoState, NoState, "none")

Pc == {"idle", "store", "publish", "node", "nodepub", "update", "waiting", "check", "set"}
Aux == {"none", "announce", "cancel", "start", Default} \cup Configs

TaskType ==
    [pc : Pc, cfg : Configs \cup {Default}, ev : EventType,
     state : StateOrNone, node : StateOrNone, aux : Aux]

TypeOK ==
    /\ last \in [Clock -> StateOrNone]
    /\ pub \in [Clock -> StateOrNone]
    /\ master \in [Configs -> {"absent", "", "ptp4l"}]
    /\ osKnown \in [Configs -> BOOLEAN]
    /\ aliasKnown \in [Configs -> BOOLEAN]
    /\ slaves \in [Configs -> SUBSET Ports]
    /\ source \in {"", "ptp4l"}
    /\ overall \in StateOrNone
    /\ nodePub \in StateOrNone
    /\ thr \in [Thread -> TaskType]
    /\ pending \in BOOLEAN
    /\ reporter \in {"none", "phc2sys", "chronyd"}
    /\ told \subseteq Clock
    /\ disturbed \in BOOLEAN

\* processConfigCreate: a port starts as SLAVE unless its section makes it a
\* server port, or it has no section.  A restart may find changed files.
ConfiguredRoles == {roles \in [Configs -> SUBSET Ports] : \A c \in Chronyd : roles[c] = {}}

Init ==
    /\ last = [k \in Clock |-> NoState]
    /\ pub = [k \in Clock |-> NoState]
    /\ master = [c \in Configs |-> "absent"]
    /\ osKnown = [c \in Configs |-> FALSE]
    /\ aliasKnown = [c \in Configs |-> FALSE]
    /\ slaves \in ConfiguredRoles
    /\ source = ""
    /\ overall = NoState
    /\ nodePub = NoState
    /\ thr = [t \in Thread |-> Idle]
    /\ pending = FALSE
    /\ reporter = "none"
    /\ told = {}
    /\ disturbed = FALSE

\* The threads that are past the point where they can be called off.
Busy == {t \in Thread : thr[t].pc \notin {"idle", "waiting"}}

\* History: are two threads at work at once?
Tracked == disturbed' = (disturbed \/ \E t1, t2 \in Busy' : t1 # t2)

-----------------------------------------------------------------------------
(* Thresholds and the holdover channel.                                    *)

\* LookupEventThreshold: the profile's own entry, else any entry of the map.
\* With none at all PtpThreshold makes a default one, fresh for every call.
Threshold(c) ==
    IF c \in Loaded THEN {c} ELSE IF Loaded # {} THEN Loaded ELSE {Default}

Waits(t, th) == thr[t].pc = "waiting" /\ thr[t].aux = th /\ th # Default

\* SafeClose on the channel of th, by the log thread, which goes on with task:
\* the goroutines that wait on it return.
SafeClose(th, task) ==
    [t \in Thread |-> IF t = Log THEN task ELSE IF Waits(t, th) THEN Idle ELSE thr[t]]

FreeSlot == CHOOSE s \in Slots : thr[s].pc = "idle"

\* Mutant: PtpThreshold is asked not to reset the channel.
StartHoldoverTimerNoReset(c) ==
    \E th \in Threshold(c) :
        thr' = [thr EXCEPT ![Log] = Idle,
                           ![FreeSlot] = Task("waiting", c, E1, NoState, NoState, th)]

\* startHoldoverTimer: PtpThreshold closes the channel of an earlier timer and
\* replaces it, then the goroutine starts.
StartHoldoverTimer(c) ==
    \E th \in Threshold(c) :
        thr' = [SafeClose(th, Idle) EXCEPT ![FreeSlot] =
                    Task("waiting", c, E1, NoState, NoState, th)]

-----------------------------------------------------------------------------
(* GenPTPEvent, and the steps of a publication.                            *)

\* GenPTPEvent up to its first effect: what the calling thread does next.
GenPTPEvent(c, ev, s, inRange) ==
    LET old == last[<<c, ev>>]
    IN  IF ~GenStores(old, s, inRange) THEN Idle
        ELSE Task("store", c, ev, GenState(old, s, inRange), NoState,
                  IF ~GenPublishes(old, s, inRange, ev) THEN "none"
                  ELSE IF GenCancels(old, s, inRange) THEN "cancel"
                  ELSE "announce")

ChronydActiveAsE3 == \E c \in Chronyd : last[<<c, E3>>] # NoState

\* The clocks GetNodeSyncState takes into account.
Counted ==
    {k \in Clock : /\ last[k] # NoState
                   /\ ~(k[2] = E3 /\ ChronydActiveAsE3 /\ k[1] \notin Chronyd)}

\* Mutant: the state being published stands for the node.
GetNodeSyncStateCurrent(s) == s

\* Mutant: the phc2sys stats are counted beside chronyd's.
GetNodeSyncStateAll(s) == Worst({last[k] : k \in Clock} \cup {s})

\* GetNodeSyncState.  The code folds OverallState over two maps in whatever
\* order Go iterates them; SyncStatesProofs!OverallFoldsWorst shows that every
\* order yields the worst state.
GetNodeSyncState(s) == Worst({last[k] : k \in Counted} \cup {s})

\* The thread has finished its publication.  A line that has more to do goes on,
\* a line that entered HOLDOVER starts the timer, others release extractMu.
Finish(t) ==
    /\ pending' = (pending /\ t # Log)
    /\ IF t = Log /\ pending
       THEN thr' = [thr EXCEPT ![Log] = GenPTPEvent(thr[Log].cfg, E3, FREERUN, FALSE)]
       ELSE IF t = Log /\ thr[t].aux = "start"
       THEN StartHoldoverTimer(thr[t].cfg)
       ELSE thr' = [thr EXCEPT ![t] = Idle]

\* SetLastSyncState, preceded by SafeClose when a holdover ends.
Store ==
    LET me == thr[Log]
    IN  /\ me.pc = "store"
        /\ last' = [last EXCEPT ![<<me.cfg, me.ev>>] = me.state]
        /\ IF me.aux = "none"
           THEN Finish(Log)
           ELSE /\ IF me.aux = "cancel"
                   THEN \E th \in Threshold(me.cfg) :
                          thr' = SafeClose(th, Task("publish", me.cfg, me.ev, me.state, NoState, "none"))
                   ELSE thr' = [thr EXCEPT ![Log] =
                                  Task("publish", me.cfg, me.ev, me.state, NoState, me.aux)]
                /\ UNCHANGED pending
        /\ UNCHANGED <<pub, statVars, nodeVars>>
        /\ Tracked

\* PublishEvent: the event of the clock itself.
Publish(t) ==
    LET me == thr[t]
    IN  /\ me.pc = "publish"
        /\ pub' = [pub EXCEPT ![<<me.cfg, me.ev>>] = me.state]
        /\ told' = {<<me.cfg, me.ev>>}
        /\ thr' = [thr EXCEPT ![t] = Task("node", me.cfg, me.ev, me.state, NoState, me.aux)]
        /\ UNCHANGED <<last, statVars, overall, nodePub, pending>>
        /\ Tracked

\* PublishEvent: the node state is computed and compared with the last one.
CompareNode(t) ==
    LET me == thr[t]
        node == GetNodeSyncState(me.state)
    IN  /\ me.pc = "node"
        /\ IF node = overall
           THEN Finish(t)
           ELSE /\ thr' = [thr EXCEPT ![t] = Task("nodepub", me.cfg, me.ev, me.state, node, me.aux)]
                /\ UNCHANGED pending
        /\ UNCHANGED <<last, pub, statVars, nodeVars>>
        /\ Tracked

\* PublishEvent: the SyncStateChange event.
PublishNode(t) ==
    LET me == thr[t]
    IN  /\ me.pc = "nodepub"
        /\ nodePub' = me.node
        /\ thr' = [thr EXCEPT ![t] = Task("update", me.cfg, me.ev, me.state, me.node, me.aux)]
        /\ UNCHANGED <<last, pub, statVars, overall, told, pending>>
        /\ Tracked

\* UpdateSyncState, which also saves to metrics.json.
UpdateSyncState(t) ==
    /\ thr[t].pc = "update"
    /\ overall' = thr[t].node
    /\ Finish(t)
    /\ UNCHANGED <<last, pub, statVars, nodePub, told>>
    /\ Tracked

-----------------------------------------------------------------------------
(* The log lines.                                                          *)

\* A line of a ptp4l configuration that passes validation: extractMu is obtained
\* and masterOffsetSource follows the master stat of the configuration.
ValidLine(c) ==
    /\ c \notin Chronyd
    /\ thr[Log].pc = "idle"
    /\ source' = IF master[c] = "absent" THEN source ELSE master[c]

Handle(task) == thr' = [thr EXCEPT ![Log] = task]

\* ptp4l "master offset ...".  The state is HOLDOVER when the line has no delay.
\* Without a port in role SLAVE only the process name is recorded.
MasterOffsetLine(c, s, inRange) ==
    /\ ValidLine(c)
    /\ master' = [master EXCEPT ![c] = "ptp4l"]
    /\ IF slaves[c] = {}
       THEN UNCHANGED <<aliasKnown, thr>>
       ELSE /\ aliasKnown' = [aliasKnown EXCEPT ![c] = TRUE]
            /\ Handle(GenPTPEvent(c, E1, s, inRange))
    /\ UNCHANGED <<last, pub, osKnown, slaves, reporter, nodeVars, pending>>
    /\ Tracked

\* ptp4l "... rms ... max ...": records the alias.  With no master stat the
\* handler panics, recovers and has no effect.
SummaryLine(c) ==
    /\ ValidLine(c)
    /\ slaves[c] # {}
    /\ master[c] # "absent"
    /\ aliasKnown' = [aliasKnown EXCEPT ![c] = TRUE]
    /\ UNCHANGED <<last, pub, master, osKnown, slaves, reporter, nodeVars, thr, pending>>
    /\ Tracked

\* Mutant: E3 is generated from the phc2sys sample alone.
ClockRealTimeLineIgnoresE1(c, s, inRange) ==
    /\ ValidLine(c)
    /\ osKnown' = [osKnown EXCEPT ![c] = TRUE]
    /\ reporter' = "phc2sys"
    /\ Handle(GenPTPEvent(c, E3, s, inRange))
    /\ UNCHANGED <<last, pub, master, aliasKnown, slaves, nodeVars, pending>>
    /\ Tracked

\* phc2sys "CLOCK_REALTIME phc offset ...": E3 is generated from the worse of
\* the sample and E1.
ClockRealTimeLine(c, s, inRange) ==
    /\ ValidLine(c)
    /\ osKnown' = [osKnown EXCEPT ![c] = TRUE]
    /\ reporter' = "phc2sys"
    /\ Handle(GenPTPEvent(c, E3, OverallState(s, last[<<c, E1>>]), inRange))
    /\ UNCHANGED <<last, pub, master, aliasKnown, slaves, nodeVars, pending>>
    /\ Tracked

\* phc2sys synchronises other clocks but not CLOCK_REALTIME: the result of
\* OsClockDiscipline, raised by a line or by the settle timer under extractMu.
UndisciplinedLine(c) ==
    /\ ValidLine(c)
    /\ osKnown' = [osKnown EXCEPT ![c] = TRUE]
    /\ IF c \in Loaded \cap Failover THEN UNCHANGED thr ELSE Handle(GenPTPEvent(c, E3, FREERUN, FALSE))
    /\ UNCHANGED <<last, pub, master, aliasKnown, slaves, reporter, nodeVars, pending>>
    /\ Tracked

\* chronyd selects a source (LOCKED) or has none (FREERUN).  Its configuration
\* has no master stat, so masterOffsetSource stays; the offset it is given is 0.
\* Its other lines, and its going down, change no state.
ChronydLine(c, s) ==
    /\ c \in Chronyd
    /\ thr[Log].pc = "idle"
    /\ reporter' = "chronyd"
    /\ Handle(GenPTPEvent(c, E3, s, TRUE))
    /\ UNCHANGED <<last, pub, master, osKnown, aliasKnown, slaves, source, nodeVars, pending>>
    /\ Tracked

\* Mutant: the master stat is created for phc2sys, as the line above it does.
PortSlaveLinePhc2sys(c, p) ==
    /\ ValidLine(c)
    /\ osKnown' = [osKnown EXCEPT ![c] = TRUE]
    /\ master' = [master EXCEPT ![c] = IF @ = "absent" THEN "phc2sys" ELSE @]
    /\ slaves' = [slaves EXCEPT ![c] = @ \cup {p}]
    /\ UNCHANGED <<last, pub, aliasKnown, reporter, nodeVars, thr, pending>>
    /\ Tracked

\* "port p ... to SLAVE": both stats are created if need be, the master one with
\* whatever masterOffsetSource is.
PortSlaveLine(c, p) ==
    /\ ValidLine(c)
    /\ osKnown' = [osKnown EXCEPT ![c] = TRUE]
    /\ master' = [master EXCEPT ![c] = IF @ = "absent" THEN source ELSE @]
    /\ slaves' = [slaves EXCEPT ![c] = @ \cup {p}]
    /\ UNCHANGED <<last, pub, aliasKnown, reporter, nodeVars, thr, pending>>
    /\ Tracked

\* A port gets another role without a fault: PASSIVE, MASTER or LISTENING.
PortRoleLine(c, p) ==
    /\ ValidLine(c)
    /\ p \in slaves[c]
    /\ slaves' = [slaves EXCEPT ![c] = @ \ {p}]
    /\ UNCHANGED <<last, pub, master, osKnown, aliasKnown, reporter, nodeVars, thr, pending>>
    /\ Tracked

\* A SLAVE port becomes FAULTY, LISTENING or MASTER because its source is lost:
\* E1 enters HOLDOVER, unless it is there already or no offset was ever seen.
\* (ProcessName = masterOffsetSource always holds here: ValidLine.)
PortFaultLine(c, p) ==
    /\ ValidLine(c)
    /\ p \in slaves[c]
    /\ \E s \in Slots : thr[s].pc = "idle"
    /\ slaves' = [slaves EXCEPT ![c] = @ \ {p}]
    /\ IF master[c] # "absent" /\ last[<<c, E1>>] # HOLDOVER
       THEN Handle(Task("store", c, E1, HOLDOVER, NoState, "start"))
       ELSE UNCHANGED thr
    /\ UNCHANGED <<last, pub, master, osKnown, aliasKnown, reporter, nodeVars, pending>>
    /\ Tracked

\* processDownEvent.  The line is handled before masterOffsetSource is updated.
\* E3 follows when the loaded options name phc2sys and not chronyd.
\* A configuration with no master stat makes the handler panic when the process
\* is the master offset source: the rest is skipped.
ProcessDownLine(c, process) ==
    LET osClock == osKnown[c] /\ c \in Loaded \ Failover
    IN  /\ thr[Log].pc = "idle"
        /\ ~(source = process /\ master[c] = "absent")
        /\ IF source = process /\ aliasKnown[c]
           THEN Handle(GenPTPEvent(c, E1, FREERUN, FALSE)) /\ pending' = osClock
           ELSE osClock /\ Handle(GenPTPEvent(c, E3, FREERUN, FALSE)) /\ UNCHANGED pending
        /\ UNCHANGED <<last, pub, statVars, nodeVars>>
        /\ Tracked

-----------------------------------------------------------------------------
(* handleHoldOverState, one goroutine per timer.                           *)

\* The timeout elapses before the channel is closed: from here on the goroutine
\* can no longer be cancelled.
Expire(s) ==
    /\ thr[s].pc = "waiting"
    /\ thr' = [thr EXCEPT ![s] = Task("check", @.cfg, E1, NoState, NoState, "none")]
    /\ UNCHANGED <<last, pub, statVars, nodeVars, pending>>
    /\ Tracked

\* Mutant: the expiry does not look at the current state.
CheckAnyState(s) ==
    /\ thr[s].pc = "check"
    /\ thr' = [thr EXCEPT ![s] =
                 IF aliasKnown[@.cfg]
                 THEN Task("set", @.cfg, E1, FREERUN, NoState, "none") ELSE Idle]
    /\ UNCHANGED <<last, pub, statVars, nodeVars, pending>>
    /\ Tracked

\* Mutant: the test for an empty alias is inverted.
CheckNoAlias(s) ==
    /\ thr[s].pc = "check"
    /\ thr' = [thr EXCEPT ![s] =
                 IF last[<<@.cfg, E1>>] = HOLDOVER /\ ~aliasKnown[@.cfg]
                 THEN Task("set", @.cfg, E1, FREERUN, NoState, "none") ELSE Idle]
    /\ UNCHANGED <<last, pub, statVars, nodeVars, pending>>
    /\ Tracked

\* Still in HOLDOVER, and the alias is known?
Check(s) ==
    /\ thr[s].pc = "check"
    /\ thr' = [thr EXCEPT ![s] =
                 IF last[<<@.cfg, E1>>] = HOLDOVER /\ aliasKnown[@.cfg]
                 THEN Task("set", @.cfg, E1, FREERUN, NoState, "none") ELSE Idle]
    /\ UNCHANGED <<last, pub, statVars, nodeVars, pending>>
    /\ Tracked

\* SetLastSyncState(FREERUN); publication follows.
Set(s) ==
    /\ thr[s].pc = "set"
    /\ last' = [last EXCEPT ![<<thr[s].cfg, E1>>] = FREERUN]
    /\ thr' = [thr EXCEPT ![s] = Task("publish", @.cfg, E1, FREERUN, NoState, "none")]
    /\ UNCHANGED <<pub, statVars, nodeVars, pending>>
    /\ Tracked

-----------------------------------------------------------------------------
\* LoadFromStore: lastOverallSyncState is what UpdateSyncState saved last.  The
\* saved port roles find no configuration yet, so those of the files stay.
LoadFromStore == overall' = overall /\ slaves' \in ConfiguredRoles

\* CMD RESTART: the process replaces itself.  Stats and goroutines are gone,
\* subscribers keep what was published.
Restart ==
    /\ Restarts
    /\ last' = [k \in Clock |-> NoState]
    /\ master' = [c \in Configs |-> "absent"]
    /\ osKnown' = [c \in Configs |-> FALSE]
    /\ aliasKnown' = [c \in Configs |-> FALSE]
    /\ LoadFromStore
    /\ source' = ""
    /\ thr' = [t \in Thread |-> Idle]
    /\ pending' = FALSE
    /\ reporter' = "none"
    /\ disturbed' = (disturbed \/ Busy # {})
    /\ UNCHANGED <<pub, nodePub, told>>

Sample == SyncState \X BOOLEAN

Line ==
    \E c \in Configs :
        \/ \E x \in Sample : MasterOffsetLine(c, x[1], x[2])
        \/ SummaryLine(c)
        \/ \E x \in Sample : ClockRealTimeLine(c, x[1], x[2])
        \/ UndisciplinedLine(c)
        \/ \E s \in {LOCKED, FREERUN} : ChronydLine(c, s)
        \/ \E p \in Ports : PortSlaveLine(c, p)
        \/ \E p \in Ports : PortRoleLine(c, p)
        \/ \E p \in Ports : PortFaultLine(c, p)
        \/ \E process \in {"ptp4l", "phc2sys"} : ProcessDownLine(c, process)

\* A thread in the middle of its work takes its next step.
Proceed(t) ==
    \/ t = Log /\ Store
    \/ Publish(t)
    \/ CompareNode(t)
    \/ PublishNode(t)
    \/ UpdateSyncState(t)
    \/ t \in Slots /\ Check(t)
    \/ t \in Slots /\ Set(t)

Next ==
    \/ Line
    \/ \E t \in Thread : Proceed(t)
    \/ \E s \in Slots : Expire(s)
    \/ Restart

Spec == Init /\ [][Next]_vars

\* Go runs every goroutine that can run, and time passes.  Nothing is assumed
\* of the log lines or of restarts.
Fairness ==
    \A t \in Thread :
        /\ WF_vars(Proceed(t))
        /\ t \in Slots => WF_vars(Expire(t))

FairSpec == Spec /\ Fairness

-----------------------------------------------------------------------------
(* Properties.                                                             *)

Quiescent == Busy = {}

Announced(c, ev) == last[<<c, ev>>] \in {NoState, pub[<<c, ev>>]}

\* E1 events keep up with the remembered E1 state: as long as no two threads
\* have worked at once, the last event carries the remembered state when all
\* threads rest.  The one exception is FREERUN remembered on a sample or a
\* process failure during HOLDOVER, which GenPTPEvent leaves to the timer.
E1Announced ==
    Quiescent /\ ~disturbed =>
        \A c \in Configs :
            \/ Announced(c, E1)
            \/ last[<<c, E1>>] = FREERUN /\ pub[<<c, E1>>] = HOLDOVER

\* E3 events keep up with the remembered E3 state whatever the holdover
\* goroutines do: E3 has a single publisher, the thread that holds extractMu.
E3Announced == thr[Log].pc = "idle" => \A c \in Configs : Announced(c, E3)

\* The node event tells the truth: it is the one remembered in metrics.json
\* and, when every clock has been announced, the worst state of the clocks that
\* count and of the clock that spoke last.  That one counts too, unless it is
\* the OS clock of phc2sys after chronyd has reported.
NodeIsWorst ==
    Quiescent /\ ~disturbed =>
        /\ nodePub = overall
        /\ (Counted # {} /\ \A c \in Configs : Announced(c, E1)) =>
              overall = Worst({last[k] : k \in Counted \cup told})

\* E3 cannot become LOCKED on a phc2sys sample unless E1 is LOCKED too, or has
\* never been reported.
OsClockFollowsE1 ==
    [][\A c \in Configs \ Chronyd :
          /\ last'[<<c, E3>>] = LOCKED
          /\ last[<<c, E3>>] # LOCKED
          /\ ~disturbed'
          => last[<<c, E1>>] \in {LOCKED, NoState}]_vars

\* A holdover timer that expires late never takes E1 out of LOCKED: only a line
\* of the log does.
ExpiryHarmless ==
    [][\A c \in Configs :
          /\ last[<<c, E1>>] = LOCKED
          /\ last'[<<c, E1>>] = FREERUN
          /\ ~disturbed'
          => thr[Log].pc = "store"]_vars

\* A configuration never waits for two holdover timers: a new one calls off the
\* old one, so that a later holdover is not cut short by an earlier timer.
OneTimer ==
    \A x, y \in Slots :
        thr[x].pc = "waiting" /\ thr[y].pc = "waiting" /\ thr[x].cfg = thr[y].cfg => x = y

\* A holdover lasts for its own timeout: no expiry is about to end the holdover
\* of a configuration whose current timer is still running.
HoldoverRunsItsTime ==
    ~disturbed =>
        \A x, y \in Slots :
            ~ /\ thr[x].pc = "set"
              /\ thr[y].pc = "waiting"
              /\ thr[x].cfg = thr[y].cfg
              /\ last[<<thr[x].cfg, E1>>] = HOLDOVER

HoldoverTimed(c) ==
    /\ last[<<c, E1>>] = HOLDOVER
    /\ \E s \in Slots : thr[s].pc = "waiting" /\ thr[s].cfg = c

\* A holdover that was entered with a timer and a known alias ends: "HOLDOVER,
\* then FREERUN once the holdover timeout expires" (configurations.md).
HoldoverEnds ==
    \A c \in Configs :
        HoldoverTimed(c) /\ aliasKnown[c] ~> last[<<c, E1>>] # HOLDOVER

-----------------------------------------------------------------------------
(* What comments and documents say.                                        *)

\* "HOLDOVER->FREERUN is handled by the holdover timer's direct PublishEvent
\* call" (manager.go): a FREERUN remembered during HOLDOVER is published in the
\* end.
FreerunAnnounced ==
    \A c \in Configs :
        last[<<c, E1>>] = FREERUN ~> (last[<<c, E1>>] # FREERUN \/ pub[<<c, E1>>] = FREERUN)

\* "If at least one of the interfaces is in SLAVE state and locked, the reported
\* ptp-status/lock-state event is LOCKED" (configurations.md): a remembered
\* LOCKED, which GenPTPEvent will not publish again, is what was last published.
LockedWasSent ==
    Quiescent => \A c \in Configs : last[<<c, E1>>] = LOCKED => pub[<<c, E1>>] = LOCKED

\* "When chronyd is actively reporting CLOCK_REALTIME, stale phc2sys
\* CLOCK_REALTIME entries are excluded" (manager.go), and of the two processes
\* "exactly one owns CLOCK_REALTIME at any given time" (metrics.go): once
\* phc2sys has reported again, its OS clock counts for the node state and what
\* chronyd said before does not.
NodeFollowsReporter ==
    Quiescent /\ ~disturbed /\ reporter = "phc2sys" /\ (\A c \in Configs : Announced(c, E1)) =>
        overall = Worst({last[k] : k \in (Configs \ Chronyd) \X EventType})
=============================================================================
