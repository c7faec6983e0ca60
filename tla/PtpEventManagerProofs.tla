------------------------ MODULE PtpEventManagerProofs ------------------------
(***************************************************************************)
(* Proofs about PtpEventManager for every set of configurations, ports and *)
(* holdover goroutines, and every assignment of thresholds and chronyd.    *)
(***************************************************************************)
EXTENDS PtpEventManager, SyncStatesProofs, TLAPS

\* The fields of a task.
LEMMA TaskFields ==
    ASSUME NEW pc, NEW c, NEW ev, NEW s, NEW node, NEW aux
    PROVE  /\ Task(pc, c, ev, s, node, aux).pc = pc
           /\ Task(pc, c, ev, s, node, aux).cfg = c
           /\ Task(pc, c, ev, s, node, aux).ev = ev
           /\ Task(pc, c, ev, s, node, aux).state = s
           /\ Task(pc, c, ev, s, node, aux).node = node
           /\ Task(pc, c, ev, s, node, aux).aux = aux
  BY DEF Task

\* A task made of well-typed parts is well typed, and conversely.
LEMMA TaskTyped ==
    /\ \A pc \in Pc, c \in Configs \cup {Default}, ev \in EventType,
          s \in StateOrNone, node \in StateOrNone, aux \in Aux :
             Task(pc, c, ev, s, node, aux) \in TaskType
    /\ \A k \in TaskType :
          /\ k.pc \in Pc /\ k.cfg \in Configs \cup {Default} /\ k.ev \in EventType
          /\ k.state \in StateOrNone /\ k.node \in StateOrNone /\ k.aux \in Aux
  BY DEF Task, TaskType

\* A thread at rest.
LEMMA IdleTask == Idle \in TaskType /\ Idle.pc = "idle" /\ Idle.ev = E1 /\ Idle.aux = "none"
  <1>1. /\ "idle" \in Pc /\ Default \in Configs \cup {Default} /\ E1 \in EventType
        /\ NoState \in StateOrNone /\ "none" \in Aux
    BY DEF Pc, EventType, StateOrNone, Aux, E1
  <1>2. QED
    BY <1>1, TaskFields, TaskTyped DEF Idle

-----------------------------------------------------------------------------
\* What the log thread may be asked to do next, once it holds extractMu.
Startable(k) ==
    \/ k = Idle
    \/ /\ k \in TaskType
       /\ k.pc = "store"
       /\ k.cfg \in Configs
       /\ k.aux = "start" => \E s \in Slots : thr[s].pc = "idle"
       /\ k.ev = E3 /\ k.aux = "none" => k.state = last[<<k.cfg, E3>>]

\* The holdover goroutines and the log thread have disjoint programs, and only
\* the log thread publishes E3.
Programs ==
    /\ thr[Log].pc \notin {"waiting", "check", "set"}
    /\ thr[Log].pc # "idle" => thr[Log].cfg \in Configs
    /\ \A s \in Slots :
          /\ thr[s].pc # "store"
          /\ thr[s].ev = E1
          /\ thr[s].pc # "idle" => thr[s].cfg \in Configs

\* A line that will start a timer has a goroutine to run it, and a line with E3
\* still to do is working on E1.
LineInv ==
    /\ thr[Log].aux = "start" => \E s \in Slots : thr[s].pc = "idle"
    /\ pending => thr[Log].ev = E1 /\ thr[Log].pc # "idle"

\* E3 is announced but for the event the log thread is about to publish.
E3Inv ==
    /\ \A c \in Configs :
          \/ Announced(c, E3)
          \/ thr[Log].pc = "publish" /\ thr[Log].ev = E3 /\ thr[Log].cfg = c
    /\ /\ thr[Log].ev = E3
       /\ thr[Log].pc = "publish" \/ (thr[Log].pc = "store" /\ thr[Log].aux = "none")
       => thr[Log].state = last[<<thr[Log].cfg, E3>>]

\* What is invariant of the threads ...
Core ==
    /\ thr \in [Thread -> TaskType]
    /\ pending \in BOOLEAN
    /\ Programs
    /\ LineInv
    /\ E3Inv

StatType ==
    /\ master \in [Configs -> {"absent", "", "ptp4l"}]
    /\ osKnown \in [Configs -> BOOLEAN]
    /\ aliasKnown \in [Configs -> BOOLEAN]
    /\ slaves \in [Configs -> SUBSET Ports]
    /\ source \in {"", "ptp4l"}
    /\ reporter \in {"none", "phc2sys", "chronyd"}

\* ... and of everything else.
Values ==
    /\ last \in [Clock -> StateOrNone]
    /\ pub \in [Clock -> StateOrNone]
    /\ StatType
    /\ overall \in StateOrNone
    /\ nodePub \in StateOrNone
    /\ told \subseteq Clock
    /\ disturbed \in BOOLEAN

\* The inductive invariant.
IInv == Values /\ Core

\* GenPTPEvent is something the log thread may be asked to do.
LEMMA GenStartable ==
    ASSUME Values, NEW c \in Configs, NEW ev \in EventType, NEW s \in SyncState,
           NEW inRange \in BOOLEAN
    PROVE  /\ Startable(GenPTPEvent(c, ev, s, inRange))
           /\ GenPTPEvent(c, ev, s, inRange) \in TaskType
           /\ GenPTPEvent(c, ev, s, inRange).aux # "start"
  <1> DEFINE old == last[<<c, ev>>]
             g == GenPTPEvent(c, ev, s, inRange)
             aux == IF ~GenPublishes(old, s, inRange, ev) THEN "none"
                    ELSE IF GenCancels(old, s, inRange) THEN "cancel" ELSE "announce"
  <1>1. old \in StateOrNone
    BY DEF Values, Clock
  <1>2. CASE ~GenStores(old, s, inRange)
    BY <1>2, IdleTask DEF GenPTPEvent, Startable
  <1>3. CASE GenStores(old, s, inRange)
    <2>1. g = Task("store", c, ev, GenState(old, s, inRange), NoState, aux)
      BY <1>3 DEF GenPTPEvent
    <2>2. GenState(old, s, inRange) \in StateOrNone
      BY <1>1, GenEffects DEF StateOrNone
    <2>3. aux \in {"none", "cancel", "announce"}
      OBVIOUS
    <2>4. "store" \in Pc /\ NoState \in StateOrNone /\ aux \in Aux
      BY <2>3 DEF Pc, StateOrNone, Aux
    <2>5. g \in TaskType
      BY <2>1, <2>2, <2>4, TaskTyped
    <2>6. /\ g.pc = "store" /\ g.cfg = c /\ g.ev = ev /\ g.aux = aux
          /\ g.state = GenState(old, s, inRange)
      BY <2>1, TaskFields
    <2>7. aux = "none" /\ ev = E3 => GenState(old, s, inRange) = old
      BY DEF GenPublishes, E3, PtpStateChange, OsClockSyncStateChange
    <2>8. QED
      BY <2>3, <2>5, <2>6, <2>7 DEF Startable
  <1>4. QED
    BY <1>2, <1>3

\* GenPTPEvent always stores FREERUN.
LEMMA GenFreerun ==
    ASSUME NEW c \in Configs, NEW ev \in EventType, NEW inRange \in BOOLEAN
    PROVE  /\ GenPTPEvent(c, ev, FREERUN, inRange).pc = "store"
           /\ GenPTPEvent(c, ev, FREERUN, inRange).ev = ev
  <1> DEFINE old == last[<<c, ev>>]
             g == GenPTPEvent(c, ev, FREERUN, inRange)
             new == GenState(old, FREERUN, inRange)
             aux == IF ~GenPublishes(old, FREERUN, inRange, ev) THEN "none"
                    ELSE IF GenCancels(old, FREERUN, inRange) THEN "cancel" ELSE "announce"
  <1>1. GenStores(old, FREERUN, inRange)
    BY DEF GenStores
  <1>2. g = Task("store", c, ev, new, NoState, aux)
    BY <1>1 DEF GenPTPEvent
  <1> HIDE DEF g, new, aux
  <1>3. g.pc = "store" /\ g.ev = ev
    BY <1>2, TaskFields
  <1>4. QED
    BY <1>3 DEF g

\* What GenPTPEvent asks the calling thread to do: nothing, or to store its new
\* state.  It stores without a publication only what is remembered already, or
\* FREERUN during an E1 holdover.
Asks(g, c, ev, s) ==
    \/ g = Idle
    \/ /\ g.pc = "store" /\ g.cfg = c /\ g.ev = ev
       /\ g.aux = "none" =>
             \/ g.state = last[<<c, ev>>]
             \/ ev = E1 /\ g.state = FREERUN /\ last[<<c, ev>>] = HOLDOVER
       /\ g.state = LOCKED => s = LOCKED

LEMMA GenAsks ==
    ASSUME NEW c \in Configs, NEW ev \in EventType, NEW s \in SyncState, NEW inRange \in BOOLEAN,
           last[<<c, ev>>] \in StateOrNone
    PROVE  Asks(GenPTPEvent(c, ev, s, inRange), c, ev, s)
  <1> DEFINE old == last[<<c, ev>>]
             g == GenPTPEvent(c, ev, s, inRange)
             new == GenState(old, s, inRange)
             aux == IF ~GenPublishes(old, s, inRange, ev) THEN "none"
                    ELSE IF GenCancels(old, s, inRange) THEN "cancel" ELSE "announce"
  <1>1. CASE ~GenStores(old, s, inRange)
    BY <1>1 DEF GenPTPEvent, Asks
  <1>2. CASE GenStores(old, s, inRange)
    <2>1. g = Task("store", c, ev, new, NoState, aux)
      BY <1>2 DEF GenPTPEvent
    <2>2. aux = "none" => new = old \/ (ev = E1 /\ new = FREERUN /\ old = HOLDOVER)
      BY DEF GenPublishes, GenState, E1, PtpStateChange, FREERUN, HOLDOVER, LOCKED, NoState
    <2>3. new = LOCKED => s = LOCKED
      BY DEF GenState, SyncState, FREERUN, HOLDOVER, LOCKED, NoState
    <2> HIDE DEF new, aux
    <2>4. g.pc = "store" /\ g.cfg = c /\ g.ev = ev /\ g.state = new /\ g.aux = aux
      BY <2>1, TaskFields
    <2>5. QED
      BY <2>2, <2>3, <2>4 DEF Asks
  <1>3. QED
    BY <1>1, <1>2

-----------------------------------------------------------------------------
\* A line that only touches the stats, and a line that is handed to the log
\* thread, keep the threads in order.
LEMMA LineStarts ==
    ASSUME IInv, thr[Log].pc = "idle", NEW k, Startable(k), k \in TaskType,
           thr' = [thr EXCEPT ![Log] = k], UNCHANGED <<last, pub>>,
           pending' \in BOOLEAN, pending' => k.ev = E1 /\ k.pc # "idle"
    PROVE  Core'
  <1> USE DEF IInv, Core
  <1>0. Log \in Thread /\ \A s \in Slots : s \in Thread /\ s # Log
    BY ManagerAssumption DEF Thread
  <1>1. thr' \in [Thread -> TaskType] /\ thr'[Log] = k /\ \A s \in Slots : thr'[s] = thr[s]
    BY <1>0
  <1>2. Programs'
    BY <1>1, IdleTask DEF Programs, Startable
  <1>3. LineInv'
    BY <1>1, IdleTask DEF LineInv, Startable
  <1>4. \A c \in Configs : Announced(c, E3)
    BY DEF E3Inv
  <1>5. E3Inv'
    BY <1>1, <1>4, IdleTask DEF E3Inv, Announced, Startable
  <1>6. QED
    BY <1>1, <1>2, <1>3, <1>5

\* A step of a holdover goroutine leaves the log thread, and E3, alone.
LEMMA SlotMoves ==
    ASSUME IInv, NEW s \in Slots, thr[s].pc # "idle", NEW k \in TaskType,
           k.pc # "store", k.ev = E1, k.pc # "idle" => k.cfg \in Configs,
           thr' = [thr EXCEPT ![s] = k], UNCHANGED pending,
           \A c \in Configs : last'[<<c, E3>>] = last[<<c, E3>>] /\ pub'[<<c, E3>>] = pub[<<c, E3>>]
    PROVE  Core'
  <1> USE DEF IInv, Core
  <1>0. Log \in Thread /\ \A x \in Slots : x \in Thread /\ x # Log
    BY ManagerAssumption DEF Thread
  <1>1. /\ thr' \in [Thread -> TaskType] /\ thr'[Log] = thr[Log] /\ thr'[s] = k
        /\ \A x \in Slots : x # s => thr'[x] = thr[x]
    BY <1>0
  <1>2. Programs'
    BY <1>1 DEF Programs
  <1>3. LineInv'
    BY <1>1 DEF LineInv
  <1>4. E3Inv'
    BY <1>1 DEF E3Inv, Announced, Programs
  <1>5. QED
    BY <1>1, <1>2, <1>3, <1>4

\* The log thread goes on with its publication; holdover goroutines may have
\* been cancelled on the way.
LEMMA LogMoves ==
    ASSUME IInv, thr[Log].pc # "idle", NEW k \in TaskType,
           k.pc \in {"publish", "node", "nodepub", "update"},
           k.cfg = thr[Log].cfg, k.ev = thr[Log].ev, k.aux \in {"none", thr[Log].aux},
           thr' \in [Thread -> TaskType], thr'[Log] = k, UNCHANGED pending,
           \A s \in Slots : thr'[s] \in {thr[s], Idle},
           \A c \in Configs :
              Announced(c, E3)' \/ (k.pc = "publish" /\ k.ev = E3 /\ k.cfg = c),
           k.pc = "publish" /\ k.ev = E3 => k.state = last'[<<k.cfg, E3>>]
    PROVE  Core'
  <1> USE DEF IInv, Core
  <1>1. Programs'
    BY IdleTask DEF Programs
  <1>2. LineInv'
    BY IdleTask DEF LineInv
  <1>3. E3Inv'
    BY DEF E3Inv
  <1>4. QED
    BY <1>1, <1>2, <1>3

\* startHoldoverTimer, when a goroutine is at hand.
LEMMA TimerStarts ==
    ASSUME IInv, NEW c \in Configs, StartHoldoverTimer(c), \E s \in Slots : thr[s].pc = "idle"
    PROVE  /\ thr' \in [Thread -> TaskType]
           /\ thr'[Log] = Idle
           /\ \E th \in Threshold(c) :
                 /\ thr'[FreeSlot] = Task("waiting", c, E1, NoState, NoState, th)
                 /\ \A s \in Slots \ {FreeSlot} : thr'[s] = IF Waits(s, th) THEN Idle ELSE thr[s]
           /\ FreeSlot \in Slots
  <1>0. Log \in Thread /\ \A x \in Slots : x \in Thread /\ x # Log
    BY ManagerAssumption DEF Thread
  <1>1. FreeSlot \in Slots
    BY DEF FreeSlot
  <1>2. PICK th \in Threshold(c) : thr' = [SafeClose(th, Idle) EXCEPT ![FreeSlot] =
                                             Task("waiting", c, E1, NoState, NoState, th)]
    BY DEF StartHoldoverTimer
  <1>3. th \in Configs \cup {Default}
    BY ManagerAssumption DEF Threshold
  <1>4. Task("waiting", c, E1, NoState, NoState, th) \in TaskType
    <2>1. "waiting" \in Pc /\ E1 \in EventType /\ NoState \in StateOrNone /\ th \in Aux
      BY <1>3 DEF Pc, EventType, E1, StateOrNone, Aux
    <2>2. QED
      BY <2>1, TaskTyped
  <1>5. SafeClose(th, Idle) \in [Thread -> TaskType]
    BY IdleTask DEF SafeClose, IInv, Core
  <1>6. thr' \in [Thread -> TaskType]
    BY <1>2, <1>4, <1>5
  <1>7. QED
    BY <1>0, <1>1, <1>2, <1>6 DEF SafeClose

\* The log thread finishes a call with every E3 event sent.
LEMMA LogFinishes ==
    ASSUME IInv, thr[Log].pc # "idle", Finish(Log),
           \A c \in Configs : Announced(c, E3)',
           pending => \A c \in Configs : last'[<<c, E3>>] = last[<<c, E3>>]
    PROVE  Core'
  <1> USE DEF IInv, Core
  <1>0. Log \in Thread /\ \A x \in Slots : x \in Thread /\ x # Log
    BY ManagerAssumption DEF Thread
  <1>1. thr[Log].cfg \in Configs
    BY DEF Programs
  <1>2. pending' = FALSE
    BY DEF Finish
  <1>3. CASE pending
    <2> DEFINE g == GenPTPEvent(thr[Log].cfg, E3, FREERUN, FALSE)
    <2>1. thr' = [thr EXCEPT ![Log] = g]
      BY <1>3 DEF Finish
    <2>2. FREERUN \in SyncState /\ E3 \in EventType
      BY DEF SyncState, E3, EventType
    <2>3. Startable(g) /\ g \in TaskType /\ g.aux # "start"
      BY <1>1, <2>2, GenStartable
    <2> HIDE DEF g
    <2>4. thr' \in [Thread -> TaskType] /\ thr'[Log] = g /\ \A s \in Slots : thr'[s] = thr[s]
      BY <1>0, <2>1, <2>3
    <2>5. Programs'
      BY <2>3, <2>4, IdleTask DEF Programs, Startable
    <2>6. LineInv'
      BY <1>2, <2>3, <2>4 DEF LineInv
    <2>7. E3Inv'
      BY <1>3, <2>3, <2>4, IdleTask DEF E3Inv, Startable
    <2>8. QED
      BY <1>2, <2>4, <2>5, <2>6, <2>7
  <1>4. CASE ~pending /\ thr[Log].aux = "start"
    <2>1. StartHoldoverTimer(thr[Log].cfg) /\ \E s \in Slots : thr[s].pc = "idle"
      BY <1>4 DEF Finish, LineInv
    <2>2. /\ thr' \in [Thread -> TaskType] /\ thr'[Log] = Idle
          /\ \A s \in Slots : \/ thr'[s] \in {thr[s], Idle}
                              \/ thr'[s].pc = "waiting" /\ thr'[s].ev = E1 /\ thr'[s].cfg \in Configs
      <3>1. PICK th \in Threshold(thr[Log].cfg) :
               /\ thr'[FreeSlot] = Task("waiting", thr[Log].cfg, E1, NoState, NoState, th)
               /\ \A s \in Slots \ {FreeSlot} : thr'[s] = IF Waits(s, th) THEN Idle ELSE thr[s]
        BY <1>1, <2>1, TimerStarts
      <3>2. /\ thr'[FreeSlot].pc = "waiting" /\ thr'[FreeSlot].ev = E1
            /\ thr'[FreeSlot].cfg = thr[Log].cfg
        BY <3>1, TaskFields
      <3>3. thr' \in [Thread -> TaskType] /\ thr'[Log] = Idle
        BY <1>1, <2>1, TimerStarts
      <3>4. QED
        BY <1>1, <3>1, <3>2, <3>3
    <2>3. Programs'
      BY <2>2, IdleTask DEF Programs
    <2>4. LineInv'
      BY <1>2, <2>2, IdleTask DEF LineInv
    <2>5. E3Inv'
      BY <2>2, IdleTask DEF E3Inv
    <2>6. QED
      BY <1>2, <2>2, <2>3, <2>4, <2>5
  <1>5. CASE ~pending /\ thr[Log].aux # "start"
    <2>1. thr' = [thr EXCEPT ![Log] = Idle]
      BY <1>5 DEF Finish
    <2>2. thr' \in [Thread -> TaskType] /\ thr'[Log] = Idle /\ \A s \in Slots : thr'[s] = thr[s]
      BY <1>0, <2>1, IdleTask
    <2>3. Programs' /\ LineInv' /\ E3Inv'
      BY <1>2, <2>2, IdleTask DEF Programs, LineInv, E3Inv
    <2>4. QED
      BY <1>2, <2>2, <2>3
  <1>6. QED
    BY <1>3, <1>4, <1>5

-----------------------------------------------------------------------------
\* The history variable stays a Boolean.
LEMMA TrackedTyped == ASSUME Tracked PROVE disturbed' \in BOOLEAN
  BY Zenon DEF Tracked

\* Before the first line all threads rest and no state is known.
LEMMA InitIInv == Init => IInv
  <1> SUFFICES ASSUME Init PROVE IInv
    OBVIOUS
  <1> USE DEF Init
  <1>0. Log \in Thread /\ \A x \in Slots : x \in Thread
    BY DEF Thread
  <1>1. pending \in BOOLEAN /\ disturbed \in BOOLEAN
    BY Zenon
  <1>2. StatType
    BY DEF StatType, ConfiguredRoles
  <1>3. Values
    BY <1>1, <1>2 DEF Values, StateOrNone
  <1>4. thr \in [Thread -> TaskType] /\ \A t \in Thread : thr[t] = Idle
    BY IdleTask
  <1>5. Programs /\ LineInv
    BY <1>0, <1>4, IdleTask DEF Programs, LineInv
  <1>6. E3Inv
    BY <1>0, <1>4, IdleTask DEF E3Inv, Announced, Clock, E3, EventType
  <1>7. QED
    BY <1>1, <1>3, <1>4, <1>5, <1>6 DEF IInv, Core

\* Every log line keeps the invariant.
LEMMA LineKeeps ==
    ASSUME IInv, Line
    PROVE  IInv'
  <1> USE DEF IInv, Values
  <1>1. PICK c \in Configs :
          \/ \E x \in Sample : MasterOffsetLine(c, x[1], x[2])
          \/ SummaryLine(c)
          \/ \E x \in Sample : ClockRealTimeLine(c, x[1], x[2])
          \/ UndisciplinedLine(c)
          \/ \E s \in {LOCKED, FREERUN} : ChronydLine(c, s)
          \/ \E p \in Ports : PortSlaveLine(c, p)
          \/ \E p \in Ports : PortRoleLine(c, p)
          \/ \E p \in Ports : PortFaultLine(c, p)
          \/ \E process \in {"ptp4l", "phc2sys"} : ProcessDownLine(c, process)
    BY DEF Line
  <1>2. E1 \in EventType /\ E3 \in EventType /\ E1 # E3
    BY DEF E1, E3, EventType, PtpStateChange, OsClockSyncStateChange
  <1>3. LOCKED \in SyncState /\ FREERUN \in SyncState /\ HOLDOVER \in StateOrNone /\ NoState \in StateOrNone
    BY DEF SyncState, StateOrNone
  <1>4. \A x \in Sample : x[1] \in SyncState /\ x[2] \in BOOLEAN
    BY DEF Sample
  <1>5. pending \in BOOLEAN /\ (thr[Log].pc = "idle" => pending = FALSE)
    BY DEF Core, LineInv
  \* The two ways a line ends.
  <1>6. ASSUME thr[Log].pc = "idle", NEW k, Startable(k), k \in TaskType, Handle(k),
               UNCHANGED <<last, pub, nodeVars, pending>>, StatType', Tracked
        PROVE  IInv'
    <2>1. Core'
      BY <1>5, <1>6, LineStarts DEF Handle
    <2>2. QED
      BY <1>6, <2>1, TrackedTyped DEF nodeVars
  <1>7. ASSUME UNCHANGED <<last, pub, nodeVars, pending, thr>>, StatType', Tracked
        PROVE  IInv'
    <2>1. Core'
      BY <1>7 DEF Core, Programs, LineInv, E3Inv, Announced
    <2>2. QED
      BY <1>7, <2>1, TrackedTyped DEF nodeVars
  <1>8. ASSUME ValidLine(c) PROVE thr[Log].pc = "idle" /\ source' \in {"", "ptp4l"}
    BY <1>8 DEF ValidLine, StatType
  <1>11. ASSUME NEW x \in Sample, MasterOffsetLine(c, x[1], x[2]) PROVE IInv'
    <2> USE <1>11 DEF MasterOffsetLine
    <2>1. StatType'
      BY <1>8 DEF StatType
    <2>2. CASE slaves[c] = {}
      BY <1>7, <2>1, <2>2
    <2>3. CASE slaves[c] # {}
      BY <1>2, <1>4, <1>6, <1>8, <2>1, <2>3, GenStartable
    <2>4. QED
      BY <2>2, <2>3
  <1>12. ASSUME SummaryLine(c) PROVE IInv'
    <2>1. StatType'
      BY <1>8, <1>12 DEF StatType, SummaryLine
    <2>2. QED
      BY <1>7, <1>12, <2>1 DEF SummaryLine
  <1>13. ASSUME NEW x \in Sample, ClockRealTimeLine(c, x[1], x[2]) PROVE IInv'
    <2> USE <1>13 DEF ClockRealTimeLine
    <2>1. StatType'
      BY <1>8 DEF StatType
    <2>2. OverallState(x[1], last[<<c, E1>>]) \in SyncState
      <3>1. last[<<c, E1>>] \in StateOrNone
        BY <1>2 DEF Clock
      <3>2. QED
        BY <1>4, <3>1 DEF OverallState, SyncState, StateOrNone, NoState, FREERUN, HOLDOVER, LOCKED
    <2>3. QED
      BY <1>2, <1>4, <1>6, <1>8, <2>1, <2>2, GenStartable
  <1>14. ASSUME UndisciplinedLine(c) PROVE IInv'
    <2> USE <1>14 DEF UndisciplinedLine
    <2>1. StatType'
      BY <1>8 DEF StatType
    <2>2. CASE c \in Loaded \cap Failover
      BY <1>7, <2>1, <2>2
    <2>3. CASE c \notin Loaded \cap Failover
      BY <1>2, <1>3, <1>6, <1>8, <2>1, <2>3, GenStartable
    <2>4. QED
      BY <2>2, <2>3
  <1>15. ASSUME NEW s \in {LOCKED, FREERUN}, ChronydLine(c, s) PROVE IInv'
    <2> USE <1>15 DEF ChronydLine
    <2>1. StatType'
      BY DEF StatType
    <2>2. QED
      BY <1>2, <1>3, <1>6, <2>1, GenStartable
  <1>16. ASSUME NEW p \in Ports, PortSlaveLine(c, p) PROVE IInv'
    <2>1. StatType'
      BY <1>8, <1>16 DEF StatType, PortSlaveLine
    <2>2. QED
      BY <1>7, <1>16, <2>1 DEF PortSlaveLine
  <1>17. ASSUME NEW p \in Ports, PortRoleLine(c, p) PROVE IInv'
    <2>1. StatType'
      BY <1>8, <1>17 DEF StatType, PortRoleLine
    <2>2. QED
      BY <1>7, <1>17, <2>1 DEF PortRoleLine
  <1>18. ASSUME NEW p \in Ports, PortFaultLine(c, p) PROVE IInv'
    <2> DEFINE k == Task("store", c, E1, HOLDOVER, NoState, "start")
    <2> USE <1>18 DEF PortFaultLine
    <2>1. StatType'
      BY <1>8 DEF StatType
    <2>2. k \in TaskType
      <3>1. "store" \in Pc /\ "start" \in Aux /\ c \in Configs \cup {Default}
        BY DEF Pc, Aux
      <3>2. QED
        BY <1>2, <1>3, <3>1, TaskTyped
    <2>3. Startable(k)
      <3>1. k.pc = "store" /\ k.cfg = c /\ k.ev = E1
        BY TaskFields
      <3>2. QED
        BY <1>2, <2>2, <3>1 DEF Startable
    <2>4. CASE master[c] # "absent" /\ last[<<c, E1>>] # HOLDOVER
      BY <1>6, <1>8, <2>1, <2>2, <2>3, <2>4
    <2>5. CASE ~(master[c] # "absent" /\ last[<<c, E1>>] # HOLDOVER)
      BY <1>7, <2>1, <2>5
    <2>6. QED
      BY <2>4, <2>5
  <1>19. ASSUME NEW process \in {"ptp4l", "phc2sys"}, ProcessDownLine(c, process) PROVE IInv'
    <2> USE <1>19 DEF ProcessDownLine
    <2>1. StatType'
      BY DEF statVars, StatType
    <2>2. CASE source = process /\ aliasKnown[c]
      <3> DEFINE g == GenPTPEvent(c, E1, FREERUN, FALSE)
      <3>1. Startable(g) /\ g \in TaskType
        BY <1>2, <1>3, GenStartable
      <3>2. g.pc = "store" /\ g.ev = E1
        BY <1>2, GenFreerun
      <3>3. pending' \in BOOLEAN
        <4>1. pending' = (osKnown[c] /\ c \in Loaded \ Failover)
          BY <2>2
        <4>2. QED
          BY <4>1, Zenon
      <3>4. thr' = [thr EXCEPT ![Log] = g]
        BY <2>2 DEF Handle
      <3> HIDE DEF g
      <3>5. Core'
        BY <3>1, <3>2, <3>3, <3>4, LineStarts
      <3>6. QED
        BY <2>1, <3>5, TrackedTyped DEF nodeVars
    <2>3. CASE ~(source = process /\ aliasKnown[c])
      BY <1>2, <1>3, <1>6, <2>1, <2>3, GenStartable
    <2>4. QED
      BY <2>2, <2>3
  <1>20. QED
    BY <1>1, <1>11, <1>12, <1>13, <1>14, <1>15, <1>16, <1>17, <1>18, <1>19

\* Every step of a publication by the log thread keeps the invariant.
LEMMA LogProceeds ==
    ASSUME IInv, Store \/ Publish(Log) \/ CompareNode(Log) \/ PublishNode(Log) \/ UpdateSyncState(Log)
    PROVE  IInv'
  <1> USE DEF IInv, Values
  <1> DEFINE me == thr[Log]
             Moved(pc, node, aux) == Task(pc, me.cfg, me.ev, me.state, node, aux)
  <1>0. Log \in Thread /\ \A x \in Slots : x \in Thread /\ x # Log
    BY ManagerAssumption DEF Thread
  <1>1. thr \in [Thread -> TaskType] /\ Programs /\ LineInv /\ E3Inv /\ pending \in BOOLEAN
    BY DEF Core
  <1>2. /\ me \in TaskType /\ me.ev \in EventType /\ me.state \in StateOrNone
        /\ me.node \in StateOrNone /\ me.aux \in Aux
        /\ me.cfg \in Configs \cup {Default}
    BY <1>0, <1>1, TaskTyped
  <1>3. ASSUME NEW pc \in {"publish", "node", "nodepub", "update"}, NEW node \in StateOrNone,
               NEW aux \in {"none", me.aux}
        PROVE  /\ Moved(pc, node, aux) \in TaskType
               /\ Moved(pc, node, aux).pc = pc /\ Moved(pc, node, aux).cfg = me.cfg
               /\ Moved(pc, node, aux).ev = me.ev /\ Moved(pc, node, aux).state = me.state
               /\ Moved(pc, node, aux).aux = aux
    <2>1. pc \in Pc /\ aux \in Aux
      BY <1>2, <1>3 DEF Pc, Aux
    <2>2. Moved(pc, node, aux) \in TaskType
      BY <1>2, <1>3, <2>1, TaskTyped
    <2>3. QED
      BY <2>2, TaskFields
  <1>4. NoState \in StateOrNone
    BY DEF StateOrNone
  <1>5. ASSUME me.pc # "idle" PROVE me.cfg \in Configs /\ <<me.cfg, me.ev>> \in Clock
    BY <1>1, <1>2, <1>5 DEF Programs, Clock
  <1>6. ASSUME UNCHANGED statVars, Tracked PROVE StatType' /\ disturbed' \in BOOLEAN
    BY <1>6, TrackedTyped DEF StatType, statVars
  <1> HIDE DEF me, Moved
  <1>7. CASE Store
    <2> USE <1>7 DEF Store, me
    <2>1. /\ me.pc = "store" /\ me.pc # "idle"
          /\ last' = [last EXCEPT ![<<me.cfg, me.ev>>] = me.state]
          /\ UNCHANGED pub
      OBVIOUS
    <2>2. Values'
      BY <1>2, <1>5, <1>6, <2>1 DEF nodeVars
    <2>3. \A c \in Configs : Announced(c, E3)
      BY <1>1, <2>1 DEF E3Inv
    <2>4. \A c \in Configs : <<c, E3>> # <<me.cfg, me.ev>> => last'[<<c, E3>>] = last[<<c, E3>>]
      BY <1>5, <2>1 DEF Clock, E3, EventType
    <2>5. me.ev = E3 => last'[<<me.cfg, E3>>] = me.state
      BY <1>5, <2>1
    <2>6. CASE me.aux = "none"
      <3>1. \A c \in Configs : last'[<<c, E3>>] = last[<<c, E3>>]
        BY <1>1, <2>1, <2>4, <2>5, <2>6 DEF E3Inv
      <3>2. \A c \in Configs : Announced(c, E3)'
        BY <2>1, <2>3, <3>1 DEF Announced
      <3>3. Core'
        BY <2>1, <2>6, <3>1, <3>2, LogFinishes
      <3>4. QED
        BY <2>2, <3>3
    <2>7. CASE me.aux # "none"
      <3> DEFINE k(aux) == Moved("publish", NoState, aux)
      <3>1. \A c \in Configs : Announced(c, E3)' \/ (me.ev = E3 /\ me.cfg = c)
        BY <2>1, <2>3, <2>4, <2>5 DEF Announced
      <3>2. CASE me.aux = "cancel"
        <4>1. PICK th \in Threshold(me.cfg) : thr' = SafeClose(th, k("none"))
          BY <2>7, <3>2 DEF Moved
        <4>2. /\ k("none") \in TaskType /\ k("none").pc = "publish"
              /\ k("none").cfg = me.cfg /\ k("none").ev = me.ev
              /\ k("none").state = me.state /\ k("none").aux = "none"
          BY <1>3, <1>4
        <4> HIDE DEF k
        <4>3. thr' \in [Thread -> TaskType]
          BY <1>1, <4>1, <4>2, IdleTask DEF SafeClose
        <4>4. thr'[Log] = k("none") /\ \A s \in Slots : thr'[s] \in {thr[s], Idle}
          BY <1>0, <4>1 DEF SafeClose
        <4>5. UNCHANGED pending
          BY <2>7
        <4>6. Core'
          BY <2>1, <2>5, <3>1, <4>2, <4>3, <4>4, <4>5, LogMoves
        <4>7. QED
          BY <2>2, <4>6
      <3>3. CASE me.aux # "cancel"
        <4>1. thr' = [thr EXCEPT ![Log] = k(me.aux)] /\ UNCHANGED pending
          BY <2>7, <3>3 DEF Moved
        <4>2. /\ k(me.aux) \in TaskType /\ k(me.aux).pc = "publish"
              /\ k(me.aux).cfg = me.cfg /\ k(me.aux).ev = me.ev
              /\ k(me.aux).state = me.state /\ k(me.aux).aux = me.aux
          BY <1>3, <1>4
        <4> HIDE DEF k
        <4>3. /\ thr' \in [Thread -> TaskType] /\ thr'[Log] = k(me.aux)
              /\ \A s \in Slots : thr'[s] = thr[s]
          BY <1>0, <1>1, <4>1, <4>2
        <4>4. Core'
          BY <2>1, <2>5, <3>1, <4>1, <4>2, <4>3, LogMoves
        <4>5. QED
          BY <2>2, <4>4
      <3>4. QED
        BY <3>2, <3>3
    <2>8. QED
      BY <2>6, <2>7
  \* A step from pc to the next step of the publication.
  <1>8. ASSUME me.pc # "idle", NEW pc \in {"node", "nodepub", "update"}, NEW node \in StateOrNone,
               thr' = [thr EXCEPT ![Log] = Moved(pc, node, me.aux)], UNCHANGED pending,
               \A c \in Configs : Announced(c, E3)'
        PROVE  Core'
    <2> DEFINE k == Moved(pc, node, me.aux)
    <2>1. /\ k \in TaskType /\ k.pc = pc
          /\ k.cfg = me.cfg /\ k.ev = me.ev /\ k.aux = me.aux
      BY <1>3, <1>8
    <2>2. thr' = [thr EXCEPT ![Log] = k]
      BY <1>8
    <2> HIDE DEF k
    <2>3. /\ thr' \in [Thread -> TaskType] /\ thr'[Log] = k
          /\ \A s \in Slots : thr'[s] = thr[s]
      BY <1>0, <1>1, <2>1, <2>2
    <2>4. QED
      BY <1>8, <2>1, <2>3, LogMoves DEF me
  <1>9. CASE Publish(Log)
    <2> USE <1>9 DEF Publish, me
    <2>1. me.pc = "publish" /\ me.pc # "idle" /\ pub' = [pub EXCEPT ![<<me.cfg, me.ev>>] = me.state]
      OBVIOUS
    <2>2. Values'
      BY <1>2, <1>5, <1>6, <2>1 DEF nodeVars
    <2>3. \A c \in Configs : Announced(c, E3)'
      <3>1. \A c \in Configs : <<c, E3>> # <<me.cfg, me.ev>> => pub'[<<c, E3>>] = pub[<<c, E3>>]
        BY <1>5, <2>1 DEF Clock, E3, EventType
      <3>2. me.ev = E3 => pub'[<<me.cfg, E3>>] = me.state
        BY <1>5, <2>1
      <3>3. UNCHANGED last
        OBVIOUS
      <3>4. ASSUME NEW c \in Configs PROVE Announced(c, E3)'
        <4>1. CASE me.cfg = c /\ me.ev = E3
          BY <1>1, <3>2, <3>3, <4>1 DEF E3Inv, Announced
        <4>2. CASE ~(me.cfg = c /\ me.ev = E3)
          <5>1. Announced(c, E3)
            BY <1>1, <4>2 DEF E3Inv
          <5>2. pub'[<<c, E3>>] = pub[<<c, E3>>]
            BY <3>1, <4>2
          <5>3. QED
            BY <3>3, <5>1, <5>2 DEF Announced
        <4>3. QED
          BY <4>1, <4>2
      <3>5. QED
        BY <3>4
    <2>4. thr' = [thr EXCEPT ![Log] = Moved("node", NoState, me.aux)]
      BY DEF Moved
    <2>5. Core'
      BY <1>4, <1>8, <2>1, <2>3, <2>4
    <2>6. QED
      BY <2>2, <2>5
  <1>10. ASSUME me.pc \in {"node", "nodepub", "update"}, UNCHANGED <<last, pub>>
         PROVE  \A c \in Configs : Announced(c, E3)' /\ last'[<<c, E3>>] = last[<<c, E3>>]
    BY <1>1, <1>10 DEF E3Inv, Announced, me
  <1>11. CASE CompareNode(Log)
    <2> DEFINE node == GetNodeSyncState(me.state)
    <2> USE <1>11 DEF CompareNode, me
    <2>1. me.pc = "node" /\ me.pc # "idle" /\ UNCHANGED <<last, pub>>
      OBVIOUS
    <2>2. Values'
      BY <1>6, <2>1 DEF nodeVars
    <2>3. node \in StateOrNone
      BY DEF GetNodeSyncState, Worst, StateOrNone, SyncState
    <2>4. CASE node = overall
      BY <1>10, <2>1, <2>2, <2>4, LogFinishes
    <2>5. CASE node # overall
      <3>1. thr' = [thr EXCEPT ![Log] = Moved("nodepub", node, me.aux)] /\ UNCHANGED pending
        BY <2>5 DEF Moved
      <3> HIDE DEF node
      <3>2. Core'
        BY <1>8, <1>10, <2>1, <2>3, <3>1
      <3>3. QED
        BY <2>2, <3>2
    <2>6. QED
      BY <2>4, <2>5
  <1>12. CASE PublishNode(Log)
    <2> USE <1>12 DEF PublishNode, me
    <2>1. me.pc = "nodepub" /\ me.pc # "idle" /\ UNCHANGED <<last, pub>>
      OBVIOUS
    <2>2. Values'
      BY <1>2, <1>6, <2>1
    <2>3. thr' = [thr EXCEPT ![Log] = Moved("update", me.node, me.aux)]
      BY DEF Moved
    <2>4. Core'
      BY <1>2, <1>8, <1>10, <2>1, <2>3
    <2>5. QED
      BY <2>2, <2>4
  <1>13. CASE UpdateSyncState(Log)
    <2> USE <1>13 DEF UpdateSyncState, me
    <2>1. me.pc = "update" /\ me.pc # "idle" /\ UNCHANGED <<last, pub>>
      OBVIOUS
    <2>2. Values'
      BY <1>2, <1>6, <2>1
    <2>3. Core'
      BY <1>10, <2>1, LogFinishes
    <2>4. QED
      BY <2>2, <2>3
  <1>14. QED
    BY <1>7, <1>9, <1>11, <1>12, <1>13

\* Every step of a holdover goroutine keeps the invariant.
LEMMA SlotProceeds ==
    ASSUME IInv, NEW t \in Slots,
           \/ Expire(t) \/ Check(t) \/ Set(t)
           \/ Publish(t) \/ CompareNode(t) \/ PublishNode(t) \/ UpdateSyncState(t)
    PROVE  IInv'
  <1> USE DEF IInv, Values
  <1> DEFINE me == thr[t]
  <1>0. Log \in Thread /\ t \in Thread /\ t # Log
    BY ManagerAssumption DEF Thread
  <1>1. thr \in [Thread -> TaskType] /\ Programs
    BY DEF Core
  <1>2. /\ me.state \in StateOrNone /\ me.node \in StateOrNone
        /\ me.aux \in Aux /\ me.cfg \in Configs \cup {Default} /\ me.ev = E1
        /\ me.pc # "idle" => me.cfg \in Configs
    BY <1>0, <1>1, TaskTyped DEF Programs
  <1>3. NoState \in StateOrNone /\ FREERUN \in StateOrNone /\ E1 \in EventType /\ E1 # E3
    BY DEF StateOrNone, SyncState, EventType, E1, E3, PtpStateChange, OsClockSyncStateChange
  <1>4. ASSUME NEW pc \in Pc \ {"store"}, NEW s \in StateOrNone, NEW node \in StateOrNone,
               NEW aux \in Aux, me.pc # "idle",
               thr' = [thr EXCEPT ![t] = Task(pc, me.cfg, E1, s, node, aux)], UNCHANGED pending,
               \A c \in Configs : /\ last'[<<c, E3>>] = last[<<c, E3>>]
                                  /\ pub'[<<c, E3>>] = pub[<<c, E3>>]
        PROVE  Core'
    <2> DEFINE k == Task(pc, me.cfg, E1, s, node, aux)
    <2>1. k \in TaskType
      BY <1>2, <1>3, <1>4, TaskTyped
    <2>2. k.pc = pc /\ k.ev = E1 /\ k.cfg = me.cfg
      BY TaskFields
    <2>3. thr' = [thr EXCEPT ![t] = k]
      BY <1>4
    <2> HIDE DEF k
    <2>4. QED
      BY <1>2, <1>4, <2>1, <2>2, <2>3, SlotMoves
  <1>5. ASSUME me.pc # "idle", thr' = [thr EXCEPT ![t] = Idle], UNCHANGED pending,
               UNCHANGED <<last, pub>>
        PROVE  Core'
    BY <1>5, IdleTask, SlotMoves
  <1>6. ASSUME me.pc # "idle", Finish(t), UNCHANGED <<last, pub>>
        PROVE  Core'
    <2>1. thr' = [thr EXCEPT ![t] = Idle]
      BY <1>0, <1>6 DEF Finish
    <2>2. pending' = pending
      <3>1. pending' = (pending /\ t # Log) /\ pending \in BOOLEAN
        BY <1>6 DEF Finish, Core
      <3>2. QED
        BY <1>0, <3>1, Zenon
    <2>3. QED
      BY <1>5, <1>6, <2>1, <2>2
  <1>7. ASSUME UNCHANGED statVars, Tracked PROVE StatType' /\ disturbed' \in BOOLEAN
    BY <1>7, TrackedTyped DEF StatType, statVars
  <1>8. /\ "check" \in Pc \ {"store"} /\ "set" \in Pc \ {"store"} /\ "publish" \in Pc \ {"store"}
        /\ "node" \in Pc \ {"store"} /\ "nodepub" \in Pc \ {"store"} /\ "update" \in Pc \ {"store"}
        /\ "none" \in Aux
    BY DEF Pc, Aux
  <1>9. me.pc # "idle" => <<me.cfg, E1>> \in Clock /\ \A c \in Configs : <<c, E3>> # <<me.cfg, E1>>
    BY <1>2, <1>3 DEF Clock
  <1>10. \A c \in Configs : <<c, E3>> \in Clock
    BY DEF Clock, E3, EventType
  <1>11. CASE Expire(t)
    <2> USE <1>11 DEF Expire
    <2>1. Values'
      BY <1>7 DEF nodeVars
    <2>2. thr' = [thr EXCEPT ![t] = Task("check", me.cfg, E1, NoState, NoState, "none")]
      BY <1>0, <1>1
    <2>3. Core'
      BY <1>3, <1>4, <1>8, <2>2
    <2>4. QED
      BY <2>1, <2>3
  <1>12. CASE Check(t)
    <2>0. me.pc # "idle" /\ UNCHANGED <<last, pub, statVars, overall, nodePub, told, pending>> /\ Tracked
      BY <1>12 DEF Check, nodeVars
    <2>1. Values'
      BY <1>7, <2>0
    <2>2. CASE last[<<me.cfg, E1>>] = HOLDOVER /\ aliasKnown[me.cfg]
      <3>1. thr' = [thr EXCEPT ![t] = Task("set", me.cfg, E1, FREERUN, NoState, "none")]
        BY <1>0, <1>1, <1>12, <2>2 DEF Check
      <3>2. Core'
        BY <1>3, <1>4, <1>8, <2>0, <3>1
      <3>3. QED
        BY <2>1, <3>2
    <2>3. CASE ~(last[<<me.cfg, E1>>] = HOLDOVER /\ aliasKnown[me.cfg])
      <3>1. thr' = [thr EXCEPT ![t] = Idle]
        BY <1>0, <1>1, <1>12, <2>3 DEF Check
      <3>2. QED
        BY <1>5, <2>0, <2>1, <3>1
    <2>4. QED
      BY <2>2, <2>3
  <1>13. CASE Set(t)
    <2>1. /\ last' = [last EXCEPT ![<<me.cfg, E1>>] = FREERUN] /\ me.pc # "idle"
          /\ UNCHANGED <<pub, statVars, overall, nodePub, told, pending>> /\ Tracked
      BY <1>13 DEF Set, nodeVars
    <2>2. Values'
      BY <1>3, <1>7, <1>9, <2>1
    <2>3. \A c \in Configs : last'[<<c, E3>>] = last[<<c, E3>>]
      BY <1>9, <1>10, <2>1
    <2>4. thr' = [thr EXCEPT ![t] = Task("publish", me.cfg, E1, FREERUN, NoState, "none")]
      BY <1>0, <1>1, <1>13 DEF Set
    <2>5. Core'
      BY <1>3, <1>4, <1>8, <2>1, <2>3, <2>4
    <2>6. QED
      BY <2>2, <2>5
  <1>14. CASE Publish(t)
    <2>1. /\ pub' = [pub EXCEPT ![<<me.cfg, E1>>] = me.state] /\ me.pc # "idle"
          /\ UNCHANGED <<last, statVars, overall, nodePub, pending>> /\ Tracked
          /\ told' = {<<me.cfg, E1>>}
      BY <1>2, <1>14 DEF Publish, nodeVars
    <2>2. Values'
      BY <1>2, <1>7, <1>9, <2>1
    <2>3. \A c \in Configs : pub'[<<c, E3>>] = pub[<<c, E3>>]
      BY <1>9, <1>10, <2>1
    <2>4. thr' = [thr EXCEPT ![t] = Task("node", me.cfg, E1, me.state, NoState, me.aux)]
      BY <1>2, <1>14 DEF Publish
    <2>5. Core'
      BY <1>2, <1>3, <1>4, <1>8, <2>1, <2>3, <2>4
    <2>6. QED
      BY <2>2, <2>5
  <1>15. CASE CompareNode(t)
    <2> DEFINE node == GetNodeSyncState(me.state)
    <2> USE <1>15 DEF CompareNode
    <2>1. me.pc # "idle" /\ UNCHANGED <<last, pub>>
      OBVIOUS
    <2>2. Values'
      BY <1>7, <2>1 DEF nodeVars
    <2>3. node \in StateOrNone
      BY DEF GetNodeSyncState, Worst, StateOrNone, SyncState
    <2>4. CASE node = overall
      BY <1>6, <2>1, <2>2, <2>4
    <2>5. CASE node # overall
      <3>1. thr' = [thr EXCEPT ![t] = Task("nodepub", me.cfg, E1, me.state, node, me.aux)]
        BY <1>2, <2>5
      <3>2. UNCHANGED pending
        BY <2>5
      <3> HIDE DEF node
      <3>3. Core'
        BY <1>2, <1>4, <1>8, <2>1, <2>3, <3>1, <3>2
      <3>4. QED
        BY <2>2, <3>3
    <2>6. QED
      BY <2>4, <2>5
  <1>16. CASE PublishNode(t)
    <2>0. /\ me.pc # "idle" /\ UNCHANGED <<last, pub, statVars, overall, told, pending>> /\ Tracked
          /\ nodePub' = me.node
      BY <1>16 DEF PublishNode
    <2>1. Values'
      BY <1>2, <1>7, <2>0
    <2>2. thr' = [thr EXCEPT ![t] = Task("update", me.cfg, E1, me.state, me.node, me.aux)]
      BY <1>2, <1>16 DEF PublishNode
    <2>3. Core'
      BY <1>2, <1>4, <1>8, <2>0, <2>2
    <2>4. QED
      BY <2>1, <2>3
  <1>17. CASE UpdateSyncState(t)
    <2> USE <1>17 DEF UpdateSyncState
    <2>1. Values'
      BY <1>2, <1>7
    <2>2. Core'
      BY <1>6
    <2>3. QED
      BY <2>1, <2>2
  <1>18. QED
    BY <1>11, <1>12, <1>13, <1>14, <1>15, <1>16, <1>17

-----------------------------------------------------------------------------
\* A restart keeps the invariant: the new process knows of no state, so that
\* there is nothing it could have failed to announce.
LEMMA RestartKeeps ==
    ASSUME IInv, Restart
    PROVE  IInv'
  <1> USE DEF Restart, LoadFromStore
  <1>0. Log \in Thread /\ \A x \in Slots : x \in Thread
    BY DEF Thread
  <1>1. pending' \in BOOLEAN /\ disturbed' \in BOOLEAN
    BY Zenon
  <1>2. StatType'
    BY DEF StatType, ConfiguredRoles
  <1>3. Values'
    BY <1>1, <1>2 DEF IInv, Values, StateOrNone, nodeVars
  <1>4. thr' \in [Thread -> TaskType] /\ \A t \in Thread : thr'[t] = Idle
    BY IdleTask
  <1>5. Programs' /\ LineInv'
    BY <1>0, <1>4, IdleTask DEF Programs, LineInv
  <1>6. E3Inv'
    BY <1>0, <1>4, IdleTask DEF E3Inv, Announced, Clock, E3, EventType
  <1>7. QED
    BY <1>1, <1>3, <1>4, <1>5, <1>6 DEF IInv, Core

\* The invariant is inductive.
LEMMA NextIInv == IInv /\ [Next]_vars => IInv'
  <1> SUFFICES ASSUME IInv, [Next]_vars PROVE IInv'
    OBVIOUS
  <1>1. CASE Line
    BY <1>1, LineKeeps
  <1>2. ASSUME NEW t \in Thread, Proceed(t) PROVE IInv'
    <2>1. CASE t = Log
      BY <1>2, <2>1, LogProceeds, ManagerAssumption DEF Proceed
    <2>2. CASE t \in Slots
      BY <1>2, <2>2, SlotProceeds, ManagerAssumption DEF Proceed
    <2>3. QED
      BY <2>1, <2>2 DEF Thread
  <1>3. ASSUME NEW s \in Slots, Expire(s) PROVE IInv'
    BY <1>3, SlotProceeds
  <1>4. CASE Restart
    BY <1>4, RestartKeeps
  <1>5. CASE UNCHANGED vars
    <2>1. /\ UNCHANGED <<last, pub, thr, pending, disturbed, overall, nodePub, told>>
          /\ UNCHANGED <<master, osKnown, aliasKnown, slaves, source, reporter>>
      BY <1>5 DEF vars, statVars, nodeVars
    <2>2. QED
      BY <2>1 DEF IInv, Values, StatType, Core, Programs, LineInv, E3Inv, Announced
  <1>6. QED
    BY <1>1, <1>2, <1>3, <1>4, <1>5 DEF Next

\* The invariant holds throughout.
LEMMA SpecIInv == Spec => []IInv
  <1>1. QED
    BY InitIInv, NextIInv, PTL DEF Spec

\* Type correctness: whatever lines, expiries and restarts occur, the stats, the
\* threads and what subscribers were told stay within their types.  The master
\* stat is never made for phc2sys or chronyd: masterOffsetSource only ever
\* takes the name of a master stat.
THEOREM TypeCorrect == Spec => []TypeOK
  <1>1. IInv => TypeOK
    BY DEF IInv, Values, StatType, Core, TypeOK
  <1>2. QED
    BY <1>1, SpecIInv, PTL

\* E3 events keep up with the remembered E3 state, for any number of
\* configurations and of holdover goroutines: whenever the thread that holds
\* extractMu rests, the last OsClockSyncStateChange event of every
\* configuration carries the state GenPTPEvent remembers.
THEOREM E3AlwaysAnnounced == Spec => []E3Announced
  <1>1. IInv => E3Announced
    BY DEF IInv, Core, E3Inv, E3Announced
  <1>2. QED
    BY <1>1, SpecIInv, PTL

-----------------------------------------------------------------------------
\* A goroutine that waits in a configuration whose profile has a threshold entry
\* waits on the channel of that entry, and is the only one to do so.
TimerInv ==
    /\ \A s \in Slots : thr[s].pc = "waiting" /\ thr[s].cfg \in Loaded => thr[s].aux = thr[s].cfg
    /\ \A x, y \in Slots :
          thr[x].pc = "waiting" /\ thr[y].pc = "waiting" /\ thr[x].cfg = thr[y].cfg
             /\ thr[x].cfg \in Loaded => x = y

\* No goroutine begins to wait in this step.
NoNewTimer == \A s \in Slots : thr'[s] = thr[s] \/ thr'[s].pc # "waiting"

\* A timer is started in this step, by the log thread.
NewTimer ==
    /\ thr[Log].pc # "idle"
    /\ \E c \in Configs : StartHoldoverTimer(c) /\ \E s \in Slots : thr[s].pc = "idle"

\* The end of a call starts a timer or leaves the waiting goroutines alone.
LEMMA FinishTimers ==
    ASSUME IInv, NEW t \in Thread, thr[t].pc # "idle", Finish(t)
    PROVE  NoNewTimer \/ NewTimer
  <1>0. Log \in Thread /\ \A s \in Slots : s \in Thread /\ s # Log
    BY ManagerAssumption DEF Thread
  <1>1. thr \in [Thread -> TaskType]
    BY DEF IInv, Core
  <1>2. CASE t = Log /\ pending
    BY <1>0, <1>1, <1>2 DEF Finish, NoNewTimer
  <1>3. CASE t = Log /\ ~pending /\ thr[t].aux = "start"
    BY <1>3 DEF Finish, NewTimer, IInv, Core, LineInv, Programs
  <1>4. CASE ~(t = Log /\ pending) /\ ~(t = Log /\ thr[t].aux = "start")
    BY <1>0, <1>1, <1>4, IdleTask DEF Finish, NoNewTimer
  <1>5. QED
    BY <1>2, <1>3, <1>4

\* No other step starts a timer.
LEMMA NextTimers ==
    ASSUME IInv, Next
    PROVE  NoNewTimer \/ NewTimer
  <1>0. Log \in Thread /\ \A s \in Slots : s \in Thread /\ s # Log
    BY ManagerAssumption DEF Thread
  <1>1. thr \in [Thread -> TaskType]
    BY DEF IInv, Core
  <1>2. ASSUME NEW t \in Thread, NEW k, k.pc # "waiting", thr' = [thr EXCEPT ![t] = k]
        PROVE  NoNewTimer
    BY <1>0, <1>1, <1>2 DEF NoNewTimer
  <1>3. ASSUME NEW t \in Thread, NEW pc, NEW c, NEW ev, NEW s, NEW node, NEW aux,
               pc # "waiting", thr' = [thr EXCEPT ![t] = Task(pc, c, ev, s, node, aux)]
        PROVE  NoNewTimer
    <2> DEFINE k == Task(pc, c, ev, s, node, aux)
    <2>1. k.pc # "waiting"
      BY <1>3, TaskFields
    <2>2. thr' = [thr EXCEPT ![t] = k]
      BY <1>3
    <2> HIDE DEF k
    <2>3. QED
      BY <1>2, <2>1, <2>2
  <1>4. ASSUME NEW k, thr' = [thr EXCEPT ![Log] = k] PROVE NoNewTimer
    BY <1>0, <1>1, <1>4 DEF NoNewTimer
  <1>5. CASE Line
    <2>1. UNCHANGED thr \/ \E k : thr' = [thr EXCEPT ![Log] = k]
      BY <1>5 DEF Line, MasterOffsetLine, SummaryLine, ClockRealTimeLine, UndisciplinedLine,
         ChronydLine, PortSlaveLine, PortRoleLine, PortFaultLine, ProcessDownLine, Handle
    <2>2. QED
      BY <1>4, <2>1 DEF NoNewTimer
  <1>6. ASSUME NEW t \in Thread, Proceed(t) PROVE NoNewTimer \/ NewTimer
    <2>1. CASE t = Log /\ Store
      <3>1. CASE thr[Log].aux = "none"
        BY <1>0, <2>1, <3>1, FinishTimers DEF Store
      <3>2. CASE thr[Log].aux = "cancel"
        BY <1>0, <2>1, <3>2, IdleTask DEF Store, SafeClose, NoNewTimer
      <3>3. CASE thr[Log].aux \notin {"none", "cancel"}
        BY <1>4, <2>1, <3>3 DEF Store
      <3>4. QED
        BY <3>1, <3>2, <3>3
    <2>2. CASE Publish(t)
      BY <1>3, <2>2 DEF Publish
    <2>3. CASE CompareNode(t)
      <3>1. CASE GetNodeSyncState(thr[t].state) = overall
        BY <2>3, <3>1, FinishTimers DEF CompareNode
      <3>2. CASE GetNodeSyncState(thr[t].state) # overall
        BY <1>3, <2>3, <3>2 DEF CompareNode
      <3>3. QED
        BY <3>1, <3>2
    <2>4. CASE PublishNode(t)
      BY <1>3, <2>4 DEF PublishNode
    <2>5. CASE UpdateSyncState(t)
      BY <2>5, FinishTimers DEF UpdateSyncState
    <2>6. CASE Check(t)
      <3>1. thr' = [thr EXCEPT ![t] = Task("set", thr[t].cfg, E1, FREERUN, NoState, "none")]
            \/ thr' = [thr EXCEPT ![t] = Idle]
        BY <1>1, <2>6 DEF Check
      <3>2. QED
        BY <1>2, <1>3, <3>1, IdleTask
    <2>7. CASE Set(t)
      <3>1. thr' = [thr EXCEPT ![t] = Task("publish", thr[t].cfg, E1, FREERUN, NoState, "none")]
        BY <1>1, <2>7 DEF Set
      <3>2. QED
        BY <1>3, <3>1
    <2>8. QED
      BY <1>6, <2>1, <2>2, <2>3, <2>4, <2>5, <2>6, <2>7 DEF Proceed
  <1>7. ASSUME NEW s \in Slots, Expire(s) PROVE NoNewTimer
    <2>1. thr' = [thr EXCEPT ![s] = Task("check", thr[s].cfg, E1, NoState, NoState, "none")]
      BY <1>0, <1>1, <1>7 DEF Expire
    <2>2. QED
      BY <1>0, <1>3, <2>1
  <1>8. CASE Restart
    BY <1>0, <1>8, IdleTask DEF Restart, LoadFromStore, NoNewTimer
  <1>9. QED
    BY <1>5, <1>6, <1>7, <1>8 DEF Next

\* startHoldoverTimer calls off the timer a configuration already has, when its
\* profile has a threshold entry.
LEMMA TimersKept ==
    ASSUME IInv, TimerInv, [Next]_vars
    PROVE  TimerInv'
  <1>1. CASE UNCHANGED thr
    BY <1>1 DEF TimerInv
  <1>2. CASE NoNewTimer
    BY <1>2 DEF NoNewTimer, TimerInv
  <1>3. CASE NewTimer
    <2>1. PICK c \in Configs : StartHoldoverTimer(c) /\ \E s \in Slots : thr[s].pc = "idle"
      BY <1>3 DEF NewTimer
    <2>2. PICK th \in Threshold(c) :
             /\ thr'[FreeSlot] = Task("waiting", c, E1, NoState, NoState, th)
             /\ \A s \in Slots \ {FreeSlot} : thr'[s] = IF Waits(s, th) THEN Idle ELSE thr[s]
      BY <2>1, TimerStarts
    <2>3. thr'[FreeSlot].cfg = c /\ thr'[FreeSlot].aux = th
      BY <2>2, TaskFields
    <2>4. \A s \in Slots \ {FreeSlot} : thr'[s].pc = "waiting" => thr'[s] = thr[s]
      BY <2>2, IdleTask
    <2>5. CASE c \in Loaded
      <3>1. th = c
        BY <2>5 DEF Threshold
      <3>2. \A s \in Slots \ {FreeSlot} : thr'[s].pc = "waiting" => thr[s].cfg # c
        BY <2>2, <2>4, <2>5, <3>1, IdleTask, ManagerAssumption DEF Waits, TimerInv
      <3>3. QED
        BY <2>3, <2>4, <3>1, <3>2 DEF TimerInv
    <2>6. CASE c \notin Loaded
      BY <2>3, <2>4, <2>6 DEF TimerInv
    <2>7. QED
      BY <2>5, <2>6
  <1>4. QED
    BY <1>1, <1>2, <1>3, NextTimers DEF vars

LEMMA SpecTimers == Spec => []TimerInv
  <1>1. Init => TimerInv
    <2> SUFFICES ASSUME Init PROVE TimerInv
      OBVIOUS
    <2>1. \A s \in Slots : thr[s] = Idle
      BY DEF Init, Thread
    <2>2. QED
      BY <2>1, IdleTask DEF TimerInv
  <1>2. IInv /\ TimerInv /\ [Next]_vars => TimerInv'
    BY TimersKept
  <1>3. QED
    BY <1>1, <1>2, SpecIInv, PTL DEF Spec

\* A configuration never waits for two holdover timers, provided every profile
\* has a threshold entry of its own, for any number of configurations and of
\* goroutines: startHoldoverTimer cancels the earlier timer through the
\* channel it replaces.
THEOREM OneTimerAlways ==
    ASSUME Loaded = Configs
    PROVE  Spec => []OneTimer
  <1>1. IInv /\ TimerInv => OneTimer
    BY DEF TimerInv, OneTimer, IInv, Core, Programs
  <1>2. QED
    BY <1>1, SpecIInv, SpecTimers, PTL

-----------------------------------------------------------------------------
(***************************************************************************)
(* While no two threads have worked at once, the one that works may rely   *)
(* on what it has read: no expiry changes a state between the sample that  *)
(* a line was read from and the event it publishes, and the reverse.       *)
(***************************************************************************)

Publishing == {"publish", "node", "nodepub", "update"}

Rests(t) == thr[t].pc \in {"idle", "waiting"}

Solo == \A t1, t2 \in Busy : t1 = t2

\* What thread t read is still so: it publishes the remembered state; a store
\* that will not be published changes nothing, or is FREERUN during HOLDOVER; a
\* phc2sys sample is LOCKED only along with E1; an expiry ends a HOLDOVER.
Doing(t) ==
    LET me == thr[t]
        now == last[<<me.cfg, me.ev>>]
    IN  /\ me.pc \in Publishing => me.state = now
        /\ me.pc = "store" /\ me.aux = "none" =>
              me.state = now \/ (me.ev = E1 /\ me.state = FREERUN /\ now = HOLDOVER)
        /\ me.pc = "store" /\ me.ev = E3 /\ me.state = LOCKED /\ me.cfg \notin Chronyd =>
              last[<<me.cfg, E1>>] \in {LOCKED, NoState}
        /\ me.pc = "set" => last[<<me.cfg, E1>>] = HOLDOVER

E1Told(c) ==
    Announced(c, E1) \/ (last[<<c, E1>>] = FREERUN /\ pub[<<c, E1>>] = HOLDOVER)

\* Thread t is about to publish E1 of c.
Telling(t, c) == thr[t].pc = "publish" /\ thr[t].ev = E1 /\ thr[t].cfg = c

QuietInv ==
    ~disturbed =>
        /\ Solo
        /\ \A t \in Thread : Doing(t)
        /\ \A c \in Configs : E1Told(c) \/ \E t \in Thread : Telling(t, c)

\* The history variable: once two threads have worked at once it stays set.
LEMMA TrackedSolo ==
    ASSUME Tracked, ~disturbed'
    PROVE  ~disturbed /\ Solo'
  <1>1. ~(disturbed \/ \E t1, t2 \in Busy' : t1 # t2)
    BY Zenon DEF Tracked
  <1>2. QED
    BY <1>1 DEF Solo

\* A thread that works is the only one, before and after its step.
LEMMA OthersRest ==
    ASSUME QuietInv, ~disturbed, NEW t \in Thread, ~Rests(t),
           \A x \in Thread \ {t} : thr'[x] \in {thr[x], Idle} \/ thr'[x].pc = "waiting"
    PROVE  \A x \in Thread \ {t} : Rests(x) /\ Rests(x)'
  <1>1. \A x \in Thread \ {t} : Rests(x)
    BY DEF QuietInv, Solo, Busy, Rests
  <1>2. QED
    BY <1>1, IdleTask DEF Rests

\* What is left to show of the step of a thread that works.
LEMMA QuietAlone ==
    ASSUME Tracked, NEW t \in Thread, \A x \in Thread \ {t} : Rests(x)', Doing(t)',
           \A c \in Configs : E1Told(c)' \/ Telling(t, c)'
    PROVE  QuietInv'
  <1> SUFFICES ASSUME ~disturbed' PROVE QuietInv'
    BY DEF QuietInv
  <1>1. Solo'
    BY TrackedSolo
  <1>2. ASSUME NEW x \in Thread \ {t} PROVE Doing(x)'
    <2>1. thr'[x].pc \notin Publishing /\ thr'[x].pc \notin {"store", "set"}
      BY DEF Rests, Publishing
    <2>2. QED
      BY <2>1 DEF Doing
  <1>3. QED
    BY <1>1, <1>2 DEF QuietInv

\* A thread that rested gets something to do, or a line changes the stats: no
\* other thread is concerned.
LEMMA QuietBegins ==
    ASSUME IInv, QuietInv, Tracked, NEW t \in Thread, Rests(t), thr'[t].pc \notin Publishing,
           \A x \in Thread \ {t} : thr'[x] = thr[x],
           UNCHANGED <<last, pub>>, Doing(t)'
    PROVE  QuietInv'
  <1> SUFFICES ASSUME ~disturbed' PROVE QuietInv'
    BY DEF QuietInv
  <1>1. Solo' /\ ~disturbed
    BY TrackedSolo
  <1>2. ASSUME NEW x \in Thread \ {t} PROVE Doing(x)'
    <2>1. Doing(x) /\ thr'[x] = thr[x]
      BY <1>1 DEF QuietInv
    <2>2. QED
      BY <2>1 DEF Doing
  <1>3. \A c \in Configs : E1Told(c)' \/ \E x \in Thread : Telling(x, c)'
    <2> SUFFICES ASSUME NEW c \in Configs PROVE E1Told(c)' \/ \E x \in Thread : Telling(x, c)'
      OBVIOUS
    <2>1. CASE E1Told(c)
      BY <2>1 DEF E1Told, Announced
    <2>2. ASSUME NEW x \in Thread, Telling(x, c) PROVE Telling(x, c)'
      BY <2>2 DEF Telling, Rests
    <2>3. QED
      BY <1>1, <2>1, <2>2 DEF QuietInv
  <1>4. QED
    BY <1>1, <1>2, <1>3 DEF QuietInv

\* Only the one thread that works can be about to publish.
LEMMA AllTold ==
    ASSUME QuietInv, ~disturbed, NEW t \in Thread, \A x \in Thread \ {t} : Rests(x)
    PROVE  \A c \in Configs : E1Told(c) \/ Telling(t, c)
  BY DEF QuietInv, Telling, Rests

\* The end of a call: the thread rests, or the log thread goes on with E3.
\* Other threads are called off, or begin to wait.
LEMMA FinishShape ==
    ASSUME IInv, NEW t \in Thread, thr[t].pc # "idle", Finish(t)
    PROVE  /\ \A x \in Thread \ {t} : thr'[x] \in {thr[x], Idle} \/ thr'[x].pc = "waiting"
           /\ \/ thr'[t] = Idle
              \/ t = Log /\ pending /\ thr'[t] = GenPTPEvent(thr[Log].cfg, E3, FREERUN, FALSE)
  <1>0. Log \in Thread /\ Thread = Slots \cup {Log}
    BY ManagerAssumption DEF Thread
  <1>1. thr \in [Thread -> TaskType]
    BY DEF IInv, Core
  <1>2. CASE t = Log /\ pending
    BY <1>0, <1>1, <1>2 DEF Finish
  <1>3. CASE t = Log /\ ~pending /\ thr[t].aux = "start"
    <2>1. thr[Log].cfg \in Configs /\ \E s \in Slots : thr[s].pc = "idle"
      BY <1>3 DEF IInv, Core, Programs, LineInv
    <2>2. StartHoldoverTimer(thr[Log].cfg)
      BY <1>3 DEF Finish
    <2>3. PICK th \in Threshold(thr[Log].cfg) :
             /\ thr'[FreeSlot] = Task("waiting", thr[Log].cfg, E1, NoState, NoState, th)
             /\ \A s \in Slots \ {FreeSlot} : thr'[s] = IF Waits(s, th) THEN Idle ELSE thr[s]
      BY <2>1, <2>2, TimerStarts
    <2>4. thr'[FreeSlot].pc = "waiting"
      BY <2>3, TaskFields
    <2>5. thr'[Log] = Idle
      BY <2>1, <2>2, TimerStarts
    <2>6. QED
      BY <1>0, <1>3, <2>3, <2>4, <2>5
  <1>4. CASE ~(t = Log /\ pending) /\ ~(t = Log /\ thr[t].aux = "start")
    BY <1>0, <1>1, <1>4 DEF Finish
  <1>5. QED
    BY <1>2, <1>3, <1>4

\* The end of a call, once E1 is told.
LEMMA FinishQuiet ==
    ASSUME IInv, QuietInv, ~disturbed, NEW t \in Thread, ~Rests(t), Finish(t), Tracked,
           \A c \in Configs : E1Told(c)',
           t = Log /\ pending => \A c \in Configs : last'[<<c, E3>>] = last[<<c, E3>>]
    PROVE  QuietInv'
  <1>1. \A x \in Thread \ {t} : Rests(x)'
    BY FinishShape, OthersRest DEF Rests
  <1>2. CASE thr'[t] = Idle
    <2>1. Doing(t)'
      BY <1>2, IdleTask DEF Doing, Publishing
    <2>2. QED
      BY <1>1, <2>1, QuietAlone
  <1>3. ASSUME t = Log, pending, thr'[t] = GenPTPEvent(thr[Log].cfg, E3, FREERUN, FALSE)
        PROVE  QuietInv'
    <2> DEFINE c == thr[Log].cfg
               g == GenPTPEvent(c, E3, FREERUN, FALSE)
    <2>1. c \in Configs /\ E3 \in EventType /\ FREERUN \in SyncState /\ E1 # E3
      BY <1>3 DEF Rests, IInv, Core, Programs, EventType, E1, E3, SyncState,
                  PtpStateChange, OsClockSyncStateChange
    <2>2. last[<<c, E3>>] \in StateOrNone
      BY <2>1 DEF IInv, Values, Clock
    <2>3. \/ g = Idle
          \/ /\ g.pc = "store" /\ g.cfg = c /\ g.ev = E3
             /\ g.aux = "none" => g.state = last[<<c, E3>>]
             /\ g.state # LOCKED
      <3>1. FREERUN # LOCKED
        BY DEF FREERUN, LOCKED
      <3>2. Asks(g, c, E3, FREERUN)
        BY <2>1, <2>2, GenAsks
      <3>3. QED
        BY <2>1, <3>1, <3>2 DEF Asks
    <2>4. thr'[t] = g /\ last'[<<c, E3>>] = last[<<c, E3>>]
      BY <1>3, <2>1
    <2> HIDE DEF g, c
    <2>5. Doing(t)'
      <3>1. CASE g = Idle
        BY <2>4, <3>1, IdleTask DEF Doing, Publishing
      <3>2. CASE g # Idle
        BY <2>3, <2>4, <3>2 DEF Doing, Publishing
      <3>3. QED
        BY <3>1, <3>2
    <2>6. QED
      BY <1>1, <2>5, QuietAlone
  <1>4. QED
    BY <1>2, <1>3, FinishShape DEF Rests

\* Log lines: what the line has read is so when its handling begins.
LEMMA LineQuiet ==
    ASSUME IInv, QuietInv, Line
    PROVE  QuietInv'
  <1>0. /\ Log \in Thread /\ thr \in [Thread -> TaskType]
        /\ \A x \in Thread \ {Log} : x \in Slots
    BY DEF Thread, IInv, Core
  <1>1. PICK c \in Configs :
          \/ \E x \in Sample : MasterOffsetLine(c, x[1], x[2])
          \/ SummaryLine(c)
          \/ \E x \in Sample : ClockRealTimeLine(c, x[1], x[2])
          \/ UndisciplinedLine(c)
          \/ \E s \in {LOCKED, FREERUN} : ChronydLine(c, s)
          \/ \E p \in Ports : PortSlaveLine(c, p)
          \/ \E p \in Ports : PortRoleLine(c, p)
          \/ \E p \in Ports : PortFaultLine(c, p)
          \/ \E process \in {"ptp4l", "phc2sys"} : ProcessDownLine(c, process)
    BY DEF Line
  <1>2. E1 \in EventType /\ E3 \in EventType /\ E1 # E3
    BY DEF E1, E3, EventType, PtpStateChange, OsClockSyncStateChange
  <1>3. LOCKED \in SyncState /\ FREERUN \in SyncState /\ FREERUN # LOCKED
    BY DEF SyncState, FREERUN, LOCKED
  <1>4. \A x \in Sample : x[1] \in SyncState /\ x[2] \in BOOLEAN
    BY DEF Sample
  <1>5. \A ev \in EventType : last[<<c, ev>>] \in StateOrNone
    BY DEF IInv, Values, Clock
  \* The two ways a line ends.
  <1>7. ASSUME thr[Log].pc = "idle", UNCHANGED <<last, pub, thr>>, Tracked
        PROVE  QuietInv'
    <2>1. Doing(Log)'
      BY <1>7 DEF Doing, Publishing
    <2>2. Rests(Log) /\ thr'[Log].pc \notin Publishing
      BY <1>7 DEF Rests, Publishing
    <2>3. \A x \in Thread \ {Log} : thr'[x] = thr[x]
      BY <1>7
    <2>4. QED
      BY <1>0, <1>7, <2>1, <2>2, <2>3, QuietBegins
  <1>8. ASSUME thr[Log].pc = "idle", UNCHANGED <<last, pub>>, Tracked,
               NEW k, Handle(k), NEW ev \in EventType, NEW s, Asks(k, c, ev, s),
               \/ ev = E1
               \/ s # LOCKED
               \/ c \in Chronyd
               \/ last[<<c, E1>>] \in {LOCKED, NoState}
        PROVE  QuietInv'
    <2>1. thr'[Log] = k /\ \A x \in Thread \ {Log} : thr'[x] = thr[x]
      BY <1>0, <1>8 DEF Handle
    <2>2. Rests(Log)
      BY <1>8 DEF Rests
    <2>3. CASE k = Idle
      <3>1. Doing(Log)' /\ thr'[Log].pc \notin Publishing
        BY <2>1, <2>3, IdleTask DEF Doing, Publishing
      <3>2. QED
        BY <1>0, <1>8, <2>1, <2>2, <3>1, QuietBegins
    <2>4. CASE k # Idle
      <3>1. /\ k.pc = "store" /\ k.cfg = c /\ k.ev = ev
            /\ k.aux = "none" =>
                  \/ k.state = last[<<c, ev>>]
                  \/ ev = E1 /\ k.state = FREERUN /\ last[<<c, ev>>] = HOLDOVER
            /\ k.state = LOCKED => s = LOCKED
        BY <1>8, <2>4 DEF Asks
      <3>2. Doing(Log)' /\ thr'[Log].pc \notin Publishing
        BY <1>2, <1>8, <2>1, <3>1 DEF Doing, Publishing
      <3>3. QED
        BY <1>0, <1>8, <2>1, <2>2, <3>2, QuietBegins
    <2>5. QED
      BY <2>3, <2>4
  <1>9. ASSUME ValidLine(c) PROVE thr[Log].pc = "idle"
    BY <1>9 DEF ValidLine
  <1>11. ASSUME NEW x \in Sample, MasterOffsetLine(c, x[1], x[2]) PROVE QuietInv'
    <2>1. thr[Log].pc = "idle" /\ UNCHANGED <<last, pub>> /\ Tracked
      BY <1>9, <1>11 DEF MasterOffsetLine
    <2>2. CASE slaves[c] = {}
      BY <1>7, <1>11, <2>1, <2>2 DEF MasterOffsetLine
    <2>3. CASE slaves[c] # {}
      <3>1. Handle(GenPTPEvent(c, E1, x[1], x[2]))
        BY <1>11, <2>3 DEF MasterOffsetLine
      <3>2. Asks(GenPTPEvent(c, E1, x[1], x[2]), c, E1, x[1])
        BY <1>2, <1>4, <1>5, GenAsks
      <3>3. QED
        BY <1>2, <1>8, <2>1, <3>1, <3>2
    <2>4. QED
      BY <2>2, <2>3
  <1>12. ASSUME SummaryLine(c) PROVE QuietInv'
    BY <1>7, <1>9, <1>12 DEF SummaryLine
  <1>13. ASSUME NEW x \in Sample, ClockRealTimeLine(c, x[1], x[2]) PROVE QuietInv'
    <2> DEFINE s == OverallState(x[1], last[<<c, E1>>])
    <2>1. thr[Log].pc = "idle" /\ UNCHANGED <<last, pub>> /\ Tracked
      BY <1>9, <1>13 DEF ClockRealTimeLine
    <2>2. s \in SyncState /\ (s = LOCKED => last[<<c, E1>>] \in {LOCKED, NoState})
      BY <1>2, <1>4, <1>5
         DEF OverallState, SyncState, StateOrNone, NoState, FREERUN, HOLDOVER, LOCKED
    <2>3. Handle(GenPTPEvent(c, E3, s, x[2]))
      BY <1>13 DEF ClockRealTimeLine
    <2> HIDE DEF s
    <2>4. Asks(GenPTPEvent(c, E3, s, x[2]), c, E3, s)
      BY <1>2, <1>4, <1>5, <2>2, GenAsks
    <2>5. QED
      BY <1>2, <1>8, <2>1, <2>2, <2>3, <2>4
  <1>14. ASSUME UndisciplinedLine(c) PROVE QuietInv'
    <2>1. thr[Log].pc = "idle" /\ UNCHANGED <<last, pub>> /\ Tracked
      BY <1>9, <1>14 DEF UndisciplinedLine
    <2>2. Asks(GenPTPEvent(c, E3, FREERUN, FALSE), c, E3, FREERUN)
      BY <1>2, <1>3, <1>5, GenAsks
    <2>3. UNCHANGED thr \/ Handle(GenPTPEvent(c, E3, FREERUN, FALSE))
      BY <1>14 DEF UndisciplinedLine
    <2>4. QED
      BY <1>2, <1>3, <1>7, <1>8, <2>1, <2>2, <2>3
  <1>15. ASSUME NEW s \in {LOCKED, FREERUN}, ChronydLine(c, s) PROVE QuietInv'
    <2>1. /\ thr[Log].pc = "idle" /\ UNCHANGED <<last, pub>> /\ Tracked /\ c \in Chronyd
          /\ Handle(GenPTPEvent(c, E3, s, TRUE))
      BY <1>15 DEF ChronydLine
    <2>2. Asks(GenPTPEvent(c, E3, s, TRUE), c, E3, s)
      BY <1>2, <1>3, <1>5, GenAsks
    <2>3. QED
      BY <1>2, <1>8, <2>1, <2>2
  <1>16. ASSUME NEW p \in Ports, PortSlaveLine(c, p) PROVE QuietInv'
    BY <1>7, <1>9, <1>16 DEF PortSlaveLine
  <1>17. ASSUME NEW p \in Ports, PortRoleLine(c, p) PROVE QuietInv'
    BY <1>7, <1>9, <1>17 DEF PortRoleLine
  <1>18. ASSUME NEW p \in Ports, PortFaultLine(c, p) PROVE QuietInv'
    <2> DEFINE k == Task("store", c, E1, HOLDOVER, NoState, "start")
    <2>1. thr[Log].pc = "idle" /\ UNCHANGED <<last, pub>> /\ Tracked
      BY <1>9, <1>18 DEF PortFaultLine
    <2>2. UNCHANGED thr \/ Handle(k)
      BY <1>18 DEF PortFaultLine
    <2>3. /\ k.pc = "store" /\ k.cfg = c /\ k.ev = E1 /\ k.state = HOLDOVER /\ k.aux = "start"
          /\ HOLDOVER # LOCKED
      BY TaskFields DEF HOLDOVER, LOCKED
    <2> HIDE DEF k
    <2>4. Asks(k, c, E1, FREERUN)
      BY <2>3 DEF Asks
    <2>5. QED
      BY <1>2, <1>7, <1>8, <2>1, <2>2, <2>4
  <1>19. ASSUME NEW process \in {"ptp4l", "phc2sys"}, ProcessDownLine(c, process) PROVE QuietInv'
    <2>1. thr[Log].pc = "idle" /\ UNCHANGED <<last, pub>> /\ Tracked
      BY <1>19 DEF ProcessDownLine
    <2>2. PICK ev \in {E1, E3} : Handle(GenPTPEvent(c, ev, FREERUN, FALSE))
      BY <1>19 DEF ProcessDownLine
    <2>3. Asks(GenPTPEvent(c, ev, FREERUN, FALSE), c, ev, FREERUN)
      BY <1>2, <1>3, <1>5, GenAsks
    <2>4. QED
      BY <1>2, <1>3, <1>8, <2>1, <2>2, <2>3
  <1>20. QED
    BY <1>1, <1>11, <1>12, <1>13, <1>14, <1>15, <1>16, <1>17, <1>18, <1>19

\* The clock of a thread that works.
LEMMA WorkingClock ==
    ASSUME IInv, NEW t \in Thread, thr[t].pc # "idle"
    PROVE  /\ thr[t].cfg \in Configs /\ thr[t].ev \in EventType
           /\ thr[t].state \in StateOrNone /\ thr[t].aux \in Aux
           /\ <<thr[t].cfg, thr[t].ev>> \in Clock
           /\ \A c \in Configs : <<c, E1>> \in Clock /\ <<c, E3>> \in Clock
  <1>1. thr[t].cfg \in Configs
    BY DEF IInv, Core, Programs, Thread
  <1>2. thr[t].ev \in EventType /\ thr[t].state \in StateOrNone /\ thr[t].aux \in Aux
    BY TaskTyped DEF IInv, Core
  <1>3. QED
    BY <1>1, <1>2 DEF Clock, EventType, E1, E3

\* Storing a state: what was read still holds, so that E1 is told, about to be
\* told, or left to the timer that runs.
LEMMA StoreQuiet ==
    ASSUME IInv, QuietInv, ~disturbed, Store
    PROVE  QuietInv'
  <1> DEFINE me == thr[Log]
             now == last[<<me.cfg, me.ev>>]
  <1>0. /\ Log \in Thread /\ thr \in [Thread -> TaskType]
        /\ last \in [Clock -> StateOrNone] /\ E1 # E3
    BY DEF Thread, IInv, Core, Values, E1, E3, PtpStateChange, OsClockSyncStateChange
  <1>1. /\ me.pc = "store" /\ me.pc # "idle" /\ ~Rests(Log) /\ UNCHANGED pub /\ Tracked
        /\ last' = [last EXCEPT ![<<me.cfg, me.ev>>] = me.state]
    BY DEF Store, Rests
  <1>2. /\ me.cfg \in Configs /\ me.ev \in EventType /\ <<me.cfg, me.ev>> \in Clock
        /\ \A c \in Configs : <<c, E1>> \in Clock /\ <<c, E3>> \in Clock
    BY <1>0, <1>1, WorkingClock
  <1>3. Doing(Log)
    BY <1>0 DEF QuietInv
  <1>4. last'[<<me.cfg, me.ev>>] = me.state
    BY <1>0, <1>1, <1>2
  <1>5. \A c \in Configs : ~(me.cfg = c /\ me.ev = E1) => last'[<<c, E1>>] = last[<<c, E1>>]
    BY <1>0, <1>1, <1>2
  <1>6. \A c \in Configs : ~(me.cfg = c /\ me.ev = E3) => last'[<<c, E3>>] = last[<<c, E3>>]
    BY <1>0, <1>1, <1>2
  <1>7. \A x \in Thread \ {Log} : thr'[x] \in {thr[x], Idle} \/ thr'[x].pc = "waiting"
    <2>1. CASE me.aux = "none"
      BY <1>0, <1>1, <2>1, FinishShape DEF Store
    <2>2. CASE me.aux = "cancel"
      BY <1>0, <2>2 DEF Store, SafeClose
    <2>3. CASE me.aux \notin {"none", "cancel"}
      BY <1>0, <2>3 DEF Store
    <2>4. QED
      BY <2>1, <2>2, <2>3
  <1>8. \A x \in Thread \ {Log} : Rests(x) /\ Rests(x)'
    BY <1>0, <1>1, <1>7, OthersRest
  <1>9. \A c \in Configs : E1Told(c)
    BY <1>0, <1>1, <1>8, AllTold DEF Telling
  <1>10. \A c \in Configs : ~(me.cfg = c /\ me.ev = E1) => E1Told(c)'
    BY <1>1, <1>5, <1>9 DEF E1Told, Announced
  <1>11. CASE me.aux = "none"
    <2>1. me.state = now \/ (me.ev = E1 /\ me.state = FREERUN /\ now = HOLDOVER)
      BY <1>1, <1>3, <1>11 DEF Doing
    <2>2. ASSUME NEW c \in Configs, me.cfg = c, me.ev = E1 PROVE E1Told(c)'
      <3>1. E1Told(c) /\ last'[<<c, E1>>] = me.state /\ now = last[<<c, E1>>]
        BY <1>4, <1>9, <2>2
      <3>2. CASE me.state = now
        BY <1>1, <3>1, <3>2 DEF E1Told, Announced
      <3>3. CASE me.state = FREERUN /\ now = HOLDOVER
        <4>1. pub[<<c, E1>>] = HOLDOVER
          BY <3>1, <3>3 DEF E1Told, Announced, FREERUN, HOLDOVER, NoState
        <4>2. QED
          BY <1>1, <3>1, <3>3, <4>1 DEF E1Told
      <3>4. QED
        BY <2>1, <3>2, <3>3
    <2>3. \A c \in Configs : E1Told(c)'
      BY <1>10, <2>2
    <2>4. pending => \A c \in Configs : last'[<<c, E3>>] = last[<<c, E3>>]
      BY <1>0, <1>6 DEF IInv, Core, LineInv
    <2>5. Finish(Log)
      BY <1>11 DEF Store
    <2>6. QED
      BY <1>0, <1>1, <2>3, <2>4, <2>5, FinishQuiet
  <1>12. CASE me.aux # "none"
    <2>1. \E aux : thr'[Log] = Task("publish", me.cfg, me.ev, me.state, NoState, aux)
      BY <1>0, <1>12 DEF Store, SafeClose
    <2>2. /\ thr'[Log].pc = "publish" /\ thr'[Log].cfg = me.cfg /\ thr'[Log].ev = me.ev
          /\ thr'[Log].state = me.state
      BY <2>1, TaskFields
    <2>3. Doing(Log)'
      BY <1>4, <2>2 DEF Doing
    <2>4. \A c \in Configs : E1Told(c)' \/ Telling(Log, c)'
      BY <1>10, <2>2 DEF Telling
    <2>5. QED
      BY <1>0, <1>1, <1>8, <2>3, <2>4, QuietAlone
  <1>13. QED
    BY <1>11, <1>12

\* The other steps of a thread, the log thread or a goroutine.
LEMMA ProceedQuiet ==
    ASSUME IInv, QuietInv, ~disturbed, NEW t \in Thread,
           \/ Publish(t) \/ CompareNode(t) \/ PublishNode(t) \/ UpdateSyncState(t)
           \/ t \in Slots /\ (Check(t) \/ Set(t))
    PROVE  QuietInv'
  <1> DEFINE me == thr[t]
             now == last[<<me.cfg, me.ev>>]
  <1>0. /\ thr \in [Thread -> TaskType] /\ last \in [Clock -> StateOrNone]
        /\ pub \in [Clock -> StateOrNone] /\ E1 # E3 /\ Doing(t)
    BY DEF IInv, Core, Values, E1, E3, PtpStateChange, OsClockSyncStateChange, QuietInv
  <1>1. me.pc # "idle" /\ ~Rests(t) /\ Tracked
    BY DEF Publish, CompareNode, PublishNode, UpdateSyncState, Check, Set, Rests
  <1>2. /\ me.cfg \in Configs /\ me.ev \in EventType /\ <<me.cfg, me.ev>> \in Clock
        /\ \A c \in Configs : <<c, E1>> \in Clock /\ <<c, E3>> \in Clock
    BY <1>1, WorkingClock
  <1>3. ASSUME NEW k, thr' = [thr EXCEPT ![t] = k]
        PROVE  thr'[t] = k /\ \A x \in Thread \ {t} : Rests(x) /\ Rests(x)'
    <2>1. thr'[t] = k /\ \A x \in Thread \ {t} : thr'[x] = thr[x]
      BY <1>0, <1>3
    <2>2. QED
      BY <1>1, <2>1, OthersRest
  <1>4. \A x \in Thread \ {t} : Rests(x)
    BY <1>1 DEF QuietInv, Solo, Busy, Rests
  <1>5. \A c \in Configs : E1Told(c) \/ Telling(t, c)
    BY <1>4, AllTold
  <1>6. ASSUME me.pc # "publish", UNCHANGED <<last, pub>> PROVE \A c \in Configs : E1Told(c)'
    BY <1>5, <1>6 DEF Telling, E1Told, Announced
  \* A step that changes neither state nor event of a clock.
  <1>7. ASSUME me.pc # "publish", UNCHANGED <<last, pub>>,
               NEW pc, NEW s, NEW node, NEW aux, NEW ev,
               thr' = [thr EXCEPT ![t] = Task(pc, me.cfg, ev, s, node, aux)],
               pc \in Publishing => ev = me.ev /\ s = now,
               pc # "store",
               pc = "set" => last[<<me.cfg, E1>>] = HOLDOVER
        PROVE  QuietInv'
    <2> DEFINE k == Task(pc, me.cfg, ev, s, node, aux)
    <2>1. k.pc = pc /\ k.cfg = me.cfg /\ k.ev = ev /\ k.state = s
      BY TaskFields
    <2>2. thr' = [thr EXCEPT ![t] = k]
      BY <1>7
    <2> HIDE DEF k
    <2>3. thr'[t] = k /\ \A x \in Thread \ {t} : Rests(x)'
      BY <1>3, <2>2
    <2>4. Doing(t)'
      BY <1>7, <2>1, <2>3 DEF Doing
    <2>5. QED
      BY <1>1, <1>6, <1>7, <2>3, <2>4, QuietAlone
  <1>8. ASSUME me.pc # "publish", UNCHANGED <<last, pub>>, Finish(t) PROVE QuietInv'
    BY <1>1, <1>6, <1>8, FinishQuiet
  <1>9. ASSUME me.pc \in {"node", "nodepub"}, UNCHANGED <<last, pub>>, NEW pc \in {"nodepub", "update"},
               NEW node, thr' = [thr EXCEPT ![t] = Task(pc, me.cfg, me.ev, me.state, node, me.aux)]
        PROVE  QuietInv'
    <2>1. me.state = now
      BY <1>0, <1>9 DEF Doing, Publishing
    <2> DEFINE ev == me.ev
               s == me.state
               aux == me.aux
    <2>2. thr' = [thr EXCEPT ![t] = Task(pc, me.cfg, ev, s, node, aux)] /\ ev = me.ev /\ s = now
      BY <1>9, <2>1
    <2> HIDE DEF ev, s, aux
    <2>3. me.pc # "publish" /\ pc # "store" /\ pc # "set"
      BY <1>9
    <2>4. UNCHANGED <<last, pub>>
      BY <1>9
    <2>5. QED
      BY <1>7, <2>2, <2>3, <2>4
  <1>11. CASE Publish(t)
    <2>1. /\ me.pc = "publish" /\ UNCHANGED last
          /\ pub' = [pub EXCEPT ![<<me.cfg, me.ev>>] = me.state]
          /\ thr' = [thr EXCEPT ![t] = Task("node", me.cfg, me.ev, me.state, NoState, me.aux)]
      BY <1>11 DEF Publish
    <2>2. me.state = now
      BY <1>0, <2>1 DEF Doing, Publishing
    <2>3. \A c \in Configs : E1Told(c)'
      <3> SUFFICES ASSUME NEW c \in Configs PROVE E1Told(c)'
        OBVIOUS
      <3>1. CASE me.cfg = c /\ me.ev = E1
        BY <1>0, <1>2, <2>1, <2>2, <3>1 DEF E1Told, Announced
      <3>2. CASE ~(me.cfg = c /\ me.ev = E1)
        <4>1. pub'[<<c, E1>>] = pub[<<c, E1>>]
          BY <1>0, <1>2, <2>1, <3>2
        <4>2. E1Told(c)
          BY <1>5, <3>2 DEF Telling
        <4>3. QED
          BY <2>1, <4>1, <4>2 DEF E1Told, Announced
      <3>3. QED
        BY <3>1, <3>2
    <2>4. /\ thr'[t] = Task("node", me.cfg, me.ev, me.state, NoState, me.aux)
          /\ \A x \in Thread \ {t} : Rests(x)'
      BY <1>3, <2>1
    <2>5. thr'[t].pc = "node" /\ thr'[t].cfg = me.cfg /\ thr'[t].ev = me.ev /\ thr'[t].state = me.state
      BY <2>4, TaskFields
    <2>6. Doing(t)'
      BY <2>1, <2>2, <2>5 DEF Doing
    <2>7. QED
      BY <1>1, <2>3, <2>4, <2>6, QuietAlone
  <1>12. CASE CompareNode(t)
    <2>1. me.pc = "node" /\ UNCHANGED <<last, pub>>
      BY <1>12 DEF CompareNode
    <2>3. CASE GetNodeSyncState(me.state) = overall
      BY <1>8, <1>12, <2>1, <2>3 DEF CompareNode
    <2>4. CASE GetNodeSyncState(me.state) # overall
      <3>1. thr' = [thr EXCEPT ![t] = Task("nodepub", me.cfg, me.ev, me.state,
                                            GetNodeSyncState(me.state), me.aux)]
        BY <1>12, <2>4 DEF CompareNode
      <3>2. QED
        BY <1>9, <2>1, <3>1
    <2>5. QED
      BY <2>3, <2>4
  <1>13. CASE PublishNode(t)
    <2>1. /\ me.pc = "nodepub" /\ UNCHANGED <<last, pub>>
          /\ thr' = [thr EXCEPT ![t] = Task("update", me.cfg, me.ev, me.state, me.node, me.aux)]
      BY <1>13 DEF PublishNode
    <2>2. QED
      BY <1>9, <2>1
  <1>14. CASE UpdateSyncState(t)
    BY <1>8, <1>14 DEF UpdateSyncState
  <1>15. CASE t \in Slots /\ Check(t)
    <2>1. me.pc = "check" /\ UNCHANGED <<last, pub>>
      BY <1>15 DEF Check
    <2>2. CASE last[<<me.cfg, E1>>] = HOLDOVER /\ aliasKnown[me.cfg]
      <3>1. thr' = [thr EXCEPT ![t] = Task("set", me.cfg, E1, FREERUN, NoState, "none")]
        BY <1>0, <1>15, <2>2 DEF Check
      <3>2. "set" \notin Publishing
        BY DEF Publishing
      <3>3. QED
        BY <1>7, <2>1, <2>2, <3>1, <3>2
    <2>3. CASE ~(last[<<me.cfg, E1>>] = HOLDOVER /\ aliasKnown[me.cfg])
      <3>1. thr' = [thr EXCEPT ![t] = Idle]
        BY <1>0, <1>15, <2>3 DEF Check
      <3>2. thr'[t] = Idle /\ \A x \in Thread \ {t} : Rests(x)'
        BY <1>3, <3>1
      <3>3. Doing(t)'
        BY <3>2, IdleTask DEF Doing, Publishing
      <3>4. QED
        BY <1>1, <1>6, <2>1, <3>2, <3>3, QuietAlone
    <2>4. QED
      BY <2>2, <2>3
  <1>16. CASE t \in Slots /\ Set(t)
    <2>1. /\ me.pc = "set" /\ UNCHANGED pub
          /\ last' = [last EXCEPT ![<<me.cfg, E1>>] = FREERUN]
          /\ thr' = [thr EXCEPT ![t] = Task("publish", me.cfg, E1, FREERUN, NoState, "none")]
      BY <1>0, <1>16 DEF Set
    <2>2. /\ thr'[t] = Task("publish", me.cfg, E1, FREERUN, NoState, "none")
          /\ \A x \in Thread \ {t} : Rests(x)'
      BY <1>3, <2>1
    <2>3. thr'[t].pc = "publish" /\ thr'[t].cfg = me.cfg /\ thr'[t].ev = E1 /\ thr'[t].state = FREERUN
      BY <2>2, TaskFields
    <2>4. Doing(t)'
      BY <1>0, <1>2, <2>1, <2>3 DEF Doing
    <2>5. \A c \in Configs : c # me.cfg => last'[<<c, E1>>] = last[<<c, E1>>]
      BY <1>0, <1>2, <2>1
    <2>6. \A c \in Configs : E1Told(c)' \/ Telling(t, c)'
      BY <1>5, <2>1, <2>3, <2>5 DEF Telling, E1Told, Announced
    <2>7. QED
      BY <1>1, <2>2, <2>4, <2>6, QuietAlone
  <1>17. QED
    BY <1>11, <1>12, <1>13, <1>14, <1>15, <1>16

\* A timer elapses: the goroutine has read nothing yet.
LEMMA ExpireQuiet ==
    ASSUME IInv, QuietInv, NEW s \in Slots, Expire(s)
    PROVE  QuietInv'
  <1>0. s \in Thread /\ thr \in [Thread -> TaskType]
    BY DEF Thread, IInv, Core
  <1>1. /\ thr' = [thr EXCEPT ![s] = Task("check", thr[s].cfg, E1, NoState, NoState, "none")]
        /\ Rests(s) /\ UNCHANGED <<last, pub>> /\ Tracked
    BY <1>0 DEF Expire, Rests, statVars
  <1>2. /\ thr'[s] = Task("check", thr[s].cfg, E1, NoState, NoState, "none")
        /\ \A x \in Thread \ {s} : thr'[x] = thr[x]
    BY <1>0, <1>1
  <1>3. thr'[s].pc = "check"
    BY <1>2, TaskFields
  <1>4. Doing(s)' /\ thr'[s].pc \notin Publishing
    BY <1>3 DEF Doing, Publishing
  <1>5. QED
    BY <1>0, <1>1, <1>2, <1>4, QuietBegins

\* All threads rest, and no state is known.
Blank == (\A t \in Thread : thr[t] = Idle) /\ (\A k \in Clock : last[k] = NoState)

LEMMA BlankQuiet == Blank => QuietInv
  <1> SUFFICES ASSUME Blank PROVE QuietInv
    OBVIOUS
  <1>1. \A t \in Thread : thr[t].pc = "idle"
    BY IdleTask DEF Blank
  <1>2. Solo
    BY <1>1 DEF Solo, Busy
  <1>3. \A t \in Thread : Doing(t)
    BY <1>1 DEF Doing, Publishing
  <1>4. \A c \in Configs : E1Told(c)
    BY DEF Blank, E1Told, Announced, Clock, EventType, E1
  <1>5. QED
    BY <1>2, <1>3, <1>4 DEF QuietInv

LEMMA BlankQuietNext == Blank' => QuietInv'
  BY BlankQuiet, PTL

\* Every step keeps what holds while no two threads have worked at once.
LEMMA NextQuiet ==
    ASSUME IInv, QuietInv, [Next]_vars
    PROVE  QuietInv'
  <1>1. CASE UNCHANGED vars
    BY <1>1 DEF vars, statVars, QuietInv, Solo, Busy, Doing, E1Told, Announced, Telling
  <1>2. CASE Line
    BY <1>2, LineQuiet
  <1>3. ASSUME NEW t \in Thread, Proceed(t) PROVE QuietInv'
    <2>1. Tracked
      BY <1>3 DEF Proceed, Store, Publish, CompareNode, PublishNode, UpdateSyncState, Check, Set
    <2>2. CASE disturbed
      <3>1. disturbed'
        BY <2>1, <2>2 DEF Tracked
      <3>2. QED
        BY <3>1 DEF QuietInv
    <2>3. CASE ~disturbed
      <3>1. CASE t = Log /\ Store
        BY <2>3, <3>1, StoreQuiet
      <3>2. CASE ~(t = Log /\ Store)
        BY <1>3, <2>3, <3>2, ProceedQuiet DEF Proceed
      <3>3. QED
        BY <3>1, <3>2
    <2>4. QED
      BY <2>2, <2>3
  <1>4. ASSUME NEW s \in Slots, Expire(s) PROVE QuietInv'
    BY <1>4, ExpireQuiet
  <1>5. CASE Restart
    BY <1>5, BlankQuietNext DEF Restart, Blank
  <1>6. QED
    BY <1>1, <1>2, <1>3, <1>4, <1>5 DEF Next

LEMMA SpecQuiet == Spec => []QuietInv
  <1>1. Init => QuietInv
    BY BlankQuiet DEF Init, Blank
  <1>2. IInv /\ QuietInv /\ [Next]_vars => QuietInv'
    BY NextQuiet
  <1>3. QED
    BY <1>1, <1>2, SpecIInv, PTL DEF Spec

\* GenPTPEvent, SetLastSyncState and handleHoldOverState: as long as no two
\* threads have worked at once, the last E1 event carries the remembered state
\* when all threads rest, but for a FREERUN left to the holdover timer.
THEOREM E1AlwaysAnnounced == Spec => []E1Announced
  <1>1. QuietInv => E1Announced
    <2> SUFFICES ASSUME QuietInv, Busy = {}, ~disturbed, NEW c \in Configs PROVE E1Told(c)
      BY DEF E1Announced, Quiescent, E1Told
    <2>1. \A t \in Thread : ~Telling(t, c)
      BY DEF Busy, Telling
    <2>2. QED
      BY <2>1 DEF QuietInv
  <1>2. QED
    BY <1>1, SpecQuiet, PTL

\* Who changes a remembered state, a restart aside: SetLastSyncState, called by
\* GenPTPEvent or by a holdover goroutine whose timeout has elapsed.
LEMMA LastChanges ==
    ASSUME IInv, [Next]_vars, NEW c \in Configs, NEW ev \in EventType,
           last'[<<c, ev>>] # last[<<c, ev>>], last'[<<c, ev>>] # NoState
    PROVE  /\ Tracked
           /\ \/ /\ thr[Log].pc = "store" /\ thr[Log].cfg = c /\ thr[Log].ev = ev
                 /\ last'[<<c, ev>>] = thr[Log].state
              \/ \E s \in Slots : thr[s].pc = "set" /\ thr[s].cfg = c /\ ev = E1
  <1> DEFINE k == <<c, ev>>
  <1>0. k \in Clock /\ last \in [Clock -> StateOrNone] /\ last' # last
    BY DEF Clock, IInv, Values
  <1>1. ~UNCHANGED vars /\ ~Line /\ ~Restart /\ \A s \in Slots : ~Expire(s)
    <2>1. ~Line
      BY <1>0 DEF Line, MasterOffsetLine, SummaryLine, ClockRealTimeLine, UndisciplinedLine,
                  ChronydLine, PortSlaveLine, PortRoleLine, PortFaultLine, ProcessDownLine
    <2>2. ~Restart
      BY <1>0 DEF Restart
    <2>3. QED
      BY <1>0, <2>1, <2>2 DEF vars, Expire
  <1>2. PICK t \in Thread : Proceed(t)
    BY <1>1 DEF Next
  <1>3. CASE t = Log /\ Store
    <2>1. /\ Tracked /\ thr[Log].pc = "store"
          /\ last' = [last EXCEPT ![<<thr[Log].cfg, thr[Log].ev>>] = thr[Log].state]
      BY <1>3 DEF Store
    <2>2. k = <<thr[Log].cfg, thr[Log].ev>> /\ last'[k] = thr[Log].state
      BY <1>0, <2>1
    <2>3. QED
      BY <2>1, <2>2
  <1>4. CASE t \in Slots /\ Set(t)
    <2>1. /\ Tracked /\ thr[t].pc = "set" /\ last' = [last EXCEPT ![<<thr[t].cfg, E1>>] = FREERUN]
      BY <1>4 DEF Set
    <2>2. k = <<thr[t].cfg, E1>>
      BY <1>0, <2>1
    <2>3. QED
      BY <1>4, <2>1, <2>2
  <1>5. QED
    BY <1>0, <1>2, <1>3, <1>4 DEF Proceed, Publish, CompareNode, PublishNode, UpdateSyncState, Check

\* handleHoldOverState: a timer that expires late never takes E1 out of LOCKED,
\* unless two threads have worked at once.
THEOREM ExpiryAlwaysHarmless == Spec => ExpiryHarmless
  <1> DEFINE Harmless ==
        \A c \in Configs :
            /\ last[<<c, E1>>] = LOCKED
            /\ last'[<<c, E1>>] = FREERUN
            /\ ~disturbed'
            => thr[Log].pc = "store"
  <1>1. IInv /\ QuietInv /\ [Next]_vars => Harmless
    <2> SUFFICES ASSUME IInv, QuietInv, [Next]_vars, NEW c \in Configs, ~disturbed',
                        last[<<c, E1>>] = LOCKED, last'[<<c, E1>>] = FREERUN
                 PROVE  thr[Log].pc = "store"
      OBVIOUS
    <2>0. LOCKED # FREERUN /\ FREERUN # NoState /\ LOCKED # HOLDOVER /\ E1 \in EventType
      BY DEF LOCKED, FREERUN, NoState, HOLDOVER, E1, EventType
    <2>1. /\ Tracked
          /\ \/ thr[Log].pc = "store"
             \/ \E s \in Slots : thr[s].pc = "set" /\ thr[s].cfg = c
      BY <2>0, LastChanges
    <2>2. ASSUME NEW s \in Slots, thr[s].pc = "set", thr[s].cfg = c PROVE FALSE
      <3>1. Doing(s)
        BY <2>1, TrackedSolo DEF QuietInv, Thread
      <3>2. QED
        BY <2>0, <2>2, <3>1 DEF Doing
    <2>3. QED
      BY <2>1, <2>2
  <1> HIDE DEF Harmless
  <1>2. Spec => [][Harmless]_vars
    BY <1>1, SpecIInv, SpecQuiet, PTL DEF Spec
  <1>3. QED
    BY <1>2 DEF ExpiryHarmless, Harmless

\* The phc2sys branch of ExtractMetrics: E3 becomes LOCKED on a phc2sys sample
\* only along with E1, unless two threads have worked at once.
THEOREM OsClockAlwaysFollowsE1 == Spec => OsClockFollowsE1
  <1> DEFINE Follows ==
        \A c \in Configs \ Chronyd :
            /\ last'[<<c, E3>>] = LOCKED
            /\ last[<<c, E3>>] # LOCKED
            /\ ~disturbed'
            => last[<<c, E1>>] \in {LOCKED, NoState}
  <1>1. IInv /\ QuietInv /\ [Next]_vars => Follows
    <2> SUFFICES ASSUME IInv, QuietInv, [Next]_vars, NEW c \in Configs \ Chronyd, ~disturbed',
                        last'[<<c, E3>>] = LOCKED, last[<<c, E3>>] # LOCKED
                 PROVE  last[<<c, E1>>] \in {LOCKED, NoState}
      OBVIOUS
    <2>0. LOCKED # NoState /\ E1 # E3 /\ E3 \in EventType /\ Log \in Thread
      BY DEF LOCKED, NoState, E1, E3, PtpStateChange, OsClockSyncStateChange, EventType, Thread
    <2>1. /\ Tracked /\ thr[Log].pc = "store" /\ thr[Log].cfg = c /\ thr[Log].ev = E3
          /\ thr[Log].state = LOCKED
      BY <2>0, LastChanges
    <2>2. Doing(Log)
      BY <2>0, <2>1, TrackedSolo DEF QuietInv
    <2>3. QED
      BY <2>1, <2>2 DEF Doing
  <1> HIDE DEF Follows
  <1>2. Spec => [][Follows]_vars
    BY <1>1, SpecIInv, SpecQuiet, PTL DEF Spec
  <1>3. QED
    BY <1>2 DEF OsClockFollowsE1, Follows

-----------------------------------------------------------------------------
\* A goroutine past its timeout was waiting, or past it, before the step.
LEMMA ExpiryShape ==
    ASSUME IInv, Next, NEW s \in Slots, thr'[s].pc \in {"check", "set"}
    PROVE  thr'[s] = thr[s] \/ (thr[s].pc \in {"waiting", "check"} /\ thr'[s].cfg = thr[s].cfg)
  <1>0. Log \in Thread /\ s \in Thread /\ s # Log /\ \A x \in Slots : x \in Thread
    BY ManagerAssumption DEF Thread
  <1>1. thr \in [Thread -> TaskType] /\ Idle.pc = "idle"
    BY IdleTask DEF IInv, Core
  <1>2. ASSUME NEW t \in Thread, t # s, NEW k, thr' = [thr EXCEPT ![t] = k] PROVE thr'[s] = thr[s]
    BY <1>0, <1>1, <1>2
  <1>3. ASSUME NEW t \in Thread, thr[t].pc # "idle", Finish(t) PROVE thr'[s] = thr[s]
    <2>1. CASE t = s
      BY <1>0, <1>1, <1>3, <2>1, FinishShape
    <2>2. CASE t # s
      BY <1>0, <1>1, <1>3, <2>2, FinishShape
    <2>3. QED
      BY <2>1, <2>2
  <1>4. CASE Line
    <2>1. UNCHANGED thr \/ \E k : thr' = [thr EXCEPT ![Log] = k]
      BY <1>4 DEF Line, MasterOffsetLine, SummaryLine, ClockRealTimeLine, UndisciplinedLine,
         ChronydLine, PortSlaveLine, PortRoleLine, PortFaultLine, ProcessDownLine, Handle
    <2>2. QED
      BY <1>0, <1>2, <2>1
  <1>5. CASE Store
    <2>1. CASE thr[Log].aux = "none"
      BY <1>0, <1>3, <1>5, <2>1 DEF Store
    <2>2. CASE thr[Log].aux = "cancel"
      BY <1>0, <1>1, <1>5, <2>2 DEF Store, SafeClose
    <2>3. CASE thr[Log].aux \notin {"none", "cancel"}
      BY <1>0, <1>2, <1>5, <2>3 DEF Store
    <2>4. QED
      BY <2>1, <2>2, <2>3
  <1>6. ASSUME NEW t \in Thread, Proceed(t), ~Store
        PROVE  thr'[s] = thr[s] \/ (thr[s].pc = "check" /\ thr'[s].cfg = thr[s].cfg)
    <2>1. ASSUME NEW pc, NEW c, NEW ev, NEW st, NEW node, NEW aux, pc # "check", pc # "set",
                 thr' = [thr EXCEPT ![t] = Task(pc, c, ev, st, node, aux)]
          PROVE  thr'[s] = thr[s]
      <3>1. CASE t = s
        <4>1. thr'[s] = Task(pc, c, ev, st, node, aux)
          BY <1>0, <1>1, <2>1, <3>1
        <4>2. QED
          BY <2>1, <4>1, TaskFields
      <3>2. CASE t # s
        BY <1>2, <2>1, <3>2
      <3>3. QED
        BY <3>1, <3>2
    <2>2. CASE Publish(t)
      BY <2>1, <2>2 DEF Publish
    <2>3. CASE CompareNode(t)
      <3>1. CASE GetNodeSyncState(thr[t].state) = overall
        BY <1>3, <2>3, <3>1 DEF CompareNode
      <3>2. CASE GetNodeSyncState(thr[t].state) # overall
        BY <2>1, <2>3, <3>2 DEF CompareNode
      <3>3. QED
        BY <3>1, <3>2
    <2>4. CASE PublishNode(t)
      BY <2>1, <2>4 DEF PublishNode
    <2>5. CASE UpdateSyncState(t)
      BY <1>3, <2>5 DEF UpdateSyncState
    <2>6. CASE Check(t)
      <3>1. thr[t].pc = "check" /\
            \/ thr' = [thr EXCEPT ![t] = Task("set", thr[t].cfg, E1, FREERUN, NoState, "none")]
            \/ thr' = [thr EXCEPT ![t] = Idle]
        BY <1>1, <2>6 DEF Check
      <3>2. CASE t = s
        <4>1. thr'[s] \in {Task("set", thr[s].cfg, E1, FREERUN, NoState, "none"), Idle}
          BY <1>0, <1>1, <3>1, <3>2
        <4>2. QED
          BY <1>1, <3>1, <3>2, <4>1, TaskFields
      <3>3. QED
        BY <1>2, <3>1, <3>2
    <2>7. CASE Set(t)
      <3>1. thr' = [thr EXCEPT ![t] = Task("publish", thr[t].cfg, E1, FREERUN, NoState, "none")]
        BY <1>1, <2>7 DEF Set
      <3>2. QED
        BY <2>1, <3>1
    <2>8. QED
      BY <1>6, <2>2, <2>3, <2>4, <2>5, <2>6, <2>7 DEF Proceed
  <1>7. ASSUME NEW x \in Slots, Expire(x)
        PROVE  thr'[s] = thr[s] \/ (thr[s].pc = "waiting" /\ thr'[s].cfg = thr[s].cfg)
    <2>1. /\ thr[x].pc = "waiting"
          /\ thr' = [thr EXCEPT ![x] = Task("check", thr[x].cfg, E1, NoState, NoState, "none")]
      BY <1>0, <1>1, <1>7 DEF Expire
    <2>2. CASE x = s
      <3>1. thr'[s] = Task("check", thr[s].cfg, E1, NoState, NoState, "none")
        BY <1>0, <1>1, <2>1, <2>2
      <3>2. QED
        BY <2>1, <2>2, <3>1, TaskFields
    <2>3. QED
      BY <1>0, <1>2, <2>1, <2>2
  <1>8. ~Restart
    BY <1>0, <1>1 DEF Restart
  <1>9. QED
    BY <1>4, <1>5, <1>6, <1>7, <1>8 DEF Next

\* Two threads at once are never forgotten.
LEMMA StaysDisturbed == [Next]_vars /\ ~disturbed' => ~disturbed
  <1> SUFFICES ASSUME [Next]_vars, ~disturbed' PROVE ~disturbed
    OBVIOUS
  <1>1. CASE Tracked
    BY <1>1, TrackedSolo
  <1>2. CASE Restart
    <2>1. ~(disturbed \/ Busy # {})
      BY <1>2, Zenon DEF Restart
    <2>2. QED
      BY <2>1
  <1>3. CASE UNCHANGED vars
    BY <1>3 DEF vars
  <1>4. Line => Tracked
    BY DEF Line, MasterOffsetLine, SummaryLine, ClockRealTimeLine, UndisciplinedLine,
           ChronydLine, PortSlaveLine, PortRoleLine, PortFaultLine, ProcessDownLine
  <1>5. \A t \in Thread : Proceed(t) => Tracked
    BY DEF Proceed, Store, Publish, CompareNode, PublishNode, UpdateSyncState, Check, Set
  <1>6. \A s \in Slots : Expire(s) => Tracked
    BY DEF Expire
  <1>7. QED
    BY <1>1, <1>2, <1>3, <1>4, <1>5, <1>6 DEF Next

\* While one goroutine is past its timeout no other waits for the same holdover,
\* where the profile has a threshold entry.
TimeInv ==
    ~disturbed =>
        \A x, y \in Slots :
            ~ /\ thr[x].pc \in {"check", "set"}
              /\ thr[y].pc = "waiting"
              /\ thr[x].cfg = thr[y].cfg
              /\ thr[x].cfg \in Loaded

LEMMA TimeKept ==
    ASSUME IInv, TimerInv, QuietInv, TimeInv, [Next]_vars
    PROVE  TimeInv'
  <1> SUFFICES ASSUME ~disturbed', NEW x \in Slots, NEW y \in Slots,
                      thr'[x].pc \in {"check", "set"}, thr'[y].pc = "waiting", thr'[x].cfg = thr'[y].cfg,
                      thr'[x].cfg \in Loaded
               PROVE  FALSE
    BY DEF TimeInv
  <1>1. ~disturbed
    BY StaysDisturbed
  <1>2. Next
    <2>1. ~UNCHANGED vars
      BY <1>1 DEF vars, TimeInv
    <2>2. QED
      BY <2>1
  <1>3. thr'[x] = thr[x] \/ (thr[x].pc \in {"waiting", "check"} /\ thr'[x].cfg = thr[x].cfg)
    BY <1>2, ExpiryShape
  <1>4. CASE NoNewTimer
    <2>1. thr'[y] = thr[y]
      BY <1>4 DEF NoNewTimer
    <2>2. /\ x # y /\ thr[x].cfg = thr[y].cfg /\ thr[x].cfg \in Loaded
          /\ thr[x].pc \in {"waiting", "check", "set"}
      BY <1>3, <2>1
    <2>3. QED
      BY <1>1, <2>1, <2>2 DEF TimerInv, TimeInv
  <1>5. CASE NewTimer
    <2>1. thr[Log].pc # "idle" /\ Log \in Thread /\ x \in Thread /\ x # Log
      BY <1>5, ManagerAssumption DEF NewTimer, Thread
    <2>2. Log \in Busy
      BY <2>1 DEF Busy, IInv, Core, Programs
    <2>3. x \notin Busy
      BY <1>1, <2>1, <2>2 DEF QuietInv, Solo
    <2>4. thr[x].pc = "waiting" /\ thr'[x] # thr[x]
      BY <1>3, <2>1, <2>3 DEF Busy
    <2>5. PICK c \in Configs : StartHoldoverTimer(c) /\ \E s \in Slots : thr[s].pc = "idle"
      BY <1>5 DEF NewTimer
    <2>6. PICK th \in Threshold(c) :
                 /\ thr'[FreeSlot] = Task("waiting", c, E1, NoState, NoState, th)
                 /\ \A s \in Slots \ {FreeSlot} : thr'[s] = IF Waits(s, th) THEN Idle ELSE thr[s]
      BY <2>5, TimerStarts
    <2>7. thr'[FreeSlot].pc = "waiting"
      BY <2>6, TaskFields
    <2>8. QED
      BY <2>4, <2>6, <2>7, IdleTask
  <1>6. QED
    BY <1>2, <1>4, <1>5, NextTimers

\* handleHoldOverState: provided every profile has a threshold entry, no expiry is
\* about to end a holdover whose own timer is still running, unless two threads
\* have worked at once.
THEOREM HoldoverAlwaysRunsItsTime ==
    ASSUME Loaded = Configs
    PROVE  Spec => []HoldoverRunsItsTime
  <1>1. Init => TimeInv
    <2> SUFFICES ASSUME Init PROVE TimeInv
      OBVIOUS
    <2>1. \A s \in Slots : thr[s] = Idle
      BY DEF Init, Thread
    <2>2. QED
      BY <2>1, IdleTask DEF TimeInv
  <1>2. IInv /\ TimerInv /\ QuietInv /\ TimeInv /\ [Next]_vars => TimeInv'
    BY TimeKept
  <1>3. IInv /\ TimeInv => HoldoverRunsItsTime
    BY DEF TimeInv, HoldoverRunsItsTime, IInv, Core, Programs
  <1>4. QED
    BY <1>1, <1>2, <1>3, SpecIInv, SpecTimers, SpecQuiet, PTL DEF Spec

-----------------------------------------------------------------------------
(***************************************************************************)
(* The node state.  GetNodeSyncState leaves out the phc2sys stats as soon  *)
(* as chronyd has reported, but always counts the state it is asked with:  *)
(* that of the clock whose event went out just before.                     *)
(***************************************************************************)

\* What GetNodeSyncState answers the last publisher; whether any clock counts.
NodeState == Worst({last[k] : k \in Counted \cup told})

Known == Counted # {}

LEMMA NodeStateIs ==
    ASSUME NEW k \in Clock, told = {k}
    PROVE  GetNodeSyncState(last[k]) = NodeState
  <1>1. {last[x] : x \in Counted} \cup {last[k]} = {last[x] : x \in Counted \cup told}
    OBVIOUS
  <1>2. QED
    BY <1>1 DEF GetNodeSyncState, NodeState

\* While no two threads have worked at once: a node event in the making carries
\* the worst state, the state remembered is the one published, and it is the
\* worst one once all clocks are announced.
NodeInv ==
    ~disturbed =>
        /\ \A t \in Thread : thr[t].pc = "node" => told = {<<thr[t].cfg, thr[t].ev>>}
        /\ \A t \in Thread : thr[t].pc \in {"nodepub", "update"} => thr[t].node = NodeState
        /\ \A t \in Thread : thr[t].pc = "update" => nodePub = thr[t].node
        /\ (\A t \in Thread : thr[t].pc # "update") => nodePub = overall
        /\ /\ \A t \in Thread : thr[t].pc \notin Publishing
           /\ Known
           /\ \A c \in Configs : Announced(c, E1)
           => overall = NodeState

\* The same, when thread t is the only one that may be working.
NodeOf(t) ==
    /\ thr[t].pc = "node" => told = {<<thr[t].cfg, thr[t].ev>>}
    /\ thr[t].pc \in {"nodepub", "update"} => thr[t].node = NodeState
    /\ thr[t].pc = "update" => nodePub = thr[t].node
    /\ thr[t].pc # "update" => nodePub = overall
    /\ thr[t].pc \notin Publishing /\ Known /\ (\A c \in Configs : Announced(c, E1)) =>
          overall = NodeState

LEMMA NodeAlone ==
    ASSUME NEW t \in Thread, \A x \in Thread \ {t} : Rests(x)', NodeOf(t)'
    PROVE  NodeInv'
  <1>1. \A x \in Thread \ {t} : thr'[x].pc \notin Publishing
    BY DEF Rests, Publishing
  <1>2. \A x \in Thread \ {t} : thr'[x].pc \notin {"node", "nodepub", "update"}
    BY DEF Rests
  <1>3. QED
    BY <1>1, <1>2 DEF NodeOf, NodeInv

LEMMA NodeOfAlone ==
    ASSUME NodeInv, ~disturbed, NEW t \in Thread, \A x \in Thread \ {t} : Rests(x)
    PROVE  NodeOf(t)
  <1>1. \A x \in Thread \ {t} : thr[x].pc \notin Publishing /\ thr[x].pc # "update"
    BY DEF Rests, Publishing
  <1>2. QED
    BY <1>1 DEF NodeOf, NodeInv

\* A step that leaves states, events and publications alone.
LEMMA NodeSame ==
    ASSUME NodeInv, ~disturbed, UNCHANGED <<last, pub, overall, nodePub, told>>,
           \A x \in Thread : thr'[x] = thr[x] \/ (thr[x].pc \notin Publishing /\ thr'[x].pc \notin Publishing)
    PROVE  NodeInv'
  <1>1. NodeState' = NodeState /\ Known' = Known /\ \A c \in Configs : Announced(c, E1)' <=> Announced(c, E1)
    BY DEF NodeState, Known, Counted, ChronydActiveAsE3, Announced
  <1>2. \A x \in Thread : thr'[x].pc \in Publishing => thr'[x] = thr[x]
    OBVIOUS
  <1>3. \A x \in Thread : thr'[x].pc \in {"node", "nodepub", "update"} => thr'[x] = thr[x]
    BY <1>2 DEF Publishing
  <1>4. \A x \in Thread : thr[x].pc = "update" => thr'[x].pc = "update"
    BY DEF Publishing
  <1>5. \A x \in Thread : thr[x].pc \in Publishing => thr'[x].pc \in Publishing
    OBVIOUS
  <1>6. QED
    BY <1>1, <1>2, <1>3, <1>4, <1>5 DEF NodeInv

\* Log lines and timeouts publish nothing at once.
LEMMA LineNode ==
    ASSUME IInv, NodeInv, ~disturbed, Line
    PROVE  NodeInv'
  <1>0. Log \in Thread /\ thr \in [Thread -> TaskType] /\ Idle.pc = "idle"
    BY IdleTask DEF Thread, IInv, Core
  <1>1. thr[Log].pc = "idle" /\ UNCHANGED <<last, pub, overall, nodePub, told>>
    BY DEF Line, MasterOffsetLine, SummaryLine, ClockRealTimeLine, UndisciplinedLine, ChronydLine,
           PortSlaveLine, PortRoleLine, PortFaultLine, ProcessDownLine, ValidLine, nodeVars
  <1>2. \A x \in Thread \ {Log} : thr'[x] = thr[x]
    <2>1. UNCHANGED thr \/ \E k : thr' = [thr EXCEPT ![Log] = k]
      BY DEF Line, MasterOffsetLine, SummaryLine, ClockRealTimeLine, UndisciplinedLine, ChronydLine,
             PortSlaveLine, PortRoleLine, PortFaultLine, ProcessDownLine, Handle
    <2>2. QED
      BY <1>0, <2>1
  <1>3. thr'[Log].pc \in {"idle", "store"}
    <2>1. ASSUME NEW k, Handle(k), k.pc \in {"idle", "store"} PROVE thr'[Log].pc \in {"idle", "store"}
      BY <1>0, <2>1 DEF Handle
    <2>2. ASSUME NEW c \in Configs, NEW ev \in EventType, NEW s \in SyncState, NEW inRange \in BOOLEAN
          PROVE  GenPTPEvent(c, ev, s, inRange).pc \in {"idle", "store"}
      <3>1. last[<<c, ev>>] \in StateOrNone
        BY DEF IInv, Values, Clock
      <3>2. QED
        BY <1>0, <3>1, GenAsks DEF Asks
    <2>3. /\ E1 \in EventType /\ E3 \in EventType /\ FREERUN \in SyncState /\ LOCKED \in SyncState
          /\ \A x \in Sample : x[1] \in SyncState /\ x[2] \in BOOLEAN
      BY DEF E1, E3, EventType, SyncState, Sample
    <2>4. PICK c \in Configs :
          \/ \E x \in Sample : MasterOffsetLine(c, x[1], x[2])
          \/ SummaryLine(c)
          \/ \E x \in Sample : ClockRealTimeLine(c, x[1], x[2])
          \/ UndisciplinedLine(c)
          \/ \E s \in {LOCKED, FREERUN} : ChronydLine(c, s)
          \/ \E p \in Ports : PortSlaveLine(c, p)
          \/ \E p \in Ports : PortRoleLine(c, p)
          \/ \E p \in Ports : PortFaultLine(c, p)
          \/ \E process \in {"ptp4l", "phc2sys"} : ProcessDownLine(c, process)
      BY DEF Line
    <2>5. ASSUME NEW s \in SyncState PROVE OverallState(s, last[<<c, E1>>]) \in SyncState
      <3>1. last[<<c, E1>>] \in StateOrNone
        BY <2>3 DEF IInv, Values, Clock
      <3>2. QED
        BY <3>1 DEF OverallState, SyncState, StateOrNone, NoState, FREERUN, HOLDOVER, LOCKED
    <2>6. CASE UNCHANGED thr
      BY <1>1, <2>6
    <2>7. ASSUME NEW x \in Sample, MasterOffsetLine(c, x[1], x[2])
          PROVE  UNCHANGED thr \/ thr'[Log].pc \in {"idle", "store"}
      BY <2>1, <2>2, <2>3, <2>7 DEF MasterOffsetLine
    <2>8. ASSUME NEW x \in Sample, ClockRealTimeLine(c, x[1], x[2])
          PROVE  thr'[Log].pc \in {"idle", "store"}
      <3> DEFINE s == OverallState(x[1], last[<<c, E1>>])
      <3>1. s \in SyncState /\ Handle(GenPTPEvent(c, E3, s, x[2]))
        BY <2>3, <2>5, <2>8 DEF ClockRealTimeLine
      <3> HIDE DEF s
      <3>2. QED
        BY <2>1, <2>2, <2>3, <3>1
    <2>9. ASSUME UndisciplinedLine(c) PROVE UNCHANGED thr \/ thr'[Log].pc \in {"idle", "store"}
      BY <2>1, <2>2, <2>3, <2>9 DEF UndisciplinedLine
    <2>10. ASSUME NEW s \in {LOCKED, FREERUN}, ChronydLine(c, s)
           PROVE  UNCHANGED thr \/ thr'[Log].pc \in {"idle", "store"}
      BY <2>1, <2>2, <2>3, <2>10 DEF ChronydLine
    <2>11. ASSUME NEW p \in Ports, PortFaultLine(c, p)
           PROVE  UNCHANGED thr \/ thr'[Log].pc \in {"idle", "store"}
      <3>1. UNCHANGED thr \/ Handle(Task("store", c, E1, HOLDOVER, NoState, "start"))
        BY <2>11 DEF PortFaultLine
      <3>2. Task("store", c, E1, HOLDOVER, NoState, "start").pc = "store"
        BY TaskFields
      <3>3. QED
        BY <1>0, <3>1, <3>2 DEF Handle
    <2>12. ASSUME NEW process \in {"ptp4l", "phc2sys"}, ProcessDownLine(c, process)
           PROVE  thr'[Log].pc \in {"idle", "store"}
      BY <2>1, <2>2, <2>3, <2>12 DEF ProcessDownLine
    <2>13. SummaryLine(c) \/ (\E p \in Ports : PortSlaveLine(c, p) \/ PortRoleLine(c, p)) => UNCHANGED thr
      BY DEF SummaryLine, PortSlaveLine, PortRoleLine
    <2>14. QED
      BY <2>4, <2>6, <2>7, <2>8, <2>9, <2>10, <2>11, <2>12, <2>13
  <1>4. \A x \in Thread : thr'[x] = thr[x] \/ (thr[x].pc \notin Publishing /\ thr'[x].pc \notin Publishing)
    BY <1>1, <1>2, <1>3 DEF Publishing
  <1>5. QED
    BY <1>1, <1>4, NodeSame

\* The end of a call, with the node state remembered.
LEMMA FinishNode ==
    ASSUME IInv, QuietInv, ~disturbed, NEW t \in Thread, ~Rests(t), Finish(t),
           nodePub' = overall',
           Known' /\ (\A c \in Configs : Announced(c, E1)') => overall' = NodeState'
    PROVE  NodeInv'
  <1>1. \A x \in Thread \ {t} : Rests(x)'
    BY FinishShape, OthersRest DEF Rests
  <1>2. thr'[t].pc \in {"idle", "store"}
    <2>1. CASE thr'[t] = Idle
      BY <2>1, IdleTask
    <2>2. ASSUME t = Log, thr'[t] = GenPTPEvent(thr[Log].cfg, E3, FREERUN, FALSE)
          PROVE  thr'[t].pc = "store"
      <3>1. thr[Log].cfg \in Configs /\ E3 \in EventType
        BY <2>2 DEF Rests, IInv, Core, Programs, E3, EventType
      <3> DEFINE c == thr[Log].cfg
      <3>2. c \in Configs /\ thr'[t] = GenPTPEvent(c, E3, FREERUN, FALSE)
        BY <2>2, <3>1
      <3> HIDE DEF c
      <3>3. GenPTPEvent(c, E3, FREERUN, FALSE).pc = "store"
        BY <3>1, <3>2, GenFreerun
      <3>4. QED
        BY <3>2, <3>3
    <2>3. QED
      BY <2>1, <2>2, FinishShape DEF Rests
  <1>3. NodeOf(t)'
    BY <1>2 DEF NodeOf, Publishing
  <1>4. QED
    BY <1>1, <1>3, NodeAlone

\* The steps of a publication.
LEMMA ProceedNode ==
    ASSUME IInv, QuietInv, NodeInv, ~disturbed, NEW t \in Thread, Proceed(t)
    PROVE  NodeInv'
  <1> DEFINE me == thr[t]
  <1>0. /\ thr \in [Thread -> TaskType] /\ last \in [Clock -> StateOrNone]
        /\ pub \in [Clock -> StateOrNone] /\ Doing(t) /\ Log \in Thread /\ Idle.pc = "idle"
    BY IdleTask DEF IInv, Core, Values, QuietInv, Thread
  <1>1. me.pc # "idle" /\ ~Rests(t)
    BY DEF Proceed, Store, Publish, CompareNode, PublishNode, UpdateSyncState, Check, Set, Rests
  <1>2. <<me.cfg, me.ev>> \in Clock /\ me.cfg \in Configs
    BY <1>1, WorkingClock
  <1>3. \A x \in Thread \ {t} : Rests(x)
    BY <1>1 DEF QuietInv, Solo, Busy, Rests
  <1>4. NodeOf(t)
    BY <1>3, NodeOfAlone
  <1>5. ASSUME UNCHANGED <<last, told>> PROVE NodeState' = NodeState /\ Known' = Known
    BY <1>5 DEF NodeState, Known, Counted, ChronydActiveAsE3
  \* The clock's own event, or one to come.
  <1>6. ASSUME \A x \in Thread \ {t} : thr'[x] \in {thr[x], Idle}, thr'[t].pc \in {"publish", "node", "set"},
               me.pc # "update", UNCHANGED <<overall, nodePub>>,
               thr'[t].pc = "node" => told' = {<<thr'[t].cfg, thr'[t].ev>>},
               thr'[t].pc = "set" => me.pc \notin Publishing /\ UNCHANGED <<last, pub, told>>
        PROVE  NodeInv'
    <2>1. \A x \in Thread \ {t} : Rests(x)'
      BY <1>0, <1>3, <1>6 DEF Rests
    <2>2. CASE thr'[t].pc = "set"
      <3>1. NodeState' = NodeState /\ Known' = Known /\ UNCHANGED <<last, pub, overall, nodePub, told>>
        BY <1>5, <1>6, <2>2
      <3>2. (\A c \in Configs : Announced(c, E1)') => (\A c \in Configs : Announced(c, E1))
        BY <3>1 DEF Announced
      <3>3. NodeOf(t)'
        BY <1>4, <1>6, <2>2, <3>1, <3>2 DEF NodeOf
      <3>4. QED
        BY <2>1, <3>3, NodeAlone
    <2>3. CASE thr'[t].pc \in {"publish", "node"}
      <3>1. NodeOf(t)'
        BY <1>4, <1>6, <2>3 DEF NodeOf, Publishing
      <3>2. QED
        BY <2>1, <3>1, NodeAlone
    <2>4. QED
      BY <1>6, <2>2, <2>3
  <1>7. ASSUME NEW pc, NEW c, NEW ev, NEW s, NEW node, NEW aux,
               thr' = [thr EXCEPT ![t] = Task(pc, c, ev, s, node, aux)]
        PROVE  /\ thr'[t].pc = pc /\ thr'[t].node = node
               /\ \A x \in Thread \ {t} : thr'[x] = thr[x]
    <2>1. thr'[t] = Task(pc, c, ev, s, node, aux) /\ \A x \in Thread \ {t} : thr'[x] = thr[x]
      BY <1>0, <1>7
    <2>2. QED
      BY <2>1, TaskFields
  <1>11. CASE t = Log /\ Store
    <2>1. /\ me.pc = "store" /\ UNCHANGED <<pub, overall, nodePub, told>>
          /\ last' = [last EXCEPT ![<<me.cfg, me.ev>>] = me.state]
      BY <1>11 DEF Store, nodeVars
    <2>2. nodePub = overall
      BY <1>4, <2>1 DEF NodeOf
    <2>3. CASE me.aux = "none"
      <3>1. Finish(t)
        BY <1>11, <2>3 DEF Store
      <3>2. CASE me.state = last[<<me.cfg, me.ev>>]
        <4>1. UNCHANGED last
          BY <1>0, <1>2, <2>1, <3>2
        <4>2. \A c \in Configs : Announced(c, E1)' <=> Announced(c, E1)
          BY <2>1, <4>1 DEF Announced
        <4>3. Known /\ (\A c \in Configs : Announced(c, E1)) => overall = NodeState
          BY <1>4, <2>1 DEF NodeOf, Publishing
        <4>4. QED
          BY <1>1, <1>5, <2>1, <2>2, <3>1, <4>1, <4>2, <4>3, FinishNode
      <3>3. CASE me.ev = E1 /\ me.state = FREERUN /\ last[<<me.cfg, me.ev>>] = HOLDOVER
        <4>1. PICK c \in Configs : c = me.cfg
          BY <1>2
        <4>2. E1Told(c)
          BY <1>3, <2>1, AllTold DEF Telling
        <4>3. pub[<<c, E1>>] = HOLDOVER
          BY <3>3, <4>1, <4>2 DEF E1Told, Announced, FREERUN, HOLDOVER, NoState
        <4>4. last'[<<c, E1>>] = FREERUN
          BY <1>0, <1>2, <2>1, <3>3, <4>1
        <4>5. ~Announced(c, E1)'
          BY <2>1, <4>3, <4>4 DEF Announced, FREERUN, HOLDOVER, NoState
        <4>6. QED
          BY <1>1, <2>1, <2>2, <3>1, <4>5, FinishNode
      <3>4. QED
        BY <1>0, <2>1, <2>3, <3>2, <3>3 DEF Doing
    <2>4. CASE me.aux # "none"
      <3>1. \E aux : thr'[t] = Task("publish", me.cfg, me.ev, me.state, NoState, aux)
        BY <1>0, <1>11, <2>4 DEF Store, SafeClose
      <3>2. \A x \in Thread \ {t} : thr'[x] \in {thr[x], Idle}
        BY <1>0, <1>11, <2>4 DEF Store, SafeClose
      <3>3. thr'[t].pc = "publish"
        BY <3>1, TaskFields
      <3>4. QED
        BY <1>6, <2>1, <3>2, <3>3
    <2>5. QED
      BY <2>3, <2>4
  <1>12. CASE Publish(t)
    <2>1. /\ me.pc = "publish" /\ UNCHANGED <<overall, nodePub>> /\ told' = {<<me.cfg, me.ev>>}
          /\ thr' = [thr EXCEPT ![t] = Task("node", me.cfg, me.ev, me.state, NoState, me.aux)]
      BY <1>12 DEF Publish, nodeVars
    <2>2. /\ thr'[t].pc = "node" /\ thr'[t].cfg = me.cfg /\ thr'[t].ev = me.ev
          /\ \A x \in Thread \ {t} : thr'[x] = thr[x]
      <3>1. /\ thr'[t] = Task("node", me.cfg, me.ev, me.state, NoState, me.aux)
            /\ \A x \in Thread \ {t} : thr'[x] = thr[x]
        BY <1>0, <2>1
      <3>2. QED
        BY <3>1, TaskFields
    <2>3. QED
      BY <1>6, <2>1, <2>2
  <1>13. CASE CompareNode(t)
    <2> DEFINE node == GetNodeSyncState(me.state)
    <2>1. me.pc = "node" /\ UNCHANGED <<last, pub, overall, nodePub, told>>
      BY <1>13 DEF CompareNode, nodeVars
    <2>2. node = NodeState
      <3>1. me.state = last[<<me.cfg, me.ev>>] /\ told = {<<me.cfg, me.ev>>}
        BY <1>0, <1>4, <2>1 DEF Doing, Publishing, NodeOf
      <3>2. QED
        BY <1>2, <3>1, NodeStateIs
    <2>3. nodePub = overall
      BY <1>4, <2>1 DEF NodeOf
    <2>4. CASE node = overall
      <3>1. Finish(t)
        BY <1>13, <2>4 DEF CompareNode
      <3>2. QED
        BY <1>1, <1>5, <2>1, <2>2, <2>3, <2>4, <3>1, FinishNode
    <2>5. CASE node # overall
      <3>1. thr' = [thr EXCEPT ![t] = Task("nodepub", me.cfg, me.ev, me.state, node, me.aux)]
        BY <1>13, <2>5 DEF CompareNode
      <3> HIDE DEF node
      <3>2. /\ thr'[t].pc = "nodepub" /\ thr'[t].node = node
            /\ \A x \in Thread \ {t} : thr'[x] = thr[x]
        BY <1>7, <3>1
      <3>3. \A x \in Thread \ {t} : Rests(x)'
        BY <1>3, <3>2 DEF Rests
      <3>4. NodeOf(t)'
        BY <1>5, <2>1, <2>2, <2>3, <3>2 DEF NodeOf, Publishing
      <3>5. QED
        BY <3>3, <3>4, NodeAlone
    <2>6. QED
      BY <2>4, <2>5
  <1>14. CASE PublishNode(t)
    <2>1. /\ me.pc = "nodepub" /\ UNCHANGED <<last, overall, told>> /\ nodePub' = me.node
          /\ thr' = [thr EXCEPT ![t] = Task("update", me.cfg, me.ev, me.state, me.node, me.aux)]
      BY <1>14 DEF PublishNode
    <2>2. /\ thr'[t].pc = "update" /\ thr'[t].node = me.node
          /\ \A x \in Thread \ {t} : thr'[x] = thr[x]
      <3>1. /\ thr'[t] = Task("update", me.cfg, me.ev, me.state, me.node, me.aux)
            /\ \A x \in Thread \ {t} : thr'[x] = thr[x]
        BY <1>0, <2>1
      <3>2. QED
        BY <3>1, TaskFields
    <2>3. \A x \in Thread \ {t} : Rests(x)'
      BY <1>3, <2>2 DEF Rests
    <2>4. NodeOf(t)'
      BY <1>4, <1>5, <2>1, <2>2 DEF NodeOf, Publishing
    <2>5. QED
      BY <2>3, <2>4, NodeAlone
  <1>15. CASE UpdateSyncState(t)
    <2>1. me.pc = "update" /\ UNCHANGED <<last, nodePub, told>> /\ overall' = me.node /\ Finish(t)
      BY <1>15 DEF UpdateSyncState
    <2>2. nodePub = me.node /\ me.node = NodeState
      BY <1>4, <2>1 DEF NodeOf
    <2>3. QED
      BY <1>1, <1>5, <2>1, <2>2, FinishNode
  <1>16. CASE t \in Slots /\ Check(t)
    <2>1. /\ me.pc = "check" /\ UNCHANGED <<last, pub, overall, nodePub, told>>
          /\ \/ thr' = [thr EXCEPT ![t] = Task("set", me.cfg, E1, FREERUN, NoState, "none")]
             \/ thr' = [thr EXCEPT ![t] = Idle]
      BY <1>0, <1>16 DEF Check, nodeVars
    <2>2. thr'[t].pc \in {"set", "idle"} /\ \A x \in Thread \ {t} : thr'[x] = thr[x]
      <3>1. CASE thr' = [thr EXCEPT ![t] = Idle]
        BY <1>0, <3>1
      <3>2. CASE thr' = [thr EXCEPT ![t] = Task("set", me.cfg, E1, FREERUN, NoState, "none")]
        BY <1>7, <3>2
      <3>3. QED
        BY <2>1, <3>1, <3>2
    <2>3. \A x \in Thread : thr'[x] = thr[x] \/ (thr[x].pc \notin Publishing /\ thr'[x].pc \notin Publishing)
      BY <2>1, <2>2 DEF Publishing
    <2>4. QED
      BY <2>1, <2>3, NodeSame
  <1>17. CASE t \in Slots /\ Set(t)
    <2>1. /\ me.pc = "set" /\ UNCHANGED <<overall, nodePub>>
          /\ thr' = [thr EXCEPT ![t] = Task("publish", me.cfg, E1, FREERUN, NoState, "none")]
      BY <1>0, <1>17 DEF Set, nodeVars
    <2>2. thr'[t].pc = "publish" /\ \A x \in Thread \ {t} : thr'[x] = thr[x]
      BY <1>7, <2>1
    <2>3. QED
      BY <1>6, <2>1, <2>2
  <1>18. QED
    BY <1>11, <1>12, <1>13, <1>14, <1>15, <1>16, <1>17 DEF Proceed

LEMMA NextNode ==
    ASSUME IInv, QuietInv, NodeInv, [Next]_vars
    PROVE  NodeInv'
  <1> SUFFICES ASSUME ~disturbed' PROVE NodeInv'
    BY DEF NodeInv
  <1>1. ~disturbed
    BY StaysDisturbed
  <1>2. CASE UNCHANGED vars
    BY <1>1, <1>2, NodeSame DEF vars, nodeVars
  <1>3. CASE Line
    BY <1>1, <1>3, LineNode
  <1>4. ASSUME NEW t \in Thread, Proceed(t) PROVE NodeInv'
    BY <1>1, <1>4, ProceedNode
  <1>5. ASSUME NEW s \in Slots, Expire(s) PROVE NodeInv'
    <2>0. s \in Thread /\ thr \in [Thread -> TaskType]
      BY DEF Thread, IInv, Core
    <2>1. /\ thr[s].pc = "waiting" /\ UNCHANGED <<last, pub, overall, nodePub, told>>
          /\ thr' = [thr EXCEPT ![s] = Task("check", thr[s].cfg, E1, NoState, NoState, "none")]
      BY <1>5, <2>0 DEF Expire, nodeVars
    <2>2. /\ thr'[s] = Task("check", thr[s].cfg, E1, NoState, NoState, "none")
          /\ \A x \in Thread \ {s} : thr'[x] = thr[x]
      BY <2>0, <2>1
    <2>3. thr'[s].pc = "check"
      BY <2>2, TaskFields
    <2>4. \A x \in Thread : thr'[x] = thr[x] \/ (thr[x].pc \notin Publishing /\ thr'[x].pc \notin Publishing)
      BY <2>1, <2>2, <2>3 DEF Publishing
    <2>5. QED
      BY <1>1, <2>1, <2>4, NodeSame
  <1>6. CASE Restart
    <2>1. Busy = {}
      <3>1. ~(disturbed \/ Busy # {})
        BY <1>6, Zenon DEF Restart
      <3>2. QED
        BY <3>1
    <2>2. nodePub = overall
      BY <1>1, <2>1 DEF NodeInv, Busy
    <2>3. nodePub' = overall' /\ ~Known'
      BY <1>6, <2>2 DEF Restart, LoadFromStore, Known, Counted, Clock
    <2>4. \A t \in Thread : thr'[t].pc = "idle"
      BY <1>6, IdleTask DEF Restart
    <2>5. QED
      BY <2>3, <2>4 DEF NodeInv
  <1>7. QED
    BY <1>2, <1>3, <1>4, <1>5, <1>6 DEF Next

\* GetNodeSyncState, PublishEvent and UpdateSyncState: at rest, the node event
\* last published is the state remembered in metrics.json and, once every E1 is
\* announced, the worst state of the clocks that count and of the one that
\* spoke last, unless two threads have worked at once.  Any configurations may
\* be chronyd's.
THEOREM NodeAlwaysWorst == Spec => []NodeIsWorst
  <1>1. Init => NodeInv
    <2> SUFFICES ASSUME Init PROVE NodeInv
      OBVIOUS
    <2>1. \A t \in Thread : thr[t].pc = "idle"
      BY IdleTask DEF Init
    <2>2. ~Known /\ nodePub = overall
      BY DEF Init, Known, Counted
    <2>3. QED
      BY <2>1, <2>2 DEF NodeInv
  <1>2. IInv /\ QuietInv /\ NodeInv /\ [Next]_vars => NodeInv'
    BY NextNode
  <1>3. NodeInv => NodeIsWorst
    <2> SUFFICES ASSUME NodeInv, Busy = {}, ~disturbed PROVE NodeIsWorst
      BY DEF NodeIsWorst, Quiescent
    <2>1. \A t \in Thread : thr[t].pc # "update" /\ thr[t].pc \notin Publishing
      BY DEF Busy, Publishing
    <2>2. QED
      BY <2>1 DEF NodeInv, NodeIsWorst, NodeState, Known
  <1>4. QED
    BY <1>1, <1>2, <1>3, SpecIInv, SpecQuiet, PTL DEF Spec
=============================================================================
