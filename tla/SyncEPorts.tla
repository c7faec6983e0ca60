----------------------------- MODULE SyncEPorts -----------------------------
(***************************************************************************)
(* The synchronous Ethernet lines of synce4l for one device: a line gives  *)
(* either the EEC state or the clock quality of one port.  Every line is   *)
(* published; a GET answers from the ports the device has collected.       *)
(***************************************************************************)
EXTENDS Integers, SyncStates

CONSTANTS
    Ports,   \* the ports of the device
    Levels   \* the quality levels, one byte each: ql and ext_ql

\* No quality yet; the extended level that is sent when the log has none.
Unknown == [ql |-> -1, ext |-> -1]
DefaultExt == 255
Quality == [ql : Levels, ext : Levels \cup {DefaultExt}]

VARIABLES
    ports,       \* the ports the device knows, with what GET reads of them:
                 \* state, quality level, extended level and whether they have
                 \* their name
    eecTold,     \* the state in the last SynceStateChange event of the port
    qualityTold  \* the levels in its last SynceClockQualityChange event

synceVars == <<ports, eecTold, qualityTold>>

Port == [known : BOOLEAN, named : BOOLEAN, state : StateOrNone, ql : Levels \cup {0},
         ext : Levels \cup {0, 10}, extended : BOOLEAN]

PortsTypeOK ==
    /\ ports \in [Ports -> Port]
    /\ eecTold \in [Ports -> StateOrNone]
    /\ qualityTold \in [Ports -> Quality \cup {Unknown}]

\* A PortState with Go's zero values, and no PortState at all.
NewPort == [known |-> TRUE, named |-> FALSE, state |-> NoState, ql |-> 0, ext |-> 0, extended |-> FALSE]
NoPort == [NewPort EXCEPT !.known = FALSE]

SyncEInit ==
    /\ ports = [p \in Ports |-> NoPort]
    /\ eecTold = [p \in Ports |-> NoState]
    /\ qualityTold = [p \in Ports |-> Unknown]

\* The device has no SyncEStats: the line is the first one about any port.
FirstLine == \A p \in Ports : ~ports[p].known

Found(p) == IF ports[p].known THEN ports[p] ELSE NewPort

\* "... eec_state ...": the state of the port.  The port is named only by the
\* first line of the device and by quality lines.
EecLine(p, s) ==
    /\ ports' = [ports EXCEPT ![p] = [Found(p) EXCEPT !.state = s, !.named = @ \/ FirstLine]]
    /\ eecTold' = [eecTold EXCEPT ![p] = s]
    /\ UNCHANGED qualityTold

\* Mutant: the extended flag of an earlier line stays set.
QualityLineKeepsExtended(p, s, ql, extended, ext) ==
    /\ ports' = [ports EXCEPT ![p] =
          [Found(p) EXCEPT !.named = TRUE,
                           !.state = IF FirstLine THEN s ELSE @,
                           !.ql = ql,
                           !.extended = @ \/ extended,
                           !.ext = IF extended THEN ext ELSE IF FirstLine THEN 0 ELSE 10]]
    /\ qualityTold' = [qualityTold EXCEPT ![p] =
          [ql |-> ql, ext |-> IF extended THEN ext ELSE DefaultExt]]
    /\ UNCHANGED eecTold

\* Mutant: the sum that the metrics show is stored as the level.
QualityLineSums(p, s, ql, extended, ext) ==
    /\ ports' = [ports EXCEPT ![p] =
          [Found(p) EXCEPT !.named = TRUE,
                           !.state = IF FirstLine THEN s ELSE @,
                           !.ql = IF extended THEN ql + ext ELSE ql,
                           !.extended = extended,
                           !.ext = IF extended THEN ext ELSE IF FirstLine THEN 0 ELSE 10]]
    /\ qualityTold' = [qualityTold EXCEPT ![p] =
          [ql |-> ql, ext |-> IF extended THEN ext ELSE DefaultExt]]
    /\ UNCHANGED eecTold

\* "... clock_quality ... [ext_ql e] ... ql q": the levels of the port.  The first
\* line of the device also takes the state at its end, which no event tells.
QualityLine(p, s, ql, extended, ext) ==
    /\ ports' = [ports EXCEPT ![p] =
          [Found(p) EXCEPT !.named = TRUE,
                           !.state = IF FirstLine THEN s ELSE @,
                           !.ql = ql,
                           !.extended = extended,
                           !.ext = IF extended THEN ext ELSE IF FirstLine THEN 0 ELSE 10]]
    /\ qualityTold' = [qualityTold EXCEPT ![p] =
          [ql |-> ql, ext |-> IF extended THEN ext ELSE DefaultExt]]
    /\ UNCHANGED eecTold

SyncENext ==
    \/ \E p \in Ports, s \in SyncState : EecLine(p, s)
    \/ \E p \in Ports, s \in SyncState, ql \in Levels, extended \in BOOLEAN, ext \in Levels :
         QualityLine(p, s, ql, extended, ext)

SyncESpec == SyncEInit /\ [][SyncENext]_synceVars

\* getCurrentStatOverrideFn for synce-status/lock-state and clock-quality: every
\* port with a state, every known port with its levels, under the port's name.
PullState(p) == IF ports[p].known /\ ports[p].named THEN ports[p].state ELSE NoState
PullQuality(p) ==
    [ql |-> ports[p].ql, ext |-> IF ports[p].extended THEN ports[p].ext ELSE DefaultExt]

\* A GET answers what the lines have pushed for the port last, whichever order
\* its state and quality lines came in.  (A port that a state line has created
\* after the device's first line is answered without its name until its first
\* quality line: logparser.go:717.)
SyncEPullAgrees ==
    \A p \in Ports :
        /\ eecTold[p] # NoState /\ ports[p].named => PullState(p) = eecTold[p]
        /\ qualityTold[p] # Unknown => PullQuality(p) = qualityTold[p]
=============================================================================
