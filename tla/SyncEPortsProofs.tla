-------------------------- MODULE SyncEPortsProofs --------------------------
(***************************************************************************)
(* Proofs about SyncEPorts for every set of ports and of quality levels.   *)
(***************************************************************************)
EXTENDS SyncEPorts, TLAPS

\* What the lines of a port have told is what the port has kept; a port that was
\* told of is known, so that the first line of a device finds nothing told.
PortInv(p) ==
    /\ eecTold[p] # NoState => ports[p].known /\ ports[p].state = eecTold[p]
    /\ qualityTold[p] # Unknown => ports[p].known /\ PullQuality(p) = qualityTold[p]

IInv ==
    /\ PortsTypeOK
    /\ \A p \in Ports : PortInv(p)

LEMMA InitIInv == SyncEInit => IInv
  <1> SUFFICES ASSUME SyncEInit PROVE IInv
    OBVIOUS
  <1>1. NoPort \in Port
    BY DEF NoPort, NewPort, Port, StateOrNone
  <1>2. PortsTypeOK
    BY <1>1 DEF SyncEInit, PortsTypeOK, StateOrNone
  <1>3. \A p \in Ports : PortInv(p)
    BY DEF SyncEInit, PortInv
  <1>4. QED
    BY <1>2, <1>3 DEF IInv

\* The port a line is about: as kept so far, or new.
LEMMA FoundPort ==
    ASSUME PortsTypeOK, NEW p \in Ports
    PROVE  /\ Found(p) \in Port /\ Found(p).known
           /\ ports[p].known => Found(p) = ports[p]
  BY DEF PortsTypeOK, Found, NewPort, Port, StateOrNone

\* A port the line is not about.
LEMMA OtherPort ==
    ASSUME NEW x \in Ports, PortInv(x), ports'[x] = ports[x], eecTold'[x] = eecTold[x],
           qualityTold'[x] = qualityTold[x]
    PROVE  PortInv(x)'
  BY DEF PortInv, PullQuality

LEMMA EecKeeps ==
    ASSUME IInv, NEW p \in Ports, NEW s \in SyncState, EecLine(p, s)
    PROVE  IInv'
  <1> DEFINE new == [Found(p) EXCEPT !.state = s, !.named = @ \/ FirstLine]
  <1>0. /\ ports \in [Ports -> Port] /\ eecTold \in [Ports -> StateOrNone]
        /\ qualityTold \in [Ports -> Quality \cup {Unknown}] /\ s \in StateOrNone /\ FirstLine \in BOOLEAN
    BY DEF IInv, PortsTypeOK, StateOrNone, FirstLine
  <1>1. Found(p) \in Port /\ Found(p).known /\ (ports[p].known => Found(p) = ports[p])
    BY FoundPort DEF IInv
  <1>2. /\ ports' = [ports EXCEPT ![p] = new] /\ eecTold' = [eecTold EXCEPT ![p] = s]
        /\ UNCHANGED qualityTold
    BY DEF EecLine
  <1>3. /\ new \in Port /\ new.known /\ new.state = s
        /\ new.ql = Found(p).ql /\ new.ext = Found(p).ext /\ new.extended = Found(p).extended
    BY <1>0, <1>1 DEF Port
  <1> HIDE DEF new
  <1>4. PortsTypeOK'
    BY <1>0, <1>2, <1>3 DEF PortsTypeOK
  <1>5. PortInv(p)'
    <2>1. ports'[p] = new /\ eecTold'[p] = s /\ qualityTold'[p] = qualityTold[p]
      BY <1>0, <1>2
    <2>2. PortInv(p)
      BY DEF IInv
    <2>3. QED
      BY <1>1, <1>3, <2>1, <2>2 DEF PortInv, PullQuality
  <1>6. \A x \in Ports \ {p} : PortInv(x)'
    BY <1>0, <1>2, OtherPort DEF IInv
  <1>7. QED
    BY <1>4, <1>5, <1>6 DEF IInv

LEMMA QualityKeeps ==
    ASSUME IInv, NEW p \in Ports, NEW s \in SyncState, NEW ql \in Levels,
           NEW extended \in BOOLEAN, NEW ext \in Levels, QualityLine(p, s, ql, extended, ext)
    PROVE  IInv'
  <1> DEFINE kept == IF extended THEN ext ELSE IF FirstLine THEN 0 ELSE 10
             state == IF FirstLine THEN s ELSE Found(p).state
             new == [Found(p) EXCEPT !.named = TRUE,
                                     !.state = IF FirstLine THEN s ELSE @,
                                     !.ql = ql,
                                     !.extended = extended,
                                     !.ext = IF extended THEN ext ELSE IF FirstLine THEN 0 ELSE 10]
             told == [ql |-> ql, ext |-> IF extended THEN ext ELSE DefaultExt]
  <1>0. /\ ports \in [Ports -> Port] /\ eecTold \in [Ports -> StateOrNone]
        /\ qualityTold \in [Ports -> Quality \cup {Unknown}] /\ s \in StateOrNone
    BY DEF IInv, PortsTypeOK, StateOrNone
  <1>1. Found(p) \in Port /\ Found(p).known /\ (ports[p].known => Found(p) = ports[p])
    BY FoundPort DEF IInv
  <1>2. /\ ports' = [ports EXCEPT ![p] = new] /\ qualityTold' = [qualityTold EXCEPT ![p] = told]
        /\ UNCHANGED eecTold
    BY DEF QualityLine
  <1>3. kept \in Levels \cup {0, 10} /\ state \in StateOrNone /\ told \in Quality
    BY <1>0, <1>1 DEF Port, Quality
  <1>4. /\ new \in Port /\ new.known /\ new.ql = ql /\ new.extended = extended
        /\ new.ext = kept /\ new.state = state
    BY <1>1, <1>3 DEF Port
  <1>5. (extended => kept = ext) /\ told.ql = ql /\ told.ext = IF extended THEN ext ELSE DefaultExt
    OBVIOUS
  <1>6. ports[p].known => state = ports[p].state
    BY <1>1 DEF FirstLine
  <1> HIDE DEF kept, new, state
  <1>7. PortsTypeOK'
    BY <1>0, <1>2, <1>3, <1>4 DEF PortsTypeOK
  <1>8. PortInv(p)'
    <2>1. ports'[p] = new /\ eecTold'[p] = eecTold[p] /\ qualityTold'[p] = told
      BY <1>0, <1>2
    <2>2. PortInv(p)
      BY DEF IInv
    <2>3. PullQuality(p)' = told
      BY <1>4, <1>5, <2>1 DEF PullQuality
    <2>4. eecTold[p] # NoState => new.state = eecTold[p]
      BY <1>4, <1>6, <2>2 DEF PortInv
    <2>5. QED
      BY <1>4, <2>1, <2>3, <2>4 DEF PortInv
  <1>9. \A x \in Ports \ {p} : PortInv(x)'
    BY <1>0, <1>2, OtherPort DEF IInv
  <1>10. QED
    BY <1>7, <1>8, <1>9 DEF IInv

LEMMA SpecIInv == SyncESpec => []IInv
  <1>1. IInv /\ [SyncENext]_synceVars => IInv'
    <2> SUFFICES ASSUME IInv, [SyncENext]_synceVars PROVE IInv'
      OBVIOUS
    <2>1. ASSUME NEW p \in Ports, NEW s \in SyncState, EecLine(p, s) PROVE IInv'
      BY <2>1, EecKeeps
    <2>2. ASSUME NEW p \in Ports, NEW s \in SyncState, NEW ql \in Levels, NEW extended \in BOOLEAN,
                 NEW ext \in Levels, QualityLine(p, s, ql, extended, ext)
          PROVE  IInv'
      BY <2>2, QualityKeeps
    <2>3. CASE UNCHANGED synceVars
      BY <2>3 DEF synceVars, IInv, PortsTypeOK, PortInv, PullQuality
    <2>4. QED
      BY <2>1, <2>2, <2>3 DEF SyncENext
  <1>2. QED
    BY <1>1, InitIInv, PTL DEF SyncESpec

\* The synce4l lines of ExtractMetrics leave every variable within its type.
THEOREM TypeCorrect == SyncESpec => []PortsTypeOK
  <1>1. IInv => PortsTypeOK
    BY DEF IInv
  <1>2. QED
    BY <1>1, SpecIInv, PTL

\* getCurrentStatOverrideFn: a GET of a synce-status resource answers what the
\* lines have pushed for the port last, in whatever order they came.
THEOREM SyncEPullAlwaysAgrees == SyncESpec => []SyncEPullAgrees
  <1>1. IInv => SyncEPullAgrees
    <2> SUFFICES ASSUME IInv, NEW p \in Ports
                 PROVE  /\ eecTold[p] # NoState /\ ports[p].named => PullState(p) = eecTold[p]
                        /\ qualityTold[p] # Unknown => PullQuality(p) = qualityTold[p]
      BY DEF SyncEPullAgrees
    <2>1. PortInv(p)
      BY DEF IInv
    <2>2. QED
      BY <2>1 DEF PortInv, PullState
  <1>2. QED
    BY <1>1, SpecIInv, PTL
=============================================================================
