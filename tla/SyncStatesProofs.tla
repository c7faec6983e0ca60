-------------------------- MODULE SyncStatesProofs --------------------------
(* What the operators of SyncStates guarantee for all states. *)
EXTENDS SyncStates, TLAPS

\* The order in which states are combined does not matter: adding a state with
\* OverallState to the worst state of a set yields the worst state of the larger
\* set.  GetNodeSyncState folds OverallState over Go maps, whose iteration order
\* is random; by this theorem every order ends in the same state.
THEOREM OverallFoldsWorst ==
    ASSUME NEW S \in SUBSET StateOrNone, NEW s \in StateOrNone
    PROVE  OverallState(Worst(S), s) = Worst(S \cup {s})
  BY DEF OverallState, Worst, StateOrNone, SyncState, FREERUN, HOLDOVER, LOCKED, NoState

\* OverallState is the least upper bound of its arguments: commutative,
\* associative and idempotent, with the unset state as its unit.
THEOREM OverallStateLattice ==
    ASSUME NEW a \in StateOrNone, NEW b \in StateOrNone, NEW c \in StateOrNone
    PROVE  /\ OverallState(a, b) = OverallState(b, a)
           /\ OverallState(a, OverallState(b, c)) = OverallState(OverallState(a, b), c)
           /\ OverallState(a, a) = a
           /\ OverallState(NoState, a) = a
  BY DEF OverallState, StateOrNone, SyncState, FREERUN, HOLDOVER, LOCKED, NoState

\* GenPTPEvent called a second time with the same arguments changes and
\* publishes nothing: the CLOCK_REALTIME branch of ExtractMetrics calls it once
\* or twice, and the models call it once.
THEOREM GenIdempotent ==
    ASSUME NEW last \in StateOrNone, NEW clockState \in SyncState,
           NEW inRange \in BOOLEAN, NEW eventType \in EventType
    PROVE  LET s == GenState(last, clockState, inRange)
           IN  /\ GenState(s, clockState, inRange) = s
               /\ ~GenPublishes(s, clockState, inRange, eventType)
  BY DEF GenState, GenPublishes, StateOrNone, SyncState, FREERUN, HOLDOVER, LOCKED, NoState

\* GenPTPEvent never takes a clock out of the reported states, and publishes or
\* cancels only when it also stores.
THEOREM GenEffects ==
    ASSUME NEW last \in StateOrNone, NEW clockState \in SyncState,
           NEW inRange \in BOOLEAN, NEW eventType \in EventType
    PROVE  /\ GenState(last, clockState, inRange) \in SyncState \cup {last}
           /\ GenPublishes(last, clockState, inRange, eventType) => GenStores(last, clockState, inRange)
           /\ GenCancels(last, clockState, inRange) =>
                 /\ GenStores(last, clockState, inRange)
                 /\ GenState(last, clockState, inRange) = LOCKED
  BY DEF GenState, GenStores, GenPublishes, GenCancels, StateOrNone, SyncState,
         FREERUN, HOLDOVER, LOCKED, NoState
=============================================================================
