--------------------------- MODULE MCEventDelivery ---------------------------
\* Small instances of EventDelivery for TLC.
EXTENDS EventDelivery

CONSTANTS c1, c2, r1, p1, a1, a2

VARIABLE scene

\* Events to two clients that only subscribe, the second of which always answers;
\* events to one client, whose entry a handler changes at the same time; two
\* handlers that race about one client; and one handler whose files may fail.
\* The process is restarted in the first, the third and the last of these.
Scenes == {"clients", "entry", "handlers", "files"}

FilesWork == \A t \in Apis : ~CreateSubscriptionFails(t) /\ ~DeleteSubscriptionFails(t)
NoRestart == \A keep \in BOOLEAN, s \in Storages : ~Restart(keep, s)
OnlySubscribes(t) == api'[t] # Idle => api'[t].op \in {"create", "record"}

InScene ==
    \/ /\ scene = "clients" /\ FilesWork
       /\ OnlySubscribes(a1) /\ api'[a2] = Idle /\ missed'[c2] = 0
    \/ /\ scene = "entry" /\ FilesWork /\ NoRestart /\ storage = ConfigMap
       /\ store'[c2] = Absent /\ api'[a2] = Idle
    \/ /\ scene = "handlers" /\ FilesWork /\ storage = ConfigMap
       /\ store'[c2] = Absent /\ sent' = 0
    \/ /\ scene = "files"
       /\ store'[c2] = Absent /\ api'[a2] = Idle /\ sent' = 0

MCSpec ==
    /\ scene \in Scenes /\ Init
    /\ [][Next /\ InScene /\ UNCHANGED scene]_<<vars, scene>>
    /\ Fairness
=============================================================================
