--------------------------- MODULE InOrderDelivery ---------------------------
(***************************************************************************)
(* What the out channel promises its publishers and subscribers.  Messages *)
(* are handled in the order they were accepted.  A message is refused only *)
(* while a full buffer is ahead of it.  An event is posted to a client at  *)
(* most once and never after a later one, and no event is finished with    *)
(* while a client that has been subscribed since it was accepted still has *)
(* to get it.  Every accepted event is finished with in the end, unless    *)
(* the process restarts, which forgets whatever was accepted.              *)
(***************************************************************************)
EXTENDS Naturals, Sequences

CONSTANTS
    Clients,   \* the subscribers
    Messages,  \* what may be accepted
    Numbers,   \* the numbers of events
    Id(_),     \* number of an event, 0 for a message that is not an event
    Cap,       \* size of the buffer
    Nothing    \* no message is being handled

VARIABLES
    backlog,   \* accepted messages that nobody has taken yet
    current,   \* the message being handled
    got,       \* the last event posted to every client
    owed       \* the events that every client has still to get

vars == <<backlog, current, got, owed>>

TypeOK ==
    /\ backlog \in Seq(Messages)
    /\ current \in Messages \cup {Nothing}
    /\ got \in [Clients -> Nat]
    /\ owed \in [Clients -> SUBSET Numbers]

Init ==
    /\ backlog = <<>>
    /\ current = Nothing
    /\ got = [c \in Clients |-> 0]
    /\ owed = [c \in Clients |-> {}]

\* A message is accepted; an event is owed to the clients of its audience.
Accept(m, audience) ==
    /\ backlog' = Append(backlog, m)
    /\ owed' = [c \in Clients |->
                   IF c \in audience THEN owed[c] \cup {Id(m)} ELSE owed[c]]
    /\ UNCHANGED <<current, got>>

\* A publisher gives up on a message that does not fit into the buffer.
Refuse(i) ==
    /\ i > Cap
    /\ backlog' = SubSeq(backlog, 1, i - 1) \o SubSeq(backlog, i + 1, Len(backlog))
    /\ owed' = [c \in Clients |-> owed[c] \ {Id(backlog[i])}]
    /\ UNCHANGED <<current, got>>

\* A message is finished with once it is owed to nobody.
Settled(id, due) == \A c \in Clients : id \notin due[c]

\* The next message is taken, and perhaps finished with at once.
Take ==
    /\ current = Nothing
    /\ backlog # <<>>
    /\ backlog' = Tail(backlog)
    /\ \/ current' = Head(backlog)
       \/ Settled(Id(Head(backlog)), owed) /\ current' = Nothing
    /\ UNCHANGED <<got, owed>>

Deliver(c) ==
    /\ current # Nothing
    /\ got[c] < Id(current)
    /\ got' = [got EXCEPT ![c] = Id(current)]
    /\ owed' = [owed EXCEPT ![c] = @ \ {Id(current)}]
    /\ \/ current' = current
       \/ Settled(Id(current), owed') /\ current' = Nothing
    /\ UNCHANGED backlog

Retire ==
    /\ current # Nothing
    /\ Settled(Id(current), owed)
    /\ current' = Nothing
    /\ UNCHANGED <<backlog, got, owed>>

\* Clients give up subscriptions, or are removed: some events are no longer owed
\* to them.
Leave ==
    /\ owed' \in [Clients -> SUBSET UNION {owed[c] : c \in Clients}]
    /\ \A c \in Clients : owed'[c] \subseteq owed[c]
    /\ \/ UNCHANGED current
       \/ current # Nothing /\ Settled(Id(current), owed') /\ current' = Nothing
    /\ UNCHANGED <<backlog, got>>

\* The process restarts.
Forget ==
    /\ backlog' = <<>>
    /\ current' = Nothing
    /\ owed' = [c \in Clients |-> {}]
    /\ UNCHANGED got

Next ==
    \/ \E m \in Messages, audience \in SUBSET Clients : Accept(m, audience)
    \/ \E i \in DOMAIN backlog : Refuse(i)
    \/ \E c \in Clients : Deliver(c)
    \/ Take \/ Retire \/ Leave \/ Forget

\* Every event that is accepted is finished with, refused or forgotten.
Pending(n) ==
    \/ \E i \in DOMAIN backlog : Id(backlog[i]) = n
    \/ current # Nothing /\ Id(current) = n

Live == \A n \in Numbers : Pending(n) ~> ~Pending(n)

Spec == Init /\ [][Next]_vars /\ Live
=============================================================================
