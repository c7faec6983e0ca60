------------------------ MODULE InOrderDeliveryProofs ------------------------
(***************************************************************************)
(* Every step of EventDelivery is one that InOrderDelivery allows, for     *)
(* every set of clients, resources and handlers, every size of the channel *)
(* and every number of events: the safety half of DeliversInOrder.  That   *)
(* accepted events are finished with in the end is left to TLC.            *)
(***************************************************************************)
EXTENDS EventDeliveryProofs

IsEvent(m) == m.kind = "event"

\* The events of s are numbered upwards; beyond n; up to n.
Ordered(s) ==
    \A i, j \in DOMAIN s : IsEvent(s[i]) /\ IsEvent(s[j]) /\ j < i => s[j].id < s[i].id
Beyond(s, n) == \A i \in DOMAIN s : IsEvent(s[i]) => n < s[i].id
UpTo(s, n) == \A i \in DOMAIN s : IsEvent(s[i]) => s[i].id <= n

\* Event n is in s, for a resource that is in `wanted'.
Holds(s, n, wanted) == \E i \in DOMAIN s : IsEvent(s[i]) /\ s[i].id = n /\ s[i].resource \in wanted

Wanted(c) == IF subs[c] = Absent THEN {} ELSE subs[c]

\* Events are numbered in the order they were accepted, beyond every event that
\* a client was posted.
OrderInv ==
    /\ \A c \in Clients : got[c] <= sent /\ Beyond(Pending, got[c])
    /\ Ordered(Pending) /\ UpTo(Pending, sent)
    /\ job # Idle => /\ job.msg.id <= sent
                     /\ \A c \in job.todo : got[c] < job.msg.id
                     /\ Beyond(Pending, job.msg.id)

\* An event that a client has still to get is under way, and the client will be
\* among those it is posted to.
OwedInv ==
    \A c \in Clients : \A n \in owed[c] :
        \/ job # Idle /\ n = job.msg.id /\ c \in job.todo
        \/ Holds(Pending, n, Wanted(c))

FullInv == IInv /\ OrderInv /\ OwedInv

-----------------------------------------------------------------------------
(* What the steps of the channel do to a sequence of numbered events.      *)

LEMMA NumbersTyped ==
    ASSUME NEW s \in Seq(Message)
    PROVE  \A i \in DOMAIN s : s[i] \in Message /\ (IsEvent(s[i]) => s[i].id \in Nat)
  <1>1. DOMAIN s = 1..Len(s)
    BY LenProperties
  <1>2. \A i \in DOMAIN s : s[i] \in Message
    BY <1>1, ElementOfSeq
  <1>3. QED
    BY <1>2, DeliveryAssumption DEF Message, EventMessage, IsEvent

LEMMA NumbersOfAppend ==
    ASSUME NEW s \in Seq(Message), NEW m \in Message, NEW n \in Nat, NEW k \in Nat
    PROVE  /\ Ordered(s) /\ UpTo(s, n) /\ (IsEvent(m) => m.id = n + 1) => Ordered(Append(s, m))
           /\ Beyond(s, k) /\ (IsEvent(m) => k < m.id) => Beyond(Append(s, m), k)
           /\ UpTo(s, n) /\ ~IsEvent(m) => UpTo(Append(s, m), n)
           /\ UpTo(s, n) /\ IsEvent(m) /\ m.id = n + 1 => UpTo(Append(s, m), n + 1)
           /\ \A x, W : Holds(s, x, W) => Holds(Append(s, m), x, W)
           /\ \A x, W : IsEvent(m) /\ m.id = x /\ m.resource \in W => Holds(Append(s, m), x, W)
  <1> DEFINE t == Append(s, m)
  <1>1. /\ t \in Seq(Message) /\ DOMAIN s = 1..Len(s) /\ DOMAIN t = 1..(Len(s) + 1) /\ Len(s) \in Nat
        /\ \A i \in 1..Len(s) : t[i] = s[i]
        /\ t[Len(s) + 1] = m
    BY AppendElements
  <1>2. \A i \in DOMAIN s : IsEvent(s[i]) => s[i].id \in Nat
    BY NumbersTyped
  <1>3. \A i \in DOMAIN t : i \in DOMAIN s \/ i = Len(s) + 1
    BY <1>1
  <1>4. Len(s) + 1 \in DOMAIN t /\ \A i \in DOMAIN s : i \in DOMAIN t /\ t[i] = s[i]
    BY <1>1
  <1> HIDE DEF t
  <1>5. ASSUME Ordered(s), UpTo(s, n), IsEvent(m) => m.id = n + 1
        PROVE  Ordered(t)
    <2> SUFFICES ASSUME NEW i \in DOMAIN t, NEW j \in DOMAIN t, IsEvent(t[i]), IsEvent(t[j]), j < i
                 PROVE  t[j].id < t[i].id
      BY DEF Ordered
    <2>1. j \in DOMAIN s /\ t[j] = s[j]
      BY <1>1, <1>3
    <2>2. CASE i \in DOMAIN s
      BY <1>1, <1>5, <2>1, <2>2 DEF Ordered
    <2>3. CASE i = Len(s) + 1
      BY <1>1, <1>2, <1>5, <2>1, <2>3 DEF UpTo
    <2>4. QED
      BY <1>3, <2>2, <2>3
  <1>6. Beyond(s, k) /\ (IsEvent(m) => k < m.id) => Beyond(t, k)
    BY <1>1, <1>3 DEF Beyond
  <1>7. UpTo(s, n) /\ ~IsEvent(m) => UpTo(t, n)
    BY <1>1, <1>3 DEF UpTo
  <1>8. ASSUME UpTo(s, n), IsEvent(m), m.id = n + 1
        PROVE  UpTo(t, n + 1)
    <2>1. \A i \in DOMAIN s : IsEvent(s[i]) => s[i].id <= n + 1
      BY <1>2, <1>8 DEF UpTo
    <2>2. QED
      BY <1>1, <1>3, <1>8, <2>1 DEF UpTo
  <1>9. \A x, W : Holds(s, x, W) => Holds(t, x, W)
    BY <1>4 DEF Holds
  <1>10. \A x, W : IsEvent(m) /\ m.id = x /\ m.resource \in W => Holds(t, x, W)
    BY <1>1, <1>4 DEF Holds
  <1>11. QED
    BY <1>5, <1>6, <1>7, <1>8, <1>9, <1>10 DEF t

LEMMA NumbersOfTail ==
    ASSUME NEW s \in Seq(Message), s # <<>>
    PROVE  /\ Ordered(s) => Ordered(Tail(s))
           /\ \A k : Beyond(s, k) => Beyond(Tail(s), k)
           /\ \A k : UpTo(s, k) => UpTo(Tail(s), k)
           /\ IsEvent(Head(s)) /\ Ordered(s) => Beyond(Tail(s), Head(s).id)
           /\ \A k : IsEvent(Head(s)) /\ Beyond(s, k) => k < Head(s).id
           /\ \A k : IsEvent(Head(s)) /\ UpTo(s, k) => Head(s).id <= k
           /\ \A x, W : Holds(s, x, W) =>
                 \/ Holds(Tail(s), x, W)
                 \/ IsEvent(Head(s)) /\ x = Head(s).id /\ Head(s).resource \in W
  <1> DEFINE t == Tail(s)
  <1>1. /\ Len(s) \in Nat \ {0} /\ DOMAIN s = 1..Len(s) /\ DOMAIN t = 1..(Len(s) - 1)
        /\ \A i \in 1..(Len(s) - 1) : t[i] = s[i + 1]
        /\ Head(s) = s[1]
    BY TailElements
  <1>2. \A i \in DOMAIN t : i + 1 \in DOMAIN s /\ t[i] = s[i + 1] /\ 1 < i + 1
    BY <1>1
  <1>3. 1 \in DOMAIN s
    BY <1>1
  <1>4. \A i \in DOMAIN s : i = 1 \/ (i - 1 \in DOMAIN t /\ t[i - 1] = s[i])
    <2> TAKE i \in DOMAIN s
    <2>1. i = 1 \/ (i - 1 \in 1..(Len(s) - 1) /\ (i - 1) + 1 = i)
      BY <1>1
    <2>2. QED
      BY <1>1, <2>1
  <1> HIDE DEF t
  <1>5. Ordered(s) => Ordered(t)
    <2> SUFFICES ASSUME Ordered(s), NEW i \in DOMAIN t, NEW j \in DOMAIN t,
                        IsEvent(t[i]), IsEvent(t[j]), j < i
                 PROVE  t[j].id < t[i].id
      BY DEF Ordered
    <2>1. j + 1 < i + 1
      BY <1>1
    <2>2. QED
      BY <1>2, <2>1 DEF Ordered
  <1>6. \A k : Beyond(s, k) => Beyond(t, k)
    BY <1>2 DEF Beyond
  <1>7. \A k : UpTo(s, k) => UpTo(t, k)
    BY <1>2 DEF UpTo
  <1>8. IsEvent(Head(s)) /\ Ordered(s) => Beyond(t, Head(s).id)
    BY <1>1, <1>2, <1>3 DEF Ordered, Beyond
  <1>9. /\ \A k : IsEvent(Head(s)) /\ Beyond(s, k) => k < Head(s).id
        /\ \A k : IsEvent(Head(s)) /\ UpTo(s, k) => Head(s).id <= k
    BY <1>1, <1>3 DEF Beyond, UpTo
  <1>10. ASSUME NEW x, NEW W, Holds(s, x, W)
         PROVE  Holds(t, x, W) \/ (IsEvent(Head(s)) /\ x = Head(s).id /\ Head(s).resource \in W)
    <2>1. PICK i \in DOMAIN s : IsEvent(s[i]) /\ s[i].id = x /\ s[i].resource \in W
      BY <1>10 DEF Holds
    <2>2. CASE i = 1
      BY <1>1, <2>1, <2>2
    <2>3. CASE i # 1
      <3>1. i - 1 \in DOMAIN t /\ t[i - 1] = s[i]
        BY <1>4, <2>3
      <3>2. QED
        BY <2>1, <3>1 DEF Holds
    <2>4. QED
      BY <2>2, <2>3
  <1>11. QED
    BY <1>5, <1>6, <1>7, <1>8, <1>9, <1>10 DEF t

LEMMA NumbersOfWithout ==
    ASSUME NEW s \in Seq(Message), NEW k \in 1..Len(s)
    PROVE  /\ Ordered(s) => Ordered(Without(s, k))
           /\ \A n : Beyond(s, n) => Beyond(Without(s, k), n)
           /\ \A n : UpTo(s, n) => UpTo(Without(s, k), n)
           /\ \A x, W : Holds(s, x, W) /\ x # s[k].id => Holds(Without(s, k), x, W)
  <1> DEFINE t == Without(s, k)
             At(i) == IF i < k THEN i ELSE i + 1
  <1>1. /\ Len(s) \in Nat \ {0} /\ DOMAIN s = 1..Len(s) /\ DOMAIN t = 1..(Len(s) - 1)
        /\ \A i \in 1..(Len(s) - 1) : t[i] = IF i < k THEN s[i] ELSE s[i + 1]
    BY WithoutElements
  <1>2. \A i \in DOMAIN t : At(i) \in DOMAIN s /\ t[i] = s[At(i)]
    BY <1>1
  <1>3. \A i, j \in DOMAIN t : j < i => At(j) < At(i)
    BY <1>1
  <1>4. \A i \in DOMAIN s : i = k \/ \E j \in DOMAIN t : t[j] = s[i]
    <2> TAKE i \in DOMAIN s
    <2>1. CASE i < k
      <3>1. i \in 1..(Len(s) - 1)
        BY <1>1, <2>1
      <3>2. QED
        BY <1>1, <2>1, <3>1
    <2>2. CASE k < i
      <3>1. i - 1 \in 1..(Len(s) - 1) /\ ~(i - 1 < k) /\ (i - 1) + 1 = i
        BY <1>1, <2>2
      <3>2. QED
        BY <1>1, <3>1
    <2>3. QED
      BY <1>1, <2>1, <2>2
  <1> HIDE DEF t, At
  <1>5. Ordered(s) => Ordered(t)
    BY <1>2, <1>3 DEF Ordered
  <1>6. \A n : Beyond(s, n) => Beyond(t, n)
    BY <1>2 DEF Beyond
  <1>7. \A n : UpTo(s, n) => UpTo(t, n)
    BY <1>2 DEF UpTo
  <1>8. ASSUME NEW x, NEW W, Holds(s, x, W), x # s[k].id
        PROVE  Holds(t, x, W)
    <2>1. PICK i \in DOMAIN s : IsEvent(s[i]) /\ s[i].id = x /\ s[i].resource \in W
      BY <1>8 DEF Holds
    <2>2. PICK j \in DOMAIN t : t[j] = s[i]
      BY <1>4, <1>8, <2>1
    <2>3. QED
      BY <2>1, <2>2 DEF Holds
  <1>9. QED
    BY <1>5, <1>6, <1>7, <1>8 DEF t

-----------------------------------------------------------------------------
(* The steps of InOrderDelivery, in terms of the variables of EventDelivery. *)

Current == IF job = Idle THEN Idle ELSE job.msg
Step == [Promise!Next]_(Promise!vars)

\* Event n is owed to nobody once the owed events are those of `due'.
Settled(n, due) == \A c \in Clients : n \notin due[c]

LEMMA AcceptStep ==
    ASSUME NEW m \in Message, NEW A \in SUBSET Clients, Pending' = Append(Pending, m),
           owed' = [c \in Clients |-> IF c \in A THEN owed[c] \cup {EventNumber(m)} ELSE owed[c]],
           Current' = Current, got' = got
    PROVE  Step
  <1>1. Promise!Accept(m, A)
    BY DEF Promise!Accept, Pending, PendingOf, Current
  <1>2. QED
    BY <1>1 DEF Step, Promise!Next

LEMMA RefuseStep ==
    ASSUME NEW k \in DOMAIN Pending, k > Cap, Pending' = Without(Pending, k),
           owed' = [c \in Clients |-> owed[c] \ {EventNumber(Pending[k])}],
           Current' = Current, got' = got
    PROVE  Step
  <1>1. Promise!Refuse(k)
    BY DEF Promise!Refuse, Pending, PendingOf, Current, Without
  <1>2. QED
    BY <1>1 DEF Step, Promise!Next, Pending, PendingOf

LEMMA TakeStep ==
    ASSUME Current = Idle, Pending # <<>>, Pending' = Tail(Pending), got' = got, owed' = owed,
           Current' = Head(Pending) \/ (Current' = Idle /\ Settled(EventNumber(Head(Pending)), owed))
    PROVE  Step
  <1>1. Promise!Take
    BY DEF Promise!Take, Promise!Settled, Settled, Pending, PendingOf, Current
  <1>2. QED
    BY <1>1 DEF Step, Promise!Next

LEMMA DeliverStep ==
    ASSUME NEW c \in Clients, Current # Idle, got[c] < EventNumber(Current),
           got' = [got EXCEPT ![c] = EventNumber(Current)],
           owed' = [owed EXCEPT ![c] = @ \ {EventNumber(Current)}], Pending' = Pending,
           Current' = Current \/ (Current' = Idle /\ Settled(EventNumber(Current), owed'))
    PROVE  Step
  <1>1. Promise!Deliver(c)
    BY DEF Promise!Deliver, Promise!Settled, Settled, Pending, PendingOf, Current
  <1>2. QED
    BY <1>1 DEF Step, Promise!Next

LEMMA LeaveStep ==
    ASSUME owed' \in [Clients -> SUBSET (1..MaxEvents)], \A c \in Clients : owed'[c] \subseteq owed[c],
           Pending' = Pending, got' = got,
           \/ Current' = Current
           \/ Current # Idle /\ Current' = Idle /\ Settled(EventNumber(Current), owed')
    PROVE  Step
  <1>1. owed' \in [Clients -> SUBSET UNION {owed[c] : c \in Clients}]
    <2>1. \A c \in Clients : owed'[c] \subseteq UNION {owed[d] : d \in Clients}
      OBVIOUS
    <2>2. QED
      BY <2>1
  <1>2. Promise!Leave
    BY <1>1 DEF Promise!Leave, Promise!Settled, Settled, Pending, PendingOf, Current
  <1>3. QED
    BY <1>2 DEF Step, Promise!Next

LEMMA ForgetStep ==
    ASSUME Pending' = <<>>, Current' = Idle, owed' = [c \in Clients |-> {}], got' = got
    PROVE  Step
  <1>1. Promise!Forget
    BY DEF Promise!Forget, Pending, PendingOf, Current
  <1>2. QED
    BY <1>1 DEF Step, Promise!Next

-----------------------------------------------------------------------------
(* Every action keeps the order and what is owed, and is such a step.      *)

Keeps == OrderInv' /\ OwedInv' /\ Step

LEMMA Basics ==
    ASSUME FullInv
    PROVE  /\ TypeOK /\ SenderInv /\ FailInv /\ OrderInv /\ OwedInv /\ ChanTyped
           /\ Pending \in Seq(Message) /\ sent \in Nat
           /\ \A c \in Clients : got[c] \in Nat /\ owed[c] \in SUBSET (1..MaxEvents)
           /\ job # Idle => /\ job.msg # Idle /\ job.msg \in EventMessage /\ job.msg.id \in Nat
                            /\ EventNumber(job.msg) = job.msg.id /\ job.todo \in SUBSET Clients
  <1>1. TypeOK /\ SenderInv /\ FailInv /\ OrderInv /\ OwedInv
    BY DEF FullInv, IInv
  <1>2. ChanTyped
    BY <1>1, TypeOKChan
  <1>3. Pending \in Seq(Message)
    BY <1>2, PendingElements DEF ChanTyped, Pending
  <1>4. sent \in Nat /\ \A c \in Clients : got[c] \in Nat /\ owed[c] \in SUBSET (1..MaxEvents)
    BY <1>1, DeliveryAssumption DEF TypeOK
  <1>5. job # Idle => /\ job.msg # Idle /\ job.msg \in EventMessage /\ job.msg.id \in Nat
                      /\ EventNumber(job.msg) = job.msg.id /\ job.todo \in SUBSET Clients
    <2>1. job # Idle => /\ job.msg \in EventMessage /\ job.msg \in Message /\ job.msg.kind = "event"
                        /\ job.msg.id \in 1..MaxEvents /\ job.todo \in SUBSET Clients
      BY <1>1, JobTyped
    <2>2. QED
      BY <2>1, NothingAssumption, DeliveryAssumption DEF EventNumber
  <1>6. QED
    BY <1>1, <1>2, <1>3, <1>4, <1>5

\* Whatever leaves the entries alone leaves what is wanted.
LEMMA WantedFrame ==
    ASSUME UNCHANGED <<store, heap>>
    PROVE  subs' = subs /\ \A c \in Clients : Wanted(c)' = Wanted(c)
  BY SubsFrame DEF Wanted

LEMMA WantedBySubscribers ==
    ASSUME TypeOK, NEW r
    PROVE  /\ SubscribersOf(r) \in SUBSET Clients
           /\ \A c \in Clients : c \in SubscribersOf(r) <=> r \in Wanted(c)
  BY SubsAreTyped DEF SubsTyped, SubscribersOf, Wanted

\* What is under way is pending or being posted.
LEMMA UnderWayIsPending ==
    ASSUME TypeOK, NEW m \in UnderWay
    PROVE  (\E i \in DOMAIN Pending : Pending[i] = m) \/ (job # Idle /\ m = job.msg)
  <1>1. /\ queue \in Seq(Message) /\ waiting \in Seq(Blocker)
        /\ DOMAIN queue = 1..Len(queue) /\ DOMAIN waiting = 1..Len(waiting)
        /\ Len(queue) \in Nat /\ Len(waiting) \in Nat
    BY LenProperties DEF TypeOK, Blocker
  <1>2. /\ DOMAIN Pending = 1..(Len(queue) + Len(waiting))
        /\ \A i \in 1..Len(queue) : Pending[i] = queue[i]
        /\ \A i \in 1..Len(waiting) : Pending[Len(queue) + i] = waiting[i].msg
    BY <1>1, PendingElements DEF Pending
  <1>3. ASSUME NEW i \in DOMAIN queue, m = queue[i]
        PROVE  \E j \in DOMAIN Pending : Pending[j] = m
    <2>1. i \in DOMAIN Pending /\ Pending[i] = m
      BY <1>1, <1>2, <1>3
    <2>2. QED
      BY <2>1
  <1>4. ASSUME NEW i \in DOMAIN waiting, m = waiting[i].msg
        PROVE  \E j \in DOMAIN Pending : Pending[j] = m
    <2>1. Len(queue) + i \in DOMAIN Pending /\ Pending[Len(queue) + i] = m
      BY <1>1, <1>2, <1>4
    <2>2. QED
      BY <2>1
  <1>5. QED
    BY <1>3, <1>4 DEF UnderWay

\* The event being posted is owed to clients it has still to be posted to only.
LEMMA OwedIsTodo ==
    ASSUME FullInv, job # Idle, NEW c \in Clients, job.msg.id \in owed[c]
    PROVE  c \in job.todo
  <1>1. job.msg.id \in Nat /\ Beyond(Pending, job.msg.id) /\ OwedInv
    BY Basics DEF OrderInv
  <1>2. ~Holds(Pending, job.msg.id, Wanted(c))
    BY <1>1 DEF Holds, Beyond
  <1>3. QED
    BY <1>1, <1>2 DEF OwedInv

\* The event being posted stays, or it is finished with.
JobGoesOn ==
    \/ job' = job
    \/ job # Idle /\ job' = Idle /\ job.todo = {}
    \/ job # Idle /\ job' # Idle /\ job'.msg = job.msg /\ job'.todo = job.todo

\* Some clients are owed less, which the channel does not notice.
LEMMA LeaveKeeps ==
    ASSUME FullInv, UNCHANGED <<queue, waiting, sent, got>>, JobGoesOn,
           owed' \in [Clients -> SUBSET (1..MaxEvents)],
           \A c \in Clients : owed'[c] \subseteq owed[c],
           \A c \in Clients : \A n \in owed'[c] :
              \/ job # Idle /\ n = job.msg.id
              \/ Holds(Pending, n, Wanted(c)) => Holds(Pending, n, Wanted(c)')
    PROVE  Keeps
  <1>0. /\ OrderInv /\ OwedInv /\ TypeOK /\ Pending' = Pending
        /\ job # Idle => job.msg # Idle /\ EventNumber(job.msg) = job.msg.id
    BY Basics DEF Pending, PendingOf
  <1>1. OrderInv'
    <2>1. job' # Idle => job # Idle /\ job'.msg = job.msg /\ job'.todo = job.todo
      BY DEF JobGoesOn
    <2>2. QED
      BY <1>0, <2>1 DEF OrderInv
  <1>2. OwedInv'
    <2> SUFFICES ASSUME NEW c \in Clients, NEW n \in owed'[c]
                 PROVE  (job' # Idle /\ n = job'.msg.id /\ c \in job'.todo)
                           \/ Holds(Pending', n, Wanted(c)')
      BY DEF OwedInv
    <2>1. n \in owed[c]
      OBVIOUS
    <2>2. CASE job # Idle /\ n = job.msg.id
      <3>1. c \in job.todo
        BY <2>1, <2>2, OwedIsTodo
      <3>2. QED
        BY <2>2, <3>1 DEF JobGoesOn
    <2>3. CASE ~(job # Idle /\ n = job.msg.id)
      BY <1>0, <2>1, <2>3 DEF OwedInv
    <2>4. QED
      BY <2>2, <2>3
  <1>3. Step
    <2>1. job # Idle /\ job' = Idle /\ job.todo = {} => Settled(job.msg.id, owed')
      BY OwedIsTodo DEF Settled
    <2>2. \/ Current' = Current
          \/ Current # Idle /\ Current' = Idle /\ Settled(EventNumber(Current), owed')
      BY <1>0, <2>1 DEF Current, JobGoesOn
    <2>3. QED
      BY <1>0, <2>2, LeaveStep
  <1>4. QED
    BY <1>1, <1>2, <1>3 DEF Keeps

\* What concerns neither the channel nor the store.
LEMMA NothingKeeps ==
    ASSUME FullInv, UNCHANGED <<queue, waiting, store, heap, sent, got, owed>>, JobGoesOn
    PROVE  Keeps
  <1>1. owed' \in [Clients -> SUBSET (1..MaxEvents)] /\ \A c \in Clients : Wanted(c)' = Wanted(c)
    BY Basics, WantedFrame DEF TypeOK
  <1>2. QED
    BY <1>1, LeaveKeeps

\* An entry is Set: what its client is still owed is for resources it still has.
LEMMA SetKeeps ==
    ASSUME FullInv, NEW c \in Clients, NEW i \in SubStores, NEW n \in 0..FailLimit,
           NEW S \in SUBSET Resources, SetEntry(c, i, n, S),
           UNCHANGED <<queue, waiting, sent, got>>, JobGoesOn
    PROVE  Keeps
  <1>0. TypeOK /\ owed \in [Clients -> SUBSET (1..MaxEvents)]
    BY Basics DEF TypeOK
  <1>1. subs'[c] = S /\ \A d \in Clients : d # c => subs'[d] = subs[d]
    BY <1>0, SetEntrySubs
  <1>2. /\ owed'[c] = StillOwed(c, S) /\ owed'[c] \subseteq owed[c]
        /\ \A d \in Clients : d # c => owed'[d] = owed[d]
    BY <1>0, SetEntryOwed
  <1>3. owed' \in [Clients -> SUBSET (1..MaxEvents)]
    <2>1. owed' = [owed EXCEPT ![c] = StillOwed(c, S)]
      BY DEF SetEntry
    <2>2. StillOwed(c, S) \in SUBSET (1..MaxEvents)
      BY <1>0 DEF StillOwed
    <2>3. QED
      BY <1>0, <2>1, <2>2
  <1>4. Wanted(c)' = S /\ \A d \in Clients : d # c => Wanted(d)' = Wanted(d)
    BY <1>1, NothingAssumption DEF Wanted
  <1>5. ASSUME NEW x \in owed'[c]
        PROVE  (job # Idle /\ x = job.msg.id) \/ Holds(Pending, x, Wanted(c)')
    <2>1. PICK m \in UnderWay : m.kind = "event" /\ m.resource \in S /\ x = m.id
      BY <1>2, <1>5 DEF StillOwed
    <2>2. CASE \E j \in DOMAIN Pending : Pending[j] = m
      BY <1>4, <2>1, <2>2 DEF Holds, IsEvent
    <2>3. QED
      BY <1>0, <2>1, <2>2, UnderWayIsPending
  <1>6. \A d \in Clients : /\ owed'[d] \subseteq owed[d]
                           /\ \A x \in owed'[d] :
                                \/ job # Idle /\ x = job.msg.id
                                \/ Holds(Pending, x, Wanted(d)) => Holds(Pending, x, Wanted(d)')
    BY <1>2, <1>4, <1>5
  <1>7. QED
    BY <1>3, <1>6, LeaveKeeps

\* A message that is no event is accepted.
LEMMA RecordKeeps ==
    ASSUME FullInv, NEW m \in Message, ~IsEvent(m), Pending' = Append(Pending, m),
           UNCHANGED <<job, sent, got, owed, store, heap>>
    PROVE  Keeps
  <1>0. /\ Pending \in Seq(Message) /\ sent \in Nat /\ \A c \in Clients : got[c] \in Nat
        /\ OrderInv /\ OwedInv /\ (job # Idle => job.msg.id \in Nat)
    BY Basics
  <1>1. OrderInv'
    <2>1. Ordered(Pending') /\ UpTo(Pending', sent)
      BY <1>0, NumbersOfAppend DEF OrderInv
    <2>2. \A k \in Nat : Beyond(Pending, k) => Beyond(Pending', k)
      BY <1>0, NumbersOfAppend
    <2>3. QED
      BY <1>0, <2>1, <2>2 DEF OrderInv
  <1>2. OwedInv'
    <2>1. \A x, W : Holds(Pending, x, W) => Holds(Pending', x, W)
      BY <1>0, NumbersOfAppend
    <2>2. \A c \in Clients : Wanted(c)' = Wanted(c)
      BY WantedFrame
    <2>3. QED
      BY <1>0, <2>1, <2>2 DEF OwedInv
  <1>3. Step
    <2>1. owed' = [c \in Clients |-> IF c \in {} THEN owed[c] \cup {EventNumber(m)} ELSE owed[c]]
      BY Basics DEF TypeOK
    <2>2. {} \in SUBSET Clients /\ Current' = Current /\ got' = got
      BY DEF Current
    <2>3. QED
      BY <2>1, <2>2, AcceptStep
  <1>4. QED
    BY <1>1, <1>2, <1>3 DEF Keeps

LEMMA PublishKeeps ==
    ASSUME FullInv, NEW t \in Publishers, NEW r \in Resources, Publish(t, r)
    PROVE  Keeps
  <1> DEFINE m == Event(sent', r)
  <1>0. /\ Pending \in Seq(Message) /\ sent \in Nat /\ \A c \in Clients : got[c] \in Nat
        /\ OrderInv /\ OwedInv /\ TypeOK /\ ChanTyped /\ (job # Idle => job.msg.id \in Nat)
    BY Basics
  <1>1. /\ sent' = sent + 1 /\ sent' \in 1..MaxEvents /\ Send(t, m)
        /\ UNCHANGED <<job, api, store, heap, got>>
        /\ owed' = [c \in Clients |-> IF c \in SubscribersOf(r) THEN owed[c] \cup {sent'} ELSE owed[c]]
    BY <1>0, DeliveryAssumption DEF Publish, TypeOK, storeVars
  <1>2. m \in Message /\ IsEvent(m) /\ m.id = sent + 1 /\ m.resource = r /\ EventNumber(m) = sent'
    BY <1>1, EventTyped DEF IsEvent, EventNumber
  <1> HIDE DEF m
  <1>3. Pending' = Append(Pending, m)
    BY <1>0, <1>1, <1>2, SendEffects DEF Thread
  <1>4. OrderInv'
    <2>1. Ordered(Pending') /\ UpTo(Pending', sent')
      BY <1>0, <1>1, <1>2, <1>3, NumbersOfAppend DEF OrderInv
    <2>2. \A k \in Nat : Beyond(Pending, k) /\ k <= sent => Beyond(Pending', k)
      <3> SUFFICES ASSUME NEW k \in Nat, Beyond(Pending, k), k <= sent
                   PROVE  Beyond(Pending', k)
        OBVIOUS
      <3>1. IsEvent(m) => k < m.id
        BY <1>0, <1>2
      <3>2. QED
        BY <1>0, <1>2, <1>3, <3>1, NumbersOfAppend
    <2>3. \A c \in Clients : got[c] <= sent' /\ Beyond(Pending', got[c])
      BY <1>0, <1>1, <2>2 DEF OrderInv
    <2>4. job # Idle => /\ job.msg.id <= sent' /\ Beyond(Pending', job.msg.id)
                        /\ \A c \in job.todo : got[c] < job.msg.id
      BY <1>0, <1>1, <2>2 DEF OrderInv
    <2>5. QED
      BY <1>1, <2>1, <2>3, <2>4 DEF OrderInv
  <1>5. OwedInv'
    <2> SUFFICES ASSUME NEW c \in Clients, NEW n \in owed'[c]
                 PROVE  (job # Idle /\ n = job.msg.id /\ c \in job.todo) \/ Holds(Pending', n, Wanted(c))
      BY <1>1, WantedFrame DEF OwedInv
    <2>1. CASE n \in owed[c]
      <3>1. Holds(Pending, n, Wanted(c)) => Holds(Pending', n, Wanted(c))
        BY <1>0, <1>2, <1>3, NumbersOfAppend
      <3>2. QED
        BY <1>0, <2>1, <3>1 DEF OwedInv
    <2>2. CASE n = sent' /\ c \in SubscribersOf(r)
      <3>1. r \in Wanted(c)
        BY <1>0, <2>2, WantedBySubscribers
      <3>2. QED
        BY <1>0, <1>1, <1>2, <1>3, <2>2, <3>1, NumbersOfAppend
    <2>3. QED
      BY <1>1, <2>1, <2>2
  <1>6. Step
    <2>1. SubscribersOf(r) \in SUBSET Clients /\ Current' = Current
      BY <1>0, <1>1, WantedBySubscribers DEF Current
    <2>2. QED
      BY <1>1, <1>2, <1>3, <2>1, AcceptStep
  <1>7. QED
    BY <1>4, <1>5, <1>6 DEF Keeps

LEMMA SendTimeoutKeeps ==
    ASSUME FullInv, NEW i \in DOMAIN waiting, SendTimeout(i)
    PROVE  Keeps
  <1> DEFINE k == Len(queue) + i
             m == waiting[i].msg
  <1>0. /\ Pending \in Seq(Message) /\ OrderInv /\ OwedInv /\ TypeOK /\ ChanTyped /\ SenderInv
        /\ \A c \in Clients : owed[c] \in SUBSET (1..MaxEvents)
    BY Basics
  <1>1. /\ waiting' = RemoveAt(waiting, i) /\ queue' = queue /\ UNCHANGED <<job, sent, got, store, heap>>
        /\ m.kind = "event" /\ owed' = [c \in Clients |-> owed[c] \ {m.id}]
    BY <1>0 DEF SendTimeout, SenderInv, storeVars
  <1>2. /\ k \in 1..Len(Pending) /\ k > Cap /\ DOMAIN Pending = 1..Len(Pending)
        /\ Pending[k] = m /\ Pending' = Without(Pending, k)
    BY <1>0, <1>1, GiveUpEffects
  <1> HIDE DEF k, m
  <1>3. OrderInv'
    <2>1. /\ Ordered(Pending) => Ordered(Pending')
          /\ \A n : Beyond(Pending, n) => Beyond(Pending', n)
          /\ \A n : UpTo(Pending, n) => UpTo(Pending', n)
      BY <1>0, <1>2, NumbersOfWithout
    <2>2. QED
      BY <1>0, <1>1, <2>1 DEF OrderInv
  <1>4. OwedInv'
    <2>1. \A x, W : Holds(Pending, x, W) /\ x # m.id => Holds(Pending', x, W)
      BY <1>0, <1>2, NumbersOfWithout
    <2>2. \A c \in Clients : Wanted(c)' = Wanted(c)
      BY <1>1, WantedFrame
    <2>3. QED
      BY <1>0, <1>1, <2>1, <2>2 DEF OwedInv
  <1>5. Step
    <2>1. EventNumber(Pending[k]) = m.id /\ Current' = Current
      BY <1>1, <1>2 DEF EventNumber, Current
    <2>2. QED
      BY <1>1, <1>2, <2>1, RefuseStep
  <1>6. QED
    BY <1>3, <1>4, <1>5 DEF Keeps

LEMMA PostShape ==
    ASSUME FullInv, NEW c \in Clients, Post(c)
    PROVE  /\ job # Idle /\ c \in job.todo /\ UNCHANGED <<queue, waiting, sent, store, heap>>
           /\ got' = [got EXCEPT ![c] = job.msg.id]
           /\ owed' = [owed EXCEPT ![c] = @ \ {job.msg.id}]
           /\ \/ job' = Idle /\ job.todo \ {c} = {}
              \/ job' # Idle /\ job'.msg = job.msg /\ job'.todo = job.todo \ {c}
  <1>1. /\ UNCHANGED <<queue, waiting, sent, store, heap>>
        /\ got' = [got EXCEPT ![c] = job.msg.id]
        /\ owed' = [owed EXCEPT ![c] = @ \ {job.msg.id}]
    BY DEF Post, PostAnswered, PostFailed, PostUnreachable, Posted, chanVars, storeVars
  <1>2. /\ job # Idle /\ c \in job.todo
        /\ \/ job' = Idle /\ job.todo = {c}
           \/ job' # Idle /\ job'.msg = job.msg /\ job'.todo = job.todo \ {c}
    BY Basics, PostJob
  <1>3. QED
    BY <1>1, <1>2

LEMMA PostKeeps ==
    ASSUME FullInv, NEW c \in Clients, Post(c)
    PROVE  Keeps
  <1>0. /\ OrderInv /\ OwedInv /\ TypeOK /\ sent \in Nat
        /\ \A d \in Clients : got[d] \in Nat
        /\ job # Idle /\ job.msg # Idle /\ job.msg.id \in Nat /\ EventNumber(job.msg) = job.msg.id
        /\ job.todo \in SUBSET Clients
    BY Basics, PostShape
  <1>1. /\ c \in job.todo /\ UNCHANGED <<queue, waiting, sent, store, heap>>
        /\ got' = [got EXCEPT ![c] = job.msg.id]
        /\ owed' = [owed EXCEPT ![c] = @ \ {job.msg.id}]
        /\ \/ job' = Idle /\ job.todo \ {c} = {}
           \/ job' # Idle /\ job'.msg = job.msg /\ job'.todo = job.todo \ {c}
    BY PostShape
  <1>2. /\ Pending' = Pending /\ \A d \in Clients : Wanted(d)' = Wanted(d)
        /\ got'[c] = job.msg.id /\ owed'[c] = owed[c] \ {job.msg.id}
        /\ \A d \in Clients \ {c} : got'[d] = got[d] /\ owed'[d] = owed[d]
    BY <1>0, <1>1, WantedFrame DEF TypeOK, Pending, PendingOf
  <1>3. OrderInv'
    <2>1. \A d \in Clients : got'[d] <= sent' /\ Beyond(Pending', got'[d])
      BY <1>0, <1>1, <1>2 DEF OrderInv
    <2>2. job' # Idle => /\ job'.msg.id <= sent' /\ Beyond(Pending', job'.msg.id)
                         /\ \A d \in job'.todo : got'[d] < job'.msg.id
      BY <1>0, <1>1, <1>2 DEF OrderInv
    <2>3. QED
      BY <1>0, <1>1, <1>2, <2>1, <2>2 DEF OrderInv
  <1>4. ASSUME NEW d \in Clients, job.msg.id \in owed'[d]
        PROVE  d \in job.todo \ {c}
    BY <1>0, <1>2, <1>4, OwedIsTodo
  <1>5. OwedInv'
    <2> SUFFICES ASSUME NEW d \in Clients, NEW n \in owed'[d]
                 PROVE  (job' # Idle /\ n = job'.msg.id /\ d \in job'.todo) \/ Holds(Pending', n, Wanted(d)')
      BY DEF OwedInv
    <2>1. CASE n = job.msg.id
      BY <1>1, <1>4, <2>1
    <2>2. CASE n # job.msg.id
      <3>1. n \in owed[d]
        BY <1>2
      <3>2. QED
        BY <1>0, <1>2, <2>2, <3>1 DEF OwedInv
    <2>3. QED
      BY <2>1, <2>2
  <1>6. Step
    <2>1. Current = job.msg /\ Current # Idle /\ got[c] < EventNumber(Current)
      BY <1>0, <1>1 DEF Current, OrderInv
    <2>2. job' = Idle => Settled(job.msg.id, owed')
      BY <1>1, <1>4 DEF Settled
    <2>3. Current' = Current \/ (Current' = Idle /\ Settled(EventNumber(Current), owed'))
      BY <1>0, <1>1, <2>1, <2>2 DEF Current
    <2>4. QED
      BY <1>0, <1>1, <1>2, <2>1, <2>3, DeliverStep
  <1>7. QED
    BY <1>3, <1>5, <1>6 DEF Keeps

LEMMA StartForgets ==
    ASSUME FullInv, NEW loaded \in [Clients -> Subscription], NEW keep \in BOOLEAN, NEW s \in Storages,
           Start(loaded, keep, s)
    PROVE  Keeps
  <1>0. OrderInv /\ TypeOK /\ sent \in Nat /\ Pending' = <<>>
    BY Basics, StartTyped
  <1>1. /\ job' = Idle /\ owed' = [c \in Clients |-> {}] /\ got' = got /\ sent' = sent
        /\ DOMAIN Pending' = {}
    BY <1>0 DEF Start
  <1>2. OrderInv'
    BY <1>0, <1>1 DEF OrderInv, Ordered, Beyond, UpTo
  <1>3. OwedInv'
    BY <1>1 DEF OwedInv
  <1>4. Step
    BY <1>0, <1>1, ForgetStep DEF Current
  <1>5. QED
    BY <1>2, <1>3, <1>4 DEF Keeps

LEMMA CleanUpKeeps ==
    ASSUME FullInv, CleanUp
    PROVE  Keeps
  <1> DEFINE c == job.whom
  <1>0. /\ TypeOK /\ job # Idle /\ c \in Clients /\ job.msg \in EventMessage
        /\ job.todo \in SUBSET Clients
        /\ owed \in [Clients -> SUBSET (1..MaxEvents)]
    BY Basics, CleanUpEffects DEF TypeOK
  <1>1. PostTo(job.msg, job.todo) => JobGoesOn
    BY <1>0, PostToEffects DEF JobGoesOn
  <1>2. CASE storage = NoClient /\ \E left \in [Clients -> Subscription] : Start(left, TRUE, NoClient)
    <2>1. NoClient \in Storages
      BY <1>0, <1>2 DEF TypeOK
    <2>2. QED
      BY <1>2, <2>1, StartForgets
  <1>3. CASE /\ PostTo(job.msg, job.todo) /\ store' = [store EXCEPT ![c] = Absent]
             /\ owed' = [owed EXCEPT ![c] = {}]
             /\ UNCHANGED <<chanVars, heap, sent, got>>
    <2>1. owed'[c] = {} /\ \A d \in Clients : d # c => owed'[d] = owed[d] /\ subs'[d] = subs[d]
      BY <1>0, <1>3 DEF TypeOK, subs
    <2>2. \A d \in Clients : d # c => Wanted(d)' = Wanted(d)
      BY <2>1 DEF Wanted
    <2>3. /\ owed' \in [Clients -> SUBSET (1..MaxEvents)]
          /\ \A d \in Clients : owed'[d] \subseteq owed[d]
          /\ \A d \in Clients : \A n \in owed'[d] :
                Holds(Pending, n, Wanted(d)) => Holds(Pending, n, Wanted(d)')
      BY <1>0, <1>3, <2>1, <2>2
    <2>4. UNCHANGED <<queue, waiting, sent, got>> /\ JobGoesOn
      BY <1>1, <1>3 DEF chanVars
    <2>5. QED
      BY <2>3, <2>4, LeaveKeeps
  <1>4. CASE /\ PostTo(job.msg, job.todo)
             /\ UNCHANGED <<chanVars, storeVars, sent, got, owed>>
    BY <1>1, <1>4, NothingKeeps DEF chanVars, storeVars
  <1>5. QED
    BY <1>0, <1>2, <1>3, <1>4, CleanUpEffects

\* Save writes a copy back, perhaps one with other subscriptions.
LEMMA SaveKeeps ==
    ASSUME FullInv, Save
    PROVE  Keeps
  <1>0. TypeOK /\ job # Idle /\ job.msg \in EventMessage /\ job.todo \in SUBSET Clients
    BY Basics, SaveEffects
  <1>1. JobGoesOn
    BY <1>0, SaveEffects, PostToEffects DEF JobGoesOn
  <1>2. /\ job.whom \in Clients /\ job.copy \in Entry
        /\ Counted(job.act, job.copy.fails) \in 0..FailLimit
        /\ heap[job.whom][job.copy.sub] \in SUBSET Resources
        /\ SetEntry(job.whom, job.copy.sub, Counted(job.act, job.copy.fails),
                    heap[job.whom][job.copy.sub])
    BY <1>0, SaveEffects
  <1>3. job.copy.sub \in SubStores
    BY <1>2, EntryTyped
  <1>4. UNCHANGED <<queue, waiting, sent, got>>
    BY DEF Save, chanVars
  <1>5. QED
    BY <1>1, <1>2, <1>3, <1>4, SetKeeps

LEMMA ReceiveEventKeeps ==
    ASSUME FullInv, ReceiveEvent
    PROVE  Keeps
  <1> DEFINE m == Head(queue)
             S == SubscribersOf(m.resource)
  <1>0. /\ OrderInv /\ OwedInv /\ TypeOK /\ ChanTyped /\ sent \in Nat
        /\ \A c \in Clients : got[c] \in Nat
    BY Basics
  <1>1. /\ TakeOff /\ job = Idle /\ m.kind = "event" /\ PostTo(m, S)
        /\ UNCHANGED <<store, heap, sent, got, owed>>
    BY DEF ReceiveEvent, TakeOff, storeVars
  <1>2. /\ Pending \in Seq(Message) /\ Pending # <<>> /\ Head(Pending) = m /\ m \in Message
        /\ Pending' = Tail(Pending)
    BY <1>0, <1>1, TakeOffEffects
  <1>3. m \in EventMessage /\ IsEvent(m) /\ EventNumber(m) = m.id /\ m.id \in Nat
    BY <1>1, <1>2, DeliveryAssumption DEF Message, EventMessage, IsEvent, EventNumber
  <1>4. S \in SUBSET Clients /\ \A c \in Clients : c \in S <=> m.resource \in Wanted(c)
    BY <1>0, WantedBySubscribers
  <1> HIDE DEF m, S
  <1>5. \/ job' = Idle /\ S = {}
        \/ job' # Idle /\ job'.msg = m /\ job'.todo = S
    BY <1>1, <1>3, <1>4, PostToEffects
  <1>6. /\ Ordered(Pending') /\ \A k : Beyond(Pending, k) => Beyond(Pending', k)
        /\ UpTo(Pending', sent) /\ Beyond(Pending', m.id) /\ m.id <= sent
        /\ \A k : Beyond(Pending, k) => k < m.id
        /\ \A x, W : Holds(Pending, x, W) =>
              Holds(Pending', x, W) \/ (x = m.id /\ m.resource \in W)
    BY <1>0, <1>2, <1>3, NumbersOfTail DEF OrderInv
  <1>7. OrderInv'
    <2>1. \A c \in Clients : got'[c] <= sent' /\ Beyond(Pending', got'[c]) /\ got[c] < m.id
      BY <1>0, <1>1, <1>6 DEF OrderInv
    <2>2. QED
      BY <1>1, <1>4, <1>5, <1>6, <2>1 DEF OrderInv
  <1>8. ASSUME NEW c \in Clients, NEW n \in owed[c]
        PROVE  Holds(Pending', n, Wanted(c)) \/ (n = m.id /\ c \in S)
    BY <1>0, <1>1, <1>4, <1>6, <1>8 DEF OwedInv
  <1>9. OwedInv'
    <2>1. \A c \in Clients : Wanted(c)' = Wanted(c)
      BY <1>1, WantedFrame
    <2>2. QED
      BY <1>1, <1>5, <1>8, <2>1 DEF OwedInv
  <1>10. Step
    <2>1. S = {} => Settled(m.id, owed)
      <3> SUFFICES ASSUME S = {}, NEW c \in Clients, m.id \in owed[c]
                   PROVE  FALSE
        BY DEF Settled
      <3>1. Holds(Pending', m.id, Wanted(c))
        BY <1>8
      <3>2. QED
        BY <1>3, <1>6, <3>1 DEF Holds, Beyond
    <2>2. Current = Idle /\ (Current' = m \/ (Current' = Idle /\ S = {}))
      BY <1>1, <1>5 DEF Current
    <2>3. QED
      BY <1>1, <1>2, <1>3, <2>1, <2>2, TakeStep
  <1>11. QED
    BY <1>7, <1>9, <1>10 DEF Keeps

LEMMA ReceiveSubscriberKeeps ==
    ASSUME FullInv, ReceiveSubscriber
    PROVE  Keeps
  <1> DEFINE m == Head(queue)
  <1>0. /\ OrderInv /\ OwedInv /\ TypeOK /\ ChanTyped
        /\ \A c \in Clients : owed[c] \in SUBSET (1..MaxEvents)
    BY Basics
  <1>1. /\ TakeOff /\ job = Idle /\ m.kind # "event"
        /\ UNCHANGED <<job, store, heap, sent, got, owed>>
    BY DEF ReceiveSubscriber, TakeOff, storeVars
  <1>2. /\ Pending \in Seq(Message) /\ Pending # <<>> /\ Head(Pending) = m
        /\ Pending' = Tail(Pending)
    BY <1>0, <1>1, TakeOffEffects
  <1>3. ~IsEvent(m) /\ EventNumber(m) = 0
    BY <1>1 DEF IsEvent, EventNumber
  <1> HIDE DEF m
  <1>4. OrderInv'
    <2>1. /\ Ordered(Pending') /\ UpTo(Pending', sent)
          /\ \A k : Beyond(Pending, k) => Beyond(Pending', k)
      BY <1>0, <1>2, NumbersOfTail DEF OrderInv
    <2>2. QED
      BY <1>0, <1>1, <2>1 DEF OrderInv
  <1>5. OwedInv'
    <2>1. \A x, W : Holds(Pending, x, W) => Holds(Pending', x, W)
      BY <1>2, <1>3, NumbersOfTail
    <2>2. \A c \in Clients : Wanted(c)' = Wanted(c)
      BY <1>1, WantedFrame
    <2>3. QED
      BY <1>0, <1>1, <2>1, <2>2 DEF OwedInv
  <1>6. Step
    <2>1. Settled(0, owed)
      BY <1>0 DEF Settled
    <2>2. Current = Idle /\ Current' = Idle
      BY <1>1 DEF Current
    <2>3. QED
      BY <1>1, <1>2, <1>3, <2>1, <2>2, TakeStep
  <1>7. QED
    BY <1>4, <1>5, <1>6 DEF Keeps

\* The handlers report what the store holds, or change the store.
LEMMA WriteKeeps ==
    ASSUME FullInv, NEW t \in Apis, Create(t) \/ Drop(t)
    PROVE  Keeps
  <1>0. TypeOK /\ 0 \in 0..FailLimit
    BY Basics, DeliveryAssumption
  <1>1. CASE Create(t)
    <2>1. /\ api[t].client \in Clients
          /\ \E i \in SubStores, S \in SUBSET Resources : SetEntry(api[t].client, i, 0, S)
      BY <1>0, <1>1, CreateEffects
    <2>2. UNCHANGED <<queue, waiting, sent, got>> /\ JobGoesOn
      BY <1>1 DEF Create, chanVars, JobGoesOn
    <2>3. QED
      BY <1>0, <2>1, <2>2, SetKeeps
  <1>2. CASE Drop(t)
    <2>1. /\ api[t].client \in Clients /\ api[t].copy \in Entry
          /\ \E S \in SUBSET Resources :
                SetEntry(api[t].client, api[t].copy.sub, api[t].copy.fails, S)
      BY <1>0, <1>2, DropEffects
    <2>2. api[t].copy.sub \in SubStores /\ api[t].copy.fails \in 0..FailLimit
      BY <2>1, EntryTyped
    <2>3. UNCHANGED <<queue, waiting, sent, got>> /\ JobGoesOn
      BY <1>2 DEF Drop, chanVars, JobGoesOn
    <2>4. QED
      BY <2>1, <2>2, <2>3, SetKeeps
  <1>3. QED
    BY <1>1, <1>2

LEMMA HandleKeeps ==
    ASSUME FullInv, NEW t \in Apis, Handle(t) \/ DeleteAll(t)
    PROVE  Keeps
  <1>0. TypeOK /\ ChanTyped /\ t \in Thread /\ owed \in [Clients -> SUBSET (1..MaxEvents)]
    BY Basics DEF Thread, TypeOK
  <1>1. ASSUME NEW m \in Message, ~IsEvent(m), Send(t, m),
               UNCHANGED <<job, sent, got, owed, store, heap>>
        PROVE  Keeps
    <2>1. Pending' = Append(Pending, m)
      BY <1>0, <1>1, SendEffects
    <2>2. QED
      BY <1>1, <2>1, RecordKeeps
  <1>2. CASE ReportRecord(t)
    <2>1. api[t].client \in Clients /\ api[t].subs \in SUBSET Resources
      BY <1>0, <1>2, CallTyped DEF ReportRecord
    <2>2. QED
      BY <1>1, <1>2, <2>1, RecordTyped DEF ReportRecord, storeVars, IsEvent
  <1>3. CASE ReportFailed(t)
    <2>1. api[t].client \in Clients
      BY <1>0, <1>3, CallTyped DEF ReportFailed
    <2>2. QED
      BY <1>1, <1>3, <2>1, DeleteTyped DEF ReportFailed, storeVars, IsEvent
  <1>4. ASSUME NEW c \in Clients, Walk(t, c)
        PROVE  Keeps
    <2>1. CASE c \notin Registered
      BY <1>4, <2>1, NothingKeeps DEF Walk, storeVars, chanVars, JobGoesOn
    <2>2. CASE c \in Registered
      <3> DEFINE m == IF api[t].op = "rest" /\ c \notin Marked THEN Record(c, subs[c]) ELSE Delete(c)
      <3>1. subs[c] \in SUBSET Resources
        BY <1>0, <2>2, RegisteredTyped
      <3>2. m \in Message /\ ~IsEvent(m)
        BY <3>1, RecordTyped, DeleteTyped DEF IsEvent
      <3>3. Send(t, m) /\ UNCHANGED <<job, sent, got, owed, store, heap>>
        BY <1>4, <2>2 DEF Walk, storeVars
      <3> HIDE DEF m
      <3>4. QED
        BY <1>1, <3>2, <3>3
    <2>3. QED
      BY <2>1, <2>2
  <1>5. CASE Clear(t)
    <2>1. UNCHANGED <<queue, waiting, sent, got, heap>> /\ JobGoesOn
      BY <1>5 DEF Clear, chanVars, JobGoesOn
    <2>2. PICK S \in SUBSET Registered :
             /\ store' = [c \in Clients |-> IF c \in S THEN Absent ELSE store[c]]
             /\ owed' = [c \in Clients |-> IF c \in S THEN {} ELSE owed[c]]
      BY <1>5 DEF Clear
    <2>3. \A c \in Clients : c \notin S => Wanted(c)' = Wanted(c)
      BY <2>1, <2>2 DEF Wanted, subs
    <2>4. /\ owed' \in [Clients -> SUBSET (1..MaxEvents)]
          /\ \A c \in Clients : owed'[c] \subseteq owed[c]
          /\ \A c \in Clients : \A n \in owed'[c] :
                Holds(Pending, n, Wanted(c)) => Holds(Pending, n, Wanted(c)')
      BY <1>0, <2>2, <2>3
    <2>5. QED
      BY <2>1, <2>4, LeaveKeeps
  <1>6. CASE DeleteAll(t)
    BY <1>6, NothingKeeps DEF DeleteAll, storeVars, chanVars, JobGoesOn
  <1>7. CASE Create(t) \/ Drop(t)
    BY <1>7, WriteKeeps
  <1>8. QED
    BY <1>2, <1>3, <1>4, <1>5, <1>6, <1>7
       DEF Handle, CreateSubscription, CreateSubscriptionFails, DeleteSubscription,
           DeleteSubscriptionFails

\* A handler that has only read the entry has changed nothing yet.
LEMMA ReadKeeps ==
    ASSUME FullInv, NEW t \in Apis, NEW c \in Clients, NEW r \in Resources,
           Subscribe(t, c, r) \/ Unsubscribe(t, c, r)
    PROVE  Keeps
  BY NothingKeeps DEF Subscribe, Unsubscribe, storeVars, chanVars, JobGoesOn

-----------------------------------------------------------------------------
LEMMA InitFullInv == Init => FullInv
  <1> SUFFICES ASSUME Init PROVE OrderInv /\ OwedInv
    BY InitIInv DEF FullInv
  <1>1. IInv /\ DOMAIN Pending = {} /\ job = Idle /\ sent = 0
        /\ (\A c \in Clients : got[c] = 0 /\ owed[c] = {})
    <2>1. queue \in Seq(Message) /\ waiting \in Seq(Blocker) /\ Len(queue) = 0 /\ Len(waiting) = 0
      BY DEF Init
    <2>2. DOMAIN Pending = 1..(Len(queue) + Len(waiting))
      BY <2>1, PendingElements DEF Pending
    <2>3. QED
      BY <2>1, <2>2, InitIInv DEF Init
  <1>2. QED
    BY <1>1 DEF OrderInv, OwedInv, Ordered, Beyond, UpTo

LEMMA NextKeeps == FullInv /\ [Next]_vars => FullInv' /\ Step
  <1> SUFFICES ASSUME FullInv, [Next]_vars PROVE IInv' /\ Keeps
    BY DEF FullInv, Keeps
  <1>1. IInv'
    BY NextIInv DEF FullInv
  <1>2. CASE UNCHANGED vars
    BY <1>1, <1>2, NothingKeeps DEF vars, JobGoesOn
  <1>3. CASE Consumer
    BY <1>1, <1>3, ReceiveEventKeeps, ReceiveSubscriberKeeps, SaveKeeps, CleanUpKeeps,
       PostKeeps DEF Consumer
  <1>4. ASSUME NEW keep \in BOOLEAN, NEW s \in Storages, Restart(keep, s)
        PROVE  Keeps
    BY <1>4, Basics, ReloadedTyped, StartForgets DEF Restart
  <1>5. QED
    BY <1>1, <1>2, <1>3, <1>4, PublishKeeps, SendTimeoutKeeps, HandleKeeps, ReadKeeps
       DEF Next

LEMMA InitMaps == Init => Promise!Init
  BY DEF Init, Promise!Init

-----------------------------------------------------------------------------
\* SendToChannel, ProcessOutChannel and the loop over the clients: messages are
\* handled in the order they were accepted and refused only behind a full
\* buffer; an event is posted to a client at most once, never after a later one,
\* and is not finished with while a client is owed it.
THEOREM DeliversInOrderSafely == Spec => Promise!Init /\ [][Promise!Next]_(Promise!vars)
  <1>1. FullInv /\ [Next]_vars => FullInv' /\ [Promise!Next]_(Promise!vars)
    BY NextKeeps DEF Step
  <1>2. QED
    BY <1>1, InitFullInv, InitMaps, PTL DEF Spec
=============================================================================
