------------------------- MODULE EventDeliveryProofs -------------------------
(***************************************************************************)
(* Proofs about EventDelivery for every set of clients, resources and      *)
(* handlers, every size of the channel, every number of events and every   *)
(* limit of failures: no client is removed without cause, and the config   *)
(* map catches up with the store and restores it after a restart.          *)
(***************************************************************************)
EXTENDS EventDelivery, SequenceTheorems, TLAPS

\* What is accepted and not yet taken off: the buffer, then the blocked senders.
PendingOf(q, w) == q \o [i \in DOMAIN w |-> w[i].msg]
Pending == PendingOf(queue, waiting)

\* Only the handlers wait with something else than an event.
SenderInv == \A i \in DOMAIN waiting : waiting[i].by \in Publishers => waiting[i].msg.kind = "event"

\* No count of failures is above the number of posts that missed the client: not
\* in the store, not in a copy, and not after a copy has been written back.
StoreFails == \A c \in Registered : store[c].fails <= missed[c]
CallFails(t) ==
    api[t] # Idle /\ api[t].op \in {"create", "delete"} /\ api[t].copy # Absent
       => api[t].copy.fails <= missed[api[t].client]
JobFails ==
    job # Idle /\ job.act \in {"reset", "count"}
       => Counted(job.act, job.copy.fails) <= missed[job.whom]
FailInv == StoreFails /\ (\A t \in Apis : CallFails(t)) /\ JobFails

\* What a client marked for deletion has in the config map need not be right.
MarkInv == Marked \subseteq stale

\* The file of a client is what the store holds, unless a write has failed or has
\* overtaken another one.
FileInv == \A c \in Clients \ torn : files[c] = subs[c]

-----------------------------------------------------------------------------
(* The config map: what the records under way will make of it.             *)

About(m, c) == m.kind \in {"record", "delete"} /\ m.client = c
Word(m) == IF m.kind = "delete" THEN Absent ELSE m.subs

\* The last message of s about c says w; without one, base does.
LastWord(s, c, w, base) ==
    \/ (\A i \in DOMAIN s : ~About(s[i], c)) /\ base = w
    \/ \E i \in DOMAIN s : /\ About(s[i], c) /\ Word(s[i]) = w
                           /\ \A j \in DOMAIN s : j > i => ~About(s[j], c)

\* The clients whose record a call has still to send.
Todo(call) ==
    IF call = Idle \/ call.op \in {"create", "delete", "failed"} THEN {}
    ELSE IF call.op = "record" THEN {call.client}
    ELSE call.walk

IsClear(call) == call # Idle /\ call.op = "clear"
Clearing == \E t \in Apis : IsClear(api[t])

\* What the store holds of c after the calls of deleteAllSubscriptions.
Final(c) == IF Clearing THEN Absent ELSE subs[c]

\* A client whose record must be right is reported on by one handler at most.
CallOK(c) ==
    \A t \in Apis :
        /\ c \in Todo(api[t]) => c \in Registered
        /\ c \in ToReport(api[t]) /\ c \in Registered =>
              \A u \in Apis : c \in ToReport(api[u]) => u = t
        /\ api[t] # Idle /\ api[t].op = "record" /\ api[t].client = c => api[t].subs = subs[c]

\* Once no call has still to report on it, the last message about it is right.
WordOK(c) ==
    (\A t \in Apis : c \notin Todo(api[t])) => LastWord(Pending, c, Final(c), cm[c])

\* Without a config map nothing is written: what changes is stale.
UnusedOK(c) == cm[c] = subs[c] /\ (Clearing => c \notin Registered)

MapInv ==
    \A c \in Clients \ stale :
        IF storage = ConfigMap THEN CallOK(c) /\ WordOK(c) ELSE UnusedOK(c)

\* The inductive invariant.
IInv == TypeOK /\ SenderInv /\ FailInv /\ MarkInv /\ FileInv /\ MapInv

-----------------------------------------------------------------------------
(* The channel as one sequence.                                            *)

Blocker == [by : Thread, msg : Message]

LEMMA PendingElements ==
    ASSUME NEW q \in Seq(Message), NEW w \in Seq(Blocker)
    PROVE  /\ PendingOf(q, w) \in Seq(Message)
           /\ Len(PendingOf(q, w)) = Len(q) + Len(w)
           /\ DOMAIN PendingOf(q, w) = 1..(Len(q) + Len(w))
           /\ \A i \in 1..Len(q) : PendingOf(q, w)[i] = q[i]
           /\ \A i \in 1..Len(w) : PendingOf(q, w)[Len(q) + i] = w[i].msg
  <1> DEFINE ms == [i \in 1..Len(w) |-> w[i].msg]
  <1>1. DOMAIN w = 1..Len(w) /\ Len(w) \in Nat /\ Len(q) \in Nat
    BY LenProperties
  <1>2. \A i \in 1..Len(w) : w[i] \in Blocker
    BY ElementOfSeq
  <1>3. ms \in Seq(Message) /\ Len(ms) = Len(w)
    BY <1>1, <1>2 DEF Blocker
  <1>4. PendingOf(q, w) = q \o ms
    BY <1>1 DEF PendingOf
  <1> HIDE DEF ms
  <1>5. /\ q \o ms \in Seq(Message)
        /\ Len(q \o ms) = Len(q) + Len(w)
        /\ \A i \in 1..(Len(q) + Len(w)) : (q \o ms)[i] = IF i <= Len(q) THEN q[i] ELSE ms[i - Len(q)]
    <2>1. /\ q \o ms \in Seq(Message)
          /\ Len(q \o ms) = Len(q) + Len(ms)
          /\ \A i \in 1..Len(q) + Len(ms) : (q \o ms)[i] = IF i <= Len(q) THEN q[i] ELSE ms[i - Len(q)]
      BY <1>3, ConcatProperties, Zenon
    <2>2. QED
      BY <1>3, <2>1
  <1>6. DOMAIN (q \o ms) = 1..(Len(q) + Len(w))
    BY <1>5, LenProperties
  <1>7. \A i \in 1..Len(q) : (q \o ms)[i] = q[i]
    BY <1>1, <1>5
  <1>8. \A i \in 1..Len(w) : (q \o ms)[Len(q) + i] = ms[i]
    <2> TAKE i \in 1..Len(w)
    <2>1. Len(q) + i \in 1..(Len(q) + Len(w)) /\ ~(Len(q) + i <= Len(q)) /\ (Len(q) + i) - Len(q) = i
      BY <1>1
    <2>2. QED
      BY <1>5, <2>1
  <1>9. QED
    BY <1>4, <1>5, <1>6, <1>7, <1>8 DEF ms

\* The sequences that the channel's steps make.
LEMMA AppendElements ==
    ASSUME NEW S, NEW s \in Seq(S), NEW e \in S
    PROVE  /\ Append(s, e) \in Seq(S) /\ Len(Append(s, e)) = Len(s) + 1 /\ Append(s, e) # <<>>
           /\ DOMAIN s = 1..Len(s) /\ DOMAIN Append(s, e) = 1..(Len(s) + 1) /\ Len(s) \in Nat
           /\ \A i \in 1..Len(s) : Append(s, e)[i] = s[i]
           /\ Append(s, e)[Len(s) + 1] = e
  <1>1. /\ Append(s, e) \in Seq(S) /\ Len(Append(s, e)) = Len(s) + 1 /\ Append(s, e) # <<>>
        /\ \A i \in 1..Len(s) : Append(s, e)[i] = s[i]
        /\ Append(s, e)[Len(s) + 1] = e
    BY AppendProperties
  <1>2. DOMAIN s = 1..Len(s) /\ Len(s) \in Nat
    BY LenProperties
  <1>3. DOMAIN Append(s, e) = 1..(Len(s) + 1)
    BY <1>1, LenProperties
  <1>4. QED
    BY <1>1, <1>2, <1>3

LEMMA TailElements ==
    ASSUME NEW S, NEW s \in Seq(S), s # <<>>
    PROVE  /\ Tail(s) \in Seq(S) /\ Len(Tail(s)) = Len(s) - 1 /\ Len(s) \in Nat \ {0}
           /\ DOMAIN s = 1..Len(s) /\ DOMAIN Tail(s) = 1..(Len(s) - 1)
           /\ \A i \in 1..(Len(s) - 1) : Tail(s)[i] = s[i + 1]
           /\ Head(s) = s[1] /\ Head(s) \in S
  <1>1. /\ Head(s) \in S
        /\ Tail(s) \in Seq(S)
        /\ Len(Tail(s)) = Len(s) - 1
        /\ \A i \in 1..Len(Tail(s)) : Tail(s)[i] = s[i + 1]
    BY HeadTailProperties, Zenon
  <1>2. DOMAIN s = 1..Len(s) /\ Len(s) \in Nat \ {0}
    BY LenProperties, EmptySeq
  <1>3. DOMAIN Tail(s) = 1..(Len(s) - 1)
    BY <1>1, LenProperties
  <1>4. Head(s) = s[1]
    OBVIOUS
  <1>5. QED
    BY <1>1, <1>2, <1>3, <1>4

\* An index is the last one, or another one follows.
LEMMA IndexCases ==
    ASSUME NEW n \in Nat, NEW k \in 1..n
    PROVE  k + 1 <= n \/ k = n
  OBVIOUS

\* An index into a sequence of a elements, b elements and one more.
LEMMA IndexOfThree ==
    ASSUME NEW a \in Nat, NEW b \in Nat, NEW i \in 1..(a + b + 1)
    PROVE  /\ i \in Nat
           /\ i <= a \/ (a < i /\ i <= a + b) \/ i = a + b + 1
           /\ i <= a => i \in 1..a /\ i \in 1..(a + b)
           /\ a < i /\ i <= a + b => i \in 1..(a + b) /\ i - a \in 1..b /\ a + (i - a) = i
  OBVIOUS

Without(s, k) == SubSeq(s, 1, k - 1) \o SubSeq(s, k + 1, Len(s))

LEMMA WithoutElements ==
    ASSUME NEW S, NEW s \in Seq(S), NEW k \in 1..Len(s)
    PROVE  /\ Without(s, k) \in Seq(S) /\ Len(Without(s, k)) = Len(s) - 1 /\ Len(s) \in Nat \ {0}
           /\ DOMAIN s = 1..Len(s) /\ DOMAIN Without(s, k) = 1..(Len(s) - 1)
           /\ \A i \in 1..(Len(s) - 1) : Without(s, k)[i] = IF i < k THEN s[i] ELSE s[i + 1]
  <1> DEFINE a == SubSeq(s, 1, k - 1)
             b == SubSeq(s, k + 1, Len(s))
  <1>1. DOMAIN s = 1..Len(s) /\ Len(s) \in Nat \ {0} /\ \A i \in 1..Len(s) : s[i] \in S
    BY LenProperties, ElementOfSeq
  <1>2. a \in Seq(S) /\ Len(a) = k - 1 /\ \A i \in 1..(k - 1) : a[i] = s[i]
    <2>1. \A i \in 1..(k - 1) : s[i] \in S
      BY <1>1
    <2>2. /\ SubSeq(s, 1, k - 1) \in Seq(S)
          /\ Len(SubSeq(s, 1, k - 1)) = IF 1 <= k - 1 THEN (k - 1) - 1 + 1 ELSE 0
          /\ \A i \in 1..(k - 1) - 1 + 1 : SubSeq(s, 1, k - 1)[i] = s[1 + i - 1]
      BY <1>1, <2>1, SubSeqProperties
    <2>3. QED
      BY <1>1, <2>2
  <1>3. b \in Seq(S) /\ Len(b) = Len(s) - k /\ \A i \in 1..(Len(s) - k) : b[i] = s[k + i]
    <2>1. \A i \in (k + 1)..Len(s) : s[i] \in S
      BY <1>1
    <2>2. /\ SubSeq(s, k + 1, Len(s)) \in Seq(S)
          /\ Len(SubSeq(s, k + 1, Len(s))) = IF k + 1 <= Len(s) THEN Len(s) - (k + 1) + 1 ELSE 0
          /\ \A i \in 1..Len(s) - (k + 1) + 1 : SubSeq(s, k + 1, Len(s))[i] = s[(k + 1) + i - 1]
      BY <1>1, <2>1, SubSeqProperties
    <2>3. Len(s) - (k + 1) + 1 = Len(s) - k /\ \A i \in 1..(Len(s) - k) : (k + 1) + i - 1 = k + i
      BY <1>1
    <2>4. Len(b) = Len(s) - k
      <3>1. CASE k + 1 <= Len(s)
        BY <1>1, <2>2, <2>3, <3>1
      <3>2. CASE k = Len(s)
        <4>1. ~(k + 1 <= Len(s)) /\ Len(s) - k = 0
          BY <1>1, <3>2
        <4>2. QED
          BY <2>2, <4>1
      <3>3. QED
        <4>1. k + 1 <= Len(s) \/ k = Len(s)
          BY <1>1, IndexCases
        <4>2. QED
          BY <3>1, <3>2, <4>1
    <2>5. QED
      BY <2>2, <2>3, <2>4
  <1> HIDE DEF a, b
  <1>4. /\ a \o b \in Seq(S)
        /\ Len(a \o b) = Len(a) + Len(b)
        /\ \A i \in 1..Len(a) + Len(b) : (a \o b)[i] = IF i <= Len(a) THEN a[i] ELSE b[i - Len(a)]
    BY <1>2, <1>3, ConcatProperties, Zenon
  <1>5. Without(s, k) = a \o b
    BY DEF Without, a, b
  <1>6. \A i \in 1..(Len(s) - 1) : (a \o b)[i] = IF i < k THEN s[i] ELSE s[i + 1]
    <2> TAKE i \in 1..(Len(s) - 1)
    <2>1. CASE i < k
      BY <1>1, <1>2, <1>3, <1>4, <2>1
    <2>2. CASE ~(i < k)
      <3>1. i - Len(a) \in 1..(Len(s) - k) /\ k + (i - Len(a)) = i + 1
        BY <1>1, <1>2, <2>2
      <3>2. QED
        <4>1. (a \o b)[i] = b[i - Len(a)]
          BY <1>1, <1>2, <1>3, <1>4, <2>2
        <4>2. b[i - Len(a)] = s[i + 1]
          BY <1>3, <3>1
        <4>3. QED
          BY <2>2, <4>1, <4>2
    <2>3. QED
      BY <2>1, <2>2
  <1>7. Len(a \o b) = Len(s) - 1
    BY <1>1, <1>2, <1>3, <1>4
  <1>8. DOMAIN (a \o b) = 1..(Len(s) - 1)
    BY <1>4, <1>7, LenProperties
  <1>9. QED
    BY <1>1, <1>4, <1>5, <1>6, <1>7, <1>8, Zenon

-----------------------------------------------------------------------------
(* What the steps of the channel do to it.                                 *)

ChanTyped ==
    /\ queue \in Seq(Message) /\ Len(queue) <= Cap
    /\ waiting \in Seq(Blocker)
    /\ waiting # <<>> => Len(queue) = Cap

LEMMA TypeOKChan == TypeOK => ChanTyped
  BY DEF TypeOK, ChanTyped, Blocker

LEMMA SendEffects ==
    ASSUME ChanTyped, NEW t \in Thread, NEW m \in Message, Send(t, m)
    PROVE  /\ ChanTyped'
           /\ Pending' = Append(Pending, m)
           /\ SenderInv /\ (t \in Publishers => m.kind = "event") => SenderInv'
  <1> DEFINE s == Append(Pending, m)
  <1>1. Cap \in Nat \ {0} /\ Len(queue) \in Nat /\ Len(waiting) \in Nat
    BY DeliveryAssumption, LenProperties DEF ChanTyped
  <1>2. /\ Pending \in Seq(Message) /\ Len(Pending) = Len(queue) + Len(waiting)
        /\ \A i \in 1..Len(queue) : Pending[i] = queue[i]
        /\ \A i \in 1..Len(waiting) : Pending[Len(queue) + i] = waiting[i].msg
    BY PendingElements DEF ChanTyped, Pending
  <1>3. /\ s \in Seq(Message) /\ Len(s) = Len(Pending) + 1
        /\ \A i \in 1..Len(Pending) : s[i] = Pending[i]
        /\ s[Len(Pending) + 1] = m
    BY <1>2, AppendElements
  <1> HIDE DEF s
  <1>4. CASE Len(queue) < Cap
    <2>1. waiting = <<>> /\ queue' = Append(queue, m) /\ waiting' = waiting
      BY <1>1, <1>4 DEF ChanTyped, Send
    <2>2. /\ queue' \in Seq(Message) /\ Len(queue') = Len(queue) + 1
          /\ \A i \in 1..Len(queue) : queue'[i] = queue[i]
          /\ queue'[Len(queue) + 1] = m
      BY <2>1, AppendElements DEF ChanTyped
    <2>3. ChanTyped' /\ (SenderInv => SenderInv')
      BY <1>1, <1>4, <2>1, <2>2 DEF ChanTyped, SenderInv
    <2>4. Len(waiting') = 0 /\ waiting' \in Seq(Blocker)
      BY <2>1 DEF ChanTyped
    <2>5. /\ Pending' \in Seq(Message) /\ Len(Pending') = Len(queue) + 1
          /\ \A i \in 1..(Len(queue) + 1) : Pending'[i] = queue'[i]
      <3>1. /\ Pending' \in Seq(Message) /\ Len(Pending') = Len(queue') + Len(waiting')
            /\ \A i \in 1..Len(queue') : Pending'[i] = queue'[i]
        BY <2>2, <2>4, PendingElements DEF Pending
      <3>2. QED
        BY <1>1, <2>2, <2>4, <3>1
    <2>6. Len(s) = Len(queue) + 1 /\ \A i \in 1..(Len(queue) + 1) : s[i] = queue'[i]
      BY <1>1, <1>2, <1>3, <2>1, <2>2, <2>4
    <2>7. Pending' = s
      BY <1>3, <2>5, <2>6, SeqEqual
    <2>8. QED
      BY <2>3, <2>7 DEF s
  <1>5. CASE ~(Len(queue) < Cap)
    <2> DEFINE e == [by |-> t, msg |-> m]
    <2>1. e \in Blocker /\ waiting' = Append(waiting, e) /\ queue' = queue /\ Len(queue) = Cap
      BY <1>1, <1>5 DEF Blocker, ChanTyped, Send
    <2>e. e.by = t /\ e.msg = m
      OBVIOUS
    <2> HIDE DEF e
    <2>2. /\ waiting' \in Seq(Blocker) /\ Len(waiting') = Len(waiting) + 1
          /\ DOMAIN waiting = 1..Len(waiting) /\ DOMAIN waiting' = 1..(Len(waiting) + 1)
          /\ \A i \in 1..Len(waiting) : waiting'[i] = waiting[i]
          /\ waiting'[Len(waiting) + 1] = e
      BY <2>1, AppendElements DEF ChanTyped
    <2>3. ChanTyped'
      BY <1>1, <2>1, <2>2 DEF ChanTyped
    <2>4. SenderInv /\ (t \in Publishers => m.kind = "event") => SenderInv'
      BY <1>1, <2>e, <2>2 DEF SenderInv
    <2>5. /\ Pending' \in Seq(Message) /\ Len(Pending') = Len(queue) + Len(waiting) + 1
          /\ \A i \in 1..Len(queue) : Pending'[i] = queue[i]
          /\ \A i \in 1..(Len(waiting) + 1) : Pending'[Len(queue) + i] = waiting'[i].msg
      <3>1. /\ Pending' \in Seq(Message) /\ Len(Pending') = Len(queue') + Len(waiting')
            /\ \A i \in 1..Len(queue') : Pending'[i] = queue'[i]
            /\ \A i \in 1..Len(waiting') : Pending'[Len(queue') + i] = waiting'[i].msg
        BY <2>3, PendingElements DEF ChanTyped, Pending
      <3>2. Len(queue') = Len(queue) /\ Len(waiting') = Len(waiting) + 1
        BY <2>1, <2>2
      <3>3. Len(queue) + (Len(waiting) + 1) = Len(queue) + Len(waiting) + 1
        BY <1>1
      <3>4. QED
        BY <2>1, <3>1, <3>2, <3>3
    <2> DEFINE a == Len(queue)
               b == Len(waiting)
    <2>6. \A i \in 1..Len(s) : Pending'[i] = s[i]
      <3>1. a \in Nat /\ b \in Nat /\ Len(Pending) = a + b /\ Len(s) = a + b + 1
        BY <1>1, <1>2, <1>3
      <3>2. /\ \A i \in 1..a : Pending'[i] = queue[i] /\ Pending[i] = queue[i]
            /\ \A i \in 1..b : /\ Pending'[a + i] = waiting'[i].msg /\ Pending[a + i] = waiting[i].msg
                               /\ waiting'[i] = waiting[i]
            /\ \A i \in 1..(a + b) : s[i] = Pending[i]
        BY <1>1, <1>2, <1>3, <2>2, <2>5
      <3>3. Pending'[a + b + 1] = m /\ s[a + b + 1] = m
        <4>1. Pending'[a + (b + 1)] = waiting'[b + 1].msg
          BY <1>1, <2>5
        <4>2. a + (b + 1) = a + b + 1
          BY <3>1
        <4>3. QED
          BY <1>2, <1>3, <2>e, <2>2, <4>1, <4>2
      <3> HIDE DEF a, b
      <3> SUFFICES ASSUME NEW i \in 1..(a + b + 1)
                   PROVE  Pending'[i] = s[i]
        BY <3>1
      <3>4. CASE i <= a
        <4>1. i \in 1..a /\ i \in 1..(a + b)
          BY <3>1, <3>4, IndexOfThree
        <4>2. QED
          BY <3>2, <4>1
      <3>5. CASE a < i /\ i <= a + b
        <4>1. i \in 1..(a + b) /\ i - a \in 1..b /\ a + (i - a) = i
          BY <3>1, <3>5, IndexOfThree
        <4>2. Pending'[i] = waiting'[i - a].msg /\ Pending[i] = waiting[i - a].msg
              /\ waiting'[i - a] = waiting[i - a]
          BY <3>2, <4>1
        <4>3. QED
          BY <3>2, <4>1, <4>2
      <3>6. QED
        BY <3>1, <3>3, <3>4, <3>5, IndexOfThree
    <2>7. Len(Pending') = Len(s)
      BY <1>1, <1>2, <1>3, <2>5
    <2>8. Pending' = s
      BY <1>3, <2>5, <2>6, <2>7, SeqEqual
    <2>9. QED
      BY <2>3, <2>4, <2>8 DEF s
  <1>6. QED
    BY <1>4, <1>5

\* TakeOff takes the first pending message, and the order stays.
LEMMA TakeOffEffects ==
    ASSUME ChanTyped, TakeOff
    PROVE  /\ ChanTyped'
           /\ Pending \in Seq(Message) /\ Pending # <<>>
           /\ Head(Pending) = Head(queue) /\ Head(queue) \in Message
           /\ Pending' = Tail(Pending)
           /\ SenderInv => SenderInv'
  <1> DEFINE s == Tail(Pending)
  <1>1. /\ Cap \in Nat \ {0} /\ Len(queue) \in Nat \ {0} /\ Len(waiting) \in Nat
        /\ queue # <<>> /\ queue \in Seq(Message) /\ waiting \in Seq(Blocker)
    BY DeliveryAssumption, LenProperties, EmptySeq DEF ChanTyped, TakeOff
  <1>2. /\ Pending \in Seq(Message) /\ Len(Pending) = Len(queue) + Len(waiting)
        /\ \A i \in 1..Len(queue) : Pending[i] = queue[i]
        /\ \A i \in 1..Len(waiting) : Pending[Len(queue) + i] = waiting[i].msg
    BY <1>1, PendingElements DEF Pending
  <1>3. Pending # <<>>
    BY <1>1, <1>2, EmptySeq
  <1>4. /\ s \in Seq(Message) /\ Len(s) = Len(Pending) - 1
        /\ \A i \in 1..(Len(Pending) - 1) : s[i] = Pending[i + 1]
        /\ Head(Pending) = Pending[1]
    BY <1>2, <1>3, TailElements
  <1>5. /\ Tail(queue) \in Seq(Message) /\ Len(Tail(queue)) = Len(queue) - 1
        /\ \A i \in 1..(Len(queue) - 1) : Tail(queue)[i] = queue[i + 1]
        /\ Head(queue) = queue[1] /\ Head(queue) \in Message
    BY <1>1, TailElements
  <1>6. Head(Pending) = Head(queue)
    BY <1>1, <1>2, <1>4, <1>5
  <1> HIDE DEF s
  <1>7. CASE waiting = <<>>
    <2>1. queue' = Tail(queue) /\ waiting' = <<>> /\ Len(waiting) = 0 /\ Len(waiting') = 0
      BY <1>7 DEF TakeOff
    <2>2. waiting' \in Seq(Blocker)
      BY <2>1, EmptySeq
    <2>3. ChanTyped' /\ SenderInv'
      BY <1>1, <1>5, <2>1, <2>2 DEF ChanTyped, SenderInv
    <2>4. /\ Pending' \in Seq(Message) /\ Len(Pending') = Len(queue') + Len(waiting')
          /\ \A i \in 1..Len(queue') : Pending'[i] = queue'[i]
      <3>1. Pending' = PendingOf(queue', waiting') /\ queue' \in Seq(Message)
        BY <1>5, <2>1 DEF Pending
      <3>2. QED
        BY <2>2, <3>1, PendingElements
    <2>5. Len(queue') = Len(queue) - 1 /\ Len(Pending') = Len(queue) - 1 /\ Len(s) = Len(queue) - 1
      BY <1>1, <1>2, <1>4, <1>5, <2>1, <2>4
    <2>6. \A i \in 1..Len(s) : Pending'[i] = s[i]
      <3> TAKE i \in 1..Len(s)
      <3>1. i + 1 \in 1..Len(queue)
        BY <1>1, <2>5
      <3>2. Pending'[i] = queue[i + 1]
        BY <1>5, <2>1, <2>4, <2>5
      <3>3. s[i] = Pending[i + 1]
        BY <1>1, <1>2, <1>4, <2>5
      <3>4. QED
        BY <1>2, <3>1, <3>2, <3>3
    <2>7. Pending' = s
      BY <1>4, <2>4, <2>5, <2>6, SeqEqual
    <2>8. QED
      BY <1>2, <1>3, <1>5, <1>6, <2>3, <2>7 DEF s
  <1>8. CASE waiting # <<>>
    <2> DEFINE h == Head(waiting)
    <2>1. queue' = Append(Tail(queue), h.msg) /\ waiting' = Tail(waiting) /\ Len(queue) = Cap
      BY <1>8 DEF TakeOff, ChanTyped
    <2>2. /\ Tail(waiting) \in Seq(Blocker) /\ Len(Tail(waiting)) = Len(waiting) - 1
          /\ Len(waiting) \in Nat \ {0}
          /\ DOMAIN waiting = 1..Len(waiting) /\ DOMAIN Tail(waiting) = 1..(Len(waiting) - 1)
          /\ \A i \in 1..(Len(waiting) - 1) : Tail(waiting)[i] = waiting[i + 1]
          /\ h = waiting[1] /\ h \in Blocker
      BY <1>1, <1>8, TailElements
    <2> HIDE DEF h
    <2>3. h.msg \in Message
      BY <2>2 DEF Blocker
    <2>4. /\ queue' \in Seq(Message) /\ Len(queue') = Len(queue)
          /\ \A i \in 1..(Len(queue) - 1) : queue'[i] = Tail(queue)[i]
          /\ queue'[Len(queue)] = h.msg
      <3>1. /\ queue' \in Seq(Message) /\ Len(queue') = Len(Tail(queue)) + 1
            /\ \A i \in 1..Len(Tail(queue)) : queue'[i] = Tail(queue)[i]
            /\ queue'[Len(Tail(queue)) + 1] = h.msg
        BY <1>5, <2>1, <2>3, AppendElements
      <3>2. Len(Tail(queue)) + 1 = Len(queue)
        BY <1>1, <1>5
      <3>3. QED
        BY <1>5, <3>1, <3>2
    <2>5. ChanTyped'
      BY <1>1, <2>1, <2>2, <2>4 DEF ChanTyped
    <2>6. SenderInv => SenderInv'
      <3> SUFFICES ASSUME SenderInv, NEW i \in DOMAIN waiting', waiting'[i].by \in Publishers
                   PROVE  waiting'[i].msg.kind = "event"
        BY DEF SenderInv
      <3>1. i \in 1..(Len(waiting) - 1) /\ waiting'[i] = waiting[i + 1] /\ i + 1 \in DOMAIN waiting
        BY <2>1, <2>2
      <3>2. QED
        BY <3>1 DEF SenderInv
    <2>7. /\ Pending' \in Seq(Message) /\ Len(Pending') = Len(queue') + Len(waiting')
          /\ \A i \in 1..Len(queue') : Pending'[i] = queue'[i]
          /\ \A i \in 1..Len(waiting') : Pending'[Len(queue') + i] = waiting'[i].msg
      BY <2>5, PendingElements DEF ChanTyped, Pending
    <2>8. Len(Pending') = Len(s) /\ Len(s) = Len(queue) + Len(waiting) - 1 /\ Len(waiting') = Len(waiting) - 1
      BY <1>1, <1>2, <1>4, <2>1, <2>2, <2>4, <2>7
    <2>9. \A i \in 1..Len(s) : Pending'[i] = s[i]
      <3> TAKE i \in 1..Len(s)
      <3>0. s[i] = Pending[i + 1]
        BY <1>1, <1>2, <1>4, <2>8
      <3>1. CASE i <= Len(queue) - 1
        <4>1. i \in 1..(Len(queue) - 1) /\ i + 1 \in 1..Len(queue) /\ i \in 1..Len(queue)
          BY <1>1, <3>1
        <4>2. Pending'[i] = queue'[i] /\ queue'[i] = Tail(queue)[i] /\ Tail(queue)[i] = queue[i + 1]
          BY <1>5, <2>4, <2>7, <4>1
        <4>3. QED
          BY <1>2, <3>0, <4>1, <4>2
      <3>2. CASE i = Len(queue)
        <4>1. Pending'[i] = h.msg
          BY <1>1, <2>4, <2>7, <3>2
        <4>2. Pending[Len(queue) + 1] = waiting[1].msg
          BY <1>2, <2>2
        <4>3. QED
          BY <2>2, <3>0, <3>2, <4>1, <4>2
      <3>3. CASE Len(queue) < i
        <4> DEFINE j == i - Len(queue)
        <4>1. j \in 1..(Len(waiting) - 1) /\ j + 1 \in 1..Len(waiting)
              /\ Len(queue) + j = i /\ Len(queue) + (j + 1) = i + 1
          BY <1>1, <2>2, <2>8, <3>3
        <4> HIDE DEF j
        <4>2. Pending'[i] = waiting'[j].msg
          BY <2>4, <2>7, <2>8, <4>1
        <4>3. waiting'[j] = waiting[j + 1]
          BY <2>1, <2>2, <4>1
        <4>4. Pending[i + 1] = waiting[j + 1].msg
          BY <1>2, <4>1
        <4>5. QED
          BY <3>0, <4>2, <4>3, <4>4
      <3>4. QED
        BY <1>1, <2>8, <3>1, <3>2, <3>3
    <2>10. Pending' = s
      BY <1>4, <2>7, <2>8, <2>9, SeqEqual
    <2>11. QED
      BY <1>2, <1>3, <1>5, <1>6, <2>5, <2>6, <2>10 DEF s
  <1>9. QED
    BY <1>7, <1>8

\* A blocked sender that gives up leaves the others in their order.
LEMMA GiveUpEffects ==
    ASSUME ChanTyped, NEW i \in DOMAIN waiting, waiting' = RemoveAt(waiting, i), queue' = queue
    PROVE  /\ ChanTyped'
           /\ Pending \in Seq(Message) /\ Len(queue) + i \in 1..Len(Pending) /\ Len(queue) + i > Cap
           /\ DOMAIN Pending = 1..Len(Pending)
           /\ Pending[Len(queue) + i] = waiting[i].msg
           /\ Pending' = Without(Pending, Len(queue) + i)
           /\ SenderInv => SenderInv'
  <1> DEFINE k == Len(queue) + i
             s == Without(Pending, k)
  <1>1. /\ Cap \in Nat \ {0} /\ Len(queue) \in Nat /\ Len(waiting) \in Nat
        /\ queue \in Seq(Message) /\ waiting \in Seq(Blocker) /\ i \in 1..Len(waiting)
        /\ Len(queue) = Cap
    BY DeliveryAssumption, LenProperties, EmptySeq DEF ChanTyped
  <1>2. /\ Pending \in Seq(Message) /\ Len(Pending) = Len(queue) + Len(waiting)
        /\ DOMAIN Pending = 1..(Len(queue) + Len(waiting))
        /\ \A j \in 1..Len(queue) : Pending[j] = queue[j]
        /\ \A j \in 1..Len(waiting) : Pending[Len(queue) + j] = waiting[j].msg
    BY <1>1, PendingElements DEF Pending
  <1>3. k \in 1..Len(Pending) /\ k > Cap
    BY <1>1, <1>2
  <1>4. /\ waiting' \in Seq(Blocker) /\ Len(waiting') = Len(waiting) - 1
        /\ DOMAIN waiting = 1..Len(waiting) /\ DOMAIN waiting' = 1..(Len(waiting) - 1)
        /\ \A j \in 1..(Len(waiting) - 1) : waiting'[j] = IF j < i THEN waiting[j] ELSE waiting[j + 1]
    BY <1>1, WithoutElements DEF Without, RemoveAt
  <1>5. /\ s \in Seq(Message) /\ Len(s) = Len(Pending) - 1
        /\ \A j \in 1..(Len(Pending) - 1) : s[j] = IF j < k THEN Pending[j] ELSE Pending[j + 1]
    BY <1>2, <1>3, WithoutElements
  <1> HIDE DEF s
  <1>6. ChanTyped'
    BY <1>1, <1>4 DEF ChanTyped
  <1>7. SenderInv => SenderInv'
    <2> SUFFICES ASSUME SenderInv, NEW j \in DOMAIN waiting', waiting'[j].by \in Publishers
                 PROVE  waiting'[j].msg.kind = "event"
      BY DEF SenderInv
    <2>1. j \in DOMAIN waiting /\ j + 1 \in DOMAIN waiting
      BY <1>1, <1>4
    <2>2. waiting'[j] = waiting[j] \/ waiting'[j] = waiting[j + 1]
      BY <1>4
    <2>3. QED
      BY <2>1, <2>2 DEF SenderInv
  <1>8. /\ Pending' \in Seq(Message) /\ Len(Pending') = Len(queue) + Len(waiting')
        /\ \A j \in 1..Len(queue) : Pending'[j] = queue[j]
        /\ \A j \in 1..Len(waiting') : Pending'[Len(queue) + j] = waiting'[j].msg
    <2>1. Pending' = PendingOf(queue, waiting')
      BY DEF Pending
    <2>2. QED
      BY <1>1, <1>4, <2>1, PendingElements
  <1>9. Len(Pending') = Len(s) /\ Len(s) = Len(queue) + Len(waiting) - 1
    BY <1>1, <1>2, <1>4, <1>5, <1>8
  <1>10. \A j \in 1..Len(s) : Pending'[j] = s[j]
    <2> TAKE j \in 1..Len(s)
    <2>1. s[j] = IF j < k THEN Pending[j] ELSE Pending[j + 1]
      BY <1>1, <1>2, <1>5, <1>9
    <2>2. CASE j <= Len(queue)
      BY <1>1, <1>2, <1>8, <2>1, <2>2
    <2>3. CASE Len(queue) < j
      <3> DEFINE n == j - Len(queue)
      <3>1. /\ n \in 1..(Len(waiting) - 1) /\ n \in 1..Len(waiting) /\ n + 1 \in 1..Len(waiting)
            /\ Len(queue) + n = j /\ Len(queue) + (n + 1) = j + 1
            /\ (j < k <=> n < i)
        BY <1>1, <1>9, <2>3
      <3> HIDE DEF n
      <3>2. Pending'[j] = waiting'[n].msg
        BY <1>4, <1>8, <3>1
      <3>3. waiting'[n] = IF n < i THEN waiting[n] ELSE waiting[n + 1]
        BY <1>4, <3>1
      <3>4. Pending[j] = waiting[n].msg /\ Pending[j + 1] = waiting[n + 1].msg
        BY <1>2, <3>1
      <3>5. QED
        BY <2>1, <3>1, <3>2, <3>3, <3>4
    <2>4. QED
      BY <1>1, <1>9, <2>2, <2>3
  <1>11. Pending' = s
    BY <1>5, <1>8, <1>9, <1>10, SeqEqual
  <1>12. QED
    BY <1>1, <1>2, <1>3, <1>6, <1>7, <1>11 DEF s

-----------------------------------------------------------------------------
(* Types.                                                                  *)

LEMMA MessageKinds ==
    ASSUME NEW m \in Message
    PROVE  /\ m.kind \in {"event", "record", "delete", "failed"}
           /\ m.kind = "event" => m \in EventMessage /\ m.id \in 1..MaxEvents /\ m.resource \in Resources
           /\ m.kind # "event" => m.client \in Clients
           /\ m.kind = "record" => m.subs \in SUBSET Resources
  BY DEF Message, EventMessage

LEMMA EventTyped ==
    ASSUME NEW n \in 1..MaxEvents, NEW r \in Resources
    PROVE  /\ Event(n, r) \in Message /\ Event(n, r) \in EventMessage
           /\ Event(n, r).kind = "event" /\ Event(n, r).id = n /\ Event(n, r).resource = r
  BY DEF Event, Message, EventMessage

LEMMA RecordTyped ==
    ASSUME NEW c \in Clients, NEW S \in SUBSET Resources
    PROVE  /\ Record(c, S) \in Message /\ Record(c, S).kind = "record" /\ Record(c, S).client = c
           /\ Word(Record(c, S)) = S
  BY DEF Record, Message, Word

LEMMA DeleteTyped ==
    ASSUME NEW c \in Clients
    PROVE  /\ Delete(c) \in Message /\ Delete(c).kind = "delete" /\ Delete(c).client = c
           /\ Word(Delete(c)) = Absent
           /\ Failed(c) \in Message /\ Failed(c).kind = "failed"
  BY DEF Delete, Failed, Message, Word

LEMMA JobTyped ==
    ASSUME TypeOK, job # Idle
    PROVE  /\ job \in Job /\ job.msg \in EventMessage /\ job.msg \in Message /\ job.msg.kind = "event"
           /\ job.msg.id \in 1..MaxEvents /\ job.todo \in SUBSET Clients
           /\ job.act \in {"post", "reset", "count", "remove"}
           /\ job.act = "post" => job.whom = Absent /\ job.copy = Absent
           /\ job.act # "post" => job.whom \in Clients
           /\ job.act \in {"reset", "count"} => job.copy \in Entry
           /\ job.act = "remove" => job.copy = Absent
           /\ job = [msg |-> job.msg, todo |-> job.todo, act |-> job.act, whom |-> job.whom,
                     copy |-> job.copy]
  BY DEF TypeOK, Job, EventMessage, Message

LEMMA EntryTyped ==
    ASSUME NEW e \in Entry
    PROVE  e.sub \in SubStores /\ e.fails \in 0..FailLimit /\ e # Absent
  BY NothingAssumption DEF Entry

LEMMA CallTyped ==
    ASSUME TypeOK, NEW t \in Apis, api[t] # Idle
    PROVE  /\ api[t] \in Call
           /\ api[t].op \in {"create", "delete", "record", "failed", "rest", "clear"}
           /\ api[t].op \in {"create", "delete"} =>
                 /\ api[t].client \in Clients /\ api[t].resource \in Resources
                 /\ api[t].copy \in Entry \cup {Absent}
           /\ api[t].op = "delete" => api[t].copy \in Entry /\ api[t].file \in Subscription
           /\ api[t].op = "record" => /\ api[t].client \in Clients
                                      /\ api[t].subs \in SUBSET Resources
           /\ api[t].op = "failed" => api[t].client \in Clients
           /\ api[t].op \in {"rest", "clear"} => /\ api[t].walk \in SUBSET Clients
                                                 /\ api[t] = [op |-> api[t].op, walk |-> api[t].walk]
  BY DEF TypeOK, Call

\* What PostTo leaves ProcessOutChannel with.
LEMMA PostToEffects ==
    ASSUME NEW m \in EventMessage, NEW S \in SUBSET Clients, PostTo(m, S)
    PROVE  /\ job' \in Job \cup {Idle}
           /\ S = {} => job' = Idle
           /\ S # {} => job' # Idle /\ job'.msg = m /\ job'.todo = S /\ job'.act = "post"
  <1>1. [msg |-> m, todo |-> S, act |-> "post", whom |-> Absent, copy |-> Absent] \in Job
    BY DEF Job
  <1>2. QED
    BY <1>1, NothingAssumption DEF PostTo

\* TypeOK is about the channel, and about the rest.
RestTyped ==
    /\ job \in Job \cup {Idle}
    /\ api \in [Apis -> Call \cup {Idle}]
    /\ store \in [Clients -> Entry \cup {Absent}]
    /\ heap \in [Clients -> [SubStores -> SUBSET Resources]]
    /\ files \in [Clients -> Subscription]
    /\ cm \in [Clients -> Subscription]
    /\ storage \in Storages
    /\ sent \in 0..MaxEvents
    /\ got \in [Clients -> 0..MaxEvents]
    /\ owed \in [Clients -> SUBSET (1..MaxEvents)]
    /\ missed \in [Clients -> 0..FailLimit]
    /\ stale \subseteq Clients
    /\ torn \subseteq Clients

LEMMA TypeOKSplits == TypeOK <=> ChanTyped /\ RestTyped
  BY DEF TypeOK, ChanTyped, RestTyped, Blocker

\* Who is in the store has subscriptions, perhaps none.
SubsTyped ==
    /\ subs \in [Clients -> Subscription]
    /\ Registered \subseteq Clients
    /\ \A c \in Clients : (c \in Registered <=> subs[c] # Absent)
    /\ \A c \in Registered : subs[c] \in SUBSET Resources /\ store[c] \in Entry
    /\ \A c \in Clients \ Registered : store[c] = Absent

LEMMA SubsAreTyped == TypeOK => SubsTyped
  <1> SUFFICES ASSUME TypeOK PROVE SubsTyped
    OBVIOUS
  <1>1. \A c \in Clients : store[c] # Absent =>
           store[c] \in Entry /\ subs[c] = heap[c][store[c].sub] /\ subs[c] \in SUBSET Resources
    BY EntryTyped DEF TypeOK, subs
  <1>2. \A c \in Clients : store[c] = Absent => subs[c] = Absent
    BY DEF subs
  <1>3. subs \in [Clients -> Subscription]
    BY <1>1, <1>2 DEF subs, Subscription
  <1>4. QED
    BY <1>1, <1>2, <1>3, NothingAssumption DEF SubsTyped, Registered

LEMMA SubsStayTyped == TypeOK' => SubsTyped'
  BY SubsAreTyped, PTL

LEMMA RegisteredTyped ==
    ASSUME TypeOK, NEW c \in Registered
    PROVE  c \in Clients /\ subs[c] \in SUBSET Resources
  BY SubsAreTyped DEF SubsTyped

\* Whatever leaves the entries and the SubStores alone leaves the subscriptions.
LEMMA SubsFrame ==
    ASSUME UNCHANGED <<store, heap>>
    PROVE  subs' = subs /\ Registered' = Registered /\ Marked' = Marked
  BY DEF subs, Registered, Marked

\* The pending messages and the one being posted are under way.
LEMMA UnderWayTyped ==
    ASSUME TypeOK
    PROVE  /\ UnderWay \subseteq Message
           /\ \A i \in DOMAIN Pending : Pending[i] \in UnderWay
  <1>1. /\ queue \in Seq(Message) /\ waiting \in Seq(Blocker)
        /\ DOMAIN queue = 1..Len(queue) /\ DOMAIN waiting = 1..Len(waiting)
        /\ Len(queue) \in Nat /\ Len(waiting) \in Nat
    BY LenProperties DEF TypeOK, Blocker
  <1>2. \A i \in DOMAIN queue : queue[i] \in Message
    BY <1>1, ElementOfSeq
  <1>3. \A i \in DOMAIN waiting : waiting[i].msg \in Message
    <2>1. \A i \in DOMAIN waiting : waiting[i] \in Blocker
      BY <1>1, ElementOfSeq
    <2>2. QED
      BY <2>1 DEF Blocker
  <1>4. UnderWay \subseteq Message
    BY <1>2, <1>3, JobTyped DEF UnderWay
  <1>5. /\ DOMAIN Pending = 1..(Len(queue) + Len(waiting))
        /\ \A i \in 1..Len(queue) : Pending[i] = queue[i]
        /\ \A i \in 1..Len(waiting) : Pending[Len(queue) + i] = waiting[i].msg
    BY <1>1, PendingElements DEF Pending
  <1>6. ASSUME NEW i \in DOMAIN Pending PROVE Pending[i] \in UnderWay
    <2>1. CASE i <= Len(queue)
      BY <1>1, <1>5, <1>6, <2>1 DEF UnderWay
    <2>2. CASE Len(queue) < i
      <3>1. i - Len(queue) \in 1..Len(waiting) /\ Len(queue) + (i - Len(queue)) = i
        BY <1>1, <1>5, <1>6, <2>2
      <3>2. Pending[i] = waiting[i - Len(queue)].msg
        BY <1>5, <3>1
      <3>3. QED
        BY <1>1, <3>1, <3>2 DEF UnderWay
    <2>3. QED
      BY <1>1, <1>5, <1>6, <2>1, <2>2
  <1>7. QED
    BY <1>4, <1>6

\* A Set of the entry of c.
LEMMA SetEntryEffects ==
    ASSUME TypeOK, NEW c \in Clients, NEW i \in SubStores, NEW n \in 0..FailLimit,
           NEW S \in SUBSET Resources, SetEntry(c, i, n, S)
    PROVE  /\ store' \in [Clients -> Entry \cup {Absent}]
           /\ heap' \in [Clients -> [SubStores -> SUBSET Resources]]
           /\ owed' \in [Clients -> SUBSET (1..MaxEvents)]
           /\ store'[c] = [sub |-> i, fails |-> n] /\ subs'[c] = S
           /\ owed'[c] = StillOwed(c, S) /\ owed'[c] \subseteq owed[c]
           /\ \A d \in Clients : d # c => /\ store'[d] = store[d] /\ subs'[d] = subs[d]
                                          /\ owed'[d] = owed[d]
           /\ Registered' = Registered \cup {c}
           /\ Marked' \subseteq Marked \cup {c}
           /\ n < FailLimit => c \notin Marked'
  <1>0. /\ store \in [Clients -> Entry \cup {Absent}] /\ owed \in [Clients -> SUBSET (1..MaxEvents)]
        /\ heap \in [Clients -> [SubStores -> SUBSET Resources]]
    BY DEF TypeOK
  <1> DEFINE e == [sub |-> i, fails |-> n]
  <1>1. e \in Entry /\ e # Absent /\ e.sub = i /\ e.fails = n
    BY NothingAssumption DEF Entry
  <1> HIDE DEF e
  <1>2. store' = [store EXCEPT ![c] = e]
    BY DEF SetEntry, e
  <1>3. /\ store' \in [Clients -> Entry \cup {Absent}] /\ store'[c] = e
        /\ \A d \in Clients : d # c => store'[d] = store[d]
    BY <1>0, <1>1, <1>2
  <1>4. /\ heap' \in [Clients -> [SubStores -> SUBSET Resources]] /\ heap'[c][i] = S
        /\ \A d \in Clients : d # c => heap'[d] = heap[d]
    <2> DEFINE h == [heap[c] EXCEPT ![i] = S]
    <2>1. h \in [SubStores -> SUBSET Resources] /\ h[i] = S
      BY <1>0
    <2>2. heap' = [heap EXCEPT ![c] = h]
      BY DEF SetEntry
    <2> HIDE DEF h
    <2>3. QED
      BY <1>0, <2>1, <2>2
  <1>5. StillOwed(c, S) \subseteq owed[c] /\ owed[c] \subseteq 1..MaxEvents
    BY <1>0 DEF StillOwed
  <1>6. /\ owed' \in [Clients -> SUBSET (1..MaxEvents)] /\ owed'[c] = StillOwed(c, S)
        /\ \A d \in Clients : d # c => owed'[d] = owed[d]
    <2>1. owed' = [owed EXCEPT ![c] = StillOwed(c, S)]
      BY DEF SetEntry
    <2>2. StillOwed(c, S) \in SUBSET (1..MaxEvents)
      BY <1>5
    <2>3. QED
      BY <1>0, <2>1, <2>2
  <1>7. subs'[c] = S /\ \A d \in Clients : d # c => subs'[d] = subs[d]
    BY <1>1, <1>3, <1>4 DEF subs
  <1>8. Registered' = Registered \cup {c}
    BY <1>1, <1>3 DEF Registered
  <1>9. Marked' \subseteq Marked \cup {c} /\ (n < FailLimit => c \notin Marked')
    <2>1. Registered \subseteq Clients
      BY DEF Registered
    <2>2. \A d \in Marked' : d \in Registered \cup {c} /\ store'[d].fails = FailLimit
      BY <1>8 DEF Marked
    <2>3. n < FailLimit => c \notin Marked'
      BY <1>1, <1>3, <2>2, DeliveryAssumption
    <2>4. \A d \in Marked' : d # c => d \in Marked
      BY <1>3, <2>1, <2>2 DEF Marked
    <2>5. QED
      BY <2>3, <2>4
  <1>10. QED
    BY <1>3, <1>4, <1>5, <1>6, <1>7, <1>8, <1>9 DEF e

\* What it does to the subscriptions, and to what is owed.
LEMMA SetEntrySubs ==
    ASSUME TypeOK, NEW c \in Clients, NEW i \in SubStores, NEW n \in 0..FailLimit,
           NEW S \in SUBSET Resources, SetEntry(c, i, n, S)
    PROVE  /\ subs'[c] = S
           /\ \A d \in Clients : d # c => subs'[d] = subs[d]
           /\ Registered' = Registered \cup {c}
  <1>1. /\ store'[c] = [sub |-> i, fails |-> n] /\ subs'[c] = S
        /\ \A d \in Clients : d # c => subs'[d] = subs[d]
    BY SetEntryEffects
  <1>2. Registered' = Registered \cup {c}
    BY SetEntryEffects
  <1>3. QED
    BY <1>1, <1>2

LEMMA SetEntryOwed ==
    ASSUME TypeOK, NEW c \in Clients, NEW i \in SubStores, NEW n \in 0..FailLimit,
           NEW S \in SUBSET Resources, SetEntry(c, i, n, S)
    PROVE  /\ owed'[c] = StillOwed(c, S) /\ owed'[c] \subseteq owed[c]
           /\ \A d \in Clients : d # c => owed'[d] = owed[d]
  <1>1. /\ store'[c] = [sub |-> i, fails |-> n]
        /\ owed'[c] = StillOwed(c, S) /\ owed'[c] \subseteq owed[c]
        /\ \A d \in Clients : d # c => owed'[d] = owed[d]
    BY SetEntryEffects
  <1>2. QED
    BY <1>1

\* What the Set of CreateSubscription does.
LEMMA CreateEffects ==
    ASSUME TypeOK, NEW t \in Apis, Create(t)
    PROVE  /\ api[t] # Idle /\ api[t].op = "create" /\ api[t].client \in Clients
           /\ \E i \in SubStores, S \in SUBSET Resources :
                 /\ SetEntry(api[t].client, i, 0, S)
                 /\ Same(api[t].client, api[t].copy) =>
                       S = Content(subs[api[t].client]) \cup {api[t].resource}
           /\ UNCHANGED <<chanVars, job, cm, storage, sent, got, missed>>
  <1> DEFINE c == api[t].client
             i == SubOf(c, api[t].copy)
             old == IF api[t].copy = Absent THEN {} ELSE heap[c][i]
             S == old \cup {api[t].resource}
  <1>1. /\ api[t] # Idle /\ api[t].op = "create" /\ i \in SubStores /\ SetEntry(c, i, 0, S)
        /\ UNCHANGED <<chanVars, job, cm, storage, sent, got, missed>>
    BY DEF Create
  <1>2. c \in Clients /\ api[t].resource \in Resources /\ api[t].copy \in Entry \cup {Absent}
    BY <1>1, CallTyped
  <1>3. S \in SUBSET Resources
    BY <1>1, <1>2 DEF TypeOK
  <1>4. ASSUME Same(c, api[t].copy)
        PROVE  old = Content(subs[c])
    <2>1. CASE api[t].copy = Absent
      BY <1>2, <1>4, <2>1 DEF Same, Content, subs
    <2>2. CASE api[t].copy # Absent
      <3>1. store[c] # Absent /\ store[c].sub = api[t].copy.sub /\ i = api[t].copy.sub
        BY <1>4, <2>2 DEF Same, SubOf
      <3>2. subs[c] = heap[c][i] /\ c \in Registered
        BY <1>2, <3>1 DEF subs, Registered
      <3>3. subs[c] # Absent
        BY <3>2, RegisteredTyped, NothingAssumption
      <3>4. QED
        BY <2>2, <3>2, <3>3 DEF Content
    <2>3. QED
      BY <2>1, <2>2
  <1> HIDE DEF i, old
  <1>5. QED
    BY <1>1, <1>2, <1>3, <1>4

\* What the Set of DeleteSubscription does.
LEMMA DropEffects ==
    ASSUME TypeOK, NEW t \in Apis, Drop(t)
    PROVE  /\ api[t] # Idle /\ api[t].op = "delete" /\ api[t].client \in Clients
           /\ api[t].copy \in Entry /\ api[t].file \in Subscription
           /\ \E S \in SUBSET Resources :
                 /\ SetEntry(api[t].client, api[t].copy.sub, api[t].copy.fails, S)
                 /\ Same(api[t].client, api[t].copy) =>
                       S = subs[api[t].client] \ {api[t].resource}
           /\ UNCHANGED <<chanVars, job, cm, storage, sent, got, missed>>
  <1> DEFINE c == api[t].client
             i == api[t].copy.sub
             S == heap[c][i] \ {api[t].resource}
  <1>1. /\ api[t] # Idle /\ api[t].op = "delete"
        /\ SetEntry(c, i, api[t].copy.fails, S)
        /\ UNCHANGED <<chanVars, job, cm, storage, sent, got, missed>>
    BY DEF Drop
  <1>2. c \in Clients /\ api[t].copy \in Entry /\ i \in SubStores /\ api[t].file \in Subscription
    BY <1>1, CallTyped, EntryTyped
  <1>3. S \in SUBSET Resources
    BY <1>2 DEF TypeOK
  <1>4. Same(c, api[t].copy) => S = subs[c] \ {api[t].resource}
    BY <1>2, EntryTyped DEF Same, subs
  <1> HIDE DEF S
  <1>5. QED
    BY <1>1, <1>2, <1>3, <1>4

\* A start leaves the store as it was loaded.
LEMMA StartTyped ==
    ASSUME TypeOK, NEW loaded \in [Clients -> Subscription], NEW keep \in BOOLEAN, NEW s \in Storages,
           Start(loaded, keep, s)
    PROVE  /\ TypeOK' /\ SenderInv' /\ Pending' = <<>>
           /\ \A c \in Clients : subs'[c] = loaded[c] /\ files'[c] = loaded[c]
           /\ \A c \in Registered' : c \in Clients /\ store'[c].fails = 0
  <1>1. queue' = <<>> /\ waiting' = <<>>
    BY DEF Start
  <1>2. ChanTyped' /\ SenderInv'
    BY <1>1, EmptySeq, DeliveryAssumption DEF ChanTyped, SenderInv
  <1>3. stale' \subseteq Clients
    <2>1. Unsettled \subseteq Clients
      <3>1. \A m \in UnderWay : m \in Message
        BY UnderWayTyped
      <3>2. {m.client : m \in {n \in UnderWay : n.kind \in {"record", "delete"}}} \subseteq Clients
        BY <3>1, MessageKinds
      <3>3. \A t \in Apis : ToReport(api[t]) \subseteq Clients
        BY CallTyped DEF ToReport
      <3>4. QED
        BY <3>2, <3>3 DEF Unsettled
    <2>2. QED
      BY <2>1 DEF Start, TypeOK
  <1>4. FirstSub \in SubStores /\ 0 \in 0..FailLimit
    BY DeliveryAssumption DEF FirstSub
  <1> DEFINE e == [sub |-> FirstSub, fails |-> 0]
  <1>5. e \in Entry /\ e # Absent /\ e.sub = FirstSub /\ e.fails = 0
    BY <1>4, NothingAssumption DEF Entry
  <1> HIDE DEF e
  <1>6. store' = [c \in Clients |-> IF loaded[c] = Absent THEN Absent ELSE e]
    BY DEF Start, e
  <1>7. /\ store' \in [Clients -> Entry \cup {Absent}]
        /\ \A c \in Clients : store'[c] = IF loaded[c] = Absent THEN Absent ELSE e
    BY <1>5, <1>6
  <1>8. /\ heap' \in [Clients -> [SubStores -> SUBSET Resources]]
        /\ \A c \in Clients : loaded[c] # Absent => heap'[c][FirstSub] = loaded[c]
    <2>1. heap' = [c \in Clients |->
                      [i \in SubStores |->
                          IF i = FirstSub /\ loaded[c] # Absent THEN loaded[c] ELSE {}]]
      BY DEF Start
    <2>2. \A c \in Clients : loaded[c] # Absent => loaded[c] \in SUBSET Resources
      BY DEF Subscription
    <2>3. QED
      BY <1>4, <2>1, <2>2
  <1>9. \A c \in Clients : subs'[c] = loaded[c] /\ files'[c] = loaded[c]
    <2>1. files' = loaded
      BY DEF Start
    <2>2. \A c \in Clients : subs'[c] = loaded[c]
      BY <1>5, <1>7, <1>8 DEF subs
    <2>3. QED
      BY <2>1, <2>2
  <1>10. \A c \in Registered' : c \in Clients /\ store'[c].fails = 0
    BY <1>5, <1>7 DEF Registered
  <1>11. RestTyped'
    <2>1. /\ job' = Idle /\ api' = [t \in Apis |-> Idle] /\ files' = loaded /\ torn' = {}
          /\ storage' = s /\ owed' = [c \in Clients |-> {}] /\ missed' = [c \in Clients |-> 0]
          /\ UNCHANGED <<cm, sent, got>>
      BY DEF Start
    <2>2. RestTyped
      BY TypeOKSplits
    <2>3. QED
      BY <1>3, <1>4, <1>7, <1>8, <2>1, <2>2 DEF RestTyped
  <1>12. Pending' = <<>>
    <2>1. /\ Pending' \in Seq(Message) /\ Len(Pending') = Len(queue') + Len(waiting')
      BY <1>2, PendingElements DEF Pending, ChanTyped
    <2>2. Len(queue') = 0 /\ Len(waiting') = 0
      BY <1>1, EmptySeq
    <2>3. QED
      BY <2>1, <2>2, EmptySeq
  <1>13. TypeOK'
    BY <1>2, <1>11 DEF TypeOK, ChanTyped, RestTyped, Blocker
  <1>14. QED
    BY <1>2, <1>9, <1>10, <1>12, <1>13

\* The variables of the channel go their own way.
LEMMA ChannelSteps ==
    ASSUME TypeOK
    PROVE  /\ \A t \in Publishers, r \in Resources : Publish(t, r) =>
                 ChanTyped' /\ (SenderInv => SenderInv')
           /\ \A i \in DOMAIN waiting : SendTimeout(i) => ChanTyped' /\ (SenderInv => SenderInv')
           /\ TakeOff => ChanTyped' /\ (SenderInv => SenderInv')
           /\ \A t \in Apis, m \in Message : Send(t, m) => ChanTyped' /\ (SenderInv => SenderInv')
           /\ UNCHANGED chanVars => ChanTyped' /\ (SenderInv => SenderInv')
  <1>0. ChanTyped /\ Publishers \subseteq Thread /\ Apis \subseteq Thread /\ Publishers \cap Apis = {}
    BY TypeOKChan, DeliveryAssumption DEF Thread
  <1>1. ASSUME NEW t \in Publishers, NEW r \in Resources, Publish(t, r)
        PROVE  ChanTyped' /\ (SenderInv => SenderInv')
    <2>1. sent' \in 1..MaxEvents /\ Send(t, Event(sent', r))
      BY <1>1, DeliveryAssumption DEF Publish, TypeOK
    <2> DEFINE m == Event(sent', r)
    <2>2. m \in Message /\ m.kind = "event"
      BY <2>1, EventTyped
    <2> HIDE DEF m
    <2>3. Send(t, m)
      BY <2>1 DEF m
    <2>4. QED
      BY <1>0, <2>2, <2>3, SendEffects
  <1>2. ASSUME NEW i \in DOMAIN waiting, SendTimeout(i)
        PROVE  ChanTyped' /\ (SenderInv => SenderInv')
    BY <1>0, <1>2, GiveUpEffects DEF SendTimeout
  <1>3. TakeOff => ChanTyped' /\ (SenderInv => SenderInv')
    BY <1>0, TakeOffEffects
  <1>4. ASSUME NEW t \in Apis, NEW m \in Message, Send(t, m)
        PROVE  ChanTyped' /\ (SenderInv => SenderInv')
    BY <1>0, <1>4, SendEffects
  <1>5. UNCHANGED chanVars => ChanTyped' /\ (SenderInv => SenderInv')
    BY <1>0 DEF ChanTyped, SenderInv, chanVars
  <1>6. QED
    BY <1>1, <1>2, <1>3, <1>4, <1>5

\* ProcessOutChannel keeps the types.
LEMMA PostJob ==
    ASSUME TypeOK, NEW c \in Clients, Post(c)
    PROVE  /\ job # Idle /\ job.act = "post" /\ c \in job.todo
           /\ job' \in Job \cup {Idle}
           /\ \/ /\ job' = Idle
                 /\ job.todo = {c}
              \/ /\ job' # Idle /\ job'.msg = job.msg /\ job'.todo = job.todo \ {c}
                 /\ \/ job'.act = "post"
                    \/ /\ c \in Registered /\ job'.act \in {"reset", "count"} /\ job'.whom = c
                       /\ job'.copy = store[c]
                       /\ job'.act = "count" => PostUnreachable(c)
  <1>1. job # Idle /\ job.act = "post" /\ c \in job.todo
    BY DEF Post, PostAnswered, PostFailed, PostUnreachable, Posting
  <1>2. job.msg \in EventMessage /\ job.todo \ {c} \in SUBSET Clients
    BY <1>1, JobTyped
  <1>3. CASE PostTo(job.msg, job.todo \ {c})
    BY <1>1, <1>2, <1>3, PostToEffects
  <1>4. ASSUME NEW act \in {"reset", "count"}, ReadFor(act, c), act = "count" => PostUnreachable(c)
        PROVE  \/ PostTo(job.msg, job.todo \ {c})
               \/ /\ c \in Registered /\ job' \in Job /\ job' # Idle /\ job'.msg = job.msg
                  /\ job'.todo = job.todo \ {c} /\ job'.act = act /\ job'.whom = c
                  /\ job'.copy = store[c]
    <2>1. CASE c \notin Registered
      BY <1>4, <2>1 DEF ReadFor
    <2>2. CASE c \in Registered
      <3>1. job' = [job EXCEPT !.todo = @ \ {c}, !.whom = c, !.act = act, !.copy = store[c]]
        BY <1>4, <2>2 DEF ReadFor
      <3>2. job' = [msg |-> job.msg, todo |-> job.todo \ {c}, act |-> act, whom |-> c,
                    copy |-> store[c]]
        BY <1>1, <3>1, JobTyped
      <3>3. store[c] \in Entry
        BY <2>2, SubsAreTyped DEF SubsTyped
      <3>4. job' \in Job
        BY <1>2, <3>2, <3>3 DEF Job
      <3>5. QED
        BY <2>2, <3>2, <3>4, NothingAssumption
    <2>3. QED
      BY <2>1, <2>2
  <1>5. CASE PostAnswered(c)
    BY <1>1, <1>3, <1>4, <1>5 DEF PostAnswered
  <1>6. CASE PostFailed(c)
    BY <1>3, <1>6 DEF PostFailed
  <1>7. CASE PostUnreachable(c)
    BY <1>1, <1>3, <1>4, <1>7 DEF PostUnreachable
  <1>8. QED
    BY <1>5, <1>6, <1>7 DEF Post

\* What the write-back of an entry does.
LEMMA SaveEffects ==
    ASSUME TypeOK, Save
    PROVE  /\ job # Idle /\ job.act \in {"reset", "count"} /\ job.whom \in Clients
           /\ job.copy \in Entry
           /\ Counted(job.act, job.copy.fails) \in 0..FailLimit
           /\ heap[job.whom][job.copy.sub] \in SUBSET Resources
           /\ SetEntry(job.whom, job.copy.sub, Counted(job.act, job.copy.fails),
                       heap[job.whom][job.copy.sub])
           /\ Same(job.whom, job.copy) => heap[job.whom][job.copy.sub] = subs[job.whom]
           /\ job' \in Job \cup {Idle}
           /\ \/ /\ job.act = "count" /\ Counted(job.act, job.copy.fails) = FailLimit
                 /\ job' # Idle /\ job'.act = "remove" /\ job'.whom = job.whom
                 /\ job'.msg = job.msg /\ job'.todo = job.todo
              \/ PostTo(job.msg, job.todo)
  <1> DEFINE c == job.whom
             n == Counted(job.act, job.copy.fails)
  <1>1. /\ job # Idle /\ job.act \in {"reset", "count"} /\ c \in Clients /\ job.copy \in Entry
        /\ job.msg \in EventMessage /\ job.todo \in SUBSET Clients
    BY JobTyped DEF Save
  <1>2. job.copy.sub \in SubStores /\ job.copy.fails \in 0..FailLimit /\ job.copy # Absent
    BY <1>1, EntryTyped
  <1>3. n \in 0..FailLimit
    BY <1>2, DeliveryAssumption DEF Counted
  <1>4. heap[c][job.copy.sub] \in SUBSET Resources
    BY <1>1, <1>2 DEF TypeOK
  <1>5. SetEntry(c, job.copy.sub, n, heap[c][job.copy.sub])
    BY DEF Save
  <1>6. Same(c, job.copy) => heap[c][job.copy.sub] = subs[c]
    BY <1>1, <1>2 DEF Same, subs
  <1>7. CASE job.act = "count" /\ n = FailLimit
    <2>1. job' = [job EXCEPT !.act = "remove", !.copy = Absent]
      BY <1>7 DEF Save
    <2>2. job' = [msg |-> job.msg, todo |-> job.todo, act |-> "remove", whom |-> c, copy |-> Absent]
      BY <1>1, <2>1, JobTyped
    <2>3. job' \in Job
      BY <1>1, <2>2 DEF Job
    <2>4. QED
      BY <1>1, <1>2, <1>3, <1>4, <1>5, <1>6, <1>7, <2>2, <2>3, NothingAssumption
  <1>8. CASE ~(job.act = "count" /\ n = FailLimit)
    <2>1. PostTo(job.msg, job.todo)
      BY <1>8 DEF Save
    <2>2. job' \in Job \cup {Idle}
      BY <1>1, <2>1, PostToEffects
    <2>3. QED
      BY <1>1, <1>2, <1>3, <1>4, <1>5, <1>6, <2>1, <2>2
  <1>9. QED
    BY <1>7, <1>8

\* The three ways in which the removal of a client can end.
LEMMA CleanUpEffects ==
    ASSUME TypeOK, CleanUp
    PROVE  /\ job # Idle /\ job.act = "remove" /\ job.whom \in Clients
           /\ job.msg \in EventMessage /\ job.todo \in SUBSET Clients
           /\ \/ /\ storage = NoClient
                 /\ \E left \in [Clients -> Subscription] :
                       /\ Start(left, TRUE, NoClient)
                       /\ \A c \in Clients : c # job.whom => left[c] = files[c]
              \/ /\ storage # NoClient /\ PostTo(job.msg, job.todo)
                 /\ store' = [store EXCEPT ![job.whom] = Absent]
                 /\ files' \in [Clients -> Subscription]
                 /\ \A c \in Clients : c # job.whom => files'[c] = files[c]
                 /\ \/ files'[job.whom] = Absent /\ torn' = torn \ {job.whom}
                    \/ job.whom \notin Registered /\ files' = files /\ torn' = torn
                 /\ owed' = [owed EXCEPT ![job.whom] = {}] /\ stale' = stale \cup {job.whom}
                 /\ UNCHANGED <<chanVars, api, heap, cm, storage, sent, got, missed>>
              \/ /\ PostTo(job.msg, job.todo)
                 /\ UNCHANGED <<chanVars, api, storeVars, cm, storage, sent, got, owed,
                                missed, stale>>
  <1> DEFINE c == job.whom
             here == {c} \cap Registered
             left == [d \in Clients |-> IF d \in here THEN Absent ELSE files[d]]
  <1>1. /\ job # Idle /\ job.act = "remove" /\ c \in Clients
        /\ job.msg \in EventMessage /\ job.todo \in SUBSET Clients
    BY JobTyped DEF CleanUp
  <1>2. left \in [Clients -> Subscription] /\ \A d \in Clients : d # c => left[d] = files[d]
    BY DEF TypeOK, Subscription
  <1>3. \/ c \in Registered /\ left[c] = Absent /\ torn \ here = torn \ {c}
        \/ c \notin Registered /\ left = files /\ torn \ here = torn
    <2>1. CASE c \in Registered
      BY <1>1, <2>1
    <2>2. CASE c \notin Registered
      <3>1. here = {}
        BY <2>2
      <3>2. files \in [Clients -> Subscription]
        BY DEF TypeOK
      <3>3. left = files
        BY <3>1, <3>2
      <3>4. QED
        BY <2>2, <3>1, <3>3
    <2>3. QED
      BY <2>1, <2>2
  <1>4. \/ storage = NoClient /\ Start(left, TRUE, NoClient)
        \/ /\ storage # NoClient
           /\ store' = [store EXCEPT ![c] = Absent]
           /\ files' = left
           /\ torn' = torn \ here
           /\ owed' = [owed EXCEPT ![c] = {}]
           /\ stale' = stale \cup {c}
           /\ PostTo(job.msg, job.todo)
           /\ UNCHANGED <<chanVars, api, heap, cm, storage, sent, got, missed>>
        \/ /\ PostTo(job.msg, job.todo)
           /\ UNCHANGED <<chanVars, api, storeVars, cm, storage, sent, got, owed,
                          missed, stale>>
    BY DEF CleanUp
  <1> HIDE DEF left, here
  <1>5. QED
    BY <1>1, <1>2, <1>3, <1>4

LEMMA ConsumerTyped ==
    ASSUME TypeOK, SenderInv, Consumer
    PROVE  TypeOK' /\ SenderInv'
  <1>0. RestTyped /\ FailLimit \in Nat \ {0}
    BY TypeOKSplits, DeliveryAssumption
  <1>1. CASE ReceiveEvent
    <2>1. TakeOff /\ UNCHANGED <<api, storeVars, cm, storage, sent, got, owed, missed, stale>>
      BY <1>1 DEF ReceiveEvent
    <2>2. Head(queue) \in Message
      BY <2>1, TypeOKChan, TakeOffEffects
    <2> DEFINE m == Head(queue)
               S == SubscribersOf(m.resource)
    <2>3. m \in EventMessage /\ S \in SUBSET Clients /\ PostTo(m, S)
      BY <1>1, <2>2, MessageKinds DEF ReceiveEvent, SubscribersOf, Registered
    <2> HIDE DEF m, S
    <2>4. job' \in Job \cup {Idle}
      BY <2>3, PostToEffects
    <2>5. RestTyped'
      BY <1>0, <2>1, <2>4 DEF RestTyped, storeVars
    <2>6. QED
      BY <2>1, <2>5, ChannelSteps DEF TypeOK, ChanTyped, RestTyped, Blocker
  <1>2. CASE ReceiveSubscriber
    <2>1. /\ TakeOff /\ UNCHANGED <<job, api, storeVars, storage, sent, got, owed, missed>>
          /\ Head(queue).kind # "event"
          /\ \/ UNCHANGED <<cm, stale>>
             \/ /\ Head(queue).kind # "failed"
                /\ UpdateConfigMap(Head(queue)) /\ UNCHANGED stale
             \/ stale' = stale \cup {Head(queue).client} /\ UNCHANGED cm
      BY <1>2 DEF ReceiveSubscriber
    <2>2. Head(queue) \in Message
      BY <2>1, TypeOKChan, TakeOffEffects
    <2> DEFINE m == Head(queue)
    <2>3. /\ m.client \in Clients
          /\ m.kind # "failed" => (IF m.kind = "delete" THEN Absent ELSE m.subs) \in Subscription
      BY <2>1, <2>2, MessageKinds DEF Subscription
    <2>4. RestTyped'
      BY <1>0, <2>1, <2>3 DEF RestTyped, storeVars, UpdateConfigMap
    <2>5. QED
      BY <2>1, <2>4, ChannelSteps DEF TypeOK, ChanTyped, RestTyped, Blocker
  <1>3. CASE CleanUp
    <2>1. CASE storage = NoClient /\ \E left \in [Clients -> Subscription] : Start(left, TRUE, NoClient)
      <3>1. NoClient \in Storages
        BY <1>0, <2>1 DEF RestTyped
      <3>2. QED
        BY <2>1, <3>1, StartTyped
    <2>2. CASE /\ PostTo(job.msg, job.todo)
               /\ store' = [store EXCEPT ![job.whom] = Absent]
               /\ files' \in [Clients -> Subscription]
               /\ torn' = torn \ {job.whom} \/ torn' = torn
               /\ owed' = [owed EXCEPT ![job.whom] = {}] /\ stale' = stale \cup {job.whom}
               /\ UNCHANGED <<chanVars, api, heap, cm, storage, sent, got, missed>>
      <3>1. job.whom \in Clients /\ job' \in Job \cup {Idle}
        BY <1>3, <2>2, CleanUpEffects, PostToEffects
      <3>2. RestTyped'
        BY <1>0, <2>2, <3>1 DEF RestTyped
      <3>3. QED
        BY <2>2, <3>2, ChannelSteps DEF TypeOK, ChanTyped, RestTyped, Blocker
    <2>3. CASE /\ PostTo(job.msg, job.todo)
               /\ UNCHANGED <<chanVars, api, storeVars, cm, storage, sent, got, owed, missed, stale>>
      <3>1. job' \in Job \cup {Idle}
        BY <1>3, <2>3, CleanUpEffects, PostToEffects
      <3>2. RestTyped'
        BY <1>0, <2>3, <3>1 DEF RestTyped, storeVars
      <3>3. QED
        BY <2>3, <3>2, ChannelSteps DEF TypeOK, ChanTyped, RestTyped, Blocker
    <2>4. QED
      BY <1>3, <2>1, <2>2, <2>3, CleanUpEffects
  <1>4. ASSUME NEW c \in Clients, Post(c)
        PROVE  TypeOK' /\ SenderInv'
    <2>1. /\ got' = [got EXCEPT ![c] = job.msg.id]
          /\ owed' = [owed EXCEPT ![c] = @ \ {job.msg.id}]
          /\ UNCHANGED <<chanVars, api, storeVars, cm, storage, sent, stale>>
          /\ missed' = missed \/ missed' = [missed EXCEPT ![c] = Missed(@)]
      BY <1>4 DEF Post, PostAnswered, PostFailed, PostUnreachable, Posted
    <2>2. job.msg.id \in 1..MaxEvents /\ job' \in Job \cup {Idle}
      BY <1>4, PostJob, JobTyped
    <2>3. missed' \in [Clients -> 0..FailLimit]
      <3>1. Missed(missed[c]) \in 0..FailLimit
        BY <1>0 DEF Missed, RestTyped
      <3>2. QED
        BY <1>0, <2>1, <3>1 DEF RestTyped
    <2>4. RestTyped'
      <3>1. got' \in [Clients -> 0..MaxEvents]
        BY <1>0, <2>1, <2>2 DEF RestTyped
      <3>2. owed[c] \ {job.msg.id} \in SUBSET (1..MaxEvents)
        BY <1>0 DEF RestTyped
      <3>3. owed' \in [Clients -> SUBSET (1..MaxEvents)]
        BY <1>0, <2>1, <3>2 DEF RestTyped
      <3>4. QED
        BY <1>0, <2>1, <2>2, <2>3, <3>1, <3>3 DEF RestTyped, storeVars
    <2>5. QED
      BY <2>1, <2>4, ChannelSteps DEF TypeOK, ChanTyped, RestTyped, Blocker
  <1>5. CASE Save
    <2>1. /\ job.whom \in Clients /\ job' \in Job \cup {Idle}
          /\ \E i \in SubStores, n \in 0..FailLimit, S \in SUBSET Resources :
                SetEntry(job.whom, i, n, S)
      BY <1>5, SaveEffects, EntryTyped
    <2>2. PICK i \in SubStores, n \in 0..FailLimit, S \in SUBSET Resources :
             SetEntry(job.whom, i, n, S)
      BY <2>1
    <2>3. /\ store' \in [Clients -> Entry \cup {Absent}]
          /\ heap' \in [Clients -> [SubStores -> SUBSET Resources]]
          /\ owed' \in [Clients -> SUBSET (1..MaxEvents)]
      BY <2>1, <2>2, SetEntryEffects
    <2>4. /\ torn' \in {torn, torn \cup {job.whom}} /\ stale' \in {stale, stale \cup {job.whom}}
          /\ UNCHANGED <<chanVars, api, files, cm, storage, sent, got, missed>>
      BY <1>5 DEF Save
    <2>5. RestTyped'
      BY <1>0, <2>1, <2>3, <2>4 DEF RestTyped
    <2>6. QED
      BY <2>4, <2>5, ChannelSteps DEF TypeOK, ChanTyped, RestTyped, Blocker
  <1>6. QED
    BY <1>1, <1>2, <1>3, <1>4, <1>5 DEF Consumer

\* The Set of a handler, whether or not the file can be written.
LEMMA WriteTyped ==
    ASSUME TypeOK, SenderInv, NEW t \in Apis, Create(t) \/ Drop(t),
           api' \in [Apis -> Call \cup {Idle}], files' \in [Clients -> Subscription],
           torn' \subseteq Clients, stale' \subseteq Clients
    PROVE  TypeOK' /\ SenderInv'
  <1>1. /\ api[t].client \in Clients
        /\ \E i \in SubStores, n \in 0..FailLimit, S \in SUBSET Resources :
              SetEntry(api[t].client, i, n, S)
        /\ UNCHANGED <<chanVars, job, cm, storage, sent, got, missed>>
    <2>1. 0 \in 0..FailLimit
      BY DeliveryAssumption
    <2>2. CASE Create(t)
      BY <2>1, <2>2, CreateEffects
    <2>3. CASE Drop(t)
      <3>1. api[t].copy.sub \in SubStores /\ api[t].copy.fails \in 0..FailLimit
        BY <2>3, DropEffects, EntryTyped
      <3>2. QED
        BY <2>3, <3>1, DropEffects
    <2>4. QED
      BY <2>2, <2>3
  <1>2. PICK i \in SubStores, n \in 0..FailLimit, S \in SUBSET Resources :
           SetEntry(api[t].client, i, n, S)
    BY <1>1
  <1>3. /\ store' \in [Clients -> Entry \cup {Absent}]
        /\ heap' \in [Clients -> [SubStores -> SUBSET Resources]]
        /\ owed' \in [Clients -> SUBSET (1..MaxEvents)]
    BY <1>1, <1>2, SetEntryEffects
  <1>4. RestTyped'
    BY <1>1, <1>3, TypeOKSplits DEF RestTyped
  <1>5. QED
    BY <1>1, <1>4, ChannelSteps DEF TypeOK, ChanTyped, RestTyped, Blocker

\* The handlers keep the types.
LEMMA ApiTyped ==
    ASSUME TypeOK, SenderInv, NEW t \in Apis,
           \/ Handle(t) \/ DeleteAll(t)
           \/ \E c \in Clients, r \in Resources : Subscribe(t, c, r) \/ Unsubscribe(t, c, r)
    PROVE  TypeOK' /\ SenderInv'
  <1>0. RestTyped /\ ChanTyped
    BY TypeOKSplits
  <1>1. CASE ReportRecord(t)
    <2>1. Record(api[t].client, api[t].subs) \in Message
      BY <1>1, CallTyped, RecordTyped DEF ReportRecord
    <2>2. ChanTyped' /\ SenderInv'
      BY <1>1, <2>1, ChannelSteps DEF ReportRecord
    <2>3. RestTyped'
      BY <1>0, <1>1 DEF RestTyped, ReportRecord, storeVars
    <2>4. QED
      BY <2>2, <2>3 DEF TypeOK, ChanTyped, RestTyped, Blocker
  <1>2. CASE ReportFailed(t)
    <2>1. Failed(api[t].client) \in Message
      BY <1>2, CallTyped, DeleteTyped DEF ReportFailed
    <2>2. ChanTyped' /\ SenderInv'
      BY <1>2, <2>1, ChannelSteps DEF ReportFailed
    <2>3. RestTyped'
      BY <1>0, <1>2 DEF RestTyped, ReportFailed, storeVars
    <2>4. QED
      BY <2>2, <2>3 DEF TypeOK, ChanTyped, RestTyped, Blocker
  <1>3. ASSUME NEW d \in Clients, Walk(t, d)
        PROVE  TypeOK' /\ SenderInv'
    <2>1. api[t] # Idle /\ api[t].op \in {"rest", "clear"} /\ api[t].walk \in SUBSET Clients
      BY <1>3, CallTyped DEF Walk
    <2>2. ChanTyped' /\ SenderInv'
      <3>1. CASE d \notin Registered
        BY <1>3, <3>1, ChannelSteps DEF Walk
      <3>2. CASE d \in Registered
        <4> DEFINE m == IF api[t].op = "rest" /\ d \notin Marked THEN Record(d, subs[d]) ELSE Delete(d)
        <4>1. m \in Message
          BY <3>2, RegisteredTyped, RecordTyped, DeleteTyped
        <4>2. Send(t, m)
          BY <1>3, <3>2 DEF Walk
        <4>3. QED
          BY <4>1, <4>2, ChannelSteps
      <3>3. QED
        BY <3>1, <3>2
    <2>3. [api[t] EXCEPT !.walk = @ \ {d}] \in Call
      <3>1. api[t] = [op |-> api[t].op, walk |-> api[t].walk]
        BY <2>1, CallTyped
      <3>2. [op |-> api[t].op, walk |-> api[t].walk \ {d}] \in Call
        BY <2>1 DEF Call
      <3>3. [api[t] EXCEPT !.walk = @ \ {d}] = [op |-> api[t].op, walk |-> api[t].walk \ {d}]
        BY <3>1
      <3>4. QED
        BY <3>2, <3>3
    <2>4. /\ \/ api' = [api EXCEPT ![t] = Idle]
             \/ api' = [api EXCEPT ![t] = [api[t] EXCEPT !.walk = @ \ {d}]]
          /\ UNCHANGED <<job, storeVars, cm, storage, sent, got, owed, missed, stale>>
      <3> DEFINE left == [api[t] EXCEPT !.walk = @ \ {d}]
      <3>1. /\ api' = [api EXCEPT ![t] = IF api[t].op = "rest" /\ left.walk = {} THEN Idle ELSE left]
            /\ UNCHANGED <<job, storeVars, cm, storage, sent, got, owed, missed, stale>>
        BY <1>3 DEF Walk
      <3> HIDE DEF left
      <3>2. api' = [api EXCEPT ![t] = Idle] \/ api' = [api EXCEPT ![t] = left]
        BY <3>1
      <3>3. QED
        BY <3>1, <3>2 DEF left
    <2>5. RestTyped'
      BY <1>0, <2>3, <2>4 DEF RestTyped, storeVars
    <2>6. QED
      BY <2>2, <2>5 DEF TypeOK, ChanTyped, RestTyped, Blocker
  <1>4. CASE Clear(t)
    <2>1. PICK S \in SUBSET Registered :
             /\ store' = [c \in Clients |-> IF c \in S THEN Absent ELSE store[c]]
             /\ files' = [c \in Clients |-> IF c \in S THEN Absent ELSE files[c]]
             /\ torn' = torn \ S
             /\ owed' = [c \in Clients |-> IF c \in S THEN {} ELSE owed[c]]
             /\ stale' = stale \cup (Registered \ S)
      BY <1>4 DEF Clear
    <2>2. Registered \subseteq Clients
      BY DEF Registered
    <2>3. store' \in [Clients -> Entry \cup {Absent}] /\ files' \in [Clients -> Subscription]
      BY <1>0, <2>1 DEF RestTyped, Subscription
    <2>4. owed' \in [Clients -> SUBSET (1..MaxEvents)]
      BY <1>0, <2>1 DEF RestTyped
    <2>5. RestTyped'
      BY <1>0, <1>4, <2>1, <2>2, <2>3, <2>4 DEF RestTyped, Clear
    <2>6. ChanTyped' /\ SenderInv'
      BY <1>4, ChannelSteps DEF Clear
    <2>7. QED
      BY <2>5, <2>6 DEF TypeOK, ChanTyped, RestTyped, Blocker
  <1>5. ASSUME NEW X \in SUBSET Clients, NEW Y \in SUBSET Clients, Reports(t, X, Y)
        PROVE  stale' \subseteq Clients
    BY <1>0, <1>5 DEF Reports, RestTyped
  <1>6. Registered \in SUBSET Clients /\ Registered' \in SUBSET Clients
    BY DEF Registered
  <1>7. CASE DeleteAll(t)
    <2>1. [op |-> "clear", walk |-> Registered] \in Call
      BY <1>6 DEF Call
    <2>2. stale' \subseteq Clients
      BY <1>5, <1>6, <1>7 DEF DeleteAll
    <2>3. RestTyped'
      BY <1>0, <1>7, <2>1, <2>2 DEF RestTyped, DeleteAll, storeVars
    <2>4. ChanTyped' /\ SenderInv'
      BY <1>7, ChannelSteps DEF DeleteAll
    <2>5. QED
      BY <2>3, <2>4 DEF TypeOK, ChanTyped, RestTyped, Blocker
  <1>8. ASSUME NEW c \in Clients, NEW r \in Resources, Subscribe(t, c, r)
        PROVE  TypeOK' /\ SenderInv'
    <2>1. [op |-> "create", client |-> c, resource |-> r, copy |-> store[c]] \in Call
      BY <1>0 DEF Call, RestTyped
    <2>2. RestTyped'
      BY <1>0, <1>8, <2>1 DEF RestTyped, Subscribe, storeVars
    <2>3. QED
      BY <1>8, <2>2, ChannelSteps DEF Subscribe, TypeOK, ChanTyped, RestTyped, Blocker
  <1>9. ASSUME NEW c \in Clients, NEW r \in Resources, Unsubscribe(t, c, r)
        PROVE  TypeOK' /\ SenderInv'
    <2>1. store[c] \in Entry /\ files[c] \in Subscription
      BY <1>0, <1>9, SubsAreTyped DEF Unsubscribe, SubscribersOf, SubsTyped, RestTyped
    <2>2. [op |-> "delete", client |-> c, resource |-> r, copy |-> store[c], file |-> files[c]] \in Call
      BY <2>1 DEF Call
    <2>3. RestTyped'
      BY <1>0, <1>9, <2>2 DEF RestTyped, Unsubscribe, storeVars
    <2>4. QED
      BY <1>9, <2>3, ChannelSteps DEF Unsubscribe, TypeOK, ChanTyped, RestTyped, Blocker
  <1>10. CASE CreateSubscription(t)
    <2> DEFINE c == api[t].client
    <2>1. Create(t) /\ c \in Clients /\ subs'[c] \in SUBSET Resources
      <3>1. Create(t) /\ c \in Clients /\ 0 \in 0..FailLimit
        BY <1>10, CreateEffects, DeliveryAssumption DEF CreateSubscription
      <3>2. PICK i \in SubStores, S \in SUBSET Resources : SetEntry(c, i, 0, S)
        BY <3>1, CreateEffects
      <3>3. PICK d \in Clients : d = c
        BY <3>1
      <3>4. PICK n \in 0..FailLimit : SetEntry(d, i, n, S)
        BY <3>1, <3>2, <3>3
      <3>5. subs'[d] = S
        BY <3>4, SetEntrySubs
      <3>6. QED
        BY <3>1, <3>3, <3>5
    <2>2. /\ files' = [files EXCEPT ![c] = Content(@) \cup subs'[c]]
          /\ torn' = torn \/ torn' = torn \cup {c}
          /\ api' = [api EXCEPT ![t] = [op |-> "record", client |-> c, subs |-> subs'[c]]]
          /\ Reports(t, {c}, {c})
      BY <1>10 DEF CreateSubscription
    <2>3. api' \in [Apis -> Call \cup {Idle}]
      <3>1. [op |-> "record", client |-> c, subs |-> subs'[c]] \in Call
        BY <2>1 DEF Call
      <3>2. QED
        BY <1>0, <2>2, <3>1 DEF RestTyped
    <2>4. files' \in [Clients -> Subscription]
      <3>1. Content(files[c]) \cup subs'[c] \in Subscription
        BY <1>0, <2>1 DEF Content, Subscription, RestTyped
      <3>2. QED
        BY <1>0, <2>1, <2>2, <3>1 DEF RestTyped
    <2>5. stale' \subseteq Clients /\ torn' \subseteq Clients
      <3>1. {c} \in SUBSET Clients
        BY <2>1
      <3>2. stale' \subseteq Clients
        BY <1>5, <2>2, <3>1
      <3>3. QED
        BY <1>0, <2>1, <2>2, <3>2 DEF RestTyped
    <2>6. QED
      BY <2>1, <2>3, <2>4, <2>5, WriteTyped
  <1>11. ASSUME NEW c \in Clients, FileFails(c)
         PROVE  files' \in [Clients -> Subscription] /\ torn' \subseteq Clients /\ stale' \subseteq Clients
    BY <1>0, <1>11 DEF FileFails, RestTyped, Subscription
  <1>12. CASE CreateSubscriptionFails(t)
    <2>1. Create(t) /\ api[t].client \in Clients
      BY <1>12, CreateEffects DEF CreateSubscriptionFails
    <2>2. [op |-> "failed", client |-> api[t].client] \in Call
      BY <2>1 DEF Call
    <2>3. api' \in [Apis -> Call \cup {Idle}]
      BY <1>0, <1>12, <2>2 DEF RestTyped, CreateSubscriptionFails
    <2>4. QED
      BY <1>11, <1>12, <2>1, <2>3, WriteTyped DEF CreateSubscriptionFails
  <1>13. CASE DeleteSubscription(t)
    <2> DEFINE c == api[t].client
    <2>1. Drop(t) /\ c \in Clients /\ api[t].file \in Subscription
      BY <1>13, DropEffects DEF DeleteSubscription
    <2>2. /\ api[t].file # Absent
          /\ files' = [files EXCEPT ![c] = api[t].file \ {api[t].resource}]
          /\ torn' = torn \/ torn' = torn \cup {c}
          /\ api' = [api EXCEPT ![t] = [op |-> "rest", walk |-> Registered']]
          /\ Reports(t, Registered', {c})
      BY <1>13 DEF DeleteSubscription
    <2>3. api' \in [Apis -> Call \cup {Idle}]
      <3>1. [op |-> "rest", walk |-> Registered'] \in Call
        BY <1>6 DEF Call
      <3>2. QED
        BY <1>0, <2>2, <3>1 DEF RestTyped
    <2>4. files' \in [Clients -> Subscription]
      <3>1. api[t].file \ {api[t].resource} \in Subscription
        BY <2>1, <2>2 DEF Subscription
      <3>2. QED
        BY <1>0, <2>1, <2>2, <3>1 DEF RestTyped
    <2>5. stale' \subseteq Clients /\ torn' \subseteq Clients
      BY <1>0, <1>5, <1>6, <2>1, <2>2 DEF RestTyped
    <2>6. QED
      BY <2>1, <2>3, <2>4, <2>5, WriteTyped
  <1>14. CASE DeleteSubscriptionFails(t)
    <2>1. Drop(t) /\ api[t].client \in Clients
      BY <1>14, DropEffects DEF DeleteSubscriptionFails
    <2>2. api' \in [Apis -> Call \cup {Idle}]
      BY <1>0, <1>14 DEF RestTyped, DeleteSubscriptionFails
    <2>3. QED
      BY <1>11, <1>14, <2>1, <2>2, WriteTyped DEF DeleteSubscriptionFails
  <1>15. QED
    BY <1>1, <1>2, <1>3, <1>4, <1>7, <1>8, <1>9, <1>10, <1>12, <1>13, <1>14 DEF Handle

LEMMA ReloadedTyped ==
    ASSUME TypeOK, NEW keep \in BOOLEAN, NEW s \in Storages
    PROVE  Reloaded(keep, s) \in [Clients -> Subscription]
  BY DEF Reloaded, TypeOK, Subscription

LEMMA NextTyped ==
    ASSUME TypeOK, SenderInv, [Next]_vars
    PROVE  TypeOK' /\ SenderInv'
  <1>0. RestTyped /\ MaxEvents \in Nat
    BY TypeOKSplits, DeliveryAssumption
  <1>1. ASSUME NEW t \in Publishers, NEW r \in Resources, Publish(t, r)
        PROVE  TypeOK' /\ SenderInv'
    <2>1. sent' \in 1..MaxEvents
      BY <1>0, <1>1 DEF Publish, RestTyped
    <2>2. \A c \in Clients : owed[c] \in SUBSET (1..MaxEvents)
      BY <1>0 DEF RestTyped
    <2>3. owed' \in [Clients -> SUBSET (1..MaxEvents)]
      BY <1>1, <2>1, <2>2 DEF Publish
    <2>4. RestTyped'
      BY <1>0, <1>1, <2>1, <2>3 DEF RestTyped, Publish, storeVars
    <2>5. QED
      BY <1>1, <2>4, ChannelSteps DEF TypeOK, ChanTyped, RestTyped, Blocker
  <1>2. ASSUME NEW i \in DOMAIN waiting, SendTimeout(i)
        PROVE  TypeOK' /\ SenderInv'
    <2>1. \A c \in Clients : owed[c] \in SUBSET (1..MaxEvents)
      BY <1>0 DEF RestTyped
    <2>2. owed' \in [Clients -> SUBSET (1..MaxEvents)]
      BY <1>2, <2>1 DEF SendTimeout
    <2>3. RestTyped'
      BY <1>0, <1>2, <2>2 DEF RestTyped, SendTimeout, storeVars
    <2>4. QED
      BY <1>2, <2>3, ChannelSteps DEF TypeOK, ChanTyped, RestTyped, Blocker
  <1>3. ASSUME NEW t \in Apis, Handle(t) \/ DeleteAll(t)
        PROVE  TypeOK' /\ SenderInv'
    BY <1>3, ApiTyped
  <1>4. ASSUME NEW t \in Apis, NEW c \in Clients, NEW r \in Resources,
               Subscribe(t, c, r) \/ Unsubscribe(t, c, r)
        PROVE  TypeOK' /\ SenderInv'
    BY <1>4, ApiTyped
  <1>5. ASSUME NEW keep \in BOOLEAN, NEW s \in Storages, Restart(keep, s)
        PROVE  TypeOK' /\ SenderInv'
    BY <1>5, ReloadedTyped, StartTyped DEF Restart
  <1>6. CASE UNCHANGED vars
    BY <1>0, <1>6, ChannelSteps DEF vars, chanVars, storeVars, TypeOK, ChanTyped, RestTyped, Blocker
  <1>7. QED
    BY <1>1, <1>2, <1>3, <1>4, <1>5, <1>6, ConsumerTyped DEF Next

-----------------------------------------------------------------------------
(* The count of failures.                                                  *)

\* A handler that turns to something else than a copy.
LEMMA CallsFail ==
    ASSUME TypeOK, FailInv, UNCHANGED missed, NEW t \in Apis, NEW x, api' = [api EXCEPT ![t] = x],
           x # Idle /\ x.op \in {"create", "delete"} /\ x.copy # Absent
              => x.copy.fails <= missed[x.client]
    PROVE  \A u \in Apis : CallFails(u)'
  <1>1. \A u \in Apis : api'[u] = IF u = t THEN x ELSE api[u]
    BY DEF TypeOK
  <1>2. QED
    BY <1>1 DEF FailInv, CallFails

LEMMA SetFails ==
    ASSUME TypeOK, FailInv, UNCHANGED missed, NEW c \in Clients, NEW i \in SubStores,
           NEW n \in 0..FailLimit, NEW S \in SUBSET Resources, SetEntry(c, i, n, S), n <= missed[c]
    PROVE  StoreFails'
  <1>1. /\ store'[c] = [sub |-> i, fails |-> n]
        /\ \A d \in Clients : d # c => store'[d] = store[d]
        /\ Registered' = Registered \cup {c}
    BY SetEntryEffects
  <1>2. Registered \subseteq Clients /\ store'[c].fails = n
    BY <1>1 DEF Registered
  <1>3. QED
    BY <1>1, <1>2 DEF FailInv, StoreFails

\* Whoever is taken out of the store takes the count along.
LEMMA FewerFail ==
    ASSUME FailInv, UNCHANGED missed, \A c \in Clients : store'[c] = store[c] \/ store'[c] = Absent
    PROVE  StoreFails'
  BY DEF FailInv, StoreFails, Registered

LEMMA StartFails ==
    ASSUME TypeOK, NEW loaded \in [Clients -> Subscription], NEW keep \in BOOLEAN, NEW s \in Storages,
           Start(loaded, keep, s)
    PROVE  FailInv'
  <1>1. \A c \in Registered' : c \in Clients /\ store'[c].fails = 0
    BY StartTyped
  <1>2. job' = Idle /\ api' = [t \in Apis |-> Idle] /\ missed' = [c \in Clients |-> 0]
    BY DEF Start
  <1>3. StoreFails'
    BY <1>1, <1>2 DEF StoreFails
  <1>4. JobFails' /\ \A t \in Apis : CallFails(t)'
    BY <1>2 DEF JobFails, CallFails
  <1>5. QED
    BY <1>3, <1>4 DEF FailInv

LEMMA PostFails ==
    ASSUME TypeOK, FailInv, NEW c \in Clients, Post(c)
    PROVE  FailInv'
  <1>0. FailLimit \in Nat \ {0} /\ missed \in [Clients -> 0..FailLimit]
    BY DeliveryAssumption DEF TypeOK
  <1>1. /\ UNCHANGED <<api, storeVars>>
        /\ missed' = missed \/ missed' = [missed EXCEPT ![c] = Missed(@)]
        /\ PostUnreachable(c) => missed' = [missed EXCEPT ![c] = Missed(@)]
    BY DEF Post, PostAnswered, PostFailed, PostUnreachable, Posted
  <1>2. Missed(missed[c]) \in 0..FailLimit /\ missed[c] <= Missed(missed[c])
    BY <1>0 DEF Missed
  <1>3. \A d \in Clients : missed'[d] \in 0..FailLimit /\ missed[d] <= missed'[d]
    BY <1>0, <1>1, <1>2
  <1>4. StoreFails'
    <2>1. store' = store /\ Registered' = Registered
      BY <1>1 DEF storeVars, Registered
    <2>2. \A d \in Registered : d \in Clients /\ store[d].fails \in 0..FailLimit
      BY SubsAreTyped, EntryTyped DEF SubsTyped
    <2>3. QED
      BY <1>0, <1>3, <2>1, <2>2 DEF FailInv, StoreFails
  <1>5. ASSUME NEW t \in Apis PROVE CallFails(t)'
    <2> SUFFICES ASSUME api[t] # Idle, api[t].op \in {"create", "delete"}, api[t].copy # Absent
                 PROVE  api[t].copy.fails <= missed'[api[t].client]
      BY <1>1 DEF CallFails
    <2>1. api[t].client \in Clients /\ api[t].copy.fails \in 0..FailLimit
      BY CallTyped, EntryTyped
    <2>2. api[t].copy.fails <= missed[api[t].client]
      BY DEF FailInv, CallFails
    <2>3. QED
      BY <1>0, <1>3, <2>1, <2>2
  <1>6. JobFails'
    <2> SUFFICES ASSUME job' # Idle, job'.act \in {"reset", "count"}
                 PROVE  Counted(job'.act, job'.copy.fails) <= missed'[job'.whom]
      BY DEF JobFails
    <2>1. /\ c \in Registered /\ job'.whom = c /\ job'.copy = store[c]
          /\ job'.act = "count" => PostUnreachable(c)
      BY PostJob
    <2>2. store[c].fails \in 0..FailLimit /\ store[c].fails <= missed[c]
      BY <2>1, SubsAreTyped, EntryTyped DEF SubsTyped, FailInv, StoreFails
    <2>3. CASE job'.act = "reset"
      <3>1. Counted("reset", store[c].fails) <= store[c].fails
        BY <1>0, <2>2 DEF Counted
      <3>2. Counted("reset", store[c].fails) \in 0..FailLimit
        BY <1>0, <2>2 DEF Counted
      <3>3. QED
        BY <1>0, <1>3, <2>1, <2>2, <2>3, <3>1, <3>2
    <2>4. CASE job'.act = "count"
      <3>1. missed'[c] = Missed(missed[c])
        BY <1>0, <1>1, <2>1, <2>4
      <3>2. Counted("count", store[c].fails) <= Missed(missed[c])
        BY <1>0, <2>2 DEF Counted, Missed
      <3>3. QED
        BY <2>1, <2>4, <3>1, <3>2
    <2>5. QED
      BY <2>3, <2>4
  <1>7. QED
    BY <1>4, <1>5, <1>6 DEF FailInv

LEMMA SaveFails ==
    ASSUME TypeOK, FailInv, Save
    PROVE  /\ FailInv'
           /\ job' # Idle /\ job'.act = "remove" => missed'[job'.whom] = FailLimit
  <1> DEFINE n == Counted(job.act, job.copy.fails)
  <1>1. /\ job # Idle /\ job.act \in {"reset", "count"} /\ job.whom \in Clients
        /\ n \in 0..FailLimit /\ job.copy.sub \in SubStores
        /\ heap[job.whom][job.copy.sub] \in SUBSET Resources
        /\ SetEntry(job.whom, job.copy.sub, n, heap[job.whom][job.copy.sub])
        /\ UNCHANGED <<api, missed>>
    BY SaveEffects, EntryTyped DEF Save
  <1>2. n <= missed[job.whom] /\ missed[job.whom] \in 0..FailLimit
    BY <1>1 DEF FailInv, JobFails, TypeOK
  <1>3. \/ /\ n = FailLimit /\ job' # Idle /\ job'.act = "remove" /\ job'.whom = job.whom
        \/ PostTo(job.msg, job.todo)
    BY SaveEffects
  <1>4. PostTo(job.msg, job.todo) => job' = Idle \/ job'.act = "post"
    BY <1>1, JobTyped, PostToEffects
  <1> HIDE DEF n
  <1>5. StoreFails'
    BY <1>1, <1>2, SetFails
  <1>6. \A t \in Apis : CallFails(t)'
    BY <1>1 DEF FailInv, CallFails
  <1>7. JobFails'
    BY <1>3, <1>4 DEF JobFails
  <1>8. n = FailLimit => missed[job.whom] = FailLimit
    BY <1>1, <1>2, DeliveryAssumption
  <1>9. QED
    BY <1>1, <1>3, <1>4, <1>5, <1>6, <1>7, <1>8 DEF FailInv

LEMMA FailKeeps ==
    ASSUME TypeOK, FailInv, [Next]_vars
    PROVE  FailInv'
  <1>0. FailLimit \in Nat \ {0} /\ missed \in [Clients -> 0..FailLimit]
    BY DeliveryAssumption DEF TypeOK
  <1>1. ASSUME UNCHANGED <<store, missed>>
        PROVE  StoreFails'
    BY <1>1 DEF FailInv, StoreFails, Registered
  <1>2. ASSUME UNCHANGED <<api, missed>>
        PROVE  \A t \in Apis : CallFails(t)'
    BY <1>2 DEF FailInv, CallFails
  <1>3. ASSUME UNCHANGED <<job, missed>>
        PROVE  JobFails'
    BY <1>3 DEF FailInv, JobFails
  <1>4. CASE UNCHANGED <<store, missed, api, job>>
    BY <1>1, <1>2, <1>3, <1>4 DEF FailInv
  <1>5. CASE Consumer
    <2>1. CASE ReceiveEvent
      <3>1. Head(queue) \in EventMessage /\ PostTo(Head(queue), SubscribersOf(Head(queue).resource))
        BY <2>1, TypeOKChan, TakeOffEffects, MessageKinds DEF ReceiveEvent
      <3>2. SubscribersOf(Head(queue).resource) \in SUBSET Clients
        BY DEF SubscribersOf, Registered
      <3>3. job' = Idle \/ job'.act = "post"
        BY <3>1, <3>2, PostToEffects
      <3>4. JobFails'
        BY <3>3 DEF JobFails
      <3>5. QED
        BY <1>1, <1>2, <2>1, <3>4 DEF ReceiveEvent, storeVars, FailInv
    <2>2. CASE ReceiveSubscriber
      BY <1>4, <2>2 DEF ReceiveSubscriber, storeVars
    <2>3. CASE CleanUp
      <3>1. job.msg \in EventMessage /\ job.todo \in SUBSET Clients /\ job.whom \in Clients
        BY <2>3, CleanUpEffects
      <3>2. CASE storage = NoClient /\ \E left \in [Clients -> Subscription] : Start(left, TRUE, NoClient)
        BY <3>2, StartFails DEF TypeOK
      <3>3. CASE /\ PostTo(job.msg, job.todo) /\ UNCHANGED <<api, missed>>
                 /\ store' = [store EXCEPT ![job.whom] = Absent] \/ store' = store
        <4>1. job' = Idle \/ job'.act = "post"
          BY <3>1, <3>3, PostToEffects
        <4>2. StoreFails'
          <5>1. \A c \in Clients : store'[c] = store[c] \/ store'[c] = Absent
            BY <3>1, <3>3 DEF TypeOK
          <5>2. QED
            BY <3>3, <5>1, FewerFail
        <4>3. QED
          BY <1>2, <3>3, <4>1, <4>2 DEF FailInv, JobFails
      <3>4. QED
        BY <2>3, <3>2, <3>3, CleanUpEffects DEF storeVars
    <2>4. QED
      BY <1>5, <2>1, <2>2, <2>3, PostFails, SaveFails DEF Consumer
  <1>6. ASSUME NEW t \in Apis, Handle(t) \/ DeleteAll(t)
        PROVE  FailInv'
    <2>1. ASSUME NEW x, api' = [api EXCEPT ![t] = x], x = Idle \/ x.op \notin {"create", "delete"},
                 UNCHANGED <<job, missed>>, StoreFails'
          PROVE  FailInv'
      BY <1>3, <2>1, CallsFail DEF FailInv
    <2>2. CASE Clear(t)
      <3>1. \A c \in Clients : store'[c] = store[c] \/ store'[c] = Absent
        BY <2>2 DEF Clear
      <3>2. StoreFails'
        BY <2>2, <3>1, FewerFail DEF Clear
      <3>3. QED
        BY <2>1, <2>2, <3>2 DEF Clear
    <2>3. CASE ReportRecord(t) \/ ReportFailed(t)
      BY <1>1, <2>1, <2>3 DEF ReportRecord, ReportFailed, storeVars
    <2>4. CASE DeleteAll(t)
      <3> DEFINE x == [op |-> "clear", walk |-> Registered]
      <3>1. x.op = "clear" /\ api' = [api EXCEPT ![t] = x] /\ UNCHANGED <<job, missed, store>>
        BY <2>4 DEF DeleteAll, storeVars
      <3> HIDE DEF x
      <3>2. QED
        BY <1>1, <2>1, <3>1
    <2>5. ASSUME NEW c \in Clients, Walk(t, c) PROVE FailInv'
      <3> DEFINE left == [api[t] EXCEPT !.walk = @ \ {c}]
                 x == IF api[t].op = "rest" /\ left.walk = {} THEN Idle ELSE left
      <3>1. api' = [api EXCEPT ![t] = x] /\ UNCHANGED <<job, missed, store>>
        BY <2>5 DEF Walk, storeVars
      <3>2. x = Idle \/ x.op \notin {"create", "delete"}
        <4>1. api[t].op \in {"rest", "clear"} /\ api[t] = [op |-> api[t].op, walk |-> api[t].walk]
          BY <2>5, CallTyped DEF Walk
        <4>2. left.op = api[t].op
          BY <4>1
        <4>3. QED
          BY <4>1, <4>2
      <3> HIDE DEF x
      <3>3. QED
        BY <1>1, <2>1, <3>1, <3>2
    <2>6. CASE Create(t) /\ (CreateSubscription(t) \/ CreateSubscriptionFails(t))
      <3>1. api[t].client \in Clients /\ UNCHANGED <<job, missed>>
        BY <2>6, CreateEffects
      <3>2. PICK i \in SubStores, S \in SUBSET Resources : SetEntry(api[t].client, i, 0, S)
        BY <2>6, CreateEffects
      <3>3. 0 \in 0..FailLimit /\ 0 <= missed[api[t].client]
        BY <1>0, <3>1
      <3>4. StoreFails'
        BY <3>1, <3>2, <3>3, SetFails
      <3>5. CASE CreateSubscription(t)
        <4> DEFINE x == [op |-> "record", client |-> api[t].client, subs |-> subs'[api[t].client]]
        <4>1. x.op = "record" /\ api' = [api EXCEPT ![t] = x]
          BY <3>5 DEF CreateSubscription
        <4> HIDE DEF x
        <4>2. QED
          BY <2>1, <3>1, <3>4, <4>1
      <3>6. CASE CreateSubscriptionFails(t)
        <4> DEFINE x == [op |-> "failed", client |-> api[t].client]
        <4>1. x.op = "failed" /\ api' = [api EXCEPT ![t] = x]
          BY <3>6 DEF CreateSubscriptionFails
        <4> HIDE DEF x
        <4>2. QED
          BY <2>1, <3>1, <3>4, <4>1
      <3>7. QED
        BY <2>6, <3>5, <3>6
    <2>7. CASE Drop(t) /\ (DeleteSubscription(t) \/ DeleteSubscriptionFails(t))
      <3>1. /\ api[t] # Idle /\ api[t].op = "delete" /\ api[t].client \in Clients
            /\ api[t].copy \in Entry /\ UNCHANGED <<job, missed>>
        BY <2>7, DropEffects
      <3>2. PICK S \in SUBSET Resources :
               SetEntry(api[t].client, api[t].copy.sub, api[t].copy.fails, S)
        BY <2>7, DropEffects
      <3>3. /\ api[t].copy.sub \in SubStores /\ api[t].copy.fails \in 0..FailLimit
            /\ api[t].copy.fails <= missed[api[t].client]
        BY <3>1, EntryTyped DEF FailInv, CallFails
      <3>4. StoreFails'
        BY <3>1, <3>2, <3>3, SetFails
      <3>5. CASE DeleteSubscription(t)
        <4> DEFINE x == [op |-> "rest", walk |-> Registered']
        <4>1. x.op = "rest" /\ api' = [api EXCEPT ![t] = x]
          BY <3>5 DEF DeleteSubscription
        <4> HIDE DEF x
        <4>2. QED
          BY <2>1, <3>1, <3>4, <4>1
      <3>6. CASE DeleteSubscriptionFails(t)
        BY <2>1, <3>1, <3>4, <3>6 DEF DeleteSubscriptionFails
      <3>7. QED
        BY <2>7, <3>5, <3>6
    <2>8. QED
      BY <1>6, <2>2, <2>3, <2>4, <2>5, <2>6, <2>7
         DEF Handle, CreateSubscription, CreateSubscriptionFails, DeleteSubscription,
             DeleteSubscriptionFails
  <1>7. ASSUME NEW t \in Apis, NEW c \in Clients, NEW r \in Resources,
               Subscribe(t, c, r) \/ Unsubscribe(t, c, r)
        PROVE  FailInv'
    <2>1. ASSUME NEW x, api' = [api EXCEPT ![t] = x], x.client = c, x.copy = store[c],
                 UNCHANGED <<store, job, missed>>
          PROVE  FailInv'
      <3>1. x.copy # Absent => x.copy.fails <= missed[c]
        BY <2>1 DEF FailInv, StoreFails, Registered
      <3>2. QED
        BY <1>1, <1>3, <2>1, <3>1, CallsFail DEF FailInv
    <2>2. CASE Subscribe(t, c, r)
      <3> DEFINE x == [op |-> "create", client |-> c, resource |-> r, copy |-> store[c]]
      <3>1. x.client = c /\ x.copy = store[c] /\ api' = [api EXCEPT ![t] = x]
            /\ UNCHANGED <<store, job, missed>>
        BY <2>2 DEF Subscribe, storeVars
      <3> HIDE DEF x
      <3>2. QED
        BY <2>1, <3>1
    <2>3. CASE Unsubscribe(t, c, r)
      <3> DEFINE x == [op |-> "delete", client |-> c, resource |-> r, copy |-> store[c],
                       file |-> files[c]]
      <3>1. x.client = c /\ x.copy = store[c] /\ api' = [api EXCEPT ![t] = x]
            /\ UNCHANGED <<store, job, missed>>
        BY <2>3 DEF Unsubscribe, storeVars
      <3> HIDE DEF x
      <3>2. QED
        BY <2>1, <3>1
    <2>4. QED
      BY <1>7, <2>2, <2>3
  <1>8. ASSUME NEW t \in Publishers, NEW r \in Resources, Publish(t, r)
        PROVE  FailInv'
    BY <1>4, <1>8 DEF Publish, storeVars
  <1>9. ASSUME NEW i \in DOMAIN waiting, SendTimeout(i)
        PROVE  FailInv'
    BY <1>4, <1>9 DEF SendTimeout, storeVars
  <1>10. ASSUME NEW keep \in BOOLEAN, NEW s \in Storages, Restart(keep, s)
         PROVE  FailInv'
    BY <1>10, ReloadedTyped, StartFails DEF Restart
  <1>11. CASE UNCHANGED vars
    BY <1>4, <1>11 DEF vars
  <1>12. QED
    BY <1>5, <1>6, <1>7, <1>8, <1>9, <1>10, <1>11 DEF Next

-----------------------------------------------------------------------------
(* The marked clients, and the files.                                      *)

\* What most steps do to them.
LEMMA MarkFrame ==
    ASSUME MarkInv, stale \subseteq stale', \A c \in Clients : store'[c] = store[c] \/ store'[c] = Absent
    PROVE  MarkInv'
  BY DEF MarkInv, Marked, Registered

LEMMA SetMarks ==
    ASSUME TypeOK, MarkInv, NEW c \in Clients, NEW i \in SubStores, NEW n \in 0..FailLimit,
           NEW S \in SUBSET Resources, SetEntry(c, i, n, S),
           stale \ {c} \subseteq stale', n = FailLimit => c \in stale'
    PROVE  MarkInv'
  <1>1. /\ store'[c] = [sub |-> i, fails |-> n]
        /\ Marked' \subseteq Marked \cup {c} /\ (n < FailLimit => c \notin Marked')
    BY SetEntryEffects
  <1>2. n < FailLimit \/ n = FailLimit
    BY DeliveryAssumption
  <1>3. QED
    BY <1>1, <1>2 DEF MarkInv

\* A Set with the subscriptions S, when the file of the client is F afterwards.
LEMMA SetFile ==
    ASSUME TypeOK, FileInv, NEW c \in Clients, NEW i \in SubStores, NEW n \in 0..FailLimit,
           NEW S \in SUBSET Resources, SetEntry(c, i, n, S),
           \A d \in Clients : d # c => files'[d] = files[d],
           torn \ {c} \subseteq torn', c \in torn' \/ files'[c] = S
    PROVE  FileInv'
  <1>1. subs'[c] = S /\ \A d \in Clients : d # c => subs'[d] = subs[d]
    BY SetEntrySubs
  <1>2. QED
    BY <1>1 DEF FileInv

LEMMA StartKeeps ==
    ASSUME TypeOK, NEW loaded \in [Clients -> Subscription], NEW keep \in BOOLEAN, NEW s \in Storages,
           Start(loaded, keep, s)
    PROVE  MarkInv' /\ FileInv'
  <1>1. /\ \A c \in Clients : subs'[c] = loaded[c] /\ files'[c] = loaded[c]
        /\ \A c \in Registered' : c \in Clients /\ store'[c].fails = 0
    BY StartTyped
  <1>2. 0 # FailLimit
    BY DeliveryAssumption
  <1>3. QED
    BY <1>1, <1>2 DEF MarkInv, Marked, FileInv

LEMMA ConsumerKeeps ==
    ASSUME TypeOK, MarkInv, FileInv, Consumer
    PROVE  MarkInv' /\ FileInv'
  <1>1. ASSUME stale \subseteq stale', UNCHANGED storeVars
        PROVE  MarkInv' /\ FileInv'
    BY <1>1, MarkFrame DEF storeVars, FileInv, subs
  <1>2. CASE ReceiveEvent
    BY <1>1, <1>2 DEF ReceiveEvent
  <1>3. CASE ReceiveSubscriber
    BY <1>1, <1>3 DEF ReceiveSubscriber
  <1>4. ASSUME NEW c \in Clients, Post(c) PROVE MarkInv' /\ FileInv'
    BY <1>1, <1>4 DEF Post, PostAnswered, PostFailed, PostUnreachable, Posted
  <1>5. CASE Save
    <2> DEFINE c == job.whom
               n == Counted(job.act, job.copy.fails)
               S == heap[c][job.copy.sub]
    <2>1. /\ c \in Clients /\ n \in 0..FailLimit /\ job.copy.sub \in SubStores /\ S \in SUBSET Resources
          /\ SetEntry(c, job.copy.sub, n, S)
          /\ Same(c, job.copy) => S = subs[c]
      BY <1>5, SaveEffects, EntryTyped
    <2>2. /\ torn' = IF Same(c, job.copy) THEN torn ELSE torn \cup {c}
          /\ stale' = IF Same(c, job.copy) /\ n < FailLimit THEN stale ELSE stale \cup {c}
          /\ UNCHANGED files
      BY <1>5 DEF Save
    <2>3. n = FailLimit => ~(n < FailLimit)
      BY DeliveryAssumption
    <2> HIDE DEF c, n, S
    <2>4. MarkInv'
      BY <2>1, <2>2, <2>3, SetMarks
    <2>5. c \in torn' \/ files'[c] = S
      BY <2>1, <2>2 DEF FileInv
    <2>6. FileInv'
      BY <2>1, <2>2, <2>5, SetFile
    <2>7. QED
      BY <2>4, <2>6
  <1>6. CASE CleanUp
    <2>1. CASE storage = NoClient /\ \E left \in [Clients -> Subscription] : Start(left, TRUE, NoClient)
      BY <2>1, StartKeeps DEF TypeOK
    <2>2. CASE UNCHANGED <<storeVars, stale>>
      BY <1>1, <2>2
    <2>3. CASE /\ job.whom \in Clients
               /\ store' = [store EXCEPT ![job.whom] = Absent]
               /\ \A c \in Clients : c # job.whom => files'[c] = files[c]
               /\ \/ files'[job.whom] = Absent /\ torn' = torn \ {job.whom}
                  \/ job.whom \notin Registered /\ files' = files /\ torn' = torn
               /\ stale' = stale \cup {job.whom}
               /\ UNCHANGED heap
      <3>1. \A c \in Clients : store'[c] = IF c = job.whom THEN Absent ELSE store[c]
        BY <2>3 DEF TypeOK
      <3>2. MarkInv'
        BY <2>3, <3>1, MarkFrame
      <3>3. \A c \in Clients : subs'[c] = IF c = job.whom THEN Absent ELSE subs[c]
        BY <2>3, <3>1 DEF subs
      <3>4. job.whom \notin Registered => subs[job.whom] = Absent
        BY <2>3 DEF subs, Registered
      <3>5. FileInv'
        BY <2>3, <3>3, <3>4 DEF FileInv
      <3>6. QED
        BY <3>2, <3>5
    <2>4. QED
      BY <1>6, <2>1, <2>2, <2>3, CleanUpEffects
  <1>7. QED
    BY <1>2, <1>3, <1>4, <1>5, <1>6 DEF Consumer

\* The steps of the handlers that do not touch the entries.
LEMMA OthersKeep ==
    ASSUME TypeOK, MarkInv, FileInv, NEW t \in Apis,
           \/ ReportRecord(t) \/ ReportFailed(t) \/ DeleteAll(t) \/ Clear(t)
           \/ \E c \in Clients : Walk(t, c)
           \/ \E c \in Clients, r \in Resources : Subscribe(t, c, r) \/ Unsubscribe(t, c, r)
    PROVE  MarkInv' /\ FileInv'
  <1>1. CASE UNCHANGED <<storeVars, stale>>
    BY <1>1, MarkFrame DEF storeVars, FileInv, subs
  <1>2. CASE DeleteAll(t)
    <2>1. UNCHANGED storeVars /\ Reports(t, Registered, Registered)
      BY <1>2 DEF DeleteAll
    <2>2. Marked' = Marked /\ Marked \subseteq Registered
      BY <2>1, SubsFrame DEF storeVars, Marked
    <2>3. MarkInv'
      BY <2>1, <2>2 DEF Reports, MarkInv
    <2>4. QED
      BY <2>1, <2>3 DEF storeVars, FileInv, subs
  <1>3. CASE Clear(t)
    <2>1. PICK S \in SUBSET Registered :
             /\ store' = [c \in Clients |-> IF c \in S THEN Absent ELSE store[c]]
             /\ files' = [c \in Clients |-> IF c \in S THEN Absent ELSE files[c]]
             /\ torn' = torn \ S
             /\ stale' = stale \cup (Registered \ S)
      BY <1>3 DEF Clear
    <2>2. UNCHANGED heap
      BY <1>3 DEF Clear
    <2>3. \A c \in Clients : subs'[c] = IF c \in S THEN Absent ELSE subs[c]
      BY <2>1, <2>2 DEF subs
    <2>4. MarkInv'
      BY <2>1, MarkFrame
    <2>5. FileInv'
      BY <2>1, <2>3 DEF FileInv
    <2>6. QED
      BY <2>4, <2>5
  <1>4. QED
    BY <1>1, <1>2, <1>3 DEF ReportRecord, ReportFailed, Walk, Subscribe, Unsubscribe

LEMMA CreateKeeps ==
    ASSUME TypeOK, MarkInv, FileInv, NEW t \in Apis,
           CreateSubscription(t) \/ CreateSubscriptionFails(t)
    PROVE  MarkInv' /\ FileInv'
  <1>0. Create(t)
    BY DEF CreateSubscription, CreateSubscriptionFails
  <1>1. PICK c \in Clients : c = api[t].client
    BY <1>0, CreateEffects
  <1>2. PICK i \in SubStores, S \in SUBSET Resources :
           /\ SetEntry(c, i, 0, S)
           /\ Same(c, api[t].copy) => S = Content(subs[c]) \cup {api[t].resource}
    BY <1>0, <1>1, CreateEffects
  <1>3. 0 \in 0..FailLimit /\ 0 # FailLimit
    BY DeliveryAssumption
  <1>4. CASE CreateSubscription(t)
    <2>1. subs'[c] = S
      BY <1>2, <1>3, SetEntrySubs
    <2>2. /\ files' = [files EXCEPT ![c] = Content(@) \cup subs'[c]]
          /\ torn' = IF Same(c, api[t].copy) THEN torn ELSE torn \cup {c}
          /\ Reports(t, {c}, {c})
      BY <1>1, <1>4 DEF CreateSubscription
    <2>3. stale \ {c} \subseteq stale'
      BY <2>2 DEF Reports
    <2>4. MarkInv'
      BY <1>2, <1>3, <2>3, SetMarks
    <2>5. /\ files'[c] = Content(files[c]) \cup S
          /\ \A d \in Clients : d # c => files'[d] = files[d]
      BY <2>1, <2>2 DEF TypeOK
    <2>6. c \in torn' \/ files'[c] = S
      <3>1. CASE Same(c, api[t].copy) /\ c \notin torn
        <4>1. S = Content(subs[c]) \cup {api[t].resource} /\ files[c] = subs[c]
          BY <1>2, <3>1 DEF FileInv
        <4>2. Content(subs[c]) \cup (Content(subs[c]) \cup {api[t].resource})
              = Content(subs[c]) \cup {api[t].resource}
          OBVIOUS
        <4>3. QED
          BY <2>5, <4>1, <4>2
      <3>2. QED
        BY <2>2, <3>1
    <2>7. FileInv'
      BY <1>2, <1>3, <2>2, <2>5, <2>6, SetFile
    <2>8. QED
      BY <2>4, <2>7
  <1>5. CASE CreateSubscriptionFails(t)
    <2>1. FileFails(c)
      BY <1>1, <1>5 DEF CreateSubscriptionFails
    <2>2. /\ \A d \in Clients : d # c => files'[d] = files[d]
          /\ torn' = torn \cup {c} /\ stale' = stale \cup {c}
      BY <2>1 DEF FileFails, TypeOK
    <2>3. MarkInv'
      BY <1>2, <1>3, <2>2, SetMarks
    <2>4. FileInv'
      BY <1>2, <1>3, <2>2, SetFile
    <2>5. QED
      BY <2>3, <2>4
  <1>6. QED
    BY <1>4, <1>5

LEMMA DropKeeps ==
    ASSUME TypeOK, MarkInv, FileInv, NEW t \in Apis,
           DeleteSubscription(t) \/ DeleteSubscriptionFails(t)
    PROVE  MarkInv' /\ FileInv'
  <1>0. Drop(t)
    BY DEF DeleteSubscription, DeleteSubscriptionFails
  <1>1. PICK c \in Clients : c = api[t].client
    BY <1>0, DropEffects
  <1>2. PICK i \in SubStores, n \in 0..FailLimit : i = api[t].copy.sub /\ n = api[t].copy.fails
    BY <1>0, DropEffects, EntryTyped
  <1>3. PICK S \in SUBSET Resources :
           /\ SetEntry(c, i, n, S)
           /\ Same(c, api[t].copy) => S = subs[c] \ {api[t].resource}
    BY <1>0, <1>1, <1>2, DropEffects
  <1>4. CASE DeleteSubscription(t)
    <2>1. Registered' = Registered \cup {c}
      BY <1>3, SetEntrySubs
    <2>2. /\ files' = [files EXCEPT ![c] = api[t].file \ {api[t].resource}]
          /\ torn' = IF Same(c, api[t].copy) /\ files[c] = api[t].file THEN torn ELSE torn \cup {c}
          /\ Reports(t, Registered', {c})
      BY <1>1, <1>4 DEF DeleteSubscription
    <2>3. MarkInv'
      <3>1. CASE storage = ConfigMap
        <4>1. Marked' \subseteq Registered'
          BY DEF Marked
        <4>2. Registered' \cap Marked' \subseteq stale'
          BY <2>2, <3>1 DEF Reports
        <4>3. QED
          BY <4>1, <4>2 DEF MarkInv
      <3>2. CASE storage # ConfigMap
        <4>1. stale' = stale \cup {c}
          BY <2>2, <3>2 DEF Reports
        <4>2. QED
          BY <1>3, <4>1, SetMarks
      <3>3. QED
        BY <3>1, <3>2
    <2>4. /\ files'[c] = api[t].file \ {api[t].resource}
          /\ \A d \in Clients : d # c => files'[d] = files[d]
      BY <2>2 DEF TypeOK
    <2>5. c \in torn' \/ files'[c] = S
      BY <1>3, <2>2, <2>4 DEF FileInv
    <2>6. FileInv'
      BY <1>3, <2>2, <2>4, <2>5, SetFile
    <2>7. QED
      BY <2>3, <2>6
  <1>5. CASE DeleteSubscriptionFails(t)
    <2>1. FileFails(c)
      BY <1>1, <1>5 DEF DeleteSubscriptionFails
    <2>2. /\ \A d \in Clients : d # c => files'[d] = files[d]
          /\ torn' = torn \cup {c} /\ stale' = stale \cup {c}
      BY <2>1 DEF FileFails, TypeOK
    <2>3. MarkInv'
      BY <1>3, <2>2, SetMarks
    <2>4. FileInv'
      BY <1>3, <2>2, SetFile
    <2>5. QED
      BY <2>3, <2>4
  <1>6. QED
    BY <1>4, <1>5

LEMMA MarkFileKeeps ==
    ASSUME TypeOK, MarkInv, FileInv, [Next]_vars
    PROVE  MarkInv' /\ FileInv'
  <1>1. CASE UNCHANGED <<storeVars, stale>>
    BY <1>1, MarkFrame DEF storeVars, FileInv, subs
  <1>2. ASSUME NEW t \in Publishers, NEW r \in Resources, Publish(t, r)
        PROVE  MarkInv' /\ FileInv'
    BY <1>1, <1>2 DEF Publish
  <1>3. ASSUME NEW i \in DOMAIN waiting, SendTimeout(i)
        PROVE  MarkInv' /\ FileInv'
    BY <1>1, <1>3 DEF SendTimeout
  <1>4. ASSUME NEW t \in Apis, Handle(t) \/ DeleteAll(t)
        PROVE  MarkInv' /\ FileInv'
    BY <1>4, CreateKeeps, DropKeeps, OthersKeep DEF Handle
  <1>5. ASSUME NEW t \in Apis, NEW c \in Clients, NEW r \in Resources,
               Subscribe(t, c, r) \/ Unsubscribe(t, c, r)
        PROVE  MarkInv' /\ FileInv'
    BY <1>5, OthersKeep
  <1>6. ASSUME NEW keep \in BOOLEAN, NEW s \in Storages, Restart(keep, s)
        PROVE  MarkInv' /\ FileInv'
    BY <1>6, ReloadedTyped, StartKeeps DEF Restart
  <1>7. CASE UNCHANGED vars
    BY <1>1, <1>7 DEF vars, storeVars
  <1>8. QED
    BY <1>2, <1>3, <1>4, <1>5, <1>6, <1>7, ConsumerKeeps DEF Next

\* The steps that RemovalHasCause allows.
Caused ==
    /\ job' # Idle /\ job'.act = "remove" /\ job # job' => missed'[job'.whom] = FailLimit
    /\ \A c \in Registered :
          store'[c] = Absent =>
             \/ job # Idle /\ job.act = "remove" /\ (job.whom = c \/ storage = NoClient)
             \/ \E t \in Apis : Clear(t)
             \/ \E keep \in BOOLEAN, s \in Storages : Restart(keep, s)

LEMMA RemovalCaused ==
    ASSUME TypeOK, FailInv, [Next]_vars
    PROVE  Caused
  <1>0. \A c \in Registered : c \in Clients /\ store[c] # Absent
    BY DEF Registered
  <1>1. CASE UNCHANGED <<job, store>>
    BY <1>0, <1>1 DEF Caused
  <1>2. ASSUME NEW c \in Clients, NEW i \in SubStores, NEW n \in 0..FailLimit,
               NEW S \in SUBSET Resources, SetEntry(c, i, n, S)
        PROVE  \A d \in Registered : store'[d] # Absent
    <2>1. Registered \subseteq Registered'
      BY <1>2, SetEntrySubs
    <2>2. QED
      BY <2>1 DEF Registered
  <1>3. CASE Consumer
    <2>1. CASE ReceiveEvent
      <3>1. Head(queue) \in EventMessage /\ PostTo(Head(queue), SubscribersOf(Head(queue).resource))
        BY <2>1, TypeOKChan, TakeOffEffects, MessageKinds DEF ReceiveEvent
      <3>2. SubscribersOf(Head(queue).resource) \in SUBSET Clients
        BY DEF SubscribersOf, Registered
      <3>3. job' = Idle \/ job'.act = "post"
        BY <3>1, <3>2, PostToEffects
      <3>4. QED
        BY <1>0, <2>1, <3>3 DEF ReceiveEvent, storeVars, Caused
    <2>2. CASE ReceiveSubscriber
      BY <1>1, <2>2 DEF ReceiveSubscriber, storeVars
    <2>3. CASE CleanUp
      <3>1. job # Idle /\ job.act = "remove" /\ job.msg \in EventMessage /\ job.todo \in SUBSET Clients
        BY <2>3, CleanUpEffects
      <3>2. \A c \in Registered : store'[c] = Absent => job.whom = c \/ storage = NoClient
        <4>1. \/ storage = NoClient \/ store' = store
              \/ store' = [store EXCEPT ![job.whom] = Absent]
          BY <2>3, CleanUpEffects DEF storeVars
        <4>2. QED
          BY <1>0, <4>1 DEF TypeOK
      <3>3. job' = Idle \/ job'.act = "post"
        <4>1. job' = Idle \/ PostTo(job.msg, job.todo)
          BY <2>3, CleanUpEffects DEF Start
        <4>2. QED
          BY <3>1, <4>1, PostToEffects
      <3>4. QED
        BY <3>1, <3>2, <3>3 DEF Caused
    <2>4. ASSUME NEW c \in Clients, Post(c)
          PROVE  Caused
      <3>1. UNCHANGED store
        BY <2>4 DEF Post, PostAnswered, PostFailed, PostUnreachable, Posted, storeVars
      <3>2. job' = Idle \/ job'.act # "remove"
        BY <2>4, PostJob
      <3>3. QED
        BY <1>0, <3>1, <3>2 DEF Caused
    <2>5. CASE Save
      <3>1. \A d \in Registered : store'[d] # Absent
        BY <1>2, <2>5, SaveEffects, EntryTyped
      <3>2. QED
        BY <2>5, <3>1, SaveFails DEF Caused
    <2>6. QED
      BY <1>3, <2>1, <2>2, <2>3, <2>4, <2>5 DEF Consumer
  <1>4. ASSUME NEW t \in Apis, Handle(t) \/ DeleteAll(t)
        PROVE  Caused
    <2>1. CASE Clear(t)
      <3>1. UNCHANGED job
        BY <2>1 DEF Clear
      <3>2. QED
        BY <2>1, <3>1 DEF Caused
    <2>2. CASE ReportRecord(t) \/ ReportFailed(t) \/ DeleteAll(t) \/ \E c \in Clients : Walk(t, c)
      BY <1>1, <2>2 DEF ReportRecord, ReportFailed, DeleteAll, Walk, storeVars
    <2>3. CASE Create(t) \/ Drop(t)
      <3>1. UNCHANGED job
        BY <2>3 DEF Create, Drop
      <3>2. \A d \in Registered : store'[d] # Absent
        <4>1. 0 \in 0..FailLimit
          BY DeliveryAssumption
        <4>2. CASE Create(t)
          BY <1>2, <4>1, <4>2, CreateEffects
        <4>3. CASE Drop(t)
          BY <1>2, <4>3, DropEffects, EntryTyped
        <4>4. QED
          BY <2>3, <4>2, <4>3
      <3>3. QED
        BY <3>1, <3>2 DEF Caused
    <2>4. QED
      BY <1>4, <2>1, <2>2, <2>3
         DEF Handle, CreateSubscription, CreateSubscriptionFails, DeleteSubscription,
             DeleteSubscriptionFails
  <1>5. ASSUME NEW t \in Apis, NEW c \in Clients, NEW r \in Resources,
               Subscribe(t, c, r) \/ Unsubscribe(t, c, r)
        PROVE  Caused
    BY <1>1, <1>5 DEF Subscribe, Unsubscribe, storeVars
  <1>6. ASSUME NEW t \in Publishers, NEW r \in Resources, Publish(t, r)
        PROVE  Caused
    BY <1>1, <1>6 DEF Publish, storeVars
  <1>7. ASSUME NEW i \in DOMAIN waiting, SendTimeout(i)
        PROVE  Caused
    BY <1>1, <1>7 DEF SendTimeout, storeVars
  <1>8. ASSUME NEW keep \in BOOLEAN, NEW s \in Storages, Restart(keep, s)
        PROVE  Caused
    <2>1. job' = Idle
      BY <1>8 DEF Restart, Start
    <2>2. QED
      BY <1>8, <2>1 DEF Caused
  <1>9. CASE UNCHANGED vars
    BY <1>1, <1>9 DEF vars
  <1>10. QED
    BY <1>3, <1>4, <1>5, <1>6, <1>7, <1>8, <1>9 DEF Next
-----------------------------------------------------------------------------
(* The last word about a client.                                           *)

LEMMA LastOfAppend ==
    ASSUME NEW s \in Seq(Message), NEW m \in Message, NEW c, NEW w, NEW base
    PROVE  /\ ~About(m, c) /\ LastWord(s, c, w, base) => LastWord(Append(s, m), c, w, base)
           /\ About(m, c) /\ Word(m) = w => LastWord(Append(s, m), c, w, base)
  <1> DEFINE a == Append(s, m)
             n == Len(s)
  <1>1. /\ n \in Nat /\ DOMAIN s = 1..n /\ DOMAIN a = 1..(n + 1)
        /\ \A i \in 1..n : a[i] = s[i]
        /\ a[n + 1] = m
    BY AppendElements
  <1> HIDE DEF a, n
  <1>2. ASSUME ~About(m, c), LastWord(s, c, w, base) PROVE LastWord(a, c, w, base)
    <2>1. CASE (\A i \in DOMAIN s : ~About(s[i], c)) /\ base = w
      <3>1. \A i \in DOMAIN a : ~About(a[i], c)
        <4> TAKE i \in DOMAIN a
        <4>1. i \in 1..n \/ i = n + 1
          BY <1>1
        <4>2. QED
          BY <1>1, <1>2, <2>1, <4>1
      <3>2. QED
        BY <2>1, <3>1 DEF LastWord
    <2>2. ASSUME NEW i \in DOMAIN s, About(s[i], c), Word(s[i]) = w,
                 \A j \in DOMAIN s : j > i => ~About(s[j], c)
          PROVE  LastWord(a, c, w, base)
      <3>1. i \in DOMAIN a /\ a[i] = s[i]
        BY <1>1, <2>2
      <3>2. \A j \in DOMAIN a : j > i => ~About(a[j], c)
        <4> TAKE j \in DOMAIN a
        <4>1. j \in 1..n \/ j = n + 1
          BY <1>1
        <4>2. QED
          BY <1>1, <1>2, <2>2, <4>1
      <3>3. QED
        BY <2>2, <3>1, <3>2 DEF LastWord
    <2>3. QED
      BY <1>2, <2>1, <2>2 DEF LastWord
  <1>3. ASSUME About(m, c), Word(m) = w PROVE LastWord(a, c, w, base)
    <2>1. n + 1 \in DOMAIN a /\ \A j \in DOMAIN a : ~(j > n + 1)
      BY <1>1
    <2>2. QED
      BY <1>1, <1>3, <2>1 DEF LastWord
  <1>4. QED
    BY <1>2, <1>3 DEF a

\* Taking the first message off, and writing it if it is about c.
LEMMA LastOfTail ==
    ASSUME NEW s \in Seq(Message), s # <<>>, NEW c, NEW w, NEW base, LastWord(s, c, w, base)
    PROVE  /\ ~About(Head(s), c) => LastWord(Tail(s), c, w, base)
           /\ About(Head(s), c) => LastWord(Tail(s), c, w, Word(Head(s)))
  <1> DEFINE a == Tail(s)
             n == Len(s)
  <1>1. /\ n \in Nat \ {0} /\ DOMAIN s = 1..n /\ DOMAIN a = 1..(n - 1)
        /\ \A i \in 1..(n - 1) : a[i] = s[i + 1]
        /\ Head(s) = s[1]
    BY TailElements
  <1> HIDE DEF a, n
  <1>2. CASE (\A i \in DOMAIN s : ~About(s[i], c)) /\ base = w
    <2>1. \A i \in DOMAIN a : ~About(a[i], c)
      <3> TAKE i \in DOMAIN a
      <3>1. i + 1 \in DOMAIN s /\ a[i] = s[i + 1]
        BY <1>1
      <3>2. QED
        BY <1>2, <3>1
    <2>2. ~About(Head(s), c)
      BY <1>1, <1>2
    <2>3. QED
      BY <1>2, <2>1, <2>2 DEF LastWord, a
  <1>3. ASSUME NEW i \in DOMAIN s, About(s[i], c), Word(s[i]) = w,
               \A j \in DOMAIN s : j > i => ~About(s[j], c)
        PROVE  \/ \A b : LastWord(a, c, w, b)
               \/ i = 1 /\ \A j \in DOMAIN a : ~About(a[j], c)
    <2>1. CASE i = 1
      <3>1. \A j \in DOMAIN a : ~About(a[j], c)
        <4> TAKE j \in DOMAIN a
        <4>1. j + 1 \in DOMAIN s /\ j + 1 > i /\ a[j] = s[j + 1]
          BY <1>1, <2>1
        <4>2. QED
          BY <1>3, <4>1
      <3>2. QED
        BY <2>1, <3>1
    <2>2. CASE i # 1
      <3>1. i - 1 \in DOMAIN a /\ a[i - 1] = s[i]
        <4>1. i - 1 \in 1..(n - 1) /\ (i - 1) + 1 = i
          BY <1>1, <2>2
        <4>2. QED
          BY <1>1, <4>1
      <3>2. \A j \in DOMAIN a : j > i - 1 => ~About(a[j], c)
        <4> TAKE j \in DOMAIN a
        <4>1. j + 1 \in DOMAIN s /\ (j > i - 1 => j + 1 > i) /\ a[j] = s[j + 1]
          BY <1>1
        <4>2. QED
          BY <1>3, <4>1
      <3>3. \A b : LastWord(a, c, w, b)
        BY <1>3, <3>1, <3>2 DEF LastWord
      <3>4. QED
        BY <3>3
    <2>3. QED
      BY <2>1, <2>2
  <1>4. ASSUME NEW i \in DOMAIN s, About(s[i], c), Word(s[i]) = w,
               \A j \in DOMAIN s : j > i => ~About(s[j], c)
        PROVE  /\ ~About(Head(s), c) => LastWord(a, c, w, base)
               /\ About(Head(s), c) => LastWord(a, c, w, Word(Head(s)))
    <2>1. CASE \A b : LastWord(a, c, w, b)
      BY <2>1
    <2>2. CASE i = 1 /\ \A j \in DOMAIN a : ~About(a[j], c)
      BY <1>1, <1>4, <2>2 DEF LastWord
    <2>3. QED
      BY <1>3, <1>4, <2>1, <2>2
  <1>5. QED
    BY <1>2, <1>4 DEF LastWord, a

\* Taking another message out.
LEMMA LastOfWithout ==
    ASSUME NEW s \in Seq(Message), NEW k \in 1..Len(s), NEW c, NEW w, NEW base,
           LastWord(s, c, w, base), ~About(s[k], c)
    PROVE  LastWord(Without(s, k), c, w, base)
  <1> DEFINE a == Without(s, k)
             n == Len(s)
  <1>1. /\ n \in Nat \ {0} /\ DOMAIN s = 1..n /\ DOMAIN a = 1..(n - 1) /\ k \in 1..n
        /\ \A i \in 1..(n - 1) : a[i] = IF i < k THEN s[i] ELSE s[i + 1]
    BY WithoutElements
  <1> HIDE DEF a, n
  <1>2. CASE (\A i \in DOMAIN s : ~About(s[i], c)) /\ base = w
    <2>1. \A i \in DOMAIN a : ~About(a[i], c)
      <3> TAKE i \in DOMAIN a
      <3>1. i \in DOMAIN s /\ i + 1 \in DOMAIN s /\ (a[i] = s[i] \/ a[i] = s[i + 1])
        BY <1>1
      <3>2. QED
        BY <1>2, <3>1
    <2>2. QED
      BY <1>2, <2>1 DEF LastWord, a
  <1>3. ASSUME NEW i \in DOMAIN s, About(s[i], c), Word(s[i]) = w,
               \A j \in DOMAIN s : j > i => ~About(s[j], c)
        PROVE  LastWord(a, c, w, base)
    <2>1. i # k
      BY <1>3
    <2>2. CASE i < k
      <3>1. i \in DOMAIN a /\ a[i] = s[i]
        BY <1>1, <2>2
      <3>2. \A j \in DOMAIN a : j > i => ~About(a[j], c)
        <4> TAKE j \in DOMAIN a
        <4>1. /\ j \in DOMAIN s /\ j + 1 \in DOMAIN s /\ (a[j] = s[j] \/ a[j] = s[j + 1])
              /\ (j > i => j + 1 > i)
          BY <1>1
        <4>2. QED
          BY <1>3, <4>1
      <3>3. QED
        BY <1>3, <3>1, <3>2 DEF LastWord
    <2>3. CASE i > k
      <3>1. i - 1 \in DOMAIN a /\ ~(i - 1 < k) /\ (i - 1) + 1 = i
        BY <1>1, <2>3
      <3>2. a[i - 1] = s[i]
        BY <1>1, <3>1
      <3>3. \A j \in DOMAIN a : j > i - 1 => ~About(a[j], c)
        <4> TAKE j \in DOMAIN a
        <4>1. /\ j + 1 \in DOMAIN s /\ (j > i - 1 => j + 1 > i /\ ~(j < k))
          BY <1>1, <2>3
        <4>2. QED
          BY <1>1, <1>3, <4>1
      <3>4. QED
        BY <1>3, <3>1, <3>2, <3>3 DEF LastWord
    <2>4. QED
      BY <1>1, <2>1, <2>2, <2>3
  <1>4. QED
    BY <1>2, <1>3 DEF LastWord, a

\* A call that has still to report on c may still change it.
LEMMA TodoIsToReport ==
    ASSUME NEW c \in Clients, NEW call, c \in Todo(call)
    PROVE  c \in ToReport(call)
  BY DEF Todo, ToReport

LEMMA ClearReportsAll ==
    ASSUME NEW c \in Clients, NEW call, IsClear(call)
    PROVE  c \in ToReport(call)
  BY DEF IsClear, ToReport

\* A call that has nothing to report.
Quiet(call) == Todo(call) = {} /\ ToReport(call) = {} /\ ~IsClear(call)

LEMMA QuietCalls ==
    ASSUME NEW call, call = Idle \/ call.op \in {"create", "delete", "failed"}
    PROVE  Quiet(call) /\ (call # Idle => call.op # "record")
  BY DEF Quiet, Todo, ToReport, IsClear

LEMMA RecordIsLoud ==
    ASSUME NEW call, call # Idle, call.op = "record"
    PROVE  ~Quiet(call)
  BY DEF Quiet, Todo

\* What does not touch c leaves its record right.
LEMMA CallFrame ==
    ASSUME NEW c \in Clients, CallOK(c), subs'[c] = subs[c], c \in Registered' <=> c \in Registered,
           \A u \in Apis :
              /\ c \in Todo(api'[u]) => c \in Todo(api[u])
              /\ c \in ToReport(api'[u]) => c \in ToReport(api[u])
              /\ api'[u] # Idle /\ api'[u].op = "record" /\ api'[u].client = c => api'[u] = api[u]
    PROVE  CallOK(c)'
  BY DEF CallOK

LEMMA WordFrame ==
    ASSUME NEW c \in Clients, WordOK(c), subs'[c] = subs[c], cm'[c] = cm[c], Clearing' = Clearing,
           \A u \in Apis : c \in Todo(api[u]) => c \in Todo(api'[u]),
           \A w, base : LastWord(Pending, c, w, base) => LastWord(Pending', c, w, base)
    PROVE  WordOK(c)'
  <1>1. Final(c)' = Final(c)
    BY DEF Final
  <1>2. QED
    BY <1>1 DEF WordOK

LEMMA UnusedFrame ==
    ASSUME NEW c \in Clients, UnusedOK(c), subs'[c] = subs[c], cm'[c] = cm[c], Clearing' => Clearing,
           c \in Registered' <=> c \in Registered
    PROVE  UnusedOK(c)'
  BY DEF UnusedOK

\* Whoever keeps its subscriptions stays in the store or out of it.
LEMMA SameRegistered ==
    ASSUME TypeOK, TypeOK', NEW c \in Clients, subs'[c] = subs[c]
    PROVE  c \in Registered' <=> c \in Registered
  <1>1. c \in Registered <=> subs[c] # Absent
    BY SubsAreTyped DEF SubsTyped
  <1>2. c \in Registered' <=> subs'[c] # Absent
    BY SubsStayTyped DEF SubsTyped
  <1>3. QED
    BY <1>1, <1>2

\* Events, posts and whatever else changes nothing that a call reports on, but may
\* make a client stale.
LEMMA MapFrame ==
    ASSUME TypeOK, TypeOK', MapInv, UNCHANGED <<cm, storage>>,
           \A u \in Apis : api'[u] = api[u] \/ (Quiet(api[u]) /\ Quiet(api'[u])),
           \A c \in Clients \ stale' : c \notin stale /\ subs'[c] = subs[c],
           \A c \in Clients : \A w, base :
              LastWord(Pending, c, w, base) => LastWord(Pending', c, w, base)
    PROVE  MapInv'
  <1>1. Clearing' = Clearing
    <2>1. \A u \in Apis : IsClear(api'[u]) <=> IsClear(api[u])
      BY DEF Quiet
    <2>2. QED
      BY <2>1 DEF Clearing
  <1>2. SUFFICES ASSUME NEW c \in Clients \ stale'
                 PROVE  /\ storage = ConfigMap => CallOK(c)' /\ WordOK(c)'
                        /\ storage # ConfigMap => UnusedOK(c)'
    BY DEF MapInv
  <1>3. c \in Clients \ stale /\ subs'[c] = subs[c] /\ (c \in Registered' <=> c \in Registered)
    BY SameRegistered
  <1>4. \A u \in Apis :
           /\ c \in Todo(api'[u]) <=> c \in Todo(api[u])
           /\ c \in ToReport(api'[u]) <=> c \in ToReport(api[u])
    BY DEF Quiet
  <1>5. \A u \in Apis : api'[u] # Idle /\ api'[u].op = "record" => api'[u] = api[u]
    BY RecordIsLoud
  <1>6. CASE storage = ConfigMap
    <2>1. CallOK(c) /\ WordOK(c)
      BY <1>3, <1>6 DEF MapInv
    <2>2. CallOK(c)'
      BY <1>3, <1>4, <1>5, <2>1, CallFrame
    <2>3. WordOK(c)'
      BY <1>1, <1>3, <1>4, <2>1, WordFrame
    <2>4. QED
      BY <1>6, <2>2, <2>3
  <1>7. CASE storage # ConfigMap
    BY <1>1, <1>3, <1>7, UnusedFrame DEF MapInv
  <1>8. QED
    BY <1>6, <1>7

\* The same for a step that leaves the channel alone.
LEMMA MapStays ==
    ASSUME TypeOK, TypeOK', MapInv, UNCHANGED <<queue, waiting, cm, storage>>,
           \A u \in Apis : api'[u] = api[u] \/ (Quiet(api[u]) /\ Quiet(api'[u])),
           \A c \in Clients \ stale' : c \notin stale /\ subs'[c] = subs[c]
    PROVE  MapInv'
  <1>1. Pending' = Pending
    BY DEF Pending
  <1>2. QED
    BY <1>1, MapFrame

LEMMA CaughtUp == TypeOK /\ MapInv => ConfigMapCatchesUp
  <1> SUFFICES ASSUME TypeOK, MapInv, NEW c \in Clients \ (stale \cup Unsettled)
               PROVE  cm[c] = subs[c]
    BY DEF ConfigMapCatchesUp
  <1>1. CASE storage # ConfigMap
    BY <1>1 DEF MapInv, UnusedOK
  <1>2. CASE storage = ConfigMap
    <2>1. \A t \in Apis : c \notin ToReport(api[t])
      BY DEF Unsettled
    <2>2. \A t \in Apis : c \notin Todo(api[t])
      BY <2>1, TodoIsToReport
    <2>3. ~Clearing
      BY <2>1, ClearReportsAll DEF Clearing
    <2>4. LastWord(Pending, c, subs[c], cm[c])
      BY <1>2, <2>2, <2>3 DEF MapInv, WordOK, Final
    <2>5. \A i \in DOMAIN Pending : ~About(Pending[i], c)
      <3> SUFFICES ASSUME NEW i \in DOMAIN Pending, About(Pending[i], c) PROVE FALSE
        OBVIOUS
      <3>1. Pending[i] \in UnderWay
        BY UnderWayTyped
      <3>2. c \in Unsettled
        BY <3>1 DEF Unsettled, About
      <3>3. QED
        BY <3>2
    <2>6. QED
      BY <2>4, <2>5 DEF LastWord
  <1>3. QED
    BY <1>1, <1>2

LEMMA StartMap ==
    ASSUME TypeOK, NEW loaded \in [Clients -> Subscription], NEW keep \in BOOLEAN, NEW s \in Storages,
           Start(loaded, keep, s), \A c \in Clients \ stale' : loaded[c] = cm[c]
    PROVE  MapInv'
  <1>1. Pending' = <<>> /\ \A c \in Clients : subs'[c] = loaded[c]
    BY StartTyped
  <1>2. (\A t \in Apis : api'[t] = Idle) /\ cm' = cm
    BY DEF Start
  <1>3. \A t \in Apis : Todo(api'[t]) = {} /\ ToReport(api'[t]) = {} /\ ~IsClear(api'[t])
    BY <1>2 DEF Todo, ToReport, IsClear
  <1>4. ~Clearing'
    BY <1>3 DEF Clearing
  <1>5. SUFFICES ASSUME NEW c \in Clients \ stale'
                 PROVE  CallOK(c)' /\ WordOK(c)' /\ UnusedOK(c)'
    BY DEF MapInv
  <1>6. subs'[c] = cm'[c]
    BY <1>1, <1>2
  <1>7. CallOK(c)'
    BY <1>2, <1>3 DEF CallOK
  <1>8. WordOK(c)'
    <2>1. Final(c)' = subs'[c]
      BY <1>4 DEF Final
    <2>2. \A b : LastWord(<<>>, c, b, b)
      BY DEF LastWord
    <2>3. QED
      BY <1>1, <1>6, <2>1, <2>2 DEF WordOK
  <1>9. UnusedOK(c)'
    BY <1>4, <1>6 DEF UnusedOK
  <1>10. QED
    BY <1>7, <1>8, <1>9

\* A client with a settled record and an untouched file has both alike.
LEMMA FilesAgree ==
    ASSUME TypeOK, MapInv, FileInv, NEW c \in Clients \ (stale \cup Unsettled)
    PROVE  cm[c] = subs[c] /\ (c \notin torn => files[c] = subs[c])
  BY CaughtUp DEF ConfigMapCatchesUp, FileInv

LEMMA RestartMap ==
    ASSUME TypeOK, MapInv, FileInv, NEW keep \in BOOLEAN, NEW s \in Storages, Restart(keep, s)
    PROVE  MapInv'
  <1>1. Start(Reloaded(keep, s), keep, s)
    BY DEF Restart
  <1>2. \A c \in Clients \ stale' : Reloaded(keep, s)[c] = cm[c]
    <2> TAKE c \in Clients \ stale'
    <2>1. CASE keep
      <3>1. c \notin stale \cup Unsettled /\ c \notin torn
        BY <1>1, <2>1 DEF Start
      <3>2. cm[c] = subs[c] /\ files[c] = subs[c]
        BY <3>1, FilesAgree
      <3>3. QED
        BY <2>1, <3>2 DEF Reloaded
    <2>2. CASE ~keep
      <3>1. s = ConfigMap
        BY <1>1, <2>2 DEF Start
      <3>2. QED
        BY <2>2, <3>1 DEF Reloaded
    <2>3. QED
      BY <2>1, <2>2
  <1>3. QED
    BY <1>1, <1>2, ReloadedTyped, StartMap

LEMMA CleanUpMap ==
    ASSUME TypeOK, TypeOK', MapInv, FileInv, CleanUp
    PROVE  MapInv'
  <1> DEFINE d == job.whom
  <1>1. job # Idle /\ job.act = "remove" /\ d \in Clients
    BY CleanUpEffects
  <1>2. ASSUME storage = NoClient, NEW left \in [Clients -> Subscription],
               Start(left, TRUE, NoClient), \A c \in Clients : c # d => left[c] = files[c]
        PROVE  MapInv'
    <2>1. NoClient \in Storages
      BY <1>2 DEF TypeOK
    <2>2. \A c \in Clients \ stale' : left[c] = cm[c]
      <3> TAKE c \in Clients \ stale'
      <3>1. c \notin stale \cup Unsettled /\ c \notin torn
        BY <1>2 DEF Start
      <3>2. c # d
        BY <1>1, <3>1 DEF Unsettled
      <3>3. cm[c] = subs[c] /\ files[c] = subs[c]
        BY <3>1, FilesAgree
      <3>4. QED
        BY <1>2, <3>2, <3>3
    <2>3. QED
      BY <1>2, <2>1, <2>2, StartMap
  <1>3. CASE /\ store' = [store EXCEPT ![d] = Absent] /\ stale' = stale \cup {d}
             /\ UNCHANGED <<chanVars, api, heap, cm, storage>>
    <2>1. \A c \in Clients : c # d => subs'[c] = subs[c]
      BY <1>3 DEF subs, TypeOK
    <2>2. QED
      BY <1>3, <2>1, MapStays DEF chanVars
  <1>4. CASE UNCHANGED <<chanVars, api, storeVars, cm, storage, stale>>
    BY <1>4, SubsFrame, MapStays DEF chanVars, storeVars
  <1>5. QED
    BY <1>2, <1>3, <1>4, CleanUpEffects

\* The write-back of an entry.
LEMMA SaveMap ==
    ASSUME TypeOK, TypeOK', MapInv, Save
    PROVE  MapInv'
  <1> DEFINE d == job.whom
             n == Counted(job.act, job.copy.fails)
             S == heap[d][job.copy.sub]
  <1>1. /\ d \in Clients /\ n \in 0..FailLimit /\ job.copy.sub \in SubStores /\ S \in SUBSET Resources
        /\ SetEntry(d, job.copy.sub, n, S)
        /\ Same(d, job.copy) => S = subs[d]
    BY SaveEffects, EntryTyped
  <1>2. /\ stale' = IF Same(d, job.copy) /\ n < FailLimit THEN stale ELSE stale \cup {d}
        /\ UNCHANGED <<queue, waiting, api, cm, storage>>
    BY DEF Save, chanVars
  <1> HIDE DEF d, n, S
  <1>3. subs'[d] = S /\ \A c \in Clients : c # d => subs'[c] = subs[c]
    BY <1>1, SetEntrySubs
  <1>4. \A c \in Clients \ stale' : c \notin stale /\ subs'[c] = subs[c]
    BY <1>1, <1>2, <1>3
  <1>5. QED
    BY <1>2, <1>4, MapStays

\* The Set of a handler whose file cannot be written.
LEMMA FailsMap ==
    ASSUME TypeOK, TypeOK', MapInv, NEW t \in Apis,
           CreateSubscriptionFails(t) \/ DeleteSubscriptionFails(t)
    PROVE  MapInv'
  <1>0. (Create(t) \/ Drop(t)) /\ FileFails(api[t].client)
    BY DEF CreateSubscriptionFails, DeleteSubscriptionFails
  <1>1. /\ api[t] # Idle /\ api[t].op \in {"create", "delete"}
        /\ UNCHANGED <<queue, waiting, cm, storage>>
    BY <1>0, CreateEffects, DropEffects DEF chanVars
  <1>2. PICK d \in Clients : d = api[t].client
    BY <1>0, CreateEffects, DropEffects
  <1>3. PICK i \in SubStores, n \in 0..FailLimit, S \in SUBSET Resources : SetEntry(d, i, n, S)
    <2>1. 0 \in 0..FailLimit
      BY DeliveryAssumption
    <2>2. CASE Create(t)
      BY <1>2, <2>1, <2>2, CreateEffects
    <2>3. CASE Drop(t)
      BY <1>2, <2>3, DropEffects, EntryTyped
    <2>4. QED
      BY <1>0, <2>2, <2>3
  <1>4. \A c \in Clients : c # d => subs'[c] = subs[c]
    BY <1>3, SetEntrySubs
  <1>5. stale' = stale \cup {d}
    BY <1>0, <1>2 DEF FileFails
  <1>6. \A u \in Apis : api'[u] = api[u] \/ (Quiet(api[u]) /\ Quiet(api'[u]))
    <2>1. Quiet(api[t])
      BY <1>1, QuietCalls
    <2>2. CASE CreateSubscriptionFails(t)
      <3> DEFINE x == [op |-> "failed", client |-> api[t].client]
      <3>1. x.op = "failed" /\ api' = [api EXCEPT ![t] = x]
        BY <2>2 DEF CreateSubscriptionFails
      <3> HIDE DEF x
      <3>2. Quiet(x)
        BY <3>1, QuietCalls
      <3>3. QED
        BY <2>1, <3>1, <3>2 DEF TypeOK
    <2>3. CASE DeleteSubscriptionFails(t)
      <3>1. Quiet(Idle) /\ api' = [api EXCEPT ![t] = Idle]
        BY <2>3, QuietCalls DEF DeleteSubscriptionFails
      <3>2. QED
        BY <2>1, <3>1 DEF TypeOK
    <2>4. QED
      BY <2>2, <2>3
  <1>7. QED
    BY <1>1, <1>4, <1>5, <1>6, MapStays

\* The copies that handlers take, and the failures they report.
LEMMA QuietMap ==
    ASSUME TypeOK, TypeOK', MapInv, NEW t \in Apis,
           \/ ReportFailed(t)
           \/ \E c \in Clients, r \in Resources : Subscribe(t, c, r) \/ Unsubscribe(t, c, r)
    PROVE  MapInv'
  <1>0. UNCHANGED <<storeVars, cm, storage, stale>>
    BY DEF ReportFailed, Subscribe, Unsubscribe
  <1>1. subs' = subs
    BY <1>0, SubsFrame DEF storeVars
  <1>2. ASSUME NEW x, api' = [api EXCEPT ![t] = x], Quiet(x), Quiet(api[t])
        PROVE  \A u \in Apis : api'[u] = api[u] \/ (Quiet(api[u]) /\ Quiet(api'[u]))
    BY <1>2 DEF TypeOK
  <1>3. ASSUME NEW c \in Clients, NEW r \in Resources, Subscribe(t, c, r)
        PROVE  MapInv'
    <2> DEFINE x == [op |-> "create", client |-> c, resource |-> r, copy |-> store[c]]
    <2>1. x.op = "create" /\ api' = [api EXCEPT ![t] = x] /\ api[t] = Idle
          /\ UNCHANGED <<queue, waiting>>
      BY <1>3 DEF Subscribe, Ready, chanVars
    <2> HIDE DEF x
    <2>2. Quiet(x) /\ Quiet(api[t])
      BY <2>1, QuietCalls
    <2>3. QED
      BY <1>0, <1>1, <1>2, <2>1, <2>2, MapStays
  <1>4. ASSUME NEW c \in Clients, NEW r \in Resources, Unsubscribe(t, c, r)
        PROVE  MapInv'
    <2> DEFINE x == [op |-> "delete", client |-> c, resource |-> r, copy |-> store[c],
                     file |-> files[c]]
    <2>1. x.op = "delete" /\ api' = [api EXCEPT ![t] = x] /\ api[t] = Idle
          /\ UNCHANGED <<queue, waiting>>
      BY <1>4 DEF Unsubscribe, Ready, chanVars
    <2> HIDE DEF x
    <2>2. Quiet(x) /\ Quiet(api[t])
      BY <2>1, QuietCalls
    <2>3. QED
      BY <1>0, <1>1, <1>2, <2>1, <2>2, MapStays
  <1>5. CASE ReportFailed(t)
    <2> DEFINE m == Failed(api[t].client)
    <2>1. api[t] # Idle /\ api[t].op = "failed" /\ Send(t, m) /\ api' = [api EXCEPT ![t] = Idle]
      BY <1>5 DEF ReportFailed
    <2>2. m \in Message /\ \A c : ~About(m, c)
      BY <2>1, CallTyped, DeleteTyped DEF About
    <2> HIDE DEF m
    <2>3. Pending' = Append(Pending, m) /\ Pending \in Seq(Message)
      BY <2>1, <2>2, TypeOKChan, SendEffects, PendingElements DEF Thread, Pending, ChanTyped
    <2>4. Quiet(Idle) /\ Quiet(api[t])
      BY <2>1, QuietCalls
    <2>5. \A c \in Clients : \A w, base :
             LastWord(Pending, c, w, base) => LastWord(Pending', c, w, base)
      BY <2>2, <2>3, LastOfAppend
    <2>6. QED
      BY <1>0, <1>1, <1>2, <2>1, <2>4, <2>5, MapFrame
  <1>6. QED
    BY <1>3, <1>4, <1>5

LEMMA ReceiveSubscriberMap ==
    ASSUME TypeOK, TypeOK', MapInv, ReceiveSubscriber
    PROVE  MapInv'
  <1> DEFINE m == Head(queue)
  <1>1. /\ TakeOff /\ m.kind # "event" /\ UNCHANGED <<api, store, heap, storage>>
        /\ IF storage = ConfigMap /\ m.kind # "failed"
           THEN \/ UpdateConfigMap(m) /\ UNCHANGED stale
                \/ stale' = stale \cup {m.client} /\ UNCHANGED cm
           ELSE UNCHANGED <<cm, stale>>
    BY DEF ReceiveSubscriber, storeVars
  <1>s. subs' = subs /\ Registered' = Registered
    BY <1>1, SubsFrame
  <1>2. /\ Pending \in Seq(Message) /\ Pending # <<>> /\ Head(Pending) = m /\ m \in Message
        /\ Pending' = Tail(Pending)
    BY <1>1, TypeOKChan, TakeOffEffects
  <1> HIDE DEF m
  <1>f. CASE m.kind = "failed"
    <2>1. \A c \in Clients : ~About(Head(Pending), c)
      BY <1>2, <1>f DEF About
    <2>2. \A c \in Clients : \A w, base :
             LastWord(Pending, c, w, base) => LastWord(Pending', c, w, base)
      BY <1>2, <2>1, LastOfTail
    <2>3. QED
      BY <1>1, <1>s, <1>f, <2>2, MapFrame
  <1> SUFFICES ASSUME m.kind # "failed" PROVE MapInv'
    BY <1>f
  <1>3. m.client \in Clients /\ \A c : About(m, c) <=> c = m.client
    BY <1>1, <1>2, MessageKinds DEF About
  <1>4. Clearing' = Clearing
    BY <1>1 DEF Clearing
  <1>5. SUFFICES ASSUME NEW c \in Clients \ stale'
                 PROVE  /\ storage = ConfigMap => CallOK(c)' /\ WordOK(c)'
                        /\ storage # ConfigMap => UnusedOK(c)'
    BY <1>1 DEF MapInv
  <1>6. c \in Clients \ stale
    BY <1>1
  <1>7. CASE storage # ConfigMap
    BY <1>1, <1>s, <1>4, <1>6, <1>7, UnusedFrame DEF MapInv
  <1>8. CASE storage = ConfigMap
    <2>1. CallOK(c) /\ WordOK(c)
      BY <1>6, <1>8 DEF MapInv
    <2>2. CallOK(c)'
      BY <1>1, <1>s, <2>1, CallFrame
    <2>3. CASE c # m.client
      <3>1. cm'[c] = cm[c]
        BY <1>1, <1>8, <2>3 DEF UpdateConfigMap, TypeOK
      <3>2. \A w, base : LastWord(Pending, c, w, base) => LastWord(Pending', c, w, base)
        BY <1>2, <1>3, <2>3, LastOfTail
      <3>3. WordOK(c)'
        BY <1>1, <1>s, <1>4, <2>1, <3>1, <3>2, WordFrame
      <3>4. QED
        BY <1>8, <2>2, <3>3
    <2>4. CASE c = m.client
      <3>1. UpdateConfigMap(m)
        BY <1>1, <1>8, <2>4
      <3>2. cm'[c] = Word(m)
        BY <2>4, <3>1 DEF UpdateConfigMap, Word, TypeOK
      <3>3. \A w, base : LastWord(Pending, c, w, base) => LastWord(Pending', c, w, Word(m))
        BY <1>2, <1>3, <2>4, LastOfTail
      <3>4. Final(c)' = Final(c)
        BY <1>s, <1>4 DEF Final
      <3>5. WordOK(c)'
        BY <1>1, <2>1, <3>2, <3>3, <3>4 DEF WordOK
      <3>6. QED
        BY <1>8, <2>2, <3>5
    <2>5. QED
      BY <2>3, <2>4
  <1>9. QED
    BY <1>7, <1>8

LEMMA ReportRecordMap ==
    ASSUME TypeOK, MapInv, NEW t \in Apis, ReportRecord(t)
    PROVE  MapInv'
  <1> DEFINE d == api[t].client
             m == Record(d, api[t].subs)
  <1>1. /\ api[t] # Idle /\ api[t].op = "record" /\ Send(t, m)
        /\ api' = [api EXCEPT ![t] = Idle]
        /\ UNCHANGED <<store, heap, cm, storage, stale>>
    BY DEF ReportRecord, storeVars
  <1>s. subs' = subs /\ Registered' = Registered
    BY <1>1, SubsFrame
  <1>2. d \in Clients /\ m \in Message /\ Word(m) = api[t].subs /\ \A c : About(m, c) <=> c = d
    <2>1. d \in Clients /\ api[t].subs \in SUBSET Resources
      BY <1>1, CallTyped
    <2>2. /\ m \in Message /\ m.kind = "record" /\ m.client = d
          /\ Word(m) = api[t].subs
      BY <2>1, RecordTyped
    <2> HIDE DEF m
    <2>3. QED
      BY <2>1, <2>2 DEF About
  <1> HIDE DEF m
  <1>3. Pending' = Append(Pending, m) /\ Pending \in Seq(Message)
    BY <1>1, <1>2, TypeOKChan, SendEffects, PendingElements DEF Thread, Pending, ChanTyped
  <1>4. /\ Todo(api[t]) = {d} /\ ToReport(api[t]) = {d} /\ ~IsClear(api[t])
        /\ Todo(Idle) = {} /\ ToReport(Idle) = {} /\ ~IsClear(Idle)
    BY <1>1 DEF Todo, ToReport, IsClear
  <1>5. \A u \in Apis : api'[u] = IF u = t THEN Idle ELSE api[u]
    BY <1>1 DEF TypeOK
  <1>6. Clearing' = Clearing
    BY <1>4, <1>5 DEF Clearing
  <1>7. SUFFICES ASSUME NEW c \in Clients \ stale'
                 PROVE  /\ storage = ConfigMap => CallOK(c)' /\ WordOK(c)'
                        /\ storage # ConfigMap => UnusedOK(c)'
    BY <1>1 DEF MapInv
  <1>8. c \in Clients \ stale
    BY <1>1
  <1>9. CASE storage # ConfigMap
    BY <1>1, <1>s, <1>6, <1>8, <1>9, UnusedFrame DEF MapInv
  <1>10. CASE storage = ConfigMap
    <2>1. CallOK(c) /\ WordOK(c)
      BY <1>8, <1>10 DEF MapInv
    <2>2. CallOK(c)'
      BY <1>s, <1>4, <1>5, <2>1, CallFrame
    <2>3. CASE c # d
      <3>1. \A w, base : LastWord(Pending, c, w, base) => LastWord(Pending', c, w, base)
        BY <1>2, <1>3, <2>3, LastOfAppend
      <3>2. \A u \in Apis : c \in Todo(api[u]) => c \in Todo(api'[u])
        BY <1>4, <1>5, <2>3
      <3>3. WordOK(c)'
        BY <1>1, <1>s, <1>6, <2>1, <3>1, <3>2, WordFrame
      <3>4. QED
        BY <1>10, <2>2, <3>3
    <2>4. CASE c = d
      <3>1. c \in Registered /\ api[t].subs = subs[c] /\ \A u \in Apis : c \in ToReport(api[u]) => u = t
        BY <1>1, <1>4, <2>1, <2>4 DEF CallOK
      <3>2. ~Clearing
        BY <1>4, <3>1, ClearReportsAll DEF Clearing
      <3>3. Final(c)' = subs[c]
        BY <1>s, <1>6, <3>2 DEF Final
      <3>4. LastWord(Pending', c, subs[c], cm[c])
        BY <1>2, <1>3, <2>4, <3>1, LastOfAppend
      <3>5. WordOK(c)'
        BY <1>1, <3>3, <3>4 DEF WordOK
      <3>6. QED
        BY <1>10, <2>2, <3>5
    <2>5. QED
      BY <2>3, <2>4
  <1>11. QED
    BY <1>9, <1>10

\* One step of a walk over the store.
LEMMA WalkMap ==
    ASSUME TypeOK, MarkInv, MapInv, NEW t \in Apis, NEW d \in Clients, Walk(t, d)
    PROVE  MapInv'
  <1> DEFINE left == [api[t] EXCEPT !.walk = @ \ {d}]
             m == IF api[t].op = "rest" /\ d \notin Marked THEN Record(d, subs[d]) ELSE Delete(d)
  <1>1. /\ api[t] # Idle /\ api[t].op \in {"rest", "clear"} /\ d \in api[t].walk
        /\ api[t] = [op |-> api[t].op, walk |-> api[t].walk] /\ api[t] \in Call
        /\ UNCHANGED <<store, heap, cm, storage, stale>>
    BY CallTyped DEF Walk, storeVars, TypeOK
  <1>s. subs' = subs /\ Registered' = Registered
    BY <1>1, SubsFrame
  <1>2. left = [op |-> api[t].op, walk |-> api[t].walk \ {d}]
    <2>1. api[t] = [op |-> api[t].op, walk |-> api[t].walk]
      BY <1>1
    <2>2. QED
      BY <2>1
  <1>3. left # Idle
    <2>1. api[t].walk \in SUBSET Clients
      BY <1>1, CallTyped
    <2>2. left \in Call
      BY <1>1, <1>2, <2>1 DEF Call
    <2>3. QED
      BY <2>2, NothingAssumption
  <1>4. api' = [api EXCEPT ![t] = IF api[t].op = "rest" /\ left.walk = {} THEN Idle ELSE left]
    BY DEF Walk
  <1> DEFINE after == IF api[t].op = "rest" /\ left.walk = {} THEN Idle ELSE left
  <1>5. \A u \in Apis : api'[u] = IF u = t THEN after ELSE api[u]
    BY <1>4 DEF TypeOK
  <1>6. /\ Todo(api[t]) = api[t].walk /\ Todo(after) = api[t].walk \ {d}
        /\ IsClear(after) <=> IsClear(api[t])
        /\ after = Idle \/ after.op # "record"
    BY <1>1, <1>2, <1>3 DEF Todo, IsClear
  <1>7. /\ ToReport(api[t]) = IF api[t].op = "rest" THEN api[t].walk ELSE Clients
        /\ ToReport(after) = IF api[t].op = "rest" THEN api[t].walk \ {d} ELSE Clients
        /\ d \in ToReport(api[t])
    BY <1>1, <1>2, <1>3 DEF ToReport
  <1> HIDE DEF left, after
  <1>8. Clearing' = Clearing
    BY <1>5, <1>6 DEF Clearing
  <1>9. SUFFICES ASSUME NEW c \in Clients \ stale'
                 PROVE  /\ storage = ConfigMap => CallOK(c)' /\ WordOK(c)'
                        /\ storage # ConfigMap => UnusedOK(c)'
    BY <1>1 DEF MapInv
  <1>10. c \in Clients \ stale
    BY <1>1
  <1>11. CASE storage # ConfigMap
    BY <1>1, <1>s, <1>8, <1>10, <1>11, UnusedFrame DEF MapInv
  <1>12. CASE storage = ConfigMap
    <2>1. CallOK(c) /\ WordOK(c)
      BY <1>10, <1>12 DEF MapInv
    <2>2. CallOK(c)'
      BY <1>s, <1>5, <1>6, <1>7, <2>1, CallFrame
    <2>3. d \in Registered => /\ m \in Message /\ Send(t, m)
                              /\ Word(m) = (IF api[t].op = "rest" /\ d \notin Marked THEN subs[d]
                                            ELSE Absent)
                              /\ \A e : About(m, e) <=> e = d
      BY RegisteredTyped, RecordTyped, DeleteTyped DEF Walk, About
    <2> HIDE DEF m
    <2>4. d \in Registered => Pending' = Append(Pending, m) /\ Pending \in Seq(Message)
      BY <2>3, TypeOKChan, SendEffects, PendingElements DEF Thread, Pending, ChanTyped
    <2>5. d \notin Registered => Pending' = Pending
      BY DEF Walk, chanVars, Pending
    <2>6. CASE c # d
      <3>1. \A w, base : LastWord(Pending, c, w, base) => LastWord(Pending', c, w, base)
        BY <2>3, <2>4, <2>5, <2>6, LastOfAppend
      <3>2. \A u \in Apis : c \in Todo(api[u]) => c \in Todo(api'[u])
        BY <1>5, <1>6, <2>6
      <3>3. WordOK(c)'
        BY <1>1, <1>s, <1>8, <2>1, <3>1, <3>2, WordFrame
      <3>4. QED
        BY <1>12, <2>2, <3>3
    <2>7. CASE c = d
      <3>1. c \in Registered /\ \A u \in Apis : c \in ToReport(api[u]) => u = t
        BY <1>1, <1>6, <1>7, <2>1, <2>7 DEF CallOK
      <3>2. Clearing <=> api[t].op = "clear"
        <4>1. \A u \in Apis : IsClear(api[u]) => u = t
          BY <3>1, ClearReportsAll
        <4>2. QED
          BY <1>1, <4>1 DEF Clearing, IsClear
      <3>3. Final(c)' = Word(m)
        <4>1. d \notin Marked
          BY <1>10, <2>7 DEF MarkInv
        <4>2. QED
          BY <1>1, <1>s, <1>8, <2>3, <2>7, <3>1, <3>2, <4>1 DEF Final
      <3>4. LastWord(Pending', c, Word(m), cm[c])
        BY <2>3, <2>4, <2>7, <3>1, LastOfAppend
      <3>5. WordOK(c)'
        BY <1>1, <3>3, <3>4 DEF WordOK
      <3>6. QED
        BY <1>12, <2>2, <3>5
    <2>8. QED
      BY <2>6, <2>7
  <1>13. QED
    BY <1>11, <1>12

LEMMA ClearMap ==
    ASSUME TypeOK, MapInv, NEW t \in Apis, Clear(t)
    PROVE  MapInv'
  <1>1. /\ IsClear(api[t]) /\ Todo(api[t]) = {}
        /\ api' = [api EXCEPT ![t] = Idle]
        /\ UNCHANGED <<queue, waiting, cm, storage>>
    BY DEF Clear, IsClear, Todo, chanVars
  <1>s. \A c \in Clients \ stale' : c \notin stale /\ store'[c] = Absent
    <2>1. PICK S \in SUBSET Registered :
             /\ store' = [c \in Clients |-> IF c \in S THEN Absent ELSE store[c]]
             /\ stale' = stale \cup (Registered \ S)
      BY DEF Clear
    <2>2. QED
      BY <2>1 DEF Registered
  <1>2. \A u \in Apis : api'[u] = IF u = t THEN Idle ELSE api[u]
    BY <1>1 DEF TypeOK
  <1>3. Clearing /\ Pending' = Pending /\ Todo(Idle) = {} /\ ToReport(Idle) = {}
    BY <1>1 DEF Clearing, Pending, Todo, ToReport
  <1>4. SUFFICES ASSUME NEW c \in Clients \ stale'
                 PROVE  /\ storage = ConfigMap => CallOK(c)' /\ WordOK(c)'
                        /\ storage # ConfigMap => UnusedOK(c)'
    BY <1>1 DEF MapInv
  <1>5. c \notin stale /\ subs'[c] = Absent /\ c \notin Registered'
    BY <1>s DEF Registered, subs
  <1>6. CASE storage # ConfigMap
    <2>1. cm[c] = subs[c] /\ c \notin Registered
      BY <1>3, <1>5, <1>6 DEF MapInv, UnusedOK
    <2>2. cm[c] = Absent
      BY <2>1 DEF Registered, subs
    <2>3. QED
      BY <1>1, <1>5, <1>6, <2>2 DEF UnusedOK
  <1>7. CASE storage = ConfigMap
    <2>1. CallOK(c) /\ WordOK(c)
      BY <1>5, <1>7 DEF MapInv
    <2>2. \A u \in Apis : c \notin Todo(api[u])
      <3> SUFFICES ASSUME NEW u \in Apis, c \in Todo(api[u]) PROVE FALSE
        OBVIOUS
      <3>1. c \in Registered /\ c \in ToReport(api[u]) /\ c \in ToReport(api[t])
        BY <1>1, <2>1, TodoIsToReport, ClearReportsAll DEF CallOK
      <3>2. u = t
        BY <2>1, <3>1 DEF CallOK
      <3>3. QED
        BY <1>1, <3>2
    <2>3. \A u \in Apis : c \notin Todo(api'[u])
      BY <1>2, <1>3, <2>2
    <2>4. \A u \in Apis : api'[u] # Idle /\ api'[u].op = "record" => api'[u].client # c
      BY <2>3 DEF Todo
    <2>5. CallOK(c)'
      BY <1>5, <2>3, <2>4 DEF CallOK
    <2>6. LastWord(Pending, c, Absent, cm[c])
      BY <1>3, <2>1, <2>2 DEF WordOK, Final
    <2>7. Final(c)' = Absent
      BY <1>5 DEF Final
    <2>8. WordOK(c)'
      BY <1>1, <1>3, <2>6, <2>7 DEF WordOK
    <2>9. QED
      BY <1>7, <2>5, <2>8
  <1>8. QED
    BY <1>6, <1>7

\* A handler starts to report on the clients S of the store: with a config map,
\* those stay stale that another handler has still to report on.
LEMMA ReportsNew ==
    ASSUME TypeOK, NEW t \in Apis, NEW S \in SUBSET Clients, NEW X \in SUBSET Clients,
           Reports(t, S, X), NEW call \in Call, api' = [api EXCEPT ![t] = call],
           storage = ConfigMap, NEW c \in Clients \ stale', c \in S, c \in Todo(call),
           c \in Registered', call.op = "record" => call.subs = subs'[c]
    PROVE  CallOK(c)' /\ WordOK(c)'
  <1>1. c \notin InTheWay(t)
    BY DEF Reports
  <1>2. \A u \in Apis : u # t => c \notin ToReport(api[u])
    BY <1>1 DEF InTheWay
  <1>3. \A u \in Apis : api'[u] = IF u = t THEN call ELSE api[u]
    BY DEF TypeOK
  <1>4. \A u \in Apis : c \in ToReport(api'[u]) => u = t
    BY <1>2, <1>3
  <1>5. \A u \in Apis : api'[u] # Idle /\ api'[u].op = "record" /\ api'[u].client = c =>
                           c \in ToReport(api'[u])
    BY DEF ToReport
  <1>6. \A u \in Apis : c \in Todo(api'[u]) => u = t
    BY <1>4, TodoIsToReport
  <1>7. CallOK(c)'
    BY <1>3, <1>4, <1>5, <1>6 DEF CallOK
  <1>8. WordOK(c)'
    BY <1>3 DEF WordOK
  <1>9. QED
    BY <1>7, <1>8

\* What the start of a call leaves of a client that it does not report on.
LEMMA ReportsOthers ==
    ASSUME TypeOK, TypeOK', NEW t \in Apis, NEW call \in Call, Quiet(api[t]),
           api' = [api EXCEPT ![t] = call], UNCHANGED <<queue, waiting, cm, storage>>,
           NEW c \in Clients, c \notin Todo(call), subs'[c] = subs[c],
           IsClear(call) => c \notin Registered,
           storage = ConfigMap => CallOK(c) /\ WordOK(c),
           storage # ConfigMap => UnusedOK(c)
    PROVE  /\ storage = ConfigMap => CallOK(c)' /\ WordOK(c)'
           /\ storage # ConfigMap => UnusedOK(c)'
  <1>1. /\ \A u \in Apis : api'[u] = IF u = t THEN call ELSE api[u]
        /\ call # Idle /\ Todo(api[t]) = {} /\ ToReport(api[t]) = {} /\ ~IsClear(api[t])
        /\ c \in Registered' <=> c \in Registered
    BY NothingAssumption, SameRegistered DEF TypeOK, Quiet
  <1>2. Pending' = Pending
    BY DEF Pending
  <1>3. ~IsClear(call) => c \notin ToReport(call) /\ Clearing' = Clearing
    <2> SUFFICES ASSUME ~IsClear(call) PROVE c \notin ToReport(call) /\ Clearing' = Clearing
      OBVIOUS
    <2>1. call.op \in {"create", "delete", "failed", "record", "rest"}
      BY <1>1 DEF Call, IsClear
    <2>2. c \notin ToReport(call)
      BY <1>1, <2>1 DEF ToReport, Todo
    <2>3. Clearing' = Clearing
      BY <1>1 DEF Clearing
    <2>4. QED
      BY <2>2, <2>3
  <1>4. CASE storage # ConfigMap
    <2>1. Clearing' => c \notin Registered
      BY <1>1, <1>3, <1>4 DEF UnusedOK
    <2>2. QED
      BY <1>1, <1>4, <2>1 DEF UnusedOK
  <1>5. CASE storage = ConfigMap /\ ~IsClear(call)
    <2>1. CallOK(c)'
      BY <1>1, <1>3, <1>5, CallFrame DEF Todo
    <2>2. WordOK(c)'
      BY <1>1, <1>2, <1>3, <1>5, WordFrame
    <2>3. QED
      BY <1>5, <2>1, <2>2
  <1>6. CASE storage = ConfigMap /\ IsClear(call)
    <2>1. c \notin Registered /\ c \notin Registered' /\ subs[c] = Absent /\ CallOK(c) /\ WordOK(c)
      BY <1>1, <1>6, SubsAreTyped DEF SubsTyped
    <2>2. \A u \in Apis : c \notin Todo(api[u])
      BY <2>1 DEF CallOK
    <2>3. \A u \in Apis : c \notin Todo(api'[u])
      BY <1>1, <2>2
    <2>4. \A u \in Apis : api'[u] # Idle /\ api'[u].op = "record" => api'[u].client # c
      BY <2>3 DEF Todo
    <2>5. CallOK(c)'
      BY <2>1, <2>3, <2>4 DEF CallOK
    <2>6. Final(c) = Absent /\ Final(c)' = Absent
      BY <2>1 DEF Final
    <2>7. WordOK(c)'
      BY <1>2, <2>1, <2>2, <2>6 DEF WordOK
    <2>8. QED
      BY <1>6, <2>5, <2>7
  <1>7. QED
    BY <1>4, <1>5, <1>6

LEMMA DeleteAllMap ==
    ASSUME TypeOK, TypeOK', MapInv, NEW t \in Apis, DeleteAll(t)
    PROVE  MapInv'
  <1> DEFINE call == [op |-> "clear", walk |-> Registered]
  <1>1. /\ api[t] = Idle /\ Reports(t, Registered, Registered)
        /\ api' = [api EXCEPT ![t] = call]
        /\ UNCHANGED <<queue, waiting, store, heap, cm, storage>>
    BY DEF DeleteAll, Ready, chanVars, storeVars
  <1>2. Registered \in SUBSET Clients /\ Registered' = Registered /\ subs' = subs /\ Quiet(api[t])
    BY <1>1, SubsFrame, QuietCalls DEF Registered
  <1>3. call \in Call /\ call # Idle
    BY <1>2, NothingAssumption DEF Call
  <1>4. Todo(call) = Registered /\ IsClear(call) /\ call.op # "record"
    BY <1>3 DEF Todo, IsClear
  <1> HIDE DEF call
  <1>5. SUFFICES ASSUME NEW c \in Clients \ stale'
                 PROVE  /\ storage = ConfigMap => CallOK(c)' /\ WordOK(c)'
                        /\ storage # ConfigMap => UnusedOK(c)'
    BY <1>1 DEF MapInv
  <1>6. CASE c \in Registered
    <2>1. storage = ConfigMap
      BY <1>1, <1>6 DEF Reports
    <2>2. QED
      BY <1>1, <1>2, <1>3, <1>4, <1>6, <2>1, ReportsNew
  <1>7. CASE c \notin Registered
    <2>1. c \in Clients \ stale
      BY <1>1, <1>7 DEF Reports
    <2>2. /\ storage = ConfigMap => CallOK(c) /\ WordOK(c)
          /\ storage # ConfigMap => UnusedOK(c)
      BY <2>1 DEF MapInv
    <2>3. QED
      BY <1>1, <1>2, <1>3, <1>4, <1>7, <2>2, ReportsOthers
  <1>8. QED
    BY <1>6, <1>7

LEMMA CreateMap ==
    ASSUME TypeOK, TypeOK', MapInv, NEW t \in Apis, CreateSubscription(t)
    PROVE  MapInv'
  <1>0. Create(t)
    BY DEF CreateSubscription
  <1>1. PICK d \in Clients : d = api[t].client
    BY <1>0, CreateEffects
  <1>2. PICK i \in SubStores, S \in SUBSET Resources : SetEntry(d, i, 0, S)
    BY <1>0, <1>1, CreateEffects
  <1>3. 0 \in 0..FailLimit
    BY DeliveryAssumption
  <1>4. subs'[d] = S /\ d \in Registered' /\ \A c \in Clients : c # d => subs'[c] = subs[c]
    BY <1>2, <1>3, SetEntrySubs
  <1> DEFINE call == [op |-> "record", client |-> d, subs |-> S]
  <1>5. Reports(t, {d}, {d}) /\ api' = [api EXCEPT ![t] = call]
    BY <1>1, <1>4 DEF CreateSubscription
  <1>6. Quiet(api[t]) /\ UNCHANGED <<queue, waiting, cm, storage>>
    BY <1>0, CreateEffects, QuietCalls DEF chanVars
  <1>7. call \in Call /\ call # Idle
    BY NothingAssumption DEF Call
  <1>8. Todo(call) = {d} /\ ~IsClear(call) /\ call.subs = S
    BY <1>7 DEF Todo, IsClear
  <1> HIDE DEF call
  <1>9. SUFFICES ASSUME NEW c \in Clients \ stale'
                 PROVE  /\ storage = ConfigMap => CallOK(c)' /\ WordOK(c)'
                        /\ storage # ConfigMap => UnusedOK(c)'
    BY <1>6 DEF MapInv
  <1>10. CASE c = d
    <2>1. storage = ConfigMap
      BY <1>5, <1>10 DEF Reports
    <2>2. QED
      BY <1>4, <1>5, <1>7, <1>8, <1>10, <2>1, ReportsNew
  <1>11. CASE c # d
    <2>1. c \in Clients \ stale
      BY <1>5, <1>11 DEF Reports
    <2>2. /\ storage = ConfigMap => CallOK(c) /\ WordOK(c)
          /\ storage # ConfigMap => UnusedOK(c)
      BY <2>1 DEF MapInv
    <2>3. QED
      BY <1>4, <1>5, <1>6, <1>7, <1>8, <1>11, <2>2, ReportsOthers
  <1>12. QED
    BY <1>10, <1>11

LEMMA DropMap ==
    ASSUME TypeOK, TypeOK', MapInv, NEW t \in Apis, DeleteSubscription(t)
    PROVE  MapInv'
  <1>0. Drop(t)
    BY DEF DeleteSubscription
  <1>1. PICK d \in Clients : d = api[t].client
    BY <1>0, DropEffects
  <1>2. PICK i \in SubStores, n \in 0..FailLimit, S \in SUBSET Resources : SetEntry(d, i, n, S)
    BY <1>0, <1>1, DropEffects, EntryTyped
  <1>3. d \in Registered' /\ \A c \in Clients : c # d => subs'[c] = subs[c]
    BY <1>2, SetEntrySubs
  <1> DEFINE call == [op |-> "rest", walk |-> Registered']
  <1>4. Reports(t, Registered', {d}) /\ api' = [api EXCEPT ![t] = call]
    BY <1>1 DEF DeleteSubscription
  <1>5. Quiet(api[t]) /\ UNCHANGED <<queue, waiting, cm, storage>>
    BY <1>0, DropEffects, QuietCalls DEF chanVars
  <1>6. Registered' \in SUBSET Clients
    BY DEF Registered
  <1>7. call \in Call /\ call # Idle
    BY <1>6, NothingAssumption DEF Call
  <1>8. Todo(call) = Registered' /\ ~IsClear(call) /\ call.op # "record"
    BY <1>7 DEF Todo, IsClear
  <1> HIDE DEF call
  <1>9. SUFFICES ASSUME NEW c \in Clients \ stale'
                 PROVE  /\ storage = ConfigMap => CallOK(c)' /\ WordOK(c)'
                        /\ storage # ConfigMap => UnusedOK(c)'
    BY <1>5 DEF MapInv
  <1>10. CASE storage = ConfigMap /\ c \in Registered'
    BY <1>4, <1>6, <1>7, <1>8, <1>10, ReportsNew
  <1>11. CASE c \notin Registered'
    <2>1. c \in Clients \ stale /\ c # d
      BY <1>3, <1>4, <1>11 DEF Reports
    <2>2. /\ storage = ConfigMap => CallOK(c) /\ WordOK(c)
          /\ storage # ConfigMap => UnusedOK(c)
      BY <2>1 DEF MapInv
    <2>3. QED
      BY <1>3, <1>4, <1>5, <1>7, <1>8, <1>11, <2>1, <2>2, ReportsOthers
  <1>12. CASE storage # ConfigMap /\ c \in Registered'
    <2>1. c \in Clients \ stale /\ c # d
      BY <1>4, <1>12 DEF Reports
    <2>2. UnusedOK(c)
      BY <1>12, <2>1 DEF MapInv
    <2>3. Clearing' => Clearing
      BY <1>4, <1>8 DEF Clearing, TypeOK
    <2>4. c \in Registered' <=> c \in Registered
      BY <1>3, <2>1, SameRegistered
    <2>5. QED
      BY <1>3, <1>5, <1>12, <2>1, <2>2, <2>3, <2>4, UnusedFrame
  <1>13. QED
    BY <1>10, <1>11, <1>12

LEMMA MapKeeps ==
    ASSUME TypeOK, TypeOK', SenderInv, MarkInv, FileInv, MapInv, [Next]_vars
    PROVE  MapInv'
  <1>0. ChanTyped /\ Publishers \subseteq Thread /\ Publishers \cap Apis = {}
    BY TypeOKChan, DeliveryAssumption DEF Thread
  <1>s. UNCHANGED <<store, heap>> => subs' = subs
    BY SubsFrame
  <1>1. CASE UNCHANGED <<queue, waiting, api, store, heap, cm, stale, storage>>
    BY <1>1, <1>s, MapStays
  <1>2. CASE Consumer
    <2>1. CASE ReceiveEvent
      <3>1. TakeOff /\ Head(queue).kind = "event" /\ UNCHANGED <<api, store, heap, cm, stale, storage>>
        BY <2>1 DEF ReceiveEvent, storeVars
      <3>2. /\ Pending \in Seq(Message) /\ Pending # <<>> /\ Head(Pending) = Head(queue)
            /\ Pending' = Tail(Pending)
        BY <1>0, <3>1, TakeOffEffects
      <3>3. \A c \in Clients : ~About(Head(Pending), c)
        BY <3>1, <3>2 DEF About
      <3>4. \A c \in Clients : \A w, base :
               LastWord(Pending, c, w, base) => LastWord(Pending', c, w, base)
        BY <3>2, <3>3, LastOfTail
      <3>5. QED
        BY <1>s, <3>1, <3>4, MapFrame
    <2>2. CASE ReceiveSubscriber
      BY <2>2, ReceiveSubscriberMap
    <2>3. CASE CleanUp
      BY <2>3, CleanUpMap
    <2>6. CASE Save
      BY <2>6, SaveMap
    <2>4. ASSUME NEW c \in Clients, Post(c)
          PROVE  MapInv'
      BY <1>1, <2>4 DEF Post, PostAnswered, PostFailed, PostUnreachable, Posted, chanVars, storeVars
    <2>5. QED
      BY <1>2, <2>1, <2>2, <2>3, <2>4, <2>6 DEF Consumer
  <1>3. ASSUME NEW t \in Apis, Handle(t) \/ DeleteAll(t)
        PROVE  MapInv'
    BY <1>3, ReportRecordMap, WalkMap, ClearMap, DeleteAllMap, CreateMap, DropMap, FailsMap, QuietMap
       DEF Handle
  <1>4. ASSUME NEW t \in Apis, NEW c \in Clients, NEW r \in Resources,
               Subscribe(t, c, r) \/ Unsubscribe(t, c, r)
        PROVE  MapInv'
    BY <1>4, QuietMap
  <1>5. ASSUME NEW t \in Publishers, NEW r \in Resources, Publish(t, r)
        PROVE  MapInv'
    <2> DEFINE m == Event(sent', r)
    <2>1. sent' \in 1..MaxEvents /\ Send(t, m) /\ UNCHANGED <<api, store, heap, cm, stale, storage>>
      BY <1>5, DeliveryAssumption DEF Publish, TypeOK, storeVars
    <2>2. m \in Message /\ \A c : ~About(m, c)
      BY <2>1, EventTyped DEF About
    <2> HIDE DEF m
    <2>3. Pending' = Append(Pending, m) /\ Pending \in Seq(Message)
      BY <1>0, <2>1, <2>2, SendEffects, PendingElements DEF Pending, ChanTyped
    <2>4. \A c \in Clients : \A w, base :
             LastWord(Pending, c, w, base) => LastWord(Pending', c, w, base)
      BY <2>2, <2>3, LastOfAppend
    <2>5. QED
      BY <1>s, <2>1, <2>4, MapFrame
  <1>6. ASSUME NEW i \in DOMAIN waiting, SendTimeout(i)
        PROVE  MapInv'
    <2>1. /\ waiting' = RemoveAt(waiting, i) /\ queue' = queue
          /\ waiting[i].msg.kind = "event" /\ UNCHANGED <<api, store, heap, cm, stale, storage>>
      BY <1>6 DEF SendTimeout, SenderInv, storeVars
    <2> DEFINE k == Len(queue) + i
    <2>2. /\ Pending \in Seq(Message) /\ k \in 1..Len(Pending) /\ Pending[k] = waiting[i].msg
          /\ Pending' = Without(Pending, k)
      BY <1>0, <2>1, GiveUpEffects
    <2> HIDE DEF k
    <2>3. \A c : ~About(Pending[k], c)
      BY <2>1, <2>2 DEF About
    <2>4. \A c \in Clients : \A w, base :
             LastWord(Pending, c, w, base) => LastWord(Pending', c, w, base)
      BY <2>2, <2>3, LastOfWithout
    <2>5. QED
      BY <1>s, <2>1, <2>4, MapFrame
  <1>7. ASSUME NEW keep \in BOOLEAN, NEW s \in Storages, Restart(keep, s)
        PROVE  MapInv'
    BY <1>7, RestartMap
  <1>8. CASE UNCHANGED vars
    BY <1>1, <1>8 DEF vars
  <1>9. QED
    BY <1>2, <1>3, <1>4, <1>5, <1>6, <1>7, <1>8 DEF Next

-----------------------------------------------------------------------------
LEMMA InitIInv == Init => IInv
  <1> SUFFICES ASSUME Init PROVE IInv
    OBVIOUS
  <1> USE DEF Init
  <1>0. Cap \in Nat \ {0} /\ FailLimit \in Nat \ {0} /\ MaxEvents \in Nat
    BY DeliveryAssumption
  <1>1. queue \in Seq(Message) /\ waiting \in Seq([by : Thread, msg : Message]) /\ Len(queue) = 0
    OBVIOUS
  <1>2. api \in [Apis -> Call \cup {Idle}] /\ store \in [Clients -> Entry \cup {Absent}]
    OBVIOUS
  <1>3. TypeOK
    BY <1>0, <1>1, <1>2 DEF TypeOK, Subscription
  <1>4. Registered = {} /\ Marked = {} /\ \A c \in Clients : subs[c] = Absent /\ files[c] = Absent
    BY DEF Registered, Marked, subs
  <1>i. SenderInv /\ FailInv /\ MarkInv /\ FileInv
    BY <1>4 DEF SenderInv, FailInv, StoreFails, CallFails, JobFails, MarkInv, FileInv
  <1>5. ~Clearing /\ Registered = {} /\ \A t \in Apis : api[t] = Idle
    BY DEF Clearing, IsClear, Registered
  <1>6. Pending \in Seq(Message) /\ DOMAIN Pending = {}
    <2>1. DOMAIN Pending = 1..(Len(queue) + Len(waiting)) /\ Pending \in Seq(Message)
      BY <1>1, PendingElements DEF Pending, Blocker
    <2>2. QED
      BY <2>1
  <1>7. ASSUME NEW c \in Clients
        PROVE  CallOK(c) /\ WordOK(c) /\ UnusedOK(c)
    <2>1. cm[c] = Absent /\ subs[c] = Absent
      BY <1>4
    <2>2. CallOK(c)
      BY <1>5 DEF CallOK, Todo, ToReport
    <2>3. WordOK(c)
      BY <1>5, <1>6, <2>1 DEF WordOK, LastWord, Final
    <2>4. QED
      BY <1>5, <2>1, <2>2, <2>3 DEF UnusedOK
  <1>8. QED
    BY <1>3, <1>i, <1>7 DEF MapInv, IInv

LEMMA NextIInv == IInv /\ [Next]_vars => IInv'
  <1> SUFFICES ASSUME IInv, [Next]_vars PROVE IInv'
    OBVIOUS
  <1>1. TypeOK' /\ SenderInv'
    BY NextTyped DEF IInv
  <1>2. FailInv'
    BY FailKeeps DEF IInv
  <1>3. MarkInv' /\ FileInv'
    BY MarkFileKeeps DEF IInv
  <1>4. MapInv'
    BY <1>1, MapKeeps DEF IInv
  <1>5. QED
    BY <1>1, <1>2, <1>3, <1>4 DEF IInv

LEMMA SpecIInv == Spec => []IInv
  BY InitIInv, NextIInv, PTL DEF Spec

-----------------------------------------------------------------------------
\* The variables keep their types, and nobody waits while the channel has room.
THEOREM TypeCorrect == Spec => []TypeOK
  <1>1. IInv => TypeOK
    BY DEF IInv
  <1>2. QED
    BY <1>1, SpecIInv, PTL

\* ProcessOutChannel and updateConfigMap: once nothing is under way about a
\* client, its record in the config map is what the store holds.
THEOREM ConfigMapAlwaysCatchesUp == Spec => []ConfigMapCatchesUp
  <1>1. IInv => ConfigMapCatchesUp
    BY CaughtUp DEF IInv
  <1>2. QED
    BY <1>1, SpecIInv, PTL

\* IncFailCountToFail and the loop over the clients: whatever old entry is written
\* back over whatever new one, nobody is removed before FailLimit posts have
\* missed it.
THEOREM RemovalAlwaysCaused == Spec => RemovalHasCause
  <1>1. IInv /\ [Next]_vars => Caused
    BY RemovalCaused DEF IInv
  <1>2. Spec => [][Caused]_vars
    BY <1>1, SpecIInv, PTL DEF Spec
  <1>3. QED
    BY <1>2 DEF RemovalHasCause, Caused

\* What RestartKeepsSubscriptions says of a step.
Kept ==
    \A keep \in BOOLEAN, s \in Storages :
        Restart(keep, s) => \A c \in Safe(keep, s) : subs'[c] = subs[c]

LEMMA RestartKeeps == TypeOK /\ FileInv /\ MapInv => Kept
  <1> SUFFICES ASSUME TypeOK, FileInv, MapInv, NEW keep \in BOOLEAN, NEW s \in Storages,
                      Restart(keep, s), NEW c \in Safe(keep, s)
               PROVE  subs'[c] = subs[c]
    BY DEF Kept
  <1>1. c \in Clients /\ subs'[c] = Reloaded(keep, s)[c]
    BY ReloadedTyped, StartTyped DEF Restart, Safe
  <1>2. keep => files[c] = subs[c]
    BY <1>1 DEF Safe, FileInv
  <1>3. s = ConfigMap => cm[c] = subs[c]
    <2> SUFFICES ASSUME s = ConfigMap PROVE cm[c] = subs[c]
      OBVIOUS
    <2>1. c \in Clients \ (stale \cup Unsettled)
      BY DEF Safe
    <2>2. QED
      BY <2>1, CaughtUp DEF ConfigMapCatchesUp
  <1>4. keep \/ s = ConfigMap
    BY DEF Safe
  <1>5. QED
    BY <1>1, <1>2, <1>3, <1>4 DEF Reloaded

\* The reload of the files and InitConfigMap give a client back what it had.
THEOREM RestartAlwaysKeeps == Spec => RestartKeepsSubscriptions
  <1>1. IInv => Kept
    BY RestartKeeps DEF IInv
  <1>2. Spec => [][Kept]_vars
    BY <1>1, SpecIInv, PTL DEF Spec
  <1>3. QED
    BY <1>2 DEF RestartKeepsSubscriptions, Kept
=============================================================================
