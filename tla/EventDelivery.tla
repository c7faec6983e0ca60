---------------------------- MODULE EventDelivery ----------------------------
(***************************************************************************)
(* The way of an event from the plugin to the subscribers, and the way of  *)
(* a subscription into the config map.  Publishers and the handlers of the *)
(* REST API put messages on the bounded channel EventOutCh; one goroutine, *)
(* ProcessOutChannel, takes them off.  It posts an event to every client   *)
(* that has subscribed to its resource, counts the posts that could not    *)
(* reach a client, removes the client after FailLimit of them, and writes  *)
(* what the API reports about subscriptions to the config map.  A restart  *)
(* loses the channel and reloads the subscriptions.                        *)
(*                                                                         *)
(* The subscriber store (sdk-go) and the API handlers (rest-api) are       *)
(* vendored; they are modelled from their code.  The store locks a Get and *)
(* a Set, not what lies between them: whoever changes an entry takes a     *)
(* copy in one step and writes it back in a later one, over whatever       *)
(* others have written in the meantime.  The copy shares the entry's       *)
(* SubStore, the pointer to its subscriptions, and has a failedCount of    *)
(* its own.  The Set and the write of the client's file, which follow each *)
(* other, are one step, and so is the removal of a file and of its entry.  *)
(* A subscription is known by its resource: its id is left out.            *)
(* Acknowledgements, counters and the v1 subscription path change nothing  *)
(* that matters here and are left out.                                     *)
(***************************************************************************)
EXTENDS Naturals, Sequences, FiniteSets, SequencesExt

CONSTANTS
    Clients,    \* subscribers, identified by their endpoint
    Resources,  \* resource addresses of events
    Publishers, \* threads of the plugin that call PublishEventViaAPI
    Apis,       \* goroutines of the REST server
    SubStores,  \* bound: SubStores of a client that are in use at one time
    Storages,   \* the storage types a start of the process can end up with
    Cap,        \* size of EventOutCh: 100 in the program
    FailLimit,  \* SetConnectionToFailAfter: 10 in the program
    MaxEvents,  \* bound: events published
    Absent,     \* a client that is not in a store
    Idle        \* a handler or the consumer with nothing to do

ConfigMap == "configMap"  \* subscriptions are kept in a config map as well
EmptyDir  == "emptyDir"   \* in files only: no namespace, or InitConfigMap failed
NoClient  == "noClient"   \* in files only, and there is no Kubernetes client

ASSUME DeliveryAssumption ==
    /\ Cap \in Nat \ {0}
    /\ FailLimit \in Nat \ {0}
    /\ MaxEvents \in Nat
    /\ SubStores # {}
    /\ Publishers \cap Apis = {}
    /\ Storages \subseteq {ConfigMap, EmptyDir, NoClient}

VARIABLES
    queue,    \* contents of EventOutCh
    waiting,  \* goroutines blocked in a send, first come first served
    job,      \* what ProcessOutChannel is doing
    api,      \* what every handler has still to do
    store,    \* SubscriberStore: the entry of every client
    heap,     \* the resources in every SubStore of a client
    files,    \* the resources in every client's file, if it has a usable one
    cm,       \* the config map: the record kept for every client
    storage,  \* scConfig.StorageType, and whether K8sClient is nil
    sent,     \* number of events published so far
    got,      \* history: the last event posted, or tried to post, to a client
    owed,     \* history: events accepted while the client was subscribed to
              \* their resource, and not yet posted
    missed,   \* history: posts since the start that did not reach a client
    stale,    \* history: clients whose record in the config map need not be right
    torn      \* history: clients whose file need not be right

chanVars == <<queue, waiting>>
storeVars == <<store, heap, files, torn>>
vars == <<queue, waiting, job, api, store, heap, files, cm, storage, sent,
          got, owed, missed, stale, torn>>

Thread == Publishers \cup Apis
Subscription == (SUBSET Resources) \cup {Absent}

\* A Subscriber: its SubStore, and its failedCount.  A subscriber that has
\* reached FailLimit has Action DELETE, which ResetFailCount leaves alone.
Entry == [sub : SubStores, fails : 0..FailLimit]

Event(id, r) == [kind |-> "event", id |-> id, resource |-> r]
Record(c, s) == [kind |-> "record", client |-> c, subs |-> s]
Delete(c)    == [kind |-> "delete", client |-> c]
Failed(c)    == [kind |-> "failed", client |-> c]

EventMessage == [kind : {"event"}, id : 1..MaxEvents, resource : Resources]
Message ==
    EventMessage
      \cup [kind : {"record"}, client : Clients, subs : SUBSET Resources]
      \cup [kind : {"delete", "failed"}, client : Clients]

\* The event being posted, the clients it has still to be posted to, and what
\* is to be done first for the client `whom' it has just been posted to: write
\* `copy' of its entry back with the count reset or increased, or remove it.
Job ==
    [msg : EventMessage, todo : SUBSET Clients, act : {"post"},
     whom : {Absent}, copy : {Absent}]
      \cup [msg : EventMessage, todo : SUBSET Clients, act : {"reset", "count"},
            whom : Clients, copy : Entry]
      \cup [msg : EventMessage, todo : SUBSET Clients, act : {"remove"},
            whom : Clients, copy : {Absent}]

\* A handler that has taken a copy of an entry, if there is one, and has still to
\* add a resource to it; that has taken a copy of an entry and of its file, and
\* has still to delete a resource from them; that has still to report a record
\* or a failure; to report every client in `walk' (what it holds when its turn
\* comes); or to report the deletion of every client in `walk' and then to empty
\* the store.
Call ==
    [op : {"create"}, client : Clients, resource : Resources, copy : Entry \cup {Absent}]
      \cup [op : {"delete"}, client : Clients, resource : Resources, copy : Entry,
            file : Subscription]
      \cup [op : {"record"}, client : Clients, subs : SUBSET Resources]
      \cup [op : {"failed"}, client : Clients]
      \cup [op : {"rest", "clear"}, walk : SUBSET Clients]

ASSUME NothingAssumption ==
    /\ Absent \notin Clients
    /\ Absent \notin Entry
    /\ \A S \in SUBSET Resources : S # Absent
    /\ Idle \notin Message
    /\ Idle \notin Job
    /\ Idle \notin Call

TypeOK ==
    /\ queue \in Seq(Message) /\ Len(queue) <= Cap
    /\ waiting \in Seq([by : Thread, msg : Message])
    /\ job \in Job \cup {Idle}
    /\ api \in [Apis -> Call \cup {Idle}]
    /\ store \in [Clients -> Entry \cup {Absent}]
    /\ heap \in [Clients -> [SubStores -> SUBSET Resources]]
    /\ files \in [Clients -> Subscription]
    /\ cm \in [Clients -> Subscription]
    /\ storage \in Storages
    /\ sent \in 0..MaxEvents
    /\ got \in [Clients -> 0..MaxEvents]
    /\ owed \in [Clients -> SUBSET (1..MaxEvents)]
    /\ missed \in [Clients -> 0..FailLimit]
    /\ stale \subseteq Clients
    /\ torn \subseteq Clients
    /\ waiting # <<>> => Len(queue) = Cap

\* A start of the program with an empty store.
Init ==
    /\ queue = <<>> /\ waiting = <<>> /\ job = Idle
    /\ api = [t \in Apis |-> Idle]
    /\ store = [c \in Clients |-> Absent]
    /\ heap = [c \in Clients |-> [i \in SubStores |-> {}]]
    /\ files = [c \in Clients |-> Absent]
    /\ cm = [c \in Clients |-> Absent]
    /\ storage \in Storages
    /\ sent = 0
    /\ got = [c \in Clients |-> 0]
    /\ owed = [c \in Clients |-> {}]
    /\ missed = [c \in Clients |-> 0]
    /\ stale = {}
    /\ torn = {}

\* The subscriptions of every client in the store.
subs == [c \in Clients |->
            IF store[c] = Absent THEN Absent ELSE heap[c][store[c].sub]]

Registered == {c \in Clients : store[c] # Absent}
SubscribersOf(r) == {c \in Registered : r \in subs[c]}

-----------------------------------------------------------------------------
(***************************************************************************)
(* The channel                                                             *)
(***************************************************************************)

Blocked(t) == \E i \in DOMAIN waiting : waiting[i].by = t

\* A send: into the buffer, or blocked behind those that are blocked already.
Send(t, m) ==
    IF Len(queue) < Cap
    THEN queue' = Append(queue, m) /\ UNCHANGED waiting
    ELSE waiting' = Append(waiting, [by |-> t, msg |-> m]) /\ UNCHANGED queue

\* PublishEventViaAPI.
Publish(t, r) ==
    /\ ~Blocked(t)
    /\ sent < MaxEvents
    /\ sent' = sent + 1
    /\ Send(t, Event(sent', r))
    /\ owed' = [c \in Clients |->
                   IF c \in SubscribersOf(r) THEN owed[c] \cup {sent'} ELSE owed[c]]
    /\ UNCHANGED <<job, api, storeVars, cm, storage, got, missed, stale>>

\* SendToChannel gives up after sendTimeout.  PublishEventViaAPI reports no
\* error.  The handlers of the API send without a timeout.
SendTimeout(i) ==
    /\ waiting[i].by \in Publishers
    /\ waiting' = RemoveAt(waiting, i)
    /\ owed' = [c \in Clients |-> owed[c] \ {waiting[i].msg.id}]
    /\ UNCHANGED <<queue, job, api, storeVars, cm, storage, sent, got, missed,
                   stale>>

\* Mutant: the place that becomes free is not given to a blocked sender.
TakeOffNoHandOver ==
    /\ job = Idle
    /\ queue # <<>>
    /\ queue' = Tail(queue)
    /\ UNCHANGED waiting

\* ProcessOutChannel takes a message; the first blocked sender moves up.
TakeOff ==
    /\ job = Idle
    /\ queue # <<>>
    /\ queue' = IF waiting = <<>> THEN Tail(queue)
                ELSE Append(Tail(queue), Head(waiting).msg)
    /\ waiting' = IF waiting = <<>> THEN <<>> ELSE Tail(waiting)

-----------------------------------------------------------------------------
(***************************************************************************)
(* What is under way                                                       *)
(***************************************************************************)

UnderWay ==
    {queue[i] : i \in DOMAIN queue} \cup {waiting[i].msg : i \in DOMAIN waiting}
      \cup (IF job = Idle THEN {} ELSE {job.msg})

\* The clients a call has still to report on, as the store is or will be: a call
\* that has not changed the store yet is not about anybody.
ToReport(call) ==
    IF call = Idle \/ call.op \in {"create", "delete", "failed"} THEN {}
    ELSE IF call.op = "record" THEN {call.client}
    ELSE IF call.op = "rest" THEN call.walk
    ELSE Clients

\* The clients that calls of other handlers than t are still about.
InTheWay(t) == UNION {ToReport(api[u]) : u \in Apis \ {t}}

\* The clients that a message, a removal or a call is still about.
Unsettled ==
    {m.client : m \in {n \in UnderWay : n.kind \in {"record", "delete"}}}
      \cup {c \in Clients : job # Idle /\ job.act = "remove" /\ job.whom = c}
      \cup UNION {ToReport(api[t]) : t \in Apis}

-----------------------------------------------------------------------------
(***************************************************************************)
(* A restart: a crash, CMD RESTART of the daemon (restartProcess), or a    *)
(* new pod.  `keep' says that the files survive; a new pod loses them.     *)
(* main reloads the files, lets InitConfigMap write every record of the    *)
(* config map over its file, and StartPubSubService reloads the files      *)
(* again, all before the first request or line is served.                  *)
(***************************************************************************)

\* Mutant: the files are reloaded, what the config map adds is not.
ReloadedFilesOnly(keep, s) ==
    [c \in Clients |-> IF keep THEN files[c] ELSE Absent]

\* What the store holds after the start.
Reloaded(keep, s) ==
    [c \in Clients |->
        IF s = ConfigMap /\ cm[c] # Absent THEN cm[c]
        ELSE IF keep THEN files[c]
        ELSE Absent]

\* The SubStore of an entry that has just been loaded.
FirstSub == CHOOSE i \in SubStores : TRUE

Start(loaded, keep, s) ==
    /\ queue' = <<>> /\ waiting' = <<>> /\ job' = Idle
    /\ api' = [t \in Apis |-> Idle]
    /\ store' = [c \in Clients |->
                    IF loaded[c] = Absent THEN Absent ELSE [sub |-> FirstSub, fails |-> 0]]
    /\ heap' = [c \in Clients |->
                   [i \in SubStores |->
                       IF i = FirstSub /\ loaded[c] # Absent THEN loaded[c] ELSE {}]]
    /\ files' = loaded
    /\ torn' = {}
    /\ storage' = s
    /\ owed' = [c \in Clients |-> {}]
    /\ stale' = IF keep THEN stale \cup Unsettled \cup torn
                ELSE IF s = ConfigMap THEN {}
                ELSE Clients
    /\ missed' = [c \in Clients |-> 0]
    /\ UNCHANGED <<cm, sent, got>>

Restart(keep, s) == Start(Reloaded(keep, s), keep, s)

-----------------------------------------------------------------------------
(***************************************************************************)
(* ProcessOutChannel                                                       *)
(***************************************************************************)

\* Message m goes on with the clients S.
PostTo(m, S) ==
    job' = IF S = {} THEN Idle
           ELSE [msg |-> m, todo |-> S, act |-> "post", whom |-> Absent, copy |-> Absent]

\* GetClientIDAddressByResource: whoever subscribes later misses this event.
ReceiveEvent ==
    /\ TakeOff
    /\ Head(queue).kind = "event"
    /\ PostTo(Head(queue), SubscribersOf(Head(queue).resource))
    /\ UNCHANGED <<api, storeVars, cm, storage, sent, got, owed, missed, stale>>

\* The map of clients is walked in any order.
Posting(c) == job # Idle /\ job.act = "post" /\ c \in job.todo

Posted(c) ==
    /\ got' = [got EXCEPT ![c] = job.msg.id]
    /\ owed' = [owed EXCEPT ![c] = @ \ {job.msg.id}]
    /\ UNCHANGED <<chanVars, api, storeVars, cm, storage, sent, stale>>

\* The entry of client c is read, if there is one, to be written back by Save.
ReadFor(act, c) ==
    IF c \in Registered
    THEN job' = [job EXCEPT !.todo = @ \ {c}, !.whom = c, !.act = act, !.copy = store[c]]
    ELSE PostTo(job.msg, job.todo \ {c})

\* The client answered, with whatever status: ResetFailCount.
PostAnswered(c) ==
    /\ Posting(c)
    /\ ReadFor("reset", c)
    /\ UNCHANGED missed
    /\ Posted(c)

\* An error that is no DNS error, timeout or refused connection.
PostFailed(c) ==
    /\ Posting(c)
    /\ PostTo(job.msg, job.todo \ {c})
    /\ UNCHANGED missed
    /\ Posted(c)

\* History stops counting at FailLimit.
Missed(n) == IF n < FailLimit THEN n + 1 ELSE n

\* Mutant: the loop over the clients ends with the first one that is not reached.
PostUnreachableBreaks(c) ==
    /\ Posting(c)
    /\ job' = IF c \in Registered
              THEN [job EXCEPT !.todo = {}, !.whom = c, !.act = "count", !.copy = store[c]]
              ELSE Idle
    /\ missed' = [missed EXCEPT ![c] = Missed(@)]
    /\ Posted(c)

\* The client could not be reached: IncFailCountToFail.
PostUnreachable(c) ==
    /\ Posting(c)
    /\ ReadFor("count", c)
    /\ missed' = [missed EXCEPT ![c] = Missed(@)]
    /\ Posted(c)

\* The events that c is still owed when its subscriptions are S.
StillOwed(c, S) ==
    {m.id : m \in {n \in UnderWay : n.kind = "event" /\ n.id \in owed[c] /\ n.resource \in S}}

\* The entry of c becomes [sub |-> i, fails |-> n], with the resources S in its
\* SubStore.
SetEntry(c, i, n, S) ==
    /\ store' = [store EXCEPT ![c] = [sub |-> i, fails |-> n]]
    /\ heap' = [heap EXCEPT ![c][i] = S]
    /\ owed' = [owed EXCEPT ![c] = StillOwed(c, S)]

\* The entry that a copy of c's entry was taken from has not been removed, and no
\* other SubStore has taken its place.
Same(c, copy) ==
    IF copy = Absent THEN store[c] = Absent
    ELSE store[c] # Absent /\ store[c].sub = copy.sub

\* Mutant: a subscriber is marked for deletion one failure early.
CountedEarly(act, n) ==
    IF n = FailLimit THEN n
    ELSE IF act = "reset" THEN 0
    ELSE IF n + 2 >= FailLimit THEN FailLimit
    ELSE n + 1

\* ResetFailCount and IncFailCount of a Subscriber.
Counted(act, n) ==
    IF n = FailLimit THEN n ELSE IF act = "reset" THEN 0 ELSE n + 1

\* Set, with the copy and the new count.  It brings back a client that has been
\* removed, and the SubStore of one that has been created anew.
Save ==
    /\ job # Idle
    /\ job.act \in {"reset", "count"}
    /\ LET c == job.whom
           n == Counted(job.act, job.copy.fails)
       IN  /\ SetEntry(c, job.copy.sub, n, heap[c][job.copy.sub])
           /\ IF job.act = "count" /\ n = FailLimit
              THEN job' = [job EXCEPT !.act = "remove", !.copy = Absent]
              ELSE PostTo(job.msg, job.todo)
           /\ torn' = IF Same(c, job.copy) THEN torn ELSE torn \cup {c}
           /\ stale' = IF Same(c, job.copy) /\ n < FailLimit THEN stale ELSE stale \cup {c}
    /\ UNCHANGED <<chanVars, api, files, cm, storage, sent, got, missed>>

\* DeleteAllSubscriptionsForClient, then cleanupConfigMap with the client id of
\* the message.  That is the id of the publisher, which has no record: the
\* record of the removed client stays.  Without a Kubernetes client the call
\* dereferences nil, and the process dies after the client's file is gone.  A
\* client whose file cannot be removed stays, marked for deletion.
CleanUp ==
    /\ job # Idle
    /\ job.act = "remove"
    /\ LET c == job.whom
           here == {c} \cap Registered
           left == [d \in Clients |-> IF d \in here THEN Absent ELSE files[d]]
       IN  \/ /\ storage = NoClient
              /\ Start(left, TRUE, NoClient)
           \/ /\ storage # NoClient
              /\ store' = [store EXCEPT ![c] = Absent]
              /\ files' = left
              /\ torn' = torn \ here
              /\ owed' = [owed EXCEPT ![c] = {}]
              /\ stale' = stale \cup {c}
              /\ PostTo(job.msg, job.todo)
              /\ UNCHANGED <<chanVars, api, heap, cm, storage, sent, got, missed>>
           \/ /\ c \in Registered
              /\ PostTo(job.msg, job.todo)
              /\ UNCHANGED <<chanVars, api, storeVars, cm, storage, sent, got, owed,
                             missed, stale>>

\* UpdateConfigMap with one record: the map is read, or created, the entry of
\* the client is set or deleted, and the map is written back.
UpdateConfigMap(m) ==
    cm' = [cm EXCEPT ![m.client] = IF m.kind = "delete" THEN Absent ELSE m.subs]

\* A message of the API about a subscriber: ignored unless the config map is in
\* use, and if it reports a failure.  An update that fails is logged.
ReceiveSubscriber ==
    /\ TakeOff
    /\ Head(queue).kind # "event"
    /\ IF storage = ConfigMap /\ Head(queue).kind # "failed"
       THEN \/ UpdateConfigMap(Head(queue)) /\ UNCHANGED stale
            \/ stale' = stale \cup {Head(queue).client} /\ UNCHANGED cm
       ELSE UNCHANGED <<cm, stale>>
    /\ UNCHANGED <<job, api, storeVars, storage, sent, got, owed, missed>>

-----------------------------------------------------------------------------
(***************************************************************************)
(* The handlers of the REST API                                            *)
(***************************************************************************)

Ready(t) == api[t] = Idle /\ ~Blocked(t)

\* The clients whose entry has Action DELETE.
Marked == {c \in Registered : store[c].fails = FailLimit}

\* The records that a call of t will write for S are the last word on S, unless
\* another handler has still to report on them, the client is marked for
\* deletion, or nobody writes them.
Reports(t, S, changed) ==
    stale' = IF storage = ConfigMap
             THEN (stale \ S) \cup (S \cap (InTheWay(t) \cup Marked'))
             ELSE stale \cup changed

\* createSubscription, up to the moment when the client has answered the initial
\* notification and its entry is looked up.
Subscribe(t, c, r) ==
    /\ Ready(t)
    /\ c \notin SubscribersOf(r)
    /\ api' = [api EXCEPT ![t] = [op |-> "create", client |-> c, resource |-> r,
                                  copy |-> store[c]]]
    /\ UNCHANGED <<chanVars, job, storeVars, cm, storage, sent, got, owed, missed, stale>>

\* The SubStores of c that somebody can still get at.
InUse(c) ==
    {store[d].sub : d \in {c} \cap Registered}
      \cup {api[t].copy.sub : t \in {u \in Apis : /\ api[u] # Idle
                                                /\ api[u].op \in {"create", "delete"}
                                                /\ api[u].client = c
                                                /\ api[u].copy # Absent}}
      \cup (IF job # Idle /\ job.copy # Absent /\ job.whom = c THEN {job.copy.sub} ELSE {})

\* The SubStore of a copy; that of a subscriber which was not there is new.
SubOf(c, copy) ==
    IF copy # Absent THEN copy.sub
    ELSE CHOOSE i \in SubStores \cup {Absent} :
            IF SubStores \subseteq InUse(c) THEN i = Absent ELSE i \in SubStores \ InUse(c)

\* The resources of a SubStore or file, none if there is none.
Content(S) == IF S = Absent THEN {} ELSE S

\* The copy, or a new subscriber, gets the resource and is Set with a count of
\* zero and Action NEW.
Create(t) ==
    /\ api[t] # Idle /\ api[t].op = "create"
    /\ LET c == api[t].client
           i == SubOf(c, api[t].copy)
           old == IF api[t].copy = Absent THEN {} ELSE heap[c][i]
       IN  /\ i \in SubStores
           /\ SetEntry(c, i, 0, old \cup {api[t].resource})
    /\ UNCHANGED <<chanVars, job, cm, storage, sent, got, missed>>

\* CreateSubscription: the entry is merged into the client's file as well.
CreateSubscription(t) ==
    /\ Create(t)
    /\ LET c == api[t].client
       IN  /\ files' = [files EXCEPT ![c] = Content(@) \cup subs'[c]]
           /\ torn' = IF Same(c, api[t].copy) THEN torn ELSE torn \cup {c}
           /\ api' = [api EXCEPT ![t] = [op |-> "record", client |-> c, subs |-> subs'[c]]]
           /\ Reports(t, {c}, {c})

\* The file of c cannot be written, or is left empty.
FileFails(c) ==
    /\ files' \in {files, [files EXCEPT ![c] = Absent]}
    /\ torn' = torn \cup {c}
    /\ stale' = stale \cup {c}

\* Without the file the entry stays, and a failure is reported.
CreateSubscriptionFails(t) ==
    /\ Create(t)
    /\ FileFails(api[t].client)
    /\ api' = [api EXCEPT ![t] = [op |-> "failed", client |-> api[t].client]]

\* The failure is reported to the channel, too.
ReportFailed(t) ==
    /\ ~Blocked(t)
    /\ api[t] # Idle /\ api[t].op = "failed"
    /\ Send(t, Failed(api[t].client))
    /\ api' = [api EXCEPT ![t] = Idle]
    /\ UNCHANGED <<job, storeVars, cm, storage, sent, got, owed, missed, stale>>

\* Mutant: the record is sent only if there is room for it.
ReportRecordLossy(t) ==
    /\ ~Blocked(t)
    /\ api[t] # Idle /\ api[t].op = "record"
    /\ IF Len(queue) < Cap
       THEN queue' = Append(queue, Record(api[t].client, api[t].subs))
       ELSE UNCHANGED queue
    /\ api' = [api EXCEPT ![t] = Idle]
    /\ UNCHANGED <<waiting, job, storeVars, cm, storage, sent, got, owed, missed, stale>>

\* The end of createSubscription: the record taken then is sent.
ReportRecord(t) ==
    /\ ~Blocked(t)
    /\ api[t] # Idle /\ api[t].op = "record"
    /\ Send(t, Record(api[t].client, api[t].subs))
    /\ api' = [api EXCEPT ![t] = Idle]
    /\ UNCHANGED <<job, storeVars, cm, storage, sent, got, owed, missed, stale>>

\* deleteSubscription, up to the moment when the entry is looked up and the
\* client's file is read.
Unsubscribe(t, c, r) ==
    /\ Ready(t)
    /\ c \in SubscribersOf(r)
    /\ api' = [api EXCEPT ![t] = [op |-> "delete", client |-> c, resource |-> r,
                                  copy |-> store[c], file |-> files[c]]]
    /\ UNCHANGED <<chanVars, job, storeVars, cm, storage, sent, got, owed, missed, stale>>

\* The resource is deleted from the copy's SubStore, and the copy is Set with the
\* count it had.  The client stays in the store, even with nothing left.
Drop(t) ==
    /\ api[t] # Idle /\ api[t].op = "delete"
    /\ LET c == api[t].client
           i == api[t].copy.sub
       IN  SetEntry(c, i, api[t].copy.fails, heap[c][i] \ {api[t].resource})
    /\ UNCHANGED <<chanVars, job, cm, storage, sent, got, missed>>

\* DeleteSubscription: what was read of the file is written back without the
\* resource as well.
DeleteSubscription(t) ==
    /\ Drop(t)
    /\ api[t].file # Absent
    /\ LET c == api[t].client
       IN  /\ files' = [files EXCEPT ![c] = api[t].file \ {api[t].resource}]
           /\ torn' = IF Same(c, api[t].copy) /\ files[c] = api[t].file THEN torn
                      ELSE torn \cup {c}
           /\ api' = [api EXCEPT ![t] = [op |-> "rest", walk |-> Registered']]
           /\ Reports(t, Registered', {c})

\* If the file cannot be read or written, nothing is reported.
DeleteSubscriptionFails(t) ==
    /\ Drop(t)
    /\ FileFails(api[t].client)
    /\ api' = [api EXCEPT ![t] = Idle]

\* deleteAllSubscriptions first reports, then empties the store.
DeleteAll(t) ==
    /\ Ready(t)
    /\ api' = [api EXCEPT ![t] = [op |-> "clear", walk |-> Registered]]
    /\ UNCHANGED <<chanVars, job, storeVars, cm, storage, sent, got, owed, missed>>
    /\ Reports(t, Registered, Registered)

\* The next client of the walk over the store is reported, unless it has left.
\* UpdateConfigMap takes the record of a client that is marked for deletion for a
\* request to delete it.
Walk(t, c) ==
    /\ ~Blocked(t)
    /\ api[t] # Idle /\ api[t].op \in {"rest", "clear"} /\ c \in api[t].walk
    /\ IF c \notin Registered THEN UNCHANGED chanVars
       ELSE Send(t, IF api[t].op = "rest" /\ c \notin Marked THEN Record(c, subs[c])
                    ELSE Delete(c))
    /\ LET left == [api[t] EXCEPT !.walk = @ \ {c}]
       IN  api' = [api EXCEPT ![t] = IF @.op = "rest" /\ left.walk = {} THEN Idle ELSE left]
    /\ UNCHANGED <<job, storeVars, cm, storage, sent, got, owed, missed, stale>>

\* DeleteAllSubscriptions ends with the first client whose file cannot be removed:
\* S are those that are gone by then.
Clear(t) ==
    /\ ~Blocked(t)
    /\ api[t] # Idle /\ api[t].op = "clear" /\ api[t].walk = {}
    /\ \E S \in SUBSET Registered :
          /\ store' = [c \in Clients |-> IF c \in S THEN Absent ELSE store[c]]
          /\ files' = [c \in Clients |-> IF c \in S THEN Absent ELSE files[c]]
          /\ torn' = torn \ S
          /\ owed' = [c \in Clients |-> IF c \in S THEN {} ELSE owed[c]]
          /\ stale' = stale \cup (Registered \ S)
    /\ api' = [api EXCEPT ![t] = Idle]
    /\ UNCHANGED <<chanVars, job, heap, cm, storage, sent, got, missed>>

-----------------------------------------------------------------------------
Post(c) == PostAnswered(c) \/ PostFailed(c) \/ PostUnreachable(c)

Consumer ==
    \/ ReceiveEvent \/ ReceiveSubscriber \/ Save \/ CleanUp
    \/ \E c \in Clients : Post(c)

Handle(t) ==
    \/ CreateSubscription(t) \/ CreateSubscriptionFails(t)
    \/ DeleteSubscription(t) \/ DeleteSubscriptionFails(t)
    \/ ReportRecord(t) \/ ReportFailed(t) \/ Clear(t)
    \/ \E c \in Clients : Walk(t, c)

Next ==
    \/ \E t \in Publishers, r \in Resources : Publish(t, r)
    \/ \E i \in DOMAIN waiting : SendTimeout(i)
    \/ Consumer
    \/ \E t \in Apis : Handle(t) \/ DeleteAll(t)
    \/ \E t \in Apis, c \in Clients, r \in Resources :
          Subscribe(t, c, r) \/ Unsubscribe(t, c, r)
    \/ \E keep \in BOOLEAN, s \in Storages : Restart(keep, s)

\* ProcessOutChannel runs for ever, and its posts have a timeout of two seconds;
\* a handler that may go on goes on.  Nobody need publish or subscribe.
Fairness == WF_vars(Consumer) /\ \A t \in Apis : WF_vars(Handle(t))

Spec == Init /\ [][Next]_vars /\ Fairness

-----------------------------------------------------------------------------
(***************************************************************************)
(* Properties                                                              *)
(***************************************************************************)

\* The config map catches up with the store: once no message and no call is
\* about a client any more, its record is what the store holds, unless an
\* update or a write of the file failed, the client was marked for deletion or
\* removed for not answering, or handlers, a restart, a change of storage or the
\* return of an old entry came in between.
ConfigMapCatchesUp ==
    \A c \in Clients \ (stale \cup Unsettled) : cm[c] = subs[c]

\* The clients whose subscriptions a restart gives back as they were: those with a
\* settled record if the config map is read, and, if the files survive, without
\* a change that failed or that overtook another one of the same client.
Safe(keep, s) ==
    IF s = ConfigMap
    THEN Clients \ (stale \cup Unsettled \cup (IF keep THEN torn ELSE {}))
    ELSE IF keep THEN Clients \ torn ELSE {}

\* The subscriptions of such a client survive a restart: of the container, and
\* with a config map also of the pod.
RestartKeepsSubscriptions ==
    [][\A keep \in BOOLEAN, s \in Storages :
          Restart(keep, s) => \A c \in Safe(keep, s) : subs'[c] = subs[c]]_vars

\* ProcessOutChannel decides to remove a client only when FailLimit posts since
\* the start have not reached it, whatever old entry with whatever old count is
\* written back over a reset; and a client leaves the store only by this
\* decision, by deleteAllSubscriptions or in a restart.
RemovalHasCause ==
    [][/\ job' # Idle /\ job'.act = "remove" /\ job # job'
             => missed'[job'.whom] = FailLimit
       /\ \A c \in Registered :
             store'[c] = Absent =>
                \/ job # Idle /\ job.act = "remove" /\ (job.whom = c \/ storage = NoClient)
                \/ \E t \in Apis : Clear(t)
                \/ \E keep \in BOOLEAN, s \in Storages : Restart(keep, s)]_vars

\* A handler never waits for ever on a full channel, although it sends without
\* a timeout: nothing ProcessOutChannel does waits for a handler.
ApiAnswers ==
    \A t \in Apis : ~Ready(t) ~> Ready(t)

\* Message by message, in order, at most once to a client, to every client that
\* is owed it, and refused only behind a full buffer: see InOrderDelivery.
EventNumber(m) == IF m.kind = "event" THEN m.id ELSE 0
Promise == INSTANCE InOrderDelivery WITH
    Messages <- Message,
    Numbers <- 1..MaxEvents,
    Id <- EventNumber,
    backlog <- queue \o [i \in DOMAIN waiting |-> waiting[i].msg],
    current <- IF job = Idle THEN Idle ELSE job.msg,
    Nothing <- Idle
DeliversInOrder == Promise!Spec
=============================================================================
