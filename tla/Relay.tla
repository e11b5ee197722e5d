------------------------------- MODULE Relay -------------------------------
(***************************************************************************)
(* The control plane of moqt-relay (src/moqt-relay/src/relay.rs).          *)
(*                                                                         *)
(* Every connection runs an event loop; every SUBSCRIBE and every          *)
(* PUBLISH_NAMESPACE it receives is handled by a task of its own.  The     *)
(* tasks share RelayState behind one mutex (stateLock) and serialise on a  *)
(* mutex per track (trackLock).  A step of this specification is one       *)
(* stretch of a task between two points where it may wait: a region under  *)
(* the state mutex, a write on a stream, a read from the publisher.        *)
(*                                                                         *)
(* A SUBSCRIBE request, the task that handles it and the upstream          *)
(* SUBSCRIBE this task may open share one name, a member of Req.  The      *)
(* order of the waiters of a mutex and of the subscribers of a track is    *)
(* left open: any order is a behaviour.                                    *)
(***************************************************************************)
EXTENDS Naturals, Sequences, FiniteSets

CONSTANTS
    Session,        \* connections, each accepted at most once (ids are never reused)
    Publisher,      \* sessions that may announce namespaces and answer SUBSCRIBE
    Subscriber,     \* sessions that may send SUBSCRIBE
    Req,            \* SUBSCRIBE requests
    Track,          \* FullTrackName: [namespace, name]
    Namespace,      \* namespaces that publishers may announce
    Alias,          \* track aliases
    Form,           \* which forms of SUBSCRIBE arrive, a subset of AllForms
    Leaver,         \* sessions whose connection may go away
    Garbler,        \* sessions that may send something malformed
    Quitter,        \* requests whose client may stop reading the answer stream
    None            \* absence of a value

AllForms == {"NextGroupStart", "OtherFilter", "NonUtf8Name"}

ASSUME RoleAssumption == Publisher \subseteq Session /\ Subscriber \subseteq Session
\* A namespace is a sequence of fields.
ASSUME TrackAssumption ==
    \A t \in Track : t.namespace \in Seq({t.namespace[i] : i \in DOMAIN t.namespace})
ASSUME FormAssumption == Form \subseteq AllForms
ASSUME FaultAssumption ==
    Leaver \subseteq Session /\ Garbler \subseteq Session /\ Quitter \subseteq Req

VARIABLES
    link,           \* transport of a session, as the relay sees it
    loop,           \* event loop of handle_connection
    sessions,       \* RelayState.sessions
    nsPublisher,    \* RelayState.namespace_to_publisher
    subscriptions,  \* RelayState.subscriptions
    stateLock,      \* the task that holds the state mutex across a wait
    trackLock,      \* RelayState.track_locks: the task that holds the guard
    nsTask,         \* PUBLISH_NAMESPACE tasks
    req,            \* the SUBSCRIBE message of a request, and its session
    pc,             \* where handle_subscribe stands
    ok,             \* the SUBSCRIBE_OK a task holds, named by its upstream
    up,             \* the upstream SUBSCRIBE opened for a request
    notify,         \* requests this task has still to send PUBLISH_DONE to
    sent,           \* messages the relay wrote to the subscriber of a request
    stopped         \* requests whose client stopped reading

stateVars == <<sessions, nsPublisher, subscriptions>>
taskVars  == <<req, pc, ok, notify, sent>>
vars == <<link, loop, sessions, nsPublisher, subscriptions, stateLock, trackLock,
          nsTask, req, pc, ok, up, notify, sent, stopped>>

----------------------------------------------------------------------------
NoUpstream == [st |-> "none", pub |-> None, alias |-> None]

\* A program counter at which the task holds the guard of its track.
Locked == {"check", "forwardAggregated", "lookup", "reject", "awaitOk"}

PcValues == Locked \cup {"idle", "filter", "forwardOk", "awaitDone", "notify", "done"}

Message == [type : {"SUBSCRIBE_OK", "PUBLISH_DONE"}, via : Req]
             \cup [type : {"REQUEST_ERROR"}, via : {None}]

Subscribe == [session : Subscriber, track : Track, form : Form]

Upstream == [st : {"none", "sent", "ok", "done", "failed"},
             pub : Session \cup {None}, alias : Alias \cup {None}]

Subscription == [publisher : Session, alias : Alias, ok : Req, subscribers : SUBSET Req]

ASSUME NoneAssumption ==
    None \notin Session \cup Req \cup Alias \cup Subscribe \cup Subscription

Init ==
    /\ link = [s \in Session |-> "none"]
    /\ loop = [s \in Session |-> "none"]
    /\ sessions = {}
    /\ nsPublisher = [n \in Namespace |-> None]
    /\ subscriptions = [t \in Track |-> None]
    /\ stateLock = None
    /\ trackLock = [t \in Track |-> None]
    /\ nsTask = [p \in Publisher |-> [n \in Namespace |-> "none"]]
    /\ req = [r \in Req |-> None]
    /\ pc = [r \in Req |-> "idle"]
    /\ ok = [r \in Req |-> None]
    /\ up = [r \in Req |-> NoUpstream]
    /\ notify = [r \in Req |-> {}]
    /\ sent = [r \in Req |-> << >>]
    /\ stopped = {}

----------------------------------------------------------------------------
\* RelayState

StateFree == stateLock = None

Subscribed(t) == subscriptions[t] # None

Subscribers(t) == IF Subscribed(t) THEN subscriptions[t].subscribers ELSE {}

Prefix(ns, k) == SubSeq(ns, 1, k)

Registered(n) == n \in Namespace /\ nsPublisher[n] # None

\* Mutant: the track's namespace is a prefix of the registered one.
FindPublisherBelow(ns) ==
    LET below == {n \in Namespace : Registered(n) /\ Len(n) >= Len(ns) /\ Prefix(n, Len(ns)) = ns}
    IN  IF below = {} THEN None ELSE nsPublisher[CHOOSE n \in below : TRUE]

\* The longest registered prefix decides, also when its session is gone.
FindPublisher(ns) ==
    LET lengths == {k \in 0..Len(ns) : Registered(Prefix(ns, k))}
    IN  IF lengths = {}
          THEN None
          ELSE LET k == CHOOSE k \in lengths : \A j \in lengths : j <= k
                   p == nsPublisher[Prefix(ns, k)]
               IN  IF p \in sessions THEN p ELSE None

\* Mutant: a subscription that lost its last subscriber is kept.
PurgedKeepsEmpty(s) ==
    [t \in Track |->
        IF ~Subscribed(t) \/ subscriptions[t].publisher = s
          THEN None
          ELSE [subscriptions[t] EXCEPT !.subscribers = {r \in @ : req[r].session # s}]]

\* Mutant: a subscription goes with the session that opened it.
PurgedWithOpener(s) ==
    [t \in Track |->
        IF ~Subscribed(t) \/ s \in {subscriptions[t].publisher, req[subscriptions[t].ok].session}
          THEN None
          ELSE LET left == {r \in subscriptions[t].subscribers : req[r].session # s}
               IN  IF left = {} THEN None
                   ELSE [subscriptions[t] EXCEPT !.subscribers = left]]

\* The subscriptions after session s is removed.
Purged(s) ==
    [t \in Track |->
        IF ~Subscribed(t) \/ subscriptions[t].publisher = s
          THEN None
          ELSE LET left == {r \in subscriptions[t].subscribers : req[r].session # s}
               IN  IF left = {} THEN None
                   ELSE [subscriptions[t] EXCEPT !.subscribers = left]]

\* Mutant: the alias alone selects the subscription.
FindByAlias(p, a) ==
    {req[r].session : r \in UNION {Subscribers(t) : t \in
        {u \in Track : Subscribed(u) /\ subscriptions[u].alias = a}}} \cap sessions

\* The sessions a data stream of publisher p with alias a is relayed to.
FindSubscriberSessions(p, a) ==
    {req[r].session : r \in UNION {Subscribers(t) : t \in
        {u \in Track : Subscribed(u) /\ subscriptions[u].publisher = p
                                     /\ subscriptions[u].alias = a}}} \cap sessions

----------------------------------------------------------------------------
\* Writing to a subscriber, and ending a task

Ok(u)   == [type |-> "SUBSCRIBE_OK", via |-> u]
Done(u) == [type |-> "PUBLISH_DONE", via |-> u]
Error   == [type |-> "REQUEST_ERROR", via |-> None]

\* A write to this request's stream succeeds.
Writable(r) == link[req[r].session] = "up" /\ r \notin stopped

Write(r, m) ==
    sent' = IF Writable(r) THEN [sent EXCEPT ![r] = Append(@, m)] ELSE sent

Goto(r, label) == pc' = [pc EXCEPT ![r] = label]

\* Mutant: the tasks of a track are not serialised.
NotSerialised(r) == TRUE

TrackFree(r) == trackLock[req[r].track] = None

Acquire(r) == trackLock' = [trackLock EXCEPT ![req[r].track] = r]
Release(r) == trackLock' = [trackLock EXCEPT ![req[r].track] = None]

\* The relay dropped every handle of the request: the subscriber sees FIN.
Closed(r) ==
    /\ pc[r] = "done"
    /\ \A t \in Track : r \notin Subscribers(t)
    /\ \A q \in Req : r \notin notify[q]

----------------------------------------------------------------------------
\* Connections

Connect(s) ==
    /\ loop[s] = "none" /\ StateFree
    /\ link' = [link EXCEPT ![s] = "up"]
    /\ loop' = [loop EXCEPT ![s] = "running"]
    /\ sessions' = sessions \cup {s}
    /\ UNCHANGED <<nsPublisher, subscriptions, stateLock, trackLock, nsTask, up, stopped>>
    /\ UNCHANGED taskVars

\* The peer closes the connection or it times out.
LoseLink(s) ==
    /\ s \in Leaver /\ link[s] = "up"
    /\ link' = [link EXCEPT ![s] = "lost"]
    /\ UNCHANGED <<loop, stateLock, trackLock, nsTask, up, stopped>>
    /\ UNCHANGED stateVars /\ UNCHANGED taskVars

\* next_event fails: the link is lost, or the peer sent something malformed.
LoopBreaks(s) ==
    /\ loop[s] = "running" /\ (link[s] = "lost" \/ s \in Garbler)
    /\ loop' = [loop EXCEPT ![s] = "cleanup"]
    /\ UNCHANGED <<link, stateLock, trackLock, nsTask, up, stopped>>
    /\ UNCHANGED stateVars /\ UNCHANGED taskVars

\* Mutant: every namespace the session ever announced is taken out.
RemoveSessionAndNames(s) ==
    /\ loop[s] = "cleanup" /\ StateFree
    /\ loop' = [loop EXCEPT ![s] = "gone"]
    /\ sessions' = sessions \ {s}
    /\ nsPublisher' = [n \in Namespace |->
           IF s \in Publisher /\ nsTask[s][n] = "registered" THEN None ELSE nsPublisher[n]]
    /\ subscriptions' = Purged(s)
    /\ UNCHANGED <<link, stateLock, trackLock, nsTask, up, stopped>>
    /\ UNCHANGED taskVars

RemoveSession(s) ==
    /\ loop[s] = "cleanup" /\ StateFree
    /\ loop' = [loop EXCEPT ![s] = "gone"]
    /\ sessions' = sessions \ {s}
    /\ nsPublisher' = [n \in Namespace |-> IF nsPublisher[n] = s THEN None ELSE nsPublisher[n]]
    /\ subscriptions' = Purged(s)
    /\ UNCHANGED <<link, stateLock, trackLock, nsTask, up, stopped>>
    /\ UNCHANGED taskVars

----------------------------------------------------------------------------
\* PUBLISH_NAMESPACE

ReceivePublishNamespace(p, n) ==
    /\ loop[p] = "running" /\ link[p] = "up" /\ nsTask[p][n] = "none"
    /\ nsTask' = [nsTask EXCEPT ![p][n] = "register"]
    /\ UNCHANGED <<link, loop, stateLock, trackLock, up, stopped>>
    /\ UNCHANGED stateVars /\ UNCHANGED taskVars

\* The namespace is registered; then REQUEST_OK is written, which changes
\* nothing the relay reads.
RegisterNamespace(p, n) ==
    /\ nsTask[p][n] = "register" /\ StateFree
    /\ nsTask' = [nsTask EXCEPT ![p][n] = "registered"]
    /\ nsPublisher' = [nsPublisher EXCEPT ![n] = p]
    /\ UNCHANGED <<link, loop, sessions, subscriptions, stateLock, trackLock, up, stopped>>
    /\ UNCHANGED taskVars

----------------------------------------------------------------------------
\* handle_subscribe, up to the track lock

ReceiveSubscribe(s, r, t, f) ==
    /\ loop[s] = "running" /\ link[s] = "up" /\ pc[r] = "idle"
    /\ req' = [req EXCEPT ![r] = [session |-> s, track |-> t, form |-> f]]
    /\ Goto(r, "filter")
    /\ UNCHANGED <<link, loop, stateLock, trackLock, nsTask, ok, up, notify, sent, stopped>>
    /\ UNCHANGED stateVars

\* Mutant: the task goes on after the rejection.
RejectFilterAndGoOn(r) ==
    /\ pc[r] = "filter" /\ req[r].form = "OtherFilter" /\ TrackFree(r)
    /\ Write(r, Error)
    /\ Acquire(r)
    /\ Goto(r, "check")
    /\ UNCHANGED <<link, loop, stateLock, nsTask, req, ok, up, notify, stopped>>
    /\ UNCHANGED stateVars

RejectFilter(r) ==
    /\ pc[r] = "filter" /\ req[r].form = "OtherFilter"
    /\ Write(r, Error)
    /\ Goto(r, "done")
    /\ UNCHANGED <<link, loop, stateLock, trackLock, nsTask, req, ok, up, notify, stopped>>
    /\ UNCHANGED stateVars

\* A name that is not UTF-8 ends the task with no answer.
RejectName(r) ==
    /\ pc[r] = "filter" /\ req[r].form = "NonUtf8Name"
    /\ Goto(r, "done")
    /\ UNCHANGED <<link, loop, stateLock, trackLock, nsTask, req, ok, up, notify, sent, stopped>>
    /\ UNCHANGED stateVars

\* The wait for the lock, the lookup of the lock in track_locks included.
AcquireTrackLock(r) ==
    /\ pc[r] = "filter" /\ req[r].form = "NextGroupStart"
    /\ TrackFree(r)
    /\ Acquire(r)
    /\ Goto(r, "check")
    /\ UNCHANGED <<link, loop, stateLock, nsTask, req, ok, up, notify, sent, stopped>>
    /\ UNCHANGED stateVars

----------------------------------------------------------------------------
\* handle_subscribe, under the track lock

\* Mutant: who joins is not told.
AggregateSilently(r) ==
    /\ pc[r] = "check" /\ StateFree /\ Subscribed(req[r].track)
    /\ subscriptions' = [subscriptions EXCEPT ![req[r].track].subscribers = @ \cup {r}]
    /\ Release(r)
    /\ Goto(r, "done")
    /\ UNCHANGED <<link, loop, sessions, nsPublisher, stateLock, nsTask, req, ok, up, notify,
                   sent, stopped>>

\* The track has an upstream subscription: join it.
Aggregate(r) ==
    /\ pc[r] = "check" /\ StateFree /\ Subscribed(req[r].track)
    /\ subscriptions' = [subscriptions EXCEPT ![req[r].track].subscribers = @ \cup {r}]
    /\ ok' = [ok EXCEPT ![r] = subscriptions[req[r].track].ok]
    /\ Goto(r, "forwardAggregated")
    /\ UNCHANGED <<link, loop, sessions, nsPublisher, stateLock, trackLock, nsTask, req, up,
                   notify, sent, stopped>>

\* Its OK is forwarded with the track lock still held.
ForwardAggregatedOk(r) ==
    /\ pc[r] = "forwardAggregated"
    /\ Write(r, Ok(ok[r]))
    /\ Release(r)
    /\ Goto(r, "done")
    /\ UNCHANGED <<link, loop, stateLock, nsTask, req, ok, up, notify, stopped>>
    /\ UNCHANGED stateVars

NothingToJoin(r) ==
    /\ pc[r] = "check" /\ StateFree /\ ~Subscribed(req[r].track)
    /\ Goto(r, "lookup")
    /\ UNCHANGED <<link, loop, stateLock, trackLock, nsTask, req, ok, up, notify, sent, stopped>>
    /\ UNCHANGED stateVars

\* SUBSCRIBE is sent to the publisher found; it is lost if the link is.
FoundPublisher(r) ==
    /\ pc[r] = "lookup" /\ StateFree /\ FindPublisher(req[r].track.namespace) # None
    /\ up' = [up EXCEPT ![r] = [st |-> "sent", alias |-> None,
                                pub |-> FindPublisher(req[r].track.namespace)]]
    /\ Goto(r, "awaitOk")
    /\ UNCHANGED <<link, loop, stateLock, trackLock, nsTask, req, ok, notify, sent, stopped>>
    /\ UNCHANGED stateVars

\* The state guard is a temporary of the match: it outlives the lookup and is
\* held until the error is written.
NoPublisher(r) ==
    /\ pc[r] = "lookup" /\ StateFree /\ FindPublisher(req[r].track.namespace) = None
    /\ stateLock' = r
    /\ Goto(r, "reject")
    /\ UNCHANGED <<link, loop, trackLock, nsTask, req, ok, up, notify, sent, stopped>>
    /\ UNCHANGED stateVars

Reject(r) ==
    /\ pc[r] = "reject"
    /\ Write(r, Error)
    /\ stateLock' = None
    /\ Release(r)
    /\ Goto(r, "done")
    /\ UNCHANGED <<link, loop, nsTask, req, ok, up, notify, stopped>>
    /\ UNCHANGED stateVars

\* Mutant: the track lock is kept.
UpstreamSubscribeFailsLocked(r) ==
    /\ pc[r] = "awaitOk"
    /\ link[up[r].pub] = "lost" \/ up[r].st = "failed"
    /\ Goto(r, "done")
    /\ UNCHANGED <<link, loop, stateLock, trackLock, nsTask, req, ok, up, notify, sent, stopped>>
    /\ UNCHANGED stateVars

\* Opening, writing or reading fails, or the publisher refuses: the task ends
\* and the subscriber is told nothing.
UpstreamSubscribeFails(r) ==
    /\ pc[r] = "awaitOk"
    /\ link[up[r].pub] = "lost" \/ up[r].st = "failed"
    /\ Release(r)
    /\ Goto(r, "done")
    /\ UNCHANGED <<link, loop, stateLock, nsTask, req, ok, up, notify, sent, stopped>>
    /\ UNCHANGED stateVars

\* Mutant: the answer is not waited for.
Asked(r) == up[r].st # "none"

Answered(r) == up[r].alias # None

\* SUBSCRIBE_OK arrives.  add_subscriber, then the track guard is dropped with
\* no wait in between.
RecordSubscription(r) ==
    /\ pc[r] = "awaitOk" /\ Answered(r) /\ StateFree
    /\ LET t == req[r].track
           entry == IF Subscribed(t) THEN subscriptions[t]
                    ELSE [publisher |-> up[r].pub, alias |-> up[r].alias,
                          ok |-> r, subscribers |-> {}]
       IN  subscriptions' = [subscriptions EXCEPT
               ![t] = [entry EXCEPT !.subscribers = @ \cup {r}]]
    /\ ok' = [ok EXCEPT ![r] = r]
    /\ Release(r)
    /\ Goto(r, "forwardOk")
    /\ UNCHANGED <<link, loop, sessions, nsPublisher, stateLock, nsTask, req, up, notify,
                   sent, stopped>>

----------------------------------------------------------------------------
\* handle_subscribe, after the track lock

\* A failed write ends the task: its entry stays, its upstream is abandoned.
ForwardOk(r) ==
    /\ pc[r] = "forwardOk"
    /\ Write(r, Ok(ok[r]))
    /\ Goto(r, IF Writable(r) THEN "awaitDone" ELSE "done")
    /\ UNCHANGED <<link, loop, stateLock, trackLock, nsTask, req, ok, up, notify, stopped>>
    /\ UNCHANGED stateVars

\* recv_publish_done fails: nobody is told.
UpstreamEnds(r) ==
    /\ pc[r] = "awaitDone"
    /\ link[up[r].pub] = "lost" \/ up[r].st = "failed"
    /\ Goto(r, "done")
    /\ UNCHANGED <<link, loop, stateLock, trackLock, nsTask, req, ok, up, notify, sent, stopped>>
    /\ UNCHANGED stateVars

\* Mutant: only the subscriber that opened the upstream is told.
FindOwnRequest(r) ==
    /\ pc[r] = "awaitDone" /\ up[r].st = "done" /\ StateFree
    /\ notify' = [notify EXCEPT ![r] = {r}]
    /\ Goto(r, "notify")
    /\ UNCHANGED <<link, loop, stateLock, trackLock, nsTask, req, ok, up, sent, stopped>>
    /\ UNCHANGED stateVars

\* PUBLISH_DONE arrives.  The subscribers are looked up by track, whoever its
\* publisher is by now.
FindSubscriberRequests(r) ==
    /\ pc[r] = "awaitDone" /\ up[r].st = "done" /\ StateFree
    /\ notify' = [notify EXCEPT ![r] = Subscribers(req[r].track)]
    /\ Goto(r, IF Subscribers(req[r].track) = {} THEN "done" ELSE "notify")
    /\ UNCHANGED <<link, loop, stateLock, trackLock, nsTask, req, ok, up, sent, stopped>>
    /\ UNCHANGED stateVars

\* A failed write is ignored; the task ends with the last subscriber.
ForwardPublishDone(r, q) ==
    /\ pc[r] = "notify" /\ q \in notify[r]
    /\ Write(q, Done(r))
    /\ notify' = [notify EXCEPT ![r] = @ \ {q}]
    /\ Goto(r, IF notify[r] = {q} THEN "done" ELSE "notify")
    /\ UNCHANGED <<link, loop, stateLock, trackLock, nsTask, req, ok, up, stopped>>
    /\ UNCHANGED stateVars

----------------------------------------------------------------------------
\* The peers, as far as the relay observes them

\* A publisher never gives one alias to two tracks.
AliasFree(r, a) ==
    \A q \in Req : up[q].pub = up[r].pub /\ up[q].alias = a => req[q].track = req[r].track

PublisherAccepts(r, a) ==
    /\ up[r].st = "sent" /\ link[up[r].pub] = "up" /\ AliasFree(r, a)
    /\ up' = [up EXCEPT ![r].st = "ok", ![r].alias = a]
    /\ UNCHANGED <<link, loop, stateLock, trackLock, nsTask, stopped>>
    /\ UNCHANGED stateVars /\ UNCHANGED taskVars

\* It refuses, or ends the request stream before it said what it owed.
PublisherFails(r) ==
    /\ up[r].st \in {"sent", "ok"} /\ link[up[r].pub] = "up"
    /\ up' = [up EXCEPT ![r].st = "failed"]
    /\ UNCHANGED <<link, loop, stateLock, trackLock, nsTask, stopped>>
    /\ UNCHANGED stateVars /\ UNCHANGED taskVars

PublisherFinishes(r) ==
    /\ up[r].st = "ok" /\ link[up[r].pub] = "up"
    /\ up' = [up EXCEPT ![r].st = "done"]
    /\ UNCHANGED <<link, loop, stateLock, trackLock, nsTask, stopped>>
    /\ UNCHANGED stateVars /\ UNCHANGED taskVars

StopReading(r) ==
    /\ r \in Quitter \ stopped /\ pc[r] # "idle"
    /\ stopped' = stopped \cup {r}
    /\ UNCHANGED <<link, loop, stateLock, trackLock, nsTask, up>>
    /\ UNCHANGED stateVars /\ UNCHANGED taskVars

----------------------------------------------------------------------------
Connection(s) == Connect(s) \/ LoseLink(s) \/ LoopBreaks(s) \/ RemoveSession(s)

PublishNamespace(p, n) ==
    ReceivePublishNamespace(p, n) \/ RegisterNamespace(p, n)

\* The steps of the task of request r.
HandleSubscribe(r) ==
    \/ RejectFilter(r) \/ RejectName(r) \/ AcquireTrackLock(r)
    \/ Aggregate(r) \/ ForwardAggregatedOk(r) \/ NothingToJoin(r)
    \/ FoundPublisher(r) \/ NoPublisher(r) \/ Reject(r)
    \/ UpstreamSubscribeFails(r) \/ RecordSubscription(r) \/ ForwardOk(r)
    \/ UpstreamEnds(r) \/ FindSubscriberRequests(r)
    \/ \E q \in Req : ForwardPublishDone(r, q)

Peer(r) ==
    \/ \E a \in Alias : PublisherAccepts(r, a)
    \/ PublisherFails(r) \/ PublisherFinishes(r) \/ StopReading(r)

Next ==
    \/ \E s \in Session : Connection(s)
    \/ \E p \in Publisher, n \in Namespace : PublishNamespace(p, n)
    \/ \E s \in Subscriber, r \in Req, t \in Track, f \in Form : ReceiveSubscribe(s, r, t, f)
    \/ \E r \in Req : HandleSubscribe(r) \/ Peer(r)

Spec == Init /\ [][Next]_vars
=============================================================================
