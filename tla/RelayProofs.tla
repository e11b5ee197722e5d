---------------------------- MODULE RelayProofs ----------------------------
(***************************************************************************)
(* Safety of the relay's control plane for any number of sessions, tracks, *)
(* requests and faults: what is recorded of the tracks, how requests are   *)
(* answered, who is routed to whom, and that tracks are aggregated.        *)
(***************************************************************************)
EXTENDS RelayProperties, FiniteSetTheorems, SequenceLemmas

----------------------------------------------------------------------------
(* The inductive invariant *)

\* A task that runs has a message; one that waits for its publisher or has one
\* has picked a session; one that forwards an OK holds it.
TaskInv ==
    \A r \in Req :
        /\ pc[r] # "idle" => req[r] \in Subscribe
        /\ pc[r] \in {"awaitOk", "forwardOk", "awaitDone"} => up[r].pub \in Session
        /\ up[r].st # "none" => up[r].pub \in Session
        /\ pc[r] \in {"forwardAggregated", "forwardOk"} => ok[r] \in Req

\* A task at a locked program counter holds the guard of its track.
LockInv == \A r \in Req : pc[r] \in Locked => trackLock[req[r].track] = r

\* A track that is being opened has no subscription.
AbsenceInv == \A r \in Req : Opening(r) => ~Subscribed(req[r].track)

ControlInv == Types /\ TaskInv /\ LockInv /\ AbsenceInv

----------------------------------------------------------------------------
\* Writing a message keeps the type of what was sent.
LEMMA WriteType ==
    ASSUME sent \in [Req -> Seq(Message)], NEW r \in Req, NEW m \in Message, Write(r, m)
    PROVE  sent' \in [Req -> Seq(Message)]
<1>1. CASE Writable(r)
  BY <1>1 DEF Write
<1>2. CASE ~Writable(r)
  BY <1>2 DEF Write
<1> QED BY <1>1, <1>2

\* The messages of the relay are messages.
LEMMA MessageType ==
    /\ Error \in Message
    /\ \A u \in Req : Ok(u) \in Message /\ Done(u) \in Message
BY DEF Message, Error, Ok, Done

\* The publisher that is looked up is a session.
LEMMA FindPublisherType ==
    ASSUME Types, NEW ns
    PROVE  FindPublisher(ns) \in Session \cup {None}
BY DEF FindPublisher, Types

\* A session's removal leaves subscriptions of the same type, and none where
\* there was none.
LEMMA PurgedType ==
    ASSUME Types, NEW s
    PROVE  /\ Purged(s) \in [Track -> Subscription \cup {None}]
           /\ \A t \in Track : ~Subscribed(t) => Purged(s)[t] = None
<1>1. ASSUME NEW t \in Track, Subscribed(t)
      PROVE  \A left \in SUBSET subscriptions[t].subscribers :
                [subscriptions[t] EXCEPT !.subscribers = left] \in Subscription
  <2>1. subscriptions[t] \in Subscription
    BY <1>1 DEF Types, Subscribed
  <2> QED BY <2>1 DEF Subscription
<1> QED BY <1>1 DEF Purged, Types, Subscribed

----------------------------------------------------------------------------
LEMMA ControlInit == Init => ControlInv
BY NoneAssumption
   DEF Init, ControlInv, Types, TaskInv, LockInv, AbsenceInv, Opening, Locked, PcValues,
       Upstream, NoUpstream

\* The connections and the namespace tasks.
LEMMA ControlConnection ==
    ASSUME ControlInv,
           \/ \E s \in Session : Connection(s)
           \/ \E p \in Publisher, n \in Namespace : PublishNamespace(p, n)
    PROVE  ControlInv'
<1> USE DEF ControlInv, Types, TaskInv, LockInv, AbsenceInv, Opening, Subscribed, taskVars,
            stateVars
<1>1. ASSUME NEW s \in Session, Connect(s) PROVE ControlInv'
  BY <1>1 DEF Connect
<1>2. ASSUME NEW s \in Session, LoseLink(s) PROVE ControlInv'
  BY <1>2 DEF LoseLink
<1>3. ASSUME NEW s \in Session, LoopBreaks(s) PROVE ControlInv'
  BY <1>3 DEF LoopBreaks
<1>4. ASSUME NEW s \in Session, RemoveSession(s) PROVE ControlInv'
  <2> HIDE DEF Subscribed
  <2>1. subscriptions' = Purged(s) /\ UNCHANGED <<link, stateLock, trackLock, nsTask, up, stopped>>
        /\ UNCHANGED taskVars
    BY <1>4 DEF RemoveSession
  <2>2. subscriptions' \in [Track -> Subscription \cup {None}]
    BY <2>1, PurgedType
  <2>3. Types'
    BY <1>4, <2>1, <2>2 DEF RemoveSession
  <2>4. \A t \in Track : ~Subscribed(t) => ~Subscribed(t)'
    BY <2>1, PurgedType DEF Subscribed
  <2>5. TaskInv' /\ LockInv'
    BY <2>1
  <2>6. AbsenceInv'
    BY <2>1, <2>4 DEF Subscribe
  <2> QED BY <2>3, <2>5, <2>6
<1>5. ASSUME NEW p \in Publisher, NEW n \in Namespace, ReceivePublishNamespace(p, n)
      PROVE  ControlInv'
  BY <1>5 DEF ReceivePublishNamespace
<1>6. ASSUME NEW p \in Publisher, NEW n \in Namespace, RegisterNamespace(p, n)
      PROVE  ControlInv'
  BY <1>6 DEF RegisterNamespace
<1> QED BY <1>1, <1>2, <1>3, <1>4, <1>5, <1>6 DEF Connection, PublishNamespace

\* The peers.
LEMMA ControlPeer ==
    ASSUME ControlInv, NEW r \in Req, Peer(r)
    PROVE  ControlInv'
<1> USE DEF ControlInv, Types, TaskInv, LockInv, AbsenceInv, Opening, Subscribed, taskVars,
            stateVars, Upstream
<1>1. ASSUME NEW u \in Upstream, u.pub = up[r].pub, u.st # "none" => up[r].st # "none",
             up' = [up EXCEPT ![r] = u],
             UNCHANGED <<link, loop, stateLock, trackLock, nsTask, stopped>>,
             UNCHANGED stateVars, UNCHANGED taskVars
      PROVE  ControlInv'
  BY <1>1
<1>2. up[r] \in Upstream
  OBVIOUS
<1>3. ASSUME NEW a \in Alias, PublisherAccepts(r, a) PROVE ControlInv'
  <2> DEFINE u == [[up[r] EXCEPT !.st = "ok"] EXCEPT !.alias = a]
  <2>1. u \in Upstream /\ u.pub = up[r].pub /\ up[r].st = "sent"
    BY <1>2, <1>3 DEF PublisherAccepts
  <2>2. up' = [up EXCEPT ![r] = u]
    BY <1>3 DEF PublisherAccepts
  <2> HIDE DEF u
  <2> QED BY <1>1, <1>3, <2>1, <2>2 DEF PublisherAccepts
<1>4. ASSUME NEW st \in {"done", "failed"}, up' = [up EXCEPT ![r].st = st], up[r].st # "none",
             UNCHANGED <<link, loop, stateLock, trackLock, nsTask, stopped>>,
             UNCHANGED stateVars, UNCHANGED taskVars
      PROVE  ControlInv'
  <2> DEFINE u == [up[r] EXCEPT !.st = st]
  <2>1. u \in Upstream /\ u.pub = up[r].pub
    BY <1>2
  <2>2. up' = [up EXCEPT ![r] = u]
    BY <1>4
  <2> HIDE DEF u
  <2> QED BY <1>1, <1>4, <2>1, <2>2
<1>5. CASE StopReading(r)
  BY <1>5, FaultAssumption DEF StopReading
<1>6. CASE PublisherFails(r) \/ PublisherFinishes(r)
  BY <1>4, <1>6 DEF PublisherFails, PublisherFinishes
<1> QED BY <1>3, <1>5, <1>6 DEF Peer

\* The steps of handle_subscribe before it has an upstream.
LEMMA ControlTaskStart ==
    ASSUME ControlInv, NEW r \in Req
    PROVE  /\ \A s \in Subscriber, t \in Track, f \in Form :
                 ReceiveSubscribe(s, r, t, f) => ControlInv'
           /\ (\/ RejectFilter(r) \/ RejectName(r) \/ AcquireTrackLock(r) \/ Aggregate(r)
               \/ ForwardAggregatedOk(r) \/ NothingToJoin(r)) => ControlInv'
<1> USE DEF ControlInv, Types, TaskInv, LockInv, AbsenceInv, Opening, Subscribed, taskVars,
            stateVars, Goto, Locked, PcValues
<1>1. ASSUME NEW s \in Subscriber, NEW t \in Track, NEW f \in Form,
             ReceiveSubscribe(s, r, t, f)
      PROVE  ControlInv'
  <2>1. [session |-> s, track |-> t, form |-> f] \in Subscribe
    BY FormAssumption DEF Subscribe
  <2> QED BY <1>1, <2>1 DEF ReceiveSubscribe
<1>2. CASE RejectFilter(r)
  <2>1. sent' \in [Req -> Seq(Message)]
    BY <1>2, WriteType, MessageType DEF RejectFilter
  <2> QED BY <1>2, <2>1 DEF RejectFilter
<1>3. CASE RejectName(r)
  BY <1>3 DEF RejectName
<1>4. CASE AcquireTrackLock(r)
  BY <1>4, NoneAssumption DEF AcquireTrackLock, TrackFree, Acquire, Subscribe
<1>5. CASE Aggregate(r)
  <2>1. req[r].track \in Track /\ subscriptions[req[r].track] \in Subscription
    BY <1>5 DEF Aggregate, Subscribe
  <2>2. subscriptions[req[r].track].ok \in Req
    BY <2>1 DEF Subscription
  <2>3. \A members \in SUBSET Req :
            [subscriptions[req[r].track] EXCEPT !.subscribers = members] \in Subscription
    BY <2>1 DEF Subscription
  <2>4. subscriptions[req[r].track].subscribers \cup {r} \in SUBSET Req
    BY <2>1 DEF Subscription
  <2>5. Types'
    BY <1>5, <2>1, <2>2, <2>3, <2>4 DEF Aggregate
  <2>6. TaskInv' /\ LockInv'
    BY <1>5, <2>2 DEF Aggregate
  <2>7. \A q \in Req : Opening(q) => req[q].track # req[r].track
    BY <1>5 DEF Aggregate
  <2>8. AbsenceInv'
    BY <1>5, <2>7 DEF Aggregate, Subscribe
  <2> QED BY <2>5, <2>6, <2>8
<1>6. CASE ForwardAggregatedOk(r)
  <2>1. sent' \in [Req -> Seq(Message)]
    BY <1>6, WriteType, MessageType DEF ForwardAggregatedOk
  <2>2. Types' /\ TaskInv' /\ AbsenceInv'
    BY <1>6, <2>1 DEF ForwardAggregatedOk, Release
  <2>3. LockInv'
    BY <1>6 DEF ForwardAggregatedOk, Release, Subscribe
  <2> QED BY <2>2, <2>3
<1>7. CASE NothingToJoin(r)
  BY <1>7 DEF NothingToJoin
<1> QED BY <1>1, <1>2, <1>3, <1>4, <1>5, <1>6, <1>7

\* The steps of handle_subscribe that open an upstream, or fail to.
LEMMA ControlTaskOpening ==
    ASSUME ControlInv, NEW r \in Req,
           FoundPublisher(r) \/ NoPublisher(r) \/ Reject(r) \/ UpstreamSubscribeFails(r)
             \/ RecordSubscription(r)
    PROVE  ControlInv'
<1> USE DEF ControlInv, Types, TaskInv, LockInv, AbsenceInv, Opening, Subscribed, taskVars,
            stateVars, Goto, Locked, PcValues
<1>1. CASE FoundPublisher(r)
  <2> DEFINE p == FindPublisher(req[r].track.namespace)
             u == [st |-> "sent", alias |-> None, pub |-> p]
  <2>1. p \in Session
    BY <1>1, FindPublisherType DEF FoundPublisher
  <2> HIDE DEF p
  <2>2. u \in Upstream /\ u.pub = p
    BY <2>1 DEF Upstream
  <2>3. up' = [up EXCEPT ![r] = u]
    BY <1>1 DEF FoundPublisher, p
  <2> HIDE DEF u
  <2> QED BY <1>1, <2>1, <2>2, <2>3 DEF FoundPublisher
<1>2. CASE NoPublisher(r)
  BY <1>2 DEF NoPublisher
<1>3. CASE Reject(r)
  <2>1. sent' \in [Req -> Seq(Message)]
    BY <1>3, WriteType, MessageType DEF Reject
  <2>2. Types' /\ TaskInv' /\ AbsenceInv'
    BY <1>3, <2>1 DEF Reject, Release
  <2>3. LockInv'
    BY <1>3 DEF Reject, Release, Subscribe
  <2> QED BY <2>2, <2>3
<1>4. CASE UpstreamSubscribeFails(r)
  <2>1. Types' /\ TaskInv' /\ AbsenceInv'
    BY <1>4 DEF UpstreamSubscribeFails, Release
  <2>2. LockInv'
    BY <1>4 DEF UpstreamSubscribeFails, Release, Subscribe
  <2> QED BY <2>1, <2>2
<1>5. CASE RecordSubscription(r)
  <2> DEFINE t == req[r].track
             e == [publisher |-> up[r].pub, alias |-> up[r].alias, ok |-> r,
                   subscribers |-> {}]
             f == [e EXCEPT !.subscribers = @ \cup {r}]
  <2>1. t \in Track /\ ~Subscribed(t)
    BY <1>5 DEF RecordSubscription, Subscribe
  <2>2. up[r].alias \in Alias /\ up[r].pub \in Session
    BY <1>5 DEF RecordSubscription, Answered, Upstream
  <2>3. f \in Subscription
    BY <2>2 DEF Subscription
  <2>4. subscriptions' = [subscriptions EXCEPT ![t] = f]
    <3> DEFINE entry == IF Subscribed(t) THEN subscriptions[t] ELSE e
    <3>1. subscriptions' = [subscriptions EXCEPT ![t] = [entry EXCEPT !.subscribers = @ \cup {r}]]
      BY <1>5 DEF RecordSubscription
    <3>2. entry = e
      BY <2>1
    <3> HIDE DEF entry, e
    <3> QED BY <3>1, <3>2
  <2> HIDE DEF f
  <2>5. Types'
    <3>1. subscriptions' \in [Track -> Subscription \cup {None}]
      BY <2>3, <2>4
    <3>2. /\ UNCHANGED <<link, loop, sessions, nsPublisher, stateLock, nsTask, req, up, notify,
                          sent, stopped>>
          /\ pc' = [pc EXCEPT ![r] = "forwardOk"]
          /\ ok' = [ok EXCEPT ![r] = r]
          /\ trackLock' = [trackLock EXCEPT ![t] = None]
      BY <1>5 DEF RecordSubscription, Release
    <3> QED BY <3>1, <3>2
  <2>6. TaskInv'
    BY <1>5 DEF RecordSubscription
  <2>7. LockInv'
    BY <1>5, <2>1 DEF RecordSubscription, Release, Subscribe
  <2>8. \A q \in Req : Opening(q) /\ q # r => req[q].track # t
    BY <1>5 DEF RecordSubscription
  <2>9. AbsenceInv'
    BY <1>5, <2>1, <2>4, <2>8 DEF RecordSubscription, Subscribe
  <2> QED BY <2>5, <2>6, <2>7, <2>9
<1> QED BY <1>1, <1>2, <1>3, <1>4, <1>5

\* The steps of handle_subscribe after the track lock.
LEMMA ControlTaskEnd ==
    ASSUME ControlInv, NEW r \in Req,
           \/ ForwardOk(r) \/ UpstreamEnds(r) \/ FindSubscriberRequests(r)
           \/ \E q \in Req : ForwardPublishDone(r, q)
    PROVE  ControlInv'
<1> USE DEF ControlInv, Types, TaskInv, LockInv, AbsenceInv, Opening, Subscribed, taskVars,
            stateVars, Goto, Locked, PcValues
<1>1. CASE ForwardOk(r)
  <2>1. sent' \in [Req -> Seq(Message)]
    BY <1>1, WriteType, MessageType DEF ForwardOk
  <2> QED BY <1>1, <2>1 DEF ForwardOk
<1>2. CASE UpstreamEnds(r)
  BY <1>2 DEF UpstreamEnds
<1>3. CASE FindSubscriberRequests(r)
  <2>1. Subscribers(req[r].track) \in SUBSET Req
    <3>1. req[r].track \in Track
      BY <1>3 DEF FindSubscriberRequests, Subscribe
    <3> QED BY <3>1 DEF Subscribers, Subscription
  <2> QED BY <1>3, <2>1 DEF FindSubscriberRequests
<1>4. ASSUME NEW q \in Req, ForwardPublishDone(r, q) PROVE ControlInv'
  <2>0. Done(r) \in Message /\ Write(q, Done(r))
    BY <1>4, MessageType DEF ForwardPublishDone
  <2>1. sent' \in [Req -> Seq(Message)]
    BY <2>0, WriteType
  <2>2. notify' \in [Req -> SUBSET Req]
    BY <1>4 DEF ForwardPublishDone
  <2>3. PICK l \in {"notify", "done"} : pc' = [pc EXCEPT ![r] = l]
    BY <1>4 DEF ForwardPublishDone
  <2> QED BY <1>4, <2>1, <2>2, <2>3 DEF ForwardPublishDone
<1> QED BY <1>1, <1>2, <1>3, <1>4

LEMMA ControlStep == ControlInv /\ [Next]_vars => ControlInv'
<1> SUFFICES ASSUME ControlInv, [Next]_vars PROVE ControlInv'
  OBVIOUS
<1>1. CASE \/ \E s \in Session : Connection(s)
           \/ \E p \in Publisher, n \in Namespace : PublishNamespace(p, n)
  BY <1>1, ControlConnection
<1>2. ASSUME NEW s \in Subscriber, NEW r \in Req, NEW t \in Track, NEW f \in Form,
             ReceiveSubscribe(s, r, t, f)
      PROVE  ControlInv'
  BY <1>2, ControlTaskStart
<1>3. ASSUME NEW r \in Req, HandleSubscribe(r) PROVE ControlInv'
  BY <1>3, ControlTaskStart, ControlTaskOpening, ControlTaskEnd DEF HandleSubscribe
<1>4. ASSUME NEW r \in Req, Peer(r) PROVE ControlInv'
  BY <1>4, ControlPeer
<1>5. CASE UNCHANGED vars
  BY <1>5 DEF vars, ControlInv, Types, TaskInv, LockInv, AbsenceInv, Opening, Subscribed
<1> QED BY <1>1, <1>2, <1>3, <1>4, <1>5 DEF Next

THEOREM ControlInvariant == Spec => []ControlInv
BY ControlInit, ControlStep, PTL DEF Spec

----------------------------------------------------------------------------
\* Every variable of the relay keeps its type; a task that runs has a message,
\* one that asked for the track knows whom, one that forwards an OK holds it.
THEOREM TypeCorrect == Spec => []TypeOK
<1>1. ControlInv => TypeOK
  BY NoneAssumption DEF ControlInv, TypeOK, TaskInv
<1> QED BY <1>1, ControlInvariant, PTL

\* No duplicate upstream SUBSCRIBE: what handle_subscribe read before it asked
\* the publisher is still true when it records the answer.
THEOREM AbsenceHolds == Spec => []CheckedAbsenceHolds
<1>1. ControlInv => CheckedAbsenceHolds
  BY DEF ControlInv, CheckedAbsenceHolds, LockInv, AbsenceInv, Opening, Locked
<1> QED BY <1>1, ControlInvariant, PTL

----------------------------------------------------------------------------
(* What subscribers are told *)

\* An upstream has an alias only once it was accepted, and is opened once.
UpstreamInv ==
    \A r \in Req :
        /\ up[r].st \in {"none", "sent"} => up[r].alias = None
        /\ pc[r] \in {"idle", "filter", "check", "lookup"} => up[r].st = "none"

\* An upstream with this OK is the one by which the relay routes track t.
Routes(u, t) ==
    /\ u \in Req
    /\ up[u].pub = subscriptions[t].publisher
    /\ up[u].alias = subscriptions[t].alias

\* A subscriber was added under the track lock, with the OK it is told.
MemberInv ==
    \A t \in Track : Subscribed(t) =>
        /\ Routes(subscriptions[t].ok, t)
        /\ \A r \in Subscribers(t) :
              /\ req[r].track = t
              /\ pc[r] \in {"forwardAggregated", "forwardOk", "awaitDone", "notify", "done"}
              /\ Routes(ok[r], t)

\* The only SUBSCRIBE_OK a task writes is the one it holds, as its last act
\* before it waits or ends.
SentInv ==
    \A r \in Req : \A i \in DOMAIN sent[r] :
        sent[r][i].type = "SUBSCRIBE_OK" =>
            sent[r][i].via = ok[r] /\ pc[r] \in {"awaitDone", "notify", "done"}

ToldInv == ControlInv /\ UpstreamInv /\ MemberInv /\ SentInv

\* The peers of a request change its upstream only: never its publisher, and
\* its alias only when they accept it.
LEMMA PeerUpstream ==
    ASSUME Types, NEW r \in Req, Peer(r)
    PROVE  /\ UNCHANGED pc
           /\ \E u \in Upstream :
                 /\ up' = [up EXCEPT ![r] = u]
                 /\ u.pub = up[r].pub
                 /\ u.alias = up[r].alias \/ up[r].st = "sent"
                 /\ u.st \in {"none", "sent"} => u = up[r]
<1>0. up[r] \in Upstream
  BY DEF Types
<1>1. ASSUME NEW a \in Alias, PublisherAccepts(r, a)
      PROVE  up' = [up EXCEPT ![r] = [[@ EXCEPT !.st = "ok"] EXCEPT !.alias = a]] /\ up[r].st = "sent"
  BY <1>1 DEF PublisherAccepts
<1>2. ASSUME NEW a \in Alias
      PROVE  /\ [[up[r] EXCEPT !.st = "ok"] EXCEPT !.alias = a] \in Upstream
             /\ [[up[r] EXCEPT !.st = "ok"] EXCEPT !.alias = a].pub = up[r].pub
             /\ [[up[r] EXCEPT !.st = "ok"] EXCEPT !.alias = a].st = "ok"
  BY <1>0 DEF Upstream
<1>3. ASSUME NEW a \in Alias, PublisherAccepts(r, a)
      PROVE  \E u \in Upstream : /\ up' = [up EXCEPT ![r] = u] /\ u.pub = up[r].pub
                                 /\ up[r].st = "sent" /\ u.st = "ok"
  BY <1>1, <1>2, <1>3
<1>4. ASSUME NEW st \in {"done", "failed"}
      PROVE  /\ [up[r] EXCEPT !.st = st] \in Upstream
             /\ [up[r] EXCEPT !.st = st].pub = up[r].pub
             /\ [up[r] EXCEPT !.st = st].alias = up[r].alias
             /\ [up[r] EXCEPT !.st = st].st = st
  BY <1>0 DEF Upstream
<1>5. CASE PublisherFails(r) \/ PublisherFinishes(r)
  <2>1. PICK st \in {"done", "failed"} : up' = [up EXCEPT ![r] = [@ EXCEPT !.st = st]]
    BY <1>5 DEF PublisherFails, PublisherFinishes
  <2>2. UNCHANGED pc
    BY <1>5 DEF PublisherFails, PublisherFinishes, taskVars
  <2> QED BY <1>4, <2>1, <2>2
<1>6. CASE StopReading(r)
  <2>1. UNCHANGED <<up, pc>> /\ up = [up EXCEPT ![r] = up[r]]
    BY <1>6 DEF StopReading, taskVars, Types
  <2> QED BY <1>0, <2>1
<1>7. ASSUME NEW a \in Alias, PublisherAccepts(r, a) PROVE UNCHANGED pc
  BY <1>7 DEF PublisherAccepts, taskVars
<1> QED BY <1>3, <1>5, <1>6, <1>7 DEF Peer

\* The alias is set once; program counters never return to before the upstream.
LEMMA UpstreamStep ==
    ASSUME ControlInv, UpstreamInv, [Next]_vars
    PROVE  UpstreamInv'
<1> USE DEF UpstreamInv, Upstream, Goto, taskVars, stateVars
<1> Types
  BY DEF ControlInv
<1>1. ASSUME UNCHANGED <<up, pc>> PROVE UpstreamInv'
  BY <1>1
<1>2. ASSUME NEW r \in Req, NEW l \in PcValues, UNCHANGED up, pc' = [pc EXCEPT ![r] = l],
             l \in {"idle", "filter", "check", "lookup"} => up[r].st = "none"
      PROVE  UpstreamInv'
  BY <1>2 DEF Types
<1>3. ASSUME NEW s \in Session, Connection(s) PROVE UpstreamInv'
  BY <1>1, <1>3 DEF Connection, Connect, LoseLink, LoopBreaks, RemoveSession
<1>4. ASSUME NEW p \in Publisher, NEW n \in Namespace, PublishNamespace(p, n)
      PROVE  UpstreamInv'
  BY <1>1, <1>4 DEF PublishNamespace, ReceivePublishNamespace, RegisterNamespace
<1>5. ASSUME NEW s \in Subscriber, NEW r \in Req, NEW t \in Track, NEW f \in Form,
             ReceiveSubscribe(s, r, t, f)
      PROVE  UpstreamInv'
  BY <1>2, <1>5 DEF ReceiveSubscribe, PcValues
<1>6. ASSUME NEW r \in Req, HandleSubscribe(r) PROVE UpstreamInv'
  <2>1. CASE FoundPublisher(r)
    BY <2>1 DEF FoundPublisher, Types
  <2>2. CASE RejectFilter(r) \/ RejectName(r) \/ AcquireTrackLock(r) \/ Aggregate(r)
             \/ ForwardAggregatedOk(r) \/ NothingToJoin(r) \/ NoPublisher(r) \/ Reject(r)
    BY <1>2, <2>2 DEF RejectFilter, RejectName, AcquireTrackLock, Aggregate,
                      ForwardAggregatedOk, NothingToJoin, NoPublisher, Reject, PcValues, Locked
  <2>3. CASE UpstreamSubscribeFails(r) \/ RecordSubscription(r) \/ UpstreamEnds(r)
    BY <1>2, <2>3 DEF UpstreamSubscribeFails, RecordSubscription, UpstreamEnds, PcValues
  <2>4. CASE ForwardOk(r)
    BY <1>2, <2>4 DEF ForwardOk, PcValues
  <2>5. CASE FindSubscriberRequests(r)
    BY <1>2, <2>5 DEF FindSubscriberRequests, PcValues
  <2>6. ASSUME NEW q \in Req, ForwardPublishDone(r, q) PROVE UpstreamInv'
    BY <1>2, <2>6 DEF ForwardPublishDone, PcValues
  <2> QED BY <1>6, <2>1, <2>2, <2>3, <2>4, <2>5, <2>6 DEF HandleSubscribe
<1>7. ASSUME NEW r \in Req, Peer(r) PROVE UpstreamInv'
  <2>1. PICK u \in Upstream :
            /\ UNCHANGED pc /\ up' = [up EXCEPT ![r] = u]
            /\ u.alias = up[r].alias \/ up[r].st = "sent"
            /\ u.st \in {"none", "sent"} => u = up[r]
    BY <1>7, PeerUpstream
  <2>2. up[r].st = "none" => u.st = "none"
    BY <1>7, <2>1 DEF Peer, PublisherAccepts, PublisherFails, PublisherFinishes, StopReading, Types
  <2> QED BY <2>1, <2>2 DEF Types
<1>8. CASE UNCHANGED vars
  BY <1>1, <1>8 DEF vars
<1> QED BY <1>3, <1>4, <1>5, <1>6, <1>7, <1>8 DEF Next

\* An upstream that has an alias keeps its publisher and its alias.
LEMMA UpstreamStable ==
    ASSUME ControlInv, UpstreamInv, [Next]_vars, NEW u \in Req, up[u].alias # None
    PROVE  up'[u].pub = up[u].pub /\ up'[u].alias = up[u].alias
<1> USE DEF UpstreamInv, Upstream, taskVars, stateVars
<1> Types
  BY DEF ControlInv
<1>1. ASSUME NEW r \in Req, HandleSubscribe(r) PROVE UNCHANGED up \/ FoundPublisher(r)
  BY <1>1 DEF HandleSubscribe, RejectFilter, RejectName, AcquireTrackLock, Aggregate,
       ForwardAggregatedOk, NothingToJoin, NoPublisher, Reject, UpstreamSubscribeFails,
       RecordSubscription, ForwardOk, UpstreamEnds, FindSubscriberRequests, ForwardPublishDone
<1>2. ASSUME NEW r \in Req, FoundPublisher(r)
      PROVE  up'[u].pub = up[u].pub /\ up'[u].alias = up[u].alias
  BY <1>2 DEF FoundPublisher, Types
<1>3. ASSUME NEW r \in Req, Peer(r)
      PROVE  up'[u].pub = up[u].pub /\ up'[u].alias = up[u].alias
  BY <1>3, PeerUpstream DEF Types
<1>4. ASSUME \/ \E s \in Session : Connection(s)
             \/ \E p \in Publisher, n \in Namespace : PublishNamespace(p, n)
             \/ \E s \in Subscriber, r \in Req, t \in Track, f \in Form :
                    ReceiveSubscribe(s, r, t, f)
             \/ UNCHANGED vars
      PROVE  UNCHANGED up
  BY <1>4 DEF Connection, Connect, LoseLink, LoopBreaks, RemoveSession, PublishNamespace,
       ReceivePublishNamespace, RegisterNamespace, ReceiveSubscribe, vars
<1> QED BY <1>1, <1>2, <1>3, <1>4 DEF Next

\* Only the task that aggregates or records, or a removal, changes who is
\* subscribed; nothing moves a task back to where it is not subscribed yet.
LEMMA MemberFrame ==
    ASSUME ControlInv, UpstreamInv, MemberInv, [Next]_vars,
           UNCHANGED <<subscriptions, ok>>,
           \A t \in Track : \A r \in Subscribers(t) :
              /\ req'[r] = req[r]
              /\ pc'[r] \in {"forwardAggregated", "forwardOk", "awaitDone", "notify", "done"}
    PROVE  MemberInv'
<1>1. ASSUME NEW t \in Track, Subscribed(t), NEW u, Routes(u, t) PROVE Routes(u, t)'
  <2>1. subscriptions[t] \in Subscription /\ u \in Req
    BY <1>1 DEF ControlInv, Types, Subscribed, Routes
  <2>2. up[u].alias # None
    BY <1>1, <2>1, NoneAssumption DEF Routes, Subscription
  <2> QED BY <1>1, <2>1, <2>2, UpstreamStable DEF Routes
<1> QED BY <1>1 DEF MemberInv, Subscribed, Subscribers

\* A task that moves on from a step after it was added, or before.
LEMMA MemberMoves ==
    ASSUME ControlInv, UpstreamInv, MemberInv, [Next]_vars, UNCHANGED <<subscriptions, ok>>,
           NEW r \in Req, NEW l, pc' = [pc EXCEPT ![r] = l],
           \A q \in Req : q # r => req'[q] = req[q],
           \/ pc[r] \in {"idle", "filter", "check", "lookup", "reject", "awaitOk"}
           \/ /\ l \in {"awaitDone", "notify", "done"} /\ req' = req
    PROVE  MemberInv'
<1>1. ASSUME NEW t \in Track, NEW q \in Subscribers(t)
      PROVE  /\ req'[q] = req[q]
             /\ pc'[q] \in {"forwardAggregated", "forwardOk", "awaitDone", "notify", "done"}
  <2>1. /\ q \in Req
        /\ pc[q] \in {"forwardAggregated", "forwardOk", "awaitDone", "notify", "done"}
    BY <1>1 DEF MemberInv, Subscribers, ControlInv, Types, Subscribed, Subscription
  <2> QED BY <1>1, <2>1 DEF ControlInv, Types
<1> QED BY <1>1, MemberFrame

\* A task that joins the subscription of its track.
LEMMA MemberAggregate ==
    ASSUME ControlInv, UpstreamInv, MemberInv, NEW r \in Req, Aggregate(r)
    PROVE  MemberInv'
<1>0. PICK t0 \in Track : t0 = req[r].track
  BY DEF Aggregate, ControlInv, TaskInv, Subscribe
<1>1. /\ Subscribed(t0) /\ subscriptions[t0] \in Subscription
      /\ Routes(subscriptions[t0].ok, t0)
      /\ pc[r] = "check"
  BY <1>0 DEF Aggregate, ControlInv, Types, Subscribed, MemberInv
<1>2. /\ UNCHANGED <<up, req>>
      /\ ok' = [ok EXCEPT ![r] = subscriptions[t0].ok]
      /\ pc' = [pc EXCEPT ![r] = "forwardAggregated"]
      /\ subscriptions' = [subscriptions EXCEPT ![t0] =
             [subscriptions[t0] EXCEPT !.subscribers = subscriptions[t0].subscribers \cup {r}]]
  BY <1>0 DEF Aggregate, Goto
<1>3. \A s \in SUBSET Req :
         LET e == [subscriptions[t0] EXCEPT !.subscribers = s]
         IN  /\ e \in Subscription /\ e.subscribers = s /\ e.ok = subscriptions[t0].ok
             /\ e.publisher = subscriptions[t0].publisher /\ e.alias = subscriptions[t0].alias
  BY <1>1 DEF Subscription
<1>4. PICK e \in Subscription :
         /\ subscriptions' = [subscriptions EXCEPT ![t0] = e]
         /\ e.subscribers = Subscribers(t0) \cup {r} /\ e.ok = subscriptions[t0].ok
         /\ e.publisher = subscriptions[t0].publisher /\ e.alias = subscriptions[t0].alias
  <2>1. Subscribers(t0) \cup {r} \in SUBSET Req
    BY <1>1 DEF Subscribers, Subscription
  <2>2. subscriptions[t0].subscribers = Subscribers(t0)
    BY <1>1 DEF Subscribers
  <2> QED BY <1>2, <1>3, <2>1, <2>2
<1>5. \A u : \A t \in Track : Routes(u, t) => Routes(u, t)'
  BY <1>1, <1>2, <1>4 DEF Routes, ControlInv, Types
<1>6. \A t \in Track : r \notin Subscribers(t)
  BY <1>1 DEF MemberInv, Subscribers
<1>7. \A t \in Track : Subscribed(t)' => Subscribed(t)
  BY <1>1, <1>4 DEF Subscribed, ControlInv, Types
<1>8. Subscribed(t0)' /\ Subscribers(t0)' = Subscribers(t0) \cup {r}
  <2>1. subscriptions'[t0] = e
    BY <1>1, <1>4 DEF ControlInv, Types
  <2>2. e # None
    BY NoneAssumption
  <2> QED BY <1>4, <2>1, <2>2 DEF Subscribed, Subscribers
<1>9. \A t \in Track \ {t0} : Subscribers(t)' = Subscribers(t) /\ subscriptions'[t] = subscriptions[t]
  BY <1>1, <1>4 DEF Subscribed, Subscribers, ControlInv, Types
<1>10. subscriptions'[t0].ok = subscriptions[t0].ok
  BY <1>1, <1>4 DEF ControlInv, Types
<1>11. ASSUME NEW t \in Track, Subscribed(t)' PROVE Routes(subscriptions[t].ok, t)'
  BY <1>5, <1>7, <1>9, <1>10, <1>11 DEF MemberInv
<1>12. ASSUME NEW t \in Track, Subscribed(t)', NEW q \in Subscribers(t)'
       PROVE  /\ req'[q].track = t
              /\ pc'[q] \in {"forwardAggregated", "forwardOk", "awaitDone", "notify", "done"}
              /\ Routes(ok[q], t)'
  <2>1. CASE q = r
    <3>1. t = t0
      BY <1>6, <1>8, <1>9, <1>12, <2>1
    <3>2. ok'[r] = subscriptions[t0].ok /\ pc'[r] = "forwardAggregated" /\ req'[r] = req[r]
      BY <1>2 DEF ControlInv, Types
    <3> QED BY <1>0, <1>1, <1>5, <2>1, <3>1, <3>2 DEF Routes
  <2>2. CASE q # r
    <3>1. q \in Subscribers(t)
      BY <1>8, <1>9, <1>12, <2>2
    <3>0. Subscribed(t)
      BY <1>7, <1>12
    <3>2. /\ q \in Req /\ req[q].track = t /\ Routes(ok[q], t)
          /\ pc[q] \in {"forwardAggregated", "forwardOk", "awaitDone", "notify", "done"}
      BY <3>0, <3>1 DEF MemberInv, Subscribers, ControlInv, Types, Subscription, Subscribed
    <3>3. ok'[q] = ok[q] /\ pc'[q] = pc[q] /\ req'[q] = req[q]
      BY <1>2, <2>2, <3>2 DEF ControlInv, Types
    <3> QED BY <1>5, <3>2, <3>3 DEF Routes
  <2> QED BY <2>1, <2>2
<1> QED BY <1>11, <1>12 DEF MemberInv

\* A task that records the upstream it opened.
LEMMA MemberRecord ==
    ASSUME ControlInv, UpstreamInv, MemberInv, NEW r \in Req, RecordSubscription(r)
    PROVE  MemberInv'
<1>0. PICK t0 \in Track : t0 = req[r].track
  BY DEF RecordSubscription, ControlInv, TaskInv, Subscribe
<1>1. /\ ~Subscribed(t0) /\ pc[r] = "awaitOk"
      /\ up[r].pub \in Session /\ up[r].alias \in Alias
  BY <1>0 DEF RecordSubscription, Answered, ControlInv, Types, TaskInv, AbsenceInv, Opening, Upstream
<1>2. /\ UNCHANGED <<up, req>>
      /\ ok' = [ok EXCEPT ![r] = r]
      /\ pc' = [pc EXCEPT ![r] = "forwardOk"]
  BY DEF RecordSubscription, Goto
<1>3. PICK e \in Subscription :
         /\ subscriptions' = [subscriptions EXCEPT ![t0] = e]
         /\ e.subscribers = {r} /\ e.ok = r /\ e.publisher = up[r].pub /\ e.alias = up[r].alias
  <2> DEFINE empty == [publisher |-> up[r].pub, alias |-> up[r].alias, ok |-> r,
                       subscribers |-> {}]
             entry == IF Subscribed(t0) THEN subscriptions[t0] ELSE empty
  <2>1. subscriptions' = [subscriptions EXCEPT ![t0] = [entry EXCEPT !.subscribers = @ \cup {r}]]
    BY <1>0 DEF RecordSubscription
  <2>2. entry = empty
    BY <1>1
  <2>3. LET f == [empty EXCEPT !.subscribers = @ \cup {r}]
        IN  /\ f \in Subscription /\ f.subscribers = {r} /\ f.ok = r
            /\ f.publisher = up[r].pub /\ f.alias = up[r].alias
    BY <1>1 DEF Subscription
  <2> HIDE DEF entry, empty
  <2> QED BY <2>1, <2>2, <2>3
<1>4. /\ subscriptions'[t0] = e /\ e # None
      /\ \A t \in Track \ {t0} : subscriptions'[t] = subscriptions[t]
  BY <1>3, NoneAssumption DEF ControlInv, Types
<1>5. /\ Subscribed(t0)' /\ Subscribers(t0)' = {r} /\ Routes(r, t0)'
      /\ \A t \in Track \ {t0} : /\ Subscribed(t)' => Subscribed(t)
                                  /\ Subscribers(t)' = Subscribers(t)
                                  /\ \A u : Routes(u, t) => Routes(u, t)'
  BY <1>2, <1>3, <1>4 DEF Subscribed, Subscribers, Routes
<1>6. \A t \in Track : r \notin Subscribers(t)
  BY <1>1 DEF MemberInv, Subscribers
<1>7. ASSUME NEW t \in Track, Subscribed(t)' PROVE Routes(subscriptions[t].ok, t)'
  BY <1>3, <1>4, <1>5, <1>7 DEF MemberInv
<1>8. ASSUME NEW t \in Track, Subscribed(t)', NEW q \in Subscribers(t)'
      PROVE  /\ req'[q].track = t
             /\ pc'[q] \in {"forwardAggregated", "forwardOk", "awaitDone", "notify", "done"}
             /\ Routes(ok[q], t)'
  <2>1. CASE t = t0
    <3>1. q = r /\ ok'[r] = r /\ pc'[r] = "forwardOk" /\ req'[r].track = t0
      BY <1>0, <1>2, <1>5, <1>8, <2>1 DEF ControlInv, Types
    <3> QED BY <1>5, <2>1, <3>1 DEF Routes
  <2>2. CASE t # t0
    <3>0. q \in Subscribers(t) /\ Subscribed(t) /\ q # r
      BY <1>5, <1>6, <1>8, <2>2
    <3>1. /\ q \in Req /\ req[q].track = t /\ Routes(ok[q], t)
          /\ pc[q] \in {"forwardAggregated", "forwardOk", "awaitDone", "notify", "done"}
      BY <3>0 DEF MemberInv, Subscribers, ControlInv, Types, Subscription, Subscribed
    <3>2. ok'[q] = ok[q] /\ pc'[q] = pc[q] /\ req'[q] = req[q]
      BY <1>2, <3>0, <3>1 DEF ControlInv, Types
    <3>3. UNCHANGED up /\ subscriptions'[t] = subscriptions[t]
      BY <1>2, <1>4, <2>2
    <3> QED BY <3>1, <3>2, <3>3 DEF Routes
  <2> QED BY <2>1, <2>2
<1> QED BY <1>7, <1>8 DEF MemberInv

\* What is left of the subscriptions when a session is removed.
LEMMA PurgedKeeps ==
    ASSUME Types, NEW s, NEW t \in Track, Purged(s)[t] # None
    PROVE  /\ Subscribed(t) /\ subscriptions[t].publisher # s
           /\ Purged(s)[t].subscribers = {r \in subscriptions[t].subscribers : req[r].session # s}
           /\ Purged(s)[t].publisher = subscriptions[t].publisher
           /\ Purged(s)[t].alias = subscriptions[t].alias
           /\ Purged(s)[t].ok = subscriptions[t].ok
<1>1. Subscribed(t) /\ subscriptions[t].publisher # s
  BY DEF Purged
<1>2. subscriptions[t] \in Subscription
  BY <1>1 DEF Types, Subscribed
<1>3. \A left : LET e == [subscriptions[t] EXCEPT !.subscribers = left]
                IN  /\ e.subscribers = left /\ e.ok = subscriptions[t].ok
                    /\ e.publisher = subscriptions[t].publisher
                    /\ e.alias = subscriptions[t].alias
  BY <1>2 DEF Subscription
<1>4. Purged(s)[t] = [subscriptions[t] EXCEPT
         !.subscribers = {r \in subscriptions[t].subscribers : req[r].session # s}]
  BY <1>1 DEF Purged
<1> QED BY <1>1, <1>3, <1>4

\* A removal leaves members and routes of the subscriptions it leaves.
LEMMA MemberRemove ==
    ASSUME ControlInv, MemberInv, NEW s \in Session, RemoveSession(s)
    PROVE  MemberInv'
<1>1. subscriptions' = Purged(s) /\ UNCHANGED <<up, req, pc, ok>>
  BY DEF RemoveSession, taskVars
<1>2. ASSUME NEW t \in Track, Subscribed(t)'
      PROVE  /\ Subscribed(t) /\ Subscribers(t)' \subseteq Subscribers(t)
             /\ subscriptions'[t].ok = subscriptions[t].ok
             /\ \A u : Routes(u, t) => Routes(u, t)'
  <2>1. Purged(s)[t] # None
    BY <1>1, <1>2 DEF Subscribed
  <2> QED BY <1>1, <1>2, <2>1, PurgedKeeps DEF ControlInv, Subscribers, Routes, Subscribed
<1>3. ASSUME NEW t \in Track, Subscribed(t)' PROVE Routes(subscriptions[t].ok, t)'
  BY <1>2, <1>3 DEF MemberInv
<1>4. ASSUME NEW t \in Track, Subscribed(t)', NEW q \in Subscribers(t)'
      PROVE  /\ req'[q].track = t
             /\ pc'[q] \in {"forwardAggregated", "forwardOk", "awaitDone", "notify", "done"}
             /\ Routes(ok[q], t)'
  <2>1. /\ req[q].track = t /\ Routes(ok[q], t)
        /\ pc[q] \in {"forwardAggregated", "forwardOk", "awaitDone", "notify", "done"}
    BY <1>2, <1>4 DEF MemberInv
  <2> QED BY <1>1, <1>2, <1>4, <2>1 DEF Routes
<1> QED BY <1>3, <1>4 DEF MemberInv

\* Every step keeps members and routes together.
LEMMA MemberStep ==
    ASSUME ControlInv, UpstreamInv, MemberInv, [Next]_vars
    PROVE  MemberInv'
<1>1. ASSUME UNCHANGED <<subscriptions, ok, req, pc>> PROVE MemberInv'
  BY <1>1, MemberFrame DEF MemberInv, Subscribers
<1>2. ASSUME NEW s \in Session, Connection(s) PROVE MemberInv'
  BY <1>1, <1>2, MemberRemove
     DEF Connection, Connect, LoseLink, LoopBreaks, taskVars, stateVars
<1>3. ASSUME NEW p \in Publisher, NEW n \in Namespace, PublishNamespace(p, n)
      PROVE  MemberInv'
  BY <1>1, <1>3 DEF PublishNamespace, ReceivePublishNamespace, RegisterNamespace, taskVars,
                    stateVars
<1>4. ASSUME NEW s \in Subscriber, NEW r \in Req, NEW t \in Track, NEW f \in Form,
             ReceiveSubscribe(s, r, t, f)
      PROVE  MemberInv'
  <2>1. /\ UNCHANGED <<subscriptions, ok>> /\ pc' = [pc EXCEPT ![r] = "filter"]
        /\ req' = [req EXCEPT ![r] = [session |-> s, track |-> t, form |-> f]]
        /\ pc[r] = "idle"
    BY <1>4 DEF ReceiveSubscribe, Goto, stateVars
  <2>2. \A q \in Req : q # r => req'[q] = req[q]
    BY <2>1 DEF ControlInv, Types
  <2> QED BY <2>1, <2>2, MemberMoves
<1>5. ASSUME NEW r \in Req, NEW l, UNCHANGED <<subscriptions, ok, req>>,
             pc' = [pc EXCEPT ![r] = l],
             \/ pc[r] \in {"filter", "check", "lookup", "reject", "awaitOk"}
             \/ l \in {"awaitDone", "notify", "done"}
      PROVE  MemberInv'
  BY <1>5, MemberMoves
<1>6. ASSUME NEW r \in Req, HandleSubscribe(r) PROVE MemberInv'
  <2>1. CASE RejectFilter(r) \/ RejectName(r) \/ AcquireTrackLock(r) \/ ForwardAggregatedOk(r)
             \/ NothingToJoin(r)
    BY <1>5, <2>1 DEF RejectFilter, RejectName, AcquireTrackLock, ForwardAggregatedOk,
                      NothingToJoin, Goto, stateVars
  <2>2. CASE FoundPublisher(r) \/ NoPublisher(r) \/ Reject(r) \/ UpstreamSubscribeFails(r)
    BY <1>5, <2>2 DEF FoundPublisher, NoPublisher, Reject, UpstreamSubscribeFails, Goto, stateVars
  <2>3. CASE ForwardOk(r) \/ UpstreamEnds(r) \/ FindSubscriberRequests(r)
    BY <1>5, <2>3 DEF ForwardOk, UpstreamEnds, FindSubscriberRequests, Goto, stateVars
  <2>4. ASSUME NEW q \in Req, ForwardPublishDone(r, q) PROVE MemberInv'
    BY <1>5, <2>4 DEF ForwardPublishDone, Goto, stateVars
  <2> QED BY <1>6, <2>1, <2>2, <2>3, <2>4, MemberAggregate, MemberRecord DEF HandleSubscribe
<1>7. ASSUME NEW r \in Req, Peer(r) PROVE MemberInv'
  BY <1>1, <1>7 DEF Peer, PublisherAccepts, PublisherFails, PublisherFinishes, StopReading,
                    taskVars, stateVars
<1>8. CASE UNCHANGED vars
  BY <1>1, <1>8 DEF vars
<1> QED BY <1>2, <1>3, <1>4, <1>6, <1>7, <1>8 DEF Next

\* What is on a stream after a write.
LEMMA WriteAppends ==
    ASSUME sent \in [Req -> Seq(Message)], NEW r \in Req, NEW m \in Message, Write(r, m)
    PROVE  /\ \A q \in Req : q # r => sent'[q] = sent[q]
           /\ \A i \in DOMAIN sent'[r] :
                 \/ i \in DOMAIN sent[r] /\ sent'[r][i] = sent[r][i]
                 \/ sent'[r][i] = m
BY DEF Write

\* Nothing else is told than the OK a task holds when it moves past the write.
LEMMA SentStep ==
    ASSUME ControlInv, SentInv, [Next]_vars
    PROVE  SentInv'
<1> DEFINE After == {"awaitDone", "notify", "done"}
<1> Types
  BY DEF ControlInv
<1>1. ASSUME UNCHANGED sent, \A q \in Req : pc[q] \in After => pc'[q] \in After /\ ok'[q] = ok[q]
      PROVE  SentInv'
  BY <1>1 DEF SentInv
<1>2. ASSUME NEW r \in Req, NEW l, UNCHANGED sent, pc' = [pc EXCEPT ![r] = l],
             \A q \in Req \ {r} : ok'[q] = ok[q],
             \/ pc[r] \notin After
             \/ l \in After /\ ok'[r] = ok[r]
      PROVE  SentInv'
  <2>1. \A q \in Req : pc[q] \in After => pc'[q] \in After /\ ok'[q] = ok[q]
    BY <1>2 DEF Types
  <2> QED BY <1>1, <1>2, <2>1
<1>3. ASSUME NEW r \in Req, NEW l \in After, UNCHANGED ok, pc' = [pc EXCEPT ![r] = l],
             NEW q \in Req, NEW m \in Message, Write(q, m),
             m.type = "SUBSCRIBE_OK" => q = r /\ m.via = ok[r]
      PROVE  SentInv'
  <2>1. ASSUME NEW p \in Req, NEW i \in DOMAIN sent'[p], sent'[p][i].type = "SUBSCRIBE_OK"
        PROVE  sent'[p][i].via = ok'[p] /\ pc'[p] \in After
    <3>1. CASE i \in DOMAIN sent[p] /\ sent'[p][i] = sent[p][i]
      <4>1. sent[p][i].via = ok[p] /\ pc[p] \in After
        BY <2>1, <3>1 DEF SentInv
      <4>2. pc'[p] \in After
        BY <1>3, <4>1 DEF Types
      <4> QED BY <1>3, <3>1, <4>1, <4>2
    <3>2. CASE p = q /\ sent'[p][i] = m
      BY <1>3, <2>1, <3>2 DEF Types
    <3> QED BY <1>3, <2>1, <3>1, <3>2, WriteAppends DEF Types
  <2> QED BY <2>1 DEF SentInv
<1> HIDE DEF After
<1>4. ASSUME \/ \E s \in Session : Connection(s)
             \/ \E p \in Publisher, n \in Namespace : PublishNamespace(p, n)
             \/ \E r \in Req : Peer(r)
             \/ UNCHANGED vars
      PROVE  SentInv'
  <2>1. UNCHANGED <<sent, pc, ok>>
    BY <1>4 DEF Connection, Connect, LoseLink, LoopBreaks, RemoveSession, PublishNamespace,
         ReceivePublishNamespace, RegisterNamespace, Peer, PublisherAccepts, PublisherFails,
         PublisherFinishes, StopReading, vars, taskVars
  <2> QED BY <1>1, <2>1
<1>5. ASSUME NEW s \in Subscriber, NEW r \in Req, NEW t \in Track, NEW f \in Form,
             ReceiveSubscribe(s, r, t, f)
      PROVE  SentInv'
  BY <1>2, <1>5 DEF ReceiveSubscribe, Goto, After
<1>6. ASSUME NEW r \in Req, HandleSubscribe(r) PROVE SentInv'
  <2>1. CASE RejectFilter(r) \/ Reject(r)
    BY <1>3, <2>1, MessageType DEF RejectFilter, Reject, Goto, After, Error
  <2>2. CASE RejectName(r) \/ AcquireTrackLock(r) \/ NothingToJoin(r)
             \/ FoundPublisher(r) \/ NoPublisher(r) \/ UpstreamSubscribeFails(r)
    BY <1>2, <2>2 DEF RejectName, AcquireTrackLock, NothingToJoin, FoundPublisher,
         NoPublisher, UpstreamSubscribeFails, Goto, After
  <2>3. CASE Aggregate(r) \/ RecordSubscription(r)
    <3>1. pc[r] \notin After /\ UNCHANGED sent /\ \A q \in Req \ {r} : ok'[q] = ok[q]
      BY <2>3 DEF Aggregate, RecordSubscription, After, Types
    <3>2. \E l : pc' = [pc EXCEPT ![r] = l]
      BY <2>3 DEF Aggregate, RecordSubscription, Goto
    <3> QED BY <1>2, <3>1, <3>2
  <2>4. CASE ForwardAggregatedOk(r) \/ ForwardOk(r)
    <3>1. ok[r] \in Req
      BY <2>4 DEF ForwardAggregatedOk, ForwardOk, ControlInv, TaskInv
    <3>2. Ok(ok[r]) \in Message /\ Ok(ok[r]).via = ok[r]
      BY <3>1, MessageType DEF Ok
    <3>3. \E l \in After : pc' = [pc EXCEPT ![r] = l]
      BY <2>4 DEF ForwardAggregatedOk, ForwardOk, Goto, After
    <3> QED BY <1>3, <2>4, <3>2, <3>3 DEF ForwardAggregatedOk, ForwardOk
  <2>5. CASE UpstreamEnds(r) \/ FindSubscriberRequests(r)
    <3>1. UNCHANGED <<sent, ok>> /\ \E l \in After : pc' = [pc EXCEPT ![r] = l]
      BY <2>5 DEF UpstreamEnds, FindSubscriberRequests, Goto, After
    <3> QED BY <1>2, <3>1
  <2>6. ASSUME NEW q \in Req, ForwardPublishDone(r, q) PROVE SentInv'
    <3>1. UNCHANGED ok /\ Write(q, Done(r)) /\ \E l \in After : pc' = [pc EXCEPT ![r] = l]
      BY <2>6 DEF ForwardPublishDone, Goto, After
    <3>2. Done(r) \in Message /\ Done(r).type # "SUBSCRIBE_OK"
      BY MessageType DEF Done
    <3> QED BY <1>3, <3>1, <3>2
  <2> QED BY <1>6, <2>1, <2>2, <2>3, <2>4, <2>5, <2>6 DEF HandleSubscribe
<1> QED BY <1>4, <1>5, <1>6 DEF Next

LEMMA ToldInit == Init => ToldInv
BY ControlInit
   DEF Init, ToldInv, UpstreamInv, MemberInv, SentInv, NoUpstream, Subscribed

LEMMA ToldStep == ToldInv /\ [Next]_vars => ToldInv'
BY ControlStep, UpstreamStep, MemberStep, SentStep DEF ToldInv

THEOREM ToldInvariant == Spec => []ToldInv
BY ToldInit, ToldStep, PTL DEF Spec

\* The track alias a subscriber was told is the one by which its data is routed.
THEOREM ToldIsRouted == Spec => []ToldWhatIsRouted
<1>1. ToldInv => ToldWhatIsRouted
  BY DEF ToldInv, ToldWhatIsRouted, MemberInv, SentInv, Routes, Subscribers, ControlInv,
         Types, Subscription, Subscribed
<1> QED BY <1>1, ToldInvariant, PTL

----------------------------------------------------------------------------
(* Who leaves a subscription, and when *)

\* A subscription changes when a task joins or records it, and when a session is
\* removed; every other step leaves all of them alone.
LEMMA WhatChangesSubscriptions ==
    ASSUME [Next]_vars
    PROVE  \/ UNCHANGED subscriptions
           \/ \E s \in Session : RemoveSession(s)
           \/ \E r \in Req : Aggregate(r) \/ RecordSubscription(r)
<1> USE DEF stateVars
<1>1. ASSUME NEW s \in Session, Connection(s) PROVE UNCHANGED subscriptions \/ RemoveSession(s)
  BY <1>1 DEF Connection, Connect, LoseLink, LoopBreaks
<1>2. ASSUME NEW r \in Req, HandleSubscribe(r)
      PROVE  UNCHANGED subscriptions \/ Aggregate(r) \/ RecordSubscription(r)
  BY <1>2 DEF HandleSubscribe, RejectFilter, RejectName, AcquireTrackLock, ForwardAggregatedOk,
       NothingToJoin, FoundPublisher, NoPublisher, Reject, UpstreamSubscribeFails, ForwardOk,
       UpstreamEnds, FindSubscriberRequests, ForwardPublishDone
<1>3. ASSUME \/ \E p \in Publisher, n \in Namespace : PublishNamespace(p, n)
             \/ \E s \in Subscriber, r \in Req, t \in Track, f \in Form :
                    ReceiveSubscribe(s, r, t, f)
             \/ \E r \in Req : Peer(r)
             \/ UNCHANGED vars
      PROVE  UNCHANGED subscriptions
  BY <1>3 DEF PublishNamespace, ReceivePublishNamespace, RegisterNamespace, ReceiveSubscribe,
       Peer, PublisherAccepts, PublisherFails, PublisherFinishes, StopReading, vars
<1> QED BY <1>1, <1>2, <1>3 DEF Next

\* Joining and recording add a subscriber and take nobody away.
LEMMA JoinersAdd ==
    ASSUME ControlInv, NEW r \in Req, Aggregate(r) \/ RecordSubscription(r), NEW t \in Track
    PROVE  /\ Subscribers(t) \subseteq Subscribers(t)'
           /\ \/ subscriptions'[t] = subscriptions[t]
              \/ r \in Subscribers(t)'
<1>0. PICK t0 \in Track : t0 = req[r].track
  BY DEF Aggregate, RecordSubscription, ControlInv, TaskInv, Subscribe
<1>1. PICK e : /\ subscriptions' = [subscriptions EXCEPT ![t0] = e]
               /\ e # None
               /\ e.subscribers = Subscribers(t0) \cup {r}
  <2>1. CASE Aggregate(r)
    <3>1. subscriptions[t0] \in Subscription /\ Subscribed(t0)
      BY <1>0, <2>1 DEF Aggregate, ControlInv, Types, Subscribed
    <3> DEFINE e == [subscriptions[t0] EXCEPT
                        !.subscribers = subscriptions[t0].subscribers \cup {r}]
    <3>2. subscriptions' = [subscriptions EXCEPT ![t0] = e]
      BY <1>0, <2>1 DEF Aggregate
    <3>3. e \in Subscription /\ e.subscribers = Subscribers(t0) \cup {r}
      BY <3>1 DEF Subscription, Subscribers
    <3> HIDE DEF e
    <3> QED BY <3>2, <3>3, NoneAssumption
  <2>2. CASE RecordSubscription(r)
    <3>1. /\ ~Subscribed(t0) /\ up[r].pub \in Session /\ up[r].alias \in Alias
      BY <1>0, <2>2 DEF RecordSubscription, Answered, ControlInv, Types, TaskInv, AbsenceInv,
                        Opening, Upstream
    <3> DEFINE empty == [publisher |-> up[r].pub, alias |-> up[r].alias, ok |-> r,
                         subscribers |-> {}]
               entry == IF Subscribed(t0) THEN subscriptions[t0] ELSE empty
               e == [empty EXCEPT !.subscribers = @ \cup {r}]
    <3>2. subscriptions' = [subscriptions EXCEPT ![t0] = [entry EXCEPT !.subscribers = @ \cup {r}]]
      BY <1>0, <2>2 DEF RecordSubscription
    <3>3. entry = empty
      BY <3>1
    <3>4. e \in Subscription /\ e.subscribers = {r}
      BY <3>1 DEF Subscription
    <3>5. Subscribers(t0) = {}
      BY <3>1 DEF Subscribers
    <3>6. subscriptions' = [subscriptions EXCEPT ![t0] = e]
      <4> HIDE DEF entry, empty
      <4> QED BY <3>2, <3>3
    <3> HIDE DEF e
    <3> QED BY <3>4, <3>5, <3>6, NoneAssumption
  <2> QED BY <2>1, <2>2
<1>2. subscriptions'[t0] = e /\ \A u \in Track \ {t0} : subscriptions'[u] = subscriptions[u]
  BY <1>1 DEF ControlInv, Types
<1>3. CASE t = t0
  BY <1>1, <1>2, <1>3 DEF Subscribers, Subscribed
<1>4. CASE t # t0
  BY <1>2, <1>4 DEF Subscribers, Subscribed
<1> QED BY <1>3, <1>4

\* A subscriber is served until its own session or the publisher's is removed,
\* whoever else leaves, the session that opened the upstream included.
THEOREM LeavesAlone == Spec => LeavesWithItsSession
<1> DEFINE Leaves ==
      \A t \in Track : \A r \in Subscribers(t) \ Subscribers(t)' :
          \/ loop[req[r].session] # "gone" /\ loop'[req[r].session] = "gone"
          \/ loop[subscriptions[t].publisher] # "gone" /\ loop'[subscriptions[t].publisher] = "gone"
<1>1. ToldInv /\ [Next]_vars => [Leaves]_vars
  <2> SUFFICES ASSUME ToldInv, [Next]_vars, NEW t \in Track, NEW r \in Subscribers(t),
                      r \notin Subscribers(t)'
               PROVE  \/ loop[req[r].session] # "gone" /\ loop'[req[r].session] = "gone"
                      \/ /\ loop[subscriptions[t].publisher] # "gone"
                         /\ loop'[subscriptions[t].publisher] = "gone"
    OBVIOUS
  <2> ControlInv /\ Types
    BY DEF ToldInv, ControlInv
  <2>1. subscriptions'[t] # subscriptions[t]
    BY DEF Subscribers, Subscribed
  <2>2. PICK s \in Session : RemoveSession(s)
    BY <2>1, WhatChangesSubscriptions, JoinersAdd
  <2>3. loop[s] = "cleanup" /\ loop'[s] = "gone" /\ subscriptions' = Purged(s)
    BY <2>2 DEF RemoveSession, Types
  <2>4. req[r].session = s \/ subscriptions[t].publisher = s
    <3>1. Subscribed(t) /\ r \in subscriptions[t].subscribers
      BY DEF Subscribers
    <3>2. CASE subscriptions'[t] = None
      <4> DEFINE left == {q \in subscriptions[t].subscribers : req[q].session # s}
                 rest == [subscriptions[t] EXCEPT !.subscribers = left]
      <4>1. subscriptions[t] \in Subscription
        BY <3>1 DEF Types, Subscribed
      <4>2. rest \in Subscription
        BY <4>1 DEF Subscription
      <4>3. subscriptions[t].publisher # s => Purged(s)[t] = IF left = {} THEN None ELSE rest
        BY <3>1 DEF Purged
      <4> HIDE DEF rest
      <4>4. subscriptions[t].publisher # s => left = {}
        BY <2>3, <3>2, <4>2, <4>3, NoneAssumption
      <4> QED BY <3>1, <4>4
    <3>3. CASE subscriptions'[t] # None
      BY <2>3, <3>1, <3>3, PurgedKeeps DEF Subscribers, Subscribed
    <3> QED BY <3>2, <3>3
  <2> QED BY <2>3, <2>4
<1>2. Spec => [][Leaves]_vars
  BY <1>1, ToldInvariant, PTL DEF Spec
<1> QED BY <1>2 DEF LeavesWithItsSession

\* A subscription that is kept has a subscriber.
THEOREM NoneEmpty == Spec => []NoEmptySubscription
<1>1. Init => NoEmptySubscription
  BY DEF Init, NoEmptySubscription, Subscribed
<1>2. ControlInv /\ NoEmptySubscription /\ [Next]_vars => NoEmptySubscription'
  <2> SUFFICES ASSUME ControlInv, NoEmptySubscription, [Next]_vars, NEW t \in Track,
                      Subscribed(t)'
               PROVE  Subscribers(t)' # {}
    BY DEF NoEmptySubscription
  <2>1. CASE subscriptions'[t] = subscriptions[t]
    BY <2>1 DEF NoEmptySubscription, Subscribed, Subscribers
  <2>2. ASSUME NEW r \in Req, Aggregate(r) \/ RecordSubscription(r) PROVE Subscribers(t)' # {}
    BY <2>1, <2>2, JoinersAdd
  <2>3. ASSUME NEW s \in Session, RemoveSession(s) PROVE Subscribers(t)' # {}
    <3>1. subscriptions' = Purged(s) /\ subscriptions'[t] # None
      BY <2>3 DEF RemoveSession, Subscribed
    <3>2. {r \in subscriptions[t].subscribers : req[r].session # s} # {}
      BY <3>1 DEF Purged
    <3> QED BY <3>1, <3>2, PurgedKeeps DEF ControlInv, Subscribers, Subscribed
  <2> QED BY <2>1, <2>2, <2>3, WhatChangesSubscriptions
<1> QED BY <1>1, <1>2, ControlInvariant, PTL DEF Spec

----------------------------------------------------------------------------
(* How requests are answered *)

\* The program counters before a request is served or refused, those at which
\* its SUBSCRIBE_OK is about to be written, and those after that write.
Undecided == {"idle", "filter", "check", "lookup", "reject", "awaitOk"}
Telling   == {"forwardAggregated", "forwardOk"}
After     == {"awaitDone", "notify", "done"}

Told(r) == \E i \in DOMAIN sent[r] : sent[r][i].type = "SUBSCRIBE_OK"

\* Until a request is decided it holds no OK and was told nothing; one that
\* never holds an OK is told nothing but an error, last; who is to be told the
\* end of a track holds an OK.
SilenceInv ==
    \A r \in Req :
        /\ pc[r] \in Undecided => ok[r] = None /\ sent[r] = << >>
        /\ ok[r] = None => \/ sent[r] = << >>
                           \/ sent[r] = << Error >> /\ pc[r] = "done"
        /\ \A q \in notify[r] : ok[q] # None

\* A request that is served was told at most one SUBSCRIBE_OK, none before
\* its turn to write it, and no error.
AnswerInv ==
    \A r \in Req :
        /\ pc[r] \in Telling => ~Told(r)
        /\ ok[r] # None => \A i \in DOMAIN sent[r] : sent[r][i].type # "REQUEST_ERROR"
        /\ \A i, j \in DOMAIN sent[r] :
              sent[r][i].type = "SUBSCRIBE_OK" /\ sent[r][j].type = "SUBSCRIBE_OK" => i = j

ServedInv == ToldInv /\ SilenceInv /\ AnswerInv

\* What a step of a task does to program counters, OKs and what is written.
LEMMA TaskShapes ==
    ASSUME ControlInv, NEW r \in Req, HandleSubscribe(r)
    PROVE  \/ /\ pc[r] \in Undecided /\ UNCHANGED <<ok, sent, notify>>
              /\ \E l \in Undecided \cup {"done"} : pc' = [pc EXCEPT ![r] = l]
           \/ /\ pc[r] \in Undecided /\ UNCHANGED <<ok, notify>>
              /\ Write(r, Error) /\ pc' = [pc EXCEPT ![r] = "done"]
           \/ /\ pc[r] \in Undecided /\ UNCHANGED <<sent, notify>>
              /\ \E u \in Req : ok' = [ok EXCEPT ![r] = u]
              /\ \E l \in Telling : pc' = [pc EXCEPT ![r] = l]
           \/ /\ pc[r] \in Telling /\ UNCHANGED <<ok, notify>> /\ ok[r] \in Req
              /\ Write(r, Ok(ok[r])) /\ \E l \in After : pc' = [pc EXCEPT ![r] = l]
           \/ /\ pc[r] \in After \ {"done"} /\ UNCHANGED <<ok, sent>>
              /\ \/ UNCHANGED notify
                 \/ notify' = [notify EXCEPT ![r] = Subscribers(req[r].track)]
              /\ \E l \in After : pc' = [pc EXCEPT ![r] = l]
           \/ /\ pc[r] \in After \ {"done"} /\ UNCHANGED ok
              /\ \E q \in notify[r] : /\ q \in Req /\ Write(q, Done(r))
                                      /\ notify' = [notify EXCEPT ![r] = @ \ {q}]
              /\ \E l \in After : pc' = [pc EXCEPT ![r] = l]
<1> USE DEF Goto, Undecided, Telling, After
<1>1. CASE RejectName(r) \/ AcquireTrackLock(r) \/ NothingToJoin(r)
  BY <1>1 DEF RejectName, AcquireTrackLock, NothingToJoin
<1>2. CASE FoundPublisher(r) \/ NoPublisher(r) \/ UpstreamSubscribeFails(r)
  BY <1>2 DEF FoundPublisher, NoPublisher, UpstreamSubscribeFails
<1>3. CASE RejectFilter(r) \/ Reject(r)
  BY <1>3 DEF RejectFilter, Reject
<1>4. CASE Aggregate(r)
  <2>1. subscriptions[req[r].track] \in Subscription
    BY <1>4 DEF Aggregate, Subscribed, ControlInv, Types, TaskInv, Subscribe
  <2>2. subscriptions[req[r].track].ok \in Req
    BY <2>1 DEF Subscription
  <2> QED BY <1>4, <2>2 DEF Aggregate
<1>5. CASE RecordSubscription(r)
  BY <1>5 DEF RecordSubscription
<1>6. CASE ForwardAggregatedOk(r) \/ ForwardOk(r)
  <2>1. ok[r] \in Req
    BY <1>6 DEF ForwardAggregatedOk, ForwardOk, ControlInv, TaskInv
  <2> QED BY <1>6, <2>1 DEF ForwardAggregatedOk, ForwardOk
<1>7. CASE UpstreamEnds(r) \/ FindSubscriberRequests(r)
  BY <1>7 DEF UpstreamEnds, FindSubscriberRequests
<1>8. ASSUME NEW q \in Req, ForwardPublishDone(r, q)
      PROVE  /\ pc[r] \in After \ {"done"} /\ UNCHANGED ok
             /\ \E p \in notify[r] : /\ p \in Req /\ Write(p, Done(r))
                                     /\ notify' = [notify EXCEPT ![r] = @ \ {p}]
             /\ \E l \in After : pc' = [pc EXCEPT ![r] = l]
  <2>1. q \in notify[r] /\ Write(q, Done(r)) /\ notify' = [notify EXCEPT ![r] = @ \ {q}]
    BY <1>8 DEF ForwardPublishDone
  <2>2. /\ pc[r] \in After \ {"done"} /\ UNCHANGED ok
        /\ \E l \in After : pc' = [pc EXCEPT ![r] = l]
    BY <1>8 DEF ForwardPublishDone
  <2> QED BY <2>1, <2>2
<1> QED BY <1>1, <1>2, <1>3, <1>4, <1>5, <1>6, <1>7, <1>8 DEF HandleSubscribe

\* Only the tasks of the relay decide and write.
LEMMA OthersTellNothing ==
    ASSUME [Next]_vars
    PROVE  \/ \E r \in Req : HandleSubscribe(r)
           \/ /\ UNCHANGED <<ok, sent, notify>>
              /\ \/ UNCHANGED pc
                 \/ \E r \in Req : pc[r] = "idle" /\ pc' = [pc EXCEPT ![r] = "filter"]
<1>1. ASSUME NEW s \in Subscriber, NEW r \in Req, NEW t \in Track, NEW f \in Form,
             ReceiveSubscribe(s, r, t, f)
      PROVE  /\ UNCHANGED <<ok, sent, notify>>
             /\ pc[r] = "idle" /\ pc' = [pc EXCEPT ![r] = "filter"]
  BY <1>1 DEF ReceiveSubscribe, Goto
<1>2. ASSUME \/ \E s \in Session : Connection(s)
             \/ \E p \in Publisher, n \in Namespace : PublishNamespace(p, n)
             \/ \E r \in Req : Peer(r)
             \/ UNCHANGED vars
      PROVE  UNCHANGED <<ok, sent, notify, pc>>
  BY <1>2 DEF Connection, Connect, LoseLink, LoopBreaks, RemoveSession, PublishNamespace,
       ReceivePublishNamespace, RegisterNamespace, Peer, PublisherAccepts, PublisherFails,
       PublisherFinishes, StopReading, vars, taskVars
<1> QED BY <1>1, <1>2 DEF Next

\* A write appends to what was sent, or fails.
LEMMA WriteOrNot ==
    ASSUME sent \in [Req -> Seq(Message)], NEW r \in Req, NEW m \in Message, Write(r, m)
    PROVE  \/ UNCHANGED sent /\ ~Writable(r)
           \/ /\ Writable(r) /\ sent'[r] = Append(sent[r], m)
              /\ \A q \in Req \ {r} : sent'[q] = sent[q]
BY DEF Write

\* What an appended message adds to a sequence.
LEMMA AppendAdds ==
    ASSUME NEW s \in Seq(Message), NEW m \in Message
    PROVE  /\ Append(s, m) \in Seq(Message)
           /\ DOMAIN Append(s, m) = DOMAIN s \cup {Len(s) + 1}
           /\ Len(s) + 1 \notin DOMAIN s
           /\ Append(s, m)[Len(s) + 1] = m
           /\ \A i \in DOMAIN s : Append(s, m)[i] = s[i]
OBVIOUS

\* Whoever is subscribed holds an OK.
LEMMA MembersHoldOks ==
    ASSUME ControlInv, MemberInv, NEW t, NEW q \in Subscribers(t), t \in Track
    PROVE  q \in Req /\ ok[q] # None
<1>1. Subscribed(t) /\ subscriptions[t] \in Subscription /\ q \in subscriptions[t].subscribers
  BY DEF Subscribers, Subscribed, ControlInv, Types
<1>2. q \in Req
  BY <1>1 DEF Subscription
<1>3. ok[q] \in Req
  BY <1>1 DEF MemberInv, Routes
<1> QED BY <1>2, <1>3, NoneAssumption

LEMMA SilenceStep ==
    ASSUME ControlInv, MemberInv, SilenceInv, [Next]_vars
    PROVE  SilenceInv'
<1> Types
  BY DEF ControlInv
<1> USE DEF Undecided, Telling, After
<1>1. CASE UNCHANGED <<ok, sent, notify, pc>>
  BY <1>1 DEF SilenceInv
<1>2. ASSUME NEW r \in Req, NEW l \in Undecided \cup {"done"}, pc[r] \in Undecided,
             pc' = [pc EXCEPT ![r] = l], UNCHANGED <<ok, sent, notify>>
      PROVE  SilenceInv'
  BY <1>2 DEF SilenceInv, Types
<1>3. ASSUME NEW r \in Req, pc[r] \in Undecided, UNCHANGED <<ok, notify>>, Write(r, Error),
             pc' = [pc EXCEPT ![r] = "done"]
      PROVE  SilenceInv'
  <2>1. \/ UNCHANGED sent
        \/ /\ sent'[r] = << Error >>
           /\ \A q \in Req \ {r} : sent'[q] = sent[q]
    <3>1. sent[r] = << >>
      BY <1>3 DEF SilenceInv
    <3>2. Append(<< >>, Error) = << Error >>
      OBVIOUS
    <3> QED BY <1>3, <3>1, <3>2, WriteOrNot, MessageType DEF Types
  <2> QED BY <1>3, <2>1 DEF SilenceInv, Types
<1>4. ASSUME NEW r \in Req, NEW u \in Req, NEW l \in Telling, pc[r] \in Undecided,
             UNCHANGED <<sent, notify>>, ok' = [ok EXCEPT ![r] = u],
             pc' = [pc EXCEPT ![r] = l]
      PROVE  SilenceInv'
  BY <1>4, NoneAssumption DEF SilenceInv, Types
<1>5. ASSUME NEW r \in Req, NEW l \in After, pc[r] \in Telling, ok[r] \in Req,
             UNCHANGED <<ok, notify>>, Write(r, Ok(ok[r])), pc' = [pc EXCEPT ![r] = l]
      PROVE  SilenceInv'
  <2>1. \A q \in Req \ {r} : sent'[q] = sent[q]
    BY <1>5 DEF Write, Types
  <2>2. ok[r] # None
    BY <1>5, NoneAssumption
  <2> QED BY <1>5, <2>1, <2>2 DEF SilenceInv, Types
<1>6. ASSUME NEW r \in Req, NEW l \in After, pc[r] \in After \ {"done"}, UNCHANGED <<ok, sent>>,
             UNCHANGED notify \/ notify' = [notify EXCEPT ![r] = Subscribers(req[r].track)],
             pc' = [pc EXCEPT ![r] = l]
      PROVE  SilenceInv'
  <2>1. req[r].track \in Track
    BY <1>6 DEF ControlInv, TaskInv, Subscribe
  <2>2. \A q \in Subscribers(req[r].track) : ok[q] # None
    BY <2>1, MembersHoldOks
  <2>3. \A p \in Req : \A q \in notify'[p] : ok'[q] # None
    BY <1>6, <2>2 DEF SilenceInv, Types
  <2>4. ASSUME NEW p \in Req
        PROVE  /\ pc'[p] \in Undecided => ok'[p] = None /\ sent'[p] = << >>
               /\ ok'[p] = None => \/ sent'[p] = << >>
                                   \/ sent'[p] = << Error >> /\ pc'[p] = "done"
    BY <1>6 DEF SilenceInv, Types
  <2> QED BY <2>3, <2>4 DEF SilenceInv
<1>7. ASSUME NEW r \in Req, NEW l \in After, pc[r] \in After \ {"done"}, UNCHANGED ok,
             NEW q \in notify[r], q \in Req, Write(q, Done(r)),
             notify' = [notify EXCEPT ![r] = @ \ {q}], pc' = [pc EXCEPT ![r] = l]
      PROVE  SilenceInv'
  <2>1. \A p \in Req \ {q} : sent'[p] = sent[p]
    BY <1>7 DEF Write, Types
  <2>2. ok[q] # None
    BY <1>7 DEF SilenceInv
  <2> QED BY <1>7, <2>1, <2>2 DEF SilenceInv, Types
<1>8. ASSUME NEW r \in Req, HandleSubscribe(r) PROVE SilenceInv'
  BY <1>2, <1>3, <1>4, <1>5, <1>6, <1>7, <1>8, TaskShapes
<1> QED BY <1>1, <1>2, <1>8, OthersTellNothing
\* No more is told than the OK a task holds, and that once.
LEMMA AnswerStep ==
    ASSUME ControlInv, SilenceInv, AnswerInv, [Next]_vars
    PROVE  AnswerInv'
<1> Types
  BY DEF ControlInv
<1> USE DEF Undecided, Telling, After
<1>1. CASE UNCHANGED <<ok, sent, pc>>
  BY <1>1 DEF AnswerInv, Told
<1>2. ASSUME NEW r \in Req, NEW l, l \notin Telling, pc' = [pc EXCEPT ![r] = l],
             UNCHANGED <<ok, sent>>
      PROVE  AnswerInv'
  BY <1>2 DEF AnswerInv, Told, Types
<1>3. ASSUME NEW r \in Req, NEW u \in Req, NEW l \in Telling, pc[r] \in Undecided,
             UNCHANGED sent, ok' = [ok EXCEPT ![r] = u], pc' = [pc EXCEPT ![r] = l]
      PROVE  AnswerInv'
  <2>1. sent[r] = << >>
    BY <1>3 DEF SilenceInv
  <2> QED BY <1>3, <2>1 DEF AnswerInv, Told, Types
<1>4. ASSUME NEW r \in Req, NEW l \in After, pc' = [pc EXCEPT ![r] = l], UNCHANGED ok,
             NEW q \in Req, NEW m \in Message, Write(q, m),
             m.type = "SUBSCRIBE_OK" => q = r /\ pc[r] \in Telling,
             m.type = "REQUEST_ERROR" => ok[q] = None
      PROVE  AnswerInv'
  <2>1. CASE UNCHANGED sent
    BY <1>2, <1>4, <2>1
  <2>2. CASE sent'[q] = Append(sent[q], m) /\ \A p \in Req \ {q} : sent'[p] = sent[p]
    <3> DEFINE n == Len(sent[q]) + 1
    <3>1. /\ DOMAIN sent'[q] = DOMAIN sent[q] \cup {n}
          /\ sent'[q][n] = m /\ \A i \in DOMAIN sent[q] : sent'[q][i] = sent[q][i]
      BY <2>2, AppendAdds DEF Types
    <3> HIDE DEF n
    <3>2. pc'[q] \in Telling => ~Told(q)'
      BY <1>4, <3>1 DEF AnswerInv, Told, Types
    <3>3. ok'[q] # None => \A i \in DOMAIN sent'[q] : sent'[q][i].type # "REQUEST_ERROR"
      BY <1>4, <3>1 DEF AnswerInv
    <3>4. \A i, j \in DOMAIN sent'[q] :
              sent'[q][i].type = "SUBSCRIBE_OK" /\ sent'[q][j].type = "SUBSCRIBE_OK" => i = j
      BY <1>4, <3>1 DEF AnswerInv, Told
    <3>5. \A p \in Req : pc'[p] \in Telling => pc[p] \in Telling
      BY <1>4 DEF Types
    <3> QED BY <1>4, <2>2, <3>2, <3>3, <3>4, <3>5 DEF AnswerInv, Told
  <2> QED BY <1>4, <2>1, <2>2, WriteOrNot DEF Types
<1>5. ASSUME NEW r \in Req, HandleSubscribe(r) PROVE AnswerInv'
  <2>1. ASSUME pc[r] \in Undecided, Write(r, Error), pc' = [pc EXCEPT ![r] = "done"],
               UNCHANGED ok
        PROVE  AnswerInv'
    <3>1. ok[r] = None /\ Error \in Message /\ Error.type = "REQUEST_ERROR"
      BY <2>1, MessageType DEF SilenceInv, Error
    <3> QED BY <1>4, <2>1, <3>1
  <2>2. ASSUME NEW l \in After, pc[r] \in Telling, ok[r] \in Req, Write(r, Ok(ok[r])),
               pc' = [pc EXCEPT ![r] = l], UNCHANGED ok
        PROVE  AnswerInv'
    <3>1. Ok(ok[r]) \in Message /\ Ok(ok[r]).type = "SUBSCRIBE_OK"
      BY <2>2, MessageType DEF Ok
    <3> QED BY <1>4, <2>2, <3>1
  <2>3. ASSUME NEW l \in After, NEW q \in Req, Write(q, Done(r)),
               pc' = [pc EXCEPT ![r] = l], UNCHANGED ok
        PROVE  AnswerInv'
    <3>1. Done(r) \in Message /\ Done(r).type = "PUBLISH_DONE"
      BY MessageType DEF Done
    <3> QED BY <1>4, <2>3, <3>1
  <2> QED BY <1>2, <1>3, <1>5, <2>1, <2>2, <2>3, TaskShapes
<1>6. ASSUME NEW r \in Req, pc' = [pc EXCEPT ![r] = "filter"], UNCHANGED <<ok, sent>>
      PROVE  AnswerInv'
  BY <1>2, <1>6
<1> QED BY <1>1, <1>5, <1>6, OthersTellNothing

LEMMA ServedInit == Init => ServedInv
BY ToldInit DEF ServedInv, SilenceInv, AnswerInv, Init, Told, Undecided, Telling

LEMMA ServedStep == ServedInv /\ [Next]_vars => ServedInv'
BY ToldStep, SilenceStep, AnswerStep DEF ServedInv, ToldInv

THEOREM ServedInvariant == Spec => []ServedInv
BY ServedInit, ServedStep, PTL DEF Spec

\* Every request is answered at most once, and a refused one is neither served
\* nor told that the track ended.
THEOREM AnsweredOnce == Spec => []OneAnswer
<1>1. ServedInv => OneAnswer
  <2> SUFFICES ASSUME ServedInv, NEW r \in Req
               PROVE  /\ Cardinality({i \in DOMAIN sent[r] : sent[r][i].type # "PUBLISH_DONE"}) <= 1
                      /\ (\E i \in DOMAIN sent[r] : sent[r][i].type = "REQUEST_ERROR") =>
                            /\ Len(sent[r]) = 1
                            /\ \A t \in Track : r \notin Subscribers(t)
    BY DEF OneAnswer
  <2> DEFINE answers == {i \in DOMAIN sent[r] : sent[r][i].type # "PUBLISH_DONE"}
  <2>1. ControlInv /\ MemberInv /\ SilenceInv /\ AnswerInv /\ sent[r] \in Seq(Message)
    BY DEF ServedInv, ToldInv, ControlInv, Types
  <2>2. CASE ok[r] = None
    <3>1. sent[r] = << >> \/ sent[r] = << Error >>
      BY <2>1, <2>2 DEF SilenceInv
    <3>2. answers = {} \/ answers = {1}
      BY <3>1
    <3>3. Cardinality(answers) <= 1
      BY <3>2, FS_EmptySet, FS_Singleton
    <3>4. \A t \in Track : r \notin Subscribers(t)
      BY <2>1, <2>2, MembersHoldOks
    <3>5. Len(<< >>) = 0 /\ Len(<< Error >>) = 1 /\ DOMAIN << >> = {}
      OBVIOUS
    <3>6. (\E i \in DOMAIN sent[r] : sent[r][i].type = "REQUEST_ERROR") => Len(sent[r]) = 1
      BY <3>1, <3>5
    <3> HIDE DEF answers
    <3> QED BY <3>3, <3>4, <3>6 DEF answers
  <2>3. CASE ok[r] # None
    <3>1. \A i \in DOMAIN sent[r] : sent[r][i].type \in {"SUBSCRIBE_OK", "PUBLISH_DONE"}
      <4>1. \A i \in DOMAIN sent[r] :
                /\ sent[r][i].type \in {"SUBSCRIBE_OK", "PUBLISH_DONE", "REQUEST_ERROR"}
                /\ sent[r][i].type # "REQUEST_ERROR"
        BY <2>1, <2>3 DEF AnswerInv, Message
      <4> QED BY <4>1
    <3>2. \A i, j \in answers : i = j
      BY <2>1, <3>1 DEF AnswerInv
    <3> HIDE DEF answers
    <3>3. ASSUME answers = {} PROVE Cardinality(answers) = 0
      BY <3>3, FS_EmptySet
    <3>4. ASSUME NEW i, answers = {i} PROVE Cardinality(answers) = 1
      BY <3>4, FS_Singleton
    <3>5. answers = {} \/ \E i : answers = {i}
      BY <3>2
    <3>6. Cardinality(answers) <= 1
      BY <3>3, <3>4, <3>5
    <3> QED BY <3>1, <3>6 DEF answers
  <2> QED BY <2>2, <2>3
<1> QED BY <1>1, ServedInvariant, PTL
----------------------------------------------------------------------------
(* Who is subscribed is told *)

\* A request is of a session that is or was connected; after its turn to write
\* SUBSCRIBE_OK it was told, or cannot be told any more.
ReachInv ==
    \A r \in Req :
        /\ pc[r] # "idle" => loop[req[r].session] # "none"
        /\ pc[r] \in After /\ ok[r] # None => Told(r) \/ ~Writable(r)

\* A session is connected once, and a client that stopped reading has stopped.
LEMMA LinksGo ==
    ASSUME Types, [Next]_vars
    PROVE  /\ \A s \in Session : /\ loop[s] # "none" => loop'[s] # "none"
                                 /\ link'[s] = "up" => link[s] = "up" \/ loop[s] = "none"
           /\ stopped \subseteq stopped'
<1>1. ASSUME NEW s \in Session, Connection(s)
      PROVE  /\ UNCHANGED stopped
             /\ \/ loop[s] = "none" /\ link' = [link EXCEPT ![s] = "up"]
                \/ link' = [link EXCEPT ![s] = "lost"]
                \/ UNCHANGED link
             /\ \/ UNCHANGED loop
                \/ \E l \in {"running", "cleanup", "gone"} : loop' = [loop EXCEPT ![s] = l]
  BY <1>1 DEF Connection, Connect, LoseLink, LoopBreaks, RemoveSession
<1>2. ASSUME \/ \E p \in Publisher, n \in Namespace : PublishNamespace(p, n)
             \/ \E s \in Subscriber, r \in Req, t \in Track, f \in Form :
                    ReceiveSubscribe(s, r, t, f)
             \/ UNCHANGED vars
      PROVE  UNCHANGED <<link, loop, stopped>>
  BY <1>2 DEF PublishNamespace, ReceivePublishNamespace, RegisterNamespace, ReceiveSubscribe,
              vars
<1>3. ASSUME NEW r \in Req, HandleSubscribe(r) PROVE UNCHANGED <<link, loop, stopped>>
  BY <1>3 DEF HandleSubscribe, RejectFilter, RejectName, AcquireTrackLock, Aggregate,
       ForwardAggregatedOk, NothingToJoin, FoundPublisher, NoPublisher, Reject,
       UpstreamSubscribeFails, RecordSubscription, ForwardOk, UpstreamEnds,
       FindSubscriberRequests, ForwardPublishDone
<1>4. ASSUME NEW r \in Req, Peer(r) PROVE UNCHANGED <<link, loop>> /\ stopped \subseteq stopped'
  BY <1>4 DEF Peer, PublisherAccepts, PublisherFails, PublisherFinishes, StopReading
<1> QED BY <1>1, <1>2, <1>3, <1>4 DEF Next, Types

\* A request that was received stays what it is.
LEMMA RequestsStay ==
    ASSUME Types, [Next]_vars, NEW r \in Req, pc[r] # "idle"
    PROVE  req'[r] = req[r] /\ pc'[r] # "idle"
<1>1. \/ UNCHANGED req
      \/ \E s \in Subscriber, q \in Req, t \in Track, f \in Form : ReceiveSubscribe(s, q, t, f)
  BY DEF Next, Connection, Connect, LoseLink, LoopBreaks, RemoveSession, PublishNamespace,
         ReceivePublishNamespace, RegisterNamespace, HandleSubscribe, RejectFilter, RejectName,
         AcquireTrackLock, Aggregate, ForwardAggregatedOk, NothingToJoin, FoundPublisher,
         NoPublisher, Reject, UpstreamSubscribeFails, RecordSubscription, ForwardOk,
         UpstreamEnds, FindSubscriberRequests, ForwardPublishDone, Peer, PublisherAccepts,
         PublisherFails, PublisherFinishes, StopReading, vars, taskVars
<1>2. ASSUME NEW s \in Subscriber, NEW q \in Req, NEW t \in Track, NEW f \in Form,
             ReceiveSubscribe(s, q, t, f)
      PROVE  req'[r] = req[r]
  BY <1>2 DEF ReceiveSubscribe, Types
<1>3. ASSUME NEW q \in Req, HandleSubscribe(q) PROVE \E l \in PcValues \ {"idle"} :
                                                         pc' = [pc EXCEPT ![q] = l]
  <2> USE DEF Goto, PcValues, Locked
  <2>1. CASE \E p \in Req : ForwardPublishDone(q, p)
    BY <2>1 DEF ForwardPublishDone
  <2>2. CASE RejectFilter(q) \/ RejectName(q) \/ AcquireTrackLock(q) \/ Aggregate(q)
             \/ ForwardAggregatedOk(q) \/ NothingToJoin(q) \/ FoundPublisher(q)
             \/ NoPublisher(q) \/ Reject(q) \/ UpstreamSubscribeFails(q)
    BY <2>2 DEF RejectFilter, RejectName, AcquireTrackLock, Aggregate, ForwardAggregatedOk,
         NothingToJoin, FoundPublisher, NoPublisher, Reject, UpstreamSubscribeFails
  <2>3. CASE RecordSubscription(q) \/ ForwardOk(q) \/ UpstreamEnds(q)
             \/ FindSubscriberRequests(q)
    BY <2>3 DEF RecordSubscription, ForwardOk, UpstreamEnds, FindSubscriberRequests
  <2> QED BY <1>3, <2>1, <2>2, <2>3 DEF HandleSubscribe
<1>4. \/ \E q \in Req : HandleSubscribe(q)
      \/ UNCHANGED pc
      \/ \E q \in Req : pc' = [pc EXCEPT ![q] = "filter"]
  BY OthersTellNothing
<1> QED BY <1>1, <1>2, <1>3, <1>4 DEF Types, PcValues

\* Who cannot be told any more never can again.
LEMMA UnwritableStays ==
    ASSUME ControlInv, ReachInv, [Next]_vars, NEW r \in Req, pc[r] # "idle", ~Writable(r)
    PROVE  ~Writable(r)'
<1>1. Types /\ req[r].session \in Session /\ loop[req[r].session] # "none"
  BY RoleAssumption DEF ControlInv, TaskInv, Subscribe, ReachInv
<1>2. req'[r] = req[r]
  BY <1>1, RequestsStay
<1>3. link'[req[r].session] = "up" => link[req[r].session] = "up"
  BY <1>1, LinksGo
<1>4. stopped \subseteq stopped'
  BY <1>1, LinksGo
<1> QED BY <1>2, <1>3, <1>4 DEF Writable

\* What was told was told.
LEMMA ToldStays ==
    ASSUME ControlInv, [Next]_vars, NEW r \in Req, Told(r)
    PROVE  Told(r)'
<1> Types
  BY DEF ControlInv
<1>1. CASE UNCHANGED sent
  BY <1>1 DEF Told
<1>2. ASSUME NEW q \in Req, NEW m \in Message, Write(q, m) PROVE Told(r)'
  <2>1. CASE sent'[q] = Append(sent[q], m) /\ \A p \in Req \ {q} : sent'[p] = sent[p]
    <3>1. DOMAIN sent[q] \subseteq DOMAIN sent'[q]
          /\ \A i \in DOMAIN sent[q] : sent'[q][i] = sent[q][i]
      BY <2>1, AppendAdds DEF Types
    <3> QED BY <2>1, <3>1 DEF Told
  <2> QED BY <1>1, <1>2, <2>1, WriteOrNot DEF Types
<1>3. ASSUME NEW q \in Req, HandleSubscribe(q) PROVE Told(r)'
  BY <1>1, <1>2, <1>3, TaskShapes, MessageType
<1> QED BY <1>1, <1>3, OthersTellNothing
\* A request leaves "idle" when its message is received, and only then.
LEMMA LeavesIdle ==
    ASSUME Types, [Next]_vars, NEW r \in Req, pc[r] = "idle", pc'[r] # "idle"
    PROVE  \E s \in Subscriber, t \in Track, f \in Form : ReceiveSubscribe(s, r, t, f)
<1>1. ASSUME NEW q \in Req, HandleSubscribe(q)
      PROVE  pc[q] # "idle" /\ \E l : pc' = [pc EXCEPT ![q] = l]
  BY <1>1 DEF HandleSubscribe, RejectFilter, RejectName, AcquireTrackLock, Aggregate,
       ForwardAggregatedOk, NothingToJoin, FoundPublisher, NoPublisher, Reject,
       UpstreamSubscribeFails, RecordSubscription, ForwardOk, UpstreamEnds,
       FindSubscriberRequests, ForwardPublishDone, Goto
<1>2. ASSUME \/ \E s \in Session : Connection(s)
             \/ \E p \in Publisher, n \in Namespace : PublishNamespace(p, n)
             \/ \E q \in Req : Peer(q)
             \/ UNCHANGED vars
      PROVE  UNCHANGED pc
  BY <1>2 DEF Connection, Connect, LoseLink, LoopBreaks, RemoveSession, PublishNamespace,
       ReceivePublishNamespace, RegisterNamespace, Peer, PublisherAccepts, PublisherFails,
       PublisherFinishes, StopReading, vars, taskVars
<1>3. ASSUME NEW s \in Subscriber, NEW q \in Req, NEW t \in Track, NEW f \in Form,
             ReceiveSubscribe(s, q, t, f)
      PROVE  q = r
  BY <1>3 DEF ReceiveSubscribe, Goto, Types
<1>4. ~ \E q \in Req : HandleSubscribe(q)
  BY <1>1 DEF Types
<1> QED BY <1>2, <1>3, <1>4 DEF Next

LEMMA ReachStep ==
    ASSUME ControlInv, SilenceInv, ReachInv, [Next]_vars
    PROVE  ReachInv'
<1> Types
  BY DEF ControlInv
<1> USE DEF Undecided, Telling, After
<1>1. ASSUME NEW r \in Req, pc'[r] # "idle" PROVE loop'[req'[r].session] # "none"
  <2>1. CASE pc[r] # "idle"
    <3>1. req[r].session \in Session /\ loop[req[r].session] # "none"
      BY <2>1, RoleAssumption DEF ControlInv, TaskInv, Subscribe, ReachInv
    <3>2. req'[r] = req[r] /\ loop'[req[r].session] # "none"
      BY <2>1, <3>1, RequestsStay, LinksGo
    <3> QED BY <3>2
  <2>2. CASE pc[r] = "idle"
    <3>1. PICK s \in Subscriber, t \in Track, f \in Form : ReceiveSubscribe(s, r, t, f)
      BY <1>1, <2>2, LeavesIdle
    <3>2. req'[r].session = s /\ loop[s] = "running" /\ UNCHANGED loop
      BY <3>1 DEF ReceiveSubscribe, Types
    <3> QED BY <3>2
  <2> QED BY <2>1, <2>2
<1>2. ASSUME NEW r \in Req, pc'[r] \in After, ok'[r] # None PROVE (Told(r) \/ ~Writable(r))'
  <2>1. CASE pc[r] \in After /\ ok[r] # None
    BY <2>1, ToldStays, UnwritableStays DEF ReachInv
  <2>2. CASE pc[r] \in Telling /\ Write(r, Ok(ok[r])) /\ ok[r] \in Req
    <3>1. Ok(ok[r]) \in Message /\ Ok(ok[r]).type = "SUBSCRIBE_OK"
      BY <2>2, MessageType DEF Ok
    <3>2. CASE ~Writable(r)
      BY <2>2, <3>2, UnwritableStays
    <3>3. CASE sent'[r] = Append(sent[r], Ok(ok[r]))
      <4>1. sent'[r][Len(sent[r]) + 1] = Ok(ok[r]) /\ Len(sent[r]) + 1 \in DOMAIN sent'[r]
        BY <3>1, <3>3, AppendAdds DEF Types
      <4> QED BY <3>1, <4>1 DEF Told
    <3> QED BY <2>2, <3>1, <3>2, <3>3, WriteOrNot DEF Types
  <2>3. ASSUME NEW q \in Req, HandleSubscribe(q),
               ~(pc[r] \in Telling /\ Write(r, Ok(ok[r])) /\ ok[r] \in Req)
        PROVE  pc[r] \in After /\ ok[r] # None
    <3>1. CASE q # r
      <4>1. \/ UNCHANGED ok
            \/ \E u \in Req : ok' = [ok EXCEPT ![q] = u]
        BY <2>3, TaskShapes
      <4>2. \E l : pc' = [pc EXCEPT ![q] = l]
        BY <2>3, TaskShapes
      <4> QED BY <1>2, <3>1, <4>1, <4>2 DEF Types
    <3>2. CASE q = r
      <4>1. pc[r] \in Undecided => ok[r] = None
        BY DEF SilenceInv
      <4>2. \/ pc[r] \in Undecided /\ UNCHANGED ok
            \/ \E l \in Telling : pc' = [pc EXCEPT ![r] = l]
            \/ pc[r] \in After /\ UNCHANGED ok
        BY <2>3, <3>2, TaskShapes
      <4> QED BY <1>2, <4>1, <4>2 DEF Types
    <3> QED BY <3>1, <3>2
  <2>4. CASE ~ \E q \in Req : HandleSubscribe(q)
    <3>1. UNCHANGED ok /\ pc[r] \in After
      BY <1>2, <2>4, OthersTellNothing DEF Types
    <3> QED BY <1>2, <2>1, <3>1
  <2> QED BY <2>1, <2>2, <2>3, <2>4
<1> QED BY <1>1, <1>2 DEF ReachInv

\* Every subscriber is told that it is one, or is gone.
THEOREM AllMembersTold == Spec => []MembersAreTold
<1>1. Init => ReachInv
  BY DEF Init, ReachInv, After
<1>2. ServedInv /\ ReachInv /\ [Next]_vars => ReachInv'
  BY ReachStep DEF ServedInv, ToldInv
<1>3. ServedInv /\ ReachInv => MembersAreTold
  <2> SUFFICES ASSUME ServedInv, ReachInv, NEW t \in Track, NEW r \in Subscribers(t)
               PROVE  \/ pc[r] \in Telling
                      \/ Told(r)
                      \/ ~Writable(r)
    BY DEF MembersAreTold, Telling, Told
  <2>1. ControlInv /\ MemberInv
    BY DEF ServedInv, ToldInv
  <2>2. r \in Req /\ ok[r] # None
    BY <2>1, MembersHoldOks
  <2>3. Subscribed(t)
    BY DEF Subscribers
  <2>4. pc[r] \in Telling \cup After
    BY <2>1, <2>3 DEF MemberInv, Telling, After
  <2> QED BY <2>2, <2>4 DEF ReachInv
<1> QED BY <1>1, <1>2, <1>3, ServedInvariant, PTL DEF Spec
----------------------------------------------------------------------------
(* Who is routed to whom *)

\* A task that joins leaves the upstream as it is.
LEMMA AggregateEffect ==
    ASSUME ControlInv, NEW r \in Req, Aggregate(r)
    PROVE  /\ req[r].track \in Track /\ Subscribed(req[r].track)
           /\ \A t \in Track :
                 IF t = req[r].track
                   THEN /\ Subscribed(t)' /\ subscriptions'[t].ok = subscriptions[t].ok
                        /\ Subscribers(t)' = Subscribers(t) \cup {r}
                   ELSE subscriptions'[t] = subscriptions[t]
<1>1. PICK t0 \in Track : t0 = req[r].track
  BY DEF Aggregate, ControlInv, TaskInv, Subscribe
<1>2. subscriptions[t0] \in Subscription /\ Subscribed(t0)
  BY <1>1 DEF Aggregate, ControlInv, Types, Subscribed
<1> DEFINE e == [subscriptions[t0] EXCEPT !.subscribers = subscriptions[t0].subscribers \cup {r}]
<1>3. subscriptions' = [subscriptions EXCEPT ![t0] = e]
  BY <1>1 DEF Aggregate
<1>4. e \in Subscription /\ e.subscribers = Subscribers(t0) \cup {r} /\ e.ok = subscriptions[t0].ok
  BY <1>2 DEF Subscription, Subscribers
<1> HIDE DEF e
<1>5. subscriptions'[t0] = e /\ \A t \in Track \ {t0} : subscriptions'[t] = subscriptions[t]
  BY <1>3 DEF ControlInv, Types
<1>6. Subscribed(t0)' /\ Subscribers(t0)' = Subscribers(t0) \cup {r}
  BY <1>4, <1>5, NoneAssumption DEF Subscribed, Subscribers
<1> QED BY <1>1, <1>2, <1>4, <1>5, <1>6

\* A task that records its upstream is the only one to be served by it.
LEMMA RecordEffect ==
    ASSUME ControlInv, NEW r \in Req, RecordSubscription(r)
    PROVE  /\ req[r].track \in Track /\ ~Subscribed(req[r].track)
           /\ \A t \in Track :
                 IF t = req[r].track
                   THEN Subscribed(t)' /\ subscriptions'[t].ok = r /\ Subscribers(t)' = {r}
                   ELSE subscriptions'[t] = subscriptions[t]
<1>1. PICK t0 \in Track : t0 = req[r].track
  BY DEF RecordSubscription, ControlInv, TaskInv, Subscribe
<1>2. /\ ~Subscribed(t0) /\ up[r].pub \in Session /\ up[r].alias \in Alias
  BY <1>1 DEF RecordSubscription, Answered, ControlInv, Types, TaskInv, AbsenceInv, Opening,
       Upstream
<1> DEFINE empty == [publisher |-> up[r].pub, alias |-> up[r].alias, ok |-> r, subscribers |-> {}]
           entry == IF Subscribed(t0) THEN subscriptions[t0] ELSE empty
           e == [empty EXCEPT !.subscribers = @ \cup {r}]
<1>3. subscriptions' = [subscriptions EXCEPT ![t0] = [entry EXCEPT !.subscribers = @ \cup {r}]]
  BY <1>1 DEF RecordSubscription
<1>4. entry = empty
  BY <1>2
<1>5. e \in Subscription /\ e.subscribers = {r} /\ e.ok = r
  BY <1>2 DEF Subscription
<1>6. subscriptions' = [subscriptions EXCEPT ![t0] = e]
  <2> HIDE DEF entry, empty
  <2> QED BY <1>3, <1>4
<1> HIDE DEF e
<1>7. subscriptions'[t0] = e /\ \A t \in Track \ {t0} : subscriptions'[t] = subscriptions[t]
  BY <1>6 DEF ControlInv, Types
<1>8. Subscribed(t0)' /\ Subscribers(t0)' = {r}
  BY <1>5, <1>7, NoneAssumption DEF Subscribed, Subscribers
<1> QED BY <1>1, <1>2, <1>5, <1>7, <1>8

\* A removal takes upstreams and subscribers away, and adds none.
LEMMA RemoveEffect ==
    ASSUME ControlInv, NEW s \in Session, RemoveSession(s), NEW t \in Track
    PROVE  /\ Subscribers(t)' \subseteq Subscribers(t)
           /\ Subscribed(t)' => Subscribed(t) /\ subscriptions'[t].ok = subscriptions[t].ok
<1>1. subscriptions' = Purged(s)
  BY DEF RemoveSession
<1>2. CASE Purged(s)[t] = None
  BY <1>1, <1>2 DEF Subscribers, Subscribed
<1>3. CASE Purged(s)[t] # None
  BY <1>1, <1>3, PurgedKeeps DEF Subscribers, Subscribed, ControlInv
<1> QED BY <1>2, <1>3

\* The upstream of a subscription was opened for a request for its track.
OriginInv ==
    \A t \in Track : Subscribed(t) =>
        pc[subscriptions[t].ok] # "idle" /\ req[subscriptions[t].ok].track = t

LEMMA OriginStep ==
    ASSUME ControlInv, OriginInv, [Next]_vars
    PROVE  OriginInv'
<1> Types
  BY DEF ControlInv
<1> SUFFICES ASSUME NEW t \in Track, Subscribed(t)'
             PROVE  (pc[subscriptions[t].ok] # "idle" /\ req[subscriptions[t].ok].track = t)'
  BY DEF OriginInv
<1>1. CASE Subscribed(t) /\ subscriptions'[t].ok = subscriptions[t].ok
  <2>1. subscriptions[t].ok \in Req
    BY <1>1 DEF Types, Subscribed, Subscription
  <2> QED BY <1>1, <2>1, RequestsStay DEF OriginInv
<1>2. ASSUME NEW r \in Req, RecordSubscription(r), t = req[r].track,
             subscriptions'[t].ok = r
      PROVE  pc'[r] # "idle" /\ req'[r].track = t
  <2>1. pc[r] # "idle"
    BY <1>2 DEF RecordSubscription
  <2> QED BY <1>2, <2>1, RequestsStay
<1>3. CASE subscriptions'[t] = subscriptions[t]
  BY <1>1, <1>3 DEF Subscribed
<1>4. ASSUME NEW r \in Req, Aggregate(r)
      PROVE  Subscribed(t) /\ subscriptions'[t].ok = subscriptions[t].ok
  BY <1>3, <1>4, AggregateEffect DEF Subscribed
<1>5. ASSUME NEW r \in Req, RecordSubscription(r)
      PROVE  subscriptions'[t] = subscriptions[t] \/ (t = req[r].track /\ subscriptions'[t].ok = r)
  BY <1>5, RecordEffect
<1> QED BY <1>1, <1>2, <1>3, <1>4, <1>5, RemoveEffect, WhatChangesSubscriptions

\* Data goes to who asked for the track its publisher gave the alias.
THEOREM DataToRequesters == Spec => []RoutedToRequesters
<1>1. Init => OriginInv
  BY DEF Init, OriginInv, Subscribed
<1>2. ToldInv /\ OriginInv /\ [Next]_vars => OriginInv'
  BY OriginStep DEF ToldInv
<1>3. ToldInv /\ OriginInv => RoutedToRequesters
  <2> SUFFICES ASSUME ToldInv, OriginInv, NEW p \in Publisher, NEW a \in Alias,
                      NEW s \in FindSubscriberSessions(p, a)
               PROVE  \E r, u \in Req :
                         /\ pc[r] # "idle" /\ req[r].session = s
                         /\ up[u].pub = p /\ up[u].alias = a /\ req[u].track = req[r].track
    BY DEF RoutedToRequesters
  <2>1. ControlInv /\ MemberInv
    BY DEF ToldInv
  <2>2. PICK t \in Track : \E r \in Subscribers(t) :
           /\ Subscribed(t) /\ subscriptions[t].publisher = p /\ subscriptions[t].alias = a
           /\ req[r].session = s
    BY DEF FindSubscriberSessions
  <2>3. PICK r \in Subscribers(t) : req[r].session = s
    BY <2>2
  <2>4. r \in Req
    BY <2>1, <2>2, <2>3, MembersHoldOks
  <2>5. /\ subscriptions[t].ok \in Req /\ up[subscriptions[t].ok].pub = p
        /\ up[subscriptions[t].ok].alias = a
        /\ req[r].track = t /\ pc[r] # "idle"
    BY <2>1, <2>2, <2>3 DEF MemberInv, Routes
  <2>6. req[subscriptions[t].ok].track = t
    BY <2>2 DEF OriginInv
  <2> QED BY <2>4, <2>5, <2>6, <2>3
<1> QED BY <1>1, <1>2, <1>3, ToldInvariant, PTL DEF Spec

\* A prefix has the length that was asked for.
LEMMA PrefixLength ==
    ASSUME NEW S, NEW ns \in Seq(S), NEW k \in 0..Len(ns)
    PROVE  Len(Prefix(ns, k)) = k
BY DEF Prefix

\* The publisher that is found is registered for a prefix of the namespace.
LEMMA FoundIsRegistered ==
    ASSUME Types, NEW t \in Track, FindPublisher(t.namespace) # None
    PROVE  \E n \in Namespace :
              /\ nsPublisher[n] = FindPublisher(t.namespace)
              /\ Len(n) <= Len(t.namespace)
              /\ n = Prefix(t.namespace, Len(n))
<1> DEFINE ns == t.namespace
           lengths == {k \in 0..Len(ns) : Registered(Prefix(ns, k))}
           longest == CHOOSE k \in lengths : \A j \in lengths : j <= k
<1>1. PICK S : ns \in Seq(S)
  BY TrackAssumption
<1>2. Len(ns) \in Nat
  BY <1>1
<1>3. lengths # {} /\ FindPublisher(ns) = nsPublisher[Prefix(ns, longest)]
  BY DEF FindPublisher
<1>4. longest \in lengths
  <2>1. \E k \in lengths : \A j \in lengths : j <= k
    <3>1. lengths \in SUBSET (0..Len(ns))
      OBVIOUS
    <3> HIDE DEF lengths
    <3> QED BY <1>2, <1>3, <3>1, GreatestNumber
  <2> HIDE DEF lengths
  <2> QED BY <2>1
<1>5. /\ longest \in 0..Len(ns) /\ Registered(Prefix(ns, longest))
  <2> HIDE DEF longest
  <2> QED BY <1>4
<1> HIDE DEF longest, lengths
<1>6. Len(Prefix(ns, longest)) = longest
  BY <1>1, <1>5, PrefixLength
<1> QED BY <1>2, <1>3, <1>5, <1>6 DEF Registered

\* A registered publisher announced the namespace; so did the one a request
\* went to, for a prefix.
AnnouncerInv ==
    /\ \A n \in Namespace : nsPublisher[n] # None => nsTask[nsPublisher[n]][n] = "registered"
    /\ \A r \in Req : up[r].pub # None => pc[r] # "idle" /\ up[r].pub \in Publisher
    /\ RoutedToAnnouncer

\* What was announced was announced.
LEMMA AnnouncedStays ==
    ASSUME Types, [Next]_vars, NEW p \in Publisher, NEW n \in Namespace,
           nsTask[p][n] = "registered"
    PROVE  nsTask'[p][n] = "registered"
<1>1. ASSUME NEW q \in Publisher, NEW m \in Namespace, PublishNamespace(q, m)
      PROVE  nsTask'[p][n] = "registered"
  BY <1>1 DEF PublishNamespace, ReceivePublishNamespace, RegisterNamespace, Types
<1>2. ASSUME ~ \E q \in Publisher, m \in Namespace : PublishNamespace(q, m)
      PROVE  UNCHANGED nsTask
  BY <1>2 DEF Next, Connection, Connect, LoseLink, LoopBreaks, RemoveSession, ReceiveSubscribe,
       HandleSubscribe, RejectFilter, RejectName, AcquireTrackLock, Aggregate,
       ForwardAggregatedOk, NothingToJoin, FoundPublisher, NoPublisher, Reject,
       UpstreamSubscribeFails, RecordSubscription, ForwardOk, UpstreamEnds,
       FindSubscriberRequests, ForwardPublishDone, Peer, PublisherAccepts, PublisherFails,
       PublisherFinishes, StopReading, vars
<1> QED BY <1>1, <1>2

\* A request goes to the publisher that is found, and to nobody else later.
LEMMA WhoIsAsked ==
    ASSUME Types, [Next]_vars, NEW r \in Req
    PROVE  \/ up'[r].pub = up[r].pub
           \/ /\ pc[r] = "lookup" /\ FindPublisher(req[r].track.namespace) # None
              /\ up'[r].pub = FindPublisher(req[r].track.namespace)
<1>1. ASSUME NEW q \in Req, HandleSubscribe(q) PROVE UNCHANGED up \/ FoundPublisher(q)
  BY <1>1 DEF HandleSubscribe, RejectFilter, RejectName, AcquireTrackLock, Aggregate,
       ForwardAggregatedOk, NothingToJoin, NoPublisher, Reject, UpstreamSubscribeFails,
       RecordSubscription, ForwardOk, UpstreamEnds, FindSubscriberRequests, ForwardPublishDone
<1>2. ASSUME NEW q \in Req, FoundPublisher(q), up'[r].pub # up[r].pub
      PROVE  /\ pc[r] = "lookup" /\ FindPublisher(req[r].track.namespace) # None
             /\ up'[r].pub = FindPublisher(req[r].track.namespace)
  <2>1. /\ pc[q] = "lookup" /\ FindPublisher(req[q].track.namespace) # None
        /\ up' = [up EXCEPT ![q] = [st |-> "sent", alias |-> None,
                                    pub |-> FindPublisher(req[q].track.namespace)]]
    BY <1>2 DEF FoundPublisher
  <2>2. q = r
    BY <1>2, <2>1 DEF Types
  <2> QED BY <2>1, <2>2 DEF Types
<1>3. ASSUME NEW q \in Req, Peer(q) PROVE up'[r].pub = up[r].pub
  BY <1>3, PeerUpstream DEF Types
<1>4. ASSUME \/ \E s \in Session : Connection(s)
             \/ \E p \in Publisher, n \in Namespace : PublishNamespace(p, n)
             \/ \E s \in Subscriber, q \in Req, t \in Track, f \in Form :
                    ReceiveSubscribe(s, q, t, f)
             \/ UNCHANGED vars
      PROVE  UNCHANGED up
  BY <1>4 DEF Connection, Connect, LoseLink, LoopBreaks, RemoveSession, PublishNamespace,
       ReceivePublishNamespace, RegisterNamespace, ReceiveSubscribe, vars
<1> QED BY <1>1, <1>2, <1>3, <1>4 DEF Next

\* Only a registration and the removal of a session change who announces what.
LEMMA WhatChangesAnnouncers ==
    ASSUME [Next]_vars
    PROVE  \/ UNCHANGED nsPublisher
           \/ \E p \in Publisher, m \in Namespace : RegisterNamespace(p, m)
           \/ \E s \in Session : RemoveSession(s)
BY DEF Next, Connection, Connect, LoseLink, LoopBreaks, PublishNamespace,
       ReceivePublishNamespace, ReceiveSubscribe, HandleSubscribe, RejectFilter, RejectName,
       AcquireTrackLock, Aggregate, ForwardAggregatedOk, NothingToJoin, FoundPublisher,
       NoPublisher, Reject, UpstreamSubscribeFails, RecordSubscription, ForwardOk,
       UpstreamEnds, FindSubscriberRequests, ForwardPublishDone, Peer, PublisherAccepts,
       PublisherFails, PublisherFinishes, StopReading, vars, stateVars

LEMMA AnnouncerStep ==
    ASSUME ControlInv, AnnouncerInv, [Next]_vars
    PROVE  AnnouncerInv'
<1> Types
  BY DEF ControlInv
<1>1. ASSUME NEW n \in Namespace, nsPublisher'[n] # None
      PROVE  nsTask'[nsPublisher'[n]][n] = "registered"
  <2>1. CASE nsPublisher'[n] = nsPublisher[n]
    <3>1. nsPublisher[n] \in Publisher /\ nsTask[nsPublisher[n]][n] = "registered"
      BY <1>1, <2>1 DEF AnnouncerInv, Types
    <3> QED BY <2>1, <3>1, AnnouncedStays
  <2>2. ASSUME NEW p \in Publisher, NEW m \in Namespace, RegisterNamespace(p, m)
        PROVE  \/ nsPublisher'[n] = nsPublisher[n]
               \/ nsTask'[nsPublisher'[n]][n] = "registered"
    BY <2>2 DEF RegisterNamespace, Types
  <2>3. ASSUME NEW s \in Session, RemoveSession(s) PROVE nsPublisher'[n] = nsPublisher[n]
    BY <1>1, <2>3 DEF RemoveSession
  <2>4. \/ UNCHANGED nsPublisher
        \/ \E p \in Publisher, m \in Namespace : RegisterNamespace(p, m)
        \/ \E s \in Session : RemoveSession(s)
    BY WhatChangesAnnouncers
  <2> QED BY <2>1, <2>2, <2>3, <2>4
<1>2. ASSUME NEW r \in Req, up'[r].pub # None
      PROVE  /\ pc'[r] # "idle" /\ up'[r].pub \in Publisher
             /\ \E n \in Namespace :
                   /\ nsTask'[up'[r].pub][n] = "registered"
                   /\ Len(n) <= Len(req'[r].track.namespace)
                   /\ n = Prefix(req'[r].track.namespace, Len(n))
  <2> DEFINE ns == req[r].track.namespace
  <2>1. CASE up'[r].pub = up[r].pub
    <3>1. pc[r] # "idle" /\ up[r].pub \in Publisher
      BY <1>2, <2>1 DEF AnnouncerInv
    <3>2. req'[r] = req[r] /\ pc'[r] # "idle"
      BY <3>1, RequestsStay
    <3>3. PICK n \in Namespace :
             /\ nsTask[up[r].pub][n] = "registered"
             /\ Len(n) <= Len(ns) /\ n = Prefix(ns, Len(n))
      BY <1>2, <2>1 DEF AnnouncerInv, RoutedToAnnouncer
    <3>4. nsTask'[up[r].pub][n] = "registered"
      BY <3>1, <3>3, AnnouncedStays
    <3> QED BY <2>1, <3>1, <3>2, <3>3, <3>4
  <2>2. CASE /\ pc[r] = "lookup" /\ FindPublisher(ns) # None /\ up'[r].pub = FindPublisher(ns)
    <3>1. req'[r] = req[r] /\ pc'[r] # "idle" /\ req[r].track \in Track
      BY <2>2, RequestsStay DEF ControlInv, TaskInv, Subscribe
    <3>2. PICK n \in Namespace :
             /\ nsPublisher[n] = FindPublisher(ns)
             /\ Len(n) <= Len(ns) /\ n = Prefix(ns, Len(n))
      BY <2>2, <3>1, FoundIsRegistered
    <3>3. nsPublisher[n] \in Publisher /\ nsTask[nsPublisher[n]][n] = "registered"
      BY <2>2, <3>2 DEF AnnouncerInv, Types
    <3>4. nsTask'[nsPublisher[n]][n] = "registered"
      BY <3>3, AnnouncedStays
    <3> QED BY <2>2, <3>1, <3>2, <3>3, <3>4
  <2> QED BY <2>1, <2>2, WhoIsAsked
<1> QED BY <1>1, <1>2 DEF AnnouncerInv, RoutedToAnnouncer

\* A SUBSCRIBE goes upstream to a session that announced a prefix of its namespace.
THEOREM RequestsToAnnouncer == Spec => []RoutedToAnnouncer
<1>1. Init => AnnouncerInv
  BY DEF Init, AnnouncerInv, RoutedToAnnouncer, NoUpstream
<1>2. ControlInv /\ AnnouncerInv /\ [Next]_vars => AnnouncerInv'
  BY AnnouncerStep
<1>3. AnnouncerInv => RoutedToAnnouncer
  BY DEF AnnouncerInv
<1> QED BY <1>1, <1>2, <1>3, ControlInvariant, PTL DEF Spec

\* The publisher of a namespace changes only by a later announcement of it or with
\* the removal of its own session.
THEOREM AnnouncerIsKept == Spec => KeepsItsAnnouncer
<1> DEFINE Kept ==
      \A n \in Namespace : nsPublisher'[n] # nsPublisher[n] =>
          \/ \E p \in Publisher :
                /\ nsTask[p][n] = "register" /\ nsTask'[p][n] = "registered"
                /\ nsPublisher'[n] = p
          \/ /\ nsPublisher'[n] = None
             /\ loop[nsPublisher[n]] = "cleanup" /\ loop'[nsPublisher[n]] = "gone"
<1>1. ControlInv /\ [Next]_vars => [Kept]_vars
  <2> SUFFICES ASSUME Types, [Next]_vars, NEW n \in Namespace, nsPublisher'[n] # nsPublisher[n]
               PROVE  \/ \E p \in Publisher :
                            /\ nsTask[p][n] = "register" /\ nsTask'[p][n] = "registered"
                            /\ nsPublisher'[n] = p
                      \/ /\ nsPublisher'[n] = None
                         /\ loop[nsPublisher[n]] = "cleanup" /\ loop'[nsPublisher[n]] = "gone"
    BY DEF ControlInv
  <2>1. ASSUME NEW p \in Publisher, NEW m \in Namespace, RegisterNamespace(p, m)
        PROVE  /\ nsTask[p][n] = "register" /\ nsTask'[p][n] = "registered"
               /\ nsPublisher'[n] = p
    BY <2>1 DEF RegisterNamespace, Types
  <2>2. ASSUME NEW s \in Session, RemoveSession(s)
        PROVE  /\ nsPublisher'[n] = None
               /\ loop[nsPublisher[n]] = "cleanup" /\ loop'[nsPublisher[n]] = "gone"
    BY <2>2 DEF RemoveSession, Types
  <2> QED BY <2>1, <2>2, WhatChangesAnnouncers
<1>2. Spec => [][Kept]_vars
  BY <1>1, ControlInvariant, PTL DEF Spec
<1> QED BY <1>2 DEF KeepsItsAnnouncer
----------------------------------------------------------------------------
(* Tracks are aggregated *)

\* Who holds the guard of a track stands at a locked program counter, with a
\* message for that track.
HolderInv ==
    \A t \in Track : trackLock[t] # None =>
        req[trackLock[t]].track = t /\ pc[trackLock[t]] \in Locked

\* What a step of a task does to the guards of the tracks.
LEMMA LockShapes ==
    ASSUME Types, NEW r \in Req, HandleSubscribe(r)
    PROVE  /\ UNCHANGED req
           /\ \E l \in PcValues :
                 /\ pc' = [pc EXCEPT ![r] = l]
                 /\ \/ UNCHANGED trackLock /\ (pc[r] \in Locked <=> l \in Locked)
                    \/ TrackFree(r) /\ Acquire(r) /\ l \in Locked
                    \/ Release(r) /\ pc[r] \in Locked /\ l \notin Locked
<1> USE DEF Goto, PcValues, Locked
<1>1. CASE RejectFilter(r) \/ RejectName(r) \/ Aggregate(r) \/ NothingToJoin(r)
  BY <1>1 DEF RejectFilter, RejectName, Aggregate, NothingToJoin
<1>2. CASE FoundPublisher(r) \/ NoPublisher(r) \/ ForwardOk(r) \/ UpstreamEnds(r)
  BY <1>2 DEF FoundPublisher, NoPublisher, ForwardOk, UpstreamEnds
<1>3. CASE FindSubscriberRequests(r) \/ \E q \in Req : ForwardPublishDone(r, q)
  BY <1>3 DEF FindSubscriberRequests, ForwardPublishDone
<1>4. CASE AcquireTrackLock(r)
  BY <1>4 DEF AcquireTrackLock
<1>5. CASE ForwardAggregatedOk(r) \/ Reject(r) \/ UpstreamSubscribeFails(r)
             \/ RecordSubscription(r)
  BY <1>5 DEF ForwardAggregatedOk, Reject, UpstreamSubscribeFails, RecordSubscription
<1> QED BY <1>1, <1>2, <1>3, <1>4, <1>5 DEF HandleSubscribe

\* Only tasks take and release the guards.
LEMMA OthersLockNothing ==
    ASSUME [Next]_vars
    PROVE  \/ \E r \in Req : HandleSubscribe(r)
           \/ /\ UNCHANGED trackLock
              /\ \/ UNCHANGED <<req, pc>>
                 \/ \E s \in Subscriber, r \in Req, t \in Track, f \in Form :
                        ReceiveSubscribe(s, r, t, f)
BY DEF Next, Connection, Connect, LoseLink, LoopBreaks, RemoveSession, PublishNamespace,
       ReceivePublishNamespace, RegisterNamespace, ReceiveSubscribe, Peer, PublisherAccepts,
       PublisherFails, PublisherFinishes, StopReading, vars, taskVars

LEMMA HolderStep ==
    ASSUME ControlInv, HolderInv, [Next]_vars
    PROVE  HolderInv'
<1> Types
  BY DEF ControlInv
<1>1. CASE UNCHANGED <<trackLock, req, pc>>
  BY <1>1 DEF HolderInv
<1>2. ASSUME NEW s \in Subscriber, NEW r \in Req, NEW t \in Track, NEW f \in Form,
             ReceiveSubscribe(s, r, t, f)
      PROVE  HolderInv'
  <2>1. \A u \in Track : trackLock[u] # r
    BY <1>2, NoneAssumption DEF ReceiveSubscribe, HolderInv, Locked
  <2> QED BY <1>2, <2>1 DEF ReceiveSubscribe, Goto, HolderInv, Types
<1>3. ASSUME NEW r \in Req, HandleSubscribe(r) PROVE HolderInv'
  <2>1. pc[r] # "idle" /\ UNCHANGED req
    BY <1>3, LockShapes DEF HandleSubscribe, RejectFilter, RejectName, AcquireTrackLock,
         Aggregate, ForwardAggregatedOk, NothingToJoin, FoundPublisher, NoPublisher, Reject,
         UpstreamSubscribeFails, RecordSubscription, ForwardOk, UpstreamEnds,
         FindSubscriberRequests, ForwardPublishDone
  <2>2. req[r].track \in Track
    BY <2>1 DEF ControlInv, TaskInv, Subscribe
  <2>3. PICK l \in PcValues :
            /\ pc' = [pc EXCEPT ![r] = l]
            /\ \/ UNCHANGED trackLock /\ (pc[r] \in Locked <=> l \in Locked)
               \/ TrackFree(r) /\ Acquire(r) /\ l \in Locked
               \/ Release(r) /\ pc[r] \in Locked /\ l \notin Locked
    BY <1>3, LockShapes
  <2>4. CASE UNCHANGED trackLock /\ (pc[r] \in Locked <=> l \in Locked)
    BY <2>1, <2>3, <2>4 DEF HolderInv, Types
  <2>5. CASE TrackFree(r) /\ Acquire(r) /\ l \in Locked
    BY <2>1, <2>2, <2>3, <2>5 DEF HolderInv, Types, Acquire
  <2>6. CASE Release(r) /\ pc[r] \in Locked /\ l \notin Locked
    <3>1. trackLock' = [trackLock EXCEPT ![req[r].track] = None]
      BY <2>6 DEF Release
    <3>2. \A t \in Track : trackLock'[t] # None => trackLock'[t] = trackLock[t] /\ trackLock[t] # r
      BY <2>2, <3>1 DEF HolderInv, Types
    <3> QED BY <2>1, <2>3, <3>2 DEF HolderInv, Types
  <2> QED BY <2>3, <2>4, <2>5, <2>6
<1> QED BY <1>1, <1>2, <1>3, OthersLockNothing
\* The refinement mapping, track by track: who opens an upstream, and whose
\* upstream serves.
Opener(t) == IF trackLock[t] # None /\ Opening(trackLock[t]) THEN trackLock[t] ELSE None
Server(t) == IF Subscribed(t) THEN subscriptions[t].ok ELSE None

SameService == \A t \in Track : Server(t)' = Server(t) /\ Subscribers(t)' = Subscribers(t)

LEMMA NothingAggregated ==
    ASSUME SameService, \A t \in Track : Opener(t)' = Opener(t)
    PROVE  UNCHANGED Aggregation!aggVars
BY DEF SameService, Opener, Server, Aggregation!aggVars

LEMMA OpeningBegins ==
    ASSUME NEW t0 \in Track, NEW r \in Req, SameService, Opener(t0) = None, Server(t0) = None,
           \A t \in Track : Opener(t)' = IF t = t0 THEN r ELSE Opener(t)
    PROVE  Aggregation!BeginOpening(t0, r)
BY DEF SameService, Opener, Server, Aggregation!BeginOpening

LEMMA OpeningFails ==
    ASSUME NEW t0 \in Track, SameService, Opener(t0) # None,
           \A t \in Track : Opener(t)' = IF t = t0 THEN None ELSE Opener(t)
    PROVE  Aggregation!GiveUp(t0)
BY DEF SameService, Opener, Server, Aggregation!GiveUp

LEMMA OpeningSucceeds ==
    ASSUME NEW t0 \in Track, NEW r, Opener(t0) = r, r # None,
           \A t \in Track : /\ Opener(t)' = IF t = t0 THEN None ELSE Opener(t)
                            /\ Server(t)' = IF t = t0 THEN r ELSE Server(t)
                            /\ Subscribers(t)' = IF t = t0 THEN {r} ELSE Subscribers(t)
    PROVE  Aggregation!Establish(t0)
BY DEF Opener, Server, Aggregation!Establish

LEMMA SubscriberJoins ==
    ASSUME NEW t0 \in Track, NEW r \in Req, Opener(t0) = None, Server(t0) # None,
           \A t \in Track : /\ Opener(t)' = Opener(t)
                            /\ Server(t)' = Server(t)
                            /\ Subscribers(t)' = IF t = t0 THEN Subscribers(t) \cup {r}
                                                 ELSE Subscribers(t)
    PROVE  Aggregation!Join(t0, r)
BY DEF Opener, Server, Aggregation!Join

LEMMA SubscribersLeave ==
    ASSUME \A t \in Track : /\ Opener(t)' = Opener(t)
                            /\ Server(t)' \in Req \cup {None}
                            /\ Subscribers(t)' \in SUBSET Req
                            /\ Subscribers(t)' \subseteq Subscribers(t)
                            /\ Server(t)' = IF Subscribers(t)' = {} THEN None ELSE Server(t)
    PROVE  Aggregation!Leave
BY DEF Opener, Server, Aggregation!Leave
\* Of the tasks, r makes the step.
OnlyMoves(r) == \A q \in Req \ {r} : pc'[q] = pc[q]

\* A task moves the opener of its own track at most, and only from a locked
\* program counter or to one.
LEMMA OpenerMoves ==
    ASSUME ControlInv, HolderInv, NEW r \in Req, NEW t0 \in Track, req[r].track = t0,
           OnlyMoves(r),
           UNCHANGED trackLock \/ Acquire(r) \/ Release(r)
    PROVE  /\ \A t \in Track : t # t0 => Opener(t)' = Opener(t)
           /\ pc[r] \in Locked =>
                 Opener(t0) = IF Opening(r) THEN r ELSE None
           /\ pc[r] \in Locked /\ UNCHANGED trackLock =>
                 Opener(t0)' = IF pc'[r] \in {"lookup", "awaitOk"} THEN r ELSE None
           /\ pc[r] \notin Locked /\ UNCHANGED trackLock =>
                 Opener(t0)' = Opener(t0)
           /\ Release(r) => Opener(t0)' = None
           /\ Acquire(r) /\ pc'[r] = "check" => Opener(t0)' = None
<1> Types
  BY DEF ControlInv
<1> USE DEF Opening
<1>1. \A t \in Track : t # t0 => trackLock'[t] = trackLock[t] /\ trackLock[t] # r
  BY NoneAssumption DEF Acquire, Release, HolderInv, Types
<1>2. \A q \in Req \ {r} : pc'[q] = pc[q]
  BY DEF OnlyMoves
<1>3. \A t \in Track : t # t0 => Opener(t)' = Opener(t)
  BY <1>1, <1>2 DEF Opener, Types
<1>4. pc[r] \in Locked => trackLock[t0] = r /\ r # None
  BY NoneAssumption DEF ControlInv, LockInv
<1>5. pc[r] \notin Locked => trackLock[t0] # r
  BY NoneAssumption DEF HolderInv
<1>6. pc[r] \notin Locked /\ UNCHANGED trackLock => Opener(t0)' = Opener(t0)
  BY <1>2, <1>5 DEF Opener, Types
<1>7. Release(r) => trackLock'[t0] = None
  BY DEF Release, Types
<1>8. Acquire(r) => trackLock'[t0] = r
  BY DEF Acquire, Types
<1>9. pc[r] \in Locked /\ UNCHANGED trackLock =>
         Opener(t0)' = IF pc'[r] \in {"lookup", "awaitOk"} THEN r ELSE None
  BY <1>2, <1>4 DEF Opener
<1>10. Acquire(r) /\ pc'[r] = "check" => Opener(t0)' = None
  BY <1>2, <1>8 DEF Opener
<1>11. pc[r] \in Locked => Opener(t0) = IF Opening(r) THEN r ELSE None
  BY <1>4 DEF Opener
<1>12. Release(r) => Opener(t0)' = None
  BY <1>7 DEF Opener
<1> QED BY <1>3, <1>6, <1>9, <1>10, <1>11, <1>12

\* A step of a task is a step of TrackAggregation, or none of its business.
LEMMA TaskAggregates ==
    ASSUME ControlInv, HolderInv, NEW r \in Req, HandleSubscribe(r)
    PROVE  Aggregation!AggNext \/ UNCHANGED Aggregation!aggVars
<1> Types
  BY DEF ControlInv
<1> USE DEF Goto
<1>0. pc \in [Req -> PcValues]
  BY DEF Types
<1>1. PICK t0 \in Track : req[r].track = t0
  BY DEF HandleSubscribe, RejectFilter, RejectName, AcquireTrackLock,
         Aggregate, ForwardAggregatedOk, NothingToJoin, FoundPublisher, NoPublisher, Reject,
         UpstreamSubscribeFails, RecordSubscription, ForwardOk, UpstreamEnds,
         FindSubscriberRequests, ForwardPublishDone, ControlInv, TaskInv, Subscribe
<1>2. UNCHANGED subscriptions => SameService
  BY DEF SameService, Server, Subscribers, Subscribed
<1>3. CASE \/ RejectFilter(r) \/ RejectName(r) \/ ForwardOk(r) \/ UpstreamEnds(r)
           \/ FindSubscriberRequests(r) \/ \E q \in Req : ForwardPublishDone(r, q)
  <2>1. /\ UNCHANGED <<subscriptions, trackLock>> /\ pc[r] \notin Locked
        /\ OnlyMoves(r)
    BY <1>0, <1>3 DEF OnlyMoves, RejectFilter, RejectName, ForwardOk, UpstreamEnds,
         FindSubscriberRequests, ForwardPublishDone, stateVars, Locked
  <2>2. \A t \in Track : Opener(t)' = Opener(t)
    BY <1>1, <2>1, OpenerMoves
  <2> QED BY <1>2, <2>1, <2>2, NothingAggregated
<1>4. CASE AcquireTrackLock(r)
  <2>1. /\ UNCHANGED subscriptions /\ Acquire(r) /\ OnlyMoves(r) /\ pc'[r] = "check"
        /\ trackLock[t0] = None
    BY <1>0, <1>1, <1>4 DEF OnlyMoves, AcquireTrackLock, TrackFree, stateVars
  <2>2. \A t \in Track : Opener(t)' = Opener(t)
    <3>1. Opener(t0) = None
      BY <2>1 DEF Opener
    <3>2. Opener(t0)' = None
      BY <1>1, <2>1, OpenerMoves
    <3>3. \A t \in Track : t # t0 => Opener(t)' = Opener(t)
      BY <1>1, <2>1, OpenerMoves
    <3> QED BY <3>1, <3>2, <3>3
  <2> QED BY <1>2, <2>1, <2>2, NothingAggregated
<1>5. CASE FoundPublisher(r)
  <2>1. /\ UNCHANGED <<subscriptions, trackLock>> /\ pc[r] \in Locked /\ Opening(r)
        /\ OnlyMoves(r) /\ pc'[r] = "awaitOk"
    BY <1>0, <1>5 DEF OnlyMoves, FoundPublisher, stateVars, Locked, Opening
  <2>2. \A t \in Track : t # t0 => Opener(t)' = Opener(t)
    BY <1>1, <2>1, OpenerMoves
  <2>3. Opener(t0) = r
    BY <1>1, <2>1, OpenerMoves
  <2>4. Opener(t0)' = r
    BY <1>1, <2>1, OpenerMoves
  <2>5. \A t \in Track : Opener(t)' = Opener(t)
    BY <2>2, <2>3, <2>4
  <2> QED BY <1>2, <2>1, <2>5, NothingAggregated
<1>6. CASE ForwardAggregatedOk(r) \/ Reject(r)
  <2>1. /\ UNCHANGED subscriptions /\ Release(r) /\ pc[r] \in Locked /\ ~Opening(r)
        /\ OnlyMoves(r) /\ pc'[r] = "done"
    BY <1>0, <1>6 DEF OnlyMoves, ForwardAggregatedOk, Reject, stateVars, Locked, Opening
  <2>2. \A t \in Track : Opener(t)' = Opener(t)
    <3>1. Opener(t0) = None
      BY <1>1, <2>1, OpenerMoves
    <3>2. Opener(t0)' = None
      BY <1>1, <2>1, OpenerMoves
    <3>3. \A t \in Track : t # t0 => Opener(t)' = Opener(t)
      BY <1>1, <2>1, OpenerMoves
    <3> QED BY <3>1, <3>2, <3>3
  <2> QED BY <1>2, <2>1, <2>2, NothingAggregated
<1>7. CASE NothingToJoin(r)
  <2>1. /\ UNCHANGED <<subscriptions, trackLock>> /\ ~Subscribed(t0)
        /\ pc[r] \in Locked /\ ~Opening(r)
        /\ OnlyMoves(r) /\ pc'[r] = "lookup"
    BY <1>0, <1>1, <1>7 DEF OnlyMoves, NothingToJoin, stateVars, Locked, Opening
  <2>2. \A t \in Track : Opener(t)' = IF t = t0 THEN r ELSE Opener(t)
    <3>1. Opener(t0)' = r
      BY <1>1, <2>1, OpenerMoves
    <3>2. \A t \in Track : t # t0 => Opener(t)' = Opener(t)
      BY <1>1, <2>1, OpenerMoves
    <3> QED BY <3>1, <3>2
  <2>3. Opener(t0) = None /\ Server(t0) = None
    <3>1. Opener(t0) = None
      BY <1>1, <2>1, OpenerMoves
    <3> QED BY <2>1, <3>1 DEF Server
  <2>4. Aggregation!BeginOpening(t0, r)
    BY <1>1, <1>2, <2>1, <2>2, <2>3, OpeningBegins
  <2> QED BY <1>1, <2>4 DEF Aggregation!AggNext
<1>8. CASE NoPublisher(r) \/ UpstreamSubscribeFails(r)
  <2>1. /\ UNCHANGED subscriptions /\ pc[r] \in Locked /\ Opening(r)
        /\ OnlyMoves(r) /\ pc'[r] \in {"reject", "done"}
        /\ UNCHANGED trackLock \/ Release(r)
    BY <1>0, <1>8 DEF OnlyMoves, NoPublisher, UpstreamSubscribeFails, stateVars, Locked, Opening
  <2>2. \A t \in Track : t # t0 => Opener(t)' = Opener(t)
    BY <1>1, <2>1, OpenerMoves
  <2>3. Opener(t0) = r /\ r # None
    BY <1>1, <2>1, OpenerMoves, NoneAssumption
  <2>4. Opener(t0)' = None
    <3>1. CASE Release(r)
      BY <1>1, <2>1, <3>1, OpenerMoves
    <3>2. CASE UNCHANGED trackLock
      BY <1>1, <2>1, <3>2, OpenerMoves
    <3> QED BY <2>1, <3>1, <3>2
  <2>5. \A t \in Track : Opener(t)' = IF t = t0 THEN None ELSE Opener(t)
    BY <2>2, <2>4
  <2>6. Aggregation!GiveUp(t0)
    BY <1>1, <1>2, <2>1, <2>3, <2>5, OpeningFails
  <2> QED BY <1>1, <2>6 DEF Aggregation!AggNext
<1>9. CASE Aggregate(r)
  <2>1. /\ UNCHANGED trackLock /\ pc[r] \in Locked /\ ~Opening(r)
        /\ OnlyMoves(r) /\ pc'[r] = "forwardAggregated"
    BY <1>0, <1>9 DEF OnlyMoves, Aggregate, Locked, Opening
  <2>2. \A t \in Track : Opener(t)' = Opener(t)
    <3>1. Opener(t0) = None
      BY <1>1, <2>1, OpenerMoves
    <3>2. Opener(t0)' = None
      BY <1>1, <2>1, OpenerMoves
    <3>3. \A t \in Track : t # t0 => Opener(t)' = Opener(t)
      BY <1>1, <2>1, OpenerMoves
    <3> QED BY <3>1, <3>2, <3>3
  <2>3. /\ Subscribed(t0)
        /\ \A t \in Track : /\ Server(t)' = Server(t)
                            /\ Subscribers(t)' = IF t = t0 THEN Subscribers(t) \cup {r}
                                                 ELSE Subscribers(t)
    BY <1>1, <1>9, AggregateEffect DEF Server, Subscribers, Subscribed
  <2>4. subscriptions[t0].ok \in Req
    BY <1>1, <2>3 DEF Types, Subscribed, Subscription
  <2>5. Opener(t0) = None /\ Server(t0) # None
    <3>1. Opener(t0) = None
      BY <1>1, <2>1, OpenerMoves
    <3> QED BY <2>3, <2>4, <3>1, NoneAssumption DEF Server
  <2>6. Aggregation!Join(t0, r)
    BY <1>1, <2>2, <2>3, <2>5, SubscriberJoins
  <2> QED BY <1>1, <2>6 DEF Aggregation!AggNext
<1>10. CASE RecordSubscription(r)
  <2>1. /\ Release(r) /\ pc[r] \in Locked /\ Opening(r)
        /\ OnlyMoves(r) /\ pc'[r] = "forwardOk"
    BY <1>0, <1>10 DEF OnlyMoves, RecordSubscription, Locked, Opening
  <2>2. \A t \in Track : Opener(t)' = IF t = t0 THEN None ELSE Opener(t)
    <3>1. Opener(t0)' = None
      BY <1>1, <2>1, OpenerMoves
    <3>2. \A t \in Track : t # t0 => Opener(t)' = Opener(t)
      BY <1>1, <2>1, OpenerMoves
    <3> QED BY <3>1, <3>2
  <2>3. \A t \in Track : /\ Server(t)' = IF t = t0 THEN r ELSE Server(t)
                         /\ Subscribers(t)' = IF t = t0 THEN {r} ELSE Subscribers(t)
    BY <1>1, <1>10, RecordEffect DEF Server, Subscribers, Subscribed
  <2>4. Opener(t0) = r /\ r # None
    BY <1>1, <2>1, OpenerMoves, NoneAssumption
  <2>5. Aggregation!Establish(t0)
    BY <1>1, <2>2, <2>3, <2>4, OpeningSucceeds
  <2> QED BY <1>1, <2>5 DEF Aggregation!AggNext
<1> QED BY <1>3, <1>4, <1>5, <1>6, <1>7, <1>8, <1>9, <1>10 DEF HandleSubscribe

\* Neither does anybody else touch an opener.
LEMMA OthersOpenNothing ==
    ASSUME ControlInv, HolderInv, [Next]_vars, ~ \E r \in Req : HandleSubscribe(r)
    PROVE  \A t \in Track : Opener(t)' = Opener(t)
<1> Types
  BY DEF ControlInv
<1>1. ASSUME NEW s \in Subscriber, NEW r \in Req, NEW u \in Track, NEW f \in Form,
             ReceiveSubscribe(s, r, u, f), NEW t \in Track
      PROVE  Opener(t)' = Opener(t)
  <2>1. pc[r] = "idle" /\ pc' = [pc EXCEPT ![r] = "filter"] /\ UNCHANGED trackLock
    BY <1>1 DEF ReceiveSubscribe, Goto
  <2>2. trackLock[t] # r
    BY <2>1, NoneAssumption DEF HolderInv, Locked
  <2> QED BY <2>1, <2>2 DEF Opener, Opening, Types
<1>2. CASE UNCHANGED <<trackLock, pc>>
  BY <1>2 DEF Opener, Opening
<1> QED BY <1>1, <1>2, OthersLockNothing

\* A removal is the departure of subscribers.
LEMMA RemovalAggregates ==
    ASSUME ControlInv, HolderInv, NoEmptySubscription', Types', [Next]_vars,
           NEW s \in Session, RemoveSession(s)
    PROVE  Aggregation!Leave
<1> Types
  BY DEF ControlInv
<1>1. UNCHANGED <<trackLock, pc>>
  BY DEF RemoveSession, taskVars
<1>2. \A t \in Track : Opener(t)' = Opener(t)
  BY <1>1 DEF Opener, Opening
<1>3. ASSUME NEW t \in Track
      PROVE  /\ Server(t)' \in Req \cup {None}
             /\ Subscribers(t)' \in SUBSET Req
             /\ Subscribers(t)' \subseteq Subscribers(t)
             /\ Server(t)' = IF Subscribers(t)' = {} THEN None ELSE Server(t)
  <2>1. Server(t)' \in Req \cup {None} /\ Subscribers(t)' \in SUBSET Req
    BY DEF Types, Server, Subscribers, Subscribed, Subscription
  <2>2. /\ Subscribers(t)' \subseteq Subscribers(t)
        /\ Subscribed(t)' => Subscribed(t) /\ subscriptions'[t].ok = subscriptions[t].ok
    BY RemoveEffect
  <2>3. Subscribed(t)' <=> Subscribers(t)' # {}
    BY DEF NoEmptySubscription, Subscribers
  <2>4. Server(t)' = IF Subscribers(t)' = {} THEN None ELSE Server(t)
    BY <2>2, <2>3 DEF Server
  <2> QED BY <2>1, <2>2, <2>4
<1> QED BY <1>2, <1>3, SubscribersLeave

\* The relay implements TrackAggregation: one upstream of a track at a time,
\* joined while it exists, forgotten with its last subscriber.
THEOREM Refinement == Spec => ImplementsAggregation
<1>1. Init => Aggregation!AggInit
  BY NoneAssumption DEF Init, Aggregation!AggInit, Subscribed, Subscribers
<1>2. Init => HolderInv
  BY DEF Init, HolderInv
<1>3. ControlInv /\ HolderInv /\ [Next]_vars => HolderInv'
  BY HolderStep
<1>4. ControlInv /\ HolderInv /\ NoEmptySubscription' /\ ControlInv' /\ [Next]_vars
        => [Aggregation!AggNext]_Aggregation!aggVars
  <2> SUFFICES ASSUME ControlInv, HolderInv, NoEmptySubscription', ControlInv', [Next]_vars
               PROVE  Aggregation!AggNext \/ UNCHANGED Aggregation!aggVars
    OBVIOUS
  <2>1. ASSUME NEW r \in Req, HandleSubscribe(r)
        PROVE  Aggregation!AggNext \/ UNCHANGED Aggregation!aggVars
    BY <2>1, TaskAggregates
  <2>2. ASSUME NEW s \in Session, RemoveSession(s) PROVE Aggregation!AggNext
    <3>1. Types'
      BY DEF ControlInv
    <3> QED BY <2>2, <3>1, RemovalAggregates DEF Aggregation!AggNext
  <2>3. CASE UNCHANGED subscriptions /\ ~ \E r \in Req : HandleSubscribe(r)
    <3>1. SameService
      BY <2>3 DEF SameService, Server, Subscribers, Subscribed
    <3> QED BY <2>3, <3>1, OthersOpenNothing, NothingAggregated
  <2>4. ASSUME NEW r \in Req, Aggregate(r) \/ RecordSubscription(r) PROVE HandleSubscribe(r)
    BY <2>4 DEF HandleSubscribe
  <2> QED BY <2>1, <2>2, <2>3, <2>4, WhatChangesSubscriptions
<1> QED BY <1>1, <1>2, <1>3, <1>4, ControlInvariant, NoneEmpty, PTL
        DEF Spec, ImplementsAggregation, Aggregation!AggSpec
=============================================================================
