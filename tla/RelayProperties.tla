-------------------------- MODULE RelayProperties --------------------------
(***************************************************************************)
(* What the control plane of moqt-relay must do, and the fairness under    *)
(* which the tokio runtime and well-behaved peers make it do it.           *)
(***************************************************************************)
EXTENDS Relay

Types ==
    /\ link \in [Session -> {"none", "up", "lost"}]
    /\ loop \in [Session -> {"none", "running", "cleanup", "gone"}]
    /\ sessions \subseteq Session
    /\ nsPublisher \in [Namespace -> Publisher \cup {None}]
    /\ subscriptions \in [Track -> Subscription \cup {None}]
    /\ stateLock \in Req \cup {None}
    /\ trackLock \in [Track -> Req \cup {None}]
    /\ nsTask \in [Publisher -> [Namespace -> {"none", "register", "registered"}]]
    /\ req \in [Req -> Subscribe \cup {None}]
    /\ pc \in [Req -> PcValues]
    /\ ok \in [Req -> Req \cup {None}]
    /\ up \in [Req -> Upstream]
    /\ notify \in [Req -> SUBSET Req]
    /\ sent \in [Req -> Seq(Message)]
    /\ stopped \subseteq Req

\* Every variable keeps its type; a task that runs has a message, one that asked
\* for the track knows whom, and one that forwards an OK holds it.
TypeOK ==
    /\ Types
    /\ \A r \in Req :
          /\ pc[r] # "idle" => req[r] # None
          /\ pc[r] \in {"awaitOk", "forwardOk", "awaitDone"} => up[r].pub # None
          /\ pc[r] \in {"forwardAggregated", "forwardOk"} => ok[r] # None

----------------------------------------------------------------------------
\* Aggregation

Opening(r) == pc[r] \in {"lookup", "awaitOk"}

\* handle_subscribe reads "no subscription for this track" and acts on it
\* two waits later, when it records its own.  The answer stays true in
\* between and no other task of the track opens an upstream meanwhile: the
\* track lock is what prevents duplicate upstream SUBSCRIBEs.
CheckedAbsenceHolds ==
    \A r \in Req : Opening(r) =>
        /\ ~Subscribed(req[r].track)
        /\ \A q \in Req : Opening(q) /\ req[q].track = req[r].track => q = r

\* The track alias in the SUBSCRIBE_OK a subscriber was told is the one by
\* which the relay finds it when the publisher's data streams arrive.
ToldWhatIsRouted ==
    \A t \in Track : \A r \in Subscribers(t) : \A i \in DOMAIN sent[r] :
        sent[r][i].type = "SUBSCRIBE_OK" =>
            LET u == sent[r][i].via
            IN  up[u].pub = subscriptions[t].publisher /\ up[u].alias = subscriptions[t].alias

\* A data stream is relayed only to sessions that asked for the track its
\* publisher gave this alias: two publishers may use one alias.
RoutedToRequesters ==
    \A p \in Publisher, a \in Alias : \A s \in FindSubscriberSessions(p, a) :
        \E r, u \in Req :
            /\ pc[r] # "idle" /\ req[r].session = s
            /\ up[u].pub = p /\ up[u].alias = a /\ req[u].track = req[r].track

\* A subscription that is kept has a subscriber: an empty one would be joined
\* by the next SUBSCRIBE though nobody may be reading its upstream any more.
NoEmptySubscription == \A t \in Track : Subscribed(t) => Subscribers(t) # {}

\* A subscriber gets one SUBSCRIBE_OK or one REQUEST_ERROR, and no refused
\* request is ever served or told that the track ended.
OneAnswer ==
    \A r \in Req :
        /\ Cardinality({i \in DOMAIN sent[r] : sent[r][i].type # "PUBLISH_DONE"}) <= 1
        /\ (\E i \in DOMAIN sent[r] : sent[r][i].type = "REQUEST_ERROR") =>
              /\ Len(sent[r]) = 1
              /\ \A t \in Track : r \notin Subscribers(t)

\* Every subscriber data is relayed to was told SUBSCRIBE_OK, is just being
\* told, or cannot be told any more.
MembersAreTold ==
    \A t \in Track : \A r \in Subscribers(t) :
        \/ pc[r] \in {"forwardAggregated", "forwardOk"}
        \/ \E i \in DOMAIN sent[r] : sent[r][i].type = "SUBSCRIBE_OK"
        \/ ~Writable(r)

\* A SUBSCRIBE goes upstream to a session that announced a prefix of the
\* namespace, whatever registered or left since.
RoutedToAnnouncer ==
    \A r \in Req : up[r].pub # None =>
        \E n \in Namespace :
            /\ nsTask[up[r].pub][n] = "registered"
            /\ Len(n) <= Len(req[r].track.namespace)
            /\ n = Prefix(req[r].track.namespace, Len(n))

\* The publisher of a namespace changes only by a later PUBLISH_NAMESPACE for it
\* or with the removal of its own session: when two sessions announced one
\* namespace, the removal of the one that was replaced leaves the other's entry.
KeepsItsAnnouncer ==
    [][\A n \in Namespace : nsPublisher'[n] # nsPublisher[n] =>
          \/ \E p \in Publisher :
                /\ nsTask[p][n] = "register" /\ nsTask'[p][n] = "registered"
                /\ nsPublisher'[n] = p
          \/ /\ nsPublisher'[n] = None
             /\ loop[nsPublisher[n]] = "cleanup" /\ loop'[nsPublisher[n]] = "gone"
      ]_vars

\* A subscriber leaves a subscription only when its own session or the
\* publisher's is removed: the departure of one subscriber, of the one that
\* opened the upstream too, does not disturb the others.
LeavesWithItsSession ==
    [][\A t \in Track : \A r \in Subscribers(t) \ Subscribers(t)' :
          \/ loop[req[r].session] # "gone" /\ loop'[req[r].session] = "gone"
          \/ loop[subscriptions[t].publisher] # "gone" /\ loop'[subscriptions[t].publisher] = "gone"
      ]_vars

\* The relay implements TrackAggregation: the request that holds the track
\* lock and found nothing to join is the one that opens an upstream.
Aggregation == INSTANCE TrackAggregation WITH
    opening <- [t \in Track |->
        IF trackLock[t] # None /\ Opening(trackLock[t]) THEN trackLock[t] ELSE None],
    serving <- [t \in Track |-> IF Subscribed(t) THEN subscriptions[t].ok ELSE None],
    members <- [t \in Track |-> Subscribers(t)]

\* Tracks are aggregated as moqt-relay.md promises.
ImplementsAggregation == Aggregation!AggSpec

----------------------------------------------------------------------------
\* Liveness

\* tokio runs every task that can run; a broken connection is noticed.
RelayFairness ==
    /\ \A s \in Session :
          /\ WF_vars(link[s] = "lost" /\ LoopBreaks(s))
          /\ WF_vars(RemoveSession(s))
    /\ \A p \in Publisher, n \in Namespace :
          WF_vars(RegisterNamespace(p, n))
    /\ \A r \in Req : WF_vars(HandleSubscribe(r))

\* A publisher that stays connected answers a SUBSCRIBE.  The relay has no
\* timeout of its own, so it depends on this.
PublisherFairness ==
    \A r \in Req : WF_vars((\E a \in Alias : PublisherAccepts(r, a))
                              \/ (up[r].st = "sent" /\ PublisherFails(r)))

FairSpec == Spec /\ RelayFairness /\ PublisherFairness

Gone(r) == req[r] # None /\ ~Writable(r)

\* Request r is subscribed to the track that request u asked for.
Beside(r, u) == req[u] # None /\ r \in Subscribers(req[u].track)

UpstreamUp(u) == up[u].pub # None /\ link[up[u].pub] = "up"

Got(r, type) == \E i \in DOMAIN sent[r] : sent[r][i].type = type

\* Every SUBSCRIBE is answered, or its stream is closed, or the subscriber is
\* gone: no order of lock requests leaves tasks waiting for each other.
RequestsSettle ==
    \A r \in Req : pc[r] = "filter" ~>
        Got(r, "SUBSCRIBE_OK") \/ Got(r, "REQUEST_ERROR") \/ Closed(r) \/ Gone(r)

\* Who is subscribed when PUBLISH_DONE is received is told, whichever of the
\* aggregated subscribers have left by then, unless it or the publisher goes.
MembersHearTheEnd ==
    \A u, r \in Req :
        (pc[u] = "awaitDone" /\ up[u].st = "done" /\ Beside(r, u))
        ~> \/ ~UpstreamUp(u)
           \/ \E i \in DOMAIN sent[r] : sent[r][i] = Done(u)
           \/ Gone(r) \/ ~Beside(r, u)

----------------------------------------------------------------------------
\* Statements of the documentation that the code does not live up to

\* overview.md: a request stream carries SUBSCRIBE_OK before PUBLISH_DONE.
OkBeforeDone ==
    \A r \in Req : \A i \in DOMAIN sent[r] :
        sent[r][i].type = "PUBLISH_DONE" =>
            \E j \in 1..(i - 1) : sent[r][j].type = "SUBSCRIBE_OK"
=============================================================================
