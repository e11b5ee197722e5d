----------------------------- MODULE NativeTrack -----------------------------
(***************************************************************************)
(* One track from moqt-pub through the relay to moqt-sub, from SETUP to    *)
(* the exit of both programs.                                              *)
(*                                                                         *)
(* The relay (relay.rs) is here as the two programs see it.  What happens  *)
(* between its tasks is Relay's and DataForward's business: looking a      *)
(* publisher up and asking it is one step, so is forwarding an object.     *)
(* Someone else may ask the relay for another track of this publisher;     *)
(* that request is "other", the one made for moqt-sub "upstream".          *)
(***************************************************************************)
EXTENDS NativePublisher, NativeSubscriber

ASSUME StreamAssumption == Stream = Group

VARIABLES
    loop,           \* handle_connection of a client: "running" or "gone"
    registered,     \* the publisher's namespace is registered
    handle,         \* where handle_subscribe stands for a request upstream
    serving,        \* those whose subscription is recorded, with its subscriber
    task,           \* where handle_data_stream stands for a group
    taken           \* how many objects of it the relay has read

relay == <<loop, registered, handle, serving>>
data  == <<task, taken>>
vars  == <<session, publisher, subscriber, copy, relay, data>>

Init ==
    /\ PublisherInit
    /\ LET started == "upstream" \in scenario.asks
       IN  /\ SubscriberInit(started)
           /\ SessionInit(IF started THEN Conn ELSE {"pub"})
    /\ loop = [c \in Conn |-> IF Up(c) THEN "running" ELSE "gone"] /\ registered = FALSE
    /\ handle = [u \in Upstream |-> "none"] /\ serving = {}
    /\ task = [g \in Group |-> "none"] /\ taken = [g \in Group |-> 0]

----------------------------------------------------------------------------
\* handle_connection

Clients == <<publisher, subscriber>>

RelaySetup(c) ==
    /\ ReadSetup(c, "relay")
    /\ UNCHANGED <<Clients, copy, relay, data>>

RegisterNamespace ==
    /\ loop["pub"] = "running" /\ NextRequest("pub", "relay", "announce")
    /\ registered' = TRUE
    /\ Answer("announce", Message("OK", 0))
    /\ UNCHANGED <<link, setup, uni, nextId, id>>
    /\ UNCHANGED <<Clients, copy, loop, handle, serving, data>>

\* The last holder of the subscriber's request drops it.
DropRequest == Answer("subscribe", Message("FIN", 0))

\* The loop of a client breaks, and remove_session takes out its namespace and
\* its subscriptions.  moqt-sub's request is dropped with its subscription,
\* unless a task holds it.
RemoveSession(c) ==
    /\ loop[c] = "running" /\ Down(c)
    /\ loop' = [loop EXCEPT ![c] = "gone"]
    /\ registered' = (registered /\ c # "pub")
    /\ serving' = IF c = "pub" THEN {} ELSE serving \ {"upstream"}
    /\ IF "upstream" \in serving /\ handle["upstream"] = "over"
         THEN DropRequest ELSE UNCHANGED answers
    /\ UNCHANGED <<link, setup, uni, requests>>
    /\ UNCHANGED <<Clients, copy, handle, data>>

----------------------------------------------------------------------------
\* handle_subscribe

Goto(u, where) == handle' = [handle EXCEPT ![u] = where]

\* moqt-sub's SUBSCRIBE is refused or sent upstream.
HandleSubscribe ==
    /\ loop["sub"] = "running" /\ Ready("sub", "relay") /\ bidi["sub"]["client"] # << >>
    /\ LET left == [bidi EXCEPT !["sub"]["client"] = Tail(@)]
       IN  IF registered /\ Up("pub")
             THEN /\ id' = [id EXCEPT !["upstream"] = nextId["pub"]["relay"]]
                  /\ nextId' = [nextId EXCEPT !["pub"]["relay"] = @ + 2]
                  /\ bidi' = [left EXCEPT !["pub"]["relay"] = Append(@, "upstream")]
                  /\ Goto("upstream", "awaitOk")
                  /\ UNCHANGED answers
             ELSE /\ bidi' = left
                  /\ Goto("upstream", "over")
                  /\ Answer("subscribe", Message(IF registered THEN "FIN" ELSE "ERROR", 0))
                  /\ UNCHANGED <<nextId, id>>
    /\ UNCHANGED <<link, setup, uni>>
    /\ UNCHANGED <<Clients, copy, loop, registered, serving, data>>

OtherAsks ==
    /\ "other" \in scenario.asks /\ handle["other"] = "none"
    /\ registered /\ Up("pub")
    /\ OpenRequest("other")
    /\ Goto("other", "awaitOk")
    /\ UNCHANGED <<link, setup, uni, answers>>
    /\ UNCHANGED <<Clients, copy, loop, registered, serving, data>>

RecordSubscription(u) ==
    /\ handle[u] = "awaitOk" /\ Read(u, Message("OK", 0))
    /\ serving' = serving \cup {u}
    /\ Goto(u, IF u = "upstream" THEN "forwardOk" ELSE "awaitDone")
    /\ UNCHANGED <<link, setup, uni, requests>>
    /\ UNCHANGED <<Clients, copy, loop, registered, data>>

ForwardOk ==
    /\ handle["upstream"] = "forwardOk"
    /\ IF Up("sub") THEN Answer("subscribe", Message("OK", 0)) /\ Goto("upstream", "awaitDone")
                    ELSE Goto("upstream", "over") /\ UNCHANGED answers
    /\ UNCHANGED <<link, setup, uni, requests>>
    /\ UNCHANGED <<Clients, copy, loop, registered, serving, data>>

\* PUBLISH_DONE goes to those recorded now.  If moqt-sub's request is not held
\* by a subscription any more, it is dropped when the task ends.
ForwardPublishDone(u) ==
    /\ handle[u] = "awaitDone" /\ answers[u] # << >>
    /\ LET m == IF u \in serving THEN Head(answers[u]) ELSE Message("FIN", 0)
           told == u = "upstream" /\ Up("sub")
       IN  answers' = [r \in Request |-> CASE r = u -> Tail(answers[r])
                                          [] r = "subscribe" /\ told -> Append(answers[r], m)
                                          [] OTHER -> answers[r]]
    /\ Goto(u, "over")
    /\ UNCHANGED <<link, setup, uni, requests>>
    /\ UNCHANGED <<Clients, copy, loop, registered, serving, data>>

\* Mutant: a task that waits for an answer does not notice the lost publisher.
OnlyDoneFails(u) ==
    /\ handle[u] = "awaitDone" /\ Down("pub")
    /\ Goto(u, "over")
    /\ IF u = "upstream" /\ u \notin serving THEN DropRequest ELSE UNCHANGED answers
    /\ UNCHANGED <<link, setup, uni, requests>>
    /\ UNCHANGED <<Clients, copy, loop, registered, serving, data>>

\* The publisher is lost: ? ends the task, and the request is dropped with it
\* unless the subscription holds it.
UpstreamLost(u) ==
    /\ handle[u] \in {"awaitOk", "awaitDone"} /\ Down("pub")
    /\ Goto(u, "over")
    /\ IF u = "upstream" /\ u \notin serving THEN DropRequest ELSE UNCHANGED answers
    /\ UNCHANGED <<link, setup, uni, requests>>
    /\ UNCHANGED <<Clients, copy, loop, registered, serving, data>>

----------------------------------------------------------------------------
\* handle_data_stream

ReceiveStream(g) ==
    /\ loop["pub"] = "running" /\ NextStream("pub", "relay", g)
    /\ task' = [task EXCEPT ![g] = "lookup"]
    /\ UNCHANGED <<link, setup, requests, answers>>
    /\ UNCHANGED <<Clients, copy, relay, taken>>

\* A stream that comes before the subscription is recorded is thrown away;
\* what the other subscriber gets is not looked at.
LookUp(g) ==
    /\ task[g] = "lookup"
    /\ IF "upstream" \in serving /\ Up("sub")
         THEN /\ OpenStream("sub", "relay", g)
              /\ copy' = [copy EXCEPT ![g].st = "open"]
              /\ task' = [task EXCEPT ![g] = "copy"]
         ELSE task' = [task EXCEPT ![g] = "drain"] /\ UNCHANGED <<uni, copy>>
    /\ UNCHANGED <<link, setup, requests, answers>>
    /\ UNCHANGED <<Clients, relay, taken>>

ForwardObject(g) ==
    /\ task[g] = "copy" /\ taken[g] < Len(stream[g].objs)
    /\ taken' = [taken EXCEPT ![g] = @ + 1]
    /\ IF Up("sub")
         THEN /\ copy' = [copy EXCEPT ![g].objs = Append(@, stream[g].objs[taken'[g]])]
              /\ UNCHANGED task
         ELSE task' = [task EXCEPT ![g] = "drain"] /\ UNCHANGED copy
    /\ UNCHANGED session
    /\ UNCHANGED <<Clients, relay>>

\* Mutant: the end of a stream is passed on as soon as it is sent.
EndsWithFin(g) == stream[g].st = "fin"

\* The stream is read to its end, or broke off.
AtEnd(g) == stream[g].st = "fin" /\ taken[g] = Len(stream[g].objs)

EndOfStream(g) ==
    /\ task[g] \in {"copy", "drain"}
    /\ \/ AtEnd(g) \/ Down("pub")
       \/ task[g] = "drain" /\ stream[g].st = "fin"
    /\ copy' = IF task[g] = "copy" /\ Up("sub") THEN [copy EXCEPT ![g].st = "fin"] ELSE copy
    /\ task' = [task EXCEPT ![g] = "over"]
    /\ UNCHANGED session
    /\ UNCHANGED <<Clients, relay, taken>>

----------------------------------------------------------------------------
\* Time.  A timely sleep ends after everything its program waits for has
\* arrived; another one may end at any moment.

Flushed == \A g \in Group : stream[g].st # "none" => task[g] = "over"

\* The relay has read all that moqt-pub has written, PUBLISH_DONE too.
PublisherFlushed == Flushed /\ handle[request] = "over"

\* Nothing the relay has for moqt-sub is still under way.
SubscriberDrained ==
    /\ uni["sub"]["relay"] = << >> /\ recv # "read"
    /\ \A g \in Group : task[g] \in {"none", "drain", "over"}
    /\ uni["pub"]["client"] = << >> \/ loop["pub"] = "gone"

----------------------------------------------------------------------------
Faults == \E c \in scenario.breaks : LoseLink(c)

Publisher ==
    PublisherMain(scenario.timely => (Flushed \/ Down("pub")),
                  scenario.timely => (PublisherFlushed \/ Down("pub")))

Subscriber == SubscriberMain(scenario.timely => (SubscriberDrained \/ Down("sub")))

HandleConnection(c) ==
    \/ RelaySetup(c) \/ RemoveSession(c)
    \/ c = "pub" /\ (RegisterNamespace \/ \E g \in Group : ReceiveStream(g))
    \/ c = "sub" /\ HandleSubscribe

HandleRequest(u) ==
    \/ RecordSubscription(u) \/ ForwardPublishDone(u) \/ UpstreamLost(u)
    \/ u = "upstream" /\ ForwardOk

HandleStream(g) == LookUp(g) \/ ForwardObject(g) \/ EndOfStream(g)

Relay ==
    \/ \E c \in Conn : HandleConnection(c)
    \/ \E u \in Upstream : HandleRequest(u)
    \/ \E g \in Group : HandleStream(g)

\* What tokio runs as soon as it can.
Running ==
    \/ (StdinThread \/ Publisher) /\ UNCHANGED <<subscriber, copy, relay, data>>
    \/ (Subscriber \/ ReceiveTask) /\ UNCHANGED <<publisher, relay, data>>
    \/ Relay

Next ==
    \/ Running
    \/ OtherAsks
    \/ Faults /\ UNCHANGED <<Clients, copy, relay, data>>

Spec == Init /\ [][Next]_vars

\* Something goes on as long as something can.  That is enough: the input ends,
\* so every task has a last step, and when none can go on all have had theirs.
FairSpec == Spec /\ WF_vars(Running)
=============================================================================
