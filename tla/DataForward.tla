---------------------------- MODULE DataForward ----------------------------
(***************************************************************************)
(* The data plane of moqt-relay: handle_data_stream (relay.rs) over the    *)
(* readers and writers of moqt-core (session/subgroup.rs, stream/data.rs). *)
(*                                                                         *)
(* A publisher sends each group of one track on a stream of its own.  The  *)
(* relay handles each stream in a task: it looks the subscribers up once,  *)
(* opens a copy of the stream to each, and forwards object by object,      *)
(* waiting for every subscriber in turn.  Subscriptions change meanwhile.  *)
(* An object is its number in the group.                                   *)
(***************************************************************************)
EXTENDS Naturals, Sequences

CONSTANTS
    Group,          \* the publisher's streams, one a group
    Subscriber,     \* sessions that subscribe, each once
    Opener,         \* the one whose SUBSCRIBE was sent upstream
    MaxObjects,     \* the bound on the objects of a group
    Leaver,         \* subscribers whose connection may be lost
    Canceller,      \* subscribers that may cancel a stream (STOP_SENDING)
    PublisherMayDie \* TRUE: the publisher may reset a stream or disappear

ASSUME SubscriberAssumption ==
    Opener \in Subscriber /\ Leaver \subseteq Subscriber /\ Canceller \subseteq Subscriber
ASSUME BoundAssumption == MaxObjects \in Nat
ASSUME FaultAssumption == PublisherMayDie \in BOOLEAN

VARIABLES
    upstream,   \* the relay's SUBSCRIBE upstream, from "asked" to "recorded"
    members,    \* Subscription.subscribers of the track
    link,       \* connections of the subscribers
    pub,        \* connection of the publisher
    src,        \* how a publisher's stream stands; "cut": not all of it arrives
    written,    \* how many objects the publisher wrote to it
    pc,         \* where handle_data_stream stands
    read,       \* how many objects it has read
    todo,       \* subscribers it has still to open or write to
    writers,    \* active_writers, without those in todo while it writes
    copy        \* the stream to a subscriber: its state and its objects

peers == <<upstream, members, link, pub>>
sources == <<src, written>>
tasks == <<pc, read, todo, writers>>
vars == <<upstream, members, link, pub, src, written, pc, read, todo, writers, copy>>

----------------------------------------------------------------------------
NoCopy == [st |-> "none", objs |-> << >>]

Init ==
    /\ upstream = "asked"
    /\ members = {}
    /\ link = [s \in Subscriber |-> "up"]
    /\ pub = "up"
    /\ src = [g \in Group |-> "none"]
    /\ written = [g \in Group |-> 0]
    /\ pc = [g \in Group |-> "none"]
    /\ read = [g \in Group |-> 0]
    /\ todo = [g \in Group |-> {}]
    /\ writers = [g \in Group |-> {}]
    /\ copy = [g \in Group |-> [s \in Subscriber |-> NoCopy]]

----------------------------------------------------------------------------
\* The subscription, as the control plane changes it

PublisherAccepts ==
    /\ upstream = "asked" /\ pub = "up"
    /\ upstream' = "accepted"
    /\ UNCHANGED <<members, link, pub, copy>> /\ UNCHANGED sources /\ UNCHANGED tasks

\* SUBSCRIBE_OK is read and the subscription recorded: not before, but maybe
\* well after the publisher sent its first stream.
RecordSubscription ==
    /\ upstream = "accepted"
    /\ upstream' = "recorded"
    /\ members' = {Opener}
    /\ UNCHANGED <<link, pub, copy>> /\ UNCHANGED sources /\ UNCHANGED tasks

Aggregate(s) ==
    /\ upstream = "recorded" /\ members # {} /\ s \notin members /\ link[s] = "up"
    /\ members' = members \cup {s}
    /\ UNCHANGED <<upstream, link, pub, copy>> /\ UNCHANGED sources /\ UNCHANGED tasks

LoseLink(s) ==
    /\ s \in Leaver /\ link[s] = "up"
    /\ link' = [link EXCEPT ![s] = "lost"]
    /\ UNCHANGED <<upstream, members, pub, copy>> /\ UNCHANGED sources /\ UNCHANGED tasks

RemoveSubscriber(s) ==
    /\ link[s] = "lost" /\ s \in members
    /\ members' = members \ {s}
    /\ UNCHANGED <<upstream, link, pub, copy>> /\ UNCHANGED sources /\ UNCHANGED tasks

\* Streams whose last bytes, or whose FIN, may still be under way.
UnderWay == {g \in Group : src[g] = "open" \/ (src[g] = "fin" /\ pc[g] # "done")}

\* The publisher's connection breaks, and with it every stream that is open; of
\* those that were finished, any that the relay has not read to the end, FIN or
\* not: what was not delivered is lost.
LosePublisher ==
    /\ PublisherMayDie /\ pub = "up"
    /\ pub' = "lost"
    /\ \E lost \in SUBSET UnderWay :
          /\ \A g \in Group : src[g] = "open" => g \in lost
          /\ src' = [g \in Group |-> IF g \in lost THEN "cut" ELSE src[g]]
    /\ UNCHANGED <<upstream, members, link, written, copy>> /\ UNCHANGED tasks

RemovePublisher ==
    /\ pub = "lost" /\ members # {}
    /\ members' = {}
    /\ UNCHANGED <<upstream, link, pub, copy>> /\ UNCHANGED sources /\ UNCHANGED tasks

----------------------------------------------------------------------------
\* The publisher's streams

OpenSubgroup(g) ==
    /\ pub = "up" /\ upstream # "asked" /\ src[g] = "none"
    /\ src' = [src EXCEPT ![g] = "open"]
    /\ UNCHANGED <<written, copy>> /\ UNCHANGED peers /\ UNCHANGED tasks

WriteObject(g) ==
    /\ src[g] = "open" /\ written[g] < MaxObjects
    /\ written' = [written EXCEPT ![g] = @ + 1]
    /\ UNCHANGED <<src, copy>> /\ UNCHANGED peers /\ UNCHANGED tasks

FinishSubgroup(g) ==
    /\ src[g] = "open"
    /\ src' = [src EXCEPT ![g] = "fin"]
    /\ UNCHANGED <<written, copy>> /\ UNCHANGED peers /\ UNCHANGED tasks

ResetSubgroup(g) ==
    /\ PublisherMayDie /\ src[g] = "open"
    /\ src' = [src EXCEPT ![g] = "cut"]
    /\ UNCHANGED <<written, copy>> /\ UNCHANGED peers /\ UNCHANGED tasks

----------------------------------------------------------------------------
\* A subscriber's copy of a stream

\* A write to the copy for s does not fail.
Writable(g, s) == link[s] = "up" /\ copy[g][s].st = "open"

CancelCopy(g, s) ==
    /\ s \in Canceller /\ Writable(g, s)
    /\ copy' = [copy EXCEPT ![g][s].st = "stopped"]
    /\ UNCHANGED peers /\ UNCHANGED sources /\ UNCHANGED tasks

\* FIN is sent to these subscribers, as far as they can be reached.
WithFin(g, fins) ==
    [copy EXCEPT ![g] = [s \in Subscriber |->
        IF s \in fins /\ Writable(g, s) THEN [copy[g][s] EXCEPT !.st = "fin"] ELSE copy[g][s]]]

----------------------------------------------------------------------------
\* handle_data_stream

\* next_event reads the SubgroupHeader, and the task is spawned.
Receive(g) ==
    /\ pub = "up" /\ src[g] # "none" /\ pc[g] = "none"
    /\ pc' = [pc EXCEPT ![g] = "lookup"]
    /\ UNCHANGED <<read, todo, writers, copy>> /\ UNCHANGED peers /\ UNCHANGED sources

\* find_subscriber_sessions, once for the whole stream.
LookUp(g) ==
    /\ pc[g] = "lookup"
    /\ todo' = [todo EXCEPT ![g] = members]
    /\ pc' = [pc EXCEPT ![g] = IF members = {} THEN "drain" ELSE "open"]
    /\ UNCHANGED <<read, writers, copy>> /\ UNCHANGED peers /\ UNCHANGED sources

OpenCopy(g, s) ==
    /\ pc[g] = "open" /\ s \in todo[g]
    /\ todo' = [todo EXCEPT ![g] = @ \ {s}]
    /\ pc' = [pc EXCEPT ![g] = IF todo[g] = {s} THEN "read" ELSE "open"]
    /\ IF link[s] = "up"
         THEN /\ writers' = [writers EXCEPT ![g] = @ \cup {s}]
              /\ copy' = [copy EXCEPT ![g][s].st = "open"]
         ELSE UNCHANGED <<writers, copy>>
    /\ UNCHANGED read /\ UNCHANGED peers /\ UNCHANGED sources

\* Mutant: the next object is read before all subscribers have the last one.
ReadAhead(g) ==
    /\ pc[g] \in {"read", "write"} /\ read[g] < written[g]
    /\ read' = [read EXCEPT ![g] = @ + 1]
    /\ todo' = [todo EXCEPT ![g] = writers[g] \cup @]
    /\ writers' = [writers EXCEPT ![g] = {}]
    /\ pc' = [pc EXCEPT ![g] = IF writers[g] \cup todo[g] = {} THEN "read" ELSE "write"]
    /\ UNCHANGED copy /\ UNCHANGED peers /\ UNCHANGED sources

\* A stream is read to its end also when no writer is left.
ReadObject(g) ==
    /\ pc[g] = "read" /\ read[g] < written[g]
    /\ read' = [read EXCEPT ![g] = @ + 1]
    /\ todo' = [todo EXCEPT ![g] = writers[g]]
    /\ writers' = [writers EXCEPT ![g] = {}]
    /\ pc' = [pc EXCEPT ![g] = IF writers[g] = {} THEN "read" ELSE "write"]
    /\ UNCHANGED copy /\ UNCHANGED peers /\ UNCHANGED sources

\* Mutant: the first subscriber that fails ends the task.
ForwardOrFail(g, s) ==
    /\ pc[g] = "write" /\ s \in todo[g]
    /\ todo' = [todo EXCEPT ![g] = @ \ {s}]
    /\ IF Writable(g, s)
         THEN /\ copy' = [copy EXCEPT ![g][s].objs = Append(@, read[g])]
              /\ writers' = [writers EXCEPT ![g] = @ \cup {s}]
              /\ pc' = [pc EXCEPT ![g] = IF todo[g] = {s} THEN "read" ELSE "write"]
         ELSE pc' = [pc EXCEPT ![g] = "done"] /\ UNCHANGED <<copy, writers>>
    /\ UNCHANGED read /\ UNCHANGED peers /\ UNCHANGED sources

\* The object's header and payload are written to one subscriber; one that
\* fails is left out from now on.
ForwardObject(g, s) ==
    /\ pc[g] = "write" /\ s \in todo[g]
    /\ todo' = [todo EXCEPT ![g] = @ \ {s}]
    /\ IF Writable(g, s)
         THEN /\ copy' = [copy EXCEPT ![g][s].objs = Append(@, read[g])]
              /\ writers' = [writers EXCEPT ![g] = @ \cup {s}]
         ELSE UNCHANGED <<copy, writers>>
    /\ pc' = [pc EXCEPT ![g] = IF todo[g] = {s} THEN "read" ELSE "write"]
    /\ UNCHANGED read /\ UNCHANGED peers /\ UNCHANGED sources

\* Mutant: FIN counts as soon as it is sent, whatever is still to be read.
EndsWithFin(g) == src[g] \in {"fin", "cut"}

\* read_object returns None: after the last object and FIN, or because a
\* broken stream fails to give the first field of an object.  Of a broken
\* stream, what was sent but not read yet may come or be lost.
AtEnd(g) == (src[g] = "fin" /\ read[g] = written[g]) \/ src[g] = "cut"

EndOfStream(g) ==
    /\ pc[g] = "read" /\ AtEnd(g)
    /\ copy' = WithFin(g, writers[g])
    /\ pc' = [pc EXCEPT ![g] = "done"]
    /\ UNCHANGED <<read, todo, writers>> /\ UNCHANGED peers /\ UNCHANGED sources

\* read_object fails inside an object: the task ends, and dropping the writers
\* sends FIN.
ReadFails(g) ==
    /\ pc[g] = "read" /\ src[g] = "cut"
    /\ copy' = WithFin(g, writers[g])
    /\ pc' = [pc EXCEPT ![g] = "done"]
    /\ UNCHANGED <<read, todo, writers>> /\ UNCHANGED peers /\ UNCHANGED sources

\* Nobody was subscribed: objects are read and thrown away, until the end or
\* the first error.
Drain(g) ==
    /\ pc[g] = "drain"
    /\ \/ read[g] < written[g] /\ read' = [read EXCEPT ![g] = @ + 1] /\ UNCHANGED pc
       \/ AtEnd(g) /\ pc' = [pc EXCEPT ![g] = "done"] /\ UNCHANGED read
    /\ UNCHANGED <<todo, writers, copy>> /\ UNCHANGED peers /\ UNCHANGED sources

----------------------------------------------------------------------------
Control ==
    \/ PublisherAccepts \/ RecordSubscription \/ LosePublisher \/ RemovePublisher
    \/ \E s \in Subscriber : Aggregate(s) \/ LoseLink(s) \/ RemoveSubscriber(s)

PublisherStream(g) ==
    OpenSubgroup(g) \/ WriteObject(g) \/ FinishSubgroup(g) \/ ResetSubgroup(g)

HandleDataStream(g) ==
    \/ Receive(g) \/ LookUp(g) \/ ReadObject(g) \/ EndOfStream(g) \/ ReadFails(g) \/ Drain(g)
    \/ \E s \in Subscriber : OpenCopy(g, s) \/ ForwardObject(g, s)

Next ==
    \/ Control
    \/ \E g \in Group : PublisherStream(g) \/ HandleDataStream(g)
    \/ \E g \in Group, s \in Subscriber : CancelCopy(g, s)

Spec == Init /\ [][Next]_vars
=============================================================================
