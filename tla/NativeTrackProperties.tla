------------------------ MODULE NativeTrackProperties ------------------------
(***************************************************************************)
(* What moqt-pub, the relay and moqt-sub promise each other about a track. *)
(***************************************************************************)
EXTENDS NativeTrack, SequencesExt

LinkState    == {"up", "down"}
SetupState   == {"sent", "ready"}
StreamState  == {"none", "open", "fin"}
StdinState   == {"off", "read", "send", "over"}
MainState    == {"connect", "announce", "await", "accept", "recv", "open", "write", "sleep",
                 "done", "linger", "returned", "exited"}
SubState     == {"connect", "subscribe", "await", "linger", "closing", "ended"}
RecvState    == {"off", "next", "read", "over"}
HandleState  == {"none", "awaitOk", "forwardOk", "awaitDone", "over"}
TaskState    == {"none", "lookup", "copy", "drain", "over"}
MessageTypes == [type : {"OK", "ERROR", "DONE", "FIN"}, streams : Nat]
Written      == [st : StreamState, objs : Seq(Frame)]

PublisherTypeOK ==
    /\ scenario \in Scenario
    /\ stdin \in StdinState /\ input \in 0..MaxFrames /\ keys \subseteq Frame
    /\ channel \in Seq(Frame) /\ main \in MainState /\ request \in Upstream \cup {None}
    /\ frame \in 0..MaxFrames /\ groupId \in Nat /\ streamCount \in Nat
    /\ currentGroup \in Group \cup {None} /\ groupStarted \in BOOLEAN
    /\ stream \in [Group -> Written]

SubscriberTypeOK ==
    /\ sub \in SubState /\ recv \in RecvState
    /\ reading \in Group \cup {None} /\ got \in [Group -> Nat]
    /\ played \in Seq(Group) /\ out \in Seq(Frame)
    /\ copy \in [Group -> Written]

SessionTypeOK ==
    /\ link \in [Conn -> LinkState] /\ setup \in [Conn -> [End -> SetupState]]
    /\ uni \in [Conn -> [End -> Seq(Group \cup {Control})]]
    /\ bidi \in [Conn -> [End -> Seq(Request)]]
    /\ nextId \in [Conn -> [End -> Nat]] /\ id \in [Request -> Nat \cup {None}]
    /\ answers \in [Request -> Seq(MessageTypes)]

RelayTypeOK ==
    /\ loop \in [Conn -> {"running", "gone"}] /\ registered \in BOOLEAN
    /\ handle \in [Upstream -> HandleState] /\ serving \subseteq Upstream
    /\ task \in [Group -> TaskState] /\ taken \in [Group -> Nat]

\* The variables have their types.  A group is opened only if a frame is there
\* for it, and the channel never holds more than it has room for.
TypeOK ==
    /\ PublisherTypeOK /\ SubscriberTypeOK /\ SessionTypeOK /\ RelayTypeOK
    /\ main = "open" => groupId \in Group
    /\ Len(channel) <= Room

----------------------------------------------------------------------------
\* moqt-pub

Objs(g) == stream[g].objs

Consecutive(s) == \A i \in 1..(Len(s) - 1) : s[i + 1] = s[i] + 1

\* What is written to the streams is the input, or the demo's objects, in order
\* and without a gap, however the thread and the main task take turns, however
\* often the channel is full, and wherever the connection is lost.
FramesInOrder ==
    \A g \in Group :
        /\ Consecutive(Objs(g))
        /\ Objs(g) # << >> =>
               \/ g = 0 /\ Head(Objs(g)) = 1
               \/ /\ g - 1 \in Group /\ Objs(g - 1) # << >>
                  /\ Head(Objs(g)) = Last(Objs(g - 1)) + 1

\* In pipe mode every group but the first begins with a keyframe, and no group
\* has one anywhere else but at its beginning: a subscriber can begin with any.
GroupsAtKeyframes ==
    scenario.mode = "pipe" =>
        \A g \in Group : \A i \in 1..Len(Objs(g)) :
            IF i = 1 THEN g = 0 \/ Objs(g)[i] \in keys ELSE Objs(g)[i] \notin keys

Opened == {g \in Group : stream[g].st # "none"}

\* PUBLISH_DONE, on its way to the relay or to moqt-sub, announces as many streams
\* as were opened, and all of them are finished.
CountedStreams ==
    \A r \in Request : \A i \in 1..Len(answers[r]) :
        answers[r][i].type = "DONE" =>
            /\ answers[r][i].streams = Cardinality(Opened)
            /\ \A g \in Opened : stream[g].st = "fin"

----------------------------------------------------------------------------
\* moqt-sub

Undisturbed == Up("pub") /\ Up("sub")

\* moqt-sub puts groups out one after the other, each once, and of each what
\* moqt-pub wrote, from its first object on.  It leaves a group only after its
\* last object, unless a connection is down.
PlayedInTurn ==
    /\ out = FlattenSeq([i \in 1..Len(played) |-> SubSeq(Objs(played[i]), 1, got[played[i]])])
    /\ IsInjective(played)
    /\ Undisturbed =>
           \A i \in 1..Len(played) :
               LET g == played[i]
               IN  \/ recv = "read" /\ i = Len(played)
                   \/ stream[g].st = "fin" /\ got[g] = Len(Objs(g))

\* In pipe mode, if no connection is lost and the sleeps are long enough, moqt-sub
\* ends having put out, whole, every group the relay began to copy to it: neither
\* does moqt-pub leave too early nor does moqt-sub.
PlayedToTheEnd ==
    (/\ scenario.mode = "pipe" /\ scenario.timely /\ scenario.breaks = {}
     /\ request = "upstream" /\ sub = "ended") =>
        \A g \in Group :
            copy[g].st # "none" => g \in ToSet(played) /\ got[g] = Len(Objs(g))

----------------------------------------------------------------------------
\* Liveness

\* A subscription recorded after its publisher's session was removed: nobody
\* takes it out again, and it holds moqt-sub's request open.
Orphaned == loop["pub"] = "gone" /\ "upstream" \in serving

\* In the end moqt-pub has left if a SUBSCRIBE ever reached it, also if its input
\* was still being read when the connection was lost, and moqt-sub has left in any
\* case, unless its subscription is orphaned.
ProgramsEnd ==
    <>[](/\ request # None => main = "exited"
         /\ sub = "ended" \/ Orphaned)

\* A SUBSCRIBE the relay sent to moqt-pub does not wait for ever, though moqt-pub
\* takes only one of them.
UpstreamsSettle ==
    (\E u \in Upstream : handle[u] = "awaitOk") ~> (\A u \in Upstream : handle[u] \in {"none", "over"})
=============================================================================
