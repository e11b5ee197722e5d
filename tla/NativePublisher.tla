--------------------------- MODULE NativePublisher ---------------------------
(***************************************************************************)
(* moqt-pub (moqt-pub/src/main.rs), in pipe mode or in demo mode.          *)
(*                                                                         *)
(* In pipe mode a blocking thread parses stdin and hands frames to the     *)
(* main task through a bounded channel.  The two share nothing else.  A    *)
(* frame is its number in the input; in demo mode, the number of the       *)
(* object.  A step of the main task is a stretch between two awaits.       *)
(***************************************************************************)
EXTENDS Session

CONSTANTS
    MaxFrames,      \* the bound on the frames of the input
    Room,           \* the channel holds this many (64)
    DemoGroups,     \* groups in demo mode (5)
    DemoObjects,    \* objects of each (3)
    Scenarios       \* the scenarios looked at

ASSUME PublisherAssumption ==
    /\ MaxFrames \in Nat \ {0} /\ Room \in Nat \ {0}
    /\ DemoGroups \in Nat \ {0} /\ DemoObjects \in Nat \ {0}
    /\ DemoGroups * DemoObjects <= MaxFrames

Frame == 1..MaxFrames
Group == 0..(MaxFrames - 1)

\* What a behaviour starts from.
Scenario == [mode   : {"pipe", "demo"},
             frames : 0..MaxFrames,     \* at most so many are read in pipe mode
             asks   : SUBSET Upstream,  \* the SUBSCRIBEs that may be sent upstream
             timely : BOOLEAN,          \* sleeps outlast what is on its way
             breaks : SUBSET Conn]      \* connections that may be lost

ASSUME ScenarioAssumption == Scenarios \subseteq Scenario

VARIABLES
    scenario,
    stdin,          \* where the thread stands
    input,          \* how many frames it has read
    keys,           \* those that are keyframes
    channel,        \* frames on their way to the main task, oldest first
    main,           \* where the main task stands
    request,        \* the SUBSCRIBE it took, or None
    frame,          \* the frame it took last
    groupId, currentGroup, groupStarted, streamCount,
    stream          \* what was written to the stream of each group

threadVars == <<stdin, input, keys>>
loopVars   == <<frame, groupId, currentGroup, groupStarted, streamCount, stream>>
publisher  == <<scenario, threadVars, channel, main, request, loopVars>>

NoStream == [st |-> "none", objs |-> << >>]

PublisherInit ==
    /\ scenario \in Scenarios
    /\ stdin = "off" /\ input = 0 /\ keys = {} /\ channel = << >>
    /\ main = "connect" /\ request = None
    /\ frame = 0
    /\ groupId = 0 /\ currentGroup = None /\ groupStarted = FALSE /\ streamCount = 0
    /\ stream = [g \in Group |-> NoStream]

----------------------------------------------------------------------------
\* From connect to SUBSCRIBE_OK

\* main returns, with or without an error: everything it holds is dropped, the
\* connection too.
Return == main' = "returned" /\ Close("pub")

ConnectPublisher ==
    /\ main = "connect"
    /\ ReadSetup("pub", "client")
    /\ UNCHANGED publisher

PublishNamespace ==
    /\ main = "connect" /\ Ready("pub", "client") /\ Up("pub")
    /\ OpenRequest("announce")
    /\ main' = "announce"
    /\ UNCHANGED <<link, setup, uni, answers>>
    /\ UNCHANGED <<scenario, threadVars, channel, request, loopVars>>

NamespaceAnswered ==
    /\ main = "announce"
    /\ Read("announce", Message("OK", 0))
    /\ main' = "await"
    /\ UNCHANGED <<link, setup, uni, requests>>
    /\ UNCHANGED <<scenario, threadVars, channel, request, loopVars>>

\* The one call of next_event.  The relay opens no data stream to a session
\* that has not subscribed and no request but SUBSCRIBE.
TakeSubscribe(r) ==
    /\ main = "await" /\ NextRequest("pub", "client", r)
    /\ request' = r
    /\ main' = "accept"
    /\ UNCHANGED <<link, setup, uni, nextId, id, answers>>
    /\ UNCHANGED <<scenario, threadVars, channel, loopVars>>

\* SUBSCRIBE_OK, whatever track is asked for; then the thread is started, or
\* the first group of the demo.
Accept ==
    /\ main = "accept" /\ Up("pub")
    /\ Answer(request, Message("OK", 0))
    /\ IF scenario.mode = "pipe" THEN main' = "recv" /\ stdin' = "read"
                        ELSE main' = "open" /\ UNCHANGED stdin
    /\ UNCHANGED <<link, setup, uni, requests>>
    /\ UNCHANGED <<scenario, input, keys, channel, request, loopVars>>

\* An await that needs the connection fails: ? ends main.
PublisherFails ==
    /\ main \in {"connect", "announce", "await", "accept", "open", "write", "done"}
    /\ Down("pub") /\ Return
    /\ UNCHANGED <<setup, uni, requests, answers>>
    /\ UNCHANGED <<scenario, threadVars, channel, request, loopVars>>

----------------------------------------------------------------------------
\* The blocking thread

\* send_from_stdin has returned, and its end of the channel is gone.
ReceiverGone == main \notin {"recv", "open", "write"}

StdinStep(where) ==
    /\ stdin' = where
    /\ UNCHANGED session
    /\ UNCHANGED <<scenario, main, request, loopVars>>

\* Stdin ends, also inside a header or a frame.
StdinEnds ==
    /\ stdin = "read"
    /\ StdinStep("over")
    /\ UNCHANGED <<input, keys, channel>>

\* The first one follows the file header.
ReadFrame ==
    /\ stdin = "read" /\ input < scenario.frames
    /\ input' = input + 1
    /\ \E key \in BOOLEAN : keys' = IF key THEN keys \cup {input'} ELSE keys
    /\ StdinStep("send")
    /\ UNCHANGED channel

\* Mutant: a frame that finds the channel full is dropped.
TrySend ==
    /\ stdin = "send"
    /\ IF ReceiverGone
         THEN StdinStep("over") /\ UNCHANGED channel
         ELSE /\ channel' = IF Len(channel) < Room THEN Append(channel, input) ELSE channel
              /\ StdinStep("read")
    /\ UNCHANGED <<input, keys>>

\* Mutant: a thread that waits for room does not notice that the main task is
\* gone.
SendWhenRoom ==
    /\ stdin = "send" /\ Len(channel) < Room
    /\ channel' = Append(channel, input)
    /\ StdinStep("read")
    /\ UNCHANGED <<input, keys>>

\* blocking_send waits for room, and fails when the receiver is gone.
BlockingSend ==
    /\ stdin = "send"
    /\ \/ /\ ReceiverGone
          /\ StdinStep("over") /\ UNCHANGED channel
       \/ /\ ~ReceiverGone /\ Len(channel) < Room
          /\ channel' = Append(channel, input)
          /\ StdinStep("read")
    /\ UNCHANGED <<input, keys>>

----------------------------------------------------------------------------
\* The main task in pipe mode

\* Mutant: the first frame is not told from the others.
EveryKeyEndsGroup(f) == f \in keys

\* A keyframe that ends a group.
EndsGroup(f) == f \in keys /\ groupStarted

\* Mutant: the stream is finished and stays the current one.
FinishedStaysCurrent ==
    /\ stream' = IF currentGroup = None THEN stream
                 ELSE [stream EXCEPT ![currentGroup].st = "fin"]
    /\ UNCHANGED currentGroup

\* FIN for the current group, if there is one; closing a stream that is open
\* does not fail.
FinishCurrent ==
    /\ stream' = IF currentGroup = None THEN stream
                 ELSE [stream EXCEPT ![currentGroup].st = "fin"]
    /\ currentGroup' = None

RecvFrame ==
    /\ main = "recv" /\ channel # << >>
    /\ frame' = Head(channel) /\ channel' = Tail(channel)
    /\ IF EndsGroup(frame')
         THEN /\ FinishCurrent
              /\ streamCount' = streamCount + 1 /\ groupId' = groupId + 1
         ELSE UNCHANGED <<stream, currentGroup, streamCount, groupId>>
    /\ main' = IF currentGroup' = None THEN "open" ELSE "write"
    /\ UNCHANGED session
    /\ UNCHANGED <<scenario, threadVars, request, groupStarted>>

\* open_subgroup, in both modes.
OpenSubgroup ==
    /\ main = "open" /\ Up("pub")
    /\ stream' = [stream EXCEPT ![groupId].st = "open"]
    /\ OpenStream("pub", "client", groupId)
    /\ currentGroup' = groupId /\ groupStarted' = TRUE
    /\ main' = "write"
    /\ UNCHANGED <<link, setup, requests, answers>>
    /\ UNCHANGED <<scenario, threadVars, channel, request, frame, groupId, streamCount>>

WriteFrame ==
    /\ scenario.mode = "pipe" /\ main = "write" /\ Up("pub")
    /\ stream' = [stream EXCEPT ![currentGroup].objs = Append(@, frame)]
    /\ main' = "recv"
    /\ UNCHANGED session
    /\ UNCHANGED <<scenario, threadVars, channel, request, frame, groupId, currentGroup,
                   groupStarted, streamCount>>

\* Mutant: the last group is closed by being dropped, and not counted.
LastGroupDropped ==
    /\ main = "recv" /\ channel = << >> /\ stdin = "over"
    /\ FinishCurrent
    /\ main' = "done"
    /\ UNCHANGED session
    /\ UNCHANGED <<scenario, threadVars, channel, request, frame, groupId, groupStarted, streamCount>>

\* The channel is empty and its sender gone.
ChannelClosed ==
    /\ main = "recv" /\ channel = << >> /\ stdin = "over"
    /\ FinishCurrent
    /\ streamCount' = IF currentGroup = None THEN streamCount ELSE streamCount + 1
    /\ main' = "done"
    /\ UNCHANGED session
    /\ UNCHANGED <<scenario, threadVars, channel, request, frame, groupId, groupStarted>>

----------------------------------------------------------------------------
\* The main task in demo mode

\* The last object of a group is followed by FIN without a wait.
WriteDemoObject ==
    /\ scenario.mode = "demo" /\ main = "write" /\ Up("pub")
    /\ frame' = frame + 1
    /\ LET objs == Append(stream[groupId].objs, frame')
           full == Len(objs) = DemoObjects
       IN  /\ stream' = [stream EXCEPT ![groupId] =
                            [st |-> IF full THEN "fin" ELSE "open", objs |-> objs]]
           /\ main' = IF full THEN "sleep" ELSE "write"
           /\ currentGroup' = IF full THEN None ELSE currentGroup
    /\ UNCHANGED session
    /\ UNCHANGED <<scenario, threadVars, channel, request, groupId, groupStarted, streamCount>>

\* 500 ms after each group; slept tells whether they may be over.
DemoSleeps(slept) ==
    /\ main = "sleep" /\ slept
    /\ groupId' = groupId + 1
    /\ main' = IF groupId' = DemoGroups THEN "done" ELSE "open"
    /\ UNCHANGED session
    /\ UNCHANGED <<scenario, threadVars, channel, request, frame, currentGroup, groupStarted,
                   streamCount, stream>>

----------------------------------------------------------------------------
\* The end

Announced == IF scenario.mode = "pipe" THEN streamCount ELSE DemoGroups

\* Mutant: pipe mode ends like demo mode.
DoneAndReturn ==
    /\ main = "done" /\ Up("pub")
    /\ Answer(request, Message("DONE", Announced)) /\ Return
    /\ UNCHANGED <<setup, uni, requests>>
    /\ UNCHANGED <<scenario, threadVars, channel, request, loopVars>>

\* PUBLISH_DONE.  Demo mode returns as soon as it is written.
SendPublishDone ==
    /\ main = "done" /\ Up("pub")
    /\ Answer(request, Message("DONE", Announced))
    /\ IF scenario.mode = "pipe" THEN main' = "linger" /\ UNCHANGED link ELSE Return
    /\ UNCHANGED <<setup, uni, requests>>
    /\ UNCHANGED <<scenario, threadVars, channel, request, loopVars>>

\* Pipe mode waits for a second.
Linger(lingered) ==
    /\ main = "linger" /\ lingered /\ Return
    /\ UNCHANGED <<setup, uni, requests, answers>>
    /\ UNCHANGED <<scenario, threadVars, channel, request, loopVars>>

\* The runtime waits for its blocking thread before the process ends.
ExitPublisher ==
    /\ main = "returned" /\ stdin \in {"off", "over"}
    /\ main' = "exited"
    /\ UNCHANGED session
    /\ UNCHANGED <<scenario, threadVars, channel, request, loopVars>>

----------------------------------------------------------------------------
StdinThread == StdinEnds \/ ReadFrame \/ BlockingSend

PublisherMain(slept, lingered) ==
    \/ ConnectPublisher \/ PublishNamespace \/ NamespaceAnswered
    \/ \E r \in Upstream : TakeSubscribe(r)
    \/ Accept \/ PublisherFails
    \/ RecvFrame \/ OpenSubgroup \/ WriteFrame \/ ChannelClosed
    \/ WriteDemoObject \/ DemoSleeps(slept)
    \/ SendPublishDone \/ Linger(lingered) \/ ExitPublisher
=============================================================================
